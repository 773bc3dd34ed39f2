--------------------------- MODULE StreamGroupProofs ---------------------------
(***************************************************************************)
(* That the replicas of a stream agree, for every group and every stream.  *)
(* The invariants, and what they are made of, are in StreamGroupInv.       *)
(***************************************************************************)
EXTENDS StreamGroupInv, FiniteSetTheorems, TLAPS

-----------------------------------------------------------------------------
(***************************************************************************)
(* Sums, and the log.                                                      *)
(***************************************************************************)
\* Nothing is added up.
LEMMA SumNone ==
    ASSUME NEW w
    PROVE  Sum(w, 0) = 0
  <1>1. 1 .. 0 = {}
    OBVIOUS
  <1>2. Sums!Fold(w, 0, 0, {}) = 0
    BY Sums!FoldNothing
  <1>3. QED
    BY <1>1, <1>2 DEF Sum

\* One weight more.
LEMMA SumNext ==
    ASSUME NEW w, NEW n \in Nat \ {0}
    PROVE  Sum(w, n) = Sum(w, n - 1) + w[n]
  <1>1. PICK S : S = 1 .. n - 1
    OBVIOUS
  <1>2. 1 .. n = S \cup {n} /\ S \subseteq 1 .. n - 1
    BY <1>1
  <1>3. Sums!Fold(w, 0, 0, S \cup {n}) = AddWeight(w, 0, Sums!Fold(w, 0, 0, S), n)
    BY <1>2, Sums!FoldOne
  <1>4. Sums!Fold(w, 0, 0, 1 .. n) = AddWeight(w, 0, Sums!Fold(w, 0, 0, 1 .. n - 1), n)
    BY <1>1, <1>2, <1>3, Zenon
  <1>5. QED
    BY <1>4, Zenon DEF Sum, AddWeight

\* Sums of natural numbers.
LEMMA SumNat ==
    ASSUME NEW w, NEW n \in Nat, \A i \in 1 .. n : w[i] \in Nat
    PROVE  Sum(w, n) \in Nat
  <1>1. PICK S : S = 1 .. n
    OBVIOUS
  <1>2. Sums!Indices(S) /\ 0 \in Nat
    BY <1>1 DEF Sums!Indices
  <1>3. \A k \in S : \A t \in Nat : AddWeight(w, 0, t, k) \in Nat
    BY <1>1 DEF AddWeight
  <1>4. Sums!Fold(w, 0, 0, S) \in Nat
    BY <1>2, <1>3, Sums!FoldStays
  <1>5. QED
    BY <1>1, <1>4 DEF Sum

\* The same weights have the same sum.
LEMMA SumSame ==
    ASSUME NEW w, NEW v, NEW n \in Nat, \A i \in 1 .. n : w[i] = v[i]
    PROVE  Sum(w, n) = Sum(v, n)
  <1> DEFINE G == {k \in 0 .. n : Sum(w, k) = Sum(v, k)}
  <1>1. 0 \in G
    BY SumNone
  <1>2. ASSUME NEW k \in 1 .. n, k - 1 \in G PROVE k \in G
    <2>1. k \in Nat \ {0} /\ k \in 0 .. n /\ Sum(w, k - 1) = Sum(v, k - 1)
      BY <1>2
    <2>2. Sum(w, k) = Sum(w, k - 1) + w[k] /\ Sum(v, k) = Sum(v, k - 1) + v[k]
      BY <2>1, SumNext
    <2>3. QED
      BY <2>1, <2>2
  <1>3. n \in G
    <2> HIDE DEF G
    <2>1. QED
      BY <1>1, <1>2, Sums!UpTo
  <1>4. QED
    BY <1>3

\* The kinds of entries and what a message has.
LEMMA EntryFacts ==
    ASSUME NEW e \in Entry
    PROVE  /\ e.op \in {"empty", "delete", "purge", "msg", "batchMsg", "batchCommit"}
           /\ IsMsg(e) => /\ e.m \in Message /\ e.lseq \in Nat /\ e.b \in Nat /\ e.bs \in Nat
                          /\ ItemOf(e) \in Item
           /\ Width(e) \in Nat
  <1>1. CASE e \in MsgEntry
    BY <1>1 DEF MsgEntry, IsMsg, ItemOf, Item, Width
  <1>2. CASE e \in [op : {"empty"}]
    BY <1>2 DEF IsMsg, Width
  <1>3. CASE e \in [op : {"delete"}, seq : Nat \ {0}]
    BY <1>3 DEF IsMsg, Width
  <1>4. CASE e \in [op : {"purge"}, s : Nat, seq : Nat, keep : Nat, lseq : Nat]
    BY <1>4 DEF IsMsg, Width
  <1>5. QED
    BY <1>1, <1>2, <1>3, <1>4 DEF Entry

\* What waits after an entry.
LEMMA OpenNat ==
    ASSUME NEW l \in Seq(Entry), NEW i \in 0 .. Len(l)
    PROVE  Open(l, i) \in Nat /\ Open(l, 0) = 0
  <1>1. CASE i = 0
    BY <1>1 DEF Open
  <1>2. CASE i # 0
    <2>1. l[i] \in Entry
      BY <1>2
    <2>2. l[i].op = "batchMsg" => l[i].bs \in Nat
      BY <2>1, EntryFacts DEF IsMsg
    <2>3. QED
      BY <2>2 DEF Open
  <1>3. QED
    BY <1>1, <1>2

\* The weights of the entries.
LEMMA Weights ==
    ASSUME NEW l \in Seq(Entry), NEW i \in 1 .. Len(l)
    PROVE  /\ Widths(l)[i] = Width(l[i]) /\ Width(l[i]) \in Nat
           /\ Drops(l)[i] = IF IsBatch(l[i]) THEN 0 ELSE Open(l, i - 1)
           /\ Drops(l)[i] \in Nat /\ l[i] \in Entry
  <1>1. l[i] \in Entry /\ i \in DOMAIN l /\ i - 1 \in 0 .. Len(l)
    OBVIOUS
  <1>2. Width(l[i]) \in Nat
    BY <1>1, EntryFacts
  <1>3. Open(l, i - 1) \in Nat
    BY <1>1, OpenNat
  <1>4. QED
    BY <1>1, <1>2, <1>3 DEF Widths, Drops

\* The numbers of a log.
LEMMA SizeNat ==
    ASSUME NEW l \in Seq(Entry), NEW i \in 0 .. Len(l)
    PROVE  Size(l, i) \in Nat /\ Refused(l, i) \in Nat /\ Proposed(l, i) \in Nat
  <1>1. \A j \in 1 .. i : Widths(l)[j] \in Nat /\ Drops(l)[j] \in Nat
    BY Weights
  <1>2. i \in Nat
    OBVIOUS
  <1>3. Size(l, i) \in Nat
    BY <1>1, <1>2, SumNat DEF Size
  <1>4. Refused(l, i) \in Nat
    BY <1>1, <1>2, SumNat DEF Refused
  <1>5. QED
    BY <1>3, <1>4, OpenNat DEF Proposed

\* An empty log.
LEMMA SizeNone ==
    ASSUME NEW l
    PROVE  Size(l, 0) = 0 /\ Refused(l, 0) = 0
  BY SumNone DEF Size, Refused

\* What one entry adds.
LEMMA SizeNext ==
    ASSUME NEW l \in Seq(Entry), NEW i \in 1 .. Len(l)
    PROVE  /\ Size(l, i) = Size(l, i - 1) + Width(l[i])
           /\ Refused(l, i) = Refused(l, i - 1) + (IF IsBatch(l[i]) THEN 0 ELSE Open(l, i - 1))
  <1>1. i \in Nat \ {0}
    OBVIOUS
  <1>2. Sum(Widths(l), i) = Sum(Widths(l), i - 1) + Widths(l)[i]
    BY <1>1, SumNext
  <1>3. Sum(Drops(l), i) = Sum(Drops(l), i - 1) + Drops(l)[i]
    BY <1>1, SumNext
  <1>4. QED
    BY <1>2, <1>3, Weights DEF Size, Refused

\* Every proposed message takes one number.
LEMMA ProposedNext ==
    ASSUME NEW l, Grouped(l), NEW i \in 1 .. Len(l)
    PROVE  Proposed(l, i) = Proposed(l, i - 1) + (IF IsMsg(l[i]) THEN 1 ELSE 0)
  <1>1. l \in Seq(Entry) /\ GroupedAt(l, i)
    BY DEF Grouped
  <1>2. /\ Size(l, i) = Size(l, i - 1) + Width(l[i])
        /\ Refused(l, i) = Refused(l, i - 1) + (IF IsBatch(l[i]) THEN 0 ELSE Open(l, i - 1))
    BY <1>1, SizeNext
  <1>3. i - 1 \in 0 .. Len(l) /\ i > 0
    BY <1>1
  <1>4. /\ Size(l, i - 1) \in Nat /\ Refused(l, i - 1) \in Nat /\ Open(l, i - 1) \in Nat
    BY <1>1, <1>3, SizeNat, OpenNat
  <1>5. l[i].op \in {"empty", "delete", "purge", "msg", "batchMsg", "batchCommit"}
    BY <1>1, Weights, EntryFacts
  <1>6. IsMsg(l[i]) => l[i].bs \in Nat
    BY <1>1, Weights, EntryFacts
  <1>7. CASE l[i].op = "msg"
    <2>1. Open(l, i - 1) = 0
      BY <1>1, <1>7 DEF GroupedAt, IsBatch, Open
    <2>2. QED
      BY <1>2, <1>4, <1>7, <2>1 DEF Proposed, Width, IsMsg, IsBatch, Open
  <1>8. CASE IsBatch(l[i])
    <2>1. Open(l, i - 1) = l[i].bs - 1
      <3>1. CASE l[i].bs = 1
        BY <1>1, <1>3, <1>8, <3>1 DEF GroupedAt, IsBatch, Open
      <3>2. CASE l[i].bs > 1
        BY <1>1, <1>3, <1>8, <3>2 DEF GroupedAt, Open
      <3>3. QED
        BY <1>1, <1>8, <3>1, <3>2 DEF GroupedAt
    <2>2. IsMsg(l[i]) /\ l[i].bs \in Nat
      BY <1>6, <1>8 DEF IsMsg, IsBatch
    <2>3. Refused(l, i) = Refused(l, i - 1)
      BY <1>2, <1>4, <1>8
    <2>4. CASE l[i].op = "batchMsg"
      <3>1. Width(l[i]) = 0 /\ Open(l, i) = l[i].bs
        BY <1>3, <2>4 DEF Width, Open
      <3>2. QED
        BY <1>2, <1>4, <2>1, <2>2, <2>3, <3>1 DEF Proposed
    <2>5. CASE l[i].op = "batchCommit"
      <3>1. Width(l[i]) = l[i].bs /\ Open(l, i) = 0
        BY <2>5 DEF Width, Open
      <3>2. QED
        BY <1>2, <1>4, <2>1, <2>2, <2>3, <3>1 DEF Proposed
    <2>6. QED
      BY <1>8, <2>4, <2>5 DEF IsBatch
  <1>9. CASE l[i].op \in {"empty", "delete", "purge"}
    BY <1>2, <1>4, <1>9 DEF Proposed, Width, IsMsg, IsBatch, Open
  <1>10. QED
    BY <1>5, <1>7, <1>8, <1>9 DEF IsBatch

\* The numbers grow with the log.
LEMMA SizeGrows ==
    ASSUME NEW l, Grouped(l), NEW i \in 0 .. Len(l), NEW j \in i .. Len(l)
    PROVE  /\ Size(l, i) <= Size(l, j) /\ Refused(l, i) <= Refused(l, j)
           /\ Proposed(l, i) <= Proposed(l, j)
  <1>0. l \in Seq(Entry) /\ Len(l) \in Nat
    BY DEF Grouped
  <1> DEFINE G == {k \in 0 .. j : i + k <= j =>
                        /\ Size(l, i) <= Size(l, i + k) /\ Refused(l, i) <= Refused(l, i + k)
                        /\ Proposed(l, i) <= Proposed(l, i + k)}
  <1>1. 0 \in G
    <2>1. i + 0 = i /\ 0 \in 0 .. j
      BY <1>0
    <2>2. Size(l, i) \in Nat /\ Refused(l, i) \in Nat /\ Proposed(l, i) \in Nat
      BY <1>0, SizeNat
    <2>3. QED
      BY <2>1, <2>2
  <1>2. ASSUME NEW k \in 1 .. j - i, k - 1 \in G PROVE k \in G
    <2>1. k \in 0 .. j /\ i + k \in 1 .. Len(l) /\ i + (k - 1) = (i + k) - 1
          /\ i + (k - 1) \in 0 .. Len(l) /\ i + (k - 1) <= j
      BY <1>0
    <2>2. /\ Size(l, i + k) = Size(l, (i + k) - 1) + Width(l[i + k])
          /\ Refused(l, i + k) = Refused(l, (i + k) - 1)
                                  + (IF IsBatch(l[i + k]) THEN 0 ELSE Open(l, (i + k) - 1))
      BY <1>0, <2>1, SizeNext
    <2>3. Proposed(l, i + k) = Proposed(l, (i + k) - 1) + (IF IsMsg(l[i + k]) THEN 1 ELSE 0)
      BY <2>1, ProposedNext
    <2>4. Width(l[i + k]) \in Nat /\ Open(l, (i + k) - 1) \in Nat
      BY <1>0, <2>1, Weights, OpenNat
    <2>5. /\ Size(l, i) \in Nat /\ Refused(l, i) \in Nat /\ Proposed(l, i) \in Nat
          /\ Size(l, (i + k) - 1) \in Nat /\ Refused(l, (i + k) - 1) \in Nat
          /\ Proposed(l, (i + k) - 1) \in Nat
      BY <1>0, <2>1, SizeNat
    <2>6. /\ Size(l, i) <= Size(l, (i + k) - 1) /\ Refused(l, i) <= Refused(l, (i + k) - 1)
          /\ Proposed(l, i) <= Proposed(l, (i + k) - 1)
      BY <1>2, <2>1
    <2>7. QED
      BY <2>1, <2>2, <2>3, <2>4, <2>5, <2>6, SMTT(30)
  <1>3. j - i \in G
    <2>1. j - i \in Nat
      BY <1>0
    <2> HIDE DEF G
    <2>2. QED
      BY <1>1, <1>2, <2>1, Sums!UpTo
  <1>4. i + (j - i) = j
    BY <1>0
  <1>5. QED
    BY <1>3, <1>4

\* Every sequence up to the size is that of a message of one entry.
LEMMA Covered ==
    ASSUME NEW l, Grouped(l), NEW n \in 0 .. Len(l), NEW p \in 1 .. Size(l, n)
    PROVE  \E i \in 1 .. n : \E j \in 1 .. Width(l[i]) : p = Size(l, i - 1) + j
  <1>0. l \in Seq(Entry) /\ Len(l) \in Nat /\ Size(l, n) \in Nat
    BY SizeNat DEF Grouped
  <1> DEFINE A == {i \in 0 .. n : p <= Size(l, i)}
  <1>1. A \in SUBSET Nat /\ A # {}
    BY <1>0
  <1>2. PICK a \in A : \A y \in A : a <= y
    <2> HIDE DEF A
    <2>1. QED
      BY <1>1, Sums!LeastOf
  <1>3. a # 0
    <2>1. Size(l, 0) = 0
      BY SizeNone
    <2>2. QED
      BY <1>2, <2>1
  <1>4. a \in 1 .. n /\ a - 1 \in 0 .. n /\ a \in 1 .. Len(l) /\ a - 1 \in 0 .. Len(l)
    BY <1>0, <1>2, <1>3
  <1>5. Size(l, a - 1) < p /\ p <= Size(l, a) /\ Size(l, a - 1) \in Nat
    <2>1. Size(l, a - 1) \in Nat
      BY <1>0, <1>4, SizeNat
    <2>2. QED
      BY <1>0, <1>2, <1>4, <2>1
  <1>6. Size(l, a) = Size(l, a - 1) + Width(l[a]) /\ Width(l[a]) \in Nat
    BY <1>0, <1>4, SizeNext, Weights
  <1>7. p - Size(l, a - 1) \in 1 .. Width(l[a]) /\ p = Size(l, a - 1) + (p - Size(l, a - 1))
    BY <1>5, <1>6
  <1>8. QED
    BY <1>4, <1>7

\* The messages of a batch, counted back from entry i.
LEMMA Block ==
    ASSUME NEW l, Grouped(l), NEW i \in 1 .. Len(l), IsBatch(l[i]), NEW k \in 0 .. l[i].bs - 1
    PROVE  /\ i - k \in 1 .. i /\ IsBatch(l[i - k]) /\ l[i - k].bs = l[i].bs - k
           /\ l[i - k].b = l[i].b /\ (k > 0 => l[i - k].op = "batchMsg")
  <1>0. l \in Seq(Entry) /\ Len(l) \in Nat /\ l[i].bs \in 1 .. i
    BY DEF Grouped, GroupedAt
  <1> DEFINE Good(q) == /\ i - q \in 1 .. i /\ IsBatch(l[i - q]) /\ l[i - q].bs = l[i].bs - q
                        /\ l[i - q].b = l[i].b /\ (q > 0 => l[i - q].op = "batchMsg")
             G == {q \in 0 .. k : Good(q)}
  <1>1. 0 \in G
    BY <1>0
  <1>2. ASSUME NEW q \in 1 .. k, q - 1 \in G PROVE q \in G
    <2>0. Good(q - 1)
      BY <1>2
    <2>1. PICK h : h = i - (q - 1)
      OBVIOUS
    <2>2. h \in 1 .. Len(l) /\ IsBatch(l[h]) /\ l[h].bs = l[i].bs - (q - 1) /\ l[h].b = l[i].b
      BY <1>0, <2>0, <2>1
    <2>3. GroupedAt(l, h) /\ l[h].bs > 1
      BY <1>0, <2>2 DEF Grouped
    <2>4. /\ l[h - 1].op = "batchMsg" /\ l[h - 1].b = l[h].b /\ l[h - 1].bs = l[h].bs - 1
          /\ l[h].bs \in 1 .. h
      BY <2>2, <2>3 DEF GroupedAt
    <2>5. h - 1 = i - q
      BY <1>0, <2>1
    <2>6. h - 1 \in 1 .. i
      BY <1>0, <2>1, <2>2, <2>3, <2>4
    <2>7. IsBatch(l[h - 1])
      BY <2>4 DEF IsBatch
    <2>8. l[h].bs - 1 = l[i].bs - q
      BY <1>0, <2>2
    <2>9. Good(q)
      BY <2>2, <2>4, <2>5, <2>6, <2>7, <2>8
    <2>10. QED
      BY <2>9
  <1>3. k \in G
    <2>1. k \in Nat
      BY <1>0
    <2> HIDE DEF G
    <2>2. QED
      BY <1>1, <1>2, <2>1, Sums!UpTo
  <1>4. QED
    BY <1>3

\* Nothing waits before the first message of a batch.
LEMMA BlockStart ==
    ASSUME NEW l, Grouped(l), NEW i \in 1 .. Len(l), IsBatch(l[i])
    PROVE  i - l[i].bs \in 0 .. i - 1 /\ l[i].bs \in 1 .. i /\ Open(l, i - l[i].bs) = 0
  <1>1. l \in Seq(Entry) /\ Len(l) \in Nat /\ l[i].bs \in 1 .. i
    BY DEF Grouped, GroupedAt
  <1>2. PICK k : k = l[i].bs - 1
    OBVIOUS
  <1>3. k \in 0 .. l[i].bs - 1 /\ i - k = i - l[i].bs + 1 /\ i - l[i].bs \in 0 .. i - 1
        /\ l[i].bs - k = 1
    BY <1>1, <1>2
  <1>4. i - k \in 1 .. i /\ IsBatch(l[i - k]) /\ l[i - k].bs = l[i].bs - k
    BY <1>3, Block
  <1>5. PICK h : h = i - k
    OBVIOUS
  <1>6. h \in 1 .. Len(l) /\ IsBatch(l[h]) /\ l[h].bs = 1 /\ h - 1 = i - l[i].bs
    <2>1. h \in 1 .. i /\ IsBatch(l[h]) /\ l[h].bs = 1
      BY <1>3, <1>4, <1>5
    <2>2. h = i - l[i].bs + 1 /\ i <= Len(l)
      BY <1>3, <1>5
    <2>3. QED
      BY <1>1, <2>1, <2>2
  <1>7. GroupedAt(l, h)
    BY <1>6 DEF Grouped
  <1>8. h > 1 => l[h - 1].op # "batchMsg"
    BY <1>6, <1>7 DEF GroupedAt, IsBatch
  <1>9. h - 1 > 0 => h > 1
    BY <1>1, <1>6
  <1>10. Open(l, h - 1) = 0
    BY <1>8, <1>9 DEF Open
  <1>11. QED
    BY <1>1, <1>3, <1>6, <1>10

\* The messages of a batch, counted from its first one.
LEMMA BlockAt ==
    ASSUME NEW l, Grouped(l), NEW i \in 1 .. Len(l), IsBatch(l[i]), NEW j \in 1 .. l[i].bs
    PROVE  LET e == i - l[i].bs + j
           IN  /\ e \in 1 .. i /\ IsBatch(l[e]) /\ l[e].bs = j /\ l[e].b = l[i].b
               /\ j < l[i].bs => l[e].op = "batchMsg"
               /\ Open(l, e - 1) = j - 1
  <1>1. l \in Seq(Entry) /\ Len(l) \in Nat /\ l[i].bs \in 1 .. i
    BY DEF Grouped, GroupedAt
  <1>2. PICK k : k = l[i].bs - j
    OBVIOUS
  <1>3. PICK e : e = i - l[i].bs + j
    OBVIOUS
  <1>4. k \in 0 .. l[i].bs - 1 /\ i - k = e /\ l[i].bs - k = j /\ (j < l[i].bs => k > 0)
    BY <1>1, <1>2, <1>3, SMTT(30)
  <1>5. /\ e \in 1 .. i /\ IsBatch(l[e]) /\ l[e].bs = j /\ l[e].b = l[i].b
        /\ j < l[i].bs => l[e].op = "batchMsg"
    BY <1>4, Block
  <1>6. Open(l, e - 1) = j - 1
    <2>1. GroupedAt(l, e)
      BY <1>1, <1>5 DEF Grouped
    <2>2. CASE j > 1
      <3>1. l[e - 1].op = "batchMsg" /\ l[e - 1].bs = j - 1
        BY <1>5, <2>1, <2>2 DEF GroupedAt
      <3>2. e - 1 > 0
        BY <1>1, <1>3, <2>2
      <3>3. QED
        BY <3>1, <3>2 DEF Open
    <2>3. CASE j = 1
      <3>1. e - 1 = i - l[i].bs
        BY <1>1, <1>3, <2>3
      <3>2. Open(l, i - l[i].bs) = 0
        BY BlockStart
      <3>3. QED
        BY <2>3, <3>1, <3>2
    <2>4. QED
      BY <1>1, <2>2, <2>3
  <1>7. QED
    BY <1>3, <1>5, <1>6

\* While the messages of a batch wait, nothing is stored and nothing refused.
LEMMA BlockFlat ==
    ASSUME NEW l, Grouped(l), NEW i \in 1 .. Len(l), IsBatch(l[i]), NEW j \in 1 .. l[i].bs
    PROVE  LET e == i - l[i].bs + j
           IN  /\ Size(l, e - 1) = Size(l, i - l[i].bs)
               /\ Refused(l, e) = Refused(l, i - l[i].bs)
               /\ Refused(l, e - 1) = Refused(l, i - l[i].bs)
  <1>1. /\ l \in Seq(Entry) /\ Len(l) \in Nat /\ l[i].bs \in 1 .. i /\ i - l[i].bs \in 0 .. Len(l)
        /\ j \in Nat \ {0} /\ i \in Nat
    BY DEF Grouped, GroupedAt
  <1>2. PICK o : o = i - l[i].bs
    OBVIOUS
  <1> DEFINE Good(k) == Size(l, o + k) = Size(l, o) /\ Refused(l, o + k) = Refused(l, o)
             G == {k \in 0 .. j - 1 : Good(k)}
  <1>3. ASSUME NEW k \in 1 .. l[i].bs
        PROVE  /\ o + k \in 1 .. Len(l) /\ (o + k) - 1 = o + (k - 1)
               /\ Refused(l, o + k) = Refused(l, o + (k - 1))
               /\ k < l[i].bs => Size(l, o + k) = Size(l, o + (k - 1))
    <2>1. PICK e : e = o + k
      OBVIOUS
    <2>2. e \in 1 .. Len(l) /\ e - 1 = o + (k - 1) /\ e - 1 \in 0 .. Len(l)
      <3>1. o \in Nat /\ o + l[i].bs = i /\ i <= Len(l) /\ k \in Nat \ {0} /\ k <= l[i].bs
        BY <1>1, <1>2
      <3>2. QED
        BY <1>1, <2>1, <3>1
    <2>3. IsBatch(l[e]) /\ (k < l[i].bs => l[e].op = "batchMsg")
      BY <1>2, <2>1, BlockAt
    <2>4. /\ Size(l, e) = Size(l, e - 1) + Width(l[e])
          /\ Refused(l, e) = Refused(l, e - 1) + (IF IsBatch(l[e]) THEN 0 ELSE Open(l, e - 1))
      BY <1>1, <2>2, SizeNext
    <2>5. Size(l, e - 1) \in Nat /\ Refused(l, e - 1) \in Nat
      BY <1>1, <2>2, SizeNat
    <2>6. Refused(l, e) = Refused(l, e - 1)
      BY <2>3, <2>4, <2>5
    <2>7. k < l[i].bs => Size(l, e) = Size(l, e - 1)
      BY <2>3, <2>4, <2>5 DEF Width
    <2>8. QED
      BY <2>1, <2>2, <2>6, <2>7
  <1>4. 0 \in G
    BY <1>1, <1>2
  <1>5. ASSUME NEW k \in 1 .. j - 1, k - 1 \in G PROVE k \in G
    <2>1. Good(k - 1)
      BY <1>5
    <2>2. k \in 1 .. l[i].bs /\ k < l[i].bs /\ k \in 0 .. j - 1
      BY <1>1
    <2>3. Good(k)
      BY <1>3, <2>1, <2>2
    <2>4. QED
      BY <2>2, <2>3
  <1>6. j - 1 \in G
    <2>1. j - 1 \in Nat
      BY <1>1
    <2> HIDE DEF G
    <2>2. QED
      BY <1>4, <1>5, <2>1, Sums!UpTo
  <1>7. Good(j - 1)
    BY <1>6
  <1>8. Refused(l, o + j) = Refused(l, o)
    BY <1>3, <1>7
  <1>9. (o + j) - 1 = o + (j - 1)
    BY <1>3
  <1>10. QED
    BY <1>2, <1>7, <1>8, <1>9

-----------------------------------------------------------------------------
(***************************************************************************)
(* Logs that agree up to an entry.                                         *)
(***************************************************************************)
\* They say the same up to that entry.
LEMMA PastSame ==
    ASSUME NEW l, NEW k, NEW n, Past(l, k, n), NEW i \in 0 .. n
    PROVE  /\ Size(l, i) = Size(k, i) /\ Refused(l, i) = Refused(k, i)
           /\ Open(l, i) = Open(k, i) /\ BatchAt(l, i) = BatchAt(k, i)
           /\ Proposed(l, i) = Proposed(k, i)
  <1>1. /\ l \in Seq(Entry) /\ k \in Seq(Entry) /\ n \in Nat /\ n <= Len(l) /\ n <= Len(k)
        /\ \A j \in 1 .. n : l[j] = k[j]
    BY DEF Past
  <1>2. \A j \in 0 .. n : Open(l, j) = Open(k, j)
    BY <1>1 DEF Open
  <1>3. ASSUME NEW j \in 1 .. i
        PROVE  Widths(l)[j] = Widths(k)[j] /\ Drops(l)[j] = Drops(k)[j]
    <2>1. j \in 1 .. Len(l) /\ j \in 1 .. Len(k) /\ l[j] = k[j] /\ j - 1 \in 0 .. n
      BY <1>1
    <2>2. /\ Widths(l)[j] = Width(l[j])
          /\ Drops(l)[j] = IF IsBatch(l[j]) THEN 0 ELSE Open(l, j - 1)
      BY <1>1, <2>1, Weights
    <2>3. /\ Widths(k)[j] = Width(k[j])
          /\ Drops(k)[j] = IF IsBatch(k[j]) THEN 0 ELSE Open(k, j - 1)
      BY <1>1, <2>1, Weights
    <2>4. QED
      BY <1>2, <2>1, <2>2, <2>3
  <1>4. i \in Nat
    BY <1>1
  <1>5. Size(l, i) = Size(k, i)
    BY <1>3, <1>4, SumSame DEF Size
  <1>6. Refused(l, i) = Refused(k, i)
    BY <1>3, <1>4, SumSame DEF Refused
  <1>7. Open(l, i) = Open(k, i)
    BY <1>2
  <1>8. BatchAt(l, i) = BatchAt(k, i)
    <2>1. CASE i = 0
      BY <2>1 DEF BatchAt, Open
    <2>2. CASE i # 0
      BY <1>1, <1>7, <2>2 DEF BatchAt
    <2>3. QED
      BY <2>1, <2>2
  <1>9. QED
    BY <1>5, <1>6, <1>7, <1>8 DEF Proposed

\* A log that goes on with well-formed entries.
LEMMA PastGrouped ==
    ASSUME NEW l, NEW k, NEW n, Past(l, k, n), Grouped(l),
           \A i \in n + 1 .. Len(k) : GroupedAt(k, i)
    PROVE  Grouped(k)
  <1>1. /\ k \in Seq(Entry) /\ n \in Nat /\ n <= Len(l) /\ Len(l) \in Nat /\ Len(k) \in Nat
        /\ \A j \in 1 .. n : l[j] = k[j]
    BY DEF Past
  <1>2. ASSUME NEW i \in 1 .. Len(k), i <= n PROVE GroupedAt(k, i)
    <2>1. i \in 1 .. Len(l) /\ i \in 1 .. n
      BY <1>1, <1>2
    <2>2. GroupedAt(l, i) /\ l[i] = k[i]
      BY <1>1, <2>1 DEF Grouped
    <2>3. CASE i > 1
      <3>1. i - 1 \in 1 .. n
        BY <1>1, <2>1, <2>3
      <3>2. l[i - 1] = k[i - 1]
        BY <1>1, <3>1
      <3>3. QED
        BY <2>2, <3>2 DEF GroupedAt
    <2>4. CASE i = 1
      <3>1. IsBatch(l[i]) => l[i].bs \in 1 .. i
        BY <2>2 DEF GroupedAt
      <3>2. IsBatch(l[i]) => ~(l[i].bs > 1)
        BY <2>4, <3>1
      <3>3. QED
        BY <2>2, <2>4, <3>2 DEF GroupedAt
    <2>5. QED
      BY <2>1, <2>3, <2>4
  <1>3. \A i \in 1 .. Len(k) : GroupedAt(k, i)
    BY <1>1, <1>2
  <1>4. QED
    BY <1>1, <1>3 DEF Grouped

\* Its sequences, if they are right from there on.
LEMMA PastLog ==
    ASSUME NEW l, NEW k, NEW n, Past(l, k, n), LogOK(l), Grouped(k),
           \A i \in n + 1 .. Len(k) : IsMsg(k[i]) => k[i].lseq = Proposed(k, i - 1),
           Len(k) > 0, k[Len(k)].op # "batchMsg"
    PROVE  LogOK(k)
  <1>1. /\ n \in Nat /\ n <= Len(l) /\ Len(l) \in Nat /\ Len(k) \in Nat
        /\ \A j \in 1 .. n : l[j] = k[j]
    BY DEF Past
  <1>2. ASSUME NEW i \in 1 .. Len(k), i <= n, IsMsg(k[i]) PROVE k[i].lseq = Proposed(k, i - 1)
    <2>1. i \in 1 .. Len(l) /\ i \in 1 .. n /\ i - 1 \in 0 .. n
      BY <1>1, <1>2
    <2>2. l[i] = k[i] /\ l[i].lseq = Proposed(l, i - 1)
      BY <1>1, <1>2, <2>1 DEF LogOK
    <2>3. Proposed(l, i - 1) = Proposed(k, i - 1)
      BY <2>1, PastSame
    <2>4. QED
      BY <2>2, <2>3
  <1>3. \A i \in 1 .. Len(k) : IsMsg(k[i]) => k[i].lseq = Proposed(k, i - 1)
    BY <1>1, <1>2
  <1>4. QED
    BY <1>3 DEF LogOK

\* The messages that an entry stores are entries of the log.
LEMMA WidthFits ==
    ASSUME NEW l, Grouped(l), NEW i \in 1 .. Len(l), NEW j \in 1 .. Width(l[i])
    PROVE  i - Width(l[i]) + j \in 1 .. i /\ IsMsg(l[i - Width(l[i]) + j])
  <1>1. l \in Seq(Entry) /\ Len(l) \in Nat /\ GroupedAt(l, i) /\ i \in Nat \ {0}
    BY DEF Grouped
  <1>2. CASE l[i].op = "msg"
    <2>1. Width(l[i]) = 1
      BY <1>2 DEF Width
    <2>2. j = 1 /\ i - Width(l[i]) + j = i
      BY <1>1, <2>1
    <2>3. QED
      BY <1>1, <1>2, <2>2 DEF IsMsg
  <1>3. CASE l[i].op = "batchCommit"
    <2>1. Width(l[i]) = l[i].bs /\ IsBatch(l[i])
      BY <1>3 DEF Width, IsBatch
    <2>2. i - l[i].bs + j \in 1 .. i /\ IsBatch(l[i - l[i].bs + j])
      BY <2>1, BlockAt
    <2>3. QED
      BY <2>1, <2>2 DEF IsBatch, IsMsg
  <1>4. CASE l[i].op \notin {"msg", "batchCommit"}
    <2>1. Width(l[i]) = 0
      BY <1>4 DEF Width
    <2>2. QED
      BY <2>1
  <1>5. QED
    BY <1>2, <1>3, <1>4

\* One entry more, that is not of a batch.
LEMMA LogAppend ==
    ASSUME NEW l, LogOK(l), NEW e \in Entry, ~IsBatch(e),
           e.op = "msg" => e.b = 0 /\ e.lseq = Proposed(l, Len(l))
    PROVE  LET k == Append(l, e)
           IN  /\ LogOK(k) /\ Past(l, k, Len(l)) /\ Len(k) = Len(l) + 1
               /\ Proposed(k, Len(k)) = Proposed(l, Len(l)) + (IF e.op = "msg" THEN 1 ELSE 0)
  <1>1. PICK k : k = Append(l, e)
    OBVIOUS
  <1>2. l \in Seq(Entry) /\ Len(l) \in Nat /\ Len(l) > 0 /\ l[Len(l)].op # "batchMsg" /\ Grouped(l)
    BY DEF LogOK, Grouped
  <1>3. /\ k \in Seq(Entry) /\ Len(k) = Len(l) + 1 /\ k[Len(l) + 1] = e
        /\ \A i \in 1 .. Len(l) : l[i] = k[i]
    BY <1>1, <1>2
  <1>4. Past(l, k, Len(l))
    BY <1>2, <1>3 DEF Past
  <1>5. e.op # "batchMsg" /\ e.op # "batchCommit"
    BY DEF IsBatch
  <1>6. GroupedAt(k, Len(l) + 1)
    <2>1. k[(Len(l) + 1) - 1].op # "batchMsg"
      BY <1>2, <1>3
    <2>2. ~IsBatch(k[Len(l) + 1]) /\ (k[Len(l) + 1].op = "msg" => k[Len(l) + 1].b = 0)
      BY <1>3
    <2>3. QED
      BY <2>1, <2>2 DEF GroupedAt
  <1>7. \A i \in Len(l) + 1 .. Len(k) : i = Len(l) + 1
    BY <1>2, <1>3
  <1>8. Grouped(k)
    <2>1. \A i \in Len(l) + 1 .. Len(k) : GroupedAt(k, i)
      BY <1>6, <1>7, Zenon
    <2>2. QED
      BY <1>2, <1>4, <2>1, PastGrouped
  <1>9. Proposed(l, Len(l)) = Proposed(k, Len(l))
    <2>1. Len(l) \in 0 .. Len(l)
      BY <1>2
    <2>2. QED
      BY <1>4, <2>1, PastSame
  <1>10. IsMsg(e) <=> e.op = "msg"
    BY <1>5 DEF IsMsg
  <1>11. (Len(l) + 1) - 1 = Len(l) /\ Len(l) + 1 \in 1 .. Len(k)
    BY <1>2, <1>3
  <1>12. ASSUME NEW i \in Len(l) + 1 .. Len(k), IsMsg(k[i]) PROVE k[i].lseq = Proposed(k, i - 1)
    <2>1. i = Len(l) + 1
      BY <1>7
    <2>2. k[i] = e /\ i - 1 = Len(l)
      BY <1>3, <1>11, <2>1
    <2>3. QED
      BY <1>9, <1>10, <1>12, <2>2
  <1>13. LogOK(k)
    <2>1. Len(k) > 0 /\ k[Len(k)].op # "batchMsg"
      BY <1>2, <1>3, <1>5
    <2>2. QED
      BY <1>4, <1>8, <1>12, <2>1, PastLog
  <1>14. Proposed(k, Len(l) + 1) = Proposed(k, (Len(l) + 1) - 1)
                                    + (IF IsMsg(k[Len(l) + 1]) THEN 1 ELSE 0)
    BY <1>8, <1>11, ProposedNext
  <1>15. Proposed(k, Len(k)) = Proposed(l, Len(l)) + (IF e.op = "msg" THEN 1 ELSE 0)
    BY <1>3, <1>9, <1>10, <1>11, <1>14
  <1>16. QED
    BY <1>1, <1>3, <1>4, <1>13, <1>15

\* A new leader keeps the log up to entry n and goes on with an empty entry.
LEMMA LogCut ==
    ASSUME NEW l, LogOK(l), NEW n \in 0 .. Len(l)
    PROVE  LET k == Append(SubSeq(l, 1, n), [op |-> "empty"])
           IN  LogOK(k) /\ Past(l, k, n) /\ Len(k) = n + 1
  <1>1. PICK e : e = [op |-> "empty"]
    OBVIOUS
  <1>2. e \in Entry /\ e.op = "empty"
    BY <1>1 DEF Entry
  <1>3. PICK k : k = Append(SubSeq(l, 1, n), e)
    OBVIOUS
  <1>4. l \in Seq(Entry) /\ Len(l) \in Nat /\ n \in Nat /\ Grouped(l)
    BY DEF LogOK, Grouped
  <1>5. /\ SubSeq(l, 1, n) \in Seq(Entry) /\ Len(SubSeq(l, 1, n)) = n
        /\ \A i \in 1 .. n : SubSeq(l, 1, n)[i] = l[i]
    BY <1>4
  <1>6. /\ k \in Seq(Entry) /\ Len(k) = n + 1 /\ k[n + 1] = e
        /\ \A i \in 1 .. n : l[i] = k[i]
    BY <1>2, <1>3, <1>4, <1>5
  <1>7. Past(l, k, n)
    BY <1>4, <1>6 DEF Past
  <1>8. \A i \in n + 1 .. Len(k) : i = n + 1
    BY <1>4, <1>6
  <1>9. GroupedAt(k, n + 1) /\ ~IsMsg(k[n + 1])
    BY <1>2, <1>6 DEF GroupedAt, IsBatch, IsMsg
  <1>10. Grouped(k)
    <2>1. \A i \in n + 1 .. Len(k) : GroupedAt(k, i)
      BY <1>8, <1>9, Zenon
    <2>2. QED
      BY <1>4, <1>7, <2>1, PastGrouped
  <1>11. LogOK(k)
    <2>1. \A i \in n + 1 .. Len(k) : IsMsg(k[i]) => k[i].lseq = Proposed(k, i - 1)
      BY <1>8, <1>9, Zenon
    <2>2. Len(k) > 0 /\ k[Len(k)].op # "batchMsg"
      BY <1>2, <1>4, <1>6
    <2>3. QED
      BY <1>7, <1>10, <2>1, <2>2, PastLog
  <1>12. QED
    BY <1>1, <1>3, <1>6, <1>7, <1>11

\* A batch is appended as a whole.
LEMMA LogBatch ==
    ASSUME NEW l, LogOK(l), NEW b \in Seq(Message), Len(b) > 0, \A p \in ToSet(b) : p.elm = 0,
           NEW id \in Nat \ {0}, NEW x, x.clseq = Proposed(l, Len(l))
    PROVE  LET k == l \o BatchEntries(x, b, id)
           IN  /\ LogOK(k) /\ Past(l, k, Len(l)) /\ Len(k) = Len(l) + Len(b)
               /\ Proposed(k, Len(k)) = Proposed(l, Len(l)) + Len(b)
  <1>1. PICK n : n = Len(l)
    OBVIOUS
  <1>2. l \in Seq(Entry) /\ n \in Nat /\ n > 0 /\ l[n].op # "batchMsg" /\ Grouped(l) /\ Len(b) \in Nat
    BY <1>1 DEF LogOK, Grouped
  <1>3. PICK es : es = BatchEntries(x, b, id)
    OBVIOUS
  <1>4. x.clseq \in Nat
    <2>1. n \in 0 .. Len(l)
      BY <1>1, <1>2
    <2>2. QED
      BY <1>1, <1>2, <2>1, SizeNat
  <1>5. ASSUME NEW j \in 1 .. Len(b)
        PROVE  /\ es[j] = [op |-> IF j = Len(b) THEN "batchCommit" ELSE "batchMsg",
                           m |-> b[j], lseq |-> x.clseq + j - 1, b |-> id, bs |-> j]
               /\ es[j] \in Entry /\ b[j].elm = 0
    <2>1. /\ b[j] \in Message /\ x.clseq + j - 1 \in Nat /\ j \in Nat /\ j \in DOMAIN b
          /\ b[j] \in ToSet(b)
      BY <1>2, <1>4 DEF ToSet
    <2>2. es[j] = [op |-> IF j = Len(b) THEN "batchCommit" ELSE "batchMsg",
                   m |-> b[j], lseq |-> x.clseq + j - 1, b |-> id, bs |-> j]
      BY <1>3, <2>1 DEF BatchEntries
    <2>3. es[j] \in MsgEntry
      BY <2>1, <2>2 DEF MsgEntry
    <2>4. QED
      BY <2>1, <2>2, <2>3 DEF Entry
  <1>6. es \in Seq(Entry) /\ Len(es) = Len(b)
    <2>1. es = [j \in 1 .. Len(b) |-> es[j]]
      BY <1>2, <1>3 DEF BatchEntries
    <2>2. QED
      BY <1>2, <1>5, <2>1
  <1>7. PICK k : k = l \o es
    OBVIOUS
  <1>8. /\ k \in Seq(Entry) /\ Len(k) = n + Len(b) /\ \A i \in 1 .. n : l[i] = k[i]
        /\ \A j \in 1 .. Len(b) : k[n + j] = es[j]
    <2>0. Len(l \o es) = Len(l) + Len(es) /\ l \o es \in Seq(Entry)
      BY <1>2, <1>6
    <2>1. k \in Seq(Entry) /\ Len(k) = n + Len(b)
      BY <1>1, <1>6, <1>7, <2>0
    <2>2. \A i \in 1 .. n : l[i] = k[i]
      BY <1>1, <1>2, <1>6, <1>7
    <2>3. ASSUME NEW j \in 1 .. Len(b) PROVE k[n + j] = es[j]
      <3>1. n + j \in 1 .. Len(l) + Len(es) /\ n + j > Len(l) /\ (n + j) - Len(l) = j
        BY <1>1, <1>2, <1>6
      <3>2. QED
        BY <1>2, <1>6, <1>7, <3>1
    <2>4. QED
      BY <2>1, <2>2, <2>3
  <1>9. Past(l, k, n)
    BY <1>1, <1>2, <1>8 DEF Past
  <1>10. ASSUME NEW i \in n + 1 .. Len(k)
         PROVE  \E j \in 1 .. Len(b) : i = n + j
    BY <1>2, <1>8
  <1>11. ASSUME NEW j \in 1 .. Len(b)
         PROVE  /\ IsBatch(k[n + j]) /\ IsMsg(k[n + j]) /\ k[n + j].bs = j /\ k[n + j].b = id
                /\ k[n + j].m.elm = 0 /\ k[n + j].lseq = x.clseq + j - 1
                /\ j < Len(b) => k[n + j].op = "batchMsg"
                /\ j = Len(b) => k[n + j].op = "batchCommit"
    <2>1. PICK e : e = [op |-> IF j = Len(b) THEN "batchCommit" ELSE "batchMsg",
                        m |-> b[j], lseq |-> x.clseq + j - 1, b |-> id, bs |-> j]
      OBVIOUS
    <2>2. k[n + j] = e /\ b[j].elm = 0
      BY <1>5, <1>8, <2>1
    <2>3. /\ e.bs = j /\ e.b = id /\ e.m = b[j] /\ e.lseq = x.clseq + j - 1
          /\ e.op = IF j = Len(b) THEN "batchCommit" ELSE "batchMsg"
      BY <2>1
    <2>4. IsBatch(e) /\ IsMsg(e)
      BY <2>3 DEF IsBatch, IsMsg
    <2>5. j < Len(b) => j # Len(b)
      BY <1>2
    <2>6. QED
      BY <2>2, <2>3, <2>4, <2>5
  <1>12. ASSUME NEW j \in 1 .. Len(b) PROVE GroupedAt(k, n + j)
    <2>1. j \in 1 .. n + j
      BY <1>2
    <2>2. CASE j = 1
      <3>1. (n + j) - 1 = n /\ k[n].op # "batchMsg"
        BY <1>2, <1>8, <2>2
      <3>2. k[n + j].bs = 1 /\ k[n + j].op # "msg"
        BY <1>11, <2>2 DEF IsBatch
      <3>3. QED
        BY <1>11, <2>1, <3>1, <3>2 DEF GroupedAt
    <2>3. CASE j > 1
      <3>1. j - 1 \in 1 .. Len(b) /\ j - 1 < Len(b) /\ n + (j - 1) = (n + j) - 1
        BY <1>2, <2>3
      <3>2. /\ k[(n + j) - 1].op = "batchMsg" /\ k[(n + j) - 1].b = id
            /\ k[(n + j) - 1].bs = j - 1
        BY <1>11, <3>1
      <3>3. k[n + j].bs = j /\ k[n + j].b = id /\ IsBatch(k[n + j]) /\ k[n + j].m.elm = 0
            /\ k[n + j].op # "msg"
        BY <1>11 DEF IsBatch
      <3>4. id # 0
        OBVIOUS
      <3>5. QED
        BY <2>1, <2>3, <3>2, <3>3, <3>4 DEF GroupedAt
    <2>4. QED
      BY <1>2, <2>2, <2>3
  <1>13. Grouped(k)
    <2>1. \A i \in n + 1 .. Len(k) : GroupedAt(k, i)
      BY <1>10, <1>12
    <2>2. QED
      BY <1>2, <1>9, <2>1, PastGrouped
  <1>14. Proposed(k, n) = x.clseq
    <2>1. n \in 0 .. n
      BY <1>2
    <2>2. QED
      BY <1>1, <1>9, <2>1, PastSame
  <1> DEFINE G == {j \in 0 .. Len(b) : Proposed(k, n + j) = x.clseq + j}
  <1>15. ASSUME NEW q \in 0 .. Len(b) PROVE q \in G
    <2>1. 0 \in G
      BY <1>2, <1>4, <1>14
    <2>2. ASSUME NEW j \in 1 .. q, j - 1 \in G PROVE j \in G
      <3>1. n + j \in 1 .. Len(k) /\ (n + j) - 1 = n + (j - 1) /\ j \in 1 .. Len(b)
        BY <1>2, <1>8
      <3>2. Proposed(k, n + j) = Proposed(k, (n + j) - 1) + (IF IsMsg(k[n + j]) THEN 1 ELSE 0)
        BY <1>13, <3>1, ProposedNext
      <3>3. Proposed(k, n + (j - 1)) = x.clseq + (j - 1)
        BY <2>2
      <3>4. Proposed(k, n + j) = x.clseq + (j - 1) + 1
        BY <1>11, <3>1, <3>2, <3>3
      <3>5. QED
        BY <1>4, <3>1, <3>4
    <2>3. QED
      <3>1. q \in Nat
        OBVIOUS
      <3> HIDE DEF G
      <3>2. QED
        BY <2>1, <2>2, <3>1, Sums!UpTo
  <1>16. ASSUME NEW i \in n + 1 .. Len(k), IsMsg(k[i]) PROVE k[i].lseq = Proposed(k, i - 1)
    <2>1. PICK j \in 1 .. Len(b) : i = n + j
      BY <1>10
    <2>2. j - 1 \in 0 .. Len(b) /\ i - 1 = n + (j - 1)
      BY <1>2, <2>1
    <2>3. Proposed(k, n + (j - 1)) = x.clseq + (j - 1)
      BY <1>15, <2>2
    <2>4. k[i].lseq = x.clseq + j - 1
      BY <1>11, <2>1
    <2>5. QED
      BY <1>4, <2>2, <2>3, <2>4
  <1>17. LogOK(k)
    <2>1. Len(b) \in 1 .. Len(b) /\ k[n + Len(b)].op = "batchCommit"
      BY <1>2, <1>11
    <2>2. Len(k) > 0 /\ k[Len(k)].op # "batchMsg"
      BY <1>2, <1>8, <2>1
    <2>3. QED
      BY <1>9, <1>13, <1>16, <2>2, PastLog
  <1>18. Proposed(k, Len(k)) = x.clseq + Len(b)
    BY <1>2, <1>8, <1>15
  <1>19. QED
    BY <1>1, <1>3, <1>7, <1>8, <1>9, <1>17, <1>18

-----------------------------------------------------------------------------
(***************************************************************************)
(* What is said of the replicas stays true when the log goes on after what *)
(* is committed, and when more is committed.                               *)
(***************************************************************************)
\* A store, and another log.
LEMMA StoreFrame ==
    ASSUME NEW l, NEW k, NEW n, Past(l, k, n), Grouped(l), NEW c \in 0 .. n,
           NEW st, StoreOK(l, c, st)
    PROVE  StoreOK(k, c, st)
  <1>1. n \in Nat /\ n <= Len(l) /\ Len(l) \in Nat /\ \A i \in 1 .. n : l[i] = k[i]
    BY DEF Past
  <1>2. st \in Seq(Item) /\ Len(st) <= Size(k, c)
    <2>1. Size(l, c) = Size(k, c)
      BY PastSame
    <2>2. QED
      BY <2>1 DEF StoreOK
  <1>3. ASSUME NEW i \in 1 .. c, NEW j \in 1 .. Width(k[i]), Size(k, i - 1) + j <= Len(st)
        PROVE  st[Size(k, i - 1) + j] = ItemOf(k[i - Width(k[i]) + j])
    <2>1. i \in 1 .. Len(l) /\ i \in 1 .. n /\ i - 1 \in 0 .. n
      BY <1>1
    <2>2. l[i] = k[i] /\ Size(l, i - 1) = Size(k, i - 1)
      BY <1>1, <2>1, PastSame
    <2>3. i - Width(l[i]) + j \in 1 .. i
      BY <2>1, <2>2, WidthFits
    <2>4. i - Width(l[i]) + j \in 1 .. n
      <3>1. \A e \in 1 .. i : e \in 1 .. n
        BY <1>1, <2>1
      <3>2. QED
        BY <2>3, <3>1
    <2>5. l[i - Width(l[i]) + j] = k[i - Width(l[i]) + j]
      BY <1>1, <2>4
    <2>6. j \in 1 .. Width(l[i]) /\ Size(l, i - 1) + j <= Len(st)
      BY <1>3, <2>2
    <2>7. st[Size(l, i - 1) + j] = ItemOf(l[i - Width(l[i]) + j])
      BY <2>6 DEF StoreOK
    <2>8. QED
      BY <2>2, <2>5, <2>7
  <1>4. QED
    BY <1>2, <1>3 DEF StoreOK

\* A store, and more committed entries.
LEMMA StoreMore ==
    ASSUME NEW l, Grouped(l), NEW c \in 0 .. Len(l), NEW d \in c .. Len(l),
           NEW st, StoreOK(l, c, st)
    PROVE  StoreOK(l, d, st)
  <1>1. l \in Seq(Entry) /\ Len(l) \in Nat /\ st \in Seq(Item) /\ Len(st) <= Size(l, c) /\ Len(st) \in Nat
    BY DEF Grouped, StoreOK
  <1>2. Size(l, c) <= Size(l, d) /\ Size(l, c) \in Nat /\ Size(l, d) \in Nat
    <2>1. d \in 0 .. Len(l)
      BY <1>1
    <2>2. QED
      BY <1>1, <2>1, SizeGrows, SizeNat
  <1>3. ASSUME NEW i \in 1 .. d, NEW j \in 1 .. Width(l[i]), Size(l, i - 1) + j <= Len(st)
        PROVE  st[Size(l, i - 1) + j] = ItemOf(l[i - Width(l[i]) + j])
    <2>1. CASE i <= c
      <3>1. i \in 1 .. c
        BY <1>1, <2>1
      <3>2. QED
        BY <1>3, <3>1 DEF StoreOK
    <2>2. CASE i > c
      <3>1. i - 1 \in c .. Len(l) /\ i - 1 \in 0 .. Len(l) /\ i \in 1 .. Len(l)
        BY <1>1, <2>2
      <3>2. Size(l, c) <= Size(l, i - 1) /\ Size(l, i - 1) \in Nat /\ Width(l[i]) \in Nat
        BY <1>1, <3>1, SizeGrows, SizeNat, Weights
      <3>3. j > 0 /\ j \in Nat
        BY <3>2
      <3>4. FALSE
        BY <1>1, <1>2, <1>3, <3>2, <3>3
      <3>5. QED
        BY <3>4
    <2>3. QED
      BY <1>1, <2>1, <2>2
  <1>4. QED
    BY <1>1, <1>2, <1>3 DEF StoreOK

\* A replica, and another log.
LEMMA ReplicaFrame ==
    ASSUME NEW l, NEW k, NEW n, Past(l, k, n), Grouped(l), NEW c \in 0 .. n,
           NEW x, NEW p, NEW h, ReplicaOK(l, c, x, p, h)
    PROVE  ReplicaOK(k, c, x, p, h)
  <1>1. n \in Nat
    BY DEF Past
  <1>2. StoreOK(k, c, x.store)
    BY StoreFrame DEF ReplicaOK
  <1>3. x.applied \in 0 .. n /\ p \in 0 .. n /\ 0 .. c \subseteq 0 .. n
    BY <1>1 DEF ReplicaOK
  <1>4. h = "no" => RunOK(k, x, p)
    <2>1. /\ Size(l, x.applied) = Size(k, x.applied) /\ Refused(l, x.applied) = Refused(k, x.applied)
          /\ BatchAt(l, x.applied) = BatchAt(k, x.applied) /\ Size(l, p) = Size(k, p)
      BY <1>3, PastSame
    <2>2. QED
      BY <2>1 DEF ReplicaOK, RunOK
  <1>5. h = "werr" => \E j \in 0 .. c : Len(x.store) = Size(k, j)
    <2>1. \A j \in 0 .. c : Size(l, j) = Size(k, j)
      BY <1>3, PastSame
    <2>2. QED
      BY <2>1 DEF ReplicaOK
  <1>6. QED
    BY <1>2, <1>4, <1>5 DEF ReplicaOK

\* A replica, and more committed entries.
LEMMA ReplicaMore ==
    ASSUME NEW l, Grouped(l), NEW c \in 0 .. Len(l), NEW d \in c .. Len(l),
           NEW x, NEW p, NEW h, ReplicaOK(l, c, x, p, h)
    PROVE  ReplicaOK(l, d, x, p, h)
  <1>1. StoreOK(l, d, x.store)
    BY StoreMore DEF ReplicaOK
  <1>2. 0 .. c \subseteq 0 .. d
    OBVIOUS
  <1>3. QED
    BY <1>1, <1>2 DEF ReplicaOK

\* A snapshot, and another log.
LEMMA SnapFrame ==
    ASSUME NEW l, NEW k, NEW n, Past(l, k, n), NEW c \in 0 .. n,
           NEW x, NEW s, SnapOK(l, c, x, s)
    PROVE  SnapOK(k, c, x, s)
  <1>1. s.idx \in 0 .. n
    BY DEF SnapOK, Past
  <1>2. /\ Size(l, s.idx) = Size(k, s.idx) /\ Refused(l, s.idx) = Refused(k, s.idx)
        /\ Open(l, s.idx) = Open(k, s.idx)
    BY <1>1, PastSame
  <1>3. QED
    BY <1>2 DEF SnapOK

\* An answer, and another log.
LEMMA AckFrame ==
    ASSUME NEW l, NEW k, NEW n, Past(l, k, n), Grouped(l), NEW c \in 0 .. n,
           NEW a, AckOK(l, c, a)
    PROVE  AckOK(k, c, a)
  <1>1. n \in Nat /\ n <= Len(l) /\ Len(l) \in Nat /\ \A i \in 1 .. n : l[i] = k[i]
    BY DEF Past
  <1>2. a.seq \in 1 .. Size(k, c)
    BY PastSame DEF AckOK
  <1>3. ASSUME NEW i \in 1 .. c, NEW j \in 1 .. Width(k[i]), Size(k, i - 1) + j = a.seq
        PROVE  k[i - Width(k[i]) + j].m.id = a.id
    <2>1. i \in 1 .. Len(l) /\ i \in 1 .. n /\ i - 1 \in 0 .. n
      BY <1>1
    <2>2. l[i] = k[i] /\ Size(l, i - 1) = Size(k, i - 1)
      BY <1>1, <2>1, PastSame
    <2>3. i - Width(l[i]) + j \in 1 .. i
      BY <2>1, <2>2, WidthFits
    <2>4. i - Width(l[i]) + j \in 1 .. n
      <3>1. \A e \in 1 .. i : e \in 1 .. n
        BY <1>1, <2>1
      <3>2. QED
        BY <2>3, <3>1
    <2>5. l[i - Width(l[i]) + j] = k[i - Width(l[i]) + j]
      BY <1>1, <2>4
    <2>6. j \in 1 .. Width(l[i]) /\ Size(l, i - 1) + j = a.seq
      BY <1>3, <2>2
    <2>7. l[i - Width(l[i]) + j].m.id = a.id
      BY <2>6 DEF AckOK
    <2>8. QED
      BY <2>2, <2>5, <2>7
  <1>4. QED
    BY <1>2, <1>3 DEF AckOK

\* An answer, and more committed entries.
LEMMA AckMore ==
    ASSUME NEW l, Grouped(l), NEW c \in 0 .. Len(l), NEW d \in c .. Len(l),
           NEW a, AckOK(l, c, a)
    PROVE  AckOK(l, d, a)
  <1>1. l \in Seq(Entry) /\ Len(l) \in Nat /\ a.seq \in 1 .. Size(l, c)
    BY DEF Grouped, AckOK
  <1>2. Size(l, c) <= Size(l, d) /\ Size(l, c) \in Nat /\ Size(l, d) \in Nat
    <2>1. d \in 0 .. Len(l)
      BY <1>1
    <2>2. QED
      BY <1>1, <2>1, SizeGrows, SizeNat
  <1>3. ASSUME NEW i \in 1 .. d, NEW j \in 1 .. Width(l[i]), Size(l, i - 1) + j = a.seq
        PROVE  l[i - Width(l[i]) + j].m.id = a.id
    <2>1. CASE i <= c
      <3>1. i \in 1 .. c
        BY <1>1, <2>1
      <3>2. QED
        BY <1>3, <3>1 DEF AckOK
    <2>2. CASE i > c
      <3>1. i - 1 \in c .. Len(l) /\ i - 1 \in 0 .. Len(l) /\ i \in 1 .. Len(l)
        BY <1>1, <2>2
      <3>2. Size(l, c) <= Size(l, i - 1) /\ Size(l, i - 1) \in Nat /\ Width(l[i]) \in Nat
        BY <1>1, <3>1, SizeGrows, SizeNat, Weights
      <3>3. j > 0 /\ j \in Nat
        BY <3>2
      <3>4. FALSE
        BY <1>1, <1>2, <1>3, <3>2, <3>3
      <3>5. QED
        BY <3>4
    <2>3. QED
      BY <1>1, <2>1, <2>2
  <1>4. QED
    BY <1>1, <1>2, <1>3 DEF AckOK

-----------------------------------------------------------------------------
(***************************************************************************)
(* The operators of the model as the folds that the lemmas are about.      *)
(***************************************************************************)
\* What processStreamLeaderChange takes out of the ids.
LEMMA TrimFold ==
    ASSUME NEW dd
    PROVE  TrimStaged(dd) = Stays!Fold(StagedIds(dd), SubSeq(dd, 1, LastStored(dd)), <<>>,
                                       DOMAIN SubSeq(dd, 1, LastStored(dd)))
  BY DEF TrimStaged, LastStored, StagedIds, FoldLeft, MapThenFoldSet, Max, Stays!Fold,
         Stays!Folds, Stays!FoldStep, Stays!Highest, StayItem

\* The ids of stored messages.
LEMMA NoteFold ==
    ASSUME NEW dd, NEW msgs, NEW gone, NEW from
    PROVE  StoreIds(dd, msgs, gone, from)
             = Notes!Fold([gone |-> gone, from |-> from], msgs, dd, DOMAIN [i \in DOMAIN msgs |-> i])
  BY DEF StoreIds, FoldLeftDomain, FoldLeft, MapThenFoldSet, Max, Notes!Fold, Notes!Folds,
         Notes!FoldStep, Notes!Highest, NoteItem

\* The checks of the messages of a batch.
LEMMA CheckFold ==
    ASSUME NEW x, NEW b
    PROVE  CheckBatch(x, b) = Checks!Fold(0, b, [x |-> x, d |-> NoDiff], DOMAIN b)
  BY DEF CheckBatch, FoldLeft, MapThenFoldSet, Max, Checks!Fold, Checks!Folds,
         Checks!FoldStep, Checks!Highest, CheckItem

\* The messages of a batch that is complete.
LEMMA CommitFold ==
    ASSUME NEW y, NEW i, NEW leader
    PROVE  ApplyBatchCommit(y, i, leader)
             = Commits!Fold(leader, BatchToApply(y, i), [y EXCEPT !.batch = NoBatch],
                            DOMAIN BatchToApply(y, i))
  BY DEF ApplyBatchCommit, FoldLeft, MapThenFoldSet, Max, Commits!Fold, Commits!Folds,
         Commits!FoldStep, Commits!Highest, CommitItem

-----------------------------------------------------------------------------
(***************************************************************************)
(* What the operators leave alone.                                         *)
(***************************************************************************)
\* The end of a message that was in flight.
LEMMA ClearSame ==
    ASSUME NEW x, DOMAIN x = Fields, NEW e
    PROVE  LET y == ClearInflight(x, e)
           IN  Same(x, y) /\ y.clseq = x.clseq /\ y.dd = x.dd
  BY DEF ClearInflight, Same, Fields

\* The end of a batch that is not complete.
LEMMA RejectIs ==
    ASSUME NEW x, DOMAIN x = Fields
    PROVE  LET y == RejectBatch(x)
           IN  /\ DOMAIN y = Fields /\ y.store = x.store /\ y.clfs = x.clfs + x.batch.count
               /\ y.batch = NoBatch /\ y.applied = x.applied /\ y.active = x.active
               /\ y.clseq = x.clseq /\ y.dd = x.dd
  BY DEF RejectBatch, Fields

\* A replica that has what comes before entry e either has its message, or it is
\* the next one.
LEMMA NextMsg ==
    ASSUME NEW x, x.clfs \in Nat, x.store \in Seq(Item), NEW s \in Nat, s <= Len(x.store),
           NEW e, e.lseq = s + x.clfs
    PROVE  (AlreadyStored(x, e) <=> s < Len(x.store)) /\ ~SeqMismatch(x, e)
  <1>1. PICK n : n = Len(x.store)
    OBVIOUS
  <1>2. n \in Nat /\ s <= n /\ e.lseq \in Nat
    BY <1>1
  <1>3. AlreadyStored(x, e) <=> (e.lseq >= x.clfs /\ e.lseq - x.clfs < n) \/ (e.lseq = 0 /\ n # 0)
    BY <1>1 DEF AlreadyStored
  <1>4. AlreadyStored(x, e) <=> s < n
    BY <1>2, <1>3
  <1>5. ~AlreadyStored(x, e) => e.lseq = n + x.clfs
    BY <1>2, <1>4
  <1>6. QED
    BY <1>1, <1>4, <1>5 DEF SeqMismatch

\* A message that is there already changes nothing.
LEMMA ProcessStored ==
    ASSUME NEW x, NEW e, NEW leader, AlreadyStored(x, e)
    PROVE  ProcessJetStreamMsg(x, e, leader) = x /\ ~MsgIdMismatch(x, e)
  BY DEF ProcessJetStreamMsg, MsgIdMismatch, Stores

\* A message that is refused for the id that it expects.
LEMMA ProcessRefused ==
    ASSUME NEW x, DOMAIN x = Fields, NEW e, NEW leader, MsgIdMismatch(x, e)
    PROVE  LET y == ProcessJetStreamMsg(x, e, leader)
           IN  /\ DOMAIN y = Fields /\ y.store = x.store /\ y.clfs = x.clfs + 1
               /\ y.applied = x.applied /\ y.active = x.active /\ y.clseq = x.clseq
               /\ y.dd = x.dd
  BY DEF ProcessJetStreamMsg, Fields

\* A message that is stored.
LEMMA ProcessNew ==
    ASSUME NEW x, DOMAIN x = Fields, NEW e, NEW leader, ~AlreadyStored(x, e),
           ~SeqMismatch(x, e), ~MsgIdMismatch(x, e)
    PROVE  LET y == ProcessJetStreamMsg(x, e, leader)
           IN  /\ DOMAIN y = Fields /\ y.store = Append(x.store, ItemOf(e)) /\ y.clfs = x.clfs
               /\ y.batch = x.batch /\ y.applied = x.applied /\ y.active = x.active
               /\ y.clseq = x.clseq
               /\ y.dd = IF e.m.id = 0 THEN x.dd
                         ELSE UpdateMsgId(x.dd, e.m.id, Len(x.store) + 1, leader)
  BY DEF ProcessJetStreamMsg, Stores, Fields, ItemOf

-----------------------------------------------------------------------------
(***************************************************************************)
(* The ids that are noted.                                                 *)
(***************************************************************************)
\* The last of some indices, 0 if there is none.
LEMMA LastIndex ==
    ASSUME NEW n \in Nat, NEW A \in SUBSET (1 .. n)
    PROVE  Max({0} \cup A) \in {0} \cup A /\ Max({0} \cup A) \in 0 .. n
  <1>1. CASE A = {}
    <2>1. {0} \cup A = {0}
      BY <1>1
    <2>2. Max({0}) = 0
      BY DEF Max
    <2>3. QED
      BY <2>1, <2>2
  <1>2. CASE A # {}
    <2>1. PICK g \in {0} \cup A : \A y \in {0} \cup A : g >= y
      <3>1. PICK d \in A : \A y \in A : d >= y
        <4> DEFINE B == {k \in 0 .. n : \A y \in A : k >= y}
        <4>1. B \in SUBSET Nat /\ n \in B
          OBVIOUS
        <4>2. PICK d \in B : \A k \in B : d <= k
          <5> HIDE DEF B
          <5>1. QED
            BY <4>1, Sums!LeastOf
        <4>3. d \in A
          <5>1. SUFFICES ASSUME d \notin A PROVE FALSE
            OBVIOUS
          <5>2. d # 0
            <6>1. PICK y : y \in A
              BY <1>2
            <6>2. y \in 1 .. n /\ d >= y
              BY <4>2, <6>1
            <6>3. QED
              BY <6>2
          <5>3. \A y \in A : d - 1 >= y
            <6>1. d \in Nat /\ \A y \in A : d >= y
              BY <4>2
            <6>2. ASSUME NEW y \in A PROVE d - 1 >= y
              <7>1. y \in Nat /\ d >= y /\ d # y
                BY <5>1, <6>1
              <7>2. QED
                BY <6>1, <7>1
            <6>3. QED
              BY <6>2
          <5>4. d - 1 \in B
            BY <4>2, <5>2, <5>3
          <5>5. QED
            BY <4>2, <5>4
        <4>4. QED
          BY <4>2, <4>3
      <3>2. d >= 0
        BY <3>1
      <3>3. QED
        BY <3>1, <3>2
    <2>2. PICK w : w = Max({0} \cup A)
      OBVIOUS
    <2>3. w \in {0} \cup A
      BY <2>1, <2>2 DEF Max
    <2>4. QED
      BY <2>2, <2>3
  <1>3. QED
    BY <1>1, <1>2

\* The entry of an id.
LEMMA DDIndexIs ==
    ASSUME NEW dd \in Seq(Id), NEW id, DDIndex(dd, id) # 0
    PROVE  DDIndex(dd, id) \in DOMAIN dd /\ dd[DDIndex(dd, id)].id = id
  <1>1. PICK A : A = {i \in DOMAIN dd : dd[i].id = id}
    OBVIOUS
  <1>2. A \in SUBSET (1 .. Len(dd)) /\ Len(dd) \in Nat
    BY <1>1
  <1>3. Max({0} \cup A) \in {0} \cup A
    BY <1>2, LastIndex
  <1>4. DDIndex(dd, id) = Max({0} \cup A)
    BY <1>1 DEF DDIndex
  <1>5. DDIndex(dd, id) \in A
    BY <1>3, <1>4
  <1>6. QED
    BY <1>1, <1>5

\* What is noted with a sequence is stored there.
LEMMA CheckedId ==
    ASSUME NEW dd, NEW st, IdsOK(dd, st), NEW id, NEW q, q = CheckMsgId(dd, id)
    PROVE  q \in Nat \cup {-1} /\ (q > 0 => q <= Len(st) /\ st[q].m.id = id)
  <1>1. CASE DDIndex(dd, id) = 0
    BY <1>1 DEF CheckMsgId
  <1>2. CASE DDIndex(dd, id) # 0
    <2>1. PICK i : i = DDIndex(dd, id)
      OBVIOUS
    <2>2. dd \in Seq(Id)
      BY DEF IdsOK, Id
    <2>3. i \in DOMAIN dd /\ dd[i].id = id
      BY <1>2, <2>1, <2>2, DDIndexIs
    <2>4. q = dd[i].seq
      BY <1>2, <2>1 DEF CheckMsgId
    <2>5. dd[i] \in Id
      BY <2>2, <2>3
    <2>6. dd[i].seq \in Nat
      BY <2>5 DEF Id
    <2>7. dd[i].seq # 0 => dd[i].seq <= Len(st) /\ st[dd[i].seq].m.id = dd[i].id
      BY <2>3 DEF IdsOK
    <2>8. QED
      BY <2>3, <2>4, <2>6, <2>7
  <1>3. QED
    BY <1>1, <1>2

\* Ids stay right when the store grows.
LEMMA IdsGrow ==
    ASSUME NEW dd, NEW st, IdsOK(dd, st), NEW su, Len(st) \in Nat, Len(su) \in Nat,
           Len(st) <= Len(su), \A i \in 1 .. Len(st) : su[i] = st[i]
    PROVE  IdsOK(dd, su)
  <1>1. dd \in Seq(Id)
    BY DEF IdsOK, Id
  <1>2. ASSUME NEW i \in DOMAIN dd, dd[i].seq # 0
        PROVE  dd[i].seq <= Len(su) /\ su[dd[i].seq].m.id = dd[i].id
    <2>1. dd[i] \in Id
      BY <1>1
    <2>2. dd[i].seq \in Nat
      BY <2>1 DEF Id
    <2>3. dd[i].seq <= Len(st) /\ st[dd[i].seq].m.id = dd[i].id
      BY <1>2 DEF IdsOK
    <2>4. dd[i].seq \in 1 .. Len(st)
      BY <1>2, <2>2, <2>3
    <2>5. su[dd[i].seq] = st[dd[i].seq]
      BY <2>4
    <2>6. QED
      BY <2>2, <2>3, <2>5
  <1>3. QED
    BY <1>1, <1>2 DEF IdsOK, Id

\* One id more, of a message that is stored.
LEMMA IdsAppend ==
    ASSUME NEW dd, NEW st, IdsOK(dd, st), NEW e \in Id,
           e.seq # 0 => e.seq <= Len(st) /\ st[e.seq].m.id = e.id
    PROVE  IdsOK(Append(dd, e), st)
  <1>1. dd \in Seq(Id)
    BY DEF IdsOK, Id
  <1>2. PICK d : d = Append(dd, e)
    OBVIOUS
  <1>3. d \in Seq(Id) /\ DOMAIN d = 1 .. Len(dd) + 1 /\ d[Len(dd) + 1] = e
        /\ \A i \in 1 .. Len(dd) : d[i] = dd[i]
    BY <1>1, <1>2
  <1>4. ASSUME NEW i \in DOMAIN d, d[i].seq # 0
        PROVE  d[i].seq <= Len(st) /\ st[d[i].seq].m.id = d[i].id
    <2>1. CASE i = Len(dd) + 1
      BY <1>3, <1>4, <2>1
    <2>2. CASE i # Len(dd) + 1
      <3>1. i \in 1 .. Len(dd) /\ i \in DOMAIN dd
        BY <1>1, <1>3, <2>2
      <3>2. d[i] = dd[i]
        BY <1>3, <3>1
      <3>3. QED
        BY <1>4, <3>1, <3>2 DEF IdsOK
    <2>3. QED
      BY <2>1, <2>2
  <1>5. QED
    BY <1>2, <1>3, <1>4 DEF IdsOK, Id

\* The id of a message that is stored now.
LEMMA IdsUpdate ==
    ASSUME NEW dd, NEW st, IdsOK(dd, st), NEW id \in Nat, NEW seq \in Nat \ {0},
           seq <= Len(st), st[seq].m.id = id, NEW leader
    PROVE  IdsOK(UpdateMsgId(dd, id, seq, leader), st)
  <1>1. dd \in Seq(Id)
    BY DEF IdsOK, Id
  <1>2. CASE leader /\ DDIndex(dd, id) # 0
    <2>1. PICK j : j = DDIndex(dd, id)
      OBVIOUS
    <2>2. j \in DOMAIN dd /\ dd[j].id = id
      BY <1>1, <1>2, <2>1, DDIndexIs
    <2>3. PICK d : d = [dd EXCEPT ![j].seq = seq]
      OBVIOUS
    <2>4. UpdateMsgId(dd, id, seq, leader) = d
      BY <1>2, <2>1, <2>3 DEF UpdateMsgId
    <2>5. dd[j] \in Id
      BY <1>1, <2>2
    <2>6. /\ d[j] = [dd[j] EXCEPT !.seq = seq] /\ DOMAIN d = DOMAIN dd
          /\ \A i \in DOMAIN dd : i # j => d[i] = dd[i]
      BY <2>2, <2>3
    <2>7. d[j].id = id /\ d[j].seq = seq /\ d[j] \in Id
      BY <2>2, <2>5, <2>6 DEF Id
    <2>8. d \in Seq(Id)
      <3>1. \A i \in DOMAIN dd : d[i] \in Id
        BY <1>1, <2>6, <2>7
      <3>2. DOMAIN dd = 1 .. Len(dd) /\ Len(dd) \in Nat
        BY <1>1
      <3>3. d = [i \in 1 .. Len(dd) |-> d[i]]
        BY <2>3, <3>2
      <3>4. QED
        BY <3>1, <3>2, <3>3
    <2>9. ASSUME NEW i \in DOMAIN d, d[i].seq # 0
          PROVE  d[i].seq <= Len(st) /\ st[d[i].seq].m.id = d[i].id
      <3>1. CASE i = j
        BY <2>7, <3>1
      <3>2. CASE i # j
        <4>1. i \in DOMAIN dd /\ d[i] = dd[i]
          BY <2>6, <3>2
        <4>2. QED
          BY <2>9, <4>1 DEF IdsOK
      <3>3. QED
        BY <3>1, <3>2
    <2>10. QED
      BY <2>4, <2>8, <2>9 DEF IdsOK, Id
  <1>3. CASE ~(leader /\ DDIndex(dd, id) # 0)
    <2>1. UpdateMsgId(dd, id, seq, leader) = StoreMsgId(dd, id, seq)
      BY <1>3 DEF UpdateMsgId
    <2>2. CASE id = 0
      BY <2>1, <2>2 DEF StoreMsgId
    <2>3. CASE id # 0
      <3>1. PICK e : e = [id |-> id, seq |-> seq]
        OBVIOUS
      <3>2. e \in Id /\ e.seq = seq /\ e.id = id
        BY <3>1 DEF Id
      <3>3. IdsOK(Append(dd, e), st)
        BY <3>2, IdsAppend
      <3>4. StoreMsgId(dd, id, seq) = Append(dd, e)
        BY <2>3, <3>1 DEF StoreMsgId
      <3>5. QED
        BY <2>1, <3>3, <3>4
    <2>4. QED
      BY <2>2, <2>3
  <1>4. QED
    BY <1>2, <1>3

\* The ids that stay when a leader changes were there.
LEMMA IdsTrim ==
    ASSUME NEW dd, NEW st, IdsOK(dd, st)
    PROVE  IdsOK(TrimStaged(dd), st)
  <1>1. dd \in Seq(Id) /\ Len(dd) \in Nat
    BY DEF IdsOK, Id
  <1>2. PICK k : k = LastStored(dd)
    OBVIOUS
  <1>3. k \in 0 .. Len(dd)
    <2>1. PICK A : A = {i \in DOMAIN dd : dd[i].seq # 0}
      OBVIOUS
    <2>2. A \in SUBSET (1 .. Len(dd))
      BY <1>1, <2>1
    <2>3. Max({0} \cup A) \in 0 .. Len(dd)
      BY <1>1, <2>2, LastIndex
    <2>4. QED
      BY <1>2, <2>1, <2>3 DEF LastStored
  <1>4. PICK q : q = SubSeq(dd, 1, k)
    OBVIOUS
  <1>5. q \in Seq(Id) /\ Len(q) = k /\ DOMAIN q = 1 .. k /\ \A i \in 1 .. k : q[i] = dd[i]
    BY <1>1, <1>3, <1>4
  <1>6. PICK g : g = StagedIds(dd)
    OBVIOUS
  <1> DEFINE W == {t \in Seq(Id) : IdsOK(t, st)}
  <1>7. <<>> \in W
    BY DEF IdsOK, Id
  <1>8. ASSUME NEW i \in DOMAIN q, NEW t \in W PROVE StayItem(g, q, t, i) \in W
    <2>1. q[i] \in Id /\ i \in DOMAIN dd /\ q[i] = dd[i] /\ t \in Seq(Id) /\ IdsOK(t, st)
      BY <1>1, <1>3, <1>5
    <2>2. q[i].seq # 0 => q[i].seq <= Len(st) /\ st[q[i].seq].m.id = q[i].id
      BY <2>1 DEF IdsOK
    <2>3. IdsOK(Append(t, q[i]), st) /\ Append(t, q[i]) \in Seq(Id)
      BY <2>1, <2>2, IdsAppend
    <2>4. QED
      BY <2>1, <2>3 DEF StayItem
  <1>9. Stays!Indices(DOMAIN q)
    BY <1>3, <1>5 DEF Stays!Indices
  <1>10. Stays!Fold(g, q, <<>>, DOMAIN q) \in W
    <2> HIDE DEF W
    <2>1. QED
      BY <1>7, <1>8, <1>9, Stays!FoldStays
  <1>11. TrimStaged(dd) = Stays!Fold(g, q, <<>>, DOMAIN q)
    BY <1>2, <1>4, <1>6, TrimFold
  <1>12. QED
    BY <1>10, <1>11

\* The ids of messages that are in the store.
LEMMA IdsStored ==
    ASSUME NEW dd, NEW st \in Seq(Item), IdsOK(dd, st), NEW msgs \in Seq(Item), NEW gone,
           NEW from \in Nat, from + Len(msgs) <= Len(st),
           \A i \in 1 .. Len(msgs) : st[from + i] = msgs[i]
    PROVE  IdsOK(StoreIds(dd, msgs, gone, from), st)
  <1>1. PICK c : c = [gone |-> gone, from |-> from]
    OBVIOUS
  <1>2. c.gone = gone /\ c.from = from /\ Len(msgs) \in Nat /\ Len(st) \in Nat
    BY <1>1
  <1>3. PICK D : D = DOMAIN [i \in DOMAIN msgs |-> i]
    OBVIOUS
  <1>4. D = 1 .. Len(msgs) /\ D = DOMAIN msgs
    BY <1>3
  <1> DEFINE W == {t \in Seq(Id) : IdsOK(t, st)}
  <1>5. dd \in W
    BY DEF IdsOK, Id
  <1>6. ASSUME NEW k \in D, NEW t \in W PROVE NoteItem(c, msgs, t, k) \in W
    <2>1. [j \in DOMAIN msgs |-> j][k] = k
      BY <1>4
    <2>2. NoteItem(c, msgs, t, k)
            = IF from + k \in gone THEN t ELSE StoreMsgId(t, msgs[k].m.id, from + k)
      BY <1>2, <2>1 DEF NoteItem
    <2>3. msgs[k] \in Item /\ st[from + k] = msgs[k] /\ k \in 1 .. Len(msgs)
      BY <1>4
    <2>4. msgs[k].m.id \in Nat
      BY <2>3 DEF Item, Message
    <2>5. from + k \in Nat \ {0} /\ from + k <= Len(st)
      BY <1>2, <2>3
    <2>6. CASE msgs[k].m.id = 0 \/ from + k \in gone
      BY <2>2, <2>6 DEF StoreMsgId
    <2>7. CASE ~(msgs[k].m.id = 0 \/ from + k \in gone)
      <3>1. PICK e : e = [id |-> msgs[k].m.id, seq |-> from + k]
        OBVIOUS
      <3>2. e \in Id /\ e.seq = from + k /\ e.id = msgs[k].m.id
        BY <2>4, <2>5, <3>1 DEF Id
      <3>3. e.seq <= Len(st) /\ st[e.seq].m.id = e.id
        BY <2>3, <2>5, <3>2
      <3>4. IdsOK(Append(t, e), st) /\ Append(t, e) \in Seq(Id)
        BY <3>2, <3>3, IdsAppend
      <3>5. NoteItem(c, msgs, t, k) = Append(t, e)
        BY <2>2, <2>7, <3>1 DEF StoreMsgId
      <3>6. QED
        BY <3>4, <3>5
    <2>8. QED
      BY <2>6, <2>7
  <1>7. Notes!Indices(D)
    BY <1>2, <1>4 DEF Notes!Indices
  <1>8. Notes!Fold(c, msgs, dd, D) \in W
    <2> HIDE DEF W
    <2>1. QED
      BY <1>5, <1>6, <1>7, Notes!FoldStays
  <1>9. StoreIds(dd, msgs, gone, from) = Notes!Fold(c, msgs, dd, D)
    BY <1>1, <1>3, NoteFold
  <1>10. QED
    BY <1>8, <1>9

-----------------------------------------------------------------------------
(***************************************************************************)
(* A replica applies the next entry.                                       *)
(***************************************************************************)
\* The next message of entry i goes to its place.
LEMMA StoreBlock ==
    ASSUME NEW l, Grouped(l), NEW c \in 0 .. Len(l), NEW i \in 1 .. c,
           NEW q \in 1 .. Width(l[i]), NEW st, StoreOK(l, c, st),
           Len(st) = Size(l, i - 1) + q - 1
    PROVE  StoreOK(l, c, Append(st, ItemOf(l[i - Width(l[i]) + q])))
  <1>1. /\ l \in Seq(Entry) /\ Len(l) \in Nat /\ st \in Seq(Item) /\ c \in Nat
        /\ i \in 1 .. Len(l) /\ i - 1 \in 0 .. Len(l) /\ i \in 0 .. Len(l)
    BY DEF Grouped, StoreOK
  <1>2. PICK n : n = Len(st)
    OBVIOUS
  <1>3. /\ Size(l, i - 1) \in Nat /\ Width(l[i]) \in Nat /\ Size(l, i) = Size(l, i - 1) + Width(l[i])
        /\ Size(l, i) <= Size(l, c) /\ Size(l, c) \in Nat /\ n \in Nat
    <2>1. c \in i .. Len(l)
      BY <1>1
    <2>2. Size(l, i) <= Size(l, c)
      BY <1>1, <2>1, SizeGrows
    <2>3. Size(l, i - 1) \in Nat /\ Size(l, c) \in Nat
      BY <1>1, SizeNat
    <2>4. Width(l[i]) \in Nat /\ Size(l, i) = Size(l, i - 1) + Width(l[i])
      BY <1>1, Weights, SizeNext
    <2>5. n \in Nat
      BY <1>1, <1>2
    <2>6. QED
      BY <2>2, <2>3, <2>4, <2>5
  <1>4. q \in Nat /\ q > 0 /\ q <= Width(l[i]) /\ n + 1 = Size(l, i - 1) + q
    BY <1>2, <1>3
  <1>5. PICK e : e = i - Width(l[i]) + q
    OBVIOUS
  <1>6. e \in 1 .. Len(l) /\ IsMsg(l[e])
    <2>1. e \in 1 .. i /\ IsMsg(l[e])
      BY <1>1, <1>5, WidthFits
    <2>2. QED
      BY <1>1, <2>1
  <1>7. ItemOf(l[e]) \in Item
    BY <1>1, <1>6, Weights, EntryFacts
  <1>8. PICK su : su = Append(st, ItemOf(l[e]))
    OBVIOUS
  <1>9. /\ su \in Seq(Item) /\ Len(su) = n + 1 /\ su[n + 1] = ItemOf(l[e])
        /\ \A p \in 1 .. n : su[p] = st[p]
    BY <1>1, <1>2, <1>7, <1>8
  <1>10. ASSUME NEW k \in 1 .. c, NEW j \in 1 .. Width(l[k]), Size(l, k - 1) + j <= Len(su)
         PROVE  su[Size(l, k - 1) + j] = ItemOf(l[k - Width(l[k]) + j])
    <2>1. k \in 1 .. Len(l) /\ k - 1 \in 0 .. Len(l) /\ k \in 0 .. Len(l)
      BY <1>1
    <2>2. /\ Size(l, k - 1) \in Nat /\ Width(l[k]) \in Nat /\ Size(l, k) = Size(l, k - 1) + Width(l[k])
      BY <1>1, <2>1, SizeNat, Weights, SizeNext
    <2>3. PICK t, v, f : t = Size(l, k - 1) /\ v = Width(l[k]) /\ f = Size(l, k)
      OBVIOUS
    <2>4. PICK s, u, g : s = Size(l, i - 1) /\ u = Width(l[i]) /\ g = Size(l, i)
      OBVIOUS
    <2>5. /\ t \in Nat /\ v \in Nat /\ s \in Nat /\ u \in Nat /\ n \in Nat /\ j \in Nat /\ q \in Nat
          /\ j > 0 /\ j <= v /\ q > 0 /\ q <= u /\ n + 1 = s + q /\ f = t + v /\ g = s + u
          /\ t + j <= n + 1
      <3>1. t \in Nat /\ v \in Nat /\ s \in Nat /\ u \in Nat /\ n \in Nat /\ f = t + v /\ g = s + u
        BY <1>3, <2>2, <2>3, <2>4, Zenon
      <3>2. q \in Nat /\ q > 0 /\ q <= u /\ n + 1 = s + q
        BY <1>4, <2>4, Zenon
      <3>3. t + j <= n + 1
        BY <1>9, <1>10, <2>3, Zenon
      <3>4. j \in 1 .. v
        BY <2>3, Zenon
      <3>5. j \in Nat /\ j > 0 /\ j <= v
        BY <3>1, <3>4
      <3>6. QED
        BY <3>1, <3>2, <3>3, <3>5
    <2>6. CASE t + j <= n
      <3>1. st[Size(l, k - 1) + j] = ItemOf(l[k - Width(l[k]) + j])
        BY <1>2, <2>3, <2>6 DEF StoreOK
      <3>2. t + j \in 1 .. n
        BY <2>5, <2>6
      <3>3. QED
        BY <1>9, <2>3, <3>1, <3>2
    <2>7. CASE t + j > n
      <3>1. t + j = n + 1
        BY <2>5, <2>7
      <3>2. ~(k < i)
        <4>1. SUFFICES ASSUME k < i PROVE FALSE
          OBVIOUS
        <4>2. i - 1 \in k .. Len(l)
          BY <1>1, <2>1, <4>1
        <4>3. f <= s
          BY <2>1, <2>3, <2>4, <4>2, SizeGrows
        <4>4. QED
          BY <2>5, <3>1, <4>3
      <3>3. ~(k > i)
        <4>1. SUFFICES ASSUME k > i PROVE FALSE
          OBVIOUS
        <4>2. k - 1 \in i .. Len(l)
          BY <1>1, <2>1, <4>1
        <4>3. g <= t
          BY <1>1, <2>3, <2>4, <4>2, SizeGrows
        <4>4. QED
          BY <2>5, <3>1, <4>3
      <3>4. k = i
        BY <1>1, <2>1, <3>2, <3>3
      <3>5. j = q
        <4>1. t = s
          BY <2>3, <2>4, <3>4
        <4>2. QED
          BY <2>5, <3>1, <4>1
      <3>6. QED
        BY <1>5, <1>9, <2>3, <3>1, <3>4, <3>5
    <2>8. QED
      BY <2>5, <2>6, <2>7
  <1>11. Len(su) <= Size(l, c)
    BY <1>3, <1>4, <1>9
  <1>12. StoreOK(l, c, su)
    BY <1>9, <1>10, <1>11 DEF StoreOK
  <1>13. QED
    BY <1>5, <1>8, <1>12

\* What waits.
LEMMA BatchCount ==
    ASSUME NEW l, NEW i
    PROVE  BatchAt(l, i).count = Open(l, i)
  BY DEF BatchAt, Open, NoBatch

\* A running replica, before it applies an entry.
LEMMA Running ==
    ASSUME NEW l, LogOK(l), NEW c \in 0 .. Len(l), NEW x, NEW p, ReplicaOK(l, c, x, p, "no"),
           x.applied < c
    PROVE  LET i == x.applied + 1
           IN  /\ i \in 1 .. c /\ i \in 1 .. Len(l) /\ i - 1 = x.applied /\ i - 1 \in 0 .. c
               /\ i - 1 \in 0 .. Len(l)
               /\ Grouped(l) /\ GroupedAt(l, i) /\ l \in Seq(Entry)
               /\ x.store \in Seq(Item) /\ Len(x.store) \in Nat /\ StoreOK(l, c, x.store)
               /\ x.clfs = Refused(l, i - 1) /\ x.batch = BatchAt(l, i - 1)
               /\ x.batch.count = Open(l, i - 1)
               /\ Size(l, i - 1) \in Nat /\ Refused(l, i - 1) \in Nat /\ Open(l, i - 1) \in Nat
               /\ Size(l, i - 1) <= Len(x.store)
               /\ Len(x.store) <= Size(l, i - 1) \/ Len(x.store) <= Size(l, p)
               /\ Size(l, i) = Size(l, i - 1) + Width(l[i]) /\ Width(l[i]) \in Nat
               /\ Refused(l, i) = Refused(l, i - 1) + (IF IsBatch(l[i]) THEN 0 ELSE Open(l, i - 1))
               /\ Size(l, p) \in Nat /\ DOMAIN x = Fields /\ x.clfs \in Nat
  <1>1. /\ l \in Seq(Entry) /\ Len(l) \in Nat /\ Grouped(l) /\ RunOK(l, x, p)
        /\ x.applied \in 0 .. c /\ p \in 0 .. c /\ StoreOK(l, c, x.store) /\ DOMAIN x = Fields
        /\ x.clfs \in Nat
    BY DEF LogOK, Grouped, ReplicaOK
  <1>2. PICK i : i = x.applied + 1
    OBVIOUS
  <1>3. /\ i \in 1 .. c /\ i \in 1 .. Len(l) /\ i - 1 = x.applied /\ i - 1 \in 0 .. c
        /\ i - 1 \in 0 .. Len(l) /\ p \in 0 .. Len(l)
    BY <1>1, <1>2
  <1>4. x.store \in Seq(Item) /\ Len(x.store) \in Nat /\ GroupedAt(l, i)
    BY <1>1, <1>3 DEF StoreOK, Grouped
  <1>5. /\ Size(l, i - 1) \in Nat /\ Refused(l, i - 1) \in Nat /\ Open(l, i - 1) \in Nat
        /\ Size(l, p) \in Nat /\ Width(l[i]) \in Nat
    BY <1>1, <1>3, SizeNat, OpenNat, Weights
  <1>6. /\ Size(l, i) = Size(l, i - 1) + Width(l[i])
        /\ Refused(l, i) = Refused(l, i - 1) + (IF IsBatch(l[i]) THEN 0 ELSE Open(l, i - 1))
    BY <1>1, <1>3, SizeNext
  <1>7. /\ x.clfs = Refused(l, i - 1) /\ x.batch = BatchAt(l, i - 1)
        /\ Size(l, i - 1) <= Len(x.store)
        /\ Len(x.store) <= Size(l, i - 1) \/ Len(x.store) <= Size(l, p)
    BY <1>1, <1>3 DEF RunOK
  <1>8. x.batch.count = Open(l, i - 1)
    BY <1>7, BatchCount
  <1> HIDE DEF GroupedAt, StoreOK
  <1>9. QED
    BY <1>1, <1>2, <1>3, <1>4, <1>5, <1>6, <1>7, <1>8

\* An entry that is no message.
LEMMA ApplyOther ==
    ASSUME NEW l, LogOK(l), NEW c \in 0 .. Len(l), NEW x, NEW p, ReplicaOK(l, c, x, p, "no"),
           x.applied < c, ~IsMsg(l[x.applied + 1]),
           NEW y, DOMAIN y = Fields, y.store = x.store, y.clfs = x.clfs + x.batch.count,
           y.batch = NoBatch, y.applied = x.applied + 1, y.active = x.active, y.clseq = x.clseq
    PROVE  ReplicaOK(l, c, y, p, "no")
  <1>1. PICK i : i = x.applied + 1
    OBVIOUS
  <1>2. /\ i \in 1 .. c /\ x.clfs = Refused(l, i - 1) /\ x.batch.count = Open(l, i - 1)
        /\ Size(l, i - 1) \in Nat /\ Refused(l, i - 1) \in Nat /\ Open(l, i - 1) \in Nat
        /\ Size(l, i - 1) <= Len(x.store) /\ Len(x.store) \in Nat
        /\ Len(x.store) <= Size(l, i - 1) \/ Len(x.store) <= Size(l, p)
        /\ Size(l, i) = Size(l, i - 1) + Width(l[i])
        /\ Refused(l, i) = Refused(l, i - 1) + (IF IsBatch(l[i]) THEN 0 ELSE Open(l, i - 1))
    BY <1>1, Running, SMTT(40)
  <1>3. Width(l[i]) = 0 /\ ~IsBatch(l[i]) /\ Open(l, i) = 0
    BY <1>1 DEF IsMsg, IsBatch, Width, Open
  <1>4. Size(l, i) = Size(l, i - 1) /\ Refused(l, i) = Refused(l, i - 1) + Open(l, i - 1)
    BY <1>2, <1>3
  <1>5. y.batch = BatchAt(l, i)
    BY <1>3 DEF BatchAt
  <1>6. RunOK(l, y, p)
    BY <1>1, <1>2, <1>4, <1>5 DEF RunOK
  <1>7. y.clfs \in Nat /\ y.applied \in 0 .. c
    BY <1>1, <1>2
  <1>8. QED
    BY <1>6, <1>7 DEF ReplicaOK

\* Before a message that is not of a batch, nothing waits.
LEMMA RejectNothing ==
    ASSUME NEW l, LogOK(l), NEW c \in 0 .. Len(l), NEW x, NEW p, ReplicaOK(l, c, x, p, "no"),
           x.applied < c, l[x.applied + 1].op = "msg"
    PROVE  Same(x, RejectBatch(x)) /\ RejectBatch(x).clseq = x.clseq /\ RejectBatch(x).dd = x.dd
           /\ x.batch = NoBatch
  <1>1. PICK i : i = x.applied + 1
    OBVIOUS
  <1>2. /\ GroupedAt(l, i) /\ x.batch = BatchAt(l, i - 1) /\ x.batch.count = Open(l, i - 1)
        /\ i \in 1 .. c /\ DOMAIN x = Fields /\ x.clfs \in Nat
    BY <1>1, Running
  <1>3. Open(l, i - 1) = 0
    <2>1. i - 1 > 0 => i > 1
      BY <1>2
    <2>2. i > 1 => l[i - 1].op # "batchMsg"
      BY <1>1, <1>2 DEF GroupedAt, IsBatch
    <2>3. QED
      BY <2>1, <2>2 DEF Open
  <1>4. x.batch = NoBatch
    BY <1>2, <1>3 DEF BatchAt
  <1>5. x.clfs + x.batch.count = x.clfs
    BY <1>2, <1>3
  <1>6. QED
    BY <1>2, <1>4, <1>5, RejectIs DEF Same

\* A message: it is there already, it is refused and the replica stops, or it
\* is stored.
LEMMA ApplyMessage ==
    ASSUME NEW l, LogOK(l), NEW c \in 0 .. Len(l), NEW x, NEW p, ReplicaOK(l, c, x, p, "no"),
           IdsOK(x.dd, x.store), x.applied < c, NEW e, e = l[x.applied + 1], e.op = "msg",
           NEW leader, NEW z, z = RejectBatch(x), NEW y, y = ProcessJetStreamMsg(z, e, leader),
           NEW w, w = [y EXCEPT !.applied = @ + 1]
    PROVE  /\ ~SeqMismatch(z, e)
           /\ Applies(l, c, x, p, w, IF MsgIdMismatch(z, e) THEN "werr" ELSE "no")
  <1>1. PICK i : i = x.applied + 1
    OBVIOUS
  <1>2. /\ i \in 1 .. c /\ i \in 1 .. Len(l) /\ i - 1 = x.applied /\ i - 1 \in 0 .. c
        /\ Grouped(l) /\ x.store \in Seq(Item) /\ Len(x.store) \in Nat /\ StoreOK(l, c, x.store)
        /\ x.clfs = Refused(l, i - 1) /\ Size(l, i - 1) \in Nat
        /\ Size(l, i - 1) <= Len(x.store)
        /\ Len(x.store) <= Size(l, i - 1) \/ Len(x.store) <= Size(l, p)
        /\ Size(l, i) = Size(l, i - 1) + Width(l[i])
        /\ Refused(l, i) = Refused(l, i - 1) + (IF IsBatch(l[i]) THEN 0 ELSE Open(l, i - 1))
        /\ Refused(l, i - 1) \in Nat /\ DOMAIN x = Fields /\ l \in Seq(Entry) /\ x.clfs \in Nat
        /\ x.batch.count = Open(l, i - 1)
    BY <1>1, Running
  <1>3. Same(x, z) /\ z.clseq = x.clseq /\ z.dd = x.dd /\ x.batch = NoBatch
    BY RejectNothing
  <1>4. e = l[i] /\ e.op = "msg" /\ Width(e) = 1 /\ ~IsBatch(e) /\ Open(l, i) = 0 /\ IsMsg(e)
    BY <1>1 DEF Width, IsBatch, IsMsg, Open
  <1>5. Open(l, i - 1) = 0
    BY <1>2, <1>3 DEF NoBatch
  <1>6. Size(l, i) = Size(l, i - 1) + 1 /\ Refused(l, i) = x.clfs
    BY <1>2, <1>4, <1>5
  <1>7. e.lseq = Size(l, i - 1) + z.clfs
    <2>1. e.lseq = Proposed(l, i - 1)
      BY <1>2, <1>4 DEF LogOK
    <2>2. QED
      BY <1>2, <1>3, <1>5, <2>1 DEF Proposed, Same
  <1>8. z.clfs \in Nat /\ z.store \in Seq(Item) /\ z.store = x.store /\ DOMAIN z = Fields
    BY <1>2, <1>3 DEF Same
  <1>9. (AlreadyStored(z, e) <=> Size(l, i - 1) < Len(x.store)) /\ ~SeqMismatch(z, e)
    BY <1>2, <1>7, <1>8, NextMsg
  <1>10. NoBatch = BatchAt(l, i)
    BY <1>4 DEF BatchAt
  <1>11. i \in 0 .. c /\ p \in 0 .. c /\ x.clseq \in Nat /\ x.active \in BOOLEAN
         /\ (~x.active => x.clseq = 0)
    BY <1>2 DEF ReplicaOK
  <1>12. CASE AlreadyStored(z, e)
    <2>1. y = z /\ ~MsgIdMismatch(z, e)
      BY <1>12, ProcessStored
    <2>2. /\ DOMAIN w = Fields /\ w.store = x.store /\ w.clfs = x.clfs /\ w.batch = NoBatch
          /\ w.applied = i /\ w.active = x.active /\ w.clseq = x.clseq /\ w.dd = x.dd
      BY <1>1, <1>3, <2>1 DEF Same, Fields
    <2>3. Size(l, i) <= Len(x.store)
      BY <1>2, <1>6, <1>9, <1>12
    <2>4. Len(x.store) <= Size(l, p)
      BY <1>2, <1>9, <1>12
    <2>5. RunOK(l, w, p)
      BY <1>6, <1>10, <2>2, <2>3, <2>4 DEF RunOK
    <2>6. ReplicaOK(l, c, w, p, "no")
      BY <1>2, <1>11, <2>2, <2>5 DEF ReplicaOK
    <2>7. QED
      BY <1>1, <1>2, <1>8, <1>9, <2>1, <2>2, <2>6 DEF Applies
  <1>13. CASE ~AlreadyStored(z, e)
    <2>1. Len(x.store) = Size(l, i - 1)
      BY <1>2, <1>9, <1>13
    <2>2. CASE MsgIdMismatch(z, e)
      <3>1. /\ DOMAIN y = Fields /\ y.store = z.store /\ y.clfs = z.clfs + 1
            /\ y.applied = z.applied /\ y.active = z.active /\ y.clseq = z.clseq
            /\ y.dd = z.dd
        BY <1>8, <2>2, ProcessRefused
      <3>2. /\ DOMAIN w = Fields /\ w.store = x.store /\ w.clfs = x.clfs + 1
            /\ w.applied = i /\ w.active = x.active /\ w.clseq = x.clseq /\ w.dd = x.dd
        BY <1>1, <1>3, <3>1 DEF Same, Fields
      <3>3. w.clfs \in Nat
        BY <1>2, <3>2
      <3>4. \E j \in 0 .. c : Len(w.store) = Size(l, j)
        BY <1>2, <2>1, <3>2
      <3>5. ReplicaOK(l, c, w, p, "werr")
        BY <1>2, <1>11, <3>2, <3>3, <3>4 DEF ReplicaOK
      <3>6. QED
        BY <1>1, <1>2, <1>8, <1>9, <2>2, <3>1, <3>2, <3>5 DEF Applies
    <2>3. CASE ~MsgIdMismatch(z, e)
      <3>1. /\ DOMAIN y = Fields /\ y.store = Append(z.store, ItemOf(e)) /\ y.clfs = z.clfs
            /\ y.batch = z.batch /\ y.applied = z.applied /\ y.active = z.active
            /\ y.clseq = z.clseq
            /\ y.dd = IF e.m.id = 0 THEN z.dd
                      ELSE UpdateMsgId(z.dd, e.m.id, Len(z.store) + 1, leader)
        BY <1>8, <1>9, <1>13, <2>3, ProcessNew, SMTT(40)
      <3>2. /\ DOMAIN w = Fields /\ w.store = Append(x.store, ItemOf(e)) /\ w.clfs = x.clfs
            /\ w.batch = NoBatch /\ w.applied = i /\ w.active = x.active /\ w.clseq = x.clseq
            /\ w.dd = IF e.m.id = 0 THEN x.dd
                      ELSE UpdateMsgId(x.dd, e.m.id, Len(x.store) + 1, leader)
        BY <1>1, <1>3, <3>1 DEF Same, Fields
      <3>3. e \in Entry
        BY <1>2, <1>4, Weights
      <3>4. ItemOf(e) \in Item /\ e.m.id \in Nat /\ ItemOf(e).m = e.m
        BY <1>4, <3>3, EntryFacts DEF ItemOf, Message
      <3>5. /\ Len(w.store) = Len(x.store) + 1 /\ w.store[Len(x.store) + 1] = ItemOf(e)
            /\ \A j \in 1 .. Len(x.store) : w.store[j] = x.store[j]
        BY <1>2, <3>2, <3>4
      <3>6. StoreOK(l, c, w.store)
        <4>1. 1 \in 1 .. Width(l[i]) /\ i - Width(l[i]) + 1 = i
          BY <1>2, <1>4
        <4>2. Len(x.store) = Size(l, i - 1) + 1 - 1
          BY <1>2, <2>1
        <4>3. StoreOK(l, c, Append(x.store, ItemOf(l[i - Width(l[i]) + 1])))
          BY <1>2, <4>1, <4>2, StoreBlock
        <4>4. QED
          BY <1>4, <3>2, <4>1, <4>3
      <3>7. Len(w.store) = Size(l, i)
        BY <1>6, <2>1, <3>5
      <3>8. RunOK(l, w, p)
        <4>1. Size(l, i) \in Nat
          BY <1>2, <1>6
        <4>2. QED
          BY <1>6, <1>10, <3>2, <3>7, <4>1 DEF RunOK
      <3>9. ReplicaOK(l, c, w, p, "no")
        BY <1>2, <1>11, <3>2, <3>6, <3>8 DEF ReplicaOK
      <3>10. IdsOK(w.dd, w.store)
        <4>1. Len(x.store) \in Nat /\ Len(w.store) \in Nat /\ Len(x.store) <= Len(w.store)
          BY <1>2, <3>5
        <4>2. IdsOK(x.dd, w.store)
          BY <3>5, <4>1, IdsGrow
        <4>3. Len(x.store) + 1 \in Nat \ {0} /\ Len(x.store) + 1 <= Len(w.store)
              /\ w.store[Len(x.store) + 1].m.id = e.m.id
          BY <3>4, <3>5, <4>1
        <4>4. IdsOK(UpdateMsgId(x.dd, e.m.id, Len(x.store) + 1, leader), w.store)
          BY <3>4, <4>2, <4>3, IdsUpdate
        <4>5. QED
          BY <3>2, <4>2, <4>4
      <3>11. Len(w.store) = Size(l, i - 1) + 1 /\ Len(x.store) <= Len(w.store)
        BY <1>2, <2>1, <3>5
      <3>12. w.store = y.store
        BY <1>8, <3>1, <3>2
      <3>13. QED
        BY <1>1, <1>2, <1>9, <2>3, <3>2, <3>7, <3>9, <3>10, <3>11, <3>12 DEF Applies
    <2>4. QED
      BY <2>2, <2>3
  <1>14. QED
    BY <1>12, <1>13

\* The sequences of the messages of a batch.
LEMMA BatchSeq ==
    ASSUME NEW l, LogOK(l), NEW i \in 1 .. Len(l), IsBatch(l[i]), NEW j \in 1 .. l[i].bs,
           NEW e, e = i - l[i].bs + j
    PROVE  /\ e \in 1 .. i /\ e \in 1 .. Len(l) /\ IsMsg(l[e]) /\ l[e].m.elm = 0
           /\ l[e].lseq = (Size(l, i - 1) + (j - 1)) + Refused(l, i)
  <1>1. l \in Seq(Entry) /\ Len(l) \in Nat /\ Grouped(l) /\ l[i].bs \in 1 .. i
    BY DEF LogOK, Grouped, GroupedAt
  <1>2. e \in 1 .. i /\ IsBatch(l[e]) /\ Open(l, e - 1) = j - 1
    BY <1>1, BlockAt
  <1>3. e \in 1 .. Len(l)
    BY <1>1, <1>2
  <1>4. IsMsg(l[e]) /\ l[e].m.elm = 0
    BY <1>1, <1>2, <1>3 DEF Grouped, GroupedAt, IsBatch, IsMsg
  <1>5. PICK o : o = i - l[i].bs
    OBVIOUS
  <1>6. Size(l, e - 1) = Size(l, o) /\ Refused(l, e - 1) = Refused(l, o)
    BY <1>1, <1>5, BlockFlat
  <1>7. Size(l, i - 1) = Size(l, o) /\ Refused(l, i) = Refused(l, o)
    <2>1. PICK n : n = l[i].bs
      OBVIOUS
    <2>2. n \in 1 .. l[i].bs /\ i - l[i].bs + n = i
      BY <1>1, <2>1
    <2>3. /\ Size(l, (i - l[i].bs + n) - 1) = Size(l, i - l[i].bs)
          /\ Refused(l, i - l[i].bs + n) = Refused(l, i - l[i].bs)
      BY <1>1, <2>2, BlockFlat
    <2>4. QED
      BY <1>5, <2>2, <2>3
  <1>8. l[e].lseq = Size(l, e - 1) + Refused(l, e - 1) + Open(l, e - 1)
    BY <1>3, <1>4 DEF LogOK, Proposed
  <1>9. PICK a, b : a = Size(l, o) /\ b = Refused(l, o)
    OBVIOUS
  <1>10. a \in Nat /\ b \in Nat
    <2>1. o \in 0 .. Len(l)
      BY <1>1, <1>5
    <2>2. QED
      BY <1>1, <1>9, <2>1, SizeNat
  <1>11. l[e].lseq = a + b + (j - 1)
    BY <1>2, <1>6, <1>8, <1>9
  <1>12. l[e].lseq = (a + (j - 1)) + b
    BY <1>1, <1>10, <1>11
  <1>13. QED
    BY <1>2, <1>3, <1>4, <1>7, <1>9, <1>12

\* A message of a batch is the next one of the batch that waits.
LEMMA CountIs ==
    ASSUME NEW l, LogOK(l), NEW c \in 0 .. Len(l), NEW x, NEW p, ReplicaOK(l, c, x, p, "no"),
           x.applied < c, NEW i, i = x.applied + 1, NEW e, e = l[i], IsBatch(e),
           NEW y, y = CountBatchMsg(x, e, i)
    PROVE  /\ DOMAIN y = Fields /\ y.store = x.store /\ y.clfs = x.clfs
           /\ y.batch = [id |-> e.b, count |-> e.bs, from |-> i - e.bs + 1]
           /\ y.applied = x.applied /\ y.active = x.active /\ y.clseq = x.clseq /\ y.dd = x.dd
           /\ Refused(l, i) = x.clfs /\ e.bs \in 1 .. i /\ e.b # 0
  <1>1. /\ i \in 1 .. c /\ i \in 1 .. Len(l) /\ Grouped(l) /\ GroupedAt(l, i)
        /\ x.clfs = Refused(l, i - 1) /\ x.batch = BatchAt(l, i - 1)
        /\ x.batch.count = Open(l, i - 1) /\ Refused(l, i - 1) \in Nat
        /\ Refused(l, i) = Refused(l, i - 1) + (IF IsBatch(l[i]) THEN 0 ELSE Open(l, i - 1))
        /\ DOMAIN x = Fields /\ x.clfs \in Nat
    BY Running
  <1>2. e.bs \in 1 .. i /\ e.b # 0 /\ Refused(l, i) = x.clfs
    BY <1>1 DEF GroupedAt
  <1> DEFINE v == IF (x.batch.id # 0 /\ x.batch.id # e.b) \/ e.bs = 1 THEN RejectBatch(x) ELSE x
             z == [v EXCEPT !.batch = [id |-> e.b, count |-> @.count + 1,
                                       from |-> IF e.bs = 1 THEN i ELSE @.from]]
  <1>3. y = IF e.bs = z.batch.count THEN z ELSE RejectBatch(z)
    BY DEF CountBatchMsg
  <1>4. /\ DOMAIN v = Fields /\ v.store = x.store /\ v.clfs = x.clfs /\ v.applied = x.applied
        /\ v.active = x.active /\ v.clseq = x.clseq /\ v.dd = x.dd
        /\ v.batch.count + 1 = e.bs /\ (IF e.bs = 1 THEN i ELSE v.batch.from) = i - e.bs + 1
    <2>1. CASE e.bs = 1
      <3>1. Open(l, i - 1) = 0
        <4>1. i - l[i].bs = i - 1
          BY <1>1, <2>1
        <4>2. QED
          BY <1>1, <4>1, BlockStart
      <3>2. v = RejectBatch(x)
        BY <2>1
      <3>3. x.clfs + x.batch.count = x.clfs
        BY <1>1, <3>1
      <3>4. NoBatch.count = 0
        BY DEF NoBatch
      <3>5. i = i - e.bs + 1
        BY <1>1, <2>1
      <3> HIDE DEF v
      <3>6. QED
        BY <1>1, <2>1, <3>2, <3>3, <3>4, <3>5, RejectIs
    <2>2. CASE e.bs > 1
      <3>1. /\ l[i - 1].op = "batchMsg" /\ l[i - 1].b = e.b /\ l[i - 1].bs = e.bs - 1
        BY <1>1, <2>2 DEF GroupedAt
      <3>2. i - 1 > 0 /\ e.bs \in Nat /\ i \in Nat /\ e.bs - 1 # 0
        BY <1>1, <1>2, <2>2
      <3>3. Open(l, i - 1) = e.bs - 1
        BY <3>1, <3>2 DEF Open
      <3>4. x.batch = [id |-> e.b, count |-> e.bs - 1, from |-> (i - 1) - (e.bs - 1) + 1]
        BY <1>1, <3>1, <3>2, <3>3 DEF BatchAt
      <3>5. x.batch.id = e.b /\ x.batch.count = e.bs - 1 /\ x.batch.from = i - e.bs + 1
        BY <3>2, <3>4
      <3>6. v = x
        BY <2>2, <3>5
      <3>7. (e.bs - 1) + 1 = e.bs
        BY <3>2
      <3> HIDE DEF v
      <3>8. QED
        BY <1>1, <2>2, <3>5, <3>6, <3>7
    <2>3. QED
      BY <1>2, <2>1, <2>2
  <1> HIDE DEF v
  <1>5. /\ DOMAIN z = Fields /\ z.store = x.store /\ z.clfs = x.clfs /\ z.applied = x.applied
        /\ z.active = x.active /\ z.clseq = x.clseq /\ z.dd = x.dd
        /\ z.batch = [id |-> e.b, count |-> e.bs, from |-> i - e.bs + 1]
    BY <1>4 DEF Fields
  <1>6. y = z
    BY <1>3, <1>5
  <1> HIDE DEF z
  <1>7. QED
    BY <1>2, <1>5, <1>6

\* A message of a batch that is not complete yet waits.
LEMMA ApplyWaiting ==
    ASSUME NEW l, LogOK(l), NEW c \in 0 .. Len(l), NEW x, NEW p, ReplicaOK(l, c, x, p, "no"),
           IdsOK(x.dd, x.store), x.applied < c, NEW i, i = x.applied + 1, l[i].op = "batchMsg",
           NEW y, y = CountBatchMsg(x, l[i], i), NEW w, w = [y EXCEPT !.applied = @ + 1]
    PROVE  Applies(l, c, x, p, w, "no")
  <1>1. PICK e : e = l[i]
    OBVIOUS
  <1>2. IsBatch(e) /\ Width(l[i]) = 0
    BY <1>1 DEF IsBatch, Width
  <1>3. /\ DOMAIN y = Fields /\ y.store = x.store /\ y.clfs = x.clfs
        /\ y.batch = [id |-> e.b, count |-> e.bs, from |-> i - e.bs + 1]
        /\ y.applied = x.applied /\ y.active = x.active /\ y.clseq = x.clseq /\ y.dd = x.dd
        /\ Refused(l, i) = x.clfs /\ e.bs \in 1 .. i /\ e.b # 0
    BY <1>1, <1>2, CountIs
  <1>4. /\ i \in 1 .. c /\ Size(l, i - 1) \in Nat /\ Len(x.store) \in Nat
        /\ Size(l, i - 1) <= Len(x.store) /\ i - 1 = x.applied
        /\ Len(x.store) <= Size(l, i - 1) \/ Len(x.store) <= Size(l, p)
        /\ Size(l, i) = Size(l, i - 1) + Width(l[i])
    BY Running
  <1>5. Size(l, i) = Size(l, i - 1)
    BY <1>2, <1>4
  <1>6. Open(l, i) = e.bs /\ e.bs # 0
    BY <1>1, <1>3, <1>4 DEF Open
  <1>7. BatchAt(l, i) = [id |-> e.b, count |-> e.bs, from |-> i - e.bs + 1]
    BY <1>1, <1>6 DEF BatchAt
  <1>8. /\ DOMAIN w = Fields /\ w.store = x.store /\ w.clfs = x.clfs /\ w.batch = BatchAt(l, i)
        /\ w.applied = i /\ w.active = x.active /\ w.clseq = x.clseq /\ w.dd = x.dd
    BY <1>3, <1>7 DEF Fields
  <1>9. RunOK(l, w, p)
    BY <1>3, <1>4, <1>5, <1>8 DEF RunOK
  <1>10. i \in 0 .. c
    BY <1>4
  <1>11. /\ ReplicaOK(l, c, w, p, "no") /\ w.store = x.store /\ w.dd = x.dd
         /\ w.applied = i /\ w.clseq = x.clseq /\ w.active = x.active
    BY <1>8, <1>9, <1>10 DEF ReplicaOK
  <1>12. Len(x.store) \in Nat
    BY DEF ReplicaOK, StoreOK
  <1>13. QED
    BY <1>11, <1>12 DEF Applies

\* One message more of a batch that is complete.
LEMMA CommitOne ==
    ASSUME NEW l, LogOK(l), NEW c \in 0 .. Len(l), NEW i \in 1 .. c, l[i].op = "batchCommit",
           NEW x, x.clfs = Refused(l, i), Len(x.store) \in Nat, NEW j \in 1 .. l[i].bs,
           NEW z, Committing(l, c, i, x, z, j - 1), NEW leader,
           NEW q, q[j] = l[i - l[i].bs + j]
    PROVE  Committing(l, c, i, x, CommitItem(leader, q, z, j), j)
  <1>1. /\ l \in Seq(Entry) /\ Len(l) \in Nat /\ Grouped(l) /\ i \in 1 .. Len(l) /\ i - 1 \in 0 .. Len(l)
        /\ i \in 0 .. Len(l)
    BY DEF LogOK, Grouped
  <1>2. IsBatch(l[i]) /\ Width(l[i]) = l[i].bs
    BY DEF IsBatch, Width
  <1>3. l[i].bs \in 1 .. i
    BY <1>1, <1>2 DEF Grouped, GroupedAt
  <1>4. PICK e : e = i - l[i].bs + j
    OBVIOUS
  <1>5. PICK f : f = l[e]
    OBVIOUS
  <1>6. /\ e \in 1 .. Len(l) /\ IsMsg(f) /\ f.m.elm = 0 /\ q[j] = f
        /\ f.lseq = (Size(l, i - 1) + (j - 1)) + Refused(l, i)
    BY <1>1, <1>2, <1>4, <1>5, BatchSeq
  <1>7. PICK s : s = Size(l, i - 1) + (j - 1)
    OBVIOUS
  <1>8. /\ Size(l, i - 1) \in Nat /\ Refused(l, i) \in Nat /\ s \in Nat /\ j \in Nat /\ j > 0
    <2>1. Size(l, i - 1) \in Nat /\ Refused(l, i) \in Nat
      BY <1>1, SizeNat
    <2>2. j \in Nat /\ j > 0
      BY <1>3
    <2>3. QED
      BY <1>7, <2>1, <2>2
  <1>9. /\ DOMAIN z = Fields /\ z.clfs = Refused(l, i) /\ z.batch = NoBatch /\ z.applied = x.applied
        /\ z.active = x.active /\ z.clseq = x.clseq
        /\ StoreOK(l, c, z.store) /\ IdsOK(z.dd, z.store)
        /\ Len(x.store) <= Len(z.store) /\ s <= Len(z.store)
        /\ Len(z.store) = Len(x.store) \/ Len(z.store) = s
    BY <1>7 DEF Committing
  <1>10. z.store \in Seq(Item) /\ Len(z.store) \in Nat
    BY <1>9 DEF StoreOK
  <1>11. (AlreadyStored(z, f) <=> s < Len(z.store)) /\ ~SeqMismatch(z, f)
    BY <1>6, <1>7, <1>8, <1>9, <1>10, NextMsg
  <1>12. ~MsgIdMismatch(z, f)
    BY <1>6 DEF MsgIdMismatch
  <1>13. PICK y : y = CommitItem(leader, q, z, j)
    OBVIOUS
  <1>14. Size(l, i - 1) + j = s + 1
    BY <1>7, <1>8
  <1>15. CASE AlreadyStored(z, f)
    <2>1. y = z
      BY <1>6, <1>13, <1>15 DEF CommitItem
    <2>2. s + 1 <= Len(z.store)
      BY <1>8, <1>10, <1>11, <1>15
    <2>3. Len(z.store) = Len(x.store)
      BY <1>8, <1>9, <1>10, <1>11, <1>15
    <2>4. Committing(l, c, i, x, z, j)
      BY <1>9, <1>14, <2>2, <2>3 DEF Committing
    <2>5. QED
      BY <1>13, <2>1, <2>4
  <1>16. CASE ~AlreadyStored(z, f)
    <2>1. Len(z.store) = s
      BY <1>8, <1>9, <1>10, <1>11, <1>16
    <2>2. PICK v : v = ProcessJetStreamMsg(z, f, leader)
      OBVIOUS
    <2>3. /\ DOMAIN v = Fields /\ v.store = Append(z.store, ItemOf(f)) /\ v.clfs = z.clfs
          /\ v.batch = z.batch /\ v.applied = z.applied /\ v.active = z.active
          /\ v.clseq = z.clseq
          /\ v.dd = IF f.m.id = 0 THEN z.dd
                    ELSE UpdateMsgId(z.dd, f.m.id, Len(z.store) + 1, leader)
      BY <1>9, <1>11, <1>12, <1>16, <2>2, ProcessNew, SMTT(40)
    <2>4. y = ClearInflight(v, f)
      BY <1>6, <1>11, <1>13, <1>16, <2>2 DEF CommitItem
    <2>5. Same(v, y) /\ y.clseq = v.clseq /\ y.dd = v.dd
      BY <2>3, <2>4, ClearSame
    <2>6. /\ DOMAIN y = Fields /\ y.clfs = x.clfs /\ y.batch = NoBatch /\ y.applied = x.applied
          /\ y.active = x.active /\ y.clseq = x.clseq
      BY <1>9, <2>3, <2>5 DEF Same
    <2>7. y.store = Append(z.store, ItemOf(f))
          /\ y.dd = IF f.m.id = 0 THEN z.dd
                    ELSE UpdateMsgId(z.dd, f.m.id, Len(z.store) + 1, leader)
      BY <2>3, <2>5 DEF Same
    <2>8. ItemOf(f) \in Item /\ f.m.id \in Nat /\ ItemOf(f).m = f.m
      <3>1. f \in Entry
        BY <1>1, <1>5, <1>6
      <3>2. QED
        BY <1>6, <3>1, EntryFacts DEF ItemOf, Message
    <2>9. /\ Len(y.store) = s + 1 /\ y.store[s + 1] = ItemOf(f)
          /\ \A k \in 1 .. s : y.store[k] = z.store[k]
      BY <1>10, <2>1, <2>7, <2>8
    <2>10. StoreOK(l, c, y.store)
      <3>1. j \in 1 .. Width(l[i]) /\ i - Width(l[i]) + j = e
        BY <1>2, <1>4
      <3>2. Len(z.store) = Size(l, i - 1) + j - 1
        BY <1>7, <1>8, <2>1
      <3>3. StoreOK(l, c, Append(z.store, ItemOf(l[i - Width(l[i]) + j])))
        BY <1>1, <1>9, <3>1, <3>2, StoreBlock
      <3>4. QED
        BY <1>5, <2>7, <3>1, <3>3
    <2>11. IdsOK(y.dd, y.store)
      <3>1. Len(z.store) \in Nat /\ Len(y.store) \in Nat /\ Len(z.store) <= Len(y.store)
        BY <1>8, <2>1, <2>9
      <3>2. \A k \in 1 .. Len(z.store) : y.store[k] = z.store[k]
        BY <2>1, <2>9
      <3>3. IdsOK(z.dd, y.store)
        BY <1>9, <3>1, <3>2, IdsGrow
      <3>4. s + 1 \in Nat \ {0} /\ s + 1 <= Len(y.store) /\ y.store[s + 1].m.id = f.m.id
        BY <1>8, <2>8, <2>9
      <3>5. IdsOK(UpdateMsgId(z.dd, f.m.id, s + 1, leader), y.store)
        BY <2>8, <3>3, <3>4, IdsUpdate
      <3>6. QED
        BY <2>1, <2>7, <3>3, <3>5
    <2>12. Len(x.store) <= Len(y.store)
      BY <1>8, <1>9, <2>1, <2>9
    <2>13. Len(y.store) = Size(l, i - 1) + j /\ Size(l, i - 1) + j <= Len(y.store)
      BY <1>8, <1>14, <2>9
    <2>14. Committing(l, c, i, x, y, j)
      BY <2>6, <2>10, <2>11, <2>12, <2>13 DEF Committing
    <2>15. QED
      BY <1>13, <2>14
  <1>17. QED
    BY <1>15, <1>16

\* A batch that is complete is stored as a whole.
LEMMA CommitAll ==
    ASSUME LogOK(log), NEW c \in 0 .. Len(log), NEW i \in 1 .. c, log[i].op = "batchCommit",
           NEW x, x.clfs = Refused(log, i), Len(x.store) \in Nat, NEW leader,
           NEW y, y.batch.id # 0, y.batch.from = i - log[i].bs + 1,
           Committing(log, c, i, x, [y EXCEPT !.batch = NoBatch], 0)
    PROVE  Committing(log, c, i, x, ApplyBatchCommit(y, i, leader), log[i].bs)
  <1>1. log \in Seq(Entry) /\ Len(log) \in Nat /\ i \in 1 .. Len(log) /\ i \in Nat
    BY DEF LogOK, Grouped
  <1>2. log[i].bs \in 1 .. i
    BY <1>1 DEF LogOK, Grouped, GroupedAt, IsBatch
  <1>3. PICK n : n = log[i].bs
    OBVIOUS
  <1>4. PICK q : q = SubSeq(log, i - n + 1, i)
    OBVIOUS
  <1>5. BatchToApply(y, i) = q
    BY <1>3, <1>4 DEF BatchToApply
  <1>6. n \in Nat /\ n > 0 /\ n <= i /\ i <= Len(log) /\ i - n + 1 \in 1 .. i
    BY <1>1, <1>2, <1>3
  <1>7. q \in Seq(Entry) /\ Len(q) = n /\ \A j \in 1 .. n : q[j] = log[i - n + j]
    <2>1. PICK a : a = i - n + 1
      OBVIOUS
    <2>2. a \in 1 .. Len(log) /\ i \in a .. Len(log) /\ i - a + 1 = n /\ q = SubSeq(log, a, i)
      <3>1. q = SubSeq(log, a, i)
        BY <1>4, <2>1
      <3>2. a \in 1 .. i /\ i - a + 1 = n
        BY <1>1, <1>6, <2>1
      <3>3. a \in 1 .. Len(log) /\ i \in a .. Len(log)
        BY <1>1, <3>2
      <3>4. QED
        BY <3>1, <3>2, <3>3
    <2>3. q = [j \in 1 .. (i - a + 1) |-> log[a + j - 1]]
      BY <1>1, <2>2, SMTT(40)
    <2>4. ASSUME NEW j \in 1 .. n PROVE q[j] = log[i - n + j] /\ q[j] \in Entry
      <3>1. q[j] = log[a + j - 1]
        BY <2>2, <2>3
      <3>2. a + j - 1 = i - n + j /\ a + j - 1 \in 1 .. Len(log)
        BY <1>1, <1>6, <2>1, SMTT(40)
      <3>3. QED
        BY <1>1, <3>1, <3>2
    <2>5. q \in [1 .. n -> Entry]
      BY <2>2, <2>3, <2>4
    <2>6. q \in Seq(Entry) /\ Len(q) = n
      BY <1>6, <2>5
    <2>7. QED
      BY <2>4, <2>6
  <1>8. DOMAIN q = 1 .. n
    BY <1>7
  <1>9. PICK b : b = [y EXCEPT !.batch = NoBatch]
    OBVIOUS
  <1>10. ApplyBatchCommit(y, i, leader) = Commits!Fold(leader, q, b, 1 .. n)
    BY <1>5, <1>8, <1>9, CommitFold
  <1> DEFINE F(j) == Commits!Fold(leader, q, b, 1 .. j)
             G == {j \in 0 .. n : Committing(log, c, i, x, F(j), j)}
  <1>11. 0 \in G
    <2>1. 1 .. 0 = {} /\ 0 \in 0 .. n
      BY <1>6
    <2>2. Commits!Fold(leader, q, b, {}) = b
      BY Commits!FoldNothing
    <2>3. F(0) = b
      BY <2>1, <2>2
    <2>4. Committing(log, c, i, x, F(0), 0)
      BY <1>9, <2>3
    <2>5. QED
      BY <2>1, <2>4
  <1>12. ASSUME NEW j \in 1 .. n, j - 1 \in G PROVE j \in G
    <2>1. Committing(log, c, i, x, F(j - 1), j - 1) /\ j \in 0 .. n /\ j \in Nat \ {0}
      BY <1>12
    <2>2. F(j) = CommitItem(leader, q, F(j - 1), j)
      <3>1. PICK S : S = 1 .. j - 1
        OBVIOUS
      <3>2. 1 .. j = S \cup {j} /\ S \subseteq 1 .. j - 1
        BY <2>1, <3>1
      <3>3. Commits!Fold(leader, q, b, S \cup {j})
              = CommitItem(leader, q, Commits!Fold(leader, q, b, S), j)
        BY <2>1, <3>2, Commits!FoldOne
      <3>4. QED
        BY <3>1, <3>2, <3>3, Zenon
    <2>3. j \in 1 .. log[i].bs /\ q[j] = log[i - log[i].bs + j]
      BY <1>3, <1>7
    <2> HIDE DEF F
    <2>4. Committing(log, c, i, x, CommitItem(leader, q, F(j - 1), j), j)
      BY <2>1, <2>3, CommitOne
    <2>5. QED
      BY <2>1, <2>2, <2>4
  <1>13. n \in G
    <2> HIDE DEF G
    <2>1. QED
      BY <1>6, <1>11, <1>12, Sums!UpTo
  <1>14. QED
    BY <1>3, <1>10, <1>13

\* The entry that completes a batch.
LEMMA ApplyComplete ==
    ASSUME LogOK(log), NEW c \in 0 .. Len(log), NEW x, NEW p, ReplicaOK(log, c, x, p, "no"),
           IdsOK(x.dd, x.store), x.applied < c, NEW i, i = x.applied + 1,
           log[i].op = "batchCommit", NEW leader, NEW y, y = CountBatchMsg(x, log[i], i),
           NEW z, z = ApplyBatchCommit(y, i, leader), NEW w, w = [z EXCEPT !.applied = i]
    PROVE  Completes(log, c, x, p, y, w)
  <1>1. PICK e : e = log[i]
    OBVIOUS
  <1>2. IsBatch(e) /\ Width(log[i]) = e.bs /\ Open(log, i) = 0
    BY <1>1 DEF IsBatch, Width, Open
  <1>3. /\ DOMAIN y = Fields /\ y.store = x.store /\ y.clfs = x.clfs
        /\ y.batch = [id |-> e.b, count |-> e.bs, from |-> i - e.bs + 1]
        /\ y.applied = x.applied /\ y.active = x.active /\ y.clseq = x.clseq /\ y.dd = x.dd
        /\ Refused(log, i) = x.clfs /\ e.bs \in 1 .. i /\ e.b # 0
    BY <1>1, <1>2, CountIs
  <1>4. /\ i \in 1 .. c /\ i \in 1 .. Len(log) /\ Size(log, i - 1) \in Nat /\ Len(x.store) \in Nat
        /\ Size(log, i - 1) <= Len(x.store) /\ i - 1 = x.applied
        /\ Len(x.store) <= Size(log, i - 1) \/ Len(x.store) <= Size(log, p)
        /\ Size(log, i) = Size(log, i - 1) + Width(log[i]) /\ x.clfs \in Nat
        /\ StoreOK(log, c, x.store) /\ x.store \in Seq(Item)
    BY Running
  <1>5. y.batch.id = e.b /\ y.batch.from = i - e.bs + 1
    BY <1>3
  <1>6. ~SeqMismatch(y, log[y.batch.from])
    <2>1. 1 \in 1 .. log[i].bs
      BY <1>1, <1>3
    <2>2. log[i - log[i].bs + 1].lseq = (Size(log, i - 1) + (1 - 1)) + Refused(log, i)
      BY <1>1, <1>2, <1>4, <2>1, BatchSeq
    <2>3. log[y.batch.from].lseq = Size(log, i - 1) + y.clfs
      BY <1>1, <1>3, <1>4, <1>5, <2>2
    <2>4. y.clfs \in Nat /\ y.store \in Seq(Item) /\ Size(log, i - 1) <= Len(y.store)
      BY <1>3, <1>4
    <2>5. QED
      BY <1>4, <2>3, <2>4, NextMsg
  <1>7. PICK b : b = [y EXCEPT !.batch = NoBatch]
    OBVIOUS
  <1>8. /\ DOMAIN b = Fields /\ b.store = x.store /\ b.clfs = x.clfs /\ b.batch = NoBatch
        /\ b.applied = x.applied /\ b.active = x.active /\ b.clseq = x.clseq /\ b.dd = x.dd
    BY <1>3, <1>7 DEF Fields
  <1>9. Committing(log, c, i, x, b, 0)
    BY <1>4, <1>8 DEF Committing
  <1>10. Committing(log, c, i, x, z, log[i].bs)
    BY <1>1, <1>3, <1>4, <1>5, <1>7, <1>9, CommitAll
  <1>11. /\ DOMAIN z = Fields /\ z.clfs = x.clfs /\ z.batch = NoBatch /\ z.applied = x.applied
         /\ z.active = x.active /\ z.clseq = x.clseq
         /\ StoreOK(log, c, z.store) /\ IdsOK(z.dd, z.store)
         /\ Len(x.store) <= Len(z.store) /\ Size(log, i - 1) + e.bs <= Len(z.store)
         /\ Len(z.store) = Len(x.store) \/ Len(z.store) = Size(log, i - 1) + e.bs
    BY <1>1, <1>10 DEF Committing
  <1>12. /\ DOMAIN w = Fields /\ w.clfs = x.clfs /\ w.batch = NoBatch /\ w.applied = i
         /\ w.active = x.active /\ w.clseq = x.clseq /\ w.store = z.store /\ w.dd = z.dd
    BY <1>11 DEF Fields
  <1>13. Size(log, i) = Size(log, i - 1) + e.bs
    BY <1>2, <1>4
  <1>14. Len(z.store) \in Nat
    BY <1>11 DEF StoreOK
  <1>15. Size(log, p) \in Nat /\ Size(log, i) \in Nat
    <2>1. e.bs \in Nat
      BY <1>3
    <2>2. Size(log, i) \in Nat
      BY <1>4, <1>13, <2>1
    <2>3. QED
      BY <2>2, Running
  <1>16. Size(log, i) <= Len(w.store) /\ (Len(w.store) <= Size(log, i) \/ Len(w.store) <= Size(log, p))
    <2>1. CASE Len(z.store) = Size(log, i)
      BY <1>12, <1>14, <2>1
    <2>2. CASE Len(z.store) = Len(x.store)
      <3>1. e.bs > 0 /\ e.bs \in Nat
        BY <1>3
      <3>2. Size(log, i) <= Len(x.store)
        BY <1>11, <1>13, <2>2
      <3>3. Len(x.store) <= Size(log, p)
        BY <1>4, <1>13, <3>1, <3>2
      <3>4. QED
        BY <1>12, <2>2, <3>2, <3>3
    <2>3. QED
      BY <1>11, <1>13, <2>1, <2>2
  <1>17. BatchAt(log, i) = NoBatch
    BY <1>2 DEF BatchAt
  <1>18. RunOK(log, w, p)
    BY <1>3, <1>12, <1>16, <1>17 DEF RunOK
  <1>19. i \in 0 .. c
    BY <1>4
  <1>20. ReplicaOK(log, c, w, p, "no")
    BY <1>11, <1>12, <1>18, <1>19 DEF ReplicaOK
  <1>21. Len(w.store) > Len(x.store) => Len(w.store) = Size(log, i)
    BY <1>4, <1>11, <1>12, <1>13, <1>14
  <1>22. QED
    BY <1>6, <1>11, <1>12, <1>20, <1>21 DEF Applies, Completes

-----------------------------------------------------------------------------
(***************************************************************************)
(* The leader proposes.                                                    *)
(***************************************************************************)
\* A replica changes nothing but what it has noted about its proposals.
LEMMA ReplicaSame ==
    ASSUME NEW l, NEW c, NEW x, NEW p, NEW h, ReplicaOK(l, c, x, p, h),
           NEW y, Same(x, y), y.clseq \in Nat, ~y.active => y.clseq = 0
    PROVE  ReplicaOK(l, c, y, p, h)
  BY DEF ReplicaOK, RunOK, Same

\* A replica that has applied all that it stored before it was restarted holds
\* what its entries say.
LEMMA Caughtup ==
    ASSUME NEW l, Grouped(l), NEW c \in 0 .. Len(l), NEW x, NEW p, ReplicaOK(l, c, x, p, "no"),
           x.applied >= p
    PROVE  Len(x.store) = Size(l, x.applied) /\ x.clfs = Refused(l, x.applied)
           /\ x.batch = BatchAt(l, x.applied) /\ x.applied \in 0 .. Len(l) /\ x.store \in Seq(Item)
  <1>1. /\ l \in Seq(Entry) /\ Len(l) \in Nat /\ RunOK(l, x, p) /\ x.applied \in 0 .. c /\ p \in 0 .. c
        /\ x.store \in Seq(Item)
    BY DEF Grouped, ReplicaOK, StoreOK
  <1>2. p \in 0 .. Len(l) /\ x.applied \in p .. Len(l) /\ x.applied \in 0 .. Len(l)
    BY <1>1
  <1>3. Size(l, p) <= Size(l, x.applied) /\ Size(l, p) \in Nat /\ Size(l, x.applied) \in Nat
    BY <1>1, <1>2, SizeGrows, SizeNat
  <1>4. Len(x.store) \in Nat
    BY <1>1
  <1>5. QED
    BY <1>1, <1>2, <1>3, <1>4 DEF RunOK

\* The sequence that the leader gives the next message is the number of all that
\* were proposed.
LEMMA NextClseq ==
    ASSUME NEW l, LogOK(l), NEW c \in 0 .. Len(l), NEW x, NEW p, ReplicaOK(l, c, x, p, "no"),
           NEW a, LeaderOK(l, a, x, p, TRUE), NEW y, y = WithClseq(x)
    PROVE  Numbered(l, x, y)
  <1>1. Grouped(l) /\ l \in Seq(Entry) /\ Len(l) \in Nat /\ DOMAIN x = Fields /\ x.clseq \in Nat
        /\ x.clfs \in Nat /\ p \in 0 .. c /\ x.applied \in 0 .. c
    BY DEF LogOK, Grouped, ReplicaOK
  <1>2. /\ a \in 1 .. Len(l) /\ p < a /\ x.applied >= a
        /\ Proposed(l, Len(l)) = IF x.clseq = 0 THEN Proposed(l, a) ELSE x.clseq
    BY DEF LeaderOK
  <1>3. x.applied >= p
    BY <1>1, <1>2
  <1>4. /\ Len(x.store) = Size(l, x.applied) /\ x.clfs = Refused(l, x.applied)
        /\ x.batch = BatchAt(l, x.applied) /\ x.applied \in 0 .. Len(l)
    BY <1>1, <1>3, Caughtup
  <1>5. x.batch.count = Open(l, x.applied)
    BY <1>4, BatchCount
  <1>6. Len(x.store) + x.clfs + x.batch.count = Proposed(l, x.applied)
    BY <1>4, <1>5 DEF Proposed
  <1>7. /\ Proposed(l, a) <= Proposed(l, x.applied) /\ Proposed(l, x.applied) <= Proposed(l, Len(l))
        /\ Proposed(l, a) \in Nat /\ Proposed(l, x.applied) \in Nat /\ Proposed(l, Len(l)) \in Nat
    <2>1. a \in 0 .. Len(l) /\ x.applied \in a .. Len(l) /\ Len(l) \in x.applied .. Len(l)
          /\ Len(l) \in 0 .. Len(l)
      BY <1>1, <1>2, <1>4
    <2>2. Proposed(l, a) <= Proposed(l, x.applied)
      BY <1>1, <2>1, SizeGrows
    <2>3. Proposed(l, x.applied) <= Proposed(l, Len(l))
      BY <1>1, <1>4, <2>1, SizeGrows
    <2>4. QED
      BY <1>1, <1>4, <2>1, <2>2, <2>3, SizeNat
  <1>8. Len(x.store) \in Nat /\ x.batch.count \in Nat
    BY <1>1, <1>4, <1>5, SizeNat, OpenNat
  <1>9. CASE x.clseq = 0
    <2>1. y = [x EXCEPT !.clseq = Len(x.store) + x.clfs + x.batch.count]
      BY <1>9 DEF WithClseq, RecalculateClusteredSeq
    <2>2. Proposed(l, x.applied) = Proposed(l, Len(l))
      BY <1>2, <1>7, <1>9
    <2>3. Same(x, y) /\ y.dd = x.dd /\ y.clseq = Len(x.store) + x.clfs + x.batch.count
      BY <1>1, <2>1 DEF Same, Fields
    <2>4. QED
      BY <1>6, <1>7, <2>2, <2>3 DEF Numbered
  <1>10. CASE x.clseq # 0
    <2>1. ~(x.clseq < Len(x.store) + x.clfs)
      BY <1>1, <1>2, <1>6, <1>7, <1>8, <1>10
    <2>2. y = x
      BY <1>10, <2>1 DEF WithClseq
    <2>3. Same(x, y)
      BY <1>1, <2>2 DEF Same
    <2>4. QED
      BY <1>1, <1>2, <1>10, <2>2, <2>3 DEF Numbered
  <1>11. QED
    BY <1>9, <1>10

\* Nothing is staged at first.
LEMMA NoDiffOK == DiffOK(NoDiff)
  BY DEF DiffOK, NoDiff

\* What one more message stages.
LEMMA CheckOK ==
    ASSUME NEW x, NEW d, DiffOK(d), NEW p \in Message
    PROVE  DiffOK(CheckMsg(x, d, p))
  <1>1. p.id \in Nat
    BY DEF Message
  <1>2. Append(d.ids, p.id) \in Seq(Nat)
    BY <1>1 DEF DiffOK
  <1>3. CASE /\ d.ok /\ DuplicateOk(x, d, p) /\ ExpectedLastSeqOk(x, d, p)
             /\ ExpectedPerSubjectOk(x, d, p) /\ LimitOk(x, d, p)
    <2>1. PICK f, g : CheckMsg(x, d, p) = [d EXCEPT !.ids = IF p.id = 0 THEN @ ELSE Append(@, p.id),
                                                    !.inflight = f, !.expected = g]
      BY <1>3 DEF CheckMsg
    <2>2. QED
      BY <1>2, <2>1 DEF DiffOK
  <1>4. CASE ~(/\ d.ok /\ DuplicateOk(x, d, p) /\ ExpectedLastSeqOk(x, d, p)
               /\ ExpectedPerSubjectOk(x, d, p) /\ LimitOk(x, d, p))
    <2>1. PICK f : CheckMsg(x, d, p) = [d EXCEPT !.ok = FALSE, !.dup = f]
      BY <1>4 DEF CheckMsg
    <2>2. QED
      BY <2>1 DEF DiffOK
  <1>5. QED
    BY <1>3, <1>4

\* One list after another.
LEMMA Appended ==
    ASSUME NEW S, NEW a \in Seq(S), NEW b \in Seq(S)
    PROVE  /\ a \o b \in Seq(S) /\ Len(a \o b) = Len(a) + Len(b)
           /\ \A i \in 1 .. Len(a) : (a \o b)[i] = a[i]
           /\ \A i \in 1 .. Len(b) : (a \o b)[Len(a) + i] = b[i]
  OBVIOUS

\* The staged ids are noted without a sequence.
LEMMA CommitDiffSame ==
    ASSUME NEW x, DOMAIN x = Fields, NEW d, DiffOK(d), NEW st, IdsOK(x.dd, st),
           NEW y, y = CommitDiff(x, d)
    PROVE  Staged(x, y, st)
  <1>1. PICK g : g = [i \in DOMAIN d.ids |-> [id |-> d.ids[i], seq |-> 0]]
    OBVIOUS
  <1>2. PICK f, h : y = [x EXCEPT !.dd = @ \o g, !.inflight = f, !.expected = h]
    BY <1>1 DEF CommitDiff
  <1>3. Same(x, y) /\ y.clseq = x.clseq /\ y.dd = x.dd \o g
    BY <1>2 DEF Same, Fields
  <1>4. PICK dd, ids, n, k : dd = x.dd /\ ids = d.ids /\ n = Len(x.dd) /\ k = Len(d.ids)
    OBVIOUS
  <1>5. dd \in Seq(Id) /\ n = Len(dd) /\ n \in Nat /\ DOMAIN dd = 1 .. n
    BY <1>4 DEF IdsOK, Id
  <1>6. ids \in Seq(Nat) /\ k = Len(ids) /\ k \in Nat /\ DOMAIN ids = 1 .. k
    BY <1>4 DEF DiffOK
  <1>7. \A i \in 1 .. k : g[i] = [id |-> ids[i], seq |-> 0] /\ ids[i] \in Nat
    BY <1>1, <1>4, <1>6
  <1>8. ASSUME NEW i \in 1 .. k PROVE g[i].seq = 0 /\ g[i] \in Id
    <2>1. PICK v : v = ids[i]
      OBVIOUS
    <2>2. g[i] = [id |-> v, seq |-> 0] /\ v \in Nat
      BY <1>7, <2>1
    <2>3. QED
      BY <2>2 DEF Id
  <1>9. DOMAIN g = 1 .. k /\ g = [i \in 1 .. k |-> g[i]]
    BY <1>1, <1>4, <1>6
  <1>10. g \in Seq(Id) /\ Len(g) = k
    BY <1>6, <1>8, <1>9
  <1>11. PICK q : q = dd \o g
    OBVIOUS
  <1>12. q \in Seq(Id) /\ Len(q) = n + k /\ DOMAIN q = 1 .. n + k
    <2>1. q \in Seq(Id)
      BY <1>5, <1>10, <1>11
    <2>2. Len(q) = Len(dd) + Len(g)
      BY <1>5, <1>10, <1>11, Appended
    <2>3. DOMAIN q = 1 .. Len(q)
      BY <2>1
    <2>4. Len(q) = n + k
      BY <1>5, <1>10, <2>2
    <2>5. QED
      BY <2>1, <2>3, <2>4
  <1>13. ASSUME NEW i \in DOMAIN q, q[i].seq # 0
         PROVE  q[i].seq <= Len(st) /\ st[q[i].seq].m.id = q[i].id
    <2>1. CASE i <= n
      <3>1. i \in DOMAIN dd /\ q[i] = dd[i]
        BY <1>5, <1>6, <1>10, <1>11, <1>12, <2>1
      <3>2. QED
        BY <1>4, <1>13, <3>1 DEF IdsOK
    <2>2. CASE i > n
      <3>1. i \in 1 .. n + k /\ i - n \in 1 .. k
        BY <1>5, <1>6, <1>12, <2>2
      <3>2. q[i] = g[i - n]
        BY <1>5, <1>6, <1>10, <1>11, <2>2, <3>1
      <3>3. q[i].seq = 0
        BY <1>8, <3>1, <3>2
      <3>4. QED
        BY <1>13, <3>3
    <2>3. QED
      BY <1>5, <1>6, <1>12, <2>1, <2>2
  <1>14. IdsOK(q, st)
    BY <1>12, <1>13 DEF IdsOK, Id
  <1>15. QED
    BY <1>3, <1>4, <1>11, <1>14 DEF Staged

\* The checks of a batch count its messages.
LEMMA CheckAll ==
    ASSUME NEW x, DOMAIN x = Fields, x.clseq \in Nat, NEW b \in Seq(Message),
           NEW w, w = CheckBatch(x, b)
    PROVE  Counted(x, b, w)
  <1>1. PICK n : n = Len(b)
    OBVIOUS
  <1>2. n \in Nat /\ DOMAIN b = 1 .. n
    BY <1>1
  <1>3. PICK o : o = [x |-> x, d |-> NoDiff]
    OBVIOUS
  <1>4. w = Checks!Fold(0, b, o, 1 .. n)
    BY <1>2, <1>3, CheckFold
  <1> DEFINE F(j) == Checks!Fold(0, b, o, 1 .. j)
             Good(v, j) == /\ Same(x, v.x) /\ v.x.dd = x.dd /\ v.x.clseq = x.clseq + j
                           /\ DiffOK(v.d)
             G == {j \in 0 .. n : Good(F(j), j)}
  <1>5. 0 \in G
    <2>1. 1 .. 0 = {} /\ 0 \in 0 .. n
      BY <1>2
    <2>2. Checks!Fold(0, b, o, {}) = o
      BY Checks!FoldNothing
    <2>3. F(0) = o
      BY <2>1, <2>2
    <2>4. Good(o, 0)
      BY <1>3, NoDiffOK DEF Same
    <2>5. QED
      BY <2>1, <2>3, <2>4
  <1>6. ASSUME NEW j \in 1 .. n, j - 1 \in G PROVE j \in G
    <2>1. Good(F(j - 1), j - 1) /\ j \in 0 .. n /\ j \in Nat \ {0}
      BY <1>6
    <2>2. F(j) = CheckItem(0, b, F(j - 1), j)
      <3>1. PICK S : S = 1 .. j - 1
        OBVIOUS
      <3>2. 1 .. j = S \cup {j} /\ S \subseteq 1 .. j - 1
        BY <2>1, <3>1
      <3>3. Checks!Fold(0, b, o, S \cup {j}) = CheckItem(0, b, Checks!Fold(0, b, o, S), j)
        BY <2>1, <3>2, Checks!FoldOne
      <3>4. QED
        BY <3>1, <3>2, <3>3, Zenon
    <2>3. PICK v : v = F(j - 1)
      OBVIOUS
    <2>4. PICK u : u = F(j)
      OBVIOUS
    <2>5. Good(v, j - 1)
      BY <2>1, <2>3
    <2>6. u = [x |-> [v.x EXCEPT !.clseq = @ + 1], d |-> CheckMsg(v.x, v.d, b[j])]
      BY <2>2, <2>3, <2>4 DEF CheckItem
    <2> HIDE DEF F
    <2>7. u.x = [v.x EXCEPT !.clseq = @ + 1] /\ u.d = CheckMsg(v.x, v.d, b[j])
      BY <2>6
    <2>8. b[j] \in Message
      BY <1>2
    <2>9. DiffOK(u.d)
      BY <2>5, <2>7, <2>8, CheckOK
    <2>10. Same(x, u.x) /\ u.x.dd = x.dd /\ u.x.clseq = v.x.clseq + 1
      BY <2>5, <2>7 DEF Same, Fields
    <2>11. u.x.clseq = x.clseq + j
      BY <2>1, <2>5, <2>10
    <2>12. Good(u, j)
      BY <2>9, <2>10, <2>11
    <2>13. QED
      BY <2>1, <2>4, <2>12
  <1>7. n \in G
    <2> HIDE DEF G
    <2>1. QED
      BY <1>2, <1>5, <1>6, Sums!UpTo
  <1>8. QED
    BY <1>1, <1>4, <1>7 DEF Counted
-----------------------------------------------------------------------------
(***************************************************************************)
(* Snapshots, restarts and changes of leader.                              *)
(***************************************************************************)
\* A snapshot says where the entries up to its own lead.
LEMMA SnapshotIs ==
    ASSUME NEW l, LogOK(l), NEW c \in 0 .. Len(l), NEW x, NEW p, ReplicaOK(l, c, x, p, "no"),
           x.applied >= p
    PROVE  SnapOK(l, c, x, StateSnapshot(x))
  <1>1. PICK a : a = x.applied
    OBVIOUS
  <1>2. Grouped(l) /\ l \in Seq(Entry)
    BY DEF LogOK, Grouped
  <1>3. /\ Len(x.store) = Size(l, a) /\ x.clfs = Refused(l, a) /\ x.batch = BatchAt(l, a)
        /\ a \in 0 .. Len(l) /\ a \in 0 .. c /\ Len(x.store) \in Nat
    BY <1>1, <1>2, Caughtup DEF ReplicaOK
  <1>4. PICK s : s = StateSnapshot(x)
    OBVIOUS
  <1>5. s.idx = SnapshotIndex(x) /\ s.lseq = Len(x.store) /\ s.clfs = x.clfs
    BY <1>4 DEF StateSnapshot
  <1>6. CASE Open(l, a) = 0
    <2>1. s.idx = a
      BY <1>1, <1>3, <1>5, <1>6 DEF SnapshotIndex, BatchAt, NoBatch
    <2>2. QED
      BY <1>3, <1>4, <1>5, <1>6, <2>1 DEF SnapOK
  <1>7. CASE Open(l, a) # 0
    <2>1. /\ a \in 1 .. Len(l) /\ l[a].op = "batchMsg" /\ IsBatch(l[a]) /\ Width(l[a]) = 0
      BY <1>3, <1>7 DEF Open, IsBatch, Width
    <2>2. PICK b : b = l[a].bs
      OBVIOUS
    <2>3. a - b \in 0 .. a - 1 /\ b \in 1 .. a /\ Open(l, a - b) = 0
      BY <1>2, <2>1, <2>2, BlockStart
    <2>4. x.batch.id # 0 /\ x.batch.from = a - b + 1
      BY <1>2, <1>3, <1>7, <2>1, <2>2 DEF BatchAt, Grouped, GroupedAt
    <2>5. s.idx = a - b
      BY <1>3, <1>5, <2>3, <2>4 DEF SnapshotIndex
    <2>6. b \in 1 .. l[a].bs /\ a - l[a].bs + b = a
      BY <1>3, <2>2, <2>3
    <2>7. Size(l, a - 1) = Size(l, a - b) /\ Refused(l, a) = Refused(l, a - b)
      BY <1>2, <2>1, <2>2, <2>6, BlockFlat
    <2>8. Size(l, a) = Size(l, a - 1) + Width(l[a])
      BY <1>2, <2>1, SizeNext
    <2>9. Size(l, a - 1) \in Nat
      BY <1>2, <2>1, SizeNat
    <2>10. PICK u : u = Size(l, a - 1)
      OBVIOUS
    <2>11. Size(l, a) = u + 0
      BY <2>1, <2>8, <2>10
    <2>12. Size(l, a) = Size(l, a - b)
      BY <2>7, <2>9, <2>10, <2>11
    <2>13. s.idx \in 0 .. c
      BY <1>3, <2>3, <2>5
    <2>14. QED
      BY <1>3, <1>4, <1>5, <2>3, <2>5, <2>7, <2>12, <2>13 DEF SnapOK
  <1>8. QED
    BY <1>6, <1>7

\* A snapshot stays right when the store grows.
LEMMA SnapGrow ==
    ASSUME NEW l, l \in Seq(Entry), NEW c \in 0 .. Len(l), NEW x, NEW s, SnapOK(l, c, x, s),
           NEW y, Len(x.store) \in Nat, Len(y.store) \in Nat, Len(x.store) <= Len(y.store)
    PROVE  SnapOK(l, c, y, s)
  <1>1. s.idx \in 0 .. Len(l)
    BY DEF SnapOK
  <1>2. Size(l, s.idx) \in Nat
    BY <1>1, SizeNat
  <1>3. PICK n, a, b : n = s.lseq /\ a = Len(x.store) /\ b = Len(y.store)
    OBVIOUS
  <1>4. n \in Nat /\ n <= a /\ a \in Nat /\ b \in Nat /\ a <= b
    BY <1>2, <1>3 DEF SnapOK
  <1>5. n <= b
    BY <1>4
  <1>6. QED
    BY <1>3, <1>5 DEF SnapOK

\* The first messages of a store.
LEMMA StoreCut ==
    ASSUME NEW l, Grouped(l), NEW c \in 0 .. Len(l), NEW st, StoreOK(l, c, st),
           NEW su \in Seq(Item), Len(su) <= Len(st), \A i \in 1 .. Len(su) : su[i] = st[i]
    PROVE  StoreOK(l, c, su)
  <1>1. st \in Seq(Item) /\ Len(st) \in Nat /\ l \in Seq(Entry)
    BY DEF StoreOK, Grouped
  <1>2. PICK n : n = Len(su) /\ n \in Nat
    OBVIOUS
  <1>3. Size(l, c) \in Nat /\ Len(st) <= Size(l, c)
    BY <1>1, SizeNat DEF StoreOK
  <1>4. PICK z : z = Size(l, c)
    OBVIOUS
  <1>5. Len(su) <= z
    BY <1>1, <1>2, <1>3, <1>4
  <1>6. ASSUME NEW i \in 1 .. c, NEW j \in 1 .. Width(l[i]), Size(l, i - 1) + j <= Len(su)
        PROVE  su[Size(l, i - 1) + j] = ItemOf(l[i - Width(l[i]) + j])
    <2>1. Size(l, i - 1) \in Nat /\ i \in 1 .. Len(l)
      <3>1. i - 1 \in 0 .. Len(l) /\ i \in 1 .. Len(l)
        OBVIOUS
      <3>2. QED
        BY <1>1, <3>1, SizeNat
    <2>2. Width(l[i]) \in Nat
      BY <1>1, <2>1, Weights
    <2>3. PICK q : q = Size(l, i - 1) + j
      OBVIOUS
    <2>4. q \in 1 .. n /\ q <= Len(st)
      BY <1>1, <1>2, <1>6, <2>1, <2>2, <2>3
    <2>5. st[q] = ItemOf(l[i - Width(l[i]) + j])
      BY <2>3, <2>4 DEF StoreOK
    <2>6. QED
      BY <1>2, <2>3, <2>4, <2>5
  <1>7. QED
    BY <1>2, <1>4, <1>5, <1>6 DEF StoreOK

\* A server that comes back is where its snapshot was, and has stored more of
\* what is committed.
LEMMA RestartIs ==
    ASSUME NEW l, LogOK(l), NEW c \in 0 .. Len(l), NEW x, NEW p, NEW h, ReplicaOK(l, c, x, p, h),
           NEW s, SnapOK(l, c, x, s), NEW kept \in s.lseq .. Len(x.store), NEW gone,
           NEW y, y = [RebuildDedupe(InitStream, SubSeq(x.store, 1, kept), gone)
                          EXCEPT !.clfs = s.clfs, !.applied = s.idx]
    PROVE  Restarted(l, c, y, s)
  <1>1. Grouped(l) /\ l \in Seq(Entry) /\ StoreOK(l, c, x.store) /\ Len(x.store) \in Nat
    BY DEF LogOK, Grouped, ReplicaOK, StoreOK
  <1>2. PICK su : su = SubSeq(x.store, 1, kept)
    OBVIOUS
  <1>3. /\ s.idx \in 0 .. c /\ s.idx \in 0 .. Len(l) /\ s.lseq = Size(l, s.idx)
        /\ s.clfs = Refused(l, s.idx) /\ Open(l, s.idx) = 0
    BY DEF SnapOK
  <1>4. Size(l, s.idx) \in Nat /\ Refused(l, s.idx) \in Nat
    BY <1>1, <1>3, SizeNat
  <1>5. kept \in 0 .. Len(x.store) /\ Size(l, s.idx) <= kept
    BY <1>1, <1>3, <1>4
  <1>6. StoreOK(l, c, su) /\ Len(su) = kept /\ su \in Seq(Item)
    <2>1. PICK st : st = x.store
      OBVIOUS
    <2>2. /\ StoreOK(l, c, st) /\ kept \in Nat /\ kept <= Len(st) /\ su = SubSeq(st, 1, kept)
          /\ st \in Seq(Item)
      BY <1>1, <1>2, <1>5, <2>1 DEF StoreOK
    <2>3. su \in Seq(Item) /\ Len(su) = kept /\ \A i \in 1 .. kept : su[i] = st[i]
      BY <2>2
    <2>4. QED
      BY <1>1, <2>2, <2>3, StoreCut
  <1>7. PICK f : f = RebuildDedupe(InitStream, su, gone)
    OBVIOUS
  <1>8. /\ DOMAIN f = Fields /\ f.store = su /\ f.dd = StoreIds(<<>>, su, gone, 0)
        /\ f.clseq = 0 /\ f.batch = NoBatch /\ f.active = FALSE
    BY <1>7 DEF RebuildDedupe, InitStream, Fields
  <1>9. /\ DOMAIN y = Fields /\ y.store = su /\ y.dd = StoreIds(<<>>, su, gone, 0)
        /\ y.clseq = 0 /\ y.batch = NoBatch /\ y.active = FALSE
        /\ y.clfs = s.clfs /\ y.applied = s.idx
    <2>1. y = [f EXCEPT !.clfs = s.clfs, !.applied = s.idx]
      BY <1>2, <1>7
    <2>2. QED
      BY <1>8, <2>1 DEF Fields
  <1>10. IdsOK(<<>>, su)
    BY DEF IdsOK
  <1>11. IdsOK(y.dd, y.store)
    <2>1. 0 + Len(su) <= Len(su) /\ \A i \in 1 .. Len(su) : su[0 + i] = su[i]
      BY <1>6
    <2>2. IdsOK(StoreIds(<<>>, su, gone, 0), su)
      BY <1>6, <1>10, <2>1, IdsStored
    <2>3. QED
      BY <1>9, <2>2
  <1>12. RunOK(l, y, c)
    <2>1. y.clfs = Refused(l, y.applied) /\ y.batch = BatchAt(l, y.applied)
      BY <1>3, <1>9 DEF BatchAt
    <2>2. Size(l, y.applied) <= Len(y.store) /\ Len(y.store) <= Size(l, c)
      BY <1>5, <1>6, <1>9 DEF StoreOK
    <2>3. QED
      BY <2>1, <2>2 DEF RunOK
  <1>13. ReplicaOK(l, c, y, c, "no")
    <2>1. c \in 0 .. c
      BY <1>1
    <2>2. y.clfs \in Nat /\ y.clseq \in Nat /\ y.active \in BOOLEAN /\ y.applied \in 0 .. c
      <3>1. y.active \in BOOLEAN
        BY <1>9, Zenon
      <3>2. y.clfs \in Nat /\ y.clseq \in Nat /\ y.applied \in 0 .. c
        BY <1>3, <1>4, <1>9
      <3>3. QED
        BY <3>1, <3>2
    <2>3. StoreOK(l, c, y.store) /\ y.clseq = 0 /\ DOMAIN y = Fields
      BY <1>6, <1>9
    <2>4. QED
      BY <1>12, <2>1, <2>2, <2>3 DEF ReplicaOK
  <1>14. SnapOK(l, c, y, s)
    BY <1>3, <1>5, <1>6, <1>9 DEF SnapOK
  <1>15. QED
    BY <1>11, <1>13, <1>14 DEF Restarted

\* The greater of two.
LEMMA MaxPair ==
    ASSUME NEW a \in Int, NEW b \in Int
    PROVE  Max({a, b}) = IF a >= b THEN a ELSE b
  <1>1. PICK z : z = IF a >= b THEN a ELSE b
    OBVIOUS
  <1>2. z \in {a, b} /\ \A y \in {a, b} : z >= y
    BY <1>1
  <1>3. Max({a, b}) \in {a, b} /\ \A y \in {a, b} : Max({a, b}) >= y
    BY <1>2 DEF Max
  <1>4. QED
    BY <1>1, <1>2, <1>3

\* Two stores of one log are equal as far as both go, so one may be continued
\* with messages of the other.
LEMMA StoreJoin ==
    ASSUME NEW l, Grouped(l), NEW c \in 0 .. Len(l), NEW st, StoreOK(l, c, st),
           NEW su, StoreOK(l, c, su), NEW more \in Seq(Item),
           Len(more) > 0 => Len(st) + Len(more) <= Len(su),
           \A i \in 1 .. Len(more) : more[i] = su[Len(st) + i]
    PROVE  StoreOK(l, c, st \o more)
  <1>1. st \in Seq(Item) /\ su \in Seq(Item) /\ l \in Seq(Entry)
    BY DEF StoreOK, Grouped
  <1>2. PICK n, k, z, w : n = Len(st) /\ k = Len(more) /\ z = st \o more /\ w = Size(l, c)
    OBVIOUS
  <1>3. n \in Nat /\ k \in Nat /\ Len(su) \in Nat /\ w \in Nat
    BY <1>1, <1>2, SizeNat
  <1>4. z \in Seq(Item) /\ Len(z) = n + k
    BY <1>1, <1>2, Appended
  <1>5. \A i \in 1 .. n : z[i] = st[i]
    BY <1>1, <1>2, Appended
  <1>6. ASSUME NEW i \in n + 1 .. n + k PROVE z[i] = su[i] /\ i <= Len(su)
    <2>1. PICK j : j = i - n
      OBVIOUS
    <2>2. j \in 1 .. k /\ i = n + j
      BY <1>3, <2>1
    <2>3. z[n + j] = more[j]
      BY <1>1, <1>2, <2>2, Appended
    <2>4. more[j] = su[n + j]
      BY <1>2, <2>2
    <2>5. n + k <= Len(su)
      BY <1>2, <1>3, <2>2
    <2>6. QED
      BY <1>3, <2>2, <2>3, <2>4, <2>5
  <1>7. n <= w /\ Len(su) <= w
    BY <1>2 DEF StoreOK
  <1>8. Len(z) <= w
    <2>1. CASE k = 0
      BY <1>3, <1>4, <1>7, <2>1
    <2>2. CASE k # 0
      <3>1. n + k <= Len(su)
        BY <1>2, <1>3, <2>2
      <3>2. QED
        BY <1>3, <1>4, <1>7, <3>1
    <2>3. QED
      BY <2>1, <2>2
  <1>9. ASSUME NEW i \in 1 .. c, NEW j \in 1 .. Width(l[i]), Size(l, i - 1) + j <= Len(z)
        PROVE  z[Size(l, i - 1) + j] = ItemOf(l[i - Width(l[i]) + j])
    <2>1. Size(l, i - 1) \in Nat /\ i \in 1 .. Len(l)
      <3>1. i - 1 \in 0 .. Len(l) /\ i \in 1 .. Len(l)
        OBVIOUS
      <3>2. QED
        BY <1>1, <3>1, SizeNat
    <2>2. Width(l[i]) \in Nat
      BY <1>1, <2>1, Weights
    <2>3. PICK q : q = Size(l, i - 1) + j
      OBVIOUS
    <2>4. q \in 1 .. n + k
      BY <1>3, <1>4, <1>9, <2>1, <2>2, <2>3, SMTT(40)
    <2>5. CASE q <= n
      <3>1. q \in 1 .. n /\ q <= Len(st)
        BY <1>2, <1>3, <2>4, <2>5
      <3>2. st[q] = ItemOf(l[i - Width(l[i]) + j])
        BY <2>3, <3>1 DEF StoreOK
      <3>3. QED
        BY <1>5, <2>3, <3>1, <3>2
    <2>6. CASE q > n
      <3>1. q \in n + 1 .. n + k
        BY <1>3, <2>4, <2>6
      <3>2. z[q] = su[q] /\ q <= Len(su)
        BY <1>6, <3>1
      <3>3. su[q] = ItemOf(l[i - Width(l[i]) + j])
        BY <2>3, <3>2 DEF StoreOK
      <3>4. QED
        BY <2>3, <3>2, <3>3
    <2>7. QED
      BY <1>3, <2>4, <2>5, <2>6
  <1>10. QED
    BY <1>2, <1>4, <1>8, <1>9 DEF StoreOK

\* Nothing, or what follows up to there.
LEMMA MissingIs ==
    ASSUME NEW su \in Seq(Item), NEW k \in Nat, NEW n \in Nat, n <= Len(su),
           NEW more, more = Missing(su, k, n)
    PROVE  /\ more \in Seq(Item) /\ k + Len(more) = IF k >= n THEN k ELSE n
           /\ \A i \in 1 .. Len(more) : more[i] = su[k + i]
           /\ Len(more) > 0 => k + Len(more) <= Len(su)
  <1>1. Len(su) \in Nat
    OBVIOUS
  <1>2. Max({k, n}) = IF k >= n THEN k ELSE n
    BY MaxPair
  <1>3. CASE k >= n
    <2>1. more = SubSeq(su, k + 1, k)
      BY <1>2, <1>3 DEF Missing
    <2>2. more = <<>>
      BY <2>1
    <2>3. QED
      BY <1>1, <1>3, <2>2
  <1>4. CASE k < n
    <2>1. more = SubSeq(su, k + 1, n)
      <3>1. Max({k, n}) = n
        BY <1>2, <1>4
      <3>2. QED
        BY <3>1, Zenon DEF Missing
    <2>2. k + 1 \in 1 .. Len(su) /\ n \in k + 1 .. Len(su)
      BY <1>1, <1>4
    <2>3. more \in Seq(Item) /\ Len(more) = n - k
      BY <2>1, <2>2
    <2>4. \A i \in 1 .. n - k : more[i] = su[k + i]
      BY <2>1, <2>2
    <2>5. QED
      BY <1>1, <1>4, <2>3, <2>4
  <1>5. QED
    BY <1>3, <1>4

\* A replica that takes the snapshot of the leader is where that one is.
LEMMA CatchupIs ==
    ASSUME NEW l, LogOK(l), NEW c \in 0 .. Len(l), NEW x, NEW p, ReplicaOK(l, c, x, p, "no"),
           IdsOK(x.dd, x.store), NEW lead, StoreOK(l, c, lead.store), NEW s,
           SnapOK(l, c, lead, s), s.idx > x.applied, NEW y, y = ProcessSnapshot(x, s, lead)
    PROVE  Caught(l, c, y, p, s)
  <1>1. /\ Grouped(l) /\ l \in Seq(Entry) /\ StoreOK(l, c, x.store) /\ x.store \in Seq(Item)
        /\ lead.store \in Seq(Item) /\ Len(x.store) \in Nat /\ DOMAIN x = Fields
        /\ x.applied \in 0 .. c /\ x.applied \in 0 .. Len(l) /\ RunOK(l, x, p)
        /\ p \in 0 .. c /\ p \in 0 .. Len(l)
    BY DEF LogOK, Grouped, ReplicaOK, StoreOK
  <1>2. /\ s.idx \in 0 .. c /\ s.idx \in 0 .. Len(l) /\ s.lseq = Size(l, s.idx)
        /\ s.lseq <= Len(lead.store) /\ s.clfs = Refused(l, s.idx) /\ Open(l, s.idx) = 0
    BY DEF SnapOK
  <1>3. /\ s.lseq \in Nat /\ s.clfs \in Nat /\ Size(l, x.applied) \in Nat /\ Size(l, p) \in Nat
    BY <1>1, <1>2, SizeNat
  <1>4. PICK st, su, n : st = x.store /\ su = lead.store /\ n = s.lseq
    OBVIOUS
  <1>5. PICK more : more = Missing(su, Len(st), n)
    OBVIOUS
  <1>6. st \in Seq(Item) /\ su \in Seq(Item) /\ n \in Nat /\ n <= Len(su) /\ Len(st) \in Nat
    BY <1>1, <1>2, <1>3, <1>4
  <1>7. /\ more \in Seq(Item) /\ Len(st) + Len(more) = IF Len(st) >= n THEN Len(st) ELSE n
        /\ \A i \in 1 .. Len(more) : more[i] = su[Len(st) + i]
        /\ Len(more) > 0 => Len(st) + Len(more) <= Len(su)
    <2>1. PICK k : k = Len(st)
      OBVIOUS
    <2>2. k \in Nat /\ more = Missing(su, k, n)
      BY <1>5, <1>6, <2>1
    <2>3. more \in Seq(Item) /\ (Len(more) > 0 => k + Len(more) <= Len(su))
      BY <1>6, <2>2, MissingIs
    <2>4. k + Len(more) = IF k >= n THEN k ELSE n
      BY <1>6, <2>2, MissingIs
    <2>5. \A i \in 1 .. Len(more) : more[i] = su[k + i]
      BY <1>6, <2>2, MissingIs
    <2>6. QED
      BY <2>1, <2>3, <2>4, <2>5
  <1>8. PICK z : z = st \o more
    OBVIOUS
  <1>9. StoreOK(l, c, z)
    BY <1>1, <1>4, <1>7, <1>8, StoreJoin
  <1>10. /\ z \in Seq(Item) /\ Len(z) = Len(st) + Len(more) /\ Len(more) \in Nat
         /\ \A i \in 1 .. Len(st) : z[i] = st[i]
         /\ \A i \in 1 .. Len(more) : z[Len(st) + i] = more[i]
    BY <1>6, <1>7, <1>8, Appended
  <1>11. Len(z) = IF Len(st) >= n THEN Len(st) ELSE n
    BY <1>7, <1>10
  <1>12. PICK gone : y.dd = StoreIds(x.dd, more, gone, Len(st))
                     /\ DOMAIN y = Fields /\ y.store = z /\ y.batch = NoBatch
                     /\ y.clfs = s.clfs /\ y.applied = s.idx /\ y.active = x.active
                     /\ y.clseq = x.clseq
    <2>1. PICK d : d = lead.gone \cap (Len(st) + 1 .. Len(st) + Len(more))
      OBVIOUS
    <2>2. PICK f : f = ProcessSnapshotDeletes(x, s)
      OBVIOUS
    <2>3. /\ DOMAIN f = Fields /\ f.store = st /\ f.dd = x.dd /\ f.active = x.active
          /\ f.clseq = x.clseq
      BY <1>1, <1>4, <2>2 DEF ProcessSnapshotDeletes, Fields
    <2>4. y = [f EXCEPT !.store = @ \o more, !.gone = @ \cup d, !.ahead = lead.applied,
                        !.dd = StoreIds(@, more, d, Len(st)),
                        !.batch = NoBatch, !.clfs = s.clfs, !.applied = s.idx]
      BY <1>4, <1>5, <2>1, <2>2 DEF ProcessSnapshot, Missing
    <2>5. /\ y.dd = StoreIds(f.dd, more, d, Len(st)) /\ DOMAIN y = DOMAIN f
          /\ y.store = f.store \o more /\ y.batch = NoBatch /\ y.clfs = s.clfs
          /\ y.applied = s.idx /\ y.active = f.active /\ y.clseq = f.clseq
      BY <2>3, <2>4 DEF Fields
    <2>6. QED
      BY <1>8, <2>3, <2>5
  <1>13. IdsOK(y.dd, y.store)
    <2>1. IdsOK(x.dd, z)
      <3>1. Len(z) \in Nat /\ Len(st) <= Len(z)
        BY <1>6, <1>10
      <3>2. IdsOK(x.dd, st)
        BY <1>4
      <3>3. QED
        BY <1>6, <1>10, <3>1, <3>2, IdsGrow
    <2>2. Len(st) + Len(more) <= Len(z)
      BY <1>6, <1>10
    <2>3. IdsOK(StoreIds(x.dd, more, gone, Len(st)), z)
      BY <1>6, <1>7, <1>10, <2>1, <2>2, IdsStored
    <2>4. QED
      BY <1>12, <2>3
  <1>14. SnapOK(l, c, y, s)
    <2>1. n <= Len(z)
      BY <1>6, <1>11
    <2>2. s.lseq <= Len(y.store)
      BY <1>4, <1>12, <2>1
    <2>3. QED
      BY <1>2, <2>2 DEF SnapOK
  <1>15. RunOK(l, y, p)
    <2>1. y.clfs = Refused(l, y.applied) /\ y.batch = BatchAt(l, y.applied)
      BY <1>2, <1>12 DEF BatchAt
    <2>2. s.idx \in x.applied .. Len(l)
      BY <1>1, <1>2
    <2>3. Size(l, x.applied) <= Size(l, s.idx)
      BY <1>1, <2>2, SizeGrows
    <2>4. PICK a, q : a = Size(l, x.applied) /\ q = Size(l, p)
      OBVIOUS
    <2>5. a \in Nat /\ q \in Nat /\ a <= n /\ (Len(st) <= a \/ Len(st) <= q)
      BY <1>1, <1>2, <1>3, <1>4, <2>3, <2>4 DEF RunOK
    <2>6. n <= Len(z) /\ (Len(z) <= n \/ Len(z) <= q)
      BY <1>6, <1>11, <2>5
    <2>7. Size(l, y.applied) = n /\ y.store = z
      BY <1>2, <1>4, <1>12
    <2>8. QED
      BY <2>1, <2>4, <2>6, <2>7 DEF RunOK
  <1>16. ReplicaOK(l, c, y, p, "no")
    BY <1>2, <1>3, <1>9, <1>12, <1>15 DEF ReplicaOK
  <1>17. QED
    BY <1>13, <1>14, <1>16 DEF Caught

\* The monitor of the stream handles a change of leader.
LEMMA ForgetIs ==
    ASSUME NEW x, DOMAIN x = Fields, NEW st, IdsOK(x.dd, st),
           NEW y, y = [ForgetProposals(x) EXCEPT !.active = ~@]
    PROVE  Forgot(x, y, st)
  <1>1. PICK f : f = ForgetProposals(x)
    OBVIOUS
  <1>2. /\ DOMAIN f = Fields /\ f.store = x.store /\ f.clfs = x.clfs /\ f.batch = x.batch
        /\ f.applied = x.applied /\ f.active = x.active /\ f.clseq = 0
        /\ f.dd = TrimStaged(x.dd)
    BY <1>1 DEF ForgetProposals, Fields
  <1>3. y = [f EXCEPT !.active = ~@]
    BY <1>1
  <1>4. /\ DOMAIN y = Fields /\ y.store = f.store /\ y.clfs = f.clfs /\ y.batch = f.batch
        /\ y.applied = f.applied /\ y.clseq = f.clseq /\ y.dd = f.dd
    BY <1>2, <1>3 DEF Fields
  <1>5. y.active = ~f.active
    BY <1>2, <1>3, Zenon DEF Fields
  <1>6. IdsOK(TrimStaged(x.dd), st)
    BY IdsTrim
  <1>7. y.active = ~x.active
    BY <1>2, <1>5
  <1>8. y.dd = TrimStaged(x.dd)
    BY <1>2, <1>4
  <1>9. IdsOK(y.dd, st)
    BY <1>6, <1>8, Zenon
  <1>10. /\ DOMAIN y = Fields /\ y.store = x.store /\ y.clfs = x.clfs /\ y.batch = x.batch
         /\ y.applied = x.applied /\ y.clseq = 0
    BY <1>2, <1>4
  <1>11. QED
    BY <1>7, <1>9, <1>10, Zenon DEF Forgot

-----------------------------------------------------------------------------
(***************************************************************************)
(* The answers to publishers.                                              *)
(***************************************************************************)
\* The message that is stored at a sequence is the one of the log.
LEMMA AckStored ==
    ASSUME NEW l, Grouped(l), NEW c \in 0 .. Len(l), NEW st, StoreOK(l, c, st),
           NEW a, a.seq \in 1 .. Len(st), st[a.seq].m.id = a.id
    PROVE  AckOK(l, c, a)
  <1>1. st \in Seq(Item) /\ Len(st) \in Nat /\ l \in Seq(Entry)
    BY DEF StoreOK, Grouped
  <1>2. PICK q, z : q = a.seq /\ z = Size(l, c)
    OBVIOUS
  <1>3. z \in Nat /\ Len(st) <= z /\ q \in 1 .. Len(st)
    BY <1>1, <1>2, SizeNat DEF StoreOK
  <1>4. q \in 1 .. z
    BY <1>1, <1>3
  <1>5. ASSUME NEW i \in 1 .. c, NEW j \in 1 .. Width(l[i]), Size(l, i - 1) + j = q
        PROVE  l[i - Width(l[i]) + j].m.id = a.id
    <2>1. Size(l, i - 1) + j <= Len(st)
      BY <1>1, <1>3, <1>5
    <2>2. st[Size(l, i - 1) + j] = ItemOf(l[i - Width(l[i]) + j])
      BY <2>1 DEF StoreOK
    <2>3. PICK e : e = l[i - Width(l[i]) + j]
      OBVIOUS
    <2>4. st[q] = ItemOf(e)
      BY <1>5, <2>2, <2>3
    <2>5. e.m.id = a.id
      BY <1>2, <2>4 DEF ItemOf
    <2>6. QED
      BY <2>3, <2>5
  <1>6. QED
    BY <1>2, <1>4, <1>5 DEF AckOK

\* The last message that entry i stores is its own.
LEMMA LastItem ==
    ASSUME NEW l, Grouped(l), NEW c \in 0 .. Len(l), NEW st, StoreOK(l, c, st),
           NEW i \in 1 .. c, Width(l[i]) > 0, Len(st) = Size(l, i)
    PROVE  Len(st) \in 1 .. Len(st) /\ st[Len(st)] = ItemOf(l[i])
  <1>1. st \in Seq(Item) /\ Len(st) \in Nat /\ l \in Seq(Entry) /\ i \in 1 .. Len(l)
        /\ i - 1 \in 0 .. Len(l)
    BY DEF StoreOK, Grouped
  <1>2. PICK w, u, n : w = Width(l[i]) /\ u = Size(l, i - 1) /\ n = Len(st)
    OBVIOUS
  <1>3. w \in Nat /\ w > 0 /\ u \in Nat /\ n = u + w
    BY <1>1, <1>2, SizeNext, SizeNat, Weights
  <1>4. w \in 1 .. Width(l[i]) /\ Size(l, i - 1) + w <= Len(st)
    BY <1>2, <1>3
  <1>5. st[Size(l, i - 1) + w] = ItemOf(l[i - Width(l[i]) + w])
    BY <1>4 DEF StoreOK
  <1>6. i - w + w = i /\ n \in 1 .. n
    BY <1>1, <1>3
  <1>7. st[n] = ItemOf(l[i])
    BY <1>2, <1>3, <1>5, <1>6
  <1>8. QED
    BY <1>2, <1>6, <1>7

\* The sequence that a publisher is told of a message that is there already.
LEMMA DuplicateIs ==
    ASSUME NEW x, NEW st, IdsOK(x.dd, st), Len(st) \in Nat, NEW p \in Message,
           NEW d, d = CheckMsg(x, NoDiff, p), ~d.ok, d.dup > 0
    PROVE  d.dup \in 1 .. Len(st) /\ st[d.dup].m.id = p.id
  <1>1. PICK q : q = CheckMsgId(x.dd, p.id)
    OBVIOUS
  <1>2. q \in Nat \cup {-1} /\ (q > 0 => q <= Len(st) /\ st[q].m.id = p.id)
    BY <1>1, CheckedId
  <1>3. d.dup = IF p.id = 0 \/ p.id \in Range(<<>>) THEN 0 ELSE Max({0, q})
    <2>1. CASE /\ NoDiff.ok /\ DuplicateOk(x, NoDiff, p) /\ ExpectedLastSeqOk(x, NoDiff, p)
               /\ ExpectedPerSubjectOk(x, NoDiff, p) /\ LimitOk(x, NoDiff, p)
      <3>1. PICK f, g, h : d = [NoDiff EXCEPT !.ids = f, !.inflight = g, !.expected = h]
        BY <2>1 DEF CheckMsg
      <3>2. d.ok
        BY <3>1 DEF NoDiff
      <3>3. QED
        BY <3>2
    <2>2. CASE ~(/\ NoDiff.ok /\ DuplicateOk(x, NoDiff, p) /\ ExpectedLastSeqOk(x, NoDiff, p)
                 /\ ExpectedPerSubjectOk(x, NoDiff, p) /\ LimitOk(x, NoDiff, p))
      <3>1. d = [NoDiff EXCEPT !.ok = FALSE,
                               !.dup = IF p.id = 0 \/ p.id \in Range(NoDiff.ids) THEN 0
                                       ELSE Max({0, CheckMsgId(x.dd, p.id)})]
        BY <2>2 DEF CheckMsg
      <3>2. NoDiff.ids = <<>> /\ "dup" \in DOMAIN NoDiff /\ "ok" \in DOMAIN NoDiff
        BY DEF NoDiff
      <3>3. d.dup = IF p.id = 0 \/ p.id \in Range(NoDiff.ids) THEN 0
                    ELSE Max({0, CheckMsgId(x.dd, p.id)})
        BY <3>1, <3>2
      <3>4. QED
        BY <1>1, <3>2, <3>3
    <2>3. QED
      BY <2>1, <2>2
  <1>4. Max({0, q}) = IF 0 >= q THEN 0 ELSE q
    BY <1>2, MaxPair
  <1>5. d.dup = q /\ q > 0
    BY <1>2, <1>3, <1>4
  <1>6. QED
    BY <1>2, <1>5

-----------------------------------------------------------------------------
(***************************************************************************)
(* One replica moves, or the log grows.                                    *)
(***************************************************************************)
\* One value of a function changes.
LEMMA OneValue ==
    ASSUME NEW f, NEW S, DOMAIN f = S, NEW r \in S, NEW v, NEW g, g = [f EXCEPT ![r] = v]
    PROVE  DOMAIN g = S /\ g[r] = v /\ \A q \in S \ {r} : g[q] = f[q]
  OBVIOUS

\* A step of one replica that leaves the log alone.
LEMMA OneReplica ==
    ASSUME GroupInv, NEW r \in Replica, UNCHANGED <<cfg, log, commit, elected, aflr>>,
           batches' \in Nat,
           DOMAIN m' = Replica, DOMAIN halted' = Replica, DOMAIN snap' = Replica,
           DOMAIN replay' = Replica,
           \A q \in Replica \ {r} : /\ m'[q] = m[q] /\ halted'[q] = halted[q]
                                    /\ snap'[q] = snap[q] /\ replay'[q] = replay[q],
           ReplicaOK(log, commit, m'[r], replay'[r], halted'[r]),
           SnapOK(log, commit, m'[r], snap'[r]), IdsOK(m'[r].dd, m'[r].store),
           r # elected => leaderState' = leaderState,
           r = elected => /\ Len(m[r].store) <= Len(m'[r].store)
                          /\ LeaderOK(log, aflr, m'[r], replay'[r], leaderState'),
           \A a \in acks' : a \in acks \/ ( /\ AckOK(log, commit, a)
                                            /\ AckHeld(log, aflr, m'[elected].store, a) )
    PROVE  GroupInv'
  <1>1. /\ cfg' \in Configs /\ batches' \in Nat /\ LogOK(log') /\ commit' \in 0 .. Len(log')
        /\ elected' \in Replica
    BY DEF GroupInv
  <1>2. \A q \in Replica : ReplicaOK(log', commit', m'[q], replay'[q], halted'[q])
    BY DEF GroupInv
  <1>3. \A q \in Replica : SnapOK(log', commit', m'[q], snap'[q])
    BY DEF GroupInv
  <1>4. \A q \in Replica : IdsOK(m'[q].dd, m'[q].store)
    BY DEF GroupInv
  <1>5. LeaderOK(log', aflr', m'[elected'], replay'[elected'], leaderState')
    <2>1. CASE r = elected
      BY <2>1, Zenon
    <2>2. CASE r # elected
      <3>1. elected \in Replica \ {r}
        BY <2>2 DEF GroupInv
      <3>2. m'[elected] = m[elected] /\ replay'[elected] = replay[elected]
        BY <3>1
      <3>3. LeaderOK(log, aflr, m[elected], replay[elected], leaderState)
        BY DEF GroupInv
      <3>4. QED
        BY <2>2, <3>2, <3>3, Zenon
    <2>3. QED
      BY <2>1, <2>2
  <1>6. Len(m[elected].store) <= Len(m'[elected].store)
    <2>1. CASE r = elected
      BY <2>1
    <2>2. CASE r # elected
      <3>1. elected \in Replica \ {r}
        BY <2>2 DEF GroupInv
      <3>2. m'[elected] = m[elected]
        BY <3>1
      <3>3. m[elected].store \in Seq(Item)
        BY DEF GroupInv, ReplicaOK, StoreOK
      <3>4. QED
        BY <3>2, <3>3
    <2>3. QED
      BY <2>1, <2>2
  <1>7. ASSUME NEW a \in acks'
        PROVE  AckOK(log', commit', a) /\ AckHeld(log', aflr', m'[elected'].store, a)
    <2>1. CASE a \in acks
      <3>1. AckOK(log, commit, a) /\ AckHeld(log, aflr, m[elected].store, a)
        BY <2>1 DEF GroupInv
      <3>2. PICK q, u, v, w : q = a.seq /\ u = Len(m[elected].store)
                              /\ v = Len(m'[elected].store) /\ w = Size(log, aflr)
        OBVIOUS
      <3>3. a.seq \in Nat
        <4>1. log \in Seq(Entry) /\ commit \in 0 .. Len(log)
          BY DEF GroupInv, LogOK, Grouped
        <4>2. Size(log, commit) \in Nat
          BY <4>1, SizeNat
        <4>3. QED
          BY <3>1, <4>2 DEF AckOK
      <3>4. u \in Nat /\ v \in Nat
        <4>1. elected \in Replica
          BY DEF GroupInv
        <4>2. m[elected].store \in Seq(Item)
          BY <4>1 DEF GroupInv, ReplicaOK, StoreOK
        <4>3. m'[elected].store \in Seq(Item)
          BY <1>2, <4>1 DEF ReplicaOK, StoreOK
        <4>4. QED
          BY <3>2, <4>2, <4>3
      <3>5. q <= w \/ q <= u
        BY <3>1, <3>2 DEF AckHeld
      <3>6. q <= w \/ q <= v
        BY <1>6, <3>2, <3>3, <3>4, <3>5
      <3>7. QED
        BY <3>1, <3>2, <3>6 DEF AckHeld
    <2>2. CASE a \notin acks
      BY <2>2
    <2>3. QED
      BY <2>1, <2>2
  <1>8. QED
    BY <1>1, <1>2, <1>3, <1>4, <1>5, <1>7 DEF GroupInv

\* The leader appends to the log.
LEMMA LogGrows ==
    ASSUME GroupInv, UNCHANGED <<cfg, commit, elected, aflr, leaderState, snap, replay,
                                 halted, acks>>,
           batches' \in Nat, LogOK(log'), Past(log, log', Len(log)), Len(log) <= Len(log'),
           DOMAIN m' = Replica, \A q \in Replica \ {elected} : m'[q] = m[q],
           Same(m[elected], m'[elected]), m'[elected].clseq \in Nat,
           ~m'[elected].active => m'[elected].clseq = 0,
           IdsOK(m'[elected].dd, m'[elected].store),
           LeaderOK(log', aflr, m'[elected], replay[elected], leaderState)
    PROVE  GroupInv'
  <1>1. /\ Grouped(log) /\ log \in Seq(Entry) /\ commit \in 0 .. Len(log) /\ elected \in Replica
        /\ Len(log) \in Nat /\ Len(log') \in Nat /\ log' \in Seq(Entry) /\ aflr \in 1 .. Len(log)
    BY DEF GroupInv, LogOK, Grouped, LeaderOK
  <1>2. \A q \in Replica : ReplicaOK(log', commit, m[q], replay[q], halted[q])
    <2>1. TAKE q \in Replica
    <2>2. ReplicaOK(log, commit, m[q], replay[q], halted[q])
      BY DEF GroupInv
    <2>3. QED
      BY <1>1, <2>2, ReplicaFrame
  <1>3. \A q \in Replica : ReplicaOK(log', commit, m'[q], replay[q], halted[q])
    <2>1. TAKE q \in Replica
    <2>2. CASE q = elected
      BY <1>2, <2>2, ReplicaSame
    <2>3. CASE q # elected
      BY <1>2, <2>3
    <2>4. QED
      BY <2>2, <2>3
  <1>4. \A q \in Replica : SnapOK(log', commit, m'[q], snap[q])
    <2>1. TAKE q \in Replica
    <2>2. SnapOK(log, commit, m[q], snap[q])
      BY DEF GroupInv
    <2>3. SnapOK(log', commit, m[q], snap[q])
      BY <1>1, <2>2, SnapFrame
    <2>4. m'[q].store = m[q].store
      BY DEF Same
    <2>5. QED
      BY <2>3, <2>4 DEF SnapOK
  <1>5. \A q \in Replica : IdsOK(m'[q].dd, m'[q].store)
    <2>1. TAKE q \in Replica
    <2>2. CASE q = elected
      BY <2>2
    <2>3. CASE q # elected
      BY <2>3 DEF GroupInv
    <2>4. QED
      BY <2>2, <2>3
  <1>6. ASSUME NEW a \in acks
        PROVE  AckOK(log', commit, a) /\ AckHeld(log', aflr, m'[elected].store, a)
    <2>1. AckOK(log, commit, a) /\ AckHeld(log, aflr, m[elected].store, a)
      BY DEF GroupInv
    <2>2. AckOK(log', commit, a)
      BY <1>1, <2>1, AckFrame
    <2>3. Size(log, aflr) = Size(log', aflr)
      <3>1. aflr \in 0 .. Len(log)
        BY <1>1
      <3>2. QED
        BY <3>1, PastSame
    <2>4. m'[elected].store = m[elected].store
      BY DEF Same
    <2>5. QED
      BY <2>1, <2>2, <2>3, <2>4 DEF AckHeld
  <1>7. commit' \in 0 .. Len(log')
    BY <1>1
  <1>8. QED
    BY <1>1, <1>3, <1>4, <1>5, <1>6, <1>7 DEF GroupInv

\* What the invariant says of one replica.
LEMMA OfReplica ==
    ASSUME GroupInv, NEW r \in Replica
    PROVE  /\ LogOK(log) /\ Grouped(log) /\ log \in Seq(Entry) /\ commit \in 0 .. Len(log)
           /\ ReplicaOK(log, commit, m[r], replay[r], halted[r])
           /\ SnapOK(log, commit, m[r], snap[r]) /\ IdsOK(m[r].dd, m[r].store)
           /\ DOMAIN m[r] = Fields /\ m[r].store \in Seq(Item) /\ Len(m[r].store) \in Nat
           /\ m[r].applied \in 0 .. commit /\ replay[r] \in 0 .. commit
           /\ StoreOK(log, commit, m[r].store)
           /\ DOMAIN m = Replica /\ DOMAIN halted = Replica /\ DOMAIN snap = Replica
           /\ DOMAIN replay = Replica
           /\ r = elected => LeaderOK(log, aflr, m[r], replay[r], leaderState)
  <1>1. /\ LogOK(log) /\ Grouped(log) /\ log \in Seq(Entry) /\ commit \in 0 .. Len(log)
        /\ DOMAIN m = Replica /\ DOMAIN halted = Replica /\ DOMAIN snap = Replica
        /\ DOMAIN replay = Replica
    BY DEF GroupInv, LogOK, Grouped
  <1>2. ReplicaOK(log, commit, m[r], replay[r], halted[r])
    BY DEF GroupInv
  <1>3. SnapOK(log, commit, m[r], snap[r]) /\ IdsOK(m[r].dd, m[r].store)
    BY DEF GroupInv
  <1>4. /\ DOMAIN m[r] = Fields /\ StoreOK(log, commit, m[r].store)
        /\ m[r].applied \in 0 .. commit /\ replay[r] \in 0 .. commit
    BY <1>2 DEF ReplicaOK
  <1>5. m[r].store \in Seq(Item) /\ Len(m[r].store) \in Nat
    BY <1>4 DEF StoreOK
  <1>6. r = elected => LeaderOK(log, aflr, m[r], replay[r], leaderState)
    BY Zenon DEF GroupInv
  <1>7. QED
    BY <1>1, <1>2, <1>3, <1>4, <1>5, <1>6

\* A replica moves on, and keeps its snapshot.
LEMMA OneStep ==
    ASSUME GroupInv, NEW r \in Replica,
           UNCHANGED <<cfg, log, commit, elected, aflr, snap, replay, batches>>,
           NEW y, m' = [m EXCEPT ![r] = y], NEW h, DOMAIN halted' = Replica, halted'[r] = h,
           \A q \in Replica \ {r} : halted'[q] = halted[q],
           ReplicaOK(log, commit, y, replay[r], h), IdsOK(y.dd, y.store),
           Len(m[r].store) <= Len(y.store),
           r # elected => leaderState' = leaderState,
           r = elected => LeaderOK(log, aflr, y, replay[r], leaderState'),
           \A a \in acks' : a \in acks \/ ( /\ AckOK(log, commit, a) /\ r = elected
                                            /\ a.seq <= Len(y.store) )
    PROVE  GroupInv'
  <1>1. /\ DOMAIN m = Replica /\ DOMAIN halted = Replica /\ DOMAIN snap = Replica
        /\ DOMAIN replay = Replica /\ SnapOK(log, commit, m[r], snap[r]) /\ log \in Seq(Entry)
        /\ commit \in 0 .. Len(log) /\ Len(m[r].store) \in Nat
    BY OfReplica
  <1>2. DOMAIN m' = Replica /\ m'[r] = y /\ \A q \in Replica \ {r} : m'[q] = m[q]
    BY <1>1, OneValue
  <1>3. DOMAIN halted' = Replica /\ halted'[r] = h /\ \A q \in Replica \ {r} : halted'[q] = halted[q]
    OBVIOUS
  <1>4. snap' = snap /\ replay' = replay
    OBVIOUS
  <1>5. Len(y.store) \in Nat
    BY DEF ReplicaOK, StoreOK
  <1>6. SnapOK(log, commit, y, snap[r])
    BY <1>1, <1>5, SnapGrow
  <1>7. batches' \in Nat
    BY DEF GroupInv
  <1>8. \A a \in acks' : a \in acks \/ ( /\ AckOK(log, commit, a)
                                         /\ AckHeld(log, aflr, m'[elected].store, a) )
    BY <1>2 DEF AckHeld
  <1>9. r = elected => /\ Len(m[r].store) <= Len(m'[r].store)
                       /\ LeaderOK(log, aflr, m'[r], replay'[r], leaderState')
    BY <1>2, <1>4, Zenon
  <1>10. \A q \in Replica \ {r} : /\ m'[q] = m[q] /\ halted'[q] = halted[q]
                                  /\ snap'[q] = snap[q] /\ replay'[q] = replay[q]
    BY <1>2, <1>3, <1>4
  <1>11. ReplicaOK(log, commit, m'[r], replay'[r], halted'[r])
    BY <1>2, <1>3, <1>4, Zenon
  <1>12. SnapOK(log, commit, m'[r], snap'[r]) /\ IdsOK(m'[r].dd, m'[r].store)
    BY <1>2, <1>4, <1>6, Zenon
  <1>13. DOMAIN snap' = Replica /\ DOMAIN replay' = Replica
    BY <1>1, <1>4
  <1>14. UNCHANGED <<cfg, log, commit, elected, aflr>>
    OBVIOUS
  <1>15. QED
    BY <1>2, <1>3, <1>7, <1>8, <1>9, <1>10, <1>11, <1>12, <1>13, <1>14, OneReplica, Zenon

\* The leader of the group moves on.
LEMMA LeaderStep ==
    ASSUME NEW l, l \in Seq(Entry), NEW a, NEW x, NEW p, NEW ls, LeaderOK(l, a, x, p, ls),
           NEW y, y.active = x.active, y.clseq = x.clseq,
           x.applied \in Nat, y.applied \in Nat, x.applied <= y.applied,
           Len(x.store) \in Nat, Len(y.store) \in Nat, Len(x.store) <= Len(y.store)
    PROVE  LeaderOK(l, a, y, p, ls)
  <1>1. a \in 0 .. Len(l) /\ a \in Nat
    BY DEF LeaderOK
  <1>2. Size(l, a) \in Nat
    BY <1>1, SizeNat
  <1>3. PICK n, u, v, f, g : n = Size(l, a) /\ u = Len(x.store) /\ v = Len(y.store)
                             /\ f = x.applied /\ g = y.applied
    OBVIOUS
  <1>4. ls => f >= a /\ u >= n
    BY <1>3 DEF LeaderOK
  <1>5. ls => g >= a /\ v >= n
    BY <1>1, <1>2, <1>3, <1>4
  <1>6. a \in 1 .. Len(l) /\ p < a /\ ls \in BOOLEAN
    BY Zenon DEF LeaderOK
  <1>7. y.active => ls
    BY Zenon DEF LeaderOK
  <1>8. Proposed(l, Len(l)) = IF y.clseq = 0 THEN Proposed(l, a) ELSE y.clseq
    BY DEF LeaderOK
  <1>9. ls => y.applied >= a /\ Len(y.store) >= Size(l, a)
    BY <1>3, <1>5, Zenon
  <1>10. QED
    BY <1>6, <1>7, <1>8, <1>9, Zenon DEF LeaderOK

-----------------------------------------------------------------------------
(***************************************************************************)
(* The actions.                                                            *)
(***************************************************************************)
\* One more entry is committed.
LEMMA InvCommit ==
    ASSUME GroupInv, Commit
    PROVE  GroupInv'
  <1>1. /\ Grouped(log) /\ commit \in 0 .. Len(log) /\ Len(log) \in Nat
    BY DEF GroupInv, LogOK, Grouped
  <1>2. commit' \in commit .. Len(log) /\ commit' \in 0 .. Len(log)
    BY <1>1 DEF Commit
  <1>3. UNCHANGED <<cfg, log, elected, aflr, leaderState, m, snap, replay, halted, batches, acks>>
    BY DEF Commit, histVars
  <1>4. \A r \in Replica : ReplicaOK(log, commit', m[r], replay[r], halted[r])
    <2>1. TAKE r \in Replica
    <2>2. ReplicaOK(log, commit, m[r], replay[r], halted[r])
      BY DEF GroupInv
    <2>3. QED
      BY <1>1, <1>2, <2>2, ReplicaMore
  <1>5. \A r \in Replica : SnapOK(log, commit', m[r], snap[r])
    <2>1. TAKE r \in Replica
    <2>2. SnapOK(log, commit, m[r], snap[r])
      BY DEF GroupInv
    <2>3. QED
      BY <1>1, <1>2, <2>2 DEF SnapOK
  <1>6. \A a \in acks : AckOK(log, commit', a)
    <2>1. TAKE a \in acks
    <2>2. AckOK(log, commit, a)
      BY DEF GroupInv
    <2>3. QED
      BY <1>1, <1>2, <2>2, AckMore
  <1>7. QED
    BY <1>2, <1>3, <1>4, <1>5, <1>6 DEF GroupInv

\* An empty entry, with which the group may take the replica for the leader.
LEMMA InvApplyEmpty ==
    ASSUME GroupInv, NEW r \in Replica, ApplyEmpty(r)
    PROVE  GroupInv'
  <1>1. /\ LogOK(log) /\ Grouped(log) /\ log \in Seq(Entry) /\ commit \in 0 .. Len(log)
        /\ ReplicaOK(log, commit, m[r], replay[r], halted[r]) /\ IdsOK(m[r].dd, m[r].store)
        /\ DOMAIN m[r] = Fields /\ Len(m[r].store) \in Nat /\ m[r].applied \in 0 .. commit
        /\ DOMAIN halted = Replica
    BY OfReplica
  <1>2. PICK x, z, y : x = m[r] /\ z = RejectBatch(x) /\ y = [z EXCEPT !.applied = @ + 1]
    OBVIOUS
  <1>3. /\ x.applied < commit /\ halted[r] = "no" /\ log[x.applied + 1].op = "empty"
        /\ m' = [m EXCEPT ![r] = y]
        /\ UNCHANGED <<cfg, log, commit, elected, aflr, snap, replay, halted, batches, acks>>
    BY <1>2 DEF ApplyEmpty, CanApply, NextEntry, histVars
  <1>4. leaderState' = (leaderState \/ (r = elected /\ x.applied + 1 >= aflr))
    BY <1>2 DEF ApplyEmpty
  <1>5. /\ DOMAIN z = Fields /\ z.store = x.store /\ z.clfs = x.clfs + x.batch.count
        /\ z.batch = NoBatch /\ z.applied = x.applied /\ z.active = x.active
        /\ z.clseq = x.clseq /\ z.dd = x.dd
    BY <1>1, <1>2, RejectIs
  <1>6. /\ DOMAIN y = Fields /\ y.store = x.store /\ y.clfs = x.clfs + x.batch.count
        /\ y.batch = NoBatch /\ y.applied = x.applied + 1 /\ y.active = x.active
        /\ y.clseq = x.clseq /\ y.dd = x.dd
    BY <1>2, <1>5 DEF Fields
  <1>7. ReplicaOK(log, commit, x, replay[r], "no")
    BY <1>1, <1>2, <1>3
  <1>8. ReplicaOK(log, commit, y, replay[r], "no")
    <2>1. ~IsMsg(log[x.applied + 1])
      BY <1>3 DEF IsMsg
    <2>2. QED
      BY <1>1, <1>3, <1>6, <1>7, <2>1, ApplyOther
  <1>9. IdsOK(y.dd, y.store) /\ Len(y.store) = Len(x.store)
    BY <1>1, <1>2, <1>6
  <1>10. ASSUME r = elected PROVE LeaderOK(log, aflr, y, replay[r], leaderState')
    <2>1. LeaderOK(log, aflr, x, replay[r], leaderState)
      BY <1>2, <1>10, OfReplica, Zenon
    <2>2. x.applied \in Nat /\ y.applied \in Nat /\ x.applied <= y.applied /\ Len(x.store) \in Nat
      BY <1>1, <1>2, <1>6
    <2>3. LeaderOK(log, aflr, y, replay[r], leaderState)
      <3>1. Len(y.store) \in Nat /\ Len(x.store) <= Len(y.store)
        BY <1>9, <2>2
      <3>2. QED
        BY <1>1, <1>6, <2>1, <2>2, <3>1, LeaderStep
    <2>4. CASE leaderState' = leaderState
      BY <2>3, <2>4, Zenon
    <2>5. CASE y.applied >= aflr /\ leaderState' = TRUE
      <3>1. aflr \in 1 .. Len(log) /\ aflr \in 0 .. Len(log) /\ y.applied \in aflr .. Len(log)
        BY <1>1, <1>3, <1>6, <2>1, <2>2, <2>5 DEF LeaderOK
      <3>2. Size(log, aflr) <= Size(log, y.applied)
        BY <1>1, <3>1, SizeGrows
      <3>3. Size(log, y.applied) <= Len(y.store)
        BY <1>8 DEF ReplicaOK, RunOK
      <3>4. Size(log, aflr) \in Nat /\ Size(log, y.applied) \in Nat
        BY <1>1, <3>1, SizeNat, SMTT(40)
      <3>5. PICK u, v, w : u = Size(log, aflr) /\ v = Size(log, y.applied) /\ w = Len(y.store)
        OBVIOUS
      <3>6. w >= u
        BY <1>9, <2>2, <3>2, <3>3, <3>4, <3>5
      <3>7. aflr \in 1 .. Len(log) /\ replay[r] < aflr
        BY <2>1 DEF LeaderOK
      <3>8. Proposed(log, Len(log)) = IF y.clseq = 0 THEN Proposed(log, aflr) ELSE y.clseq
        BY <2>3 DEF LeaderOK
      <3>9. LeaderOK(log, aflr, y, replay[r], TRUE)
        BY <2>5, <3>5, <3>6, <3>7, <3>8, Zenon DEF LeaderOK
      <3>10. QED
        BY <2>5, <3>9, Zenon
    <2>6. leaderState \in BOOLEAN
      BY <2>1, Zenon DEF LeaderOK
    <2>7. leaderState' = leaderState \/ (y.applied >= aflr /\ leaderState' = TRUE)
      <3>1. CASE leaderState
        BY <1>4, <2>6, <3>1, Zenon
      <3>2. CASE ~leaderState /\ x.applied + 1 >= aflr
        <4>1. leaderState' = TRUE
          BY <1>4, <1>10, <3>2, Zenon
        <4>2. y.applied >= aflr
          BY <1>6, <3>2
        <4>3. QED
          BY <4>1, <4>2
      <3>3. CASE ~leaderState /\ ~(x.applied + 1 >= aflr)
        BY <1>4, <2>6, <3>3, Zenon
      <3>4. QED
        BY <3>1, <3>2, <3>3
    <2>8. QED
      BY <2>4, <2>5, <2>7
  <1>11. r # elected => leaderState' = leaderState
    <2>1. leaderState \in BOOLEAN
      BY Zenon DEF GroupInv, LeaderOK
    <2>2. QED
      BY <1>4, <2>1, Zenon
  <1>12. \A q \in Replica \ {r} : halted'[q] = halted[q]
    BY <1>3
  <1>13. Len(m[r].store) <= Len(y.store)
    BY <1>1, <1>2, <1>9
  <1>14. acks' = acks
    BY <1>3
  <1>15. DOMAIN halted' = Replica /\ halted'[r] = "no"
    BY <1>1, <1>3
  <1>16. \A a \in acks' : a \in acks
    BY <1>14
  <1>17. UNCHANGED <<cfg, log, commit, elected, aflr, snap, replay, batches>>
    BY <1>3
  <1>18. IdsOK(y.dd, y.store)
    BY <1>9
  <1>19. QED
    BY <1>3, <1>8, <1>18, <1>10, <1>11, <1>12, <1>13, <1>15, <1>16, <1>17, OneStep, Zenon

\* A replica moves on, and neither the leader of the group changes nor what it
\* gave out.
LEMMA Moving ==
    ASSUME GroupInv, NEW r \in Replica,
           UNCHANGED <<cfg, log, commit, elected, aflr, leaderState, snap, replay, batches>>,
           NEW y, m' = [m EXCEPT ![r] = y], NEW h, DOMAIN halted' = Replica, halted'[r] = h,
           \A q \in Replica \ {r} : halted'[q] = halted[q],
           ReplicaOK(log, commit, y, replay[r], h), IdsOK(y.dd, y.store),
           y.active = m[r].active, y.clseq = m[r].clseq, m[r].applied <= y.applied,
           Len(m[r].store) <= Len(y.store),
           \A a \in acks' : a \in acks \/ ( /\ AckOK(log, commit, a) /\ r = elected
                                            /\ a.seq <= Len(y.store) )
    PROVE  GroupInv'
  <1>1. /\ log \in Seq(Entry) /\ Len(m[r].store) \in Nat /\ m[r].applied \in 0 .. commit
        /\ commit \in 0 .. Len(log)
    BY OfReplica
  <1>2. ASSUME r = elected PROVE LeaderOK(log, aflr, y, replay[r], leaderState')
    <2>1. LeaderOK(log, aflr, m[r], replay[r], leaderState)
      BY <1>2, OfReplica, Zenon
    <2>2. Len(y.store) \in Nat /\ y.applied \in Nat /\ m[r].applied \in Nat
      BY <1>1 DEF ReplicaOK, StoreOK
    <2>3. LeaderOK(log, aflr, y, replay[r], leaderState)
      BY <1>1, <2>1, <2>2, LeaderStep
    <2>4. QED
      BY <2>3, Zenon
  <1>3. r # elected => leaderState' = leaderState
    BY Zenon
  <1>4. UNCHANGED <<cfg, log, commit, elected, aflr, snap, replay, batches>>
    OBVIOUS
  <1>5. QED
    BY <1>2, <1>3, <1>4, OneStep, Zenon

\* A request to delete or to purge.
LEMMA InvApplyRemoval ==
    ASSUME GroupInv, NEW r \in Replica, ApplyRemoval(r)
    PROVE  GroupInv'
  <1>1. /\ LogOK(log) /\ commit \in 0 .. Len(log) /\ IdsOK(m[r].dd, m[r].store)
        /\ ReplicaOK(log, commit, m[r], replay[r], halted[r]) /\ DOMAIN halted = Replica
        /\ DOMAIN m[r] = Fields /\ Len(m[r].store) \in Nat /\ m[r].applied \in 0 .. commit
    BY OfReplica
  <1>0. PICK b \in BOOLEAN : m' = [m EXCEPT ![r] =
                [RejectBatch(m[r]) EXCEPT !.applied = @ + 1,
                     !.gone = @ \cup RemovedBy(RejectBatch(m[r]), NextEntry(r), b)]]
    BY DEF ApplyRemoval
  <1>2. PICK x, z, g, y : /\ x = m[r] /\ z = RejectBatch(x) /\ g = RemovedBy(z, NextEntry(r), b)
                          /\ y = [z EXCEPT !.applied = @ + 1, !.gone = @ \cup g]
    OBVIOUS
  <1>3. /\ x.applied < commit /\ halted[r] = "no" /\ log[x.applied + 1].op \in {"delete", "purge"}
        /\ UNCHANGED <<cfg, log, commit, elected, aflr, leaderState, snap, replay, halted,
                       batches, acks>>
    BY <1>2 DEF ApplyRemoval, CanApply, NextEntry, histVars, raftVars
  <1>4. m' = [m EXCEPT ![r] = y]
    BY <1>0, <1>2
  <1>5. /\ DOMAIN z = Fields /\ z.store = x.store /\ z.clfs = x.clfs + x.batch.count
        /\ z.batch = NoBatch /\ z.applied = x.applied /\ z.active = x.active
        /\ z.clseq = x.clseq /\ z.dd = x.dd
    BY <1>1, <1>2, RejectIs
  <1>6. /\ DOMAIN y = Fields /\ y.store = x.store /\ y.clfs = x.clfs + x.batch.count
        /\ y.batch = NoBatch /\ y.applied = x.applied + 1 /\ y.active = x.active
        /\ y.clseq = x.clseq /\ y.dd = x.dd
    BY <1>2, <1>5 DEF Fields
  <1>7. ReplicaOK(log, commit, x, replay[r], "no")
    BY <1>1, <1>2, <1>3
  <1>8. ReplicaOK(log, commit, y, replay[r], "no")
    <2>1. ~IsMsg(log[x.applied + 1])
      BY <1>3 DEF IsMsg
    <2>2. QED
      BY <1>1, <1>3, <1>6, <1>7, <2>1, ApplyOther
  <1>9. IdsOK(y.dd, y.store)
    BY <1>1, <1>2, <1>6
  <1>10. /\ Len(m[r].store) <= Len(y.store) /\ m[r].applied <= y.applied
         /\ y.active = m[r].active /\ y.clseq = m[r].clseq
    BY <1>1, <1>2, <1>6
  <1>11. DOMAIN halted' = Replica /\ halted'[r] = "no" /\ \A q \in Replica \ {r} : halted'[q] = halted[q]
    BY <1>1, <1>3
  <1>12. \A a \in acks' : a \in acks
    BY <1>3
  <1>13. UNCHANGED <<cfg, log, commit, elected, aflr, leaderState, snap, replay, batches>>
    BY <1>3
  <1>14. QED
    BY <1>4, <1>8, <1>9, <1>10, <1>11, <1>12, <1>13, Moving, Zenon

\* A message of a batch that waits.
LEMMA InvApplyBatchMsg ==
    ASSUME GroupInv, NEW r \in Replica, ApplyBatchMsg(r)
    PROVE  GroupInv'
  <1>1. /\ LogOK(log) /\ commit \in 0 .. Len(log) /\ IdsOK(m[r].dd, m[r].store)
        /\ ReplicaOK(log, commit, m[r], replay[r], halted[r]) /\ DOMAIN halted = Replica
        /\ DOMAIN m[r] = Fields /\ Len(m[r].store) \in Nat /\ m[r].applied \in 0 .. commit
    BY OfReplica
  <1>2. PICK x, i, z, y : /\ x = m[r] /\ i = x.applied + 1 /\ z = CountBatchMsg(x, log[i], i)
                          /\ y = [z EXCEPT !.applied = @ + 1]
    OBVIOUS
  <1>3. /\ x.applied < commit /\ halted[r] = "no" /\ log[i].op = "batchMsg"
        /\ UNCHANGED <<cfg, log, commit, elected, aflr, leaderState, snap, replay, halted,
                       batches, acks>>
    BY <1>2 DEF ApplyBatchMsg, CanApply, NextEntry, histVars, raftVars
  <1>4. m' = [m EXCEPT ![r] = y]
    BY <1>2 DEF ApplyBatchMsg, NextEntry
  <1>5. ReplicaOK(log, commit, x, replay[r], "no")
    BY <1>1, <1>2, <1>3
  <1>6. Applies(log, commit, x, replay[r], y, "no")
    BY <1>1, <1>2, <1>3, <1>5, ApplyWaiting
  <1>7. /\ ReplicaOK(log, commit, y, replay[r], "no") /\ IdsOK(y.dd, y.store)
        /\ y.applied = x.applied + 1 /\ y.clseq = x.clseq /\ y.active = x.active
        /\ Len(x.store) <= Len(y.store)
    BY <1>6 DEF Applies
  <1>8. /\ Len(m[r].store) <= Len(y.store) /\ m[r].applied <= y.applied
        /\ y.active = m[r].active /\ y.clseq = m[r].clseq
    <2>1. x = m[r]
      BY <1>2
    <2>2. QED
      BY <1>1, <1>7, <2>1
  <1>9. DOMAIN halted' = Replica /\ halted'[r] = "no" /\ \A q \in Replica \ {r} : halted'[q] = halted[q]
    BY <1>1, <1>3
  <1>10. \A a \in acks' : a \in acks
    BY <1>3
  <1>11. UNCHANGED <<cfg, log, commit, elected, aflr, leaderState, snap, replay, batches>>
    BY <1>3
  <1>12. QED
    BY <1>4, <1>7, <1>8, <1>9, <1>10, <1>11, Moving, Zenon

\* What was noted for a message is cleared.
LEMMA InvAfterMsg ==
    ASSUME GroupInv, NEW r \in Replica, AfterMsg(r)
    PROVE  GroupInv'
  <1>1. /\ IdsOK(m[r].dd, m[r].store) /\ commit \in 0 .. Len(log)
        /\ ReplicaOK(log, commit, m[r], replay[r], halted[r]) /\ DOMAIN halted = Replica
        /\ DOMAIN m[r] = Fields /\ Len(m[r].store) \in Nat /\ m[r].applied \in 0 .. commit
        /\ DOMAIN m = Replica
    BY OfReplica
  <1>2. PICK x, y, h : x = m[r] /\ y = ClearInflight(x, post[r]) /\ h = halted[r]
    OBVIOUS
  <1>3. UNCHANGED <<cfg, log, commit, elected, aflr, leaderState, snap, replay, halted,
                    batches, acks>>
    BY DEF AfterMsg, histVars, raftVars
  <1>4. m' = [m EXCEPT ![r] = y]
    BY <1>1, <1>2 DEF AfterMsg
  <1>5. Same(x, y) /\ y.clseq = x.clseq /\ y.dd = x.dd
    BY <1>1, <1>2, ClearSame
  <1>6. ReplicaOK(log, commit, y, replay[r], h)
    <2>1. ReplicaOK(log, commit, x, replay[r], h)
      BY <1>1, <1>2
    <2>2. y.clseq \in Nat /\ (~y.active => y.clseq = 0)
      BY <1>5, <2>1 DEF ReplicaOK, Same
    <2>3. QED
      BY <1>5, <2>1, <2>2, ReplicaSame
  <1>7. IdsOK(y.dd, y.store)
    BY <1>1, <1>2, <1>5 DEF Same
  <1>8. /\ Len(m[r].store) <= Len(y.store) /\ m[r].applied <= y.applied
        /\ y.active = m[r].active /\ y.clseq = m[r].clseq
    BY <1>1, <1>2, <1>5 DEF Same
  <1>9. DOMAIN halted' = Replica /\ halted'[r] = h /\ \A q \in Replica \ {r} : halted'[q] = halted[q]
    BY <1>1, <1>2, <1>3
  <1>10. \A a \in acks' : a \in acks
    BY <1>3
  <1>11. UNCHANGED <<cfg, log, commit, elected, aflr, leaderState, snap, replay, batches>>
    BY <1>3
  <1>12. QED
    BY <1>4, <1>6, <1>7, <1>8, <1>9, <1>10, <1>11, Moving, Zenon

\* An answer for the message that a replica has just stored with entry i.
LEMMA AckNew ==
    ASSUME LogOK(log), commit \in 0 .. Len(log), NEW r, NEW x, NEW y, StoreOK(log, commit, y.store),
           NEW i \in 1 .. commit, Width(log[i]) > 0, Len(x.store) \in Nat,
           Len(y.store) > Len(x.store) => Len(y.store) = Size(log, i),
           NEW a \in StoredAck(r, x, y, log[i])
    PROVE  AckOK(log, commit, a) /\ r = elected /\ a.seq <= Len(y.store)
  <1>1. Grouped(log) /\ y.store \in Seq(Item) /\ Len(y.store) \in Nat
    BY DEF LogOK, StoreOK
  <1>2. /\ r = elected /\ Len(y.store) > Len(x.store)
        /\ a = [id |-> log[i].m.id, seq |-> Len(y.store), dup |-> FALSE]
    BY DEF StoredAck
  <1>3. PICK st, n : st = y.store /\ n = Len(y.store)
    OBVIOUS
  <1>4. StoreOK(log, commit, st) /\ Len(st) = Size(log, i)
    BY <1>2, <1>3
  <1>5. Len(st) \in 1 .. Len(st) /\ st[Len(st)] = ItemOf(log[i])
    BY <1>1, <1>4, LastItem
  <1>6. a.seq = Len(st) /\ a.id = log[i].m.id
    BY <1>2, <1>3
  <1>7. st[a.seq].m.id = a.id
    BY <1>5, <1>6 DEF ItemOf
  <1>8. a.seq \in 1 .. Len(st)
    BY <1>5, <1>6
  <1>9. AckOK(log, commit, a)
    BY <1>1, <1>4, <1>7, <1>8, AckStored
  <1>10. a.seq <= Len(y.store)
    BY <1>1, <1>3, <1>6
  <1>11. QED
    BY <1>2, <1>9, <1>10

\* A message that is not of a batch.
LEMMA InvApplyMsg ==
    ASSUME GroupInv, NEW r \in Replica, ApplyMsg(r)
    PROVE  GroupInv'
  <1>1. /\ LogOK(log) /\ commit \in 0 .. Len(log) /\ IdsOK(m[r].dd, m[r].store)
        /\ ReplicaOK(log, commit, m[r], replay[r], halted[r]) /\ DOMAIN halted = Replica
        /\ DOMAIN m[r] = Fields /\ Len(m[r].store) \in Nat /\ m[r].applied \in 0 .. commit
    BY OfReplica
  <1>2. PICK x, e, z, y, w : /\ x = m[r] /\ e = log[x.applied + 1] /\ z = RejectBatch(x)
                             /\ y = ProcessJetStreamMsg(z, e, r = elected)
                             /\ w = [y EXCEPT !.applied = @ + 1]
    OBVIOUS
  <1>3. /\ x.applied < commit /\ halted[r] = "no" /\ e.op = "msg"
        /\ UNCHANGED <<cfg, log, commit, elected, aflr, leaderState, snap, replay, batches>>
    BY <1>2 DEF ApplyMsg, CanApply, NextEntry, histVars, raftVars
  <1>4. m' = [m EXCEPT ![r] = w] /\ acks' = acks \cup StoredAck(r, z, y, e)
    BY <1>2 DEF ApplyMsg, NextEntry
  <1>5. halted' = [halted EXCEPT ![r] = IF SeqMismatch(z, e) THEN "mismatch"
                                        ELSE IF MsgIdMismatch(z, e) THEN "werr" ELSE @]
    BY <1>2 DEF ApplyMsg, NextEntry
  <1>6. ReplicaOK(log, commit, x, replay[r], "no") /\ IdsOK(x.dd, x.store)
    BY <1>1, <1>2, <1>3
  <1>7. PICK h : h = IF MsgIdMismatch(z, e) THEN "werr" ELSE "no"
    OBVIOUS
  <1>8. ~SeqMismatch(z, e)
    BY <1>1, <1>2, <1>3, <1>6, ApplyMessage
  <1>9. Applies(log, commit, x, replay[r], w, h)
    BY <1>1, <1>2, <1>3, <1>6, <1>7, ApplyMessage
  <1>10. /\ w.applied = x.applied + 1 /\ w.clseq = x.clseq /\ w.active = x.active
         /\ Len(x.store) <= Len(w.store) /\ IdsOK(w.dd, w.store)
         /\ ReplicaOK(log, commit, w, replay[r], h)
         /\ Len(w.store) > Len(x.store) => Len(w.store) = Size(log, x.applied + 1)
    BY <1>9 DEF Applies
  <1>11. w.store = y.store
    BY <1>2, <1>10 DEF ReplicaOK, Fields
  <1>12. halted' = [halted EXCEPT ![r] = h]
    BY <1>3, <1>5, <1>7, <1>8
  <1>13. DOMAIN halted' = Replica /\ halted'[r] = h /\ \A q \in Replica \ {r} : halted'[q] = halted[q]
    BY <1>1, <1>12, OneValue
  <1>14. /\ Len(m[r].store) <= Len(w.store) /\ m[r].applied <= w.applied
         /\ w.active = m[r].active /\ w.clseq = m[r].clseq
    BY <1>1, <1>2, <1>10, SMTT(40)
  <1>15. ASSUME NEW a \in acks', a \notin acks
         PROVE  AckOK(log, commit, a) /\ r = elected /\ a.seq <= Len(w.store)
    <2>1. z.store = x.store
      BY <1>1, <1>2, RejectIs
    <2>2. PICK i : i = x.applied + 1
      OBVIOUS
    <2>3. i \in 1 .. commit /\ Len(z.store) \in Nat
      BY <1>1, <1>2, <1>3, <2>1, <2>2
    <2>4. Width(log[i]) > 0
      BY <1>2, <1>3, <2>2 DEF Width
    <2>5. StoreOK(log, commit, y.store)
      BY <1>10, <1>11 DEF ReplicaOK
    <2>6. Len(y.store) > Len(z.store) => Len(y.store) = Size(log, i)
      BY <1>10, <1>11, <2>1, <2>2
    <2>7. a \in StoredAck(r, z, y, log[i])
      BY <1>2, <1>4, <1>15, <2>2
    <2>8. AckOK(log, commit, a) /\ r = elected /\ a.seq <= Len(y.store)
      BY <1>1, <2>3, <2>4, <2>5, <2>6, <2>7, AckNew
    <2>9. QED
      BY <1>11, <2>8
  <1>16. \A a \in acks' : a \in acks \/ ( /\ AckOK(log, commit, a) /\ r = elected
                                          /\ a.seq <= Len(w.store) )
    BY <1>15
  <1>17. IdsOK(w.dd, w.store) /\ ReplicaOK(log, commit, w, replay[r], h)
    BY <1>10
  <1>18. QED
    BY <1>3, <1>4, <1>13, <1>14, <1>16, <1>17, Moving, Zenon

\* The entry that completes a batch.
LEMMA InvApplyBatch ==
    ASSUME GroupInv, NEW r \in Replica, ApplyBatch(r)
    PROVE  GroupInv'
  <1>1. /\ LogOK(log) /\ commit \in 0 .. Len(log) /\ IdsOK(m[r].dd, m[r].store)
        /\ ReplicaOK(log, commit, m[r], replay[r], halted[r]) /\ DOMAIN halted = Replica
        /\ DOMAIN m[r] = Fields /\ Len(m[r].store) \in Nat /\ m[r].applied \in 0 .. commit
        /\ Grouped(log)
    BY OfReplica
  <1>2. PICK x, i, y, z, w : /\ x = m[r] /\ i = x.applied + 1 /\ y = CountBatchMsg(x, log[i], i)
                             /\ z = ApplyBatchCommit(y, i, r = elected)
                             /\ w = [z EXCEPT !.applied = i]
    OBVIOUS
  <1>3. /\ x.applied < commit /\ halted[r] = "no" /\ log[i].op = "batchCommit"
        /\ UNCHANGED <<cfg, log, commit, elected, aflr, leaderState, snap, replay, batches>>
    BY <1>2 DEF ApplyBatch, CanApply, NextEntry, histVars, raftVars
  <1>4. m' = [m EXCEPT ![r] = w] /\ acks' = acks \cup StoredAck(r, x, z, log[i])
    BY <1>2 DEF ApplyBatch
  <1>5. halted' = [halted EXCEPT ![r] = IF y.batch.id # 0 /\ SeqMismatch(y, log[y.batch.from])
                                        THEN "mismatch" ELSE @]
    BY <1>2 DEF ApplyBatch
  <1>6. ReplicaOK(log, commit, x, replay[r], "no") /\ IdsOK(x.dd, x.store)
    BY <1>1, <1>2, <1>3
  <1>7. Completes(log, commit, x, replay[r], y, w)
    BY <1>1, <1>2, <1>3, <1>6, ApplyComplete
  <1>8. ~SeqMismatch(y, log[y.batch.from]) /\ Applies(log, commit, x, replay[r], w, "no")
    BY <1>7 DEF Completes
  <1>9. /\ w.applied = i /\ w.clseq = x.clseq /\ w.active = x.active
        /\ Len(x.store) <= Len(w.store) /\ IdsOK(w.dd, w.store)
        /\ ReplicaOK(log, commit, w, replay[r], "no")
        /\ Len(w.store) > Len(x.store) => Len(w.store) = Size(log, i)
    BY <1>2, <1>8 DEF Applies
  <1>10. w.store = z.store
    BY <1>2, <1>9 DEF ReplicaOK, Fields
  <1>11. halted' = [halted EXCEPT ![r] = "no"]
    BY <1>3, <1>5, <1>8
  <1>12. DOMAIN halted' = Replica /\ halted'[r] = "no" /\ \A q \in Replica \ {r} : halted'[q] = halted[q]
    BY <1>1, <1>11, OneValue
  <1>13. /\ Len(m[r].store) <= Len(w.store) /\ m[r].applied <= w.applied
         /\ w.active = m[r].active /\ w.clseq = m[r].clseq
    <2>1. x = m[r] /\ i = x.applied + 1
      BY <1>2
    <2>2. QED
      BY <1>1, <1>9, <2>1
  <1>14. ASSUME NEW a \in acks', a \notin acks
         PROVE  AckOK(log, commit, a) /\ r = elected /\ a.seq <= Len(w.store)
    <2>1. i \in 1 .. commit /\ i \in 1 .. Len(log) /\ Len(x.store) \in Nat
      BY <1>1, <1>2, <1>3
    <2>2. Width(log[i]) > 0
      <3>1. IsBatch(log[i])
        BY <1>3 DEF IsBatch
      <3>2. log[i].bs \in 1 .. i
        BY <1>1, <2>1, <3>1 DEF Grouped, GroupedAt
      <3>3. QED
        BY <1>3, <2>1, <3>2 DEF Width
    <2>3. StoreOK(log, commit, z.store)
      BY <1>9, <1>10 DEF ReplicaOK
    <2>4. Len(z.store) > Len(x.store) => Len(z.store) = Size(log, i)
      BY <1>9, <1>10
    <2>5. a \in StoredAck(r, x, z, log[i])
      BY <1>4, <1>14
    <2>6. AckOK(log, commit, a) /\ r = elected /\ a.seq <= Len(z.store)
      BY <1>1, <2>1, <2>2, <2>3, <2>4, <2>5, AckNew
    <2>7. QED
      BY <1>10, <2>6
  <1>15. \A a \in acks' : a \in acks \/ ( /\ AckOK(log, commit, a) /\ r = elected
                                          /\ a.seq <= Len(w.store) )
    BY <1>14
  <1>16. IdsOK(w.dd, w.store) /\ ReplicaOK(log, commit, w, replay[r], "no")
    BY <1>9
  <1>17. QED
    BY <1>3, <1>4, <1>12, <1>13, <1>15, <1>16, Moving, Zenon

\* A replica handles the change of leader.
LEMMA InvProcessLeaderChange ==
    ASSUME GroupInv, NEW r \in Replica, ProcessLeaderChange(r)
    PROVE  GroupInv'
  <1>1. /\ LogOK(log) /\ commit \in 0 .. Len(log) /\ IdsOK(m[r].dd, m[r].store)
        /\ ReplicaOK(log, commit, m[r], replay[r], halted[r]) /\ DOMAIN halted = Replica
        /\ DOMAIN m[r] = Fields /\ Len(m[r].store) \in Nat /\ DOMAIN m = Replica
    BY OfReplica
  <1>2. PICK x, y : x = m[r] /\ y = [ForgetProposals(x) EXCEPT !.active = ~@]
    OBVIOUS
  <1>3. /\ halted[r] = "no"
        /\ UNCHANGED <<cfg, log, commit, elected, aflr, leaderState, snap, replay, halted,
                       batches, acks>>
    BY DEF ProcessLeaderChange, histVars, raftVars
  <1>4. m' = [m EXCEPT ![r] = y]
    BY <1>2 DEF ProcessLeaderChange
  <1>5. x.active # (r = elected /\ leaderState)
    BY <1>2 DEF ProcessLeaderChange
  <1>6. IdsOK(x.dd, x.store) /\ DOMAIN x = Fields
    BY <1>1, <1>2
  <1>7. /\ DOMAIN y = Fields /\ y.store = x.store /\ y.clfs = x.clfs /\ y.batch = x.batch
        /\ y.applied = x.applied /\ y.active = ~x.active /\ y.clseq = 0 /\ IdsOK(y.dd, x.store)
    <2>1. Forgot(x, y, x.store)
      BY <1>2, <1>6, ForgetIs
    <2>2. QED
      BY <2>1, Zenon DEF Forgot
  <1>8. ReplicaOK(log, commit, x, replay[r], "no")
    BY <1>1, <1>2, <1>3
  <1>9. ReplicaOK(log, commit, y, replay[r], "no")
    <2>1. y.active \in BOOLEAN
      BY <1>7, Zenon
    <2>2. /\ DOMAIN y = Fields /\ y.store = x.store /\ y.clfs = x.clfs /\ y.batch = x.batch
          /\ y.applied = x.applied /\ y.clseq = 0
      BY <1>7, Zenon
    <2>3. RunOK(log, x, replay[r])
      BY <1>8 DEF ReplicaOK
    <2>4. RunOK(log, y, replay[r])
      BY <2>2, <2>3 DEF RunOK
    <2>5. QED
      BY <1>8, <2>1, <2>2, <2>4 DEF ReplicaOK
  <1>10. ASSUME r = elected PROVE LeaderOK(log, aflr, y, replay[r], leaderState')
    <2>1. LeaderOK(log, aflr, x, replay[r], leaderState)
      BY <1>2, <1>10, OfReplica, Zenon
    <2>2. leaderState \in BOOLEAN /\ x.active \in BOOLEAN
      BY <1>8, <2>1, Zenon DEF LeaderOK, ReplicaOK
    <2>3. x.active => leaderState
      BY <2>1, Zenon DEF LeaderOK
    <2>4. ~x.active /\ leaderState
      BY <1>5, <1>10, <2>2, <2>3, Zenon
    <2>5. x.clseq = 0
      BY <1>8, <2>4 DEF ReplicaOK
    <2>6. y.store = x.store /\ y.applied = x.applied /\ y.clseq = x.clseq
      BY <1>7, <2>5, Zenon
    <2>7. LeaderOK(log, aflr, y, replay[r], leaderState)
      BY <2>1, <2>4, <2>6, Zenon DEF LeaderOK
    <2>8. leaderState' = leaderState
      BY <1>3, Zenon
    <2>9. QED
      BY <2>7, <2>8, Zenon
  <1>11. r # elected => leaderState' = leaderState
    BY <1>3, Zenon
  <1>12. Len(m[r].store) <= Len(y.store)
    <2>1. y.store = x.store
      BY <1>7, Zenon
    <2>2. QED
      BY <1>1, <1>2, <2>1
  <1>13. DOMAIN halted' = Replica /\ halted'[r] = "no" /\ \A q \in Replica \ {r} : halted'[q] = halted[q]
    <2>1. halted' = halted
      BY <1>3, Zenon
    <2>2. QED
      BY <1>1, <1>3, <2>1
  <1>14. \A a \in acks' : a \in acks
    BY <1>3, Zenon
  <1>15. UNCHANGED <<cfg, log, commit, elected, aflr, snap, replay, batches>>
    BY <1>3
  <1>16. IdsOK(y.dd, y.store)
    BY <1>7, Zenon
  <1>17. QED
    BY <1>4, <1>9, <1>10, <1>11, <1>12, <1>13, <1>14, <1>15, <1>16, OneStep, Zenon

\* A replica makes a snapshot.
LEMMA InvSnapshot ==
    ASSUME GroupInv, NEW r \in Replica, Snapshot(r)
    PROVE  GroupInv'
  <1>1. /\ LogOK(log) /\ commit \in 0 .. Len(log) /\ IdsOK(m[r].dd, m[r].store)
        /\ ReplicaOK(log, commit, m[r], replay[r], halted[r]) /\ DOMAIN snap = Replica
        /\ Len(m[r].store) \in Nat
    BY OfReplica
  <1>2. /\ halted[r] = "no" /\ m[r].applied >= replay[r]
        /\ snap' = [snap EXCEPT ![r] = StateSnapshot(m[r])]
        /\ UNCHANGED <<cfg, log, commit, elected, aflr, leaderState, m, replay, halted,
                       batches, acks>>
    BY DEF Snapshot, histVars, raftVars
  <1>3. SnapOK(log, commit, m[r], StateSnapshot(m[r]))
    BY <1>1, <1>2, SnapshotIs
  <1>4. \A q \in Replica : SnapOK(log, commit, m[q], snap'[q])
    <2>1. TAKE q \in Replica
    <2>2. CASE q = r
      <3>1. snap'[q] = StateSnapshot(m[r])
        BY <1>1, <1>2, <2>2
      <3>2. QED
        BY <1>3, <2>2, <3>1, Zenon
    <2>3. CASE q # r
      <3>1. snap'[q] = snap[q]
        BY <1>1, <1>2, <2>3
      <3>2. SnapOK(log, commit, m[q], snap[q])
        BY DEF GroupInv
      <3>3. QED
        BY <3>1, <3>2, Zenon
    <2>4. QED
      BY <2>2, <2>3
  <1>5. DOMAIN snap' = Replica
    BY <1>1, <1>2
  <1>6. QED
    BY <1>2, <1>4, <1>5 DEF GroupInv

\* A server comes back.
LEMMA InvRestart ==
    ASSUME GroupInv, NEW r \in Replica, NEW kept \in snap[r].lseq .. Len(m[r].store), NEW gone,
           Restart(r, kept, gone)
    PROVE  GroupInv'
  <1>1. /\ LogOK(log) /\ commit \in 0 .. Len(log) /\ SnapOK(log, commit, m[r], snap[r])
        /\ ReplicaOK(log, commit, m[r], replay[r], halted[r])
        /\ DOMAIN m = Replica /\ DOMAIN halted = Replica /\ DOMAIN snap = Replica
        /\ DOMAIN replay = Replica
    BY OfReplica
  <1>2. PICK y : y = [RebuildDedupe(InitStream, SubSeq(m[r].store, 1, kept), gone)
                         EXCEPT !.clfs = snap[r].clfs, !.applied = snap[r].idx]
    OBVIOUS
  <1>3. /\ r # elected /\ halted[r] = "no" /\ replay' = [replay EXCEPT ![r] = commit]
        /\ UNCHANGED <<cfg, log, commit, elected, aflr, leaderState, snap, halted, batches, acks>>
    BY DEF Restart, raftVars
  <1>4. m' = [m EXCEPT ![r] = y]
    BY <1>2 DEF Restart
  <1>5. ReplicaOK(log, commit, y, commit, "no") /\ SnapOK(log, commit, y, snap[r])
        /\ IdsOK(y.dd, y.store)
    <2>1. PICK x, s, p, h : x = m[r] /\ s = snap[r] /\ p = replay[r] /\ h = halted[r]
      OBVIOUS
    <2>2. /\ ReplicaOK(log, commit, x, p, h) /\ SnapOK(log, commit, x, s)
          /\ kept \in s.lseq .. Len(x.store)
      BY <1>1, <2>1
    <2>3. y = [RebuildDedupe(InitStream, SubSeq(x.store, 1, kept), gone)
                         EXCEPT !.clfs = s.clfs, !.applied = s.idx]
      BY <1>2, <2>1
    <2>4. Restarted(log, commit, y, s)
      BY <1>1, <2>2, <2>3, RestartIs
    <2>5. QED
      BY <2>1, <2>4 DEF Restarted
  <1>6. DOMAIN m' = Replica /\ m'[r] = y /\ \A q \in Replica \ {r} : m'[q] = m[q]
    BY <1>1, <1>4, OneValue
  <1>7. /\ DOMAIN replay' = Replica /\ replay'[r] = commit
        /\ \A q \in Replica \ {r} : replay'[q] = replay[q]
    BY <1>1, <1>3, OneValue
  <1>8. snap' = snap /\ halted' = halted /\ leaderState' = leaderState /\ acks' = acks
    BY <1>3, Zenon
  <1>9. \A q \in Replica \ {r} : /\ m'[q] = m[q] /\ halted'[q] = halted[q]
                                 /\ snap'[q] = snap[q] /\ replay'[q] = replay[q]
    BY <1>6, <1>7, <1>8
  <1>10. ReplicaOK(log, commit, m'[r], replay'[r], halted'[r])
    BY <1>3, <1>5, <1>6, <1>7, <1>8, Zenon
  <1>11. SnapOK(log, commit, m'[r], snap'[r]) /\ IdsOK(m'[r].dd, m'[r].store)
    BY <1>5, <1>6, <1>8, Zenon
  <1>12. /\ DOMAIN halted' = Replica /\ DOMAIN snap' = Replica
         /\ \A a \in acks' : a \in acks
    BY <1>1, <1>8
  <1>13. batches' \in Nat
    BY <1>3 DEF GroupInv
  <1>14. UNCHANGED <<cfg, log, commit, elected, aflr>> /\ r # elected
    BY <1>3
  <1>15. QED
    BY <1>6, <1>7, <1>8, <1>9, <1>10, <1>11, <1>12, <1>13, <1>14, OneReplica, Zenon

\* A replica takes the snapshot of the leader.
LEMMA InvCatchup ==
    ASSUME GroupInv, NEW r \in Replica, Catchup(r)
    PROVE  GroupInv'
  <1>1. /\ LogOK(log) /\ commit \in 0 .. Len(log) /\ IdsOK(m[r].dd, m[r].store)
        /\ ReplicaOK(log, commit, m[r], replay[r], halted[r])
        /\ DOMAIN m = Replica /\ DOMAIN halted = Replica /\ DOMAIN snap = Replica
        /\ DOMAIN replay = Replica
    BY OfReplica
  <1>2. elected \in Replica
    BY DEF GroupInv
  <1>3. StoreOK(log, commit, m[elected].store) /\ SnapOK(log, commit, m[elected], snap[elected])
    BY <1>2, OfReplica
  <1>4. PICK x, lead, s, y : /\ x = m[r] /\ lead = m[elected] /\ s = snap[elected]
                             /\ y = ProcessSnapshot(x, s, lead)
    OBVIOUS
  <1>5. /\ r # elected /\ halted[r] = "no" /\ s.idx > x.applied
        /\ snap' = [snap EXCEPT ![r] = s]
        /\ UNCHANGED <<cfg, log, commit, elected, aflr, leaderState, replay, halted, batches, acks>>
    BY <1>4 DEF Catchup, raftVars
  <1>6. m' = [m EXCEPT ![r] = y]
    BY <1>1, <1>4 DEF Catchup
  <1>7. /\ ReplicaOK(log, commit, x, replay[r], "no") /\ IdsOK(x.dd, x.store)
        /\ StoreOK(log, commit, lead.store) /\ SnapOK(log, commit, lead, s)
    BY <1>1, <1>3, <1>4, <1>5
  <1>8. /\ ReplicaOK(log, commit, y, replay[r], "no") /\ SnapOK(log, commit, y, s)
        /\ IdsOK(y.dd, y.store)
    <2>1. Caught(log, commit, y, replay[r], s)
      BY <1>1, <1>4, <1>5, <1>7, CatchupIs
    <2>2. QED
      BY <2>1 DEF Caught
  <1>9. DOMAIN m' = Replica /\ m'[r] = y /\ \A q \in Replica \ {r} : m'[q] = m[q]
    BY <1>1, <1>6, OneValue
  <1>10. DOMAIN snap' = Replica /\ snap'[r] = s /\ \A q \in Replica \ {r} : snap'[q] = snap[q]
    BY <1>1, <1>5, OneValue
  <1>11. replay' = replay /\ halted' = halted /\ leaderState' = leaderState /\ acks' = acks
    BY <1>5, Zenon
  <1>12. \A q \in Replica \ {r} : /\ m'[q] = m[q] /\ halted'[q] = halted[q]
                                  /\ snap'[q] = snap[q] /\ replay'[q] = replay[q]
    BY <1>9, <1>10, <1>11
  <1>13. ReplicaOK(log, commit, m'[r], replay'[r], halted'[r])
    BY <1>5, <1>8, <1>9, <1>11, Zenon
  <1>14. SnapOK(log, commit, m'[r], snap'[r]) /\ IdsOK(m'[r].dd, m'[r].store)
    BY <1>8, <1>9, <1>10, Zenon
  <1>15. /\ DOMAIN halted' = Replica /\ DOMAIN replay' = Replica
         /\ \A a \in acks' : a \in acks
    BY <1>1, <1>11
  <1>16. batches' \in Nat
    BY <1>5 DEF GroupInv
  <1>17. UNCHANGED <<cfg, log, commit, elected, aflr>> /\ r # elected
    BY <1>5
  <1>18. QED
    BY <1>9, <1>10, <1>11, <1>12, <1>13, <1>14, <1>15, <1>16, <1>17, OneReplica, Zenon

\* Another replica is elected.
LEMMA InvLeaderChange ==
    ASSUME GroupInv, NEW r \in Replica, NEW n, LeaderChange(r, n)
    PROVE  GroupInv'
  <1>1. /\ LogOK(log) /\ Grouped(log) /\ commit \in 0 .. Len(log) /\ Len(log) \in Nat
        /\ ReplicaOK(log, commit, m[r], replay[r], halted[r]) /\ replay[r] \in 0 .. commit
    BY OfReplica
  <1>2. PICK k : k = Append(SubSeq(log, 1, n), [op |-> "empty"])
    OBVIOUS
  <1>3. /\ ~m[r].active /\ n \in commit .. Len(log) /\ log' = k /\ elected' = r /\ aflr' = n + 1
        /\ leaderState' = FALSE
        /\ UNCHANGED <<cfg, commit, m, snap, replay, halted, batches, acks>>
    BY <1>2 DEF LeaderChange
  <1>4. n \in 0 .. Len(log) /\ n \in Nat /\ commit \in 0 .. n
    BY <1>1, <1>3
  <1>5. LogOK(k) /\ Past(log, k, n) /\ Len(k) = n + 1
    BY <1>1, <1>2, <1>4, LogCut
  <1>6. \A q \in Replica : ReplicaOK(k, commit, m[q], replay[q], halted[q])
    <2>1. TAKE q \in Replica
    <2>2. ReplicaOK(log, commit, m[q], replay[q], halted[q])
      BY DEF GroupInv
    <2>3. QED
      BY <1>1, <1>4, <1>5, <2>2, ReplicaFrame
  <1>7. \A q \in Replica : SnapOK(k, commit, m[q], snap[q])
    <2>1. TAKE q \in Replica
    <2>2. SnapOK(log, commit, m[q], snap[q])
      BY DEF GroupInv
    <2>3. QED
      BY <1>4, <1>5, <2>2, SnapFrame
  <1>8. LeaderOK(k, n + 1, m[r], replay[r], FALSE)
    <2>1. m[r].clseq = 0
      BY <1>1, <1>3 DEF ReplicaOK
    <2>2. n + 1 \in 1 .. Len(k) /\ replay[r] < n + 1
      BY <1>1, <1>4, <1>5
    <2>3. Proposed(k, Len(k)) = Proposed(k, n + 1)
      BY <1>5
    <2>4. QED
      BY <1>3, <2>1, <2>2, <2>3 DEF LeaderOK
  <1>9. ASSUME NEW a \in acks
        PROVE  AckOK(k, commit, a) /\ AckHeld(k, n + 1, m[r].store, a)
    <2>1. AckOK(log, commit, a)
      BY DEF GroupInv
    <2>2. AckOK(k, commit, a)
      BY <1>1, <1>4, <1>5, <2>1, AckFrame
    <2>3. Grouped(k) /\ k \in Seq(Entry) /\ commit \in 0 .. Len(k) /\ n + 1 \in commit .. Len(k)
          /\ n + 1 \in 0 .. Len(k)
      BY <1>4, <1>5 DEF LogOK, Grouped
    <2>4. Size(k, commit) <= Size(k, n + 1)
      BY <2>3, SizeGrows
    <2>5. Size(k, commit) \in Nat /\ Size(k, n + 1) \in Nat
      BY <2>3, SizeNat
    <2>6. PICK q, u, v : q = a.seq /\ u = Size(k, commit) /\ v = Size(k, n + 1)
      OBVIOUS
    <2>7. q \in 1 .. u
      BY <2>2, <2>6 DEF AckOK
    <2>8. q <= v
      BY <2>4, <2>5, <2>6, <2>7
    <2>9. QED
      BY <2>2, <2>6, <2>8 DEF AckHeld
  <1>10. commit \in 0 .. Len(k)
    BY <1>4, <1>5
  <1>11. LeaderOK(log', aflr', m'[elected'], replay'[elected'], leaderState')
    <2>1. m' = m /\ replay' = replay
      BY <1>3
    <2>2. QED
      BY <1>3, <1>8, <2>1, Zenon
  <1>12. \A a \in acks' : AckOK(log', commit', a) /\ AckHeld(log', aflr', m'[elected'].store, a)
    BY <1>3, <1>9
  <1>13. QED
    BY <1>3, <1>5, <1>6, <1>7, <1>10, <1>11, <1>12 DEF GroupInv

\* The leader, and a log that has grown.
LEMMA LeaderFrame ==
    ASSUME NEW l, NEW k, Past(l, k, Len(l)), Len(l) <= Len(k), NEW a, NEW x, NEW p, NEW ls,
           LeaderOK(l, a, x, p, ls), NEW y, Same(x, y),
           Proposed(k, Len(k)) = IF y.clseq = 0 THEN Proposed(k, a) ELSE y.clseq
    PROVE  LeaderOK(k, a, y, p, ls)
  <1>1. a \in 1 .. Len(l) /\ a \in 0 .. Len(l) /\ Len(l) \in Nat /\ Len(k) \in Nat
    BY DEF LeaderOK, Past
  <1>2. Size(l, a) = Size(k, a)
    BY <1>1, PastSame
  <1>3. a \in 1 .. Len(k)
    BY <1>1
  <1>4. y.active = x.active /\ y.applied = x.applied /\ y.store = x.store
    BY DEF Same
  <1>5. p < a /\ ls \in BOOLEAN /\ (x.active => ls)
        /\ (ls => x.applied >= a /\ Len(x.store) >= Size(l, a))
    BY Zenon DEF LeaderOK
  <1>6. p < a /\ ls \in BOOLEAN /\ (y.active => ls)
        /\ (ls => y.applied >= a /\ Len(y.store) >= Size(k, a))
    BY <1>2, <1>4, <1>5, Zenon
  <1>7. QED
    BY <1>3, <1>6, Zenon DEF LeaderOK

\* A log goes on with itself.
LEMMA PastSelf ==
    ASSUME NEW l, l \in Seq(Entry)
    PROVE  Past(l, l, Len(l)) /\ Len(l) <= Len(l)
  BY DEF Past

\* What a leader knows when it proposes.
LEMMA Proposing ==
    ASSUME GroupInv, NEW r \in Replica, CanPropose(r), NEW y, y = WithClseq(m[r])
    PROVE  /\ r = elected /\ leaderState = TRUE /\ halted[r] = "no"
           /\ LeaderOK(log, aflr, m[r], replay[r], leaderState)
           /\ Numbered(log, m[r], y) /\ m[r].active = TRUE
  <1>1. r = elected /\ leaderState /\ halted[r] = "no" /\ m[r].active
    BY DEF CanPropose
  <1>2. /\ LogOK(log) /\ commit \in 0 .. Len(log)
        /\ ReplicaOK(log, commit, m[r], replay[r], halted[r])
    BY OfReplica
  <1>3. LeaderOK(log, aflr, m[r], replay[r], leaderState)
    BY <1>1, OfReplica, Zenon
  <1>4. leaderState = TRUE
    BY <1>1, <1>3, Zenon DEF LeaderOK
  <1>5. m[r].active = TRUE
    <2>1. m[r].active \in BOOLEAN
      BY <1>2, Zenon DEF ReplicaOK
    <2>2. QED
      BY <1>1, <2>1, Zenon
  <1>6. ReplicaOK(log, commit, m[r], replay[r], "no") /\ LeaderOK(log, aflr, m[r], replay[r], TRUE)
    BY <1>1, <1>2, <1>3, <1>4, Zenon
  <1>7. Numbered(log, m[r], y)
    BY <1>2, <1>6, NextClseq
  <1>8. QED
    BY <1>1, <1>3, <1>4, <1>5, <1>7, Zenon

\* The configuration has messages and requests.
LEMMA OfConfig ==
    ASSUME GroupInv
    PROVE  /\ \A p \in cfg.pubs : p \in Message
           /\ \A b \in cfg.batches : b \in Seq(Message) /\ Len(b) > 0
           /\ \A q \in cfg.removals : q \in Removal
  <1>1. cfg \in Configs
    BY DEF GroupInv
  <1>2. QED
    BY <1>1, ConfigsAssumption

\* The leader proposes a message.
LEMMA InvPublish ==
    ASSUME GroupInv, NEW r \in Replica, NEW p \in cfg.pubs, Publish(r, p)
    PROVE  GroupInv'
  <1>1. /\ LogOK(log) /\ Grouped(log) /\ log \in Seq(Entry) /\ IdsOK(m[r].dd, m[r].store)
        /\ DOMAIN m[r] = Fields /\ DOMAIN m = Replica /\ Len(log) \in Nat
    BY OfReplica
  <1>2. PICK x, y, d, z, w : /\ x = m[r] /\ y = WithClseq(x) /\ d = CheckMsg(y, NoDiff, p)
                             /\ z = CommitDiff(y, d) /\ w = [z EXCEPT !.clseq = @ + 1]
    OBVIOUS
  <1>3. PICK e : e = [op |-> "msg", m |-> p, lseq |-> y.clseq, b |-> 0, bs |-> 0]
    OBVIOUS
  <1>4. PICK k : k = Append(log, e)
    OBVIOUS
  <1>5. /\ CanPropose(r)
        /\ UNCHANGED <<cfg, commit, elected, aflr, leaderState, snap, replay, halted, batches, acks>>
    BY DEF Publish, histVars
  <1>6. log' = k /\ m' = [m EXCEPT ![r] = w]
    BY <1>2, <1>3, <1>4 DEF Publish
  <1>7. /\ r = elected /\ leaderState = TRUE /\ Numbered(log, x, y) /\ x.active = TRUE
        /\ LeaderOK(log, aflr, x, replay[r], leaderState)
    BY <1>2, <1>5, Proposing
  <1>8. /\ Same(x, y) /\ y.dd = x.dd /\ y.clseq = Proposed(log, Len(log)) /\ y.clseq \in Nat
        /\ DOMAIN y = Fields
    BY <1>7 DEF Numbered, Same
  <1>9. p \in Message
    BY OfConfig
  <1>10. DiffOK(d)
    BY <1>2, <1>9, CheckOK, NoDiffOK
  <1>11. Staged(y, z, x.store)
    <2>1. IdsOK(y.dd, x.store)
      BY <1>1, <1>2, <1>8
    <2>2. QED
      BY <1>2, <1>8, <1>10, <2>1, CommitDiffSame
  <1>12. Same(y, z) /\ z.clseq = y.clseq /\ IdsOK(z.dd, x.store) /\ DOMAIN z = Fields
    BY <1>11 DEF Staged, Same
  <1>13. Same(z, w) /\ w.dd = z.dd /\ w.clseq = z.clseq + 1
    BY <1>2, <1>12 DEF Same, Fields
  <1>14. Same(x, w) /\ w.active = TRUE
    BY <1>7, <1>8, <1>12, <1>13 DEF Same
  <1>15. w.clseq \in Nat /\ w.clseq = Proposed(log, Len(log)) + 1 /\ w.clseq # 0
    BY <1>8, <1>12, <1>13
  <1>16. IdsOK(w.dd, w.store)
    BY <1>12, <1>13, <1>14 DEF Same
  <1>17. /\ e \in Entry /\ ~IsBatch(e) /\ e.op = "msg" /\ e.b = 0 /\ e.lseq = Proposed(log, Len(log))
    BY <1>3, <1>8, <1>9 DEF Entry, MsgEntry, IsBatch
  <1>18. /\ LogOK(k) /\ Past(log, k, Len(log)) /\ Len(k) = Len(log) + 1
         /\ Proposed(k, Len(k)) = Proposed(log, Len(log)) + (IF e.op = "msg" THEN 1 ELSE 0)
    BY <1>1, <1>4, <1>17, LogAppend
  <1>19. Proposed(k, Len(k)) = IF w.clseq = 0 THEN Proposed(k, aflr) ELSE w.clseq
    <2>1. Proposed(k, Len(k)) = Proposed(log, Len(log)) + 1
      BY <1>17, <1>18
    <2>2. QED
      BY <1>15, <2>1
  <1>20. Len(log) <= Len(k)
    BY <1>1, <1>18
  <1>21. LeaderOK(k, aflr, w, replay[r], leaderState)
    BY <1>7, <1>14, <1>18, <1>19, <1>20, LeaderFrame
  <1>22. DOMAIN m' = Replica /\ m'[r] = w /\ \A q \in Replica \ {r} : m'[q] = m[q]
    BY <1>1, <1>6, OneValue
  <1>23. /\ LogOK(log') /\ Past(log, log', Len(log)) /\ Len(log) <= Len(log')
         /\ LeaderOK(log', aflr, m'[elected], replay[elected], leaderState)
    BY <1>6, <1>7, <1>18, <1>20, <1>21, <1>22, Zenon
  <1>24. /\ Same(m[elected], m'[elected]) /\ m'[elected].clseq \in Nat
         /\ IdsOK(m'[elected].dd, m'[elected].store) /\ m'[elected].active = TRUE
    BY <1>2, <1>7, <1>14, <1>15, <1>16, <1>22, Zenon
  <1>25. batches' \in Nat /\ \A q \in Replica \ {elected} : m'[q] = m[q]
    BY <1>5, <1>7, <1>22 DEF GroupInv
  <1>26. UNCHANGED <<cfg, commit, elected, aflr, leaderState, snap, replay, halted, acks>>
    BY <1>5
  <1>27. ~m'[elected].active => m'[elected].clseq = 0
    BY <1>24, Zenon
  <1>28. DOMAIN m' = Replica
    BY <1>22
  <1>29. QED
    BY <1>23, <1>24, <1>25, <1>26, <1>27, <1>28, LogGrows, Zenon

\* The leader refuses a message; it may tell that the message is there.
LEMMA InvPublishRefused ==
    ASSUME GroupInv, NEW r \in Replica, NEW p \in cfg.pubs, PublishRefused(r, p)
    PROVE  GroupInv'
  <1>1. /\ LogOK(log) /\ Grouped(log) /\ log \in Seq(Entry) /\ IdsOK(m[r].dd, m[r].store)
        /\ DOMAIN m[r] = Fields /\ DOMAIN halted = Replica /\ Len(log) \in Nat
        /\ Len(m[r].store) \in Nat /\ StoreOK(log, commit, m[r].store)
        /\ commit \in 0 .. Len(log) /\ ReplicaOK(log, commit, m[r], replay[r], halted[r])
    BY OfReplica
  <1>2. PICK x, y, d : x = m[r] /\ y = WithClseq(x) /\ d = CheckMsg(y, NoDiff, p)
    OBVIOUS
  <1>3. /\ CanPropose(r)
        /\ UNCHANGED <<cfg, log, commit, elected, aflr, leaderState, snap, replay, halted, batches>>
    BY DEF PublishRefused, raftVars
  <1>4. ~d.ok /\ acks' = acks \cup DuplicateAck(p, d) /\ m' = [m EXCEPT ![r] = y]
    BY <1>2 DEF PublishRefused
  <1>5. /\ r = elected /\ leaderState = TRUE /\ Numbered(log, x, y) /\ x.active = TRUE
        /\ LeaderOK(log, aflr, x, replay[r], leaderState) /\ halted[r] = "no"
    BY <1>2, <1>3, Proposing
  <1>6. /\ Same(x, y) /\ y.dd = x.dd /\ y.clseq = Proposed(log, Len(log)) /\ y.clseq \in Nat
        /\ y.store = x.store
    BY <1>5 DEF Numbered, Same
  <1>7. ReplicaOK(log, commit, y, replay[r], "no")
    <2>1. ReplicaOK(log, commit, x, replay[r], "no")
      BY <1>1, <1>2, <1>5
    <2>2. y.active = TRUE
      BY <1>5, <1>6 DEF Same
    <2>3. QED
      BY <1>6, <2>1, <2>2, ReplicaSame
  <1>8. IdsOK(y.dd, y.store) /\ Len(m[r].store) <= Len(y.store)
    BY <1>1, <1>2, <1>6
  <1>9. LeaderOK(log, aflr, y, replay[r], leaderState)
    <2>1. aflr \in 0 .. Len(log) /\ Len(log) \in aflr .. Len(log) /\ Len(log) \in 0 .. Len(log)
      BY <1>1, <1>5 DEF LeaderOK
    <2>2. Proposed(log, aflr) <= Proposed(log, Len(log))
      BY <1>1, <2>1, SizeGrows
    <2>3. Proposed(log, aflr) \in Nat
      BY <1>1, <2>1, SizeNat
    <2>4. PICK u, v : u = Proposed(log, aflr) /\ v = Proposed(log, Len(log))
      OBVIOUS
    <2>5. v = IF y.clseq = 0 THEN u ELSE y.clseq
      BY <1>6, <2>2, <2>3, <2>4
    <2>6. Proposed(log, Len(log)) = IF y.clseq = 0 THEN Proposed(log, aflr) ELSE y.clseq
      BY <2>4, <2>5
    <2>7. Past(log, log, Len(log)) /\ Len(log) <= Len(log)
      BY <1>1, PastSelf
    <2>8. QED
      BY <1>5, <1>6, <2>6, <2>7, LeaderFrame
  <1>10. ASSUME NEW a \in acks', a \notin acks
         PROVE  AckOK(log, commit, a) /\ r = elected /\ a.seq <= Len(y.store)
    <2>1. a \in DuplicateAck(p, d)
      BY <1>4, <1>10
    <2>2. d.dup > 0 /\ a = [id |-> p.id, seq |-> d.dup, dup |-> TRUE]
      BY <2>1 DEF DuplicateAck
    <2>3. PICK st : st = x.store
      OBVIOUS
    <2>4. IdsOK(y.dd, st) /\ Len(st) \in Nat /\ StoreOK(log, commit, st)
      BY <1>1, <1>2, <1>6, <2>3
    <2>5. p \in Message
      BY OfConfig
    <2>6. d.dup \in 1 .. Len(st) /\ st[d.dup].m.id = p.id
      BY <1>2, <1>4, <2>2, <2>4, <2>5, DuplicateIs
    <2>7. a.seq = d.dup /\ a.id = p.id
      BY <2>2
    <2>8. a.seq \in 1 .. Len(st) /\ st[a.seq].m.id = a.id
      BY <2>6, <2>7
    <2>9. AckOK(log, commit, a)
      BY <1>1, <2>4, <2>8, AckStored
    <2>10. a.seq <= Len(y.store)
      BY <1>6, <2>3, <2>4, <2>8
    <2>11. QED
      BY <1>5, <2>9, <2>10
  <1>11. leaderState' = leaderState /\ halted' = halted
    BY <1>3, Zenon
  <1>12. DOMAIN halted' = Replica /\ halted'[r] = "no" /\ \A q \in Replica \ {r} : halted'[q] = halted[q]
    BY <1>1, <1>5, <1>11
  <1>13. r = elected => LeaderOK(log, aflr, y, replay[r], leaderState')
    BY <1>9, <1>11, Zenon
  <1>14. r # elected => leaderState' = leaderState
    BY <1>5, Zenon
  <1>15. UNCHANGED <<cfg, log, commit, elected, aflr, snap, replay, batches>>
    BY <1>3
  <1>16. \A a \in acks' : a \in acks \/ ( /\ AckOK(log, commit, a) /\ r = elected
                                          /\ a.seq <= Len(y.store) )
    BY <1>10
  <1>17. m' = [m EXCEPT ![r] = y]
    BY <1>4
  <1>18. QED
    BY <1>7, <1>8, <1>12, <1>13, <1>14, <1>15, <1>16, <1>17, OneStep, Zenon

\* The leader proposes a batch.
LEMMA InvPublishBatch ==
    ASSUME GroupInv, NEW r \in Replica, NEW b \in cfg.batches, PublishBatch(r, b)
    PROVE  GroupInv'
  <1>1. /\ LogOK(log) /\ Grouped(log) /\ log \in Seq(Entry) /\ IdsOK(m[r].dd, m[r].store)
        /\ DOMAIN m[r] = Fields /\ DOMAIN m = Replica /\ Len(log) \in Nat
    BY OfReplica
  <1>2. PICK x, y, w, u, z : /\ x = m[r] /\ y = WithClseq(x) /\ w = CheckBatch(y, b) /\ u = w.x
                             /\ z = CommitDiff(u, w.d)
    OBVIOUS
  <1>3. PICK k : k = log \o BatchEntries(y, b, batches + 1)
    OBVIOUS
  <1>4. /\ CanPropose(r) /\ batches' = batches + 1
        /\ UNCHANGED <<cfg, commit, elected, aflr, leaderState, snap, replay, halted, acks>>
    BY DEF PublishBatch
  <1>5. log' = k /\ m' = [m EXCEPT ![r] = z] /\ \A p \in ToSet(b) : p.elm = 0
    BY <1>2, <1>3 DEF PublishBatch
  <1>6. /\ r = elected /\ leaderState = TRUE /\ Numbered(log, x, y) /\ x.active = TRUE
        /\ LeaderOK(log, aflr, x, replay[r], leaderState)
    BY <1>2, <1>4, Proposing
  <1>7. /\ Same(x, y) /\ y.dd = x.dd /\ y.clseq = Proposed(log, Len(log)) /\ y.clseq \in Nat
        /\ DOMAIN y = Fields
    BY <1>6 DEF Numbered, Same
  <1>8. b \in Seq(Message) /\ Len(b) > 0 /\ Len(b) \in Nat
    BY OfConfig
  <1>9. Counted(y, b, w)
    BY <1>2, <1>7, <1>8, CheckAll
  <1>10. /\ Same(y, u) /\ u.dd = y.dd /\ u.clseq = y.clseq + Len(b) /\ DiffOK(w.d)
         /\ DOMAIN u = Fields
    BY <1>2, <1>9 DEF Counted, Same
  <1>11. Staged(u, z, x.store)
    <2>1. IdsOK(u.dd, x.store)
      BY <1>1, <1>2, <1>7, <1>10
    <2>2. QED
      BY <1>2, <1>10, <2>1, CommitDiffSame
  <1>12. Same(u, z) /\ z.clseq = u.clseq /\ IdsOK(z.dd, x.store)
    BY <1>11 DEF Staged
  <1>13. Same(x, z) /\ z.active = TRUE
    BY <1>6, <1>7, <1>10, <1>12 DEF Same
  <1>14. z.clseq \in Nat /\ z.clseq = Proposed(log, Len(log)) + Len(b) /\ z.clseq # 0
    BY <1>7, <1>8, <1>10, <1>12
  <1>15. IdsOK(z.dd, z.store)
    BY <1>12, <1>13 DEF Same
  <1>16. batches + 1 \in Nat \ {0} /\ batches' \in Nat
    BY <1>4 DEF GroupInv
  <1>17. /\ LogOK(k) /\ Past(log, k, Len(log)) /\ Len(k) = Len(log) + Len(b)
         /\ Proposed(k, Len(k)) = Proposed(log, Len(log)) + Len(b)
    BY <1>1, <1>3, <1>5, <1>7, <1>8, <1>16, LogBatch, ZenonT(40)
  <1>18. Proposed(k, Len(k)) = IF z.clseq = 0 THEN Proposed(k, aflr) ELSE z.clseq
    BY <1>14, <1>17
  <1>19. Len(log) <= Len(k)
    BY <1>1, <1>8, <1>17
  <1>20. LeaderOK(k, aflr, z, replay[r], leaderState)
    BY <1>6, <1>13, <1>17, <1>18, <1>19, LeaderFrame
  <1>21. DOMAIN m' = Replica /\ m'[r] = z /\ \A q \in Replica \ {r} : m'[q] = m[q]
    BY <1>1, <1>5, OneValue
  <1>22. /\ LogOK(log') /\ Past(log, log', Len(log)) /\ Len(log) <= Len(log')
         /\ LeaderOK(log', aflr, m'[elected], replay[elected], leaderState)
    BY <1>5, <1>6, <1>17, <1>19, <1>20, <1>21, Zenon
  <1>23. /\ Same(m[elected], m'[elected]) /\ m'[elected].clseq \in Nat
         /\ IdsOK(m'[elected].dd, m'[elected].store) /\ m'[elected].active = TRUE
    BY <1>2, <1>6, <1>13, <1>14, <1>15, <1>21, Zenon
  <1>24. DOMAIN m' = Replica /\ \A q \in Replica \ {elected} : m'[q] = m[q]
    BY <1>6, <1>21
  <1>25. UNCHANGED <<cfg, commit, elected, aflr, leaderState, snap, replay, halted, acks>>
    BY <1>4
  <1>26. ~m'[elected].active => m'[elected].clseq = 0
    BY <1>23, Zenon
  <1>27. QED
    BY <1>16, <1>22, <1>23, <1>24, <1>25, <1>26, LogGrows, Zenon

\* The leader appends an entry that is no message.
LEMMA Requesting ==
    ASSUME GroupInv, NEW r \in Replica, r = elected, NEW e \in Entry, ~IsMsg(e),
           log' = Append(log, e),
           UNCHANGED <<cfg, commit, elected, aflr, leaderState, m, snap, replay, halted, batches, acks>>
    PROVE  GroupInv'
  <1>1. /\ LogOK(log) /\ Grouped(log) /\ log \in Seq(Entry) /\ IdsOK(m[r].dd, m[r].store)
        /\ DOMAIN m[r] = Fields /\ DOMAIN m = Replica /\ Len(log) \in Nat
        /\ ReplicaOK(log, commit, m[r], replay[r], halted[r])
    BY OfReplica
  <1>2. LeaderOK(log, aflr, m[r], replay[r], leaderState)
    BY OfReplica, Zenon
  <1>3. PICK k : k = Append(log, e)
    OBVIOUS
  <1>4. ~IsBatch(e) /\ e.op # "msg"
    BY DEF IsMsg, IsBatch
  <1>5. /\ LogOK(k) /\ Past(log, k, Len(log)) /\ Len(k) = Len(log) + 1
        /\ Proposed(k, Len(k)) = Proposed(log, Len(log)) + (IF e.op = "msg" THEN 1 ELSE 0)
    BY <1>1, <1>3, <1>4, LogAppend
  <1>6. Len(log) <= Len(k) /\ aflr \in 0 .. Len(log) /\ Len(log) \in 0 .. Len(log)
    BY <1>1, <1>2, <1>5 DEF LeaderOK
  <1>7. Proposed(k, aflr) = Proposed(log, aflr) /\ Proposed(log, Len(log)) \in Nat
    BY <1>1, <1>5, <1>6, PastSame, SizeNat
  <1>8. Proposed(k, Len(k)) = Proposed(log, Len(log))
    BY <1>4, <1>5, <1>7
  <1>9. PICK x : x = m[r]
    OBVIOUS
  <1>10. Proposed(k, Len(k)) = IF x.clseq = 0 THEN Proposed(k, aflr) ELSE x.clseq
    BY <1>2, <1>7, <1>8, <1>9 DEF LeaderOK
  <1>11. Same(x, x) /\ LeaderOK(log, aflr, x, replay[r], leaderState)
    BY <1>1, <1>2, <1>9 DEF Same
  <1>12. LeaderOK(k, aflr, x, replay[r], leaderState)
    BY <1>5, <1>6, <1>10, <1>11, LeaderFrame
  <1>13. m' = m /\ batches' \in Nat
    BY DEF GroupInv
  <1>14. /\ LogOK(log') /\ Past(log, log', Len(log)) /\ Len(log) <= Len(log')
         /\ LeaderOK(log', aflr, m'[elected], replay[elected], leaderState)
    BY <1>3, <1>5, <1>6, <1>9, <1>12, <1>13, Zenon
  <1>15. /\ Same(m[elected], m'[elected]) /\ IdsOK(m'[elected].dd, m'[elected].store)
         /\ DOMAIN m' = Replica /\ \A q \in Replica \ {elected} : m'[q] = m[q]
    BY <1>1, <1>9, <1>11, <1>13, Zenon
  <1>16. m'[elected].clseq \in Nat /\ (~m'[elected].active => m'[elected].clseq = 0)
    BY <1>1, <1>13, Zenon DEF ReplicaOK
  <1>17. UNCHANGED <<cfg, commit, elected, aflr, leaderState, snap, replay, halted, acks>>
    OBVIOUS
  <1>18. QED
    BY <1>13, <1>14, <1>15, <1>16, <1>17, LogGrows, Zenon

\* A request to delete a message.
LEMMA InvMsgDeleteRequest ==
    ASSUME GroupInv, NEW r \in Replica, NEW q \in cfg.removals, MsgDeleteRequest(r, q)
    PROVE  GroupInv'
  <1>1. /\ r = elected /\ q.op = "delete" /\ log' = Append(log, q)
        /\ UNCHANGED <<cfg, commit, elected, aflr, leaderState, m, snap, replay, halted, batches, acks>>
    BY DEF MsgDeleteRequest, CanRequest, histVars
  <1>2. q \in Removal
    BY OfConfig
  <1>3. q \in [op : {"delete"}, seq : Nat \ {0}]
    BY <1>1, <1>2 DEF Removal
  <1>4. q \in Entry /\ ~IsMsg(q)
    BY <1>1, <1>3 DEF Entry, IsMsg
  <1>5. QED
    BY <1>1, <1>4, Requesting

\* A request to purge messages.
LEMMA InvStreamPurgeRequest ==
    ASSUME GroupInv, NEW r \in Replica, NEW q \in cfg.removals, StreamPurgeRequest(r, q)
    PROVE  GroupInv'
  <1>1. PICK e : e = [op |-> "purge", s |-> q.s, seq |-> q.seq, keep |-> q.keep,
                      lseq |-> Len(m[r].store)]
    OBVIOUS
  <1>2. /\ r = elected /\ q.op = "purge" /\ log' = Append(log, e)
        /\ UNCHANGED <<cfg, commit, elected, aflr, leaderState, m, snap, replay, halted, batches, acks>>
    BY <1>1 DEF StreamPurgeRequest, CanRequest, histVars
  <1>3. q \in Removal
    BY OfConfig
  <1>4. q \in [op : {"purge"}, s : Nat, seq : Nat, keep : Nat]
    BY <1>2, <1>3 DEF Removal
  <1>5. Len(m[r].store) \in Nat
    BY OfReplica
  <1>6. e \in Entry /\ ~IsMsg(e)
    BY <1>1, <1>4, <1>5 DEF Entry, IsMsg
  <1>7. QED
    BY <1>2, <1>6, Requesting

-----------------------------------------------------------------------------
(***************************************************************************)
(* The inductive invariant holds, and what follows from it.                *)
(***************************************************************************)
\* The group starts with an empty entry and empty streams.
LEMMA InvInit ==
    ASSUME Init
    PROVE  GroupInv
  <1>1. PICK e : e = [op |-> "empty"]
    OBVIOUS
  <1>2. /\ log = <<e>> /\ commit = 0 /\ aflr = 1 /\ leaderState = FALSE /\ batches = 0
        /\ acks = {} /\ cfg \in Configs /\ elected \in Replica
        /\ m = [r \in Replica |-> InitStream] /\ halted = [r \in Replica |-> "no"]
        /\ replay = [r \in Replica |-> 0]
        /\ snap = [r \in Replica |-> [idx |-> 0, lseq |-> 0, gone |-> {}, clfs |-> 0]]
    BY <1>1 DEF Init
  <1>3. e \in Entry /\ e.op = "empty"
    BY <1>1 DEF Entry
  <1>4. log \in Seq(Entry) /\ Len(log) = 1 /\ log[1] = e
    BY <1>2, <1>3
  <1>5. LogOK(log)
    <2>1. ~IsBatch(e) /\ ~IsMsg(e) /\ e.op # "msg"
      BY <1>3 DEF IsBatch, IsMsg
    <2>2. GroupedAt(log, 1)
      BY <1>4, <2>1 DEF GroupedAt
    <2>3. Grouped(log)
      <3>1. \A i \in 1 .. Len(log) : i = 1
        BY <1>4
      <3>2. QED
        BY <1>4, <2>2, <3>1 DEF Grouped
    <2>4. \A i \in 1 .. Len(log) : ~IsMsg(log[i])
      BY <1>4, <2>1
    <2>5. QED
      BY <1>3, <1>4, <2>3, <2>4 DEF LogOK
  <1>6. Size(log, 0) = 0 /\ Refused(log, 0) = 0 /\ Open(log, 0) = 0 /\ BatchAt(log, 0) = NoBatch
    BY SizeNone DEF Open, BatchAt
  <1>7. PICK x : x = InitStream
    OBVIOUS
  <1>8. /\ DOMAIN x = Fields /\ x.clfs = 0 /\ x.clseq = 0 /\ x.active = FALSE /\ x.applied = 0
        /\ x.store = <<>> /\ x.batch = NoBatch /\ x.dd = <<>>
    BY <1>7 DEF InitStream, Fields
  <1>9. x.store \in Seq(Item) /\ Len(x.store) = 0
    BY <1>8
  <1>10. ReplicaOK(log, 0, x, 0, "no")
    <2>1. StoreOK(log, 0, x.store)
      BY <1>6, <1>9 DEF StoreOK
    <2>2. RunOK(log, x, 0)
      BY <1>6, <1>8, <1>9 DEF RunOK
    <2>3. x.clfs \in Nat /\ x.clseq \in Nat /\ x.applied \in 0 .. 0 /\ 0 \in 0 .. 0
      BY <1>8
    <2>4. x.active \in BOOLEAN /\ (~x.active => x.clseq = 0)
      BY <1>8, Zenon
    <2>5. QED
      BY <1>8, <2>1, <2>2, <2>3, <2>4, Zenon DEF ReplicaOK
  <1>11. IdsOK(x.dd, x.store)
    BY <1>8 DEF IdsOK
  <1>12. \A r \in Replica : SnapOK(log, 0, x, snap[r])
    BY <1>2, <1>6, <1>9 DEF SnapOK
  <1>13. LeaderOK(log, 1, x, 0, FALSE)
    BY <1>4, <1>8 DEF LeaderOK
  <1>14. \A r \in Replica : m[r] = x /\ halted[r] = "no" /\ replay[r] = 0
    BY <1>2, <1>7
  <1>15. /\ DOMAIN m = Replica /\ DOMAIN halted = Replica /\ DOMAIN snap = Replica
         /\ DOMAIN replay = Replica
    BY <1>2
  <1>16. commit \in 0 .. Len(log) /\ batches \in Nat
    BY <1>2, <1>4
  <1>17. \A r \in Replica : ReplicaOK(log, commit, m[r], replay[r], halted[r])
    BY <1>2, <1>10, <1>14, Zenon
  <1>18. \A r \in Replica : SnapOK(log, commit, m[r], snap[r])
    BY <1>2, <1>12, <1>14, Zenon
  <1>19. \A r \in Replica : IdsOK(m[r].dd, m[r].store)
    BY <1>11, <1>14, Zenon
  <1>20. LeaderOK(log, aflr, m[elected], replay[elected], leaderState)
    BY <1>2, <1>13, <1>14, Zenon
  <1>21. QED
    BY <1>2, <1>5, <1>15, <1>16, <1>17, <1>18, <1>19, <1>20 DEF GroupInv

\* Every step keeps the invariant.
LEMMA InvNext ==
    ASSUME GroupInv, [Next]_vars
    PROVE  GroupInv'
  <1>1. CASE UNCHANGED vars
    <2>1. UNCHANGED <<cfg, log, commit, elected, aflr, leaderState, m, snap, replay, halted,
                      batches, acks>>
      BY <1>1 DEF vars, raftVars, histVars
    <2>2. QED
      BY <2>1 DEF GroupInv
  <1>2. CASE Commit
    BY <1>2, InvCommit
  <1>3. ASSUME NEW r \in Replica, NEW p \in cfg.pubs, Publish(r, p) \/ PublishRefused(r, p)
        PROVE  GroupInv'
    BY <1>3, InvPublish, InvPublishRefused
  <1>4. ASSUME NEW r \in Replica, NEW b \in cfg.batches, PublishBatch(r, b)
        PROVE  GroupInv'
    BY <1>4, InvPublishBatch
  <1>5. ASSUME NEW r \in Replica, NEW q \in cfg.removals,
               MsgDeleteRequest(r, q) \/ StreamPurgeRequest(r, q)
        PROVE  GroupInv'
    BY <1>5, InvMsgDeleteRequest, InvStreamPurgeRequest
  <1>6. ASSUME NEW r \in Replica,
               \/ ApplyEmpty(r) \/ ApplyMsg(r) \/ AfterMsg(r) \/ ApplyBatchMsg(r)
               \/ ApplyBatch(r) \/ ApplyRemoval(r)
        PROVE  GroupInv'
    BY <1>6, InvApplyEmpty, InvApplyMsg, InvAfterMsg, InvApplyBatchMsg, InvApplyBatch,
       InvApplyRemoval
  <1>7. ASSUME NEW r \in Replica, NEW k \in 0 .. cfg.len, LeaderChange(r, k)
        PROVE  GroupInv'
    BY <1>7, InvLeaderChange
  <1>8. ASSUME NEW r \in Replica, ProcessLeaderChange(r) \/ Snapshot(r) \/ Catchup(r)
        PROVE  GroupInv'
    BY <1>8, InvProcessLeaderChange, InvSnapshot, InvCatchup
  <1>9. ASSUME NEW r \in Replica, NEW kept \in snap[r].lseq .. Len(m[r].store),
               NEW gone \in {snap[r].gone, m[r].gone}, Restart(r, kept, gone)
        PROVE  GroupInv'
    BY <1>9, InvRestart
  <1>10. QED
    BY <1>1, <1>2, <1>3, <1>4, <1>5, <1>6, <1>7, <1>8, <1>9, Zenon DEF Next

\* The replicas of a stream are where the entries that they have applied lead:
\* processStreamMsgOp, the batches and their ends, processSnapshot and restarts.
THEOREM GroupInvariant == Spec => []GroupInv
  <1>1. Init => GroupInv
    BY InvInit
  <1>2. GroupInv /\ [Next]_vars => GroupInv'
    BY InvNext
  <1>3. QED
    BY <1>1, <1>2, PTL DEF Spec

\* Two stores of one log are equal as far as both go.
LEMMA StoresEqual ==
    ASSUME NEW l, Grouped(l), NEW c \in 0 .. Len(l), NEW st, StoreOK(l, c, st),
           NEW su, StoreOK(l, c, su), NEW q \in 1 .. Len(st), q <= Len(su)
    PROVE  st[q] = su[q]
  <1>1. /\ st \in Seq(Item) /\ su \in Seq(Item) /\ Len(st) \in Nat /\ Len(su) \in Nat
        /\ l \in Seq(Entry) /\ Len(st) <= Size(l, c)
    BY DEF StoreOK, Grouped
  <1>2. Size(l, c) \in Nat
    BY <1>1, SizeNat
  <1>3. q \in 1 .. Size(l, c)
    BY <1>1, <1>2
  <1>4. PICK i \in 1 .. c : \E j \in 1 .. Width(l[i]) : q = Size(l, i - 1) + j
    BY <1>3, Covered
  <1>5. PICK j \in 1 .. Width(l[i]) : q = Size(l, i - 1) + j
    BY <1>4
  <1>6. Size(l, i - 1) + j <= Len(st) /\ Size(l, i - 1) + j <= Len(su)
    BY <1>1, <1>5
  <1>7. st[Size(l, i - 1) + j] = ItemOf(l[i - Width(l[i]) + j])
    BY <1>6 DEF StoreOK
  <1>8. su[Size(l, i - 1) + j] = ItemOf(l[i - Width(l[i]) + j])
    BY <1>6 DEF StoreOK
  <1>9. QED
    BY <1>5, <1>7, <1>8

\* So the shorter one is a prefix of the other.
LEMMA StoresPrefix ==
    ASSUME NEW l, Grouped(l), NEW c \in 0 .. Len(l), NEW st, StoreOK(l, c, st),
           NEW su, StoreOK(l, c, su)
    PROVE  /\ Len(st) <= Len(su) => IsPrefix(st, su)
           /\ Len(st) = Len(su) => st = su
           /\ Len(st) \in Nat /\ Len(su) \in Nat
  <1>1. st \in Seq(Item) /\ su \in Seq(Item) /\ Len(st) \in Nat /\ Len(su) \in Nat
    BY DEF StoreOK
  <1>2. \A q \in 1 .. Len(st) : q <= Len(su) => st[q] = su[q]
    BY StoresEqual
  <1>3. ASSUME Len(st) <= Len(su) PROVE IsPrefix(st, su)
    <2>1. PICK a, b : a = SubSeq(st, 1, Len(st)) /\ b = SubSeq(su, 1, Len(st))
      OBVIOUS
    <2>2. a \in Seq(Item) /\ b \in Seq(Item) /\ Len(a) = Len(st) /\ Len(b) = Len(st)
      BY <1>1, <1>3, <2>1
    <2>3. \A q \in 1 .. Len(st) : a[q] = st[q] /\ b[q] = su[q]
      BY <1>1, <1>3, <2>1
    <2>4. \A q \in 1 .. Len(st) : a[q] = b[q]
      BY <1>1, <1>2, <1>3, <2>3
    <2>5. a = b
      BY <1>1, <2>2, <2>4
    <2>6. QED
      BY <1>3, <2>1, <2>5 DEF IsPrefix
  <1>4. ASSUME Len(st) = Len(su) PROVE st = su
    <2>1. \A q \in 1 .. Len(st) : st[q] = su[q]
      BY <1>1, <1>2, <1>4
    <2>2. QED
      BY <1>1, <1>4, <2>1
  <1>5. QED
    BY <1>1, <1>3, <1>4

\* The replicas of a stream agree: no entry has another sequence than the one
\* that the replica is at (errLastSeqMismatch in processJetStreamMsg), and
\* replicas that have applied the same entries hold the same messages.
THEOREM ReplicasAgree == Spec => []GroupAgrees
  <1>1. ASSUME GroupInv PROVE SequencesMatch
    <2>1. \A r \in Replica : halted[r] \in {"no", "werr"}
      BY <1>1 DEF GroupInv, ReplicaOK
    <2>2. QED
      BY <2>1 DEF SequencesMatch
  <1>2. ASSUME GroupInv PROVE StoresAgree
    <2>1. SUFFICES ASSUME NEW r \in Replica, NEW q \in Replica
          PROVE  /\ IsPrefix(m[r].store, m[q].store) \/ IsPrefix(m[q].store, m[r].store)
                 /\ (m[r].applied = m[q].applied /\ halted[r] = "no" /\ halted[q] = "no") =>
                        /\ m[r].clfs = m[q].clfs /\ m[r].batch = m[q].batch
                        /\ (m[r].applied >= replay[r] /\ m[q].applied >= replay[q]) =>
                               m[r].store = m[q].store
      BY DEF StoresAgree
    <2>2. /\ Grouped(log) /\ commit \in 0 .. Len(log)
          /\ ReplicaOK(log, commit, m[r], replay[r], halted[r]) /\ StoreOK(log, commit, m[r].store)
          /\ ReplicaOK(log, commit, m[q], replay[q], halted[q]) /\ StoreOK(log, commit, m[q].store)
      BY <1>2, OfReplica
    <2>3. PICK st, su : st = m[r].store /\ su = m[q].store
      OBVIOUS
    <2>4. StoreOK(log, commit, st) /\ StoreOK(log, commit, su)
      BY <2>2, <2>3
    <2>5. /\ Len(st) <= Len(su) => IsPrefix(st, su)
          /\ Len(st) = Len(su) => st = su
          /\ Len(st) \in Nat /\ Len(su) \in Nat
      BY <2>2, <2>4, StoresPrefix
    <2>6. Len(su) <= Len(st) => IsPrefix(su, st)
      BY <2>2, <2>4, StoresPrefix
    <2>7. IsPrefix(m[r].store, m[q].store) \/ IsPrefix(m[q].store, m[r].store)
      <3>1. Len(st) <= Len(su) \/ Len(su) <= Len(st)
        BY <2>5
      <3>2. QED
        BY <2>3, <2>5, <2>6, <3>1, Zenon
    <2>8. ASSUME m[r].applied = m[q].applied, halted[r] = "no", halted[q] = "no"
          PROVE  m[r].clfs = m[q].clfs /\ m[r].batch = m[q].batch
      <3>1. RunOK(log, m[r], replay[r]) /\ RunOK(log, m[q], replay[q])
        BY <2>2, <2>8 DEF ReplicaOK
      <3>2. QED
        BY <2>8, <3>1 DEF RunOK
    <2>9. ASSUME m[r].applied = m[q].applied, halted[r] = "no", halted[q] = "no",
                 m[r].applied >= replay[r], m[q].applied >= replay[q]
          PROVE  m[r].store = m[q].store
      <3>1. /\ ReplicaOK(log, commit, m[r], replay[r], "no")
            /\ ReplicaOK(log, commit, m[q], replay[q], "no")
        BY <2>2, <2>9
      <3>2. Len(st) = Size(log, m[r].applied)
        BY <2>2, <2>3, <2>9, <3>1, Caughtup
      <3>3. Len(su) = Size(log, m[q].applied)
        BY <2>2, <2>3, <2>9, <3>1, Caughtup
      <3>4. QED
        BY <2>3, <2>5, <2>9, <3>2, <3>3
    <2>10. QED
      BY <2>7, <2>8, <2>9, Zenon
  <1>3. GroupInv => GroupAgrees
    BY <1>1, <1>2 DEF GroupAgrees
  <1>4. QED
    BY <1>3, GroupInvariant, PTL

\* The messages of a batch in a store that ends with an entry are next to each
\* other, and all there.
LEMMA BatchWhole ==
    ASSUME NEW l, Grouped(l), NEW c \in 0 .. Len(l), NEW st, StoreOK(l, c, st),
           NEW n \in 0 .. c, Len(st) = Size(l, n), NEW q \in 1 .. Len(st), st[q].b # 0
    PROVE  Beside(st, q)
  <1>1. /\ st \in Seq(Item) /\ Len(st) \in Nat /\ l \in Seq(Entry) /\ Len(l) \in Nat
        /\ n \in 0 .. Len(l) /\ q \in 1 .. Size(l, n)
    BY DEF StoreOK, Grouped
  <1>2. PICK i \in 1 .. n : \E j \in 1 .. Width(l[i]) : q = Size(l, i - 1) + j
    BY <1>1, Covered
  <1>3. PICK j \in 1 .. Width(l[i]) : q = Size(l, i - 1) + j
    BY <1>2
  <1>4. /\ i \in 1 .. Len(l) /\ i \in 1 .. c /\ i - 1 \in 0 .. Len(l) /\ i \in 0 .. Len(l)
        /\ n \in i .. Len(l)
    BY <1>1
  <1>5. /\ Size(l, i) = Size(l, i - 1) + Width(l[i]) /\ Width(l[i]) \in Nat
        /\ Size(l, i - 1) \in Nat /\ Size(l, i) <= Size(l, n) /\ l[i] \in Entry
    BY <1>1, <1>4, SizeNext, SizeNat, SizeGrows, Weights
  <1>6. \A k \in 1 .. Width(l[i]) : Size(l, i - 1) + k \in 1 .. Len(st)
    BY <1>1, <1>5, SMTT(40)
  <1>7. \A k \in 1 .. Width(l[i]) : st[Size(l, i - 1) + k] = ItemOf(l[i - Width(l[i]) + k])
    BY <1>4, <1>6 DEF StoreOK
  <1>8. l[i].op = "batchCommit"
    <2>1. l[i].op \in {"msg", "batchCommit"}
      BY <1>3 DEF Width
    <2>2. ASSUME l[i].op = "msg" PROVE FALSE
      <3>1. Width(l[i]) = 1 /\ j = 1
        BY <1>3, <2>2 DEF Width
      <3>2. st[q] = ItemOf(l[i])
        BY <1>3, <1>4, <1>7, <3>1
      <3>3. st[q].b = l[i].b
        BY <3>2 DEF ItemOf
      <3>4. l[i].b = 0
        BY <1>4, <2>2 DEF Grouped, GroupedAt
      <3>5. QED
        BY <3>3, <3>4
    <2>3. QED
      BY <2>1, <2>2
  <1>9. PICK w : w = l[i].bs
    OBVIOUS
  <1>10. w = Width(l[i]) /\ IsBatch(l[i])
    BY <1>8, <1>9 DEF Width, IsBatch
  <1>11. \A k \in 1 .. w : l[i - w + k].bs = k /\ l[i - w + k].b = l[i].b
    <2>1. TAKE k \in 1 .. w
    <2>2. k \in 1 .. l[i].bs
      BY <1>9
    <2>3. l[i - l[i].bs + k].bs = k /\ l[i - l[i].bs + k].b = l[i].b
      BY <1>4, <1>10, <2>2, BlockAt
    <2>4. QED
      BY <1>9, <2>3
  <1>12. \A k \in 1 .. w : /\ st[Size(l, i - 1) + k].bs = k /\ st[Size(l, i - 1) + k].b = l[i].b
                           /\ st[Size(l, i - 1) + k].op = l[i - w + k].op
    <2>1. TAKE k \in 1 .. w
    <2>2. st[Size(l, i - 1) + k] = ItemOf(l[i - w + k])
      BY <1>7, <1>10
    <2>3. /\ ItemOf(l[i - w + k]).bs = l[i - w + k].bs /\ ItemOf(l[i - w + k]).b = l[i - w + k].b
          /\ ItemOf(l[i - w + k]).op = l[i - w + k].op
      BY DEF ItemOf
    <2>4. QED
      BY <1>11, <2>2, <2>3
  <1>13. PICK s : s = Size(l, i - 1)
    OBVIOUS
  <1>14. /\ s \in Nat /\ w \in Nat /\ j \in 1 .. w /\ q = s + j /\ s + w <= Len(st)
         /\ \A k \in 1 .. w : st[s + k].bs = k /\ st[s + k].b = l[i].b
    BY <1>1, <1>3, <1>5, <1>10, <1>12, <1>13
  <1>15. ASSUME st[q].bs > 1
         PROVE  q > 1 /\ st[q - 1].b = st[q].b /\ st[q - 1].bs = st[q].bs - 1
    <2>1. st[s + j].bs = j /\ st[s + j].b = l[i].b
      BY <1>14
    <2>2. j > 1 /\ j - 1 \in 1 .. w
      BY <1>14, <1>15, <2>1
    <2>3. st[s + (j - 1)].bs = j - 1 /\ st[s + (j - 1)].b = l[i].b
      BY <1>14, <2>2
    <2>4. q - 1 = s + (j - 1) /\ q > 1
      BY <1>14, <2>2
    <2>5. QED
      BY <1>14, <2>1, <2>3, <2>4
  <1>16. ASSUME st[q].op = "batchMsg"
         PROVE  q < Len(st) /\ st[q + 1].b = st[q].b
    <2>1. j # w
      <3>1. ASSUME j = w PROVE FALSE
        <4>1. i - w + w = i
          BY <1>4, <1>14
        <4>2. st[q].op = l[i].op
          BY <1>3, <1>10, <1>12, <3>1, <4>1
        <4>3. QED
          BY <1>8, <1>16, <4>2
      <3>2. QED
        BY <3>1
    <2>2. j + 1 \in 1 .. w /\ q + 1 = s + (j + 1) /\ q < Len(st)
      BY <1>1, <1>14, <2>1
    <2>3. st[s + (j + 1)].b = l[i].b /\ st[s + j].b = l[i].b
      BY <1>14, <2>2
    <2>4. QED
      BY <1>14, <2>2, <2>3
  <1>17. QED
    BY <1>15, <1>16 DEF Beside

\* A reader of a replica that has recovered sees all messages of a batch next to
\* each other or none (processJetStreamAtomicBatchMsg and the batchApply of the
\* replicas).
THEOREM BatchesWhole == Spec => []BatchAtomic
  <1>1. ASSUME GroupInv, NEW r \in Replica, Recovered(r), NEW i \in DOMAIN m[r].store,
               m[r].store[i].b # 0
        PROVE  LET store == m[r].store
               IN  /\ store[i].bs > 1 => i > 1 /\ store[i - 1].b = store[i].b
                                               /\ store[i - 1].bs = store[i].bs - 1
                   /\ store[i].op = "batchMsg" => i < Len(store) /\ store[i + 1].b = store[i].b
    <2>1. /\ Grouped(log) /\ commit \in 0 .. Len(log) /\ m[r].store \in Seq(Item)
          /\ ReplicaOK(log, commit, m[r], replay[r], halted[r])
          /\ StoreOK(log, commit, m[r].store) /\ m[r].applied \in 0 .. commit
      BY <1>1, OfReplica
    <2>2. PICK n \in 0 .. commit : Len(m[r].store) = Size(log, n)
      <3>1. CASE halted[r] = "no"
        <4>1. m[r].applied >= replay[r] /\ ReplicaOK(log, commit, m[r], replay[r], "no")
          BY <1>1, <2>1, <3>1 DEF Recovered
        <4>2. Len(m[r].store) = Size(log, m[r].applied)
          BY <2>1, <4>1, Caughtup
        <4>3. QED
          BY <2>1, <4>2
      <3>2. CASE halted[r] = "werr"
        BY <2>1, <3>2 DEF ReplicaOK
      <3>3. halted[r] \in {"no", "werr"}
        BY <2>1 DEF ReplicaOK
      <3>4. QED
        BY <3>1, <3>2, <3>3
    <2>3. PICK st : st = m[r].store
      OBVIOUS
    <2>4. StoreOK(log, commit, st) /\ Len(st) = Size(log, n) /\ i \in 1 .. Len(st) /\ st[i].b # 0
      BY <1>1, <2>1, <2>2, <2>3
    <2>5. Beside(st, i)
      BY <2>1, <2>2, <2>4, BatchWhole
    <2>6. QED
      BY <2>3, <2>5, Zenon DEF Beside
  <1>2. GroupInv => BatchAtomic
    BY <1>1 DEF BatchAtomic
  <1>3. QED
    BY <1>2, GroupInvariant, PTL

\* A publisher that was told a sequence finds its message there: the answers of
\* processJetStreamMsg when a message is stored, and of the leader to a duplicate.
THEOREM AcksStored == Spec => []AckedStored
  <1>1. ASSUME GroupInv, NEW a \in acks, NEW r \in Replica
        PROVE  /\ Len(m[r].store) >= a.seq => m[r].store[a.seq].m.id = a.id
               /\ (r = elected /\ m[r].active /\ leaderState) => Len(m[r].store) >= a.seq
    <2>1. /\ Grouped(log) /\ commit \in 0 .. Len(log) /\ m[r].store \in Seq(Item)
          /\ StoreOK(log, commit, m[r].store) /\ Len(m[r].store) \in Nat /\ log \in Seq(Entry)
          /\ r = elected => LeaderOK(log, aflr, m[r], replay[r], leaderState)
      BY <1>1, OfReplica
    <2>2. AckOK(log, commit, a) /\ AckHeld(log, aflr, m[elected].store, a)
      BY <1>1 DEF GroupInv
    <2>3. a.seq \in 1 .. Size(log, commit) /\ Size(log, commit) \in Nat
      BY <2>1, <2>2, SizeNat DEF AckOK
    <2>4. ASSUME Len(m[r].store) >= a.seq PROVE m[r].store[a.seq].m.id = a.id
      <3>1. PICK i \in 1 .. commit : \E j \in 1 .. Width(log[i]) : a.seq = Size(log, i - 1) + j
        BY <2>1, <2>3, Covered
      <3>2. PICK j \in 1 .. Width(log[i]) : a.seq = Size(log, i - 1) + j
        BY <3>1
      <3>3. log[i - Width(log[i]) + j].m.id = a.id
        BY <2>2, <3>2 DEF AckOK
      <3>4. Size(log, i - 1) + j <= Len(m[r].store)
        BY <2>3, <2>4, <3>2
      <3>5. m[r].store[Size(log, i - 1) + j] = ItemOf(log[i - Width(log[i]) + j])
        BY <2>1, <3>4 DEF StoreOK
      <3>6. QED
        BY <3>2, <3>3, <3>5 DEF ItemOf
    <2>5. ASSUME r = elected, leaderState PROVE Len(m[r].store) >= a.seq
      <3>1. /\ Len(m[r].store) >= Size(log, aflr) /\ aflr \in 1 .. Len(log)
            /\ a.seq <= Size(log, aflr) \/ a.seq <= Len(m[r].store)
        BY <2>1, <2>2, <2>5 DEF LeaderOK, AckHeld
      <3>2. aflr \in 0 .. Len(log)
        BY <2>1, <3>1
      <3>3. Size(log, aflr) \in Nat
        BY <2>1, <3>2, SizeNat
      <3>4. QED
        BY <2>1, <2>3, <3>1, <3>3
    <2>6. QED
      BY <2>4, <2>5, Zenon
  <1>2. GroupInv => AckedStored
    BY <1>1 DEF AckedStored
  <1>3. QED
    BY <1>2, GroupInvariant, PTL

-----------------------------------------------------------------------------
(***************************************************************************)
(* Messages that expect the last sequence.  The leader compares with what  *)
(* it has proposed less what it has refused; that is the place the message *)
(* is stored at as long as nothing is refused in between, and nothing is:  *)
(* a batch is cut short only by the first entry of a leader, which it has  *)
(* applied before it proposes.                                             *)
(***************************************************************************)
\* A log that agrees with one whose messages are checked, and its new ones are.
LEMMA CheckedPast ==
    ASSUME NEW l, NEW k, NEW n, Past(l, k, n), CheckedSeq(l),
           \A i \in n + 1 .. Len(k) : ExpectsAt(k, i)
    PROVE  CheckedSeq(k)
  <1>1. /\ l \in Seq(Entry) /\ k \in Seq(Entry) /\ n \in Nat /\ n <= Len(l) /\ n <= Len(k)
        /\ \A i \in 1 .. n : l[i] = k[i]
    BY DEF Past
  <1>2. ASSUME NEW i \in 1 .. Len(k), i <= n PROVE ExpectsAt(k, i)
    <2>1. i \in 1 .. n /\ i \in 0 .. n /\ i \in 1 .. Len(l) /\ l[i] = k[i]
      BY <1>1, <1>2
    <2>2. Refused(l, i) = Refused(k, i)
      BY <2>1, PastSame
    <2>3. ExpectsAt(l, i)
      BY <2>1 DEF CheckedSeq
    <2>4. QED
      BY <2>1, <2>2, <2>3 DEF ExpectsAt
  <1>3. ASSUME NEW i \in 1 .. Len(k), ~(i <= n) PROVE ExpectsAt(k, i)
    <2>1. i \in n + 1 .. Len(k)
      BY <1>1, <1>3
    <2>2. QED
      BY <2>1
  <1>4. QED
    BY <1>2, <1>3 DEF CheckedSeq

\* A log that goes on without refusing anything.
LEMMA NoneCutPast ==
    ASSUME NEW l, NEW k, Past(l, k, Len(l)), NEW a \in 1 .. Len(l), NoneCut(l, a),
           \A i \in Len(l) + 1 .. Len(k) : Refused(k, i) = Refused(l, Len(l))
    PROVE  NoneCut(k, a)
  <1>1. Len(l) \in Nat /\ Len(k) \in Nat /\ Len(l) <= Len(k)
    BY DEF Past
  <1>2. Refused(k, a) = Refused(l, a)
    BY <1>1, PastSame
  <1>3. Refused(l, Len(l)) = Refused(l, a)
    BY <1>1 DEF NoneCut
  <1>4. ASSUME NEW i \in a .. Len(k) PROVE Refused(k, i) = Refused(k, a)
    <2>1. CASE i <= Len(l)
      <3>1. i \in 0 .. Len(l) /\ i \in a .. Len(l)
        BY <1>1, <2>1
      <3>2. Refused(k, i) = Refused(l, i)
        BY <3>1, PastSame
      <3>3. Refused(l, i) = Refused(l, a)
        BY <3>1 DEF NoneCut
      <3>4. QED
        BY <1>2, <3>2, <3>3
    <2>2. CASE ~(i <= Len(l))
      <3>1. i \in Len(l) + 1 .. Len(k)
        BY <1>1, <2>2
      <3>2. QED
        BY <1>2, <1>3, <3>1
    <2>3. QED
      BY <2>1, <2>2
  <1>5. QED
    BY <1>4 DEF NoneCut

\* An entry that is no part of a batch refuses nothing after a complete one.
LEMMA AppendRefused ==
    ASSUME NEW l, LogOK(l), NEW k, LogOK(k), Past(l, k, Len(l)), Len(k) = Len(l) + 1
    PROVE  Refused(k, Len(k)) = Refused(l, Len(l))
  <1>1. /\ l \in Seq(Entry) /\ k \in Seq(Entry) /\ Len(l) \in Nat /\ Len(k) \in Nat /\ Len(l) > 0
        /\ l[Len(l)].op # "batchMsg"
    BY DEF LogOK, Grouped
  <1>2. Len(k) \in 1 .. Len(k) /\ Len(k) - 1 = Len(l) /\ Len(l) \in 0 .. Len(l)
    BY <1>1
  <1>3. Open(l, Len(l)) = 0
    BY <1>1 DEF Open
  <1>4. Open(k, Len(l)) = 0 /\ Refused(k, Len(l)) = Refused(l, Len(l))
    BY <1>2, <1>3, PastSame
  <1>5. Refused(l, Len(l)) \in Nat
    BY <1>1, <1>2, SizeNat
  <1>6. PICK n, o, z : n = Refused(k, Len(k) - 1) /\ o = Open(k, Len(k) - 1) /\ z = Refused(k, Len(k))
    OBVIOUS
  <1>7. z = n + (IF IsBatch(k[Len(k)]) THEN 0 ELSE o)
    BY <1>1, <1>2, <1>6, SizeNext
  <1>8. n \in Nat /\ o = 0 /\ n = Refused(l, Len(l))
    BY <1>2, <1>4, <1>5, <1>6
  <1>9. QED
    BY <1>6, <1>7, <1>8

\* A log goes on with a batch.
LEMMA BatchLonger ==
    ASSUME NEW l, LogOK(l), NEW b \in Seq(Message), Len(b) > 0, \A p \in ToSet(b) : p.elm = 0,
           NEW id \in Nat \ {0}, NEW x, x.clseq = Proposed(l, Len(l)),
           NEW k, k = l \o BatchEntries(x, b, id)
    PROVE  Longer(l, k, b)
  BY LogBatch, Zenon DEF Longer

\* The entries of a batch.
LEMMA BatchEntryIs ==
    ASSUME NEW l \in Seq(Entry), NEW x, NEW b \in Seq(Message), NEW id, NEW k,
           k = l \o BatchEntries(x, b, id), k \in Seq(Entry), NEW j \in 1 .. Len(b)
    PROVE  EntryOf(k[Len(l) + j], x, b, id, j)
  <1>1. PICK g : g = BatchEntries(x, b, id)
    OBVIOUS
  <1>2. PICK n : n = Len(b)
    OBVIOUS
  <1>3. n \in Nat /\ DOMAIN b = 1 .. n /\ j \in 1 .. n
    BY <1>2
  <1>4. DOMAIN g = 1 .. n /\ g[j] = [op |-> IF j = Len(b) THEN "batchCommit" ELSE "batchMsg",
                                    m |-> b[j], lseq |-> x.clseq + j - 1, b |-> id, bs |-> j]
    BY <1>1, <1>3 DEF BatchEntries
  <1>5. Len(g) = n
    BY <1>3, <1>4
  <1>6. k = l \o g
    BY <1>1
  <1>7. k[Len(l) + j] = g[j]
    BY <1>3, <1>5, <1>6
  <1>8. QED
    BY <1>4, <1>7 DEF EntryOf

\* A batch refuses nothing.
LEMMA BatchRefused ==
    ASSUME NEW l, LogOK(l), NEW x, NEW b \in Seq(Message), Len(b) > 0, NEW id, NEW k,
           k = l \o BatchEntries(x, b, id), LogOK(k), Past(l, k, Len(l)),
           Len(k) = Len(l) + Len(b), NEW j \in 1 .. Len(b)
    PROVE  Refused(k, Len(l) + j) = Refused(l, Len(l))
  <1>1. /\ l \in Seq(Entry) /\ k \in Seq(Entry) /\ Len(l) \in Nat /\ Len(b) \in Nat /\ Grouped(k)
    BY DEF LogOK, Grouped
  <1>2. PICK i, n : i = Len(k) /\ n = Len(b)
    OBVIOUS
  <1>3. n \in 1 .. Len(b) /\ i = Len(l) + n /\ i \in 1 .. Len(k) /\ n \in Nat
    BY <1>1, <1>2
  <1>4. EntryOf(k[Len(l) + n], x, b, id, n)
    BY <1>1, <1>3, BatchEntryIs
  <1>5. k[i].bs = n /\ k[i].op = "batchCommit"
    BY <1>2, <1>3, <1>4 DEF EntryOf
  <1>6. IsBatch(k[i])
    BY <1>5 DEF IsBatch
  <1>7. j \in 1 .. k[i].bs /\ i - k[i].bs = Len(l) /\ i - k[i].bs + j = Len(l) + j
    BY <1>1, <1>2, <1>3, <1>5
  <1>8. Refused(k, i - k[i].bs + j) = Refused(k, i - k[i].bs)
    BY <1>1, <1>3, <1>6, <1>7, BlockFlat
  <1>9. Refused(k, Len(l)) = Refused(l, Len(l))
    BY <1>1, PastSame
  <1>10. QED
    BY <1>7, <1>8, <1>9

\* The check of one message.
LEMMA CheckTakes ==
    ASSUME NEW x, NEW d, DiffOK(d), NEW p \in Message, NEW e, e = CheckMsg(x, d, p), e.ok
    PROVE  d.ok /\ ExpectsNext(x, p)
  <1>1. CASE /\ d.ok /\ DuplicateOk(x, d, p) /\ ExpectedLastSeqOk(x, d, p)
             /\ ExpectedPerSubjectOk(x, d, p) /\ LimitOk(x, d, p)
    BY <1>1 DEF ExpectedLastSeqOk, ExpectsNext
  <1>2. CASE ~(/\ d.ok /\ DuplicateOk(x, d, p) /\ ExpectedLastSeqOk(x, d, p)
               /\ ExpectedPerSubjectOk(x, d, p) /\ LimitOk(x, d, p))
    <2>1. PICK f : e = [d EXCEPT !.ok = FALSE, !.dup = f]
      BY <1>2 DEF CheckMsg
    <2>2. e.ok = FALSE
      BY <2>1 DEF DiffOK
    <2>3. QED
      BY <2>2
  <1>3. QED
    BY <1>1, <1>2

\* They are made one after another.
LEMMA CheckSteps ==
    ASSUME NEW x, DOMAIN x = Fields, x.clseq \in Nat, NEW b \in Seq(Message),
           NEW w, w = CheckBatch(x, b)
    PROVE  \E g, f : Steps(x, b, w, g, f)
  <1>1. PICK n : n = Len(b)
    OBVIOUS
  <1>2. n \in Nat /\ DOMAIN b = 1 .. n
    BY <1>1
  <1>3. PICK o : o = [x |-> x, d |-> NoDiff]
    OBVIOUS
  <1>4. w = Checks!Fold(0, b, o, 1 .. n)
    BY <1>2, <1>3, CheckFold
  <1> DEFINE F(j) == Checks!Fold(0, b, o, 1 .. j)
  <1>5. F(0) = o
    <2>1. 1 .. 0 = {}
      BY <1>2
    <2>2. Checks!Fold(0, b, o, {}) = o
      BY Checks!FoldNothing
    <2>3. QED
      BY <2>1, <2>2
  <1>6. ASSUME NEW j \in 1 .. n PROVE F(j) = CheckItem(0, b, F(j - 1), j)
    <2>1. j \in Nat \ {0}
      BY <1>6
    <2>2. PICK S : S = 1 .. j - 1
      OBVIOUS
    <2>3. 1 .. j = S \cup {j} /\ S \subseteq 1 .. j - 1
      BY <2>1, <2>2
    <2>4. Checks!Fold(0, b, o, S \cup {j}) = CheckItem(0, b, Checks!Fold(0, b, o, S), j)
      BY <2>1, <2>3, Checks!FoldOne
    <2>5. QED
      BY <2>2, <2>3, <2>4, Zenon
  <1> HIDE DEF F
  <1>7. PICK h : h = [j \in 0 .. n |-> F(j)]
    OBVIOUS
  <1>8. h[0] = o /\ h[n] = F(n) /\ \A j \in 1 .. n : h[j] = CheckItem(0, b, h[j - 1], j)
    <2>1. h[0] = o /\ h[n] = F(n)
      BY <1>2, <1>5, <1>7
    <2>2. ASSUME NEW j \in 1 .. n PROVE h[j] = CheckItem(0, b, h[j - 1], j)
      <3>1. j \in 0 .. n /\ j - 1 \in 0 .. n
        BY <1>2
      <3>2. h[j] = F(j) /\ h[j - 1] = F(j - 1)
        BY <1>7, <3>1
      <3>3. QED
        BY <1>6, <3>2
    <2>3. QED
      BY <2>1, <2>2
  <1>9. h[n] = w
    BY <1>4, <1>8 DEF F
  <1> DEFINE Good(v, j) == Alike(x, v.x) /\ v.x.clseq = x.clseq + j /\ DiffOK(v.d)
             G == {j \in 0 .. n : Good(h[j], j)}
  <1>10. 0 \in G
    <2>1. Good(o, 0)
      BY <1>3, NoDiffOK DEF Alike
    <2>2. QED
      BY <1>2, <1>8, <2>1
  <1>11. ASSUME NEW j \in 1 .. n
         PROVE  /\ h[j].x = [h[j - 1].x EXCEPT !.clseq = @ + 1]
                /\ h[j].d = CheckMsg(h[j - 1].x, h[j - 1].d, b[j])
    <2>1. PICK v : v = h[j - 1]
      OBVIOUS
    <2>2. h[j] = CheckItem(0, b, v, j)
      BY <1>8, <2>1
    <2>3. h[j] = [x |-> [v.x EXCEPT !.clseq = @ + 1], d |-> CheckMsg(v.x, v.d, b[j])]
      BY <2>2 DEF CheckItem
    <2>4. QED
      BY <2>1, <2>3
  <1>12. ASSUME NEW j \in 1 .. n, j - 1 \in G PROVE j \in G
    <2>1. PICK v, u : v = h[j - 1] /\ u = h[j]
      OBVIOUS
    <2>2. Good(v, j - 1) /\ j \in 0 .. n /\ j \in Nat
      BY <1>12, <2>1
    <2>3. u.x = [v.x EXCEPT !.clseq = @ + 1] /\ u.d = CheckMsg(v.x, v.d, b[j])
      BY <1>11, <2>1
    <2>4. b[j] \in Message
      BY <1>2
    <2>5. DiffOK(u.d)
      BY <2>2, <2>3, <2>4, CheckOK
    <2>6. Alike(x, u.x) /\ u.x.clseq = v.x.clseq + 1
      BY <2>2, <2>3 DEF Alike, Fields
    <2>7. u.x.clseq = x.clseq + j
      BY <2>2, <2>6
    <2>8. Good(u, j)
      BY <2>5, <2>6, <2>7
    <2>9. QED
      BY <2>1, <2>2, <2>8
  <1>13. ASSUME NEW j \in 0 .. n PROVE Good(h[j], j)
    <2>1. \A i \in 1 .. j : i - 1 \in G => i \in G
      BY <1>2, <1>12
    <2>2. j \in G
      <3> HIDE DEF G
      <3>1. j \in Nat
        BY <1>2
      <3>2. QED
        BY <1>10, <2>1, <3>1, Sums!UpTo
    <2>3. QED
      BY <2>2
  <1>14. PICK g, f : g = [j \in 0 .. n |-> h[j].x] /\ f = [j \in 0 .. n |-> h[j].d]
    OBVIOUS
  <1>15. \A j \in 0 .. n : g[j] = h[j].x /\ f[j] = h[j].d
    BY <1>14
  <1>16. g[0] = x /\ f[0] = NoDiff /\ w.d = f[n] /\ w.x = g[n]
    <2>1. 0 \in 0 .. n /\ n \in 0 .. n
      BY <1>2
    <2>2. QED
      BY <1>3, <1>8, <1>9, <1>15, <2>1
  <1>17. \A j \in 0 .. n : Alike(x, g[j]) /\ g[j].clseq = x.clseq + j /\ DiffOK(f[j])
    BY <1>13, <1>15
  <1>18. ASSUME NEW j \in 1 .. n PROVE f[j] = CheckMsg(g[j - 1], f[j - 1], b[j])
    <2>1. j \in 0 .. n /\ j - 1 \in 0 .. n
      BY <1>2
    <2>2. QED
      BY <1>11, <1>15, <2>1
  <1>19. Steps(x, b, w, g, f)
    BY <1>1, <1>16, <1>17, <1>18, Zenon DEF Steps
  <1>20. QED
    BY <1>19

\* All messages of a batch that is taken are.
LEMMA StepsTaken ==
    ASSUME NEW x, NEW b \in Seq(Message), NEW w, NEW g, NEW f, Steps(x, b, w, g, f), w.d.ok,
           NEW j \in 1 .. Len(b)
    PROVE  f[j - 1].ok /\ f[j].ok /\ ExpectsNext(g[j - 1], b[j])
  <1>1. PICK n : n = Len(b)
    OBVIOUS
  <1>2. n \in Nat /\ DOMAIN b = 1 .. n /\ j \in 1 .. n /\ f[n].ok
    BY <1>1 DEF Steps
  <1>3. ASSUME NEW i \in 1 .. n, f[i].ok PROVE f[i - 1].ok /\ ExpectsNext(g[i - 1], b[i])
    <2>1. i - 1 \in 0 .. n /\ b[i] \in Message
      BY <1>2
    <2>2. DiffOK(f[i - 1]) /\ f[i] = CheckMsg(g[i - 1], f[i - 1], b[i])
      BY <1>1, <2>1 DEF Steps
    <2>3. QED
      BY <1>3, <2>1, <2>2, CheckTakes
  <1> DEFINE G == {k \in 0 .. n : f[n - k].ok}
  <1>4. 0 \in G
    BY <1>2
  <1>5. ASSUME NEW k \in 1 .. n, k - 1 \in G PROVE k \in G
    <2>1. n - (k - 1) \in 1 .. n /\ (n - (k - 1)) - 1 = n - k /\ k \in 0 .. n
      BY <1>2
    <2>2. f[n - (k - 1)].ok
      BY <1>5
    <2>3. f[n - k].ok
      BY <1>3, <2>1, <2>2
    <2>4. QED
      BY <2>1, <2>3
  <1>6. ASSUME NEW i \in 0 .. n PROVE f[i].ok
    <2>1. n - i \in Nat /\ n - i \in 0 .. n /\ n - (n - i) = i
      BY <1>2
    <2>2. \A k \in 1 .. n - i : k - 1 \in G => k \in G
      BY <1>2, <1>5
    <2>3. n - i \in G
      <3> HIDE DEF G
      <3>1. QED
        BY <1>4, <2>1, <2>2, Sums!UpTo
    <2>4. QED
      BY <2>1, <2>3
  <1>7. j \in 0 .. n /\ j - 1 \in 0 .. n
    BY <1>2
  <1>8. QED
    BY <1>2, <1>3, <1>6, <1>7

\* What the leader that proposes has refused is what the whole log says.
LEMMA RefusedAll ==
    ASSUME ExpectInv, NEW r \in Replica, CanPropose(r)
    PROVE  m[r].clfs = Refused(log, Len(log)) /\ Refused(log, Len(log)) \in Nat
  <1>1. /\ LogOK(log) /\ Grouped(log) /\ log \in Seq(Entry) /\ Len(log) \in Nat
        /\ commit \in 0 .. Len(log) /\ ReplicaOK(log, commit, m[r], replay[r], halted[r])
    BY OfReplica DEF ExpectInv
  <1>2. r = elected /\ leaderState = TRUE /\ LeaderOK(log, aflr, m[r], replay[r], leaderState)
        /\ halted[r] = "no"
    BY Proposing DEF ExpectInv
  <1>3. aflr \in 1 .. Len(log) /\ m[r].applied >= aflr
    BY <1>2 DEF LeaderOK
  <1>4. m[r].applied \in 0 .. commit /\ m[r].clfs = Refused(log, m[r].applied)
    BY <1>1, <1>2 DEF ReplicaOK, RunOK
  <1>5. m[r].applied \in aflr .. Len(log) /\ Len(log) \in aflr .. Len(log)
    BY <1>1, <1>3, <1>4
  <1>6. Refused(log, m[r].applied) = Refused(log, aflr) /\ Refused(log, Len(log)) = Refused(log, aflr)
    BY <1>5 DEF ExpectInv, NoneCut
  <1>7. Len(log) \in 0 .. Len(log)
    BY <1>1
  <1>8. Refused(log, Len(log)) \in Nat
    BY <1>1, <1>7, SizeNat
  <1>9. QED
    BY <1>4, <1>6, <1>8

\* The log is longer by one entry, which expects what it should.
LEMMA ExpectAppend ==
    ASSUME ExpectInv, GroupInv', aflr' = aflr, NEW e \in Entry, log' = Append(log, e),
           (IsMsg(e) /\ e.m.els # -1) => e.m.els = e.lseq - Refused(log, Len(log))
    PROVE  ExpectInv'
  <1>1. LogOK(log) /\ LogOK(log') /\ log \in Seq(Entry) /\ log' \in Seq(Entry) /\ Len(log) \in Nat
    BY DEF ExpectInv, GroupInv, LogOK, Grouped
  <1>2. PICK l, k, n : l = log /\ k = log' /\ n = Len(log)
    OBVIOUS
  <1>3. Past(l, k, n) /\ Len(k) = n + 1 /\ k[n + 1] = e
    BY <1>1, <1>2 DEF Past
  <1>4. Refused(k, Len(k)) = Refused(l, n)
    BY <1>1, <1>2, <1>3, AppendRefused
  <1>5. ASSUME NEW i \in n + 1 .. Len(k)
        PROVE  ExpectsAt(k, i) /\ Refused(k, i) = Refused(l, Len(l))
    <2>1. i = n + 1 /\ i = Len(k) /\ n = Len(l)
      BY <1>1, <1>2, <1>3
    <2>2. k[i] = e /\ Refused(k, i) = Refused(l, n)
      BY <1>3, <1>4, <2>1
    <2>3. QED
      BY <1>2, <2>1, <2>2 DEF ExpectsAt
  <1>6. CheckedSeq(k)
    BY <1>2, <1>3, <1>5, CheckedPast DEF ExpectInv
  <1>7. aflr \in 1 .. Len(l)
    BY <1>2 DEF ExpectInv, GroupInv, LeaderOK
  <1>8. NoneCut(k, aflr)
    <2>1. Past(l, k, Len(l)) /\ NoneCut(l, aflr)
      BY <1>2, <1>3 DEF ExpectInv
    <2>2. \A i \in Len(l) + 1 .. Len(k) : Refused(k, i) = Refused(l, Len(l))
      BY <1>2, <1>5
    <2>3. QED
      BY <1>7, <2>1, <2>2, NoneCutPast
  <1>9. QED
    BY <1>2, <1>6, <1>8 DEF ExpectInv

\* A message is proposed.
LEMMA ExpectPublish ==
    ASSUME ExpectInv, GroupInv', NEW r \in Replica, NEW p \in cfg.pubs, Publish(r, p)
    PROVE  ExpectInv'
  <1>1. GroupInv /\ CanPropose(r) /\ aflr' = aflr
    BY DEF Publish, ExpectInv
  <1>2. PICK x, y, d : x = m[r] /\ y = WithClseq(x) /\ d = CheckMsg(y, NoDiff, p)
    OBVIOUS
  <1>3. PICK e : e = [op |-> "msg", m |-> p, lseq |-> y.clseq, b |-> 0, bs |-> 0]
    OBVIOUS
  <1>4. log' = Append(log, e) /\ d.ok
    BY <1>2, <1>3 DEF Publish
  <1>5. Numbered(log, x, y)
    BY <1>1, <1>2, Proposing
  <1>6. y.clseq \in Nat /\ y.clfs = Refused(log, Len(log)) /\ p \in Message
    BY <1>1, <1>2, <1>5, RefusedAll, OfConfig DEF Numbered, Same
  <1>7. ExpectsNext(y, p)
    BY <1>2, <1>4, <1>6, CheckTakes, NoDiffOK
  <1>8. e \in Entry /\ e.m = p /\ e.lseq = y.clseq
    BY <1>3, <1>6 DEF Entry, MsgEntry
  <1>9. (IsMsg(e) /\ e.m.els # -1) => e.m.els = e.lseq - Refused(log, Len(log))
    BY <1>6, <1>7, <1>8 DEF ExpectsNext
  <1>10. QED
    BY <1>1, <1>4, <1>8, <1>9, ExpectAppend

\* A batch is proposed.
LEMMA ExpectBatch ==
    ASSUME ExpectInv, GroupInv', NEW r \in Replica, NEW b \in cfg.batches, PublishBatch(r, b)
    PROVE  ExpectInv'
  <1>1. GroupInv /\ CanPropose(r) /\ aflr' = aflr
    BY DEF PublishBatch, ExpectInv
  <1>2. PICK x, y, w : x = m[r] /\ y = WithClseq(x) /\ w = CheckBatch(y, b)
    OBVIOUS
  <1>3. PICK l, k, n : l = log /\ k = log' /\ n = Len(log)
    OBVIOUS
  <1>4. k = l \o BatchEntries(y, b, batches + 1) /\ w.d.ok
    BY <1>2, <1>3 DEF PublishBatch
  <1>5. Numbered(log, x, y)
    BY <1>1, <1>2, Proposing
  <1>6. /\ y.clseq \in Nat /\ y.clfs = Refused(log, Len(log)) /\ DOMAIN y = Fields
        /\ Refused(log, Len(log)) \in Nat
    BY <1>1, <1>2, <1>5, RefusedAll DEF Numbered, Same
  <1>7. b \in Seq(Message) /\ Len(b) > 0 /\ Len(b) \in Nat
    BY <1>1, OfConfig
  <1>8. LogOK(l) /\ LogOK(k) /\ l \in Seq(Entry) /\ k \in Seq(Entry) /\ n \in Nat /\ n = Len(l)
    BY <1>1, <1>3 DEF GroupInv, LogOK, Grouped
  <1>9. PICK g, f : Steps(y, b, w, g, f)
    BY <1>2, <1>6, <1>7, CheckSteps
  <1>10. /\ y.clseq = Proposed(l, Len(l)) /\ \A p \in ToSet(b) : p.elm = 0
         /\ batches + 1 \in Nat \ {0}
    BY <1>1, <1>3, <1>5 DEF PublishBatch, GroupInv, Numbered
  <1>11. Longer(l, k, b)
    BY <1>4, <1>7, <1>8, <1>10, BatchLonger
  <1>12. Len(k) = n + Len(b) /\ Past(l, k, n)
    BY <1>8, <1>11 DEF Longer
  <1>13. ASSUME NEW j \in 1 .. Len(b)
         PROVE  ExpectsAt(k, n + j) /\ Refused(k, n + j) = Refused(l, n)
    <2>1. EntryOf(k[n + j], y, b, batches + 1, j)
      BY <1>4, <1>7, <1>8, BatchEntryIs
    <2>2. Refused(k, n + j) = Refused(l, n)
      BY <1>4, <1>7, <1>8, <1>12, BatchRefused
    <2>3. ExpectsNext(g[j - 1], b[j])
      BY <1>4, <1>7, <1>9, StepsTaken
    <2>4. j - 1 \in 0 .. Len(b) /\ j \in Nat
      BY <1>7
    <2>5. g[j - 1].clfs = y.clfs /\ g[j - 1].clseq = y.clseq + (j - 1)
      BY <1>9, <2>4 DEF Steps, Alike
    <2>6. b[j].els # -1 => b[j].els = y.clseq + (j - 1) - Refused(l, n)
      BY <1>3, <1>6, <2>3, <2>5 DEF ExpectsNext
    <2>7. k[n + j].m = b[j] /\ k[n + j].lseq = y.clseq + (j - 1)
      BY <1>6, <2>1, <2>4 DEF EntryOf
    <2>8. PICK i, e, v : i = n + j /\ e = k[i] /\ v = Refused(k, i)
      OBVIOUS
    <2>9. /\ e.m = b[j] /\ e.lseq = y.clseq + (j - 1)
          /\ e.m.els # -1 => e.m.els = y.clseq + (j - 1) - v
      BY <2>2, <2>6, <2>7, <2>8
    <2>10. e.m.els # -1 => e.m.els = e.lseq - v
      <3>1. PICK s, t, o : s = e.lseq /\ t = e.m.els /\ o = y.clseq
        OBVIOUS
      <3>2. o \in Nat /\ v \in Nat /\ j \in Nat
        BY <1>3, <1>6, <2>2, <2>4, <2>8, <3>1
      <3>3. s = o + (j - 1) /\ (t # -1 => t = o + (j - 1) - v)
        BY <2>9, <3>1
      <3>4. t # -1 => t = s - v
        BY <3>2, <3>3
      <3>5. QED
        BY <3>1, <3>4
    <2>11. ExpectsAt(k, i)
      BY <2>8, <2>10 DEF ExpectsAt
    <2>12. QED
      BY <2>2, <2>8, <2>11
  <1>14. ASSUME NEW i \in n + 1 .. Len(k) PROVE ExpectsAt(k, i) /\ Refused(k, i) = Refused(l, Len(l))
    <2>1. i - n \in 1 .. Len(b) /\ n + (i - n) = i
      BY <1>7, <1>8, <1>12
    <2>2. QED
      BY <1>8, <1>13, <2>1
  <1>15. CheckedSeq(k)
    BY <1>3, <1>12, <1>14, CheckedPast DEF ExpectInv
  <1>16. aflr \in 1 .. Len(l)
    BY <1>1, <1>3 DEF GroupInv, LeaderOK
  <1>17. NoneCut(k, aflr)
    <2>1. Past(l, k, Len(l)) /\ NoneCut(l, aflr)
      BY <1>3, <1>12 DEF ExpectInv
    <2>2. \A i \in Len(l) + 1 .. Len(k) : Refused(k, i) = Refused(l, Len(l))
      BY <1>8, <1>14
    <2>3. QED
      BY <1>16, <2>1, <2>2, NoneCutPast
  <1>18. QED
    BY <1>1, <1>3, <1>15, <1>17 DEF ExpectInv

\* A new leader cuts the log.
LEMMA ExpectLeader ==
    ASSUME ExpectInv, GroupInv', NEW r \in Replica, NEW n \in 0 .. cfg.len, LeaderChange(r, n)
    PROVE  ExpectInv'
  <1>1. GroupInv /\ aflr' = n + 1 /\ log' = Append(SubSeq(log, 1, n), [op |-> "empty"])
        /\ n \in commit .. Len(log) /\ commit \in 0 .. Len(log)
    BY DEF LeaderChange, ExpectInv, GroupInv
  <1>2. LogOK(log) /\ Len(log) \in Nat /\ n \in 0 .. Len(log) /\ n \in Nat
    BY <1>1 DEF LogOK, Grouped, GroupInv
  <1>3. PICK k : k = log'
    OBVIOUS
  <1>4. LogOK(k) /\ Past(log, k, n) /\ Len(k) = n + 1
    BY <1>1, <1>2, <1>3, LogCut
  <1>5. k[n + 1] = [op |-> "empty"]
    BY <1>1, <1>2, <1>3 DEF LogOK, Grouped
  <1>6. ASSUME NEW i \in n + 1 .. Len(k) PROVE ExpectsAt(k, i)
    <2>1. i = n + 1
      BY <1>2, <1>4
    <2>2. k[i].op = "empty"
      BY <1>5, <2>1
    <2>3. QED
      BY <2>2 DEF ExpectsAt, IsMsg
  <1>7. CheckedSeq(k)
    BY <1>4, <1>6, CheckedPast DEF ExpectInv
  <1>8. NoneCut(k, n + 1)
    <2>1. \A i \in n + 1 .. Len(k) : i = n + 1
      BY <1>2, <1>4
    <2>2. QED
      BY <2>1 DEF NoneCut
  <1>9. QED
    BY <1>1, <1>3, <1>7, <1>8 DEF ExpectInv

\* A request appends an entry that is no message.
LEMMA ExpectRequest ==
    ASSUME ExpectInv, GroupInv', NEW r \in Replica, NEW q \in cfg.removals,
           MsgDeleteRequest(r, q) \/ StreamPurgeRequest(r, q)
    PROVE  ExpectInv'
  <1>1. GroupInv /\ aflr' = aflr
    BY DEF MsgDeleteRequest, StreamPurgeRequest, ExpectInv
  <1>2. log \in Seq(Entry) /\ log' \in Seq(Entry) /\ Len(log) \in Nat
    BY <1>1 DEF GroupInv, LogOK, Grouped
  <1>3. PICK e : log' = Append(log, e) /\ e.op \in {"delete", "purge"}
    <2>1. CASE MsgDeleteRequest(r, q)
      BY <2>1 DEF MsgDeleteRequest
    <2>2. CASE StreamPurgeRequest(r, q)
      <3>1. PICK e : e = [op |-> "purge", s |-> q.s, seq |-> q.seq, keep |-> q.keep,
                          lseq |-> Len(m[r].store)]
        OBVIOUS
      <3>2. e.op = "purge" /\ log' = Append(log, e)
        BY <2>2, <3>1 DEF StreamPurgeRequest
      <3>3. QED
        BY <3>2
    <2>3. QED
      BY <2>1, <2>2
  <1>4. log'[Len(log) + 1] = e /\ Len(log) + 1 \in 1 .. Len(log')
    BY <1>2, <1>3
  <1>5. e \in Entry
    BY <1>2, <1>4
  <1>6. ~IsMsg(e)
    BY <1>3 DEF IsMsg
  <1>7. QED
    BY <1>1, <1>3, <1>5, <1>6, ExpectAppend

\* All other steps leave the log alone.
LEMMA OtherSteps ==
    ASSUME [Next]_vars,
           ~(\E r \in Replica, p \in cfg.pubs : Publish(r, p)),
           ~(\E r \in Replica, b \in cfg.batches : PublishBatch(r, b)),
           ~(\E r \in Replica, q \in cfg.removals :
                MsgDeleteRequest(r, q) \/ StreamPurgeRequest(r, q)),
           ~(\E r \in Replica, k \in 0 .. cfg.len : LeaderChange(r, k))
    PROVE  log' = log /\ aflr' = aflr
  <1>1. CASE UNCHANGED vars
    BY <1>1 DEF vars, raftVars
  <1>2. CASE Commit
    BY <1>2 DEF Commit
  <1>3. ASSUME NEW r \in Replica, NEW p \in cfg.pubs, PublishRefused(r, p)
        PROVE  log' = log /\ aflr' = aflr
    BY <1>3 DEF PublishRefused, raftVars
  <1>4. ASSUME NEW r \in Replica,
               \/ ApplyEmpty(r) \/ ApplyMsg(r) \/ AfterMsg(r) \/ ApplyBatchMsg(r)
               \/ ApplyBatch(r) \/ ApplyRemoval(r)
        PROVE  log' = log /\ aflr' = aflr
    BY <1>4 DEF ApplyEmpty, ApplyMsg, AfterMsg, ApplyBatchMsg, ApplyBatch, ApplyRemoval, raftVars
  <1>5. ASSUME NEW r \in Replica, ProcessLeaderChange(r) \/ Snapshot(r) \/ Catchup(r)
        PROVE  log' = log /\ aflr' = aflr
    BY <1>5 DEF ProcessLeaderChange, Snapshot, Catchup, raftVars
  <1>6. ASSUME NEW r \in Replica, NEW kept, NEW gone, Restart(r, kept, gone)
        PROVE  log' = log /\ aflr' = aflr
    BY <1>6 DEF Restart, raftVars
  <1>7. QED
    BY <1>1, <1>2, <1>3, <1>4, <1>5, <1>6, Zenon DEF Next

\* Every step keeps what messages expect.
LEMMA ExpectNext ==
    ASSUME ExpectInv, [Next]_vars
    PROVE  ExpectInv'
  <1>1. GroupInv'
    BY InvNext DEF ExpectInv
  <1>2. ASSUME NEW r \in Replica, NEW p \in cfg.pubs, Publish(r, p) PROVE ExpectInv'
    BY <1>1, <1>2, ExpectPublish
  <1>3. ASSUME NEW r \in Replica, NEW b \in cfg.batches, PublishBatch(r, b) PROVE ExpectInv'
    BY <1>1, <1>3, ExpectBatch
  <1>4. ASSUME NEW r \in Replica, NEW q \in cfg.removals,
               MsgDeleteRequest(r, q) \/ StreamPurgeRequest(r, q)
        PROVE  ExpectInv'
    BY <1>1, <1>4, ExpectRequest
  <1>5. ASSUME NEW r \in Replica, NEW k \in 0 .. cfg.len, LeaderChange(r, k) PROVE ExpectInv'
    BY <1>1, <1>5, ExpectLeader
  <1>6. ASSUME log' = log, aflr' = aflr PROVE ExpectInv'
    BY <1>1, <1>6 DEF ExpectInv
  <1>7. QED
    BY <1>2, <1>3, <1>4, <1>5, <1>6, OtherSteps

\* At first the log has one entry.
LEMMA ExpectInit ==
    ASSUME Init
    PROVE  ExpectInv
  <1>1. GroupInv
    BY InvInit
  <1>2. log = <<[op |-> "empty"]>> /\ aflr = 1
    BY DEF Init
  <1>3. Len(log) = 1 /\ log[1].op = "empty"
    BY <1>2
  <1>4. ASSUME NEW i \in 1 .. Len(log) PROVE ExpectsAt(log, i) /\ Refused(log, i) = Refused(log, 1)
    <2>1. i = 1
      BY <1>3
    <2>2. QED
      BY <1>3, <2>1 DEF ExpectsAt, IsMsg
  <1>5. QED
    BY <1>1, <1>2, <1>4 DEF ExpectInv, CheckedSeq, NoneCut

\* A message of the log is stored at the place that it expects.
LEMMA ExpectedPlace ==
    ASSUME NEW l, LogOK(l), CheckedSeq(l), NEW c \in 0 .. Len(l), NEW st, StoreOK(l, c, st),
           NEW q \in DOMAIN st, st[q].m.els # -1
    PROVE  q = st[q].m.els + 1
  <1>1. Grouped(l) /\ l \in Seq(Entry) /\ st \in Seq(Item) /\ Len(st) <= Size(l, c) /\ Len(st) \in Nat
    BY DEF LogOK, Grouped, StoreOK
  <1>2. Size(l, c) \in Nat /\ Len(l) \in Nat
    BY <1>1, SizeNat
  <1>3. q \in 1 .. Size(l, c) /\ q <= Len(st)
    BY <1>1, <1>2
  <1>0. PICK i \in 1 .. c : \E j \in 1 .. Width(l[i]) : q = Size(l, i - 1) + j
    BY <1>1, <1>3, Covered
  <1>4. PICK j \in 1 .. Width(l[i]) : q = Size(l, i - 1) + j
    BY <1>0
  <1>5. i \in 1 .. Len(l) /\ i - 1 \in 0 .. Len(l)
    BY <1>2
  <1>6. PICK e : e = i - Width(l[i]) + j
    OBVIOUS
  <1>7. st[q] = ItemOf(l[e])
    BY <1>3, <1>4, <1>6 DEF StoreOK
  <1>8. e \in 1 .. i /\ IsMsg(l[e])
    BY <1>1, <1>5, <1>6, WidthFits
  <1>9. st[q].m = l[e].m
    BY <1>7 DEF ItemOf
  <1>10. e \in 1 .. Len(l)
    BY <1>2, <1>5, <1>8
  <1>11. l[e].m.els = l[e].lseq - Refused(l, e)
    BY <1>8, <1>9, <1>10 DEF CheckedSeq, ExpectsAt
  <1>12. l[e] \in Entry /\ Width(l[i]) \in Nat /\ Size(l, i - 1) \in Nat /\ Refused(l, e) \in Nat
         /\ Refused(l, i - 1) \in Nat /\ Open(l, i - 1) \in Nat
    <2>1. e \in 0 .. Len(l)
      BY <1>10
    <2>2. QED
      BY <1>1, <1>5, <1>10, <2>1, SizeNat, OpenNat, Weights
  <1>13. CASE l[i].op = "msg"
    <2>1. Width(l[i]) = 1 /\ j = 1 /\ e = i
      BY <1>5, <1>6, <1>13 DEF Width
    <2>2. l[i].lseq = Proposed(l, i - 1)
      BY <1>5, <1>8, <2>1 DEF LogOK
    <2>3. ~IsBatch(l[i])
      BY <1>13 DEF IsBatch
    <2>4. Refused(l, i) = Refused(l, i - 1) + Open(l, i - 1)
      BY <1>1, <1>5, <2>3, SizeNext
    <2>5. l[i].lseq = Size(l, i - 1) + Refused(l, i - 1) + Open(l, i - 1)
      BY <2>2 DEF Proposed
    <2>6. l[e].m.els = Size(l, i - 1)
      BY <1>11, <1>12, <2>1, <2>4, <2>5
    <2>7. QED
      BY <1>4, <1>9, <1>12, <2>1, <2>6
  <1>14. CASE l[i].op = "batchCommit"
    <2>1. Width(l[i]) = l[i].bs /\ IsBatch(l[i])
      BY <1>14 DEF Width, IsBatch
    <2>2. l[e].lseq = (Size(l, i - 1) + (j - 1)) + Refused(l, i)
      BY <1>5, <1>6, <2>1, BatchSeq
    <2>3. Refused(l, e) = Refused(l, i)
      <3>1. l[i].bs \in 1 .. i /\ l[i].bs \in 1 .. l[i].bs
        BY <1>1, <1>5, <2>1, BlockStart
      <3>2. i - l[i].bs + l[i].bs = i
        BY <1>5, <3>1
      <3>3. Refused(l, i - l[i].bs + l[i].bs) = Refused(l, i - l[i].bs)
        BY <1>1, <1>5, <2>1, <3>1, BlockFlat
      <3>4. Refused(l, e) = Refused(l, i - l[i].bs)
        BY <1>1, <1>4, <1>5, <1>6, <2>1, BlockFlat
      <3>5. QED
        BY <3>2, <3>3, <3>4
    <2>4. l[e].m.els = Size(l, i - 1) + (j - 1)
      BY <1>11, <1>12, <2>2, <2>3
    <2>5. QED
      BY <1>4, <1>9, <1>12, <2>4
  <1>15. CASE ~(l[i].op \in {"msg", "batchCommit"})
    BY <1>4, <1>15 DEF Width
  <1>16. QED
    BY <1>13, <1>14, <1>15

\* A message that expects the last sequence of the stream directly follows it at
\* every replica, although the leader compares with what it has proposed
\* (checkMsgHeadersPreClusteredProposal): whatever leaders, batches that are cut
\* short and restarts come.
THEOREM ExpectedSequences == Spec => []ExpectedSeqKept
  <1>1. Init => ExpectInv
    BY ExpectInit
  <1>2. ExpectInv /\ [Next]_vars => ExpectInv'
    BY ExpectNext
  <1>3. ASSUME ExpectInv PROVE ExpectedSeqKept
    <2>1. ASSUME NEW r \in Replica, NEW i \in DOMAIN m[r].store, m[r].store[i].m.els # -1
          PROVE  i = m[r].store[i].m.els + 1
      <3>1. LogOK(log) /\ commit \in 0 .. Len(log) /\ StoreOK(log, commit, m[r].store)
            /\ CheckedSeq(log)
        BY <1>3 DEF ExpectInv, GroupInv, ReplicaOK
      <3>2. QED
        BY <2>1, <3>1, ExpectedPlace
    <2>2. QED
      BY <2>1 DEF ExpectedSeqKept
  <1>4. QED
    BY <1>1, <1>2, <1>3, PTL DEF Spec

-----------------------------------------------------------------------------
(***************************************************************************)
(* What is noted as in flight.  For every subject the leader has noted as  *)
(* many messages as the log has that it has not applied, and one more      *)
(* between the storing of a message and the clearing of what was noted for *)
(* it.  A replica that does not lead has noted nothing.                    *)
(***************************************************************************)
\* They are finitely many.
LEMMA CountNat ==
    ASSUME NEW l, NEW a \in Nat, NEW c \in Nat, NEW s
    PROVE  IsFiniteSet(Between(l, a, c, s)) /\ CountIn(l, a, c, s) \in Nat
  <1>1. IsFiniteSet(a + 1 .. c)
    BY FS_Interval
  <1>2. Between(l, a, c, s) \subseteq a + 1 .. c
    BY DEF Between
  <1>3. IsFiniteSet(Between(l, a, c, s))
    BY <1>1, <1>2, FS_Subset
  <1>4. QED
    BY <1>3, FS_CardinalityType DEF CountIn

\* Nothing comes after the last one.
LEMMA CountNone ==
    ASSUME NEW l, NEW a \in Nat, NEW c \in Nat, NEW s, \A i \in a + 1 .. c : ~Hit(l[i], s)
    PROVE  CountIn(l, a, c, s) = 0
  <1>1. Between(l, a, c, s) = {}
    BY DEF Between
  <1>2. QED
    BY <1>1, FS_EmptySet DEF CountIn

\* One entry more at the end.
LEMMA CountLast ==
    ASSUME NEW l, NEW a \in Nat, NEW c \in Nat, a < c, NEW s
    PROVE  CountIn(l, a, c, s) = CountIn(l, a, c - 1, s) + One(l[c], s)
  <1>1. PICK A, B : A = Between(l, a, c, s) /\ B = Between(l, a, c - 1, s)
    OBVIOUS
  <1>2. c - 1 \in Nat /\ c \in a + 1 .. c
    OBVIOUS
  <1>3. IsFiniteSet(B) /\ Cardinality(B) \in Nat
    BY <1>1, <1>2, CountNat DEF CountIn
  <1>4. c \notin B
    BY <1>1 DEF Between
  <1>5. CASE Hit(l[c], s)
    <2>1. A = B \cup {c}
      BY <1>1, <1>2, <1>5 DEF Between
    <2>2. Cardinality(A) = Cardinality(B) + 1
      BY <1>3, <1>4, <2>1, FS_AddElement
    <2>3. QED
      BY <1>1, <1>5, <2>2 DEF CountIn, One
  <1>6. CASE ~Hit(l[c], s)
    <2>1. A = B
      BY <1>1, <1>2, <1>6 DEF Between
    <2>2. QED
      BY <1>1, <1>3, <1>6, <2>1 DEF CountIn, One
  <1>7. QED
    BY <1>5, <1>6

\* One entry more at the beginning.
LEMMA CountFirst ==
    ASSUME NEW l, NEW a \in Nat, NEW c \in Nat, a < c, NEW s
    PROVE  CountIn(l, a, c, s) = CountIn(l, a + 1, c, s) + One(l[a + 1], s)
  <1>1. PICK A, B : A = Between(l, a, c, s) /\ B = Between(l, a + 1, c, s)
    OBVIOUS
  <1>2. a + 1 \in Nat /\ a + 1 \in a + 1 .. c
    OBVIOUS
  <1>3. IsFiniteSet(B) /\ Cardinality(B) \in Nat
    BY <1>1, <1>2, CountNat DEF CountIn
  <1>4. a + 1 \notin B
    BY <1>1 DEF Between
  <1>5. CASE Hit(l[a + 1], s)
    <2>1. A = B \cup {a + 1}
      BY <1>1, <1>2, <1>5 DEF Between
    <2>2. Cardinality(A) = Cardinality(B) + 1
      BY <1>3, <1>4, <2>1, FS_AddElement
    <2>3. QED
      BY <1>1, <1>5, <2>2 DEF CountIn, One
  <1>6. CASE ~Hit(l[a + 1], s)
    <2>1. A = B
      BY <1>1, <1>2, <1>6 DEF Between
    <2>2. QED
      BY <1>1, <1>3, <1>6, <2>1 DEF CountIn, One
  <1>7. QED
    BY <1>5, <1>6

\* The same entries.
LEMMA CountSame ==
    ASSUME NEW l, NEW k, NEW a \in Nat, NEW c \in Nat, NEW s, \A i \in a + 1 .. c : l[i] = k[i]
    PROVE  CountIn(l, a, c, s) = CountIn(k, a, c, s)
  <1>1. Between(l, a, c, s) = Between(k, a, c, s)
    BY DEF Between
  <1>2. QED
    BY <1>1 DEF CountIn

-----------------------------------------------------------------------------

\* What is noted is a number, and none is not noted.
LEMMA OpsNat ==
    ASSUME NEW f, InflightOK(f), NEW s
    PROVE  OpsOf(f, s) \in Nat /\ (OpsOf(f, s) # 0 <=> s \in DOMAIN f)
  BY DEF OpsOf, InflightOK

\* Nothing is noted.
LEMMA OpsNone ==
    InflightOK(EmptyFcn) /\ \A s : OpsOf(EmptyFcn, s) = 0
  BY DEF EmptyFcn, OpsOf, InflightOK

\* One message is.
LEMMA OpsSingle ==
    ASSUME NEW p \in Nat, NEW f, f = [s \in {p} |-> 1]
    PROVE  InflightOK(f) /\ \A s : OpsOf(f, s) = IF s = p THEN 1 ELSE 0
  BY DEF OpsOf, InflightOK

\* What two maps note together.
LEMMA OpsPlus ==
    ASSUME NEW f, InflightOK(f), NEW g, InflightOK(g), NEW h, h = Plus(f, g)
    PROVE  InflightOK(h) /\ \A s : OpsOf(h, s) = OpsOf(f, s) + OpsOf(g, s)
  <1>1. DOMAIN h = DOMAIN f \cup DOMAIN g
    BY DEF Plus
  <1>2. ASSUME NEW s \in DOMAIN h PROVE h[s] \in Nat \ {0} /\ h[s] = OpsOf(f, s) + OpsOf(g, s)
    <2>1. h[s] = OpsOf(f, s) + OpsOf(g, s)
      BY <1>1 DEF Plus
    <2>2. PICK u, v : u = OpsOf(f, s) /\ v = OpsOf(g, s)
      OBVIOUS
    <2>3. u \in Nat /\ v \in Nat /\ (u # 0 \/ v # 0)
      BY <1>1, <2>2, OpsNat
    <2>4. u + v \in Nat \ {0}
      BY <2>3
    <2>5. QED
      BY <2>1, <2>2, <2>4
  <1>3. InflightOK(h)
    BY <1>1, <1>2 DEF InflightOK
  <1>4. ASSUME NEW s PROVE OpsOf(h, s) = OpsOf(f, s) + OpsOf(g, s)
    <2>1. CASE s \in DOMAIN h
      BY <1>2, <2>1 DEF OpsOf
    <2>2. CASE s \notin DOMAIN h
      BY <1>1, <2>2 DEF OpsOf
    <2>3. QED
      BY <2>1, <2>2
  <1>5. QED
    BY <1>3, <1>4

\* What was noted for it is cleared.
LEMMA OpsClear ==
    ASSUME NEW x, DOMAIN x = Fields, InflightOK(x.inflight), NEW e, e.m.s \in Nat,
           NEW y, y = ClearInflight(x, e)
    PROVE  Cleared(x.inflight, y.inflight, e.m.s)
  <1>1. PICK f, t, g : f = x.inflight /\ t = e.m.s /\ g = y.inflight
    OBVIOUS
  <1>2. g = Minus(f, t) /\ InflightOK(f) /\ t \in Nat
    BY <1>1 DEF ClearInflight, Fields
  <1>3. /\ DOMAIN g = {u \in DOMAIN f : u # t \/ f[u] > 1}
        /\ \A s \in DOMAIN g : g[s] = f[s] - (IF s = t THEN 1 ELSE 0)
    BY <1>2 DEF Minus
  <1>4. ASSUME NEW s \in DOMAIN g PROVE g[s] \in Nat \ {0}
    <2>1. s \in DOMAIN f /\ (s # t \/ f[s] > 1) /\ g[s] = f[s] - (IF s = t THEN 1 ELSE 0)
      BY <1>3
    <2>2. f[s] \in Nat \ {0}
      BY <1>2, <2>1 DEF InflightOK
    <2>3. QED
      BY <2>1, <2>2
  <1>5. InflightOK(g)
    BY <1>2, <1>3, <1>4 DEF InflightOK
  <1>6. ASSUME NEW s
        PROVE  OpsOf(g, s) = IF s = t /\ t \in DOMAIN f THEN OpsOf(f, s) - 1 ELSE OpsOf(f, s)
    <2>1. CASE s \notin DOMAIN f
      BY <1>3, <2>1 DEF OpsOf
    <2>2. CASE s \in DOMAIN f
      <3>1. f[s] \in Nat \ {0} /\ OpsOf(f, s) = f[s]
        BY <1>2, <2>2 DEF InflightOK, OpsOf
      <3>2. s \in DOMAIN g <=> (s # t \/ f[s] > 1)
        BY <1>3, <2>2
      <3>3. s \in DOMAIN g => OpsOf(g, s) = f[s] - (IF s = t THEN 1 ELSE 0)
        BY <1>3 DEF OpsOf
      <3>4. s \notin DOMAIN g => OpsOf(g, s) = 0
        BY DEF OpsOf
      <3>5. QED
        BY <2>2, <3>1, <3>2, <3>3, <3>4
    <2>3. QED
      BY <2>1, <2>2
  <1>7. QED
    BY <1>1, <1>5, <1>6 DEF Cleared

-----------------------------------------------------------------------------

\* The entry up to which nothing is open.
LEMMA SnapshotAt ==
    ASSUME NEW l, Grouped(l), NEW x, x.applied \in 0 .. Len(l), x.batch = BatchAt(l, x.applied)
    PROVE  SnapshotIndex(x) = x.applied - Open(l, x.applied) /\ SnapshotIndex(x) \in 0 .. Len(l)
  <1>1. PICK a : a = x.applied
    OBVIOUS
  <1>2. a \in 0 .. Len(l) /\ l \in Seq(Entry) /\ Len(l) \in Nat
    BY <1>1 DEF Grouped
  <1>3. CASE Open(l, a) = 0
    <2>1. x.batch.id = 0
      BY <1>1, <1>3 DEF BatchAt, NoBatch
    <2>2. SnapshotIndex(x) = a
      BY <1>1, <2>1 DEF SnapshotIndex
    <2>3. QED
      BY <1>1, <1>2, <1>3, <2>2
  <1>4. CASE Open(l, a) # 0
    <2>1. a > 0 /\ l[a].op = "batchMsg" /\ Open(l, a) = l[a].bs
      BY <1>4 DEF Open
    <2>2. a \in 1 .. Len(l) /\ IsBatch(l[a])
      BY <1>2, <2>1 DEF IsBatch
    <2>3. PICK b : b = l[a].bs
      OBVIOUS
    <2>4. b \in 1 .. a /\ l[a].b # 0
      BY <2>2, <2>3 DEF Grouped, GroupedAt
    <2>5. x.batch.id # 0 /\ x.batch.from = a - b + 1
      BY <1>1, <1>4, <2>3, <2>4 DEF BatchAt
    <2>6. SnapshotIndex(x) = a - b
      BY <1>2, <2>4, <2>5 DEF SnapshotIndex
    <2>7. QED
      BY <1>1, <1>2, <2>1, <2>3, <2>4, <2>6
  <1>5. QED
    BY <1>3, <1>4

\* These operations leave it alone.
LEMMA KeepsOther ==
    ASSUME NEW x, DOMAIN x = Fields
    PROVE  Keeps(x, RejectBatch(x)) /\ Keeps(x, WithClseq(x)) /\ Keeps(x, x)
  <1>1. Keeps(x, RejectBatch(x))
    BY DEF RejectBatch, Keeps, Fields
  <1>2. Keeps(x, WithClseq(x))
    BY DEF WithClseq, RecalculateClusteredSeq, Keeps, Fields
  <1>3. QED
    BY <1>1, <1>2 DEF Keeps

\* Counting a message of a batch does.
LEMMA KeepsCount ==
    ASSUME NEW x, DOMAIN x = Fields, NEW e, NEW i
    PROVE  Keeps(x, CountBatchMsg(x, e, i))
  <1>1. PICK y : y = IF (x.batch.id # 0 /\ x.batch.id # e.b) \/ e.bs = 1 THEN RejectBatch(x) ELSE x
    OBVIOUS
  <1>2. Keeps(x, y)
    BY <1>1, KeepsOther
  <1>3. PICK v : v = [id |-> e.b, count |-> y.batch.count + 1,
                      from |-> IF e.bs = 1 THEN i ELSE y.batch.from]
    OBVIOUS
  <1>4. PICK z : z = [y EXCEPT !.batch = v]
    OBVIOUS
  <1>5. Keeps(x, z)
    BY <1>2, <1>4 DEF Keeps, Fields
  <1>6. Keeps(z, RejectBatch(z))
    BY <1>5, KeepsOther DEF Keeps
  <1>7. CountBatchMsg(x, e, i) = IF e.bs = z.batch.count THEN z ELSE RejectBatch(z)
    BY <1>1, <1>3, <1>4 DEF CountBatchMsg
  <1>8. CASE e.bs = z.batch.count
    BY <1>5, <1>7, <1>8
  <1>9. CASE e.bs # z.batch.count
    BY <1>5, <1>6, <1>7, <1>9 DEF Keeps
  <1>10. QED
    BY <1>8, <1>9

\* Storing a message does.
LEMMA KeepsProcess ==
    ASSUME NEW x, DOMAIN x = Fields, NEW e, NEW leader
    PROVE  /\ Keeps(x, ProcessJetStreamMsg(x, e, leader))
           /\ ProcessJetStreamMsg(x, e, leader).batch = x.batch
           /\ ProcessJetStreamMsg(x, e, leader).applied = x.applied
  <1>1. PICK y : y = ProcessJetStreamMsg(x, e, leader)
    OBVIOUS
  <1>2. CASE MsgIdMismatch(x, e)
    <2>1. y = [x EXCEPT !.clfs = @ + 1]
      BY <1>1, <1>2 DEF ProcessJetStreamMsg
    <2>2. QED
      BY <1>1, <2>1 DEF Keeps, Fields
  <1>3. CASE ~MsgIdMismatch(x, e) /\ Stores(x, e)
    <2>1. PICK st, dd : y = [x EXCEPT !.store = st, !.lmsgId = e.m.id, !.dd = dd]
      BY <1>1, <1>3 DEF ProcessJetStreamMsg
    <2>2. QED
      BY <1>1, <2>1 DEF Keeps, Fields
  <1>4. CASE ~MsgIdMismatch(x, e) /\ ~Stores(x, e)
    <2>1. y = x
      BY <1>1, <1>4 DEF ProcessJetStreamMsg
    <2>2. QED
      BY <1>1, <2>1 DEF Keeps
  <1>5. QED
    BY <1>2, <1>3, <1>4

\* One replica steps, and the log stays.
LEMMA TrackOne ==
    ASSUME TrackInv, GroupInv', NEW r \in Replica, NEW w, NEW e,
           DOMAIN m' = Replica, m'[r] = w, \A q \in Replica \ {r} : m'[q] = m[q],
           DOMAIN post' = Replica, post'[r] = e, \A q \in Replica \ {r} : post'[q] = post[q],
           NEW h, halted'[r] = h, \A q \in Replica \ {r} : halted'[q] = halted[q],
           UNCHANGED <<log, aflr, elected>>,
           NotesOK(w, e), r = elected => LeadsOK(log, aflr, w, e, h)
    PROVE  TrackInv'
  <1>1. \A q \in Replica : NotesOK(m'[q], post'[q])
    BY DEF TrackInv
  <1>2. elected \in Replica
    BY DEF TrackInv, GroupInv
  <1>3. LeadsOK(log, aflr, m'[elected], post'[elected], halted'[elected])
    BY <1>2, Zenon DEF TrackInv
  <1>4. LeadsOK(log', aflr', m'[elected'], post'[elected'], halted'[elected'])
    BY <1>3, Zenon
  <1>5. QED
    BY <1>1, <1>4 DEF TrackInv

\* The parts of a step of one replica.
LEMMA OnePost ==
    ASSUME TrackInv, NEW r \in Replica
    PROVE  /\ NotesOK(m[r], post[r]) /\ DOMAIN post = Replica
           /\ r = elected => LeadsOK(log, aflr, m[r], post[r], halted[r])
           /\ DOMAIN m = Replica /\ DOMAIN m[r] = Fields /\ GroupInv
           /\ InflightOK(m[r].inflight) /\ m[r].active \in BOOLEAN
  <1>1. DOMAIN m[r] = Fields /\ DOMAIN m = Replica /\ GroupInv
    BY OfReplica DEF TrackInv
  <1>2. ReplicaOK(log, commit, m[r], replay[r], halted[r])
    BY <1>1, OfReplica
  <1>3. m[r].active \in BOOLEAN
    BY <1>2, Zenon DEF ReplicaOK
  <1>4. NotesOK(m[r], post[r])
    BY DEF TrackInv
  <1>5. QED
    BY <1>1, <1>3, <1>4 DEF TrackInv, NotesOK

\* What is noted stays.
LEMMA TrackKept ==
    ASSUME TrackInv, GroupInv', NEW r \in Replica, NEW w, Keeps(m[r], w),
           m' = [m EXCEPT ![r] = w], UNCHANGED <<log, aflr, elected, post, halted>>,
           (r = elected /\ w.active /\ halted[r] = "no") => Tracks(log, w, post[r])
    PROVE  TrackInv'
  <1>1. /\ NotesOK(m[r], post[r]) /\ DOMAIN post = Replica
        /\ r = elected => LeadsOK(log, aflr, m[r], post[r], halted[r])
        /\ DOMAIN m = Replica /\ DOMAIN m[r] = Fields
    BY OnePost
  <1>2. DOMAIN m' = Replica /\ m'[r] = w /\ \A q \in Replica \ {r} : m'[q] = m[q]
    BY <1>1, OneValue
  <1>3. NotesOK(w, post[r])
    BY <1>1 DEF NotesOK, Keeps, Quiet
  <1>4. r = elected => LeadsOK(log, aflr, w, post[r], halted[r])
    BY <1>1 DEF LeadsOK, Keeps
  <1>5. QED
    BY <1>1, <1>2, <1>3, <1>4, TrackOne

\* It has applied all entries of earlier leaders.
LEMMA LeadingIs ==
    ASSUME TrackInv, NEW r \in Replica, r = elected, m[r].active, halted[r] = "no"
    PROVE  Leading(r)
  <1>1. /\ LogOK(log) /\ Grouped(log) /\ log \in Seq(Entry) /\ commit \in 0 .. Len(log)
        /\ ReplicaOK(log, commit, m[r], replay[r], "no") /\ m[r].applied \in 0 .. commit
        /\ replay[r] \in 0 .. commit
    BY OfReplica DEF TrackInv
  <1>2. LeaderOK(log, aflr, m[r], replay[r], leaderState)
    BY OfReplica, Zenon DEF TrackInv
  <1>3. leaderState
    BY <1>2, Zenon DEF LeaderOK
  <1>4. aflr \in 1 .. Len(log) /\ replay[r] < aflr /\ m[r].applied >= aflr
    BY <1>2, <1>3 DEF LeaderOK
  <1>5. Len(log) \in Nat
    BY <1>1
  <1>6. m[r].applied >= replay[r] /\ m[r].applied \in 0 .. Len(log) /\ aflr <= m[r].applied
    BY <1>1, <1>4, <1>5
  <1>7. Len(m[r].store) = Size(log, m[r].applied) /\ m[r].batch = BatchAt(log, m[r].applied)
    BY <1>1, <1>6, Caughtup
  <1>8. LeadsOK(log, aflr, m[r], post[r], halted[r])
    BY OnePost
  <1>9. Tracks(log, m[r], post[r]) /\ \A i \in aflr + 1 .. Len(log) : log[i].op # "empty"
    BY <1>8, Zenon DEF LeadsOK
  <1>10. QED
    BY <1>1, <1>4, <1>5, <1>6, <1>7, <1>9, Zenon DEF Leading

\* An entry with nothing open before and after it.
LEMMA OneApplied ==
    ASSUME NEW l, Grouped(l), NEW x, x.applied \in 0 .. Len(l), x.batch = BatchAt(l, x.applied),
           NEW i, i = x.applied + 1, i <= Len(l),
           NEW w, w.applied = i, w.batch = BatchAt(l, i),
           Open(l, x.applied) = 0, Open(l, i) = 0, NEW s
    PROVE  /\ CountIn(l, SnapshotIndex(x), Len(l), s)
                = CountIn(l, SnapshotIndex(w), Len(l), s) + One(l[i], s)
           /\ CountIn(l, SnapshotIndex(w), Len(l), s) \in Nat
  <1>1. PICK a, n : a = x.applied /\ n = Len(l)
    OBVIOUS
  <1>2. n \in Nat /\ a \in 0 .. n /\ i = a + 1 /\ i <= n
    BY <1>1 DEF Grouped
  <1>3. i \in 0 .. n
    BY <1>2
  <1>4. SnapshotIndex(x) = a - Open(l, a)
    BY <1>1, SnapshotAt
  <1>5. SnapshotIndex(w) = i - Open(l, i)
    BY <1>1, <1>3, SnapshotAt
  <1>6. SnapshotIndex(x) = a /\ SnapshotIndex(w) = i
    BY <1>1, <1>2, <1>3, <1>4, <1>5
  <1>7. a \in Nat /\ i \in Nat /\ a < n
    BY <1>2
  <1>8. CountIn(l, a, n, s) = CountIn(l, a + 1, n, s) + One(l[a + 1], s)
    BY <1>2, <1>7, CountFirst
  <1>9. CountIn(l, i, n, s) \in Nat
    BY <1>2, <1>7, CountNat
  <1>10. QED
    BY <1>1, <1>2, <1>6, <1>8, <1>9, Zenon

\* Before a message of a batch, its batch is open.
LEMMA OpenFrom ==
    ASSUME NEW l, Grouped(l), NEW x, x.applied \in 0 .. Len(l), x.batch = BatchAt(l, x.applied),
           NEW i, i = x.applied + 1, i <= Len(l), IsBatch(l[i])
    PROVE  SnapshotIndex(x) = i - l[i].bs /\ l[i].bs \in 1 .. i
  <1>1. PICK a, n, b : a = x.applied /\ n = Len(l) /\ b = l[i].bs
    OBVIOUS
  <1>2. n \in Nat /\ a \in 0 .. n /\ i = a + 1 /\ i <= n
    BY <1>1 DEF Grouped
  <1>3. i \in 1 .. n /\ i - 1 = a
    BY <1>2
  <1>4. SnapshotIndex(x) = a - Open(l, a)
    BY <1>1, SnapshotAt
  <1>5. GroupedAt(l, i) /\ b \in 1 .. i
    BY <1>1, <1>3 DEF Grouped, GroupedAt
  <1>6. Open(l, a) = b - 1
    <2>1. CASE b > 1
      <3>1. l[a].op = "batchMsg" /\ l[a].bs = b - 1
        BY <1>1, <1>3, <1>5, <2>1 DEF GroupedAt
      <3>2. a > 0
        BY <1>2, <1>5, <2>1
      <3>3. QED
        BY <3>1, <3>2 DEF Open
    <2>2. CASE b = 1
      <3>1. ~(i > 1 /\ l[i - 1].op = "batchMsg")
        BY <1>1, <1>5, <2>2 DEF GroupedAt, IsBatch
      <3>2. ~(a > 0 /\ l[a].op = "batchMsg")
        BY <1>2, <1>3, <3>1
      <3>3. QED
        BY <2>2, <3>2 DEF Open
    <2>3. QED
      BY <1>2, <1>5, <2>1, <2>2
  <1>7. PICK u : u = SnapshotIndex(x)
    OBVIOUS
  <1>8. u = a - (b - 1)
    BY <1>4, <1>6, <1>7, Zenon
  <1>9. u = i - b
    BY <1>2, <1>5, <1>8
  <1>10. QED
    BY <1>1, <1>5, <1>7, <1>9

\* A message of a batch that is not complete leaves open what was.
LEMMA StillOpen ==
    ASSUME NEW l, Grouped(l), NEW x, x.applied \in 0 .. Len(l), x.batch = BatchAt(l, x.applied),
           NEW i, i = x.applied + 1, i <= Len(l), l[i].op = "batchMsg",
           NEW w, w.applied = i, w.batch = BatchAt(l, i)
    PROVE  SnapshotIndex(w) = SnapshotIndex(x)
  <1>1. IsBatch(l[i]) /\ Len(l) \in Nat
    BY DEF IsBatch, Grouped
  <1>2. SnapshotIndex(x) = i - l[i].bs
    BY <1>1, OpenFrom
  <1>3. i \in 0 .. Len(l) /\ i > 0
    BY <1>1
  <1>4. SnapshotIndex(w) = i - Open(l, i)
    BY <1>3, SnapshotAt
  <1>5. Open(l, i) = l[i].bs
    BY <1>3 DEF Open
  <1>6. QED
    BY <1>2, <1>4, <1>5

\* Where the replica is after the step.
LEMMA NextRun ==
    ASSUME GroupInv', NEW r \in Replica, m'[r].applied \in Nat, halted'[r] = "no", log' = log
    PROVE  m'[r].batch = BatchAt(log, m'[r].applied)
  <1>1. ReplicaOK(log', commit', m'[r], replay'[r], halted'[r])
    BY DEF GroupInv
  <1>2. RunOK(log', m'[r], replay'[r])
    BY <1>1, Zenon DEF ReplicaOK
  <1>3. QED
    BY <1>2, Zenon DEF RunOK

\* Nothing waits before an entry that is neither of a batch nor empty.
LEMMA NothingOpen ==
    ASSUME NEW l, Grouped(l), NEW a \in 0 .. Len(l), NEW i, i = a + 1, i <= Len(l),
           l[i].op # "empty", ~IsBatch(l[i])
    PROVE  Open(l, a) = 0 /\ Open(l, i) = 0
  <1>1. i \in 1 .. Len(l) /\ i - 1 = a /\ (a > 0 => i > 1)
    BY DEF Grouped
  <1>2. GroupedAt(l, i)
    BY <1>1 DEF Grouped
  <1>3. ~(i > 1 /\ l[i - 1].op = "batchMsg")
    BY <1>2 DEF GroupedAt
  <1>4. ~(a > 0 /\ l[a].op = "batchMsg")
    BY <1>1, <1>3
  <1>5. l[i].op # "batchMsg"
    BY DEF IsBatch
  <1>6. QED
    BY <1>4, <1>5 DEF Open

-----------------------------------------------------------------------------
\* A leader that leads meets no empty entry.
LEMMA TrackApplyEmpty ==
    ASSUME TrackInv, GroupInv', NEW r \in Replica, ApplyEmpty(r)
    PROVE  TrackInv'
  <1>1. PICK x, y, w : x = m[r] /\ y = RejectBatch(x) /\ w = [y EXCEPT !.applied = @ + 1]
    OBVIOUS
  <1>2. /\ m' = [m EXCEPT ![r] = w] /\ UNCHANGED <<log, aflr, elected, post, halted>>
        /\ x.applied < commit /\ halted[r] = "no" /\ log[x.applied + 1].op = "empty"
    BY <1>1 DEF ApplyEmpty, CanApply, NextEntry
  <1>3. DOMAIN x = Fields
    BY <1>1, OnePost
  <1>4. Keeps(x, y)
    BY <1>1, <1>3, KeepsOther
  <1>5. Keeps(x, w)
    BY <1>1, <1>4 DEF Keeps, Fields
  <1>6. ASSUME r = elected, w.active, halted[r] = "no" PROVE FALSE
    <2>1. m[r].active
      BY <1>1, <1>5, <1>6 DEF Keeps
    <2>2. Leading(r)
      BY <1>6, <2>1, LeadingIs
    <2>3. /\ aflr \in Nat /\ aflr <= x.applied /\ x.applied \in Nat /\ commit \in 0 .. Len(log)
          /\ Len(log) \in Nat /\ \A i \in aflr + 1 .. Len(log) : log[i].op # "empty"
      BY <1>1, <2>2 DEF Leading
    <2>4. x.applied + 1 \in aflr + 1 .. Len(log)
      BY <1>2, <2>3
    <2>5. QED
      BY <1>2, <2>3, <2>4
  <1>7. QED
    BY <1>1, <1>2, <1>5, <1>6, TrackKept

\* A request is nothing that was noted.
LEMMA TrackApplyRemoval ==
    ASSUME TrackInv, GroupInv', NEW r \in Replica, ApplyRemoval(r)
    PROVE  TrackInv'
  <1>0. PICK b \in BOOLEAN : m' = [m EXCEPT ![r] =
                [RejectBatch(m[r]) EXCEPT !.applied = @ + 1,
                     !.gone = @ \cup RemovedBy(RejectBatch(m[r]), NextEntry(r), b)]]
    BY DEF ApplyRemoval
  <1>1. PICK x, y, g, w : /\ x = m[r] /\ y = RejectBatch(x) /\ g = RemovedBy(y, NextEntry(r), b)
                          /\ w = [y EXCEPT !.applied = @ + 1, !.gone = @ \cup g]
    OBVIOUS
  <1>2. /\ m' = [m EXCEPT ![r] = w] /\ UNCHANGED <<log, aflr, elected, post, halted>>
        /\ x.applied < commit /\ halted[r] = "no" /\ log[x.applied + 1].op \in {"delete", "purge"}
    BY <1>0, <1>1 DEF ApplyRemoval, CanApply, NextEntry, raftVars
  <1>3. DOMAIN x = Fields /\ DOMAIN m = Replica
    BY <1>1, OnePost
  <1>4. Keeps(x, y) /\ y.applied = x.applied
    BY <1>1, <1>3, KeepsOther, RejectIs
  <1>5. Keeps(x, w) /\ w.applied = x.applied + 1
    BY <1>1, <1>4 DEF Keeps, Fields
  <1>6. ASSUME r = elected, w.active, halted[r] = "no" PROVE Tracks(log, w, post[r])
    <2>1. m[r].active
      BY <1>1, <1>5, <1>6 DEF Keeps
    <2>2. Leading(r)
      BY <1>6, <2>1, LeadingIs
    <2>3. /\ x.applied \in 0 .. Len(log) /\ commit \in 0 .. Len(log) /\ Len(log) \in Nat
          /\ Grouped(log) /\ x.batch = BatchAt(log, x.applied) /\ Tracks(log, x, post[r])
      BY <1>1, <2>2 DEF Leading
    <2>4. PICK i : i = x.applied + 1
      OBVIOUS
    <2>5. i <= Len(log) /\ i \in Nat
      BY <1>2, <2>3, <2>4
    <2>6. m'[r] = w
      BY <1>2, <1>3
    <2>7. w.batch = BatchAt(log, i)
      BY <1>2, <1>5, <2>4, <2>5, <2>6, NextRun
    <2>8. Open(log, x.applied) = 0 /\ Open(log, i) = 0
      BY <1>2, <2>3, <2>4, <2>5, NothingOpen DEF IsBatch
    <2>9. ASSUME NEW s \in Nat
          PROVE  OpsOf(w.inflight, s)
                   = CountIn(log, SnapshotIndex(w), Len(log), s) + Posted(post[r], s)
      <3>1. PICK u, v, o : /\ u = CountIn(log, SnapshotIndex(x), Len(log), s)
                           /\ v = CountIn(log, SnapshotIndex(w), Len(log), s) /\ o = One(log[i], s)
        OBVIOUS
      <3>2. u = v + o /\ v \in Nat
        BY <1>5, <2>3, <2>4, <2>5, <2>7, <2>8, <3>1, OneApplied
      <3>3. o = 0
        BY <1>2, <2>4, <3>1 DEF One, Hit, IsMsg
      <3>4. u = v
        BY <3>2, <3>3
      <3>5. OpsOf(x.inflight, s) = u + Posted(post[r], s)
        BY <2>3, <3>1 DEF Tracks
      <3>6. QED
        BY <1>5, <3>1, <3>4, <3>5 DEF Keeps
    <2>10. QED
      BY <2>9 DEF Tracks
  <1>7. QED
    BY <1>1, <1>2, <1>5, <1>6, TrackKept

\* The message of a batch that waits stays noted.
LEMMA TrackApplyBatchMsg ==
    ASSUME TrackInv, GroupInv', NEW r \in Replica, ApplyBatchMsg(r)
    PROVE  TrackInv'
  <1>1. PICK x, y, w : /\ x = m[r] /\ y = CountBatchMsg(x, log[x.applied + 1], x.applied + 1)
                       /\ w = [y EXCEPT !.applied = @ + 1]
    OBVIOUS
  <1>2. /\ m' = [m EXCEPT ![r] = w] /\ UNCHANGED <<log, aflr, elected, post, halted>>
        /\ x.applied < commit /\ halted[r] = "no" /\ log[x.applied + 1].op = "batchMsg"
    BY <1>1 DEF ApplyBatchMsg, CanApply, NextEntry, raftVars
  <1>3. /\ DOMAIN x = Fields /\ DOMAIN m = Replica /\ LogOK(log) /\ commit \in 0 .. Len(log)
        /\ ReplicaOK(log, commit, x, replay[r], "no")
    <2>1. GroupInv /\ DOMAIN x = Fields /\ DOMAIN m = Replica
      BY <1>1, OnePost
    <2>2. QED
      BY <1>1, <1>2, <2>1, OfReplica
  <1>4. Keeps(x, y)
    BY <1>1, <1>3, KeepsCount
  <1>5. w.applied = x.applied + 1
    <2>1. PICK i : i = x.applied + 1
      OBVIOUS
    <2>2. IdsOK(x.dd, x.store) /\ y = CountBatchMsg(x, log[i], i) /\ log[i].op = "batchMsg"
      BY <1>1, <1>2, <2>1, OfReplica DEF TrackInv
    <2>3. Applies(log, commit, x, replay[r], w, "no")
      BY <1>1, <1>2, <1>3, <2>1, <2>2, ApplyWaiting
    <2>4. QED
      BY <2>3 DEF Applies
  <1>6. Keeps(x, w) /\ w.applied = x.applied + 1
    BY <1>1, <1>4, <1>5 DEF Keeps, Fields
  <1>7. ASSUME r = elected, w.active, halted[r] = "no" PROVE Tracks(log, w, post[r])
    <2>1. m[r].active
      BY <1>1, <1>6, <1>7 DEF Keeps
    <2>2. Leading(r)
      BY <1>7, <2>1, LeadingIs
    <2>3. /\ x.applied \in 0 .. Len(log) /\ commit \in 0 .. Len(log) /\ Len(log) \in Nat
          /\ Grouped(log) /\ x.batch = BatchAt(log, x.applied) /\ Tracks(log, x, post[r])
      BY <1>1, <2>2 DEF Leading
    <2>4. PICK i : i = x.applied + 1
      OBVIOUS
    <2>5. i <= Len(log) /\ i \in Nat
      BY <1>2, <2>3, <2>4
    <2>6. m'[r] = w
      BY <1>2, <1>3
    <2>7. w.batch = BatchAt(log, i)
      BY <1>2, <1>6, <2>4, <2>5, <2>6, NextRun
    <2>8. SnapshotIndex(w) = SnapshotIndex(x)
      BY <1>2, <1>6, <2>3, <2>4, <2>5, <2>7, StillOpen
    <2>9. w.inflight = x.inflight
      BY <1>6 DEF Keeps
    <2>10. QED
      BY <2>3, <2>8, <2>9, Zenon DEF Tracks
  <1>8. QED
    BY <1>1, <1>2, <1>6, <1>7, TrackKept

\* A message is stored; what was noted for it is cleared later.
LEMMA TrackApplyMsg ==
    ASSUME TrackInv, GroupInv', NEW r \in Replica, ApplyMsg(r)
    PROVE  TrackInv'
  <1>1. PICK x, e, z, y, w : /\ x = m[r] /\ e = log[x.applied + 1] /\ z = RejectBatch(x)
                             /\ y = ProcessJetStreamMsg(z, e, r = elected)
                             /\ w = [y EXCEPT !.applied = @ + 1]
    OBVIOUS
  <1>2. /\ m' = [m EXCEPT ![r] = w] /\ UNCHANGED <<log, aflr, elected>>
        /\ x.applied < commit /\ halted[r] = "no" /\ e.op = "msg" /\ post[r] = NoEntry
    BY <1>1 DEF ApplyMsg, CanApply, NextEntry, raftVars
  <1>3. PICK f : f = IF ~AlreadyStored(z, e) /\ Noted(z, e) THEN e ELSE NoEntry
    OBVIOUS
  <1>4. post' = [post EXCEPT ![r] = f]
    BY <1>1, <1>3 DEF ApplyMsg, NextEntry
  <1>5. PICK h : halted' = [halted EXCEPT ![r] = h]
    BY DEF ApplyMsg
  <1>6. /\ DOMAIN x = Fields /\ DOMAIN m = Replica /\ NotesOK(x, NoEntry) /\ DOMAIN post = Replica
        /\ r = elected => LeadsOK(log, aflr, x, NoEntry, "no")
    BY <1>1, <1>2, OnePost
  <1>7. /\ LogOK(log) /\ Grouped(log) /\ log \in Seq(Entry) /\ commit \in 0 .. Len(log)
        /\ ReplicaOK(log, commit, x, replay[r], "no") /\ x.applied \in 0 .. commit
        /\ DOMAIN halted = Replica
    BY <1>1, <1>2, OfReplica DEF TrackInv
  <1>8. /\ DOMAIN m' = Replica /\ m'[r] = w /\ \A q \in Replica \ {r} : m'[q] = m[q]
        /\ DOMAIN post' = Replica /\ post'[r] = f /\ \A q \in Replica \ {r} : post'[q] = post[q]
        /\ halted'[r] = h /\ \A q \in Replica \ {r} : halted'[q] = halted[q]
    BY <1>2, <1>4, <1>5, <1>6, <1>7
  <1>9. Keeps(x, z) /\ z.applied = x.applied
    BY <1>1, <1>6, KeepsOther, RejectIs
  <1>10. Keeps(z, y) /\ y.applied = x.applied
    BY <1>1, <1>9, KeepsProcess DEF Keeps
  <1>11. /\ Keeps(x, w) /\ w.applied = x.applied + 1 /\ z.inflight = x.inflight
         /\ z.expected = x.expected
    BY <1>1, <1>9, <1>10 DEF Keeps, Fields
  <1>12. e \in MsgEntry /\ IsMsg(e) /\ e.m.s \in Nat
    <2>1. x.applied + 1 \in 1 .. Len(log)
      BY <1>2, <1>7
    <2>2. e \in Entry
      BY <1>1, <1>7, <2>1
    <2>3. IsMsg(e)
      BY <1>2 DEF IsMsg
    <2>4. e \in MsgEntry
      BY <2>2, <2>3 DEF Entry, IsMsg
    <2>5. QED
      BY <2>3, <2>4 DEF MsgEntry, Message
  <1>13. NotesOK(w, f)
    <2>1. InflightOK(w.inflight) /\ PostOK(f)
      BY <1>2, <1>3, <1>6, <1>11, <1>12 DEF NotesOK, Keeps, PostOK
    <2>2. ASSUME ~w.active PROVE w.inflight = EmptyFcn /\ w.expected = EmptyFcn /\ f = NoEntry
      <3>1. x.inflight = EmptyFcn /\ x.expected = EmptyFcn
        BY <1>6, <1>11, <2>2 DEF NotesOK, Quiet, Keeps
      <3>2. DOMAIN z.inflight = {} /\ DOMAIN z.expected = {}
        BY <1>11, <3>1 DEF EmptyFcn
      <3>3. ~Noted(z, e)
        BY <3>2 DEF Noted
      <3>4. QED
        BY <1>3, <1>11, <3>1, <3>3 DEF Keeps
    <2>3. QED
      BY <2>1, <2>2 DEF NotesOK, Quiet
  <1>14. ASSUME r = elected, w.active, h = "no" PROVE Tracks(log, w, f)
    <2>1. m[r].active
      BY <1>1, <1>11, <1>14 DEF Keeps
    <2>2. Leading(r)
      BY <1>2, <1>14, <2>1, LeadingIs
    <2>3. /\ x.applied \in 0 .. Len(log) /\ Len(log) \in Nat /\ Len(x.store) = Size(log, x.applied)
          /\ x.batch = BatchAt(log, x.applied) /\ Tracks(log, x, NoEntry)
      BY <1>1, <1>2, <2>2 DEF Leading
    <2>4. PICK i : i = x.applied + 1
      OBVIOUS
    <2>5. i <= Len(log) /\ i \in Nat /\ e = log[i] /\ i \in 1 .. Len(log) /\ i - 1 = x.applied
      BY <1>1, <1>2, <1>7, <2>3, <2>4
    <2>6. w.batch = BatchAt(log, i)
      BY <1>2, <1>8, <1>11, <1>14, <2>4, <2>5, NextRun
    <2>7. Open(log, x.applied) = 0 /\ Open(log, i) = 0
      BY <1>2, <1>7, <2>3, <2>4, <2>5, NothingOpen DEF IsBatch
    <2>8. ASSUME NEW s
          PROVE  /\ CountIn(log, SnapshotIndex(x), Len(log), s)
                      = CountIn(log, SnapshotIndex(w), Len(log), s) + One(e, s)
                 /\ CountIn(log, SnapshotIndex(w), Len(log), s) \in Nat
      BY <1>7, <1>11, <2>3, <2>4, <2>5, <2>6, <2>7, OneApplied
    <2>9. e.m.s \in DOMAIN z.inflight
      <3>1. PICK t, u, v : /\ t = e.m.s /\ u = CountIn(log, SnapshotIndex(x), Len(log), t)
                           /\ v = CountIn(log, SnapshotIndex(w), Len(log), t)
        OBVIOUS
      <3>2. One(e, t) = 1
        BY <1>12, <3>1 DEF One, Hit
      <3>3. u = v + 1 /\ v \in Nat
        BY <2>8, <3>1, <3>2
      <3>4. OpsOf(x.inflight, t) = u + Posted(NoEntry, t)
        BY <1>12, <2>3, <3>1 DEF Tracks
      <3>5. Posted(NoEntry, t) = 0
        BY DEF Posted
      <3>6. OpsOf(x.inflight, t) # 0
        BY <3>3, <3>4, <3>5
      <3>7. QED
        BY <1>6, <1>11, <3>1, <3>6, OpsNat DEF NotesOK
    <2>10. ~AlreadyStored(z, e)
      <3>1. Same(x, z)
        BY <1>1, <1>2, <1>7, RejectNothing
      <3>2. x.store \in Seq(Item) /\ x.clfs \in Nat /\ Size(log, x.applied) \in Nat
            /\ x.clfs = Refused(log, x.applied)
        BY <1>7, <2>3, SizeNat DEF ReplicaOK, StoreOK, RunOK
      <3>3. e.lseq = Proposed(log, i - 1)
        BY <1>7, <1>12, <2>5 DEF LogOK
      <3>4. PICK n : n = Size(log, x.applied)
        OBVIOUS
      <3>5. e.lseq = n + x.clfs
        BY <2>5, <2>7, <3>2, <3>3, <3>4 DEF Proposed
      <3>6. /\ z.clfs \in Nat /\ z.store \in Seq(Item) /\ n <= Len(z.store) /\ e.lseq = n + z.clfs
            /\ n \in Nat /\ n = Len(z.store)
        BY <2>3, <3>1, <3>2, <3>4, <3>5 DEF Same
      <3>7. AlreadyStored(z, e) <=> n < Len(z.store)
        BY <3>6, NextMsg
      <3>8. QED
        BY <3>6, <3>7
    <2>11. f = e /\ e # NoEntry
      BY <1>2, <1>3, <2>9, <2>10 DEF Noted, NoEntry
    <2>12. ASSUME NEW s \in Nat
           PROVE  OpsOf(w.inflight, s) = CountIn(log, SnapshotIndex(w), Len(log), s) + Posted(f, s)
      <3>1. PICK u, v, o : /\ u = CountIn(log, SnapshotIndex(x), Len(log), s)
                           /\ v = CountIn(log, SnapshotIndex(w), Len(log), s) /\ o = One(e, s)
        OBVIOUS
      <3>2. u = v + o /\ v \in Nat
        BY <2>8, <3>1
      <3>3. o = Posted(f, s) /\ o \in Nat
        BY <1>12, <2>11, <3>1 DEF One, Hit, Posted
      <3>4. OpsOf(x.inflight, s) = u + Posted(NoEntry, s) /\ Posted(NoEntry, s) = 0
        BY <2>3, <3>1 DEF Tracks, Posted
      <3>5. OpsOf(x.inflight, s) = v + o
        BY <3>2, <3>3, <3>4
      <3>6. QED
        BY <1>11, <3>1, <3>3, <3>5 DEF Keeps
    <2>13. QED
      BY <2>12 DEF Tracks
  <1>15. r = elected => LeadsOK(log, aflr, w, f, h)
    BY <1>6, <1>11, <1>14 DEF LeadsOK, Keeps
  <1>16. UNCHANGED <<log, aflr, elected>>
    BY <1>2
  <1>17. QED
    BY <1>8, <1>13, <1>15, <1>16, TrackOne, Zenon

\* What was noted for it is cleared.
LEMMA TrackAfterMsg ==
    ASSUME TrackInv, GroupInv', NEW r \in Replica, AfterMsg(r)
    PROVE  TrackInv'
  <1>1. PICK x, e, w : x = m[r] /\ e = post[r] /\ w = ClearInflight(x, e)
    OBVIOUS
  <1>2. /\ m' = [m EXCEPT ![r] = w] /\ UNCHANGED <<log, aflr, elected, halted>>
        /\ e # NoEntry /\ post' = [post EXCEPT ![r] = NoEntry]
    BY <1>1 DEF AfterMsg, raftVars
  <1>3. /\ DOMAIN x = Fields /\ DOMAIN m = Replica /\ NotesOK(x, e) /\ DOMAIN post = Replica
        /\ r = elected => LeadsOK(log, aflr, x, e, halted[r])
        /\ InflightOK(x.inflight) /\ x.active \in BOOLEAN
    BY <1>1, OnePost
  <1>4. /\ DOMAIN m' = Replica /\ m'[r] = w /\ \A q \in Replica \ {r} : m'[q] = m[q]
        /\ DOMAIN post' = Replica /\ post'[r] = NoEntry /\ \A q \in Replica \ {r} : post'[q] = post[q]
        /\ halted'[r] = halted[r] /\ \A q \in Replica \ {r} : halted'[q] = halted[q]
    BY <1>2, <1>3
  <1>5. e.m.s \in Nat /\ x.active
    <2>1. PostOK(e) /\ Quiet(x, e)
      BY <1>3 DEF NotesOK
    <2>2. e \in MsgEntry
      BY <1>2, <2>1 DEF PostOK
    <2>3. QED
      BY <1>2, <1>3, <2>1, <2>2 DEF Quiet, MsgEntry, Message
  <1>6. Cleared(x.inflight, w.inflight, e.m.s)
    BY <1>1, <1>3, <1>5, OpsClear
  <1>7. Same(x, w)
    BY <1>1, <1>3, ClearSame
  <1>8. NotesOK(w, NoEntry)
    BY <1>5, <1>6, <1>7 DEF NotesOK, Cleared, PostOK, Quiet, Same
  <1>9. ASSUME r = elected, halted[r] = "no" PROVE Tracks(log, w, NoEntry)
    <2>1. Tracks(log, x, e)
      BY <1>3, <1>5, <1>9 DEF LeadsOK
    <2>2. SnapshotIndex(w) = SnapshotIndex(x)
      BY <1>7 DEF Same, SnapshotIndex
    <2>3. Leading(r)
      BY <1>1, <1>5, <1>9, LeadingIs
    <2>4. /\ Grouped(log) /\ x.applied \in 0 .. Len(log) /\ x.batch = BatchAt(log, x.applied)
          /\ Len(log) \in Nat
      BY <1>1, <2>3 DEF Leading
    <2>5. SnapshotIndex(x) \in Nat
      BY <2>4, SnapshotAt
    <2>6. ASSUME NEW s \in Nat
          PROVE  OpsOf(w.inflight, s)
                   = CountIn(log, SnapshotIndex(w), Len(log), s) + Posted(NoEntry, s)
      <3>1. PICK u, v, n, t : /\ u = OpsOf(x.inflight, s) /\ v = OpsOf(w.inflight, s)
                              /\ n = CountIn(log, SnapshotIndex(x), Len(log), s) /\ t = e.m.s
        OBVIOUS
      <3>2. n \in Nat
        BY <2>4, <2>5, <3>1, CountNat
      <3>3. u = n + Posted(e, s)
        BY <2>1, <3>1 DEF Tracks
      <3>4. v = IF s = t /\ t \in DOMAIN x.inflight THEN u - 1 ELSE u
        BY <1>6, <3>1 DEF Cleared
      <3>5. Posted(e, s) = (IF s = t THEN 1 ELSE 0) /\ Posted(NoEntry, s) = 0
        BY <1>2, <3>1 DEF Posted
      <3>6. u # 0 => s \in DOMAIN x.inflight
        BY <1>3, <3>1, OpsNat
      <3>7. v = n
        BY <3>2, <3>3, <3>4, <3>5, <3>6
      <3>8. QED
        BY <2>2, <3>1, <3>2, <3>5, <3>7
    <2>7. QED
      BY <2>6 DEF Tracks
  <1>10. r = elected => LeadsOK(log, aflr, w, NoEntry, halted[r])
    BY <1>3, <1>5, <1>7, <1>9 DEF LeadsOK, Same
  <1>11. UNCHANGED <<log, aflr, elected>>
    BY <1>2
  <1>12. QED
    BY <1>4, <1>8, <1>10, <1>11, TrackOne, Zenon

\* They are.
LEMMA CommitSteps ==
    ASSUME LogOK(log), NEW c \in 0 .. Len(log), NEW i \in 1 .. c, log[i].op = "batchCommit",
           NEW x, x.clfs = Refused(log, i), Len(x.store) \in Nat, NEW leader,
           NEW y, y.batch.id # 0, y.batch.from = i - log[i].bs + 1,
           Committing(log, c, i, x, [y EXCEPT !.batch = NoBatch], 0)
    PROVE  \E h : CommitRun(log, c, i, x, y, ApplyBatchCommit(y, i, leader), leader, h)
  <1>1. log \in Seq(Entry) /\ Len(log) \in Nat /\ i \in 1 .. Len(log) /\ i \in Nat
    BY DEF LogOK, Grouped
  <1>2. log[i].bs \in 1 .. i
    BY <1>1 DEF LogOK, Grouped, GroupedAt, IsBatch
  <1>3. PICK n : n = log[i].bs
    OBVIOUS
  <1>4. PICK q : q = SubSeq(log, i - n + 1, i)
    OBVIOUS
  <1>5. BatchToApply(y, i) = q
    BY <1>3, <1>4 DEF BatchToApply
  <1>6. n \in Nat /\ n > 0 /\ n <= i /\ i <= Len(log) /\ i - n + 1 \in 1 .. i
    BY <1>1, <1>2, <1>3
  <1>7. q \in Seq(Entry) /\ Len(q) = n /\ \A j \in 1 .. n : q[j] = log[i - n + j]
    <2>1. PICK a : a = i - n + 1
      OBVIOUS
    <2>2. a \in 1 .. Len(log) /\ i \in a .. Len(log) /\ i - a + 1 = n /\ q = SubSeq(log, a, i)
      <3>1. q = SubSeq(log, a, i)
        BY <1>4, <2>1
      <3>2. a \in 1 .. i /\ i - a + 1 = n
        BY <1>1, <1>6, <2>1
      <3>3. a \in 1 .. Len(log) /\ i \in a .. Len(log)
        BY <1>1, <3>2
      <3>4. QED
        BY <3>1, <3>2, <3>3
    <2>3. q = [j \in 1 .. (i - a + 1) |-> log[a + j - 1]]
      BY <1>1, <2>2, SMTT(40)
    <2>4. ASSUME NEW j \in 1 .. n PROVE q[j] = log[i - n + j] /\ q[j] \in Entry
      <3>1. q[j] = log[a + j - 1]
        BY <2>2, <2>3
      <3>2. a + j - 1 = i - n + j /\ a + j - 1 \in 1 .. Len(log)
        BY <1>1, <1>6, <2>1, SMTT(40)
      <3>3. QED
        BY <1>1, <3>1, <3>2
    <2>5. q \in [1 .. n -> Entry]
      BY <2>2, <2>3, <2>4
    <2>6. q \in Seq(Entry) /\ Len(q) = n
      BY <1>6, <2>5
    <2>7. QED
      BY <2>4, <2>6
  <1>8. DOMAIN q = 1 .. n
    BY <1>7
  <1>9. PICK b, w : b = [y EXCEPT !.batch = NoBatch] /\ w = ApplyBatchCommit(y, i, leader)
    OBVIOUS
  <1>10. w = Commits!Fold(leader, q, b, 1 .. n)
    BY <1>5, <1>8, <1>9, CommitFold
  <1> DEFINE F(j) == Commits!Fold(leader, q, b, 1 .. j)
  <1>11. F(0) = b
    <2>1. 1 .. 0 = {}
      BY <1>6
    <2>2. Commits!Fold(leader, q, b, {}) = b
      BY Commits!FoldNothing
    <2>3. QED
      BY <2>1, <2>2
  <1>12. ASSUME NEW j \in 1 .. n PROVE F(j) = CommitItem(leader, q, F(j - 1), j)
    <2>1. j \in Nat \ {0}
      BY <1>6
    <2>2. PICK S : S = 1 .. j - 1
      OBVIOUS
    <2>3. 1 .. j = S \cup {j} /\ S \subseteq 1 .. j - 1
      BY <2>1, <2>2
    <2>4. Commits!Fold(leader, q, b, S \cup {j})
            = CommitItem(leader, q, Commits!Fold(leader, q, b, S), j)
      BY <2>1, <2>3, Commits!FoldOne
    <2>5. QED
      BY <2>2, <2>3, <2>4, Zenon
  <1>13. w = F(n)
    BY <1>10
  <1> HIDE DEF F
  <1>14. PICK h : h = [j \in 0 .. n |-> F(j)]
    OBVIOUS
  <1>15. h[0] = b /\ h[n] = w
    BY <1>6, <1>11, <1>13, <1>14
  <1>16. ASSUME NEW j \in 1 .. n PROVE h[j] = CommitItem(leader, q, h[j - 1], j)
    <2>1. j \in 0 .. n /\ j - 1 \in 0 .. n
      BY <1>6
    <2>2. h[j] = F(j) /\ h[j - 1] = F(j - 1)
      BY <1>14, <2>1
    <2>3. QED
      BY <1>12, <2>2
  <1>17. ASSUME NEW j \in 1 .. n PROVE h[j] = ApplyOne(h[j - 1], log[i - n + j], leader)
    <2>1. h[j] = CommitItem(leader, q, h[j - 1], j) /\ q[j] = log[i - n + j]
      BY <1>7, <1>16
    <2>2. QED
      BY <2>1 DEF CommitItem, ApplyOne
  <1> DEFINE G == {j \in 0 .. n : Committing(log, c, i, x, h[j], j)}
  <1>18. 0 \in G
    BY <1>6, <1>9, <1>15
  <1>19. ASSUME NEW j \in 1 .. n, j - 1 \in G PROVE j \in G
    <2>1. Committing(log, c, i, x, h[j - 1], j - 1) /\ j \in 0 .. n
      BY <1>6, <1>19
    <2>2. j \in 1 .. log[i].bs /\ q[j] = log[i - log[i].bs + j]
      BY <1>3, <1>7
    <2>3. Committing(log, c, i, x, CommitItem(leader, q, h[j - 1], j), j)
      BY <2>1, <2>2, CommitOne
    <2>4. QED
      BY <1>16, <2>1, <2>3
  <1>20. ASSUME NEW j \in 0 .. n PROVE Committing(log, c, i, x, h[j], j)
    <2>1. \A k \in 1 .. j : k - 1 \in G => k \in G
      BY <1>6, <1>19
    <2>2. j \in G
      <3> HIDE DEF G
      <3>1. j \in Nat
        BY <1>6
      <3>2. QED
        BY <1>18, <2>1, <3>1, Sums!UpTo
    <2>3. QED
      BY <2>2
  <1>21. CommitRun(log, c, i, x, y, w, leader, h)
    BY <1>3, <1>9, <1>15, <1>17, <1>20, Zenon DEF CommitRun
  <1>22. QED
    BY <1>9, <1>21

\* What is noted by a replica that has noted nothing stays nothing.
LEMMA ClearNothing ==
    ASSUME NEW x, DOMAIN x = Fields, x.inflight = EmptyFcn, x.expected = EmptyFcn, NEW e,
           NEW y, y = ClearInflight(x, e)
    PROVE  y.inflight = EmptyFcn /\ y.expected = EmptyFcn
  <1>1. y.inflight = Minus(EmptyFcn, e.m.s) /\ y.expected = Dropping(EmptyFcn, {e.lseq})
    BY DEF ClearInflight, Fields
  <1>2. DOMAIN EmptyFcn = {}
    BY DEF EmptyFcn
  <1>3. Minus(EmptyFcn, e.m.s) = EmptyFcn
    <2>1. {u \in DOMAIN EmptyFcn : u # e.m.s \/ EmptyFcn[u] > 1} = {}
      BY <1>2
    <2>2. QED
      BY <2>1 DEF Minus, EmptyFcn
  <1>4. Dropping(EmptyFcn, {e.lseq}) = EmptyFcn
    <2>1. DOMAIN EmptyFcn \ {e.lseq} = {}
      BY <1>2
    <2>2. QED
      BY <2>1 DEF Dropping, Restrict, EmptyFcn
  <1>5. QED
    BY <1>1, <1>3, <1>4

\* One message of a batch.
LEMMA NotesStep ==
    ASSUME NEW x, NEW z, Notes1(x, z), NEW f, f.m.s \in Nat, NEW leader,
           NEW y, y = ApplyOne(z, f, leader)
    PROVE  Notes1(x, y)
  <1>1. CASE AlreadyStored(z, f) \/ SeqMismatch(z, f)
    BY <1>1 DEF ApplyOne
  <1>2. CASE ~(AlreadyStored(z, f) \/ SeqMismatch(z, f))
    <2>1. PICK v : v = ProcessJetStreamMsg(z, f, leader)
      OBVIOUS
    <2>2. y = ClearInflight(v, f)
      BY <1>2, <2>1 DEF ApplyOne
    <2>3. Keeps(z, v)
      BY <2>1, KeepsProcess DEF Notes1
    <2>4. /\ DOMAIN v = Fields /\ InflightOK(v.inflight) /\ v.active = x.active
          /\ ~x.active => v.inflight = EmptyFcn /\ v.expected = EmptyFcn
      BY <2>3 DEF Keeps, Notes1
    <2>5. Cleared(v.inflight, y.inflight, f.m.s)
      BY <2>2, <2>4, OpsClear
    <2>6. Same(v, y)
      BY <2>2, <2>4, ClearSame
    <2>7. ~x.active => y.inflight = EmptyFcn /\ y.expected = EmptyFcn
      BY <2>2, <2>4, ClearNothing
    <2>8. QED
      BY <2>4, <2>5, <2>6, <2>7 DEF Notes1, Cleared, Same
  <1>3. QED
    BY <1>1, <1>2

\* The messages of a batch.
LEMMA BatchMsgs ==
    ASSUME NEW l, LogOK(l), NEW i \in 1 .. Len(l), IsBatch(l[i]), NEW j \in 1 .. l[i].bs
    PROVE  /\ i - l[i].bs + j \in 1 .. Len(l) /\ IsMsg(l[i - l[i].bs + j])
           /\ l[i - l[i].bs + j].m.s \in Nat
  <1>1. PICK e : e = i - l[i].bs + j
    OBVIOUS
  <1>2. e \in 1 .. Len(l) /\ IsMsg(l[e])
    BY <1>1, BatchSeq
  <1>3. l[e] \in Entry
    BY <1>2 DEF LogOK, Grouped
  <1>4. l[e].m \in Message
    BY <1>2, <1>3, EntryFacts
  <1>5. QED
    BY <1>1, <1>2, <1>4 DEF Message

\* All of them.
LEMMA NotesCommit ==
    ASSUME NEW l, LogOK(l), NEW c, NEW i \in 1 .. Len(l), l[i].op = "batchCommit",
           NEW x, NEW y, NEW w, NEW leader, NEW h, CommitRun(l, c, i, x, y, w, leader, h),
           Notes1(x, y), NEW j \in 0 .. l[i].bs
    PROVE  Notes1(x, h[j])
  <1>1. PICK n : n = l[i].bs
    OBVIOUS
  <1>2. IsBatch(l[i]) /\ n \in Nat /\ n > 0 /\ j \in Nat /\ j \in 0 .. n
    <2>1. IsBatch(l[i])
      BY DEF IsBatch
    <2>2. n \in 1 .. i
      BY <1>1, <2>1 DEF LogOK, Grouped, GroupedAt
    <2>3. QED
      BY <1>1, <2>1, <2>2
  <1> DEFINE G == {k \in 0 .. n : Notes1(x, h[k])}
  <1>3. 0 \in G
    <2>1. h[0] = [y EXCEPT !.batch = NoBatch]
      BY DEF CommitRun
    <2>2. Notes1(x, h[0])
      BY <2>1 DEF Notes1, Fields
    <2>3. QED
      BY <1>2, <2>2
  <1>4. ASSUME NEW k \in 1 .. n, k - 1 \in G PROVE k \in G
    <2>1. Notes1(x, h[k - 1]) /\ k \in 0 .. n
      BY <1>2, <1>4
    <2>2. h[k] = ApplyOne(h[k - 1], l[i - l[i].bs + k], leader)
      BY <1>1 DEF CommitRun
    <2>3. l[i - l[i].bs + k].m.s \in Nat
      BY <1>1, <1>2, BatchMsgs
    <2>4. Notes1(x, h[k])
      BY <2>1, <2>2, <2>3, NotesStep
    <2>5. QED
      BY <2>1, <2>4
  <1>5. \A k \in 1 .. j : k - 1 \in G => k \in G
    <2>1. \A k \in 1 .. n : k - 1 \in G => k \in G
      BY <1>4
    <2>2. \A k \in 1 .. j : k \in 1 .. n
      BY <1>2
    <2> HIDE DEF G
    <2>3. QED
      BY <2>1, <2>2
  <1>6. j \in G
    <2> HIDE DEF G
    <2>1. QED
      BY <1>2, <1>3, <1>5, Sums!UpTo
  <1>7. QED
    BY <1>6, Zenon

\* One message less.
LEMMA LeftStep ==
    ASSUME NEW l, Len(l) \in Nat, NEW a \in Nat, a < Len(l), NEW e, e = l[a + 1], IsMsg(e),
           e.m.s \in Nat, NEW f, InflightOK(f), Left(l, f, a), NEW g, Cleared(f, g, e.m.s)
    PROVE  Left(l, g, a + 1)
  <1>1. ASSUME NEW s \in Nat PROVE OpsOf(g, s) = CountIn(l, a + 1, Len(l), s)
    <2>1. PICK u, v, n, o : /\ u = OpsOf(f, s) /\ v = OpsOf(g, s)
                            /\ n = CountIn(l, a + 1, Len(l), s) /\ o = One(e, s)
      OBVIOUS
    <2>2. n \in Nat
      BY <2>1, CountNat
    <2>3. CountIn(l, a, Len(l), s) = CountIn(l, a + 1, Len(l), s) + One(l[a + 1], s)
      BY CountFirst
    <2>4. u = n + o
      BY <2>1, <2>3 DEF Left
    <2>5. o = IF s = e.m.s THEN 1 ELSE 0
      BY <2>1 DEF One, Hit
    <2>6. v = IF s = e.m.s /\ e.m.s \in DOMAIN f THEN u - 1 ELSE u
      BY <2>1 DEF Cleared
    <2>7. u # 0 => s \in DOMAIN f
      BY <2>1, OpsNat
    <2>8. v = n
      BY <2>2, <2>4, <2>5, <2>6, <2>7
    <2>9. QED
      BY <2>1, <2>8
  <1>2. QED
    BY <1>1, Zenon DEF Left

\* A leader stores all messages of the batch, and clears what was noted for each.
LEMMA LeftCommit ==
    ASSUME NEW l, LogOK(l), NEW c \in 0 .. Len(l), NEW i \in 1 .. c, l[i].op = "batchCommit",
           NEW x, x.clfs = Refused(l, i), x.clfs \in Nat, Len(x.store) = Size(l, i - 1),
           NEW y, NEW w, NEW leader, NEW h, CommitRun(l, c, i, x, y, w, leader, h),
           Notes1(x, y), Left(l, y.inflight, i - l[i].bs)
    PROVE  Left(l, w.inflight, i)
  <1>1. PICK n, a : n = l[i].bs /\ a = i - n
    OBVIOUS
  <1>2. IsBatch(l[i]) /\ i \in 1 .. Len(l) /\ l \in Seq(Entry) /\ Len(l) \in Nat /\ i \in Nat
    BY DEF IsBatch, LogOK, Grouped
  <1>3. n \in 1 .. i
    BY <1>1, <1>2 DEF LogOK, Grouped, GroupedAt
  <1>4. n \in Nat /\ a \in Nat /\ a + n = i /\ i <= Len(l)
    BY <1>1, <1>2, <1>3
  <1> DEFINE G == {k \in 0 .. n : Left(l, h[k].inflight, a + k)}
  <1>5. 0 \in G
    <2>1. h[0] = [y EXCEPT !.batch = NoBatch]
      BY DEF CommitRun
    <2>2. h[0].inflight = y.inflight /\ a + 0 = i - l[i].bs
      BY <1>1, <1>4, <2>1 DEF Notes1, Fields
    <2>3. QED
      BY <1>4, <2>2
  <1>6. ASSUME NEW k \in 1 .. n, k - 1 \in G PROVE k \in G
    <2>1. PICK z, u, b, e : z = h[k - 1] /\ u = h[k] /\ b = a + (k - 1) /\ e = l[b + 1]
      OBVIOUS
    <2>2. k \in 0 .. n /\ k - 1 \in 0 .. n /\ k - 1 \in Nat /\ b \in Nat /\ b < Len(l)
          /\ b + 1 = a + k /\ b + 1 = i - l[i].bs + k
      <3>1. k \in 0 .. n /\ k - 1 \in 0 .. n /\ k - 1 \in Nat /\ b \in Nat /\ b + 1 = a + k
        BY <1>4, <2>1, SMTT(30)
      <3>2. b < Len(l)
        BY <1>2, <1>4, <2>1
      <3>3. a + k = i - l[i].bs + k
        BY <1>1
      <3>4. QED
        BY <3>1, <3>2, <3>3
    <2>3. Left(l, z.inflight, b)
      BY <1>6, <2>1
    <2>4. u = ApplyOne(z, e, leader) /\ Committing(l, c, i, x, z, k - 1)
      BY <1>1, <2>1, <2>2 DEF CommitRun
    <2>5. IsMsg(e) /\ e.m.s \in Nat
      BY <1>1, <1>2, <2>1, <2>2, BatchMsgs
    <2>6. Notes1(x, z)
      BY <1>1, <1>2, <2>1, <2>2, NotesCommit
    <2>7. e.lseq = (Size(l, i - 1) + (k - 1)) + Refused(l, i)
      <3>1. k \in 1 .. l[i].bs
        BY <1>1
      <3>2. PICK o : o = i - l[i].bs + k
        OBVIOUS
      <3>3. l[o].lseq = (Size(l, i - 1) + (k - 1)) + Refused(l, i)
        BY <1>2, <3>1, <3>2, BatchSeq
      <3>4. QED
        BY <2>1, <2>2, <3>2, <3>3
    <2>8. PICK s : s = Size(l, i - 1) + (k - 1)
      OBVIOUS
    <2>9. s \in Nat /\ Size(l, i - 1) \in Nat /\ Refused(l, i) \in Nat
      <3>1. i - 1 \in 0 .. Len(l)
        BY <1>2
      <3>2. Size(l, i - 1) \in Nat
        BY <1>2, <3>1, SizeNat
      <3>3. QED
        BY <2>2, <2>8, <3>2
    <2>10. /\ z.clfs = x.clfs /\ StoreOK(l, c, z.store) /\ s <= Len(z.store)
           /\ Len(z.store) = Size(l, i - 1) \/ Len(z.store) = s
      BY <2>4, <2>8 DEF Committing
    <2>11. z.store \in Seq(Item) /\ Len(z.store) \in Nat
      BY <2>10 DEF StoreOK
    <2>12. Len(z.store) = s
      BY <2>2, <2>8, <2>9, <2>10, <2>11
    <2>13. e.lseq = s + z.clfs /\ z.clfs \in Nat
      BY <2>7, <2>8, <2>10
    <2>14. ~AlreadyStored(z, e) /\ ~SeqMismatch(z, e)
      BY <2>9, <2>10, <2>11, <2>12, <2>13, NextMsg
    <2>15. PICK v : v = ProcessJetStreamMsg(z, e, leader)
      OBVIOUS
    <2>16. u = ClearInflight(v, e)
      BY <2>4, <2>14, <2>15 DEF ApplyOne
    <2>17. Keeps(z, v)
      BY <2>6, <2>15, KeepsProcess DEF Notes1
    <2>18. DOMAIN v = Fields /\ v.inflight = z.inflight /\ InflightOK(z.inflight)
      BY <2>6, <2>17 DEF Keeps, Notes1
    <2>19. Cleared(z.inflight, u.inflight, e.m.s)
      BY <2>5, <2>16, <2>18, OpsClear
    <2>20. Left(l, u.inflight, b + 1)
      BY <1>2, <2>1, <2>2, <2>3, <2>5, <2>18, <2>19, LeftStep
    <2>21. QED
      BY <2>1, <2>2, <2>20
  <1>7. n \in G
    <2> HIDE DEF G
    <2>1. QED
      BY <1>4, <1>5, <1>6, Sums!UpTo
  <1>8. w = h[n]
    BY <1>1 DEF CommitRun
  <1>9. QED
    BY <1>4, <1>7, <1>8

\* It is.
LEMMA CountAt ==
    ASSUME NEW l, LogOK(l), NEW c \in 0 .. Len(l), NEW x, NEW p, ReplicaOK(l, c, x, p, "no"),
           x.applied < c, NEW i, i = x.applied + 1, NEW e, e = l[i], IsBatch(e),
           NEW y, y = CountBatchMsg(x, e, i)
    PROVE  CountedAt(l, i, x, y, e)
  BY CountIs DEF CountedAt

\* The entry that completes a batch.
LEMMA TrackApplyBatch ==
    ASSUME TrackInv, GroupInv', NEW r \in Replica, ApplyBatch(r)
    PROVE  TrackInv'
  <1>1. PICK x, i, y, z, w : /\ x = m[r] /\ i = x.applied + 1 /\ y = CountBatchMsg(x, log[i], i)
                             /\ z = ApplyBatchCommit(y, i, r = elected)
                             /\ w = [z EXCEPT !.applied = i]
    OBVIOUS
  <1>2. /\ m' = [m EXCEPT ![r] = w] /\ UNCHANGED <<log, aflr, elected, post>>
        /\ x.applied < commit /\ halted[r] = "no" /\ log[i].op = "batchCommit" /\ post[r] = NoEntry
    BY <1>1 DEF ApplyBatch, CanApply, NextEntry, raftVars
  <1>3. PICK g : halted' = [halted EXCEPT ![r] = g]
    BY DEF ApplyBatch
  <1>4. /\ DOMAIN x = Fields /\ DOMAIN m = Replica /\ NotesOK(x, NoEntry) /\ DOMAIN post = Replica
        /\ r = elected => LeadsOK(log, aflr, x, NoEntry, "no")
    BY <1>1, <1>2, OnePost
  <1>5. /\ LogOK(log) /\ Grouped(log) /\ log \in Seq(Entry) /\ commit \in 0 .. Len(log)
        /\ ReplicaOK(log, commit, x, replay[r], "no") /\ x.applied \in 0 .. commit
        /\ DOMAIN halted = Replica /\ IdsOK(x.dd, x.store) /\ Len(x.store) \in Nat
    BY <1>1, <1>2, OfReplica DEF TrackInv
  <1>6. /\ DOMAIN m' = Replica /\ m'[r] = w /\ \A q \in Replica \ {r} : m'[q] = m[q]
        /\ DOMAIN post' = Replica /\ post'[r] = NoEntry /\ \A q \in Replica \ {r} : post'[q] = post[q]
        /\ halted'[r] = g /\ \A q \in Replica \ {r} : halted'[q] = halted[q]
    BY <1>2, <1>3, <1>4, <1>5
  <1>7. PICK e : e = log[i]
    OBVIOUS
  <1>8. IsBatch(e) /\ i \in 1 .. commit /\ i \in 1 .. Len(log) /\ i <= Len(log) /\ i - 1 = x.applied
    BY <1>1, <1>2, <1>5, <1>7 DEF IsBatch
  <1>9. /\ DOMAIN y = Fields /\ y.store = x.store /\ y.clfs = x.clfs
        /\ y.batch = [id |-> e.b, count |-> e.bs, from |-> i - e.bs + 1]
        /\ y.applied = x.applied /\ y.active = x.active /\ y.clseq = x.clseq /\ y.dd = x.dd
        /\ Refused(log, i) = x.clfs /\ e.bs \in 1 .. i /\ e.b # 0
    <2>1. y = CountBatchMsg(x, e, i)
      BY <1>1, <1>7
    <2>2. CountedAt(log, i, x, y, e)
      BY <1>1, <1>2, <1>5, <1>7, <1>8, <2>1, CountAt
    <2>3. QED
      BY <2>2 DEF CountedAt
  <1>10. PICK b : b = [y EXCEPT !.batch = NoBatch]
    OBVIOUS
  <1>11. /\ StoreOK(log, commit, x.store) /\ Size(log, i - 1) \in Nat /\ Size(log, i - 1) <= Len(x.store)
         /\ x.clfs \in Nat
    BY <1>1, <1>2, <1>5, Running
  <1>12. Committing(log, commit, i, x, b, 0)
    BY <1>5, <1>9, <1>10, <1>11 DEF Committing, Fields
  <1>13. PICK h : CommitRun(log, commit, i, x, y, z, r = elected, h)
    <2>1. y.batch.id # 0 /\ y.batch.from = i - log[i].bs + 1
      BY <1>7, <1>9
    <2>2. Committing(log, commit, i, x, [y EXCEPT !.batch = NoBatch], 0)
      BY <1>10, <1>12
    <2>3. \E h : CommitRun(log, commit, i, x, y, ApplyBatchCommit(y, i, r = elected), r = elected, h)
      BY <1>2, <1>5, <1>8, <1>9, <2>1, <2>2, CommitSteps
    <2>4. QED
      BY <1>1, <2>3
  <1>14. Keeps(x, y)
    BY <1>1, <1>4, KeepsCount
  <1>15. Notes1(x, y) /\ y.inflight = x.inflight
    BY <1>4, <1>14 DEF Notes1, Keeps, NotesOK, Quiet
  <1>16. Notes1(x, z) /\ z.batch = NoBatch
    <2>1. log[i].bs \in 0 .. log[i].bs /\ z = h[log[i].bs]
      BY <1>7, <1>9, <1>13 DEF CommitRun
    <2>2. Notes1(x, h[log[i].bs])
      BY <1>2, <1>5, <1>8, <1>13, <1>15, <2>1, NotesCommit
    <2>3. Committing(log, commit, i, x, z, log[i].bs)
      BY <1>13, <2>1 DEF CommitRun
    <2>4. QED
      BY <2>1, <2>2, <2>3 DEF Committing
  <1>17. /\ w.inflight = z.inflight /\ w.expected = z.expected /\ w.active = x.active
         /\ w.applied = i /\ w.batch = NoBatch
    BY <1>1, <1>16 DEF Notes1, Fields
  <1>18. NotesOK(w, NoEntry)
    BY <1>16, <1>17 DEF NotesOK, Notes1, PostOK, Quiet
  <1>19. ASSUME r = elected, x.active PROVE Tracks(log, w, NoEntry)
    <2>1. Leading(r)
      BY <1>1, <1>2, <1>19, LeadingIs
    <2>2. /\ x.applied \in 0 .. Len(log) /\ Len(log) \in Nat /\ Len(x.store) = Size(log, i - 1)
          /\ x.batch = BatchAt(log, x.applied) /\ Tracks(log, x, NoEntry)
      BY <1>1, <1>2, <1>8, <2>1 DEF Leading
    <2>3. SnapshotIndex(x) = i - log[i].bs
      BY <1>1, <1>5, <1>7, <1>8, <2>2, OpenFrom
    <2>4. i - log[i].bs \in Nat
      BY <1>7, <1>8, <1>9
    <2>5. Left(log, y.inflight, i - log[i].bs)
      <3>1. ASSUME NEW s \in Nat
            PROVE  OpsOf(y.inflight, s) = CountIn(log, i - log[i].bs, Len(log), s)
        <4>1. PICK n : n = CountIn(log, i - log[i].bs, Len(log), s)
          OBVIOUS
        <4>2. n \in Nat
          BY <2>2, <2>4, <4>1, CountNat
        <4>3. OpsOf(x.inflight, s) = n + Posted(NoEntry, s) /\ Posted(NoEntry, s) = 0
          BY <2>2, <2>3, <4>1 DEF Tracks, Posted
        <4>4. QED
          BY <1>15, <4>1, <4>2, <4>3
      <3>2. QED
        BY <3>1, Zenon DEF Left
    <2>6. Left(log, z.inflight, i)
      BY <1>2, <1>5, <1>8, <1>9, <1>11, <1>13, <1>15, <2>2, <2>5, LeftCommit
    <2>7. SnapshotIndex(w) = i
      BY <1>17 DEF SnapshotIndex, NoBatch
    <2>8. ASSUME NEW s \in Nat
          PROVE  OpsOf(w.inflight, s)
                   = CountIn(log, SnapshotIndex(w), Len(log), s) + Posted(NoEntry, s)
      <3>1. PICK n : n = CountIn(log, i, Len(log), s)
        OBVIOUS
      <3>2. n \in Nat /\ Posted(NoEntry, s) = 0
        BY <1>8, <2>2, <3>1, CountNat DEF Posted
      <3>3. OpsOf(w.inflight, s) = n
        BY <1>17, <2>6, <3>1 DEF Left
      <3>4. QED
        BY <2>7, <3>1, <3>2, <3>3
    <2>9. QED
      BY <2>8, Zenon DEF Tracks
  <1>20. r = elected => LeadsOK(log, aflr, w, NoEntry, g)
    BY <1>4, <1>17, <1>19 DEF LeadsOK
  <1>21. UNCHANGED <<log, aflr, elected>>
    BY <1>2
  <1>22. QED
    BY <1>6, <1>18, <1>20, <1>21, TrackOne, Zenon

\* A replica that is told that it leads has nothing to note: the log has no message
\* since the first entry of its term.
LEMMA TrackProcessLeaderChange ==
    ASSUME TrackInv, GroupInv', NEW r \in Replica, ProcessLeaderChange(r)
    PROVE  TrackInv'
  <1>1. PICK x, w : x = m[r] /\ w = [ForgetProposals(x) EXCEPT !.active = ~@]
    OBVIOUS
  <1>2. /\ m' = [m EXCEPT ![r] = w] /\ UNCHANGED <<log, aflr, elected, post, halted>>
        /\ halted[r] = "no" /\ post[r] = NoEntry
    BY <1>1 DEF ProcessLeaderChange, raftVars
  <1>3. x.active # (r = elected /\ leaderState)
    BY <1>1 DEF ProcessLeaderChange
  <1>4. /\ DOMAIN x = Fields /\ DOMAIN m = Replica /\ DOMAIN post = Replica
        /\ r = elected => LeadsOK(log, aflr, x, NoEntry, "no")
        /\ x.active \in BOOLEAN /\ GroupInv
    BY <1>1, <1>2, OnePost
  <1>5. /\ DOMAIN m' = Replica /\ m'[r] = w /\ \A q \in Replica \ {r} : m'[q] = m[q]
        /\ DOMAIN post' = Replica /\ post'[r] = NoEntry /\ \A q \in Replica \ {r} : post'[q] = post[q]
        /\ halted'[r] = "no" /\ \A q \in Replica \ {r} : halted'[q] = halted[q]
    BY <1>2, <1>4
  <1>6. /\ w.inflight = EmptyFcn /\ w.expected = EmptyFcn /\ w.active = ~x.active
        /\ w.batch = x.batch /\ w.applied = x.applied
    BY <1>1, <1>4 DEF ForgetProposals, Fields
  <1>7. NotesOK(w, NoEntry)
    BY <1>6, OpsNone DEF NotesOK, PostOK, Quiet
  <1>8. ASSUME r = elected PROVE LeadsOK(log, aflr, w, NoEntry, "no")
    <2>1. LeaderOK(log, aflr, x, replay[r], leaderState)
      BY <1>1, <1>4, <1>8, OfReplica, Zenon
    <2>2. leaderState \in BOOLEAN /\ (x.active => leaderState)
      BY <2>1, Zenon DEF LeaderOK
    <2>3. ~x.active /\ leaderState
      BY <1>3, <1>4, <1>8, <2>2, Zenon
    <2>4. aflr \in 1 .. Len(log) /\ x.applied >= aflr
      BY <2>1, <2>3, Zenon DEF LeaderOK
    <2>5. /\ \A i \in aflr + 1 .. Len(log) : log[i].op # "empty"
          /\ \A i \in aflr .. Len(log) : ~IsMsg(log[i])
      BY <1>4, <1>8, <2>3, Zenon DEF LeadsOK
    <2>6. /\ Grouped(log) /\ Len(log) \in Nat /\ x.applied \in 0 .. Len(log)
          /\ ReplicaOK(log, commit, x, replay[r], "no")
      <3>1. /\ Grouped(log) /\ log \in Seq(Entry) /\ commit \in 0 .. Len(log)
            /\ x.applied \in 0 .. commit /\ ReplicaOK(log, commit, x, replay[r], "no")
        BY <1>1, <1>2, <1>4, OfReplica
      <3>2. QED
        BY <3>1
    <2>7. x.batch = BatchAt(log, x.applied)
      BY <2>6 DEF ReplicaOK, RunOK
    <2>8. Open(log, x.applied) = 0
      <3>1. x.applied \in aflr .. Len(log)
        BY <2>4, <2>6
      <3>2. ~IsMsg(log[x.applied])
        BY <2>5, <3>1
      <3>3. QED
        BY <3>2 DEF Open, IsMsg
    <2>9. SnapshotIndex(w) = w.applied - Open(log, w.applied)
      BY <1>6, <2>6, <2>7, SnapshotAt
    <2>10. SnapshotIndex(w) = x.applied
      BY <1>6, <2>6, <2>8, <2>9
    <2>11. ASSUME NEW s \in Nat
           PROVE  OpsOf(w.inflight, s)
                    = CountIn(log, SnapshotIndex(w), Len(log), s) + Posted(NoEntry, s)
      <3>1. \A i \in x.applied + 1 .. Len(log) : ~Hit(log[i], s)
        BY <2>4, <2>5, <2>6 DEF Hit
      <3>2. CountIn(log, x.applied, Len(log), s) = 0
        BY <2>6, <3>1, CountNone
      <3>3. OpsOf(w.inflight, s) = 0 /\ Posted(NoEntry, s) = 0
        BY <1>6, OpsNone DEF Posted
      <3>4. QED
        BY <2>10, <3>2, <3>3
    <2>12. Tracks(log, w, NoEntry)
      BY <2>11, Zenon DEF Tracks
    <2>13. w.active
      BY <1>6, <2>3
    <2>14. QED
      BY <2>5, <2>12, <2>13, Zenon DEF LeadsOK
  <1>9. UNCHANGED <<log, aflr, elected>>
    BY <1>2
  <1>10. QED
    BY <1>5, <1>7, <1>8, <1>9, TrackOne, Zenon

\* A message is refused, and nothing noted.
LEMMA TrackPublishRefused ==
    ASSUME TrackInv, GroupInv', NEW r \in Replica, NEW p \in cfg.pubs, PublishRefused(r, p)
    PROVE  TrackInv'
  <1>1. PICK x, w : x = m[r] /\ w = WithClseq(x)
    OBVIOUS
  <1>2. m' = [m EXCEPT ![r] = w] /\ UNCHANGED <<log, aflr, elected, post, halted>> /\ CanPropose(r)
    BY <1>1 DEF PublishRefused, raftVars
  <1>3. DOMAIN x = Fields /\ GroupInv
    BY <1>1, OnePost
  <1>4. Keeps(x, w)
    BY <1>1, <1>3, KeepsOther
  <1>5. Same(x, w)
    <2>1. Numbered(log, x, w)
      BY <1>1, <1>2, <1>3, Proposing
    <2>2. QED
      BY <2>1 DEF Numbered
  <1>6. ASSUME r = elected, w.active, halted[r] = "no" PROVE Tracks(log, w, post[r])
    <2>1. m[r].active
      BY <1>1, <1>4, <1>6 DEF Keeps
    <2>2. Leading(r)
      BY <1>6, <2>1, LeadingIs
    <2>3. Tracks(log, x, post[r])
      BY <1>1, <2>2 DEF Leading
    <2>4. SnapshotIndex(w) = SnapshotIndex(x) /\ w.inflight = x.inflight
      BY <1>4, <1>5 DEF SnapshotIndex, Same, Keeps
    <2>5. QED
      BY <2>3, <2>4, Zenon DEF Tracks
  <1>7. QED
    BY <1>1, <1>2, <1>4, <1>6, TrackKept

\* A replica that does not lead starts again.
LEMMA TrackRestart ==
    ASSUME TrackInv, GroupInv', NEW r \in Replica, NEW kept, NEW gone, Restart(r, kept, gone)
    PROVE  TrackInv'
  <1>1. PICK w : w = [RebuildDedupe(InitStream, SubSeq(m[r].store, 1, kept), gone)
                         EXCEPT !.clfs = snap[r].clfs, !.applied = snap[r].idx]
    OBVIOUS
  <1>2. /\ m' = [m EXCEPT ![r] = w] /\ UNCHANGED <<log, aflr, elected, halted>>
        /\ post' = [post EXCEPT ![r] = NoEntry] /\ r # elected
    BY <1>1 DEF Restart, raftVars
  <1>3. DOMAIN m = Replica /\ DOMAIN post = Replica
    BY OnePost
  <1>4. /\ DOMAIN m' = Replica /\ m'[r] = w /\ \A q \in Replica \ {r} : m'[q] = m[q]
        /\ DOMAIN post' = Replica /\ post'[r] = NoEntry /\ \A q \in Replica \ {r} : post'[q] = post[q]
        /\ halted'[r] = halted[r] /\ \A q \in Replica \ {r} : halted'[q] = halted[q]
    BY <1>2, <1>3
  <1>5. w.inflight = EmptyFcn /\ w.expected = EmptyFcn
    BY <1>1 DEF RebuildDedupe, InitStream
  <1>6. NotesOK(w, NoEntry)
    BY <1>5, OpsNone DEF NotesOK, PostOK, Quiet
  <1>7. UNCHANGED <<log, aflr, elected>>
    BY <1>2
  <1>8. QED
    BY <1>2, <1>4, <1>6, <1>7, TrackOne, Zenon

\* A replica that does not lead takes a snapshot.
LEMMA TrackCatchup ==
    ASSUME TrackInv, GroupInv', NEW r \in Replica, Catchup(r)
    PROVE  TrackInv'
  <1>1. PICK x, w : x = m[r] /\ w = ProcessSnapshot(x, snap[elected], m[elected])
    OBVIOUS
  <1>2. m' = [m EXCEPT ![r] = w] /\ UNCHANGED <<log, aflr, elected, post, halted>> /\ r # elected
    BY <1>1 DEF Catchup, raftVars
  <1>3. DOMAIN x = Fields
    BY <1>1, OnePost
  <1>4. Keeps(x, w)
    <2>1. PICK st, go, ah, dd, cl, ap, g :
            w = [[x EXCEPT !.gone = g] EXCEPT !.store = st, !.gone = go, !.ahead = ah, !.dd = dd,
                    !.batch = NoBatch, !.clfs = cl, !.applied = ap]
      BY <1>1 DEF ProcessSnapshot, ProcessSnapshotDeletes
    <2>2. QED
      BY <1>3, <2>1 DEF Keeps, Fields
  <1>5. QED
    BY <1>1, <1>2, <1>4, TrackKept

\* The messages up to an entry and those after it.
LEMMA CountSplit ==
    ASSUME NEW l, NEW a \in Nat, NEW b \in Nat, NEW c \in Nat, a <= b, b <= c, NEW s
    PROVE  CountIn(l, a, c, s) = CountIn(l, a, b, s) + CountIn(l, b, c, s)
  <1>1. PICK A, B, C : A = Between(l, a, b, s) /\ B = Between(l, b, c, s) /\ C = Between(l, a, c, s)
    OBVIOUS
  <1>2. IsFiniteSet(A) /\ IsFiniteSet(B) /\ Cardinality(A) \in Nat /\ Cardinality(B) \in Nat
    BY <1>1, CountNat DEF CountIn
  <1>3. C = A \cup B
    BY <1>1 DEF Between
  <1>4. A \cap B = {}
    BY <1>1 DEF Between
  <1>5. Cardinality(C) = Cardinality(A) + Cardinality(B) - Cardinality(A \cap B)
    BY <1>2, <1>3, FS_Union
  <1>6. Cardinality(A \cap B) = 0
    BY <1>4, FS_EmptySet
  <1>7. Cardinality(C) = Cardinality(A) + Cardinality(B)
    BY <1>2, <1>5, <1>6
  <1>8. QED
    BY <1>1, <1>7 DEF CountIn

\* Then it still tracks its log.
LEMMA ProposesTracks ==
    ASSUME NEW l, Grouped(l), NEW k, NEW x, NEW w, NEW e, Proposes(l, k, x, w),
           x.applied \in 0 .. Len(l), x.batch = BatchAt(l, x.applied), Tracks(l, x, e)
    PROVE  Tracks(k, w, e)
  <1>1. PICK a, n, c : a = SnapshotIndex(x) /\ n = Len(l) /\ c = Len(k)
    OBVIOUS
  <1>2. Past(l, k, n) /\ l \in Seq(Entry) /\ k \in Seq(Entry)
    BY <1>1 DEF Proposes, Past
  <1>3. n \in Nat /\ c \in Nat /\ n <= c /\ \A i \in 1 .. n : l[i] = k[i]
    BY <1>1, <1>2 DEF Past
  <1>4. a \in 0 .. n
    BY <1>1, SnapshotAt
  <1>5. a \in Nat /\ a <= n
    BY <1>3, <1>4
  <1>6. SnapshotIndex(w) = a
    BY <1>1 DEF Proposes, SnapshotIndex
  <1>7. ASSUME NEW s \in Nat
        PROVE  OpsOf(w.inflight, s) = CountIn(k, a, c, s) + Posted(e, s)
    <2>1. PICK u, v, o : u = CountIn(k, a, n, s) /\ v = CountIn(k, n, c, s) /\ o = Posted(e, s)
      OBVIOUS
    <2>2. u \in Nat /\ v \in Nat /\ o \in Nat
      BY <1>3, <1>5, <2>1, CountNat DEF Posted
    <2>3. CountIn(l, a, n, s) = u
      <3>1. a \in Nat /\ n \in Nat /\ \A i \in a + 1 .. n : l[i] = k[i]
        BY <1>3, <1>5
      <3>2. Between(l, a, n, s) = Between(k, a, n, s)
        BY <3>1 DEF Between
      <3>3. QED
        BY <2>1, <3>2 DEF CountIn
    <2>4. CountIn(k, a, c, s) = u + v
      BY <1>3, <1>5, <2>1, CountSplit
    <2>5. OpsOf(x.inflight, s) = u + o
      BY <1>1, <2>1, <2>3 DEF Tracks
    <2>6. OpsOf(w.inflight, s) = (u + o) + v
      BY <1>1, <2>1, <2>5 DEF Proposes
    <2>7. (u + o) + v = (u + v) + o
      BY <2>2
    <2>8. QED
      BY <2>1, <2>4, <2>6, <2>7
  <1>8. QED
    BY <1>1, <1>6, <1>7, Zenon DEF Tracks

\* The log grows.
LEMMA TrackGrows ==
    ASSUME TrackInv, GroupInv', NEW r \in Replica, r = elected, NEW w, halted[r] = "no",
           DOMAIN m' = Replica, m'[r] = w, \A q \in Replica \ {r} : m'[q] = m[q],
           UNCHANGED <<aflr, elected, post, halted>>,
           Proposes(log, log', m[r], w), InflightOK(w.inflight),
           ~w.active => w.inflight = EmptyFcn /\ w.expected = EmptyFcn
    PROVE  TrackInv'
  <1>1. PICK l, k, x, e : l = log /\ k = log' /\ x = m[r] /\ e = post[r]
    OBVIOUS
  <1>2. /\ NotesOK(x, e) /\ LeadsOK(l, aflr, x, e, "no") /\ x.active \in BOOLEAN
        /\ DOMAIN post = Replica
    BY <1>1, OnePost
  <1>3. Past(l, k, Len(l)) /\ w.active = x.active
    BY <1>1 DEF Proposes
  <1>4. Len(l) \in Nat /\ Len(k) \in Nat /\ Len(l) <= Len(k) /\ \A i \in 1 .. Len(l) : l[i] = k[i]
    BY <1>3 DEF Past
  <1>5. aflr \in 1 .. Len(l)
    BY <1>1 DEF TrackInv, GroupInv, LeaderOK
  <1>6. NotesOK(w, e)
    BY <1>2, <1>3 DEF NotesOK, Quiet
  <1>7. ASSUME NEW i \in aflr + 1 .. Len(k) PROVE k[i].op # "empty"
    <2>1. CASE i <= Len(l)
      <3>1. i \in aflr + 1 .. Len(l) /\ i \in 1 .. Len(l)
        BY <1>4, <1>5, <2>1
      <3>2. l[i].op # "empty"
        BY <1>2, <3>1 DEF LeadsOK
      <3>3. QED
        BY <1>4, <3>1, <3>2
    <2>2. CASE ~(i <= Len(l))
      <3>1. i \in Len(l) + 1 .. Len(k)
        BY <1>4, <1>5, <2>2
      <3>2. QED
        BY <1>1, <3>1 DEF Proposes
    <2>3. QED
      BY <2>1, <2>2
  <1>8. ASSUME ~w.active, NEW i \in aflr .. Len(k) PROVE ~IsMsg(k[i])
    <2>1. CASE i <= Len(l)
      <3>1. i \in aflr .. Len(l) /\ i \in 1 .. Len(l)
        BY <1>4, <1>5, <2>1
      <3>2. ~IsMsg(l[i])
        BY <1>2, <1>3, <1>8, <3>1 DEF LeadsOK
      <3>3. QED
        BY <1>4, <3>1, <3>2
    <2>2. CASE ~(i <= Len(l))
      <3>1. i \in Len(l) + 1 .. Len(k)
        BY <1>4, <1>5, <2>2
      <3>2. QED
        BY <1>1, <1>3, <1>8, <3>1 DEF Proposes
    <2>3. QED
      BY <2>1, <2>2
  <1>9. ASSUME w.active PROVE Tracks(k, w, e)
    <2>1. m[r].active
      BY <1>1, <1>3, <1>9
    <2>2. Leading(r)
      BY <2>1, LeadingIs
    <2>3. /\ Grouped(l) /\ x.applied \in 0 .. Len(l) /\ x.batch = BatchAt(l, x.applied)
          /\ Tracks(l, x, e) /\ Proposes(l, k, x, w)
      BY <1>1, <2>2 DEF Leading
    <2>4. QED
      BY <2>3, ProposesTracks
  <1>10. LeadsOK(k, aflr, w, e, "no")
    BY <1>7, <1>8, <1>9 DEF LeadsOK
  <1>11. \A q \in Replica : NotesOK(m'[q], post'[q])
    BY <1>1, <1>6 DEF TrackInv
  <1>12. LeadsOK(log', aflr', m'[elected'], post'[elected'], halted'[elected'])
    BY <1>1, <1>10, Zenon
  <1>13. QED
    BY <1>2, <1>11, <1>12 DEF TrackInv

\* A message that is taken is noted.
LEMMA CheckNotes ==
    ASSUME NEW x, NEW d, DiffOK(d), NEW p \in Message, NEW e, e = CheckMsg(x, d, p), e.ok
    PROVE  e.inflight = Plus(d.inflight, Single(p.s))
  <1>1. CASE /\ d.ok /\ DuplicateOk(x, d, p) /\ ExpectedLastSeqOk(x, d, p)
             /\ ExpectedPerSubjectOk(x, d, p) /\ LimitOk(x, d, p)
    <2>1. PICK f, g : e = [d EXCEPT !.ids = f, !.inflight = Plus(d.inflight, Single(p.s)),
                                    !.expected = g]
      BY <1>1 DEF CheckMsg, Single
    <2>2. QED
      BY <2>1 DEF DiffOK
  <1>2. CASE ~(/\ d.ok /\ DuplicateOk(x, d, p) /\ ExpectedLastSeqOk(x, d, p)
               /\ ExpectedPerSubjectOk(x, d, p) /\ LimitOk(x, d, p))
    <2>1. PICK f : e = [d EXCEPT !.ok = FALSE, !.dup = f]
      BY <1>2 DEF CheckMsg
    <2>2. e.ok = FALSE
      BY <2>1 DEF DiffOK
    <2>3. QED
      BY <2>2
  <1>3. QED
    BY <1>1, <1>2

\* What is staged is noted.
LEMMA CommitNotes ==
    ASSUME NEW x, DOMAIN x = Fields, NEW d, NEW y, y = CommitDiff(x, d)
    PROVE  y.inflight = Plus(x.inflight, d.inflight) /\ y.active = x.active
  <1>1. PICK f, g : y = [x EXCEPT !.dd = f, !.inflight = Plus(x.inflight, d.inflight), !.expected = g]
    BY DEF CommitDiff
  <1>2. QED
    BY <1>1 DEF Fields

\* One message more.
LEMMA NotesMore ==
    ASSUME NEW k, NEW n \in Nat, NEW c \in Nat, n <= c, NEW f, NotedIn(k, n, c, f),
           NEW p \in Message, k[c + 1].m = p, IsMsg(k[c + 1]),
           NEW g, g = Plus(f, Single(p.s))
    PROVE  NotedIn(k, n, c + 1, g)
  <1>1. PICK o : o = Single(p.s)
    OBVIOUS
  <1>2. p.s \in Nat
    BY DEF Message
  <1>3. InflightOK(o) /\ \A s : OpsOf(o, s) = IF s = p.s THEN 1 ELSE 0
    BY <1>1, <1>2, OpsSingle DEF Single
  <1>4. InflightOK(f)
    BY DEF NotedIn
  <1>5. g = Plus(f, o)
    BY <1>1
  <1>0. InflightOK(o)
    BY <1>3
  <1>6. InflightOK(g) /\ \A s : OpsOf(g, s) = OpsOf(f, s) + OpsOf(o, s)
    BY <1>0, <1>4, <1>5, OpsPlus
  <1>7. ASSUME NEW s \in Nat PROVE OpsOf(g, s) = CountIn(k, n, c + 1, s)
    <2>1. c + 1 \in Nat /\ n < c + 1 /\ (c + 1) - 1 = c
      OBVIOUS
    <2>2. PICK d : d = c + 1
      OBVIOUS
    <2>3. CountIn(k, n, d, s) = CountIn(k, n, d - 1, s) + One(k[d], s)
      BY <2>1, <2>2, CountLast
    <2>4. CountIn(k, n, d, s) = CountIn(k, n, c, s) + One(k[d], s)
      BY <2>1, <2>2, <2>3
    <2>5. One(k[d], s) = OpsOf(o, s)
      BY <1>3, <2>2 DEF One, Hit
    <2>6. OpsOf(f, s) = CountIn(k, n, c, s)
      BY DEF NotedIn
    <2>7. QED
      BY <1>6, <2>2, <2>4, <2>5, <2>6
  <1>8. QED
    BY <1>6, <1>7 DEF NotedIn

\* Nothing is noted at first.
LEMMA NotesNone ==
    ASSUME NEW k, NEW n \in Nat
    PROVE  NotedIn(k, n, n, EmptyFcn)
  <1>1. ASSUME NEW s \in Nat PROVE CountIn(k, n, n, s) = 0
    <2>1. \A i \in n + 1 .. n : ~Hit(k[i], s)
      OBVIOUS
    <2>2. QED
      BY <2>1, CountNone
  <1>2. QED
    BY <1>1, OpsNone DEF NotedIn

\* The leader notes what it appends to the log.
LEMMA TrackProposed ==
    ASSUME TrackInv, GroupInv', NEW r \in Replica, CanPropose(r), NEW w, NEW f,
           m' = [m EXCEPT ![r] = w], UNCHANGED <<aflr, elected, post, halted>>,
           Past(log, log', Len(log)), \A i \in Len(log) + 1 .. Len(log') : IsMsg(log'[i]),
           Same(m[r], w), w.inflight = Plus(m[r].inflight, f), NotedIn(log', Len(log), Len(log'), f)
    PROVE  TrackInv'
  <1>1. /\ DOMAIN m = Replica /\ DOMAIN m[r] = Fields /\ GroupInv /\ InflightOK(m[r].inflight)
    BY OnePost
  <1>2. r = elected /\ halted[r] = "no" /\ m[r].active = TRUE
    BY <1>1, Proposing
  <1>3. DOMAIN m' = Replica /\ m'[r] = w /\ \A q \in Replica \ {r} : m'[q] = m[q]
    BY <1>1, OneValue
  <1>4. InflightOK(f)
    BY DEF NotedIn
  <1>5. InflightOK(w.inflight) /\ \A s : OpsOf(w.inflight, s) = OpsOf(m[r].inflight, s) + OpsOf(f, s)
    BY <1>1, <1>4, OpsPlus
  <1>6. ASSUME NEW s \in Nat
        PROVE  OpsOf(w.inflight, s) = OpsOf(m[r].inflight, s) + CountIn(log', Len(log), Len(log'), s)
    BY <1>5 DEF NotedIn
  <1>7. w.active = TRUE /\ w.batch = m[r].batch /\ w.applied = m[r].applied
    BY <1>2 DEF Same
  <1>8. \A i \in Len(log) + 1 .. Len(log') : log'[i].op # "empty"
    BY DEF IsMsg
  <1>9. Proposes(log, log', m[r], w)
    <2>1. w.active = m[r].active /\ m[r].active = TRUE
      BY <1>2, <1>7
    <2>2. QED
      BY <1>6, <1>7, <1>8, <2>1, Zenon DEF Proposes
  <1>10. QED
    BY <1>2, <1>3, <1>5, <1>7, <1>9, TrackGrows

\* A message is proposed.
LEMMA TrackPublish ==
    ASSUME TrackInv, GroupInv', NEW r \in Replica, NEW p \in cfg.pubs, Publish(r, p)
    PROVE  TrackInv'
  <1>1. GroupInv /\ CanPropose(r) /\ UNCHANGED <<aflr, elected, post, halted>>
    BY DEF Publish, TrackInv
  <1>2. PICK x, y, d, z, w : /\ x = m[r] /\ y = WithClseq(x) /\ d = CheckMsg(y, NoDiff, p)
                             /\ z = CommitDiff(y, d) /\ w = [z EXCEPT !.clseq = @ + 1]
    OBVIOUS
  <1>3. PICK e : e = [op |-> "msg", m |-> p, lseq |-> y.clseq, b |-> 0, bs |-> 0]
    OBVIOUS
  <1>4. log' = Append(log, e) /\ d.ok /\ m' = [m EXCEPT ![r] = w]
    BY <1>2, <1>3 DEF Publish
  <1>5. Numbered(log, x, y)
    BY <1>1, <1>2, Proposing
  <1>6. Same(x, y) /\ y.dd = x.dd /\ DOMAIN y = Fields /\ p \in Message
    BY <1>1, <1>5, OfConfig DEF Numbered, Same
  <1>7. /\ log \in Seq(Entry) /\ log' \in Seq(Entry) /\ Len(log) \in Nat
        /\ IdsOK(y.dd, x.store) /\ DOMAIN x = Fields
    BY <1>1, <1>2, <1>6, OfReplica DEF GroupInv, LogOK, Grouped
  <1>8. DiffOK(d)
    BY <1>2, <1>6, CheckOK, NoDiffOK
  <1>9. Staged(y, z, x.store)
    BY <1>2, <1>6, <1>7, <1>8, CommitDiffSame
  <1>10. Same(x, w) /\ w.inflight = z.inflight
    BY <1>2, <1>6, <1>9 DEF Staged, Same, Fields
  <1>11. z.inflight = Plus(y.inflight, d.inflight)
    BY <1>2, <1>6, CommitNotes
  <1>12. y.inflight = x.inflight
    BY <1>2, <1>7, KeepsOther DEF Keeps
  <1>13. d.inflight = Plus(EmptyFcn, Single(p.s))
    <2>1. PICK o : o = NoDiff
      OBVIOUS
    <2>3. DiffOK(o) /\ o.inflight = EmptyFcn
      BY <2>1, NoDiffOK DEF NoDiff
    <2>4. d = CheckMsg(y, o, p)
      BY <1>2, <2>1
    <2>2. d.inflight = Plus(o.inflight, Single(p.s))
      BY <1>4, <1>6, <2>3, <2>4, CheckNotes
    <2>5. QED
      BY <2>2, <2>3
  <1>14. PICK k, n : k = log' /\ n = Len(log)
    OBVIOUS
  <1>15. n \in Nat /\ Len(k) = n + 1 /\ k[n + 1] = e /\ Past(log, k, n)
    BY <1>4, <1>7, <1>14 DEF Past
  <1>16. IsMsg(k[n + 1]) /\ k[n + 1].m = p
    BY <1>3, <1>15 DEF IsMsg
  <1>17. NotedIn(k, n, n, EmptyFcn)
    BY <1>15, NotesNone
  <1>18. NotedIn(k, n, n + 1, d.inflight)
    <2>1. PICK g : g = d.inflight
      OBVIOUS
    <2>2. g = Plus(EmptyFcn, Single(p.s)) /\ n <= n
      BY <1>13, <1>15, <2>1
    <2>3. NotedIn(k, n, n + 1, g)
      BY <1>6, <1>15, <1>16, <1>17, <2>2, NotesMore
    <2>4. QED
      BY <2>1, <2>3
  <1>19. \A i \in n + 1 .. Len(k) : IsMsg(k[i])
    BY <1>15, <1>16
  <1>20. /\ Past(log, log', Len(log)) /\ \A i \in Len(log) + 1 .. Len(log') : IsMsg(log'[i])
         /\ NotedIn(log', Len(log), Len(log'), d.inflight)
    BY <1>14, <1>15, <1>18, <1>19
  <1>21. Same(m[r], w) /\ w.inflight = Plus(m[r].inflight, d.inflight)
    BY <1>2, <1>10, <1>11, <1>12
  <1>22. QED
    BY <1>1, <1>4, <1>20, <1>21, TrackProposed

\* The checks of a batch note its messages.
LEMMA StepsNotes ==
    ASSUME NEW x, NEW b \in Seq(Message), NEW w, NEW g, NEW f, Steps(x, b, w, g, f), w.d.ok,
           NEW k, NEW n \in Nat,
           \A j \in 1 .. Len(b) : k[n + j].m = b[j] /\ IsMsg(k[n + j])
    PROVE  NotedIn(k, n, n + Len(b), w.d.inflight)
  <1>1. PICK c : c = Len(b)
    OBVIOUS
  <1>2. c \in Nat /\ DOMAIN b = 1 .. c /\ f[0] = NoDiff /\ w.d = f[c]
    BY <1>1 DEF Steps
  <1> DEFINE G == {j \in 0 .. c : NotedIn(k, n, n + j, f[j].inflight)}
  <1>3. 0 \in G
    <2>1. f[0].inflight = EmptyFcn /\ n + 0 = n
      BY <1>2 DEF NoDiff
    <2>2. NotedIn(k, n, n, EmptyFcn)
      BY NotesNone
    <2>3. QED
      BY <1>2, <2>1, <2>2
  <1>4. ASSUME NEW j \in 1 .. c, j - 1 \in G PROVE j \in G
    <2>1. PICK i, d, e, p : i = n + (j - 1) /\ d = f[j - 1] /\ e = f[j] /\ p = b[j]
      OBVIOUS
    <2>2. /\ j - 1 \in 0 .. c /\ j \in 0 .. c /\ j \in 1 .. Len(b) /\ i \in Nat /\ n <= i
          /\ i + 1 = n + j /\ p \in Message
      BY <1>1, <1>2, <2>1
    <2>3. e = CheckMsg(g[j - 1], d, p) /\ DiffOK(d)
      BY <1>1, <2>1, <2>2 DEF Steps
    <2>4. e.ok
      BY <2>1, <2>2, StepsTaken
    <2>5. e.inflight = Plus(d.inflight, Single(p.s))
      BY <2>2, <2>3, <2>4, CheckNotes
    <2>6. k[i + 1].m = p /\ IsMsg(k[i + 1])
      BY <2>1, <2>2
    <2>7. NotedIn(k, n, i, d.inflight)
      BY <1>4, <2>1
    <2>8. NotedIn(k, n, i + 1, e.inflight)
      BY <2>2, <2>5, <2>6, <2>7, NotesMore
    <2>9. QED
      BY <2>1, <2>2, <2>8
  <1>5. c \in G
    <2> HIDE DEF G
    <2>1. QED
      BY <1>2, <1>3, <1>4, Sums!UpTo
  <1>6. QED
    BY <1>1, <1>2, <1>5

\* A batch is proposed.
LEMMA TrackPublishBatch ==
    ASSUME TrackInv, GroupInv', NEW r \in Replica, NEW b \in cfg.batches, PublishBatch(r, b)
    PROVE  TrackInv'
  <1>1. GroupInv /\ CanPropose(r) /\ UNCHANGED <<aflr, elected, post, halted>>
    BY DEF PublishBatch, TrackInv
  <1>2. PICK x, y, v, w : /\ x = m[r] /\ y = WithClseq(x) /\ v = CheckBatch(y, b)
                          /\ w = CommitDiff(v.x, v.d)
    OBVIOUS
  <1>3. PICK l, k, n : l = log /\ k = log' /\ n = Len(log)
    OBVIOUS
  <1>4. k = l \o BatchEntries(y, b, batches + 1) /\ v.d.ok /\ m' = [m EXCEPT ![r] = w]
    BY <1>2, <1>3 DEF PublishBatch
  <1>5. Numbered(log, x, y)
    BY <1>1, <1>2, Proposing
  <1>6. y.clseq \in Nat /\ DOMAIN y = Fields /\ Same(x, y) /\ y.dd = x.dd
    BY <1>5 DEF Numbered, Same
  <1>7. b \in Seq(Message) /\ Len(b) > 0 /\ Len(b) \in Nat
    BY <1>1, OfConfig
  <1>8. /\ LogOK(l) /\ l \in Seq(Entry) /\ k \in Seq(Entry) /\ n \in Nat /\ n = Len(l)
        /\ IdsOK(x.dd, x.store) /\ DOMAIN x = Fields
    BY <1>1, <1>2, <1>3, OfReplica DEF GroupInv, LogOK, Grouped
  <1>9. PICK g, f : Steps(y, b, v, g, f)
    BY <1>2, <1>6, <1>7, CheckSteps
  <1>10. /\ y.clseq = Proposed(l, Len(l)) /\ \A p \in ToSet(b) : p.elm = 0
         /\ batches + 1 \in Nat \ {0}
    BY <1>1, <1>3, <1>5 DEF PublishBatch, GroupInv, Numbered
  <1>11. Longer(l, k, b)
    BY <1>4, <1>7, <1>8, <1>10, BatchLonger
  <1>12. Len(k) = n + Len(b) /\ Past(l, k, n)
    BY <1>8, <1>11 DEF Longer
  <1>13. ASSUME NEW j \in 1 .. Len(b) PROVE k[n + j].m = b[j] /\ IsMsg(k[n + j])
    <2>1. EntryOf(k[n + j], y, b, batches + 1, j)
      BY <1>4, <1>7, <1>8, BatchEntryIs
    <2>2. QED
      BY <2>1 DEF EntryOf, IsMsg
  <1>14. NotedIn(k, n, n + Len(b), v.d.inflight)
    BY <1>4, <1>7, <1>8, <1>9, <1>13, StepsNotes
  <1>15. ASSUME NEW i \in n + 1 .. Len(k) PROVE IsMsg(k[i])
    <2>1. i - n \in 1 .. Len(b) /\ n + (i - n) = i
      BY <1>7, <1>8, <1>12
    <2>2. QED
      BY <1>13, <2>1
  <1>16. Alike(y, v.x) /\ DiffOK(v.d)
    <2>1. Len(b) \in 0 .. Len(b)
      BY <1>7
    <2>2. QED
      BY <1>9, <2>1 DEF Steps
  <1>17. DOMAIN v.x = Fields /\ v.x.dd = x.dd /\ v.x.inflight = y.inflight /\ Same(x, v.x)
    BY <1>6, <1>16 DEF Alike, Same
  <1>18. Staged(v.x, w, x.store)
    BY <1>2, <1>8, <1>16, <1>17, CommitDiffSame
  <1>19. Same(x, w)
    BY <1>17, <1>18 DEF Staged, Same
  <1>20. w.inflight = Plus(v.x.inflight, v.d.inflight)
    BY <1>2, <1>17, CommitNotes
  <1>21. y.inflight = x.inflight
    BY <1>2, <1>8, KeepsOther DEF Keeps
  <1>22. /\ Past(log, log', Len(log)) /\ \A i \in Len(log) + 1 .. Len(log') : IsMsg(log'[i])
         /\ NotedIn(log', Len(log), Len(log'), v.d.inflight)
    BY <1>3, <1>12, <1>14, <1>15
  <1>23. Same(m[r], w) /\ w.inflight = Plus(m[r].inflight, v.d.inflight)
    BY <1>2, <1>17, <1>19, <1>20, <1>21
  <1>24. QED
    BY <1>1, <1>4, <1>22, <1>23, TrackProposed

\* A request is no message.
LEMMA TrackRequest ==
    ASSUME TrackInv, GroupInv', NEW r \in Replica, NEW q \in cfg.removals,
           MsgDeleteRequest(r, q) \/ StreamPurgeRequest(r, q)
    PROVE  TrackInv'
  <1>1. /\ GroupInv /\ UNCHANGED <<aflr, elected, post, halted, m>> /\ r = elected
        /\ halted[r] = "no"
    BY DEF MsgDeleteRequest, StreamPurgeRequest, TrackInv, CanRequest
  <1>2. log \in Seq(Entry) /\ log' \in Seq(Entry) /\ Len(log) \in Nat
    BY <1>1 DEF GroupInv, LogOK, Grouped
  <1>3. PICK e : log' = Append(log, e) /\ e.op \in {"delete", "purge"}
    <2>1. CASE MsgDeleteRequest(r, q)
      BY <2>1 DEF MsgDeleteRequest
    <2>2. CASE StreamPurgeRequest(r, q)
      <3>1. PICK e : e = [op |-> "purge", s |-> q.s, seq |-> q.seq, keep |-> q.keep,
                          lseq |-> Len(m[r].store)]
        OBVIOUS
      <3>2. e.op = "purge" /\ log' = Append(log, e)
        BY <2>2, <3>1 DEF StreamPurgeRequest
      <3>3. QED
        BY <3>2
    <2>3. QED
      BY <2>1, <2>2
  <1>4. PICK k, n, x : k = log' /\ n = Len(log) /\ x = m[r]
    OBVIOUS
  <1>5. n \in Nat /\ Len(k) = n + 1 /\ k[n + 1] = e /\ Past(log, k, n)
    BY <1>2, <1>3, <1>4 DEF Past
  <1>6. \A i \in n + 1 .. Len(k) : k[i].op # "empty" /\ ~IsMsg(k[i])
    BY <1>3, <1>5 DEF IsMsg
  <1>7. NotesOK(x, post[r]) /\ InflightOK(x.inflight) /\ DOMAIN m = Replica
    BY <1>4, OnePost
  <1>8. ASSUME NEW s \in Nat PROVE OpsOf(x.inflight, s) = OpsOf(x.inflight, s) + CountIn(k, n, Len(k), s)
    <2>1. \A i \in n + 1 .. Len(k) : ~Hit(k[i], s)
      BY <1>6 DEF Hit
    <2>2. Len(k) \in Nat
      BY <1>5
    <2>3. CountIn(k, n, Len(k), s) = 0
      BY <1>5, <2>1, <2>2, CountNone
    <2>4. PICK o : o = OpsOf(x.inflight, s)
      OBVIOUS
    <2>5. o \in Nat
      BY <1>7, <2>4, OpsNat
    <2>6. QED
      BY <2>3, <2>4, <2>5
  <1>9. Proposes(log, k, x, x)
    BY <1>4, <1>5, <1>6, <1>8, Zenon DEF Proposes
  <1>10. ~x.active => x.inflight = EmptyFcn /\ x.expected = EmptyFcn
    BY <1>7 DEF NotesOK, Quiet
  <1>11. DOMAIN m' = Replica /\ m'[r] = x /\ \A u \in Replica \ {r} : m'[u] = m[u]
    BY <1>1, <1>4, <1>7
  <1>12. Proposes(log, log', m[r], x)
    BY <1>4, <1>9
  <1>13. QED
    BY <1>1, <1>7, <1>10, <1>11, <1>12, TrackGrows

\* A new leader has noted nothing, and its log ends with its first entry.
LEMMA TrackLeader ==
    ASSUME TrackInv, GroupInv', NEW r \in Replica, NEW n \in 0 .. cfg.len, LeaderChange(r, n)
    PROVE  TrackInv'
  <1>1. /\ GroupInv /\ aflr' = n + 1 /\ log' = Append(SubSeq(log, 1, n), [op |-> "empty"])
        /\ n \in commit .. Len(log) /\ commit \in 0 .. Len(log) /\ elected' = r /\ ~m[r].active
        /\ UNCHANGED <<m, post, halted>>
    BY DEF LeaderChange, TrackInv, GroupInv
  <1>2. LogOK(log) /\ Len(log) \in Nat /\ n \in 0 .. Len(log) /\ n \in Nat
    BY <1>1 DEF LogOK, Grouped, GroupInv
  <1>3. PICK k, a : k = log' /\ a = n + 1
    OBVIOUS
  <1>4. LogOK(k) /\ Past(log, k, n) /\ Len(k) = n + 1
    BY <1>1, <1>2, <1>3, LogCut
  <1>5. k[n + 1] = [op |-> "empty"]
    BY <1>1, <1>2, <1>3 DEF LogOK, Grouped
  <1>6. /\ \A i \in a + 1 .. Len(k) : k[i].op # "empty"
        /\ \A i \in a .. Len(k) : ~IsMsg(k[i])
    BY <1>2, <1>3, <1>4, <1>5 DEF IsMsg
  <1>7. LeadsOK(k, a, m[r], post[r], halted[r])
    BY <1>1, <1>6, Zenon DEF LeadsOK
  <1>8. LeadsOK(log', aflr', m'[elected'], post'[elected'], halted'[elected'])
    BY <1>1, <1>3, <1>7, Zenon
  <1>9. QED
    BY <1>1, <1>8, Zenon DEF TrackInv

\* Steps that change nothing of it.
LEMMA TrackSame ==
    ASSUME TrackInv, GroupInv', UNCHANGED <<log, aflr, elected, m, post, halted>>
    PROVE  TrackInv'
  BY Zenon DEF TrackInv

\* At first nothing is noted.
LEMMA TrackInit ==
    ASSUME Init
    PROVE  TrackInv
  <1>1. GroupInv
    BY InvInit
  <1>2. /\ log = <<[op |-> "empty"]>> /\ aflr = 1 /\ m = [r \in Replica |-> InitStream]
        /\ post = [r \in Replica |-> NoEntry] /\ elected \in Replica
    BY DEF Init
  <1>3. Len(log) = 1 /\ log[1].op = "empty"
    BY <1>2
  <1>4. ~InitStream.active /\ InitStream.inflight = EmptyFcn /\ InitStream.expected = EmptyFcn
    BY DEF InitStream
  <1>5. NotesOK(InitStream, NoEntry)
    BY <1>4, OpsNone DEF NotesOK, PostOK, Quiet
  <1>6. /\ \A i \in aflr + 1 .. Len(log) : log[i].op # "empty"
        /\ \A i \in aflr .. Len(log) : ~IsMsg(log[i])
    BY <1>2, <1>3 DEF IsMsg
  <1>7. LeadsOK(log, aflr, InitStream, NoEntry, halted[elected])
    BY <1>4, <1>6, Zenon DEF LeadsOK
  <1>8. m[elected] = InitStream /\ post[elected] = NoEntry
    BY <1>2
  <1>9. LeadsOK(log, aflr, m[elected], post[elected], halted[elected])
    BY <1>7, <1>8, Zenon
  <1>10. \A r \in Replica : NotesOK(m[r], post[r])
    BY <1>2, <1>5
  <1>11. QED
    BY <1>1, <1>2, <1>9, <1>10 DEF TrackInv

\* Every step keeps it.
LEMMA TrackNext ==
    ASSUME TrackInv, [Next]_vars
    PROVE  TrackInv'
  <1>1. GroupInv'
    BY InvNext DEF TrackInv
  <1>2. CASE UNCHANGED vars
    BY <1>1, <1>2, TrackSame DEF vars, raftVars
  <1>3. CASE Commit
    BY <1>1, <1>3, TrackSame DEF Commit
  <1>4. ASSUME NEW r \in Replica, NEW p \in cfg.pubs, Publish(r, p) \/ PublishRefused(r, p)
        PROVE  TrackInv'
    BY <1>1, <1>4, TrackPublish, TrackPublishRefused
  <1>5. ASSUME NEW r \in Replica, NEW b \in cfg.batches, PublishBatch(r, b) PROVE TrackInv'
    BY <1>1, <1>5, TrackPublishBatch
  <1>6. ASSUME NEW r \in Replica, NEW q \in cfg.removals,
               MsgDeleteRequest(r, q) \/ StreamPurgeRequest(r, q)
        PROVE  TrackInv'
    BY <1>1, <1>6, TrackRequest
  <1>7. ASSUME NEW r \in Replica,
               \/ ApplyEmpty(r) \/ ApplyMsg(r) \/ AfterMsg(r) \/ ApplyBatchMsg(r)
               \/ ApplyBatch(r) \/ ApplyRemoval(r)
        PROVE  TrackInv'
    BY <1>1, <1>7, TrackApplyEmpty, TrackApplyMsg, TrackAfterMsg, TrackApplyBatchMsg,
       TrackApplyBatch, TrackApplyRemoval
  <1>8. ASSUME NEW r \in Replica, NEW k \in 0 .. cfg.len, LeaderChange(r, k) PROVE TrackInv'
    BY <1>1, <1>8, TrackLeader
  <1>9. ASSUME NEW r \in Replica, ProcessLeaderChange(r) \/ Snapshot(r) \/ Catchup(r)
        PROVE  TrackInv'
    <2>1. CASE Snapshot(r)
      BY <1>1, <2>1, TrackSame DEF Snapshot, raftVars
    <2>2. QED
      BY <1>1, <1>9, <2>1, TrackProcessLeaderChange, TrackCatchup
  <1>10. ASSUME NEW r \in Replica, NEW kept, NEW gone, Restart(r, kept, gone) PROVE TrackInv'
    BY <1>1, <1>10, TrackRestart
  <1>11. QED
    BY <1>2, <1>3, <1>4, <1>5, <1>6, <1>7, <1>8, <1>9, <1>10, Zenon DEF Next

\* A leader that tracks its log has.
LEMMA ExactNotes ==
    ASSUME NEW l, Grouped(l), NEW x, x.applied \in 0 .. Len(l), x.batch = BatchAt(l, x.applied),
           InflightOK(x.inflight), Tracks(l, x, NoEntry)
    PROVE  ExactAt(l, x)
  <1>1. PICK a, n, f, open : /\ a = SnapshotIndex(x) /\ n = Len(l) /\ f = x.inflight
                             /\ open = OpenMsgs(l, x)
    OBVIOUS
  <1>2. a \in 0 .. n
    BY <1>1, SnapshotAt
  <1>3. n \in Nat /\ a \in Nat /\ l \in Seq(Entry)
    BY <1>1, <1>2 DEF Grouped
  <1>4. open = {i \in a + 1 .. n : IsMsg(l[i])}
    BY <1>1 DEF OpenMsgs
  <1>5. ASSUME NEW s \in Nat
        PROVE  /\ {i \in open : l[i].m.s = s} = Between(l, a, n, s)
               /\ OpsOf(f, s) = CountIn(l, a, n, s)
    <2>1. {i \in open : l[i].m.s = s} = Between(l, a, n, s)
      BY <1>4 DEF Between, Hit
    <2>2. PICK c : c = CountIn(l, a, n, s)
      OBVIOUS
    <2>3. c \in Nat
      BY <1>3, <2>2, CountNat
    <2>4. OpsOf(f, s) = c + Posted(NoEntry, s)
      BY <1>1, <2>2 DEF Tracks
    <2>5. Posted(NoEntry, s) = 0
      BY DEF Posted
    <2>6. QED
      BY <2>1, <2>2, <2>3, <2>4, <2>5
  <1>6. ASSUME NEW i \in open PROVE l[i].m.s \in Nat
    <2>1. i \in 1 .. Len(l) /\ IsMsg(l[i])
      BY <1>1, <1>3, <1>4
    <2>2. l[i] \in Entry
      BY <1>3, <2>1
    <2>3. l[i] \in MsgEntry
      BY <2>1, <2>2 DEF Entry, IsMsg
    <2>4. QED
      BY <2>3 DEF MsgEntry, Message
  <1>7. ASSUME NEW s \in DOMAIN f
        PROVE  s \in Nat /\ f[s] = Cardinality({i \in open : l[i].m.s = s}) /\ \E i \in open : l[i].m.s = s
    <2>1. s \in Nat /\ f[s] \in Nat \ {0} /\ OpsOf(f, s) = f[s]
      BY <1>1 DEF InflightOK, OpsOf
    <2>2. PICK B : B = {i \in open : l[i].m.s = s}
      OBVIOUS
    <2>3. Cardinality(B) = f[s]
      BY <1>5, <2>1, <2>2 DEF CountIn
    <2>4. B # {}
      BY <2>1, <2>3, FS_EmptySet
    <2>5. QED
      BY <2>1, <2>2, <2>3, <2>4
  <1>8. ASSUME NEW i \in open PROVE l[i].m.s \in DOMAIN f
    <2>1. PICK s : s = l[i].m.s
      OBVIOUS
    <2>2. s \in Nat
      BY <1>6, <2>1
    <2>3. PICK B : B = Between(l, a, n, s)
      OBVIOUS
    <2>4. IsFiniteSet(B) /\ Cardinality(B) \in Nat /\ Cardinality(B) = CountIn(l, a, n, s)
      BY <1>3, <2>3, CountNat DEF CountIn
    <2>5. i \in B
      BY <1>5, <2>1, <2>2, <2>3
    <2>6. Cardinality(B) # 0
      BY <2>4, <2>5, FS_EmptySet
    <2>7. OpsOf(f, s) # 0
      BY <1>5, <2>2, <2>4, <2>6
    <2>8. QED
      BY <2>1, <2>7 DEF OpsOf
  <1>9. DOMAIN f = {l[i].m.s : i \in open}
    BY <1>7, <1>8
  <1>10. QED
    BY <1>1, <1>7, <1>9, Zenon DEF ExactAt

\* The invariant says what the property does of the leader.
LEMMA TrackExact ==
    ASSUME TrackInv
    PROVE  InflightExact
  <1>1. ASSUME NEW r \in Replica, r = elected, leaderState, m[r].active, post[r] = NoEntry,
               halted[r] = "no"
        PROVE  ExactAt(log, m[r])
    <2>1. Leading(r)
      BY <1>1, LeadingIs
    <2>2. /\ Grouped(log) /\ m[r].applied \in 0 .. Len(log) /\ m[r].batch = BatchAt(log, m[r].applied)
          /\ Tracks(log, m[r], NoEntry)
      BY <1>1, <2>1 DEF Leading
    <2>3. InflightOK(m[r].inflight)
      BY OnePost
    <2>4. QED
      BY <2>2, <2>3, ExactNotes
  <1>2. QED
    BY <1>1, Zenon DEF InflightExact, ExactAt, OpenMsgs, IsMsg

-----------------------------------------------------------------------------
(***************************************************************************)
(* The types.  What is removed is in the store, also after a restart or a  *)
(* catchup, where the snapshot says what is removed of the messages that   *)
(* are still to come; nothing is, in a stream that removes nothing.        *)
(***************************************************************************)
\* One after the other.
LEMMA HoldsBoth ==
    ASSUME NEW x, NEW y, NEW z, Holds(x, y), Holds(y, z)
    PROVE  Holds(x, z)
  BY DEF Holds

\* These operations only change other fields.
LEMMA HoldsOther ==
    ASSUME NEW x, DOMAIN x = Fields
    PROVE  /\ Holds(x, x) /\ Holds(x, RejectBatch(x)) /\ Holds(x, WithClseq(x))
           /\ Holds(x, [ForgetProposals(x) EXCEPT !.active = ~@])
           /\ \A d : Holds(x, CommitDiff(x, d))
           /\ \A e : Holds(x, ClearInflight(x, e))
           /\ \A a : Holds(x, [x EXCEPT !.applied = a]) /\ Holds(x, [x EXCEPT !.clseq = a])
                     /\ Holds(x, [x EXCEPT !.batch = a])
  <1>1. Holds(x, x)
    BY DEF Holds
  <1>2. Holds(x, RejectBatch(x))
    BY DEF RejectBatch, Holds, Fields
  <1>3. Holds(x, WithClseq(x))
    BY DEF WithClseq, RecalculateClusteredSeq, Holds, Fields
  <1>4. Holds(x, [ForgetProposals(x) EXCEPT !.active = ~@])
    <2>1. PICK dd : ForgetProposals(x) = [x EXCEPT !.dd = dd, !.inflight = EmptyFcn,
                                             !.expected = EmptyFcn, !.clseq = 0]
      BY DEF ForgetProposals
    <2>2. PICK y : y = ForgetProposals(x)
      OBVIOUS
    <2>3. Holds(x, y)
      BY <2>1, <2>2 DEF Holds, Fields
    <2>4. PICK a : a = ~y.active
      OBVIOUS
    <2>5. Holds(y, [y EXCEPT !.active = a])
      BY <2>3 DEF Holds, Fields
    <2>6. [ForgetProposals(x) EXCEPT !.active = ~@] = [y EXCEPT !.active = a]
      BY <2>2, <2>4, Zenon
    <2>7. Holds(x, [y EXCEPT !.active = a])
      BY <2>3, <2>5, HoldsBoth
    <2>8. QED
      BY <2>6, <2>7, Zenon
  <1>5. ASSUME NEW d PROVE Holds(x, CommitDiff(x, d))
    <2>1. PICK f, g, h : CommitDiff(x, d) = [x EXCEPT !.dd = f, !.inflight = g, !.expected = h]
      BY DEF CommitDiff
    <2>2. QED
      BY <2>1 DEF Holds, Fields
  <1>6. ASSUME NEW e PROVE Holds(x, ClearInflight(x, e))
    <2>1. PICK f, g : ClearInflight(x, e) = [x EXCEPT !.inflight = f, !.expected = g]
      BY DEF ClearInflight
    <2>2. QED
      BY <2>1 DEF Holds, Fields
  <1>7. ASSUME NEW a
        PROVE  /\ Holds(x, [x EXCEPT !.applied = a]) /\ Holds(x, [x EXCEPT !.clseq = a])
               /\ Holds(x, [x EXCEPT !.batch = a])
    BY DEF Holds, Fields
  <1>8. QED
    BY <1>1, <1>2, <1>3, <1>4, <1>5, <1>6, <1>7, Zenon

\* A message is counted.
LEMMA HoldsCount ==
    ASSUME NEW x, DOMAIN x = Fields, NEW e, NEW i
    PROVE  Holds(x, CountBatchMsg(x, e, i))
  <1>1. PICK y : y = IF (x.batch.id # 0 /\ x.batch.id # e.b) \/ e.bs = 1 THEN RejectBatch(x) ELSE x
    OBVIOUS
  <1>2. Holds(x, y)
    BY <1>1, HoldsOther
  <1>3. PICK v : v = [id |-> e.b, count |-> y.batch.count + 1,
                      from |-> IF e.bs = 1 THEN i ELSE y.batch.from]
    OBVIOUS
  <1>4. PICK z : z = [y EXCEPT !.batch = v]
    OBVIOUS
  <1>5. Holds(x, z)
    BY <1>2, <1>4 DEF Holds, Fields
  <1>6. Holds(z, RejectBatch(z))
    BY <1>5, HoldsOther DEF Holds
  <1>7. CountBatchMsg(x, e, i) = IF e.bs = z.batch.count THEN z ELSE RejectBatch(z)
    BY <1>1, <1>3, <1>4 DEF CountBatchMsg
  <1>8. CASE e.bs = z.batch.count
    BY <1>5, <1>7, <1>8
  <1>9. CASE e.bs # z.batch.count
    BY <1>5, <1>6, <1>7, <1>9 DEF Holds
  <1>10. QED
    BY <1>8, <1>9

\* A message is stored.
LEMMA HoldsProcess ==
    ASSUME NEW x, DOMAIN x = Fields, x.store \in Seq(Item), NEW e, NEW leader
    PROVE  Holds(x, ProcessJetStreamMsg(x, e, leader))
  <1>1. PICK y : y = ProcessJetStreamMsg(x, e, leader)
    OBVIOUS
  <1>2. CASE MsgIdMismatch(x, e)
    <2>1. y = [x EXCEPT !.clfs = @ + 1]
      BY <1>1, <1>2 DEF ProcessJetStreamMsg
    <2>2. QED
      BY <1>1, <2>1 DEF Holds, Fields
  <1>3. CASE ~MsgIdMismatch(x, e) /\ Stores(x, e)
    <2>1. PICK it, dd : y = [x EXCEPT !.store = Append(x.store, it), !.lmsgId = e.m.id, !.dd = dd]
      BY <1>1, <1>3 DEF ProcessJetStreamMsg
    <2>2. y.store = Append(x.store, it) /\ y.gone = x.gone /\ DOMAIN y = Fields
      BY <2>1 DEF Fields
    <2>3. DOMAIN x.store \subseteq DOMAIN Append(x.store, it)
      <3>1. PICK st : st = x.store
        OBVIOUS
      <3>2. st \in Seq(Item) /\ Len(st) \in Nat
        BY <3>1
      <3>3. DOMAIN Append(st, it) = 1 .. Len(st) + 1 /\ DOMAIN st = 1 .. Len(st)
        BY <3>2
      <3>4. QED
        BY <3>1, <3>2, <3>3
    <2>4. QED
      BY <1>1, <2>2, <2>3 DEF Holds
  <1>4. CASE ~MsgIdMismatch(x, e) /\ ~Stores(x, e)
    <2>1. y = x
      BY <1>1, <1>4 DEF ProcessJetStreamMsg
    <2>2. QED
      BY <1>1, <2>1 DEF Holds
  <1>5. QED
    BY <1>2, <1>3, <1>4

\* The messages of a batch are.
LEMMA HoldsCommit ==
    ASSUME NEW l, LogOK(l), NEW c, NEW i \in 1 .. Len(l), l[i].op = "batchCommit",
           NEW x, NEW y, NEW w, NEW leader, NEW h, CommitRun(l, c, i, x, y, w, leader, h),
           Holds(x, y)
    PROVE  Holds(x, w)
  <1>1. PICK n : n = l[i].bs
    OBVIOUS
  <1>2. IsBatch(l[i]) /\ n \in Nat
    <2>1. IsBatch(l[i])
      BY DEF IsBatch
    <2>2. n \in 1 .. i
      BY <1>1, <2>1 DEF LogOK, Grouped, GroupedAt
    <2>3. QED
      BY <1>1, <2>1, <2>2
  <1> DEFINE G == {k \in 0 .. n : Holds(x, h[k])}
  <1>3. 0 \in G
    <2>1. h[0] = [y EXCEPT !.batch = NoBatch]
      BY DEF CommitRun
    <2>2. Holds(x, h[0])
      BY <2>1 DEF Holds, Fields
    <2>3. QED
      BY <1>2, <2>2
  <1>4. ASSUME NEW k \in 1 .. n, k - 1 \in G PROVE k \in G
    <2>1. PICK z, u, f : z = h[k - 1] /\ u = h[k] /\ f = l[i - l[i].bs + k]
      OBVIOUS
    <2>2. Holds(x, z) /\ k \in 0 .. n /\ k - 1 \in 0 .. n
      BY <1>2, <1>4, <2>1
    <2>3. u = ApplyOne(z, f, leader) /\ Committing(l, c, i, x, z, k - 1)
      BY <1>1, <2>1, <2>2 DEF CommitRun
    <2>4. DOMAIN z = Fields /\ z.store \in Seq(Item)
      BY <2>3 DEF Committing, StoreOK
    <2>5. PICK v : v = ProcessJetStreamMsg(z, f, leader)
      OBVIOUS
    <2>6. Holds(z, v)
      BY <2>4, <2>5, HoldsProcess
    <2>7. Holds(v, ClearInflight(v, f))
      BY <2>6, HoldsOther DEF Holds
    <2>8. Holds(z, ClearInflight(v, f))
      BY <2>6, <2>7, HoldsBoth
    <2>9. Holds(z, u)
      <3>1. CASE AlreadyStored(z, f) \/ SeqMismatch(z, f)
        BY <2>3, <2>4, <3>1, HoldsOther DEF ApplyOne
      <3>2. CASE ~(AlreadyStored(z, f) \/ SeqMismatch(z, f))
        BY <2>3, <2>5, <2>8, <3>2 DEF ApplyOne
      <3>3. QED
        BY <3>1, <3>2
    <2>10. Holds(x, u)
      BY <2>2, <2>9, HoldsBoth
    <2>11. QED
      BY <2>1, <2>2, <2>10
  <1>5. n \in G
    <2> HIDE DEF G
    <2>1. QED
      BY <1>2, <1>3, <1>4, Sums!UpTo
  <1>6. w = h[n]
    BY <1>1 DEF CommitRun
  <1>7. QED
    BY <1>5, <1>6

\* The parts of the invariant.
LEMMA OfShape ==
    ASSUME ShapeInv, NEW r \in Replica
    PROVE  /\ GroupInv /\ LogShape(cfg, log) /\ Shape(cfg, m[r], halted[r]) /\ SnapShape(cfg, snap[r])
           /\ DOMAIN m = Replica /\ DOMAIN halted = Replica /\ DOMAIN snap = Replica
           /\ DOMAIN m[r] = Fields /\ m[r].store \in Seq(Item) /\ Len(m[r].store) \in Nat
  <1>1. GroupInv /\ LogShape(cfg, log) /\ Shape(cfg, m[r], halted[r]) /\ SnapShape(cfg, snap[r])
    BY DEF ShapeInv
  <1>2. QED
    BY <1>1, OfReplica

\* A log that goes on with messages, or with an empty entry.
LEMMA LogShapeGrows ==
    ASSUME NEW c, NEW l, LogShape(c, l), NEW k, NEW n, Past(l, k, n), Len(k) <= c.len,
           c.removals # {} \/ \A i \in n + 1 .. Len(k) : k[i].op \notin {"delete", "purge"}
    PROVE  LogShape(c, k)
  <1>1. /\ l \in Seq(Entry) /\ k \in Seq(Entry) /\ n \in Nat /\ n <= Len(l) /\ n <= Len(k)
        /\ \A i \in 1 .. n : l[i] = k[i]
    BY DEF Past
  <1>2. ASSUME c.removals = {}, NEW i \in 1 .. Len(k) PROVE k[i].op \notin {"delete", "purge"}
    <2>1. CASE i <= n
      <3>1. i \in 1 .. Len(l) /\ i \in 1 .. n
        BY <1>1, <2>1
      <3>2. QED
        BY <1>1, <1>2, <3>1 DEF LogShape
    <2>2. CASE ~(i <= n)
      <3>1. i \in n + 1 .. Len(k)
        BY <1>1, <2>2
      <3>2. QED
        BY <1>2, <3>1
    <2>3. QED
      BY <2>1, <2>2
  <1>3. QED
    BY <1>2 DEF LogShape

\* The parts of a step of one replica.
LEMMA ShapeOne ==
    ASSUME ShapeInv, GroupInv', NEW r \in Replica, NEW w, m' = [m EXCEPT ![r] = w],
           NEW h, halted'[r] = h, \A q \in Replica \ {r} : halted'[q] = halted[q],
           UNCHANGED <<cfg, snap>>, LogShape(cfg, log'), Shape(cfg, w, h)
    PROVE  ShapeInv'
  <1>1. DOMAIN m = Replica
    BY OfShape
  <1>2. DOMAIN m' = Replica /\ m'[r] = w /\ \A q \in Replica \ {r} : m'[q] = m[q]
    BY <1>1, OneValue
  <1>3. ASSUME NEW q \in Replica PROVE Shape(cfg, m'[q], halted'[q]) /\ SnapShape(cfg, snap'[q])
    <2>1. SnapShape(cfg, snap[q]) /\ Shape(cfg, m[q], halted[q])
      BY OfShape
    <2>2. CASE q = r
      BY <1>2, <2>1, <2>2
    <2>3. CASE q # r
      <3>1. m'[q] = m[q] /\ halted'[q] = halted[q]
        BY <1>2, <2>3
      <3>2. QED
        BY <2>1, <3>1
    <2>4. QED
      BY <2>2, <2>3
  <1>4. QED
    BY <1>3 DEF ShapeInv

\* A replica that keeps its messages, and runs.
LEMMA ShapeHolds ==
    ASSUME ShapeInv, GroupInv', NEW r \in Replica, NEW w, m' = [m EXCEPT ![r] = w],
           UNCHANGED <<cfg, snap, halted>>, LogShape(cfg, log'), Holds(m[r], w),
           halted[r] = "werr" => w.batch = m[r].batch
    PROVE  ShapeInv'
  <1>1. Shape(cfg, m[r], halted[r])
    BY OfShape
  <1>2. Shape(cfg, w, halted[r])
    BY <1>1 DEF Shape, Holds
  <1>3. halted'[r] = halted[r] /\ \A q \in Replica \ {r} : halted'[q] = halted[q]
    OBVIOUS
  <1>4. UNCHANGED <<cfg, snap>>
    OBVIOUS
  <1>5. QED
    BY <1>2, <1>3, <1>4, ShapeOne, Zenon

\* An entry that ends a batch.
LEMMA ShapeApplyEmpty ==
    ASSUME ShapeInv, GroupInv', NEW r \in Replica, ApplyEmpty(r)
    PROVE  ShapeInv'
  <1>1. PICK x, y, a, w : x = m[r] /\ y = RejectBatch(x) /\ a = y.applied + 1 /\ w = [y EXCEPT !.applied = a]
    OBVIOUS
  <1>2. /\ m' = [m EXCEPT ![r] = w] /\ UNCHANGED <<cfg, snap, halted>> /\ log' = log
        /\ halted[r] = "no"
    BY <1>1 DEF ApplyEmpty, CanApply
  <1>3. DOMAIN x = Fields /\ LogShape(cfg, log)
    BY <1>1, OfShape
  <1>4. Holds(x, y)
    BY <1>1, <1>3, HoldsOther
  <1>5. Holds(y, w)
    BY <1>1, <1>4, HoldsOther DEF Holds
  <1>6. Holds(m[r], w)
    BY <1>1, <1>4, <1>5, HoldsBoth
  <1>7. QED
    BY <1>2, <1>3, <1>6, ShapeHolds

\* A message is applied.
LEMMA ShapeApplyMsg ==
    ASSUME ShapeInv, GroupInv', NEW r \in Replica, ApplyMsg(r)
    PROVE  ShapeInv'
  <1>1. PICK e, x, y, a, w : /\ e = NextEntry(r) /\ x = RejectBatch(m[r])
                             /\ y = ProcessJetStreamMsg(x, e, r = elected)
                             /\ a = y.applied + 1 /\ w = [y EXCEPT !.applied = a]
    OBVIOUS
  <1>2. m' = [m EXCEPT ![r] = w] /\ UNCHANGED <<cfg, snap>> /\ log' = log
    BY <1>1 DEF ApplyMsg, raftVars
  <1>3. PICK h : halted' = [halted EXCEPT ![r] = h]
    BY DEF ApplyMsg
  <1>4. /\ DOMAIN m[r] = Fields /\ LogShape(cfg, log) /\ m[r].store \in Seq(Item)
        /\ Shape(cfg, m[r], halted[r]) /\ DOMAIN halted = Replica
    BY OfShape
  <1>5. Holds(m[r], x) /\ x.batch = NoBatch /\ x.store = m[r].store
    BY <1>1, <1>4, HoldsOther DEF RejectBatch, Fields
  <1>6. DOMAIN x = Fields /\ x.store \in Seq(Item)
    BY <1>4, <1>5 DEF Holds
  <1>7. Holds(x, y)
    BY <1>1, <1>6, HoldsProcess
  <1>8. y.batch = NoBatch
    BY <1>1, <1>5, <1>6, KeepsProcess
  <1>9. Holds(y, w) /\ w.batch = y.batch
    BY <1>1, <1>7, HoldsOther DEF Holds, Fields
  <1>10. Holds(m[r], w)
    BY <1>5, <1>7, <1>9, HoldsBoth
  <1>11. Shape(cfg, w, h)
    BY <1>4, <1>8, <1>9, <1>10 DEF Shape, Holds
  <1>12. halted'[r] = h /\ \A q \in Replica \ {r} : halted'[q] = halted[q]
    BY <1>3, <1>4
  <1>13. LogShape(cfg, log')
    BY <1>2, <1>4
  <1>14. QED
    BY <1>2, <1>11, <1>12, <1>13, ShapeOne

\* What was noted of it is cleared.
LEMMA ShapeAfterMsg ==
    ASSUME ShapeInv, GroupInv', NEW r \in Replica, AfterMsg(r)
    PROVE  ShapeInv'
  <1>1. PICK w : w = ClearInflight(m[r], post[r])
    OBVIOUS
  <1>2. DOMAIN m[r] = Fields /\ LogShape(cfg, log) /\ DOMAIN m = Replica
    BY OfShape
  <1>3. m' = [m EXCEPT ![r] = w] /\ UNCHANGED <<cfg, snap, halted>> /\ log' = log
    BY <1>1, <1>2 DEF AfterMsg, raftVars
  <1>4. Holds(m[r], w) /\ w.batch = m[r].batch
    BY <1>1, <1>2, HoldsOther DEF ClearInflight, Fields
  <1>5. QED
    BY <1>2, <1>3, <1>4, ShapeHolds

\* A message of a batch is counted.
LEMMA ShapeApplyBatchMsg ==
    ASSUME ShapeInv, GroupInv', NEW r \in Replica, ApplyBatchMsg(r)
    PROVE  ShapeInv'
  <1>1. PICK x, y, a, w : /\ x = m[r] /\ y = CountBatchMsg(x, NextEntry(r), x.applied + 1)
                          /\ a = y.applied + 1 /\ w = [y EXCEPT !.applied = a]
    OBVIOUS
  <1>2. /\ m' = [m EXCEPT ![r] = w] /\ UNCHANGED <<cfg, snap, halted>> /\ log' = log
        /\ halted[r] = "no"
    BY <1>1 DEF ApplyBatchMsg, CanApply, raftVars
  <1>3. DOMAIN x = Fields /\ LogShape(cfg, log)
    BY <1>1, OfShape
  <1>4. Holds(x, y)
    BY <1>1, <1>3, HoldsCount
  <1>5. Holds(y, w)
    BY <1>1, <1>4, HoldsOther DEF Holds
  <1>6. Holds(m[r], w)
    BY <1>1, <1>4, <1>5, HoldsBoth
  <1>7. QED
    BY <1>2, <1>3, <1>6, ShapeHolds

\* What x, counted in y, becomes when the batch of entry i is applied.
LEMMA CommitRuns ==
    ASSUME GroupInv, NEW r \in Replica, CanApply(r), NextEntry(r).op = "batchCommit",
           NEW i, i = m[r].applied + 1, NEW y, y = CountBatchMsg(m[r], log[i], i),
           NEW z, z = ApplyBatchCommit(y, i, r = elected)
    PROVE  /\ i \in 1 .. Len(log) /\ log[i].op = "batchCommit"
           /\ \E h : CommitRun(log, commit, i, m[r], y, z, r = elected, h)
  <1>1. PICK x, e : x = m[r] /\ e = log[i]
    OBVIOUS
  <1>2. x.applied < commit /\ halted[r] = "no" /\ e.op = "batchCommit"
    BY <1>1 DEF CanApply, NextEntry
  <1>3. /\ LogOK(log) /\ Grouped(log) /\ log \in Seq(Entry) /\ commit \in 0 .. Len(log)
        /\ ReplicaOK(log, commit, x, replay[r], "no") /\ x.applied \in 0 .. commit
        /\ IdsOK(x.dd, x.store) /\ Len(x.store) \in Nat /\ DOMAIN x = Fields
    BY <1>1, <1>2, OfReplica
  <1>4. IsBatch(e) /\ i \in 1 .. commit /\ i \in 1 .. Len(log) /\ i = x.applied + 1 /\ i - 1 = x.applied
    BY <1>1, <1>2, <1>3 DEF IsBatch
  <1>5. y = CountBatchMsg(x, e, i)
    BY <1>1
  <1>6. CountedAt(log, i, x, y, e)
    BY <1>1, <1>2, <1>3, <1>4, <1>5, CountAt
  <1>7. /\ DOMAIN y = Fields /\ y.store = x.store /\ y.clfs = x.clfs
        /\ y.batch = [id |-> e.b, count |-> e.bs, from |-> i - e.bs + 1]
        /\ y.applied = x.applied /\ y.active = x.active /\ y.clseq = x.clseq /\ y.dd = x.dd
        /\ Refused(log, i) = x.clfs /\ e.b # 0
    BY <1>6 DEF CountedAt
  <1>8. PICK b : b = [y EXCEPT !.batch = NoBatch]
    OBVIOUS
  <1>9. StoreOK(log, commit, x.store) /\ Size(log, i - 1) \in Nat /\ Size(log, i - 1) <= Len(x.store)
    BY <1>2, <1>3, <1>4, Running
  <1>10. Committing(log, commit, i, x, b, 0)
    BY <1>3, <1>7, <1>8, <1>9 DEF Committing, Fields
  <1>11. y.batch.id # 0 /\ y.batch.from = i - log[i].bs + 1
    BY <1>1, <1>7
  <1>12. Committing(log, commit, i, x, [y EXCEPT !.batch = NoBatch], 0)
    BY <1>8, <1>10
  <1>13. \E h : CommitRun(log, commit, i, x, y, ApplyBatchCommit(y, i, r = elected), r = elected, h)
    BY <1>1, <1>2, <1>3, <1>4, <1>7, <1>11, <1>12, CommitSteps
  <1>14. QED
    BY <1>1, <1>2, <1>4, <1>13

\* A batch is complete.
LEMMA ShapeApplyBatch ==
    ASSUME ShapeInv, GroupInv', NEW r \in Replica, ApplyBatch(r)
    PROVE  ShapeInv'
  <1>1. PICK x, i, y, z, w : /\ x = m[r] /\ i = x.applied + 1 /\ y = CountBatchMsg(x, log[i], i)
                             /\ z = ApplyBatchCommit(y, i, r = elected)
                             /\ w = [z EXCEPT !.applied = i]
    OBVIOUS
  <1>2. /\ m' = [m EXCEPT ![r] = w] /\ UNCHANGED <<cfg, snap>> /\ log' = log
        /\ CanApply(r) /\ NextEntry(r).op = "batchCommit"
    BY <1>1 DEF ApplyBatch, raftVars
  <1>3. PICK h : halted' = [halted EXCEPT ![r] = h] /\ h \in {"mismatch", "no"}
    BY DEF ApplyBatch, CanApply
  <1>4. /\ GroupInv /\ LogOK(log) /\ DOMAIN x = Fields /\ LogShape(cfg, log) /\ Shape(cfg, x, halted[r])
        /\ DOMAIN halted = Replica
    BY <1>1, OfShape, OfReplica
  <1>5. /\ i \in 1 .. Len(log) /\ log[i].op = "batchCommit"
        /\ \E g : CommitRun(log, commit, i, x, y, z, r = elected, g)
    BY <1>1, <1>2, <1>4, CommitRuns
  <1>6. PICK g : CommitRun(log, commit, i, x, y, z, r = elected, g)
    BY <1>5
  <1>7. Holds(x, y)
    BY <1>1, <1>4, HoldsCount
  <1>8. Holds(x, z)
    BY <1>4, <1>5, <1>6, <1>7, HoldsCommit
  <1>9. Holds(z, w)
    BY <1>1, <1>8, HoldsOther DEF Holds
  <1>10. Holds(x, w)
    BY <1>8, <1>9, HoldsBoth
  <1>11. Shape(cfg, w, h)
    BY <1>3, <1>4, <1>10 DEF Shape, Holds
  <1>12. halted'[r] = h /\ \A q \in Replica \ {r} : halted'[q] = halted[q]
    BY <1>3, <1>4
  <1>13. LogShape(cfg, log')
    BY <1>2, <1>4
  <1>14. QED
    BY <1>2, <1>11, <1>12, <1>13, ShapeOne

\* What is removed is there.
LEMMA RemovedLive ==
    ASSUME NEW x, NEW e, NEW b
    PROVE  RemovedBy(x, e, b) \subseteq DOMAIN x.store
  <1>1. \A s, seq, keep : PurgeEx(x, s, seq, keep) \subseteq DOMAIN x.store
    BY DEF PurgeEx, Live
  <1>2. QED
    BY <1>1 DEF RemovedBy, Live

\* A request is applied.
LEMMA ShapeApplyRemoval ==
    ASSUME ShapeInv, GroupInv', NEW r \in Replica, ApplyRemoval(r)
    PROVE  ShapeInv'
  <1>0. PICK b \in BOOLEAN : m' = [m EXCEPT ![r] =
                [RejectBatch(m[r]) EXCEPT !.applied = @ + 1,
                     !.gone = @ \cup RemovedBy(RejectBatch(m[r]), NextEntry(r), b)]]
    BY DEF ApplyRemoval
  <1>1. PICK x, g, w : /\ x = RejectBatch(m[r])
                       /\ g = x.gone \cup RemovedBy(x, NextEntry(r), b)
                       /\ w = [x EXCEPT !.applied = @ + 1, !.gone = g]
    OBVIOUS
  <1>2. /\ m' = [m EXCEPT ![r] = w] /\ UNCHANGED <<cfg, snap, halted>> /\ log' = log
        /\ halted[r] = "no" /\ m[r].applied < commit
        /\ log[m[r].applied + 1].op \in {"delete", "purge"}
    BY <1>0, <1>1 DEF ApplyRemoval, CanApply, NextEntry, raftVars
  <1>3. /\ DOMAIN m[r] = Fields /\ LogShape(cfg, log) /\ Shape(cfg, m[r], halted[r])
        /\ commit \in 0 .. Len(log) /\ m[r].applied \in 0 .. commit /\ Len(log) \in Nat
    BY OfShape, OfReplica
  <1>10. cfg.removals # {}
    <2>1. m[r].applied + 1 \in 1 .. Len(log)
      BY <1>2, <1>3
    <2>2. QED
      BY <1>2, <1>3, <2>1 DEF LogShape
  <1>4. Holds(m[r], x)
    BY <1>1, <1>3, HoldsOther
  <1>5. g \subseteq DOMAIN x.store
    BY <1>1, <1>3, <1>4, RemovedLive DEF Shape, Holds
  <1>6. Shape(cfg, w, "no")
    BY <1>10, <1>1, <1>4, <1>5 DEF Shape, Holds, Fields
  <1>7. halted'[r] = "no" /\ \A q \in Replica \ {r} : halted'[q] = halted[q]
    BY <1>2
  <1>8. UNCHANGED <<cfg, snap>> /\ LogShape(cfg, log')
    BY <1>2, <1>3
  <1>9. QED
    BY <1>2, <1>6, <1>7, <1>8, ShapeOne

\* The monitor reads a change of leader.
LEMMA ShapeProcessLeaderChange ==
    ASSUME ShapeInv, GroupInv', NEW r \in Replica, ProcessLeaderChange(r)
    PROVE  ShapeInv'
  <1>1. PICK w : w = [ForgetProposals(m[r]) EXCEPT !.active = ~@]
    OBVIOUS
  <1>2. /\ m' = [m EXCEPT ![r] = w] /\ UNCHANGED <<cfg, snap, halted>> /\ log' = log
        /\ halted[r] = "no"
    BY <1>1 DEF ProcessLeaderChange, raftVars
  <1>3. DOMAIN m[r] = Fields /\ LogShape(cfg, log)
    BY OfShape
  <1>4. Holds(m[r], w)
    BY <1>1, <1>3, HoldsOther
  <1>5. QED
    BY <1>2, <1>3, <1>4, ShapeHolds

\* A message is proposed.
LEMMA ShapePublish ==
    ASSUME ShapeInv, GroupInv', NEW r \in Replica, NEW p \in cfg.pubs, Publish(r, p)
    PROVE  ShapeInv'
  <1>1. PICK x, d, y, a, w : /\ x = WithClseq(m[r]) /\ d = CheckMsg(x, NoDiff, p) /\ y = CommitDiff(x, d)
                             /\ a = y.clseq + 1 /\ w = [y EXCEPT !.clseq = a]
    OBVIOUS
  <1>2. PICK e : log' = Append(log, e) /\ e.op = "msg"
    BY DEF Publish
  <1>3. /\ m' = [m EXCEPT ![r] = w] /\ UNCHANGED <<cfg, snap, halted>> /\ halted[r] = "no"
        /\ Len(log) < cfg.len
    BY <1>1 DEF Publish, CanPropose
  <1>4. DOMAIN m[r] = Fields /\ log \in Seq(Entry) /\ cfg \in Configs
    BY OfShape, OfReplica DEF GroupInv
  <1>5. LogShape(cfg, log')
    <2>1. cfg.len \in Nat /\ Len(log) \in Nat
      BY <1>4, ConfigsAssumption
    <2>2. Len(log') = Len(log) + 1 /\ log'[Len(log) + 1] = e /\ Past(log, log', Len(log))
      BY <1>2, <1>4 DEF Past, GroupInv, LogOK, Grouped
    <2>3. Len(log') <= cfg.len /\ \A i \in Len(log) + 1 .. Len(log') : log'[i].op = "msg"
      BY <1>2, <1>3, <2>1, <2>2
    <2>4. LogShape(cfg, log)
      BY OfShape
    <2>5. QED
      BY <2>2, <2>3, <2>4, LogShapeGrows
  <1>6. Holds(m[r], x)
    BY <1>1, <1>4, HoldsOther
  <1>7. Holds(x, y)
    BY <1>1, <1>6, HoldsOther DEF Holds
  <1>8. Holds(y, w)
    BY <1>1, <1>7, HoldsOther DEF Holds
  <1>9. Holds(m[r], w)
    BY <1>6, <1>7, <1>8, HoldsBoth
  <1>10. QED
    BY <1>3, <1>5, <1>9, ShapeHolds

\* A message is refused.
LEMMA ShapePublishRefused ==
    ASSUME ShapeInv, GroupInv', NEW r \in Replica, NEW p \in cfg.pubs, PublishRefused(r, p)
    PROVE  ShapeInv'
  <1>1. PICK x : x = WithClseq(m[r])
    OBVIOUS
  <1>2. /\ m' = [m EXCEPT ![r] = x] /\ UNCHANGED <<cfg, snap, halted>> /\ halted[r] = "no"
        /\ log' = log
    BY <1>1 DEF PublishRefused, CanPropose, raftVars
  <1>3. DOMAIN m[r] = Fields /\ LogShape(cfg, log)
    BY OfShape
  <1>4. Holds(m[r], x)
    BY <1>1, <1>3, HoldsOther
  <1>5. QED
    BY <1>2, <1>3, <1>4, ShapeHolds

\* A batch is proposed.
LEMMA ShapePublishBatch ==
    ASSUME ShapeInv, GroupInv', NEW r \in Replica, NEW b \in cfg.batches, PublishBatch(r, b)
    PROVE  ShapeInv'
  <1>1. PICK x, v, w : x = WithClseq(m[r]) /\ v = CheckBatch(x, b) /\ w = CommitDiff(v.x, v.d)
    OBVIOUS
  <1>2. /\ m' = [m EXCEPT ![r] = w] /\ UNCHANGED <<cfg, snap, halted>> /\ CanPropose(r)
        /\ Len(log) + Len(b) <= cfg.len /\ log' = log \o BatchEntries(x, b, batches + 1)
        /\ \A p \in ToSet(b) : p.elm = 0
    BY <1>1 DEF PublishBatch
  <1>3. /\ DOMAIN m[r] = Fields /\ LogOK(log) /\ GroupInv /\ halted[r] = "no"
    BY <1>2, OfShape, OfReplica DEF CanPropose
  <1>4. b \in Seq(Message) /\ Len(b) > 0
    BY <1>3, OfConfig
  <1>5. Numbered(log, m[r], x)
    BY <1>1, <1>2, <1>3, Proposing
  <1>6. x.clseq \in Nat /\ DOMAIN x = Fields /\ x.clseq = Proposed(log, Len(log))
    BY <1>5 DEF Numbered, Same
  <1>7. batches + 1 \in Nat \ {0}
    BY <1>3 DEF GroupInv
  <1>8. Longer(log, log', b)
    BY <1>2, <1>3, <1>4, <1>6, <1>7, BatchLonger
  <1>9. LogShape(cfg, log')
    <2>1. Len(log') <= cfg.len /\ Past(log, log', Len(log)) /\ Len(log') = Len(log) + Len(b)
      BY <1>2, <1>8 DEF Longer
    <2>2. log \in Seq(Entry) /\ log' \in Seq(Entry) /\ Len(log) \in Nat /\ Len(b) \in Nat
      BY <1>4, <2>1 DEF Past
    <2>3. ASSUME NEW i \in Len(log) + 1 .. Len(log') PROVE log'[i].op \notin {"delete", "purge"}
      <3>1. PICK j : j = i - Len(log)
        OBVIOUS
      <3>2. j \in 1 .. Len(b) /\ i = Len(log) + j
        BY <2>1, <2>2, <3>1
      <3>3. EntryOf(log'[Len(log) + j], x, b, batches + 1, j)
        BY <1>2, <1>4, <2>2, <3>2, BatchEntryIs
      <3>4. QED
        BY <3>2, <3>3 DEF EntryOf
    <2>4. LogShape(cfg, log)
      BY OfShape
    <2>5. QED
      BY <2>1, <2>3, <2>4, LogShapeGrows
  <1>10. \E g, f : Steps(x, b, v, g, f)
    BY <1>1, <1>4, <1>6, CheckSteps
  <1>11. Alike(x, v.x)
    <2>1. PICK g, f : Steps(x, b, v, g, f)
      BY <1>10
    <2>2. Len(b) \in 0 .. Len(b)
      BY <1>4
    <2>3. QED
      BY <2>1, <2>2 DEF Steps
  <1>12. Holds(m[r], x)
    BY <1>1, <1>3, HoldsOther
  <1>13. Holds(x, v.x)
    BY <1>11 DEF Alike, Holds
  <1>14. Holds(v.x, w)
    BY <1>1, <1>13, HoldsOther DEF Holds
  <1>15. Holds(m[r], w)
    BY <1>12, <1>13, <1>14, HoldsBoth
  <1>16. QED
    BY <1>2, <1>3, <1>9, <1>15, ShapeHolds

\* The log changes, and nothing else.
LEMMA ShapeLog ==
    ASSUME ShapeInv, GroupInv', UNCHANGED <<cfg, m, halted, snap>>, LogShape(cfg, log')
    PROVE  ShapeInv'
  BY DEF ShapeInv

\* A request or a new leader.
LEMMA ShapeGrows ==
    ASSUME ShapeInv, GroupInv', NEW r \in Replica,
           \/ \E q \in cfg.removals : MsgDeleteRequest(r, q) \/ StreamPurgeRequest(r, q)
           \/ \E k \in 0 .. cfg.len : LeaderChange(r, k)
    PROVE  ShapeInv'
  <1>1. /\ log \in Seq(Entry) /\ Len(log) \in Nat /\ cfg \in Configs /\ LogOK(log)
        /\ commit \in 0 .. Len(log)
    BY OfShape, OfReplica DEF GroupInv
  <1>2. cfg.len \in Nat
    BY <1>1, ConfigsAssumption
  <1>3. ASSUME NEW q \in cfg.removals, MsgDeleteRequest(r, q) \/ StreamPurgeRequest(r, q)
        PROVE  ShapeInv'
    <2>1. UNCHANGED <<cfg, m, halted, snap>> /\ Len(log) < cfg.len
      BY <1>3 DEF MsgDeleteRequest, StreamPurgeRequest, CanRequest
    <2>2. PICK e : log' = Append(log, e)
      BY <1>3 DEF MsgDeleteRequest, StreamPurgeRequest
    <2>3. Len(log') = Len(log) + 1 /\ Past(log, log', Len(log))
      BY <1>1, <2>2 DEF GroupInv, LogOK, Grouped, Past
    <2>4. Len(log') <= cfg.len /\ cfg.removals # {} /\ LogShape(cfg, log)
      BY <1>1, <1>2, <1>3, <2>1, <2>3, OfShape
    <2>5. LogShape(cfg, log')
      BY <2>3, <2>4, LogShapeGrows
    <2>6. QED
      BY <2>1, <2>5, ShapeLog
  <1>4. ASSUME NEW k \in 0 .. cfg.len, LeaderChange(r, k) PROVE ShapeInv'
    <2>1. UNCHANGED <<cfg, m, halted, snap>> /\ k < cfg.len /\ k \in commit .. Len(log)
      BY <1>4 DEF LeaderChange
    <2>2. log' = Append(SubSeq(log, 1, k), [op |-> "empty"]) /\ k \in 0 .. Len(log)
      BY <1>1, <1>4, <2>1 DEF LeaderChange
    <2>3. Len(log') = k + 1 /\ Past(log, log', k)
      BY <1>1, <2>2, LogCut
    <2>4. log'[k + 1] = [op |-> "empty"] /\ k \in Nat
      BY <1>1, <2>2 DEF LogOK, Grouped
    <2>5. Len(log') <= cfg.len /\ LogShape(cfg, log)
          /\ \A i \in k + 1 .. Len(log') : log'[i].op = "empty"
      BY <1>2, <2>1, <2>3, <2>4, OfShape
    <2>6. LogShape(cfg, log')
      BY <2>3, <2>5, LogShapeGrows
    <2>7. QED
      BY <2>1, <2>6, ShapeLog
  <1>5. QED
    BY <1>3, <1>4

\* A snapshot.
LEMMA ShapeSnapshot ==
    ASSUME ShapeInv, GroupInv', NEW r \in Replica, Snapshot(r)
    PROVE  ShapeInv'
  <1>1. PICK s : s = StateSnapshot(m[r])
    OBVIOUS
  <1>2. snap' = [snap EXCEPT ![r] = s] /\ UNCHANGED <<cfg, log, m, halted>>
    BY <1>1 DEF Snapshot, raftVars
  <1>3. Shape(cfg, m[r], halted[r]) /\ DOMAIN snap = Replica /\ m[r].store \in Seq(Item)
    BY OfShape
  <1>4. SnapShape(cfg, s)
    BY <1>1, <1>3 DEF StateSnapshot, SnapShape, Shape
  <1>5. \A q \in Replica : SnapShape(cfg, snap'[q])
    BY <1>2, <1>3, <1>4 DEF ShapeInv
  <1>6. QED
    BY <1>2, <1>5 DEF ShapeInv

\* A restart.
LEMMA ShapeRestart ==
    ASSUME ShapeInv, GroupInv', NEW r \in Replica, NEW kept \in snap[r].lseq .. Len(m[r].store),
           NEW gone \in {snap[r].gone, m[r].gone}, Restart(r, kept, gone)
    PROVE  ShapeInv'
  <1>1. PICK st, w : /\ st = SubSeq(m[r].store, 1, kept)
                     /\ w = [RebuildDedupe(InitStream, st, gone)
                                EXCEPT !.clfs = snap[r].clfs, !.applied = snap[r].idx]
    OBVIOUS
  <1>2. /\ m' = [m EXCEPT ![r] = w] /\ UNCHANGED <<cfg, snap, halted>> /\ log' = log
        /\ halted[r] = "no" /\ gone \subseteq 1 .. kept
    BY <1>1 DEF Restart, raftVars
  <1>3. m[r].store \in Seq(Item) /\ Len(m[r].store) \in Nat /\ GroupInv /\ LogShape(cfg, log)
        /\ SnapShape(cfg, snap[r]) /\ Shape(cfg, m[r], halted[r])
    BY OfShape
  <1>4. kept \in 0 .. Len(m[r].store)
    <2>1. SnapOK(log, commit, m[r], snap[r]) /\ log \in Seq(Entry) /\ commit \in 0 .. Len(log)
          /\ Grouped(log)
      BY <1>3, OfReplica
    <2>2. snap[r].idx \in 0 .. Len(log) /\ snap[r].lseq = Size(log, snap[r].idx)
      BY <2>1 DEF SnapOK
    <2>3. snap[r].lseq \in Nat
      BY <2>1, <2>2, SizeNat
    <2>4. QED
      BY <1>3, <2>3
  <1>5. DOMAIN st = 1 .. kept
    BY <1>1, <1>3, <1>4
  <1>6. w.store = st /\ w.gone = gone
    BY <1>1 DEF RebuildDedupe, InitStream
  <1>7. Shape(cfg, w, "no")
    BY <1>2, <1>3, <1>5, <1>6 DEF Shape, SnapShape
  <1>8. halted'[r] = "no" /\ \A q \in Replica \ {r} : halted'[q] = halted[q]
    BY <1>2
  <1>9. UNCHANGED <<cfg, snap>> /\ LogShape(cfg, log')
    BY <1>2, <1>3
  <1>10. QED
    BY <1>2, <1>7, <1>8, <1>9, ShapeOne

\* A replica with snapshot s of a leader has all messages that are removed.
LEMMA ShapeCaught ==
    ASSUME NEW x, DOMAIN x = Fields, x.store \in Seq(Item), x.gone \subseteq DOMAIN x.store,
           NEW lead, cfg.removals = {} => x.gone = {} /\ lead.gone = {},
           NEW s, SnapShape(cfg, s), lead.store \in Seq(Item), s.lseq \in Nat,
           s.lseq <= Len(lead.store), NEW y, y = ProcessSnapshot(x, s, lead)
    PROVE  Shape(cfg, y, "no")
  <1>1. PICK k, more, gone : /\ k = Len(x.store) /\ more = Missing(lead.store, k, s.lseq)
                             /\ gone = lead.gone \cap (k + 1 .. k + Len(more))
    OBVIOUS
  <1>2. k \in Nat /\ x.store \in Seq(Item)
    BY <1>1
  <1>3. more \in Seq(Item) /\ k + Len(more) = IF k >= s.lseq THEN k ELSE s.lseq
    <2>1. PICK su, n : su = lead.store /\ n = s.lseq
      OBVIOUS
    <2>2. su \in Seq(Item) /\ n \in Nat /\ n <= Len(su) /\ more = Missing(su, k, n)
      BY <1>1, <2>1
    <2>3. more \in Seq(Item) /\ k + Len(more) = IF k >= n THEN k ELSE n
      BY <1>2, <2>2, MissingIs
    <2>4. QED
      BY <2>1, <2>3
  <1>4. Len(more) \in Nat
    BY <1>3
  <1>5. y.store = x.store \o more /\ y.gone = (x.gone \cup s.gone) \cup gone
    <2>1. PICK ah, dd, z : /\ z = [x EXCEPT !.gone = x.gone \cup s.gone]
                           /\ y = [z EXCEPT !.store = z.store \o more, !.gone = z.gone \cup gone,
                                       !.ahead = ah, !.dd = dd, !.batch = NoBatch,
                                       !.clfs = s.clfs, !.applied = s.idx]
      BY <1>1 DEF ProcessSnapshot, ProcessSnapshotDeletes, Missing
    <2>2. z.store = x.store /\ z.gone = x.gone \cup s.gone /\ DOMAIN z = Fields
      BY <2>1 DEF Fields
    <2>3. QED
      BY <2>1, <2>2 DEF Fields
  <1>6. DOMAIN (x.store \o more) = 1 .. k + Len(more) /\ DOMAIN x.store = 1 .. k
    <2>1. PICK st : st = x.store
      OBVIOUS
    <2>2. st \in Seq(Item) /\ k = Len(st)
      BY <1>1, <2>1
    <2>3. DOMAIN (st \o more) = 1 .. Len(st) + Len(more) /\ DOMAIN st = 1 .. Len(st)
      BY <1>3, <2>2
    <2>4. QED
      BY <2>1, <2>2, <2>3
  <1>7. x.gone \subseteq 1 .. k + Len(more)
    BY <1>2, <1>4, <1>6
  <1>8. s.gone \subseteq 1 .. k + Len(more)
    <2>1. s.lseq <= k + Len(more)
      BY <1>2, <1>3
    <2>2. QED
      BY <1>2, <1>4, <2>1 DEF SnapShape
  <1>9. gone \subseteq 1 .. k + Len(more)
    <2>1. PICK n : n = Len(more)
      OBVIOUS
    <2>2. gone \subseteq k + 1 .. k + n /\ n \in Nat
      BY <1>1, <1>4, <2>1
    <2>3. \A i \in k + 1 .. k + n : i \in 1 .. k + n
      BY <1>2, <2>2
    <2>4. QED
      BY <2>1, <2>2, <2>3
  <1>10. y.gone \subseteq DOMAIN y.store
    BY <1>5, <1>6, <1>7, <1>8, <1>9
  <1>11. cfg.removals = {} => y.gone = {}
    BY <1>1, <1>5 DEF SnapShape
  <1>12. QED
    BY <1>10, <1>11 DEF Shape

\* A catchup.
LEMMA ShapeCatchup ==
    ASSUME ShapeInv, GroupInv', NEW r \in Replica, Catchup(r)
    PROVE  ShapeInv'
  <1>1. PICK x, s, lead, y : /\ x = m[r] /\ s = snap[elected] /\ lead = m[elected]
                             /\ y = ProcessSnapshot(x, s, lead)
    OBVIOUS
  <1>2. /\ DOMAIN m = Replica /\ DOMAIN snap = Replica /\ DOMAIN x = Fields /\ x.store \in Seq(Item)
        /\ Shape(cfg, x, halted[r]) /\ GroupInv /\ LogShape(cfg, log)
    BY <1>1, OfShape
  <1>3. elected \in Replica
    BY <1>2 DEF GroupInv
  <1>4. SnapShape(cfg, s) /\ lead.store \in Seq(Item) /\ Shape(cfg, lead, halted[elected])
    BY <1>1, <1>3, OfShape
  <1>5. s.lseq \in Nat /\ s.lseq <= Len(lead.store)
    <2>1. SnapOK(log, commit, lead, s) /\ log \in Seq(Entry) /\ commit \in 0 .. Len(log) /\ Grouped(log)
      BY <1>1, <1>2, <1>3, OfReplica
    <2>2. s.idx \in 0 .. Len(log) /\ s.lseq = Size(log, s.idx) /\ s.lseq <= Len(lead.store)
      BY <2>1 DEF SnapOK
    <2>3. QED
      BY <2>1, <2>2, SizeNat
  <1>6. /\ UNCHANGED <<cfg, log, halted>> /\ halted[r] = "no" /\ snap' = [snap EXCEPT ![r] = s]
        /\ m' = [m EXCEPT ![r] = y]
    BY <1>1, <1>2 DEF Catchup, raftVars
  <1>7. Shape(cfg, y, "no")
    <2>1. x.gone \subseteq DOMAIN x.store /\ (cfg.removals = {} => x.gone = {} /\ lead.gone = {})
      BY <1>2, <1>4 DEF Shape
    <2>2. QED
      BY <1>1, <1>2, <1>4, <1>5, <2>1, ShapeCaught
  <1>8. /\ DOMAIN m' = Replica /\ m'[r] = y /\ \A q \in Replica \ {r} : m'[q] = m[q]
        /\ snap'[r] = s /\ \A q \in Replica \ {r} : snap'[q] = snap[q]
    BY <1>2, <1>6
  <1>9. ASSUME NEW q \in Replica PROVE Shape(cfg, m'[q], halted'[q]) /\ SnapShape(cfg, snap'[q])
    <2>1. Shape(cfg, m[q], halted[q]) /\ SnapShape(cfg, snap[q])
      BY OfShape
    <2>2. CASE q = r
      BY <1>4, <1>6, <1>7, <1>8, <2>2
    <2>3. CASE q # r
      <3>1. m'[q] = m[q] /\ snap'[q] = snap[q] /\ halted'[q] = halted[q]
        BY <1>6, <1>8, <2>3
      <3>2. QED
        BY <2>1, <3>1
    <2>4. QED
      BY <2>2, <2>3
  <1>10. QED
    BY <1>2, <1>6, <1>9 DEF ShapeInv

\* At first nothing is stored.
LEMMA ShapeInit ==
    ASSUME Init
    PROVE  ShapeInv
  <1>1. GroupInv
    BY InvInit
  <1>2. cfg \in Configs /\ log = <<[op |-> "empty"]>>
    BY DEF Init
  <1>3. cfg.len \in Nat \ {0}
    BY <1>2, ConfigsAssumption
  <1>4. LogShape(cfg, log)
    BY <1>2, <1>3 DEF LogShape
  <1>5. ASSUME NEW r \in Replica PROVE Shape(cfg, m[r], halted[r]) /\ SnapShape(cfg, snap[r])
    BY DEF Init, InitStream, Shape, SnapShape
  <1>6. QED
    BY <1>1, <1>4, <1>5 DEF ShapeInv

\* Every step keeps the types.
LEMMA ShapeNext ==
    ASSUME ShapeInv, [Next]_vars
    PROVE  ShapeInv'
  <1>1. GroupInv'
    BY InvNext DEF ShapeInv
  <1>2. CASE UNCHANGED vars
    BY <1>1, <1>2 DEF vars, raftVars, ShapeInv
  <1>3. CASE Commit
    BY <1>1, <1>3 DEF Commit, ShapeInv
  <1>4. ASSUME NEW r \in Replica, NEW p \in cfg.pubs, Publish(r, p) \/ PublishRefused(r, p)
        PROVE  ShapeInv'
    BY <1>1, <1>4, ShapePublish, ShapePublishRefused
  <1>5. ASSUME NEW r \in Replica, NEW b \in cfg.batches, PublishBatch(r, b) PROVE ShapeInv'
    BY <1>1, <1>5, ShapePublishBatch
  <1>6. ASSUME NEW r \in Replica, NEW q \in cfg.removals,
               MsgDeleteRequest(r, q) \/ StreamPurgeRequest(r, q)
        PROVE  ShapeInv'
    BY <1>1, <1>6, ShapeGrows
  <1>7. ASSUME NEW r \in Replica,
               \/ ApplyEmpty(r) \/ ApplyMsg(r) \/ AfterMsg(r) \/ ApplyBatchMsg(r)
               \/ ApplyBatch(r) \/ ApplyRemoval(r)
        PROVE  ShapeInv'
    BY <1>1, <1>7, ShapeApplyEmpty, ShapeApplyMsg, ShapeAfterMsg, ShapeApplyBatchMsg,
       ShapeApplyBatch, ShapeApplyRemoval
  <1>8. ASSUME NEW r \in Replica, NEW k \in 0 .. cfg.len, LeaderChange(r, k) PROVE ShapeInv'
    BY <1>1, <1>8, ShapeGrows
  <1>9. ASSUME NEW r \in Replica, ProcessLeaderChange(r) \/ Snapshot(r) \/ Catchup(r)
        PROVE  ShapeInv'
    BY <1>1, <1>9, ShapeProcessLeaderChange, ShapeSnapshot, ShapeCatchup
  <1>10. ASSUME NEW r \in Replica, NEW kept \in snap[r].lseq .. Len(m[r].store),
                NEW gone \in {snap[r].gone, m[r].gone}, Restart(r, kept, gone)
         PROVE  ShapeInv'
    BY <1>1, <1>10, ShapeRestart
  <1>11. QED
    BY <1>2, <1>3, <1>4, <1>5, <1>6, <1>7, <1>8, <1>9, <1>10, Zenon DEF Next

\* The values of a replica.
LEMMA TypesOf ==
    ASSUME ShapeInv, TrackInv, NEW r \in Replica
    PROVE  /\ m[r].clfs \in Nat /\ m[r].clseq \in Nat /\ m[r].active \in BOOLEAN
           /\ m[r].applied \in 0 .. commit /\ m[r].gone \subseteq DOMAIN m[r].store
           /\ Range(m[r].inflight) \subseteq Nat \ {0}
           /\ \A i \in DOMAIN m[r].dd : m[r].dd[i].seq \in 0 .. Len(m[r].store)
           /\ m[r].batch.count > 0 <=> m[r].batch.id # 0
           /\ halted[r] \in {"no", "mismatch", "werr"}
           /\ snap[r].idx <= commit
  <1>1. PICK x, h, s : x = m[r] /\ h = halted[r] /\ s = snap[r]
    OBVIOUS
  <1>2. /\ Grouped(log) /\ log \in Seq(Entry) /\ commit \in 0 .. Len(log) /\ Len(x.store) \in Nat
        /\ ReplicaOK(log, commit, x, replay[r], h) /\ SnapOK(log, commit, x, s) /\ IdsOK(x.dd, x.store)
    BY <1>1, OfReplica DEF ShapeInv
  <1>3. Shape(cfg, x, h)
    BY <1>1, OfShape
  <1>4. x.active \in BOOLEAN
    BY <1>2, Zenon DEF ReplicaOK
  <1>5. x.clfs \in Nat /\ x.clseq \in Nat /\ x.applied \in 0 .. commit /\ h \in {"no", "werr"}
    BY <1>2 DEF ReplicaOK
  <1>6. Range(x.inflight) \subseteq Nat \ {0}
    <2>1. InflightOK(x.inflight)
      BY <1>1, OnePost
    <2>2. \A t \in DOMAIN x.inflight : x.inflight[t] \in Nat \ {0}
      BY <2>1 DEF InflightOK
    <2>3. ASSUME NEW v \in Range(x.inflight) PROVE v \in Nat \ {0}
      <3>1. PICK t \in DOMAIN x.inflight : v = x.inflight[t]
        BY DEF Range
      <3>2. QED
        BY <2>2, <3>1
    <2>4. QED
      BY <2>3
  <1>7. ASSUME NEW i \in DOMAIN x.dd PROVE x.dd[i].seq \in 0 .. Len(x.store)
    <2>1. x.dd \in Seq([id : Nat, seq : Nat]) /\ (x.dd[i].seq # 0 => x.dd[i].seq <= Len(x.store))
      BY <1>2 DEF IdsOK
    <2>2. x.dd[i].seq \in Nat
      <3>1. PICK dd : dd = x.dd
        OBVIOUS
      <3>2. dd \in Seq(Id) /\ i \in DOMAIN dd
        BY <2>1, <3>1 DEF Id
      <3>3. dd[i] \in Id
        BY <3>2
      <3>4. dd[i].seq \in Nat
        BY <3>3 DEF Id
      <3>5. QED
        BY <3>1, <3>4
    <2>3. QED
      BY <1>2, <2>1, <2>2
  <1>8. x.batch.count > 0 <=> x.batch.id # 0
    <2>1. CASE h = "werr"
      BY <1>3, <2>1 DEF Shape, NoBatch
    <2>2. CASE h = "no"
      <3>1. PICK a : a = x.applied
        OBVIOUS
      <3>2. x.batch = BatchAt(log, a) /\ a \in 0 .. Len(log) /\ Len(log) \in Nat
        BY <1>2, <1>5, <2>2, <3>1 DEF ReplicaOK, RunOK
      <3>3. CASE Open(log, a) = 0
        BY <3>2, <3>3 DEF BatchAt, NoBatch
      <3>4. CASE Open(log, a) # 0
        <4>1. a > 0 /\ log[a].op = "batchMsg"
          BY <3>4 DEF Open
        <4>2. a \in 1 .. Len(log) /\ IsBatch(log[a])
          BY <3>2, <4>1 DEF IsBatch
        <4>3. log[a].bs \in 1 .. a /\ log[a].b # 0
          BY <1>2, <4>2 DEF Grouped, GroupedAt
        <4>4. x.batch.id = log[a].b /\ x.batch.count = log[a].bs
          BY <3>2, <3>4 DEF BatchAt
        <4>5. QED
          BY <4>2, <4>3, <4>4
      <3>5. QED
        BY <3>3, <3>4
    <2>3. QED
      BY <1>5, <2>1, <2>2
  <1>9. s.idx <= commit
    BY <1>2 DEF SnapOK
  <1>10. x.gone \subseteq DOMAIN x.store
    BY <1>3 DEF Shape
  <1>11. h \in {"no", "mismatch", "werr"}
    BY <1>5
  <1>12. QED
    BY <1>1, <1>4, <1>5, <1>6, <1>7, <1>8, <1>9, <1>10, <1>11, Zenon

\* The invariants give the types.
LEMMA TypesRight ==
    ASSUME ShapeInv, TrackInv
    PROVE  TypeOK
  <1>1. /\ cfg \in Configs /\ commit \in 0 .. Len(log) /\ Len(log) <= cfg.len /\ elected \in Replica
    BY DEF ShapeInv, GroupInv, LogShape
  <1>2. LeaderOK(log, aflr, m[elected], replay[elected], leaderState)
    BY DEF ShapeInv, GroupInv
  <1>3. aflr \in 1 .. Len(log)
    BY <1>2 DEF LeaderOK
  <1>4. leaderState \in BOOLEAN
    BY <1>2, Zenon DEF LeaderOK
  <1>5. QED
    BY <1>1, <1>3, <1>4, TypesOf, Zenon DEF TypeOK

\* What the stream keeps about its proposals is right (mset.inflight, ddarr, clseq,
\* the batch that is open): the types, and what a leader has noted as in flight is
\* exactly what it has proposed and not applied, subject by subject.  Nothing
\* leaks, which would refuse messages for good.
THEOREM ProposalsRight == Spec => []ProposalsTracked
  <1>1. Init => TrackInv /\ ShapeInv
    BY TrackInit, ShapeInit
  <1>2. (TrackInv /\ ShapeInv) /\ [Next]_vars => (TrackInv /\ ShapeInv)'
    BY TrackNext, ShapeNext
  <1>3. TrackInv /\ ShapeInv => ProposalsTracked
    BY TrackExact, TypesRight DEF ProposalsTracked
  <1>4. QED
    BY <1>1, <1>2, <1>3, PTL DEF Spec

-----------------------------------------------------------------------------
(***************************************************************************)
(* Messages that expect the last sequence of a subject.  What the log      *)
(* stores when all of it is applied is one store, whose beginning is that  *)
(* of every replica.  In it each such message follows what it expects: the *)
(* leader has found that sequence among what it has applied, and nothing   *)
(* of the subject among what it has proposed since, or staged before it in *)
(* the same batch.                                                         *)
(***************************************************************************)
\* Two stores with the same first messages.
LEMMA LastSame ==
    ASSUME NEW st, NEW su, NEW n, \A i \in 1 .. n : st[i] = su[i], NEW s
    PROVE  LastOf(st, n, s) = LastOf(su, n, s)
  <1>1. PlacesOf(st, n, s) = PlacesOf(su, n, s)
    BY DEF PlacesOf
  <1>2. QED
    BY <1>1, Zenon DEF LastOf

\* Messages of other subjects.
LEMMA LastOthers ==
    ASSUME NEW st, NEW n \in Nat, NEW k \in Nat, n <= k, NEW s,
           \A i \in n + 1 .. k : st[i].m.s # s
    PROVE  LastOf(st, k, s) = LastOf(st, n, s)
  <1>1. ASSUME NEW i \in 1 .. k, st[i].m.s = s PROVE i \in 1 .. n
    <2>1. i \notin n + 1 .. k
      BY <1>1
    <2>2. QED
      BY <2>1
  <1>2. \A i \in 1 .. n : i \in 1 .. k
    OBVIOUS
  <1>3. PlacesOf(st, k, s) = PlacesOf(st, n, s)
    BY <1>1, <1>2 DEF PlacesOf
  <1>4. QED
    BY <1>3, Zenon DEF LastOf

\* The beginning of a store.
LEMMA SubjectsBegin ==
    ASSUME NEW st, Len(st) \in Nat, SubjectsOK(st), NEW su, Len(su) \in Nat, Len(su) <= Len(st),
           \A i \in 1 .. Len(su) : su[i] = st[i]
    PROVE  SubjectsOK(su)
  <1>1. ASSUME NEW q \in 1 .. Len(su) PROVE Follows(su, q)
    <2>1. q \in 1 .. Len(st) /\ q - 1 \in Nat /\ su[q] = st[q]
      BY <1>1
    <2>2. Follows(st, q)
      BY <2>1 DEF SubjectsOK
    <2>3. \A i \in 1 .. q - 1 : su[i] = st[i]
      BY <2>1
    <2>4. \A s : LastOf(su, q - 1, s) = LastOf(st, q - 1, s)
      BY <2>3, LastSame
    <2>5. QED
      BY <2>1, <2>2, <2>4, Zenon DEF Follows
  <1>2. QED
    BY <1>1 DEF SubjectsOK

\* What the leader finds in its store, with nothing removed.
LEMMA LastFound ==
    ASSUME NEW x, x.store \in Seq(Item), x.gone = {}, NEW s
    PROVE  LastSeqOf(x, s) = LastOf(x.store, Len(x.store), s)
  <1>1. PICK st : st = x.store
    OBVIOUS
  <1>2. DOMAIN st = 1 .. Len(st)
    BY <1>1
  <1>3. {i \in Live(x) : x.store[i].m.s = s} = PlacesOf(st, Len(st), s)
    BY <1>1, <1>2 DEF Live, PlacesOf
  <1>4. QED
    BY <1>1, <1>3, Zenon DEF LastSeqOf, LastOf

\* The log is cut: less is stored.
LEMMA WholeCut ==
    ASSUME NEW l, LogOK(l), NEW k, LogOK(k), NEW n \in 0 .. Len(l), Past(l, k, n), Len(k) = n + 1,
           ~IsMsg(k[n + 1]), NEW st, Whole(l, st)
    PROVE  \E su : /\ Whole(k, su) /\ Len(su) \in Nat /\ Len(su) <= Len(st)
                   /\ \A i \in 1 .. Len(su) : su[i] = st[i]
  <1>1. /\ Grouped(l) /\ Grouped(k) /\ l \in Seq(Entry) /\ k \in Seq(Entry) /\ Len(l) \in Nat
        /\ n \in Nat /\ Len(k) \in Nat
    BY DEF LogOK, Grouped
  <1>2. StoreOK(l, Len(l), st) /\ Len(st) = Size(l, Len(l)) /\ st \in Seq(Item)
    BY DEF Whole, StoreOK
  <1>3. PICK z : z = Size(l, n)
    OBVIOUS
  <1>4. Len(l) \in n .. Len(l) /\ Len(l) \in 0 .. Len(l)
    BY <1>1
  <1>5. z \in Nat /\ z <= Len(st)
    <2>1. Size(l, n) \in Nat
      BY <1>1, SizeNat
    <2>2. Size(l, n) <= Size(l, Len(l))
      BY <1>1, <1>4, SizeGrows
    <2>3. QED
      BY <1>2, <1>3, <2>1, <2>2
  <1>6. PICK su : su = SubSeq(st, 1, z)
    OBVIOUS
  <1>7. su \in Seq(Item) /\ Len(su) = z /\ \A i \in 1 .. z : su[i] = st[i]
    BY <1>2, <1>5, <1>6
  <1>8. StoreOK(l, Len(l), su)
    BY <1>1, <1>2, <1>4, <1>5, <1>7, StoreCut
  <1>9. StoreOK(l, n, su)
    <2>1. \A i \in 1 .. n : i \in 1 .. Len(l)
      BY <1>1
    <2>2. QED
      BY <1>3, <1>5, <1>7, <1>8, <2>1 DEF StoreOK
  <1>10. n \in 0 .. n /\ n \in 0 .. Len(k) /\ n + 1 \in n .. Len(k) /\ n + 1 \in 1 .. Len(k)
         /\ (n + 1) - 1 = n
    BY <1>1
  <1>11. StoreOK(k, n, su)
    BY <1>1, <1>9, <1>10, StoreFrame
  <1>12. StoreOK(k, n + 1, su)
    BY <1>1, <1>10, <1>11, StoreMore
  <1>13. Size(k, n + 1) = Size(k, (n + 1) - 1) + Width(k[n + 1])
    BY <1>1, <1>10, SizeNext
  <1>14. Width(k[n + 1]) = 0
    BY DEF IsMsg, Width
  <1>15. Size(k, n) = z
    BY <1>3, <1>10, PastSame
  <1>16. Size(k, n + 1) = z
    BY <1>5, <1>10, <1>13, <1>14, <1>15
  <1>17. Whole(k, su)
    BY <1>7, <1>12, <1>16 DEF Whole
  <1>18. QED
    BY <1>5, <1>7, <1>17

\* There is such a store.
LEMMA ExtendsOne ==
    ASSUME NEW st \in Seq(Item), NEW k \in Seq(Entry), NEW n \in Nat, n <= Len(k),
           \A j \in 1 .. n : IsMsg(k[(Len(k) - n) + j])
    PROVE  \E su : Extends(st, su, k, n)
  <1>1. PICK o, z : o = Len(k) - n /\ z = Len(st)
    OBVIOUS
  <1>2. o \in Nat /\ z \in Nat /\ Len(k) \in Nat
    BY <1>1
  <1>3. PICK it : it = [j \in 1 .. n |-> ItemOf(k[o + j])]
    OBVIOUS
  <1>4. ASSUME NEW j \in 1 .. n PROVE ItemOf(k[o + j]) \in Item
    <2>1. o + j \in 1 .. Len(k)
      BY <1>1, <1>2
    <2>2. k[o + j] \in Entry
      BY <2>1
    <2>3. IsMsg(k[o + j])
      BY <1>1
    <2>4. QED
      BY <2>2, <2>3, EntryFacts
  <1>5. it \in Seq(Item) /\ Len(it) = n /\ \A j \in 1 .. n : it[j] = ItemOf(k[o + j])
    BY <1>3, <1>4
  <1>6. PICK su : su = st \o it
    OBVIOUS
  <1>7. /\ su \in Seq(Item) /\ Len(su) = z + n /\ \A i \in 1 .. z : su[i] = st[i]
        /\ \A j \in 1 .. n : su[z + j] = it[j]
    <2>1. it \in Seq(Item) /\ Len(it) = n
      BY <1>5
    <2>2. su \in Seq(Item) /\ Len(su) = z + n
      BY <1>1, <1>6, <2>1, Appended
    <2>3. ASSUME NEW i \in 1 .. z PROVE su[i] = st[i]
      BY <1>1, <1>6, <2>1
    <2>4. ASSUME NEW j \in 1 .. n PROVE su[z + j] = it[j]
      BY <1>1, <1>2, <1>6, <2>1
    <2>5. QED
      BY <2>2, <2>3, <2>4
  <1>8. Extends(st, su, k, n)
    BY <1>1, <1>5, <1>7 DEF Extends
  <1>9. QED
    BY <1>8

\* The log goes on with n messages, which its last entry stores.
LEMMA WholeGrows ==
    ASSUME NEW l, LogOK(l), NEW k, LogOK(k), Past(l, k, Len(l)), NEW n \in Nat \ {0},
           Len(k) = Len(l) + n, Width(k[Len(k)]) = n,
           \A i \in Len(l) + 1 .. Len(k) - 1 : Width(k[i]) = 0,
           Size(k, Len(k) - 1) = Size(l, Len(l)),
           NEW st, Whole(l, st), NEW su, Extends(st, su, k, n)
    PROVE  Whole(k, su)
  <1>1. /\ Grouped(l) /\ Grouped(k) /\ l \in Seq(Entry) /\ k \in Seq(Entry) /\ Len(l) \in Nat
        /\ Len(k) \in Nat /\ \A i \in 1 .. Len(l) : l[i] = k[i]
    BY DEF LogOK, Grouped, Past
  <1>2. StoreOK(l, Len(l), st) /\ Len(st) = Size(l, Len(l)) /\ Len(st) \in Nat
    BY DEF Whole, StoreOK
  <1>3. Len(k) \in 1 .. Len(k) /\ Len(k) - n = Len(l)
    BY <1>1
  <1>4. Size(k, Len(k)) = Size(k, Len(k) - 1) + Width(k[Len(k)])
    BY <1>1, <1>3, SizeNext
  <1>5. Size(k, Len(k)) = Len(st) + n /\ su \in Seq(Item) /\ Len(su) = Size(k, Len(k))
    BY <1>2, <1>4 DEF Extends
  <1>6. ASSUME NEW i \in 1 .. Len(k), NEW j \in 1 .. Width(k[i])
        PROVE  su[Size(k, i - 1) + j] = ItemOf(k[i - Width(k[i]) + j])
    <2>1. CASE i <= Len(l)
      <3>1. i \in 1 .. Len(l) /\ i - 1 \in 0 .. Len(l) /\ i \in 0 .. Len(l) /\ l[i] = k[i]
        BY <1>1, <2>1
      <3>2. Size(k, i - 1) = Size(l, i - 1) /\ Size(l, i - 1) \in Nat /\ Width(l[i]) \in Nat
        BY <1>1, <3>1, PastSame, SizeNat, Weights, SMTT(30)
      <3>3. Size(l, i) = Size(l, i - 1) + Width(l[i])
        BY <1>1, <3>1, SizeNext
      <3>4. Size(l, i) <= Size(l, Len(l))
        <4>1. Len(l) \in i .. Len(l)
          BY <1>1, <3>1
        <4>2. QED
          BY <1>1, <3>1, <4>1, SizeGrows
      <3>5. PICK q : q = Size(l, i - 1) + j
        OBVIOUS
      <3>6. q \in 1 .. Len(st)
        BY <1>2, <3>1, <3>2, <3>3, <3>4, <3>5
      <3>7. st[q] = ItemOf(l[i - Width(l[i]) + j])
        BY <1>2, <3>1, <3>5, <3>6 DEF StoreOK
      <3>8. i - Width(l[i]) + j \in 1 .. i
        BY <1>1, <3>1, WidthFits
      <3>9. i - Width(l[i]) + j \in 1 .. Len(l)
        BY <1>1, <3>1, <3>8
      <3>10. l[i - Width(l[i]) + j] = k[i - Width(k[i]) + j]
        BY <1>1, <3>1, <3>9
      <3>11. su[q] = st[q]
        BY <3>6 DEF Extends
      <3>12. QED
        BY <3>2, <3>5, <3>7, <3>10, <3>11
    <2>2. CASE ~(i <= Len(l)) /\ i < Len(k)
      <3>1. i \in Len(l) + 1 .. Len(k) - 1
        BY <1>1, <2>2
      <3>2. Width(k[i]) = 0
        BY <3>1
      <3>3. QED
        BY <3>2
    <2>3. CASE i = Len(k)
      <3>1. Width(k[i]) = n /\ j \in 1 .. n /\ Size(k, i - 1) = Len(st)
        BY <1>2, <2>3
      <3>2. QED
        BY <2>3, <3>1 DEF Extends
    <2>4. i <= Len(l) \/ (~(i <= Len(l)) /\ i < Len(k)) \/ i = Len(k)
      BY <1>1
    <2>5. QED
      BY <2>1, <2>2, <2>3, <2>4, Zenon
  <1>7. StoreOK(k, Len(k), su)
    BY <1>1, <1>5, <1>6 DEF StoreOK
  <1>8. QED
    BY <1>5, <1>7 DEF Whole

\* The messages that are new follow what they expect.
LEMMA SubjectsGrow ==
    ASSUME NEW st, Len(st) \in Nat, SubjectsOK(st), NEW k \in Seq(Entry), NEW n \in Nat,
           NEW su, Extends(st, su, k, n),
           NEW o, o = Len(k) - n, \A j \in 1 .. n : NewFollows(st, k, o, j)
    PROVE  SubjectsOK(su)
  <1>1. PICK z : z = Len(st)
    OBVIOUS
  <1>2. /\ o \in Int /\ z \in Nat /\ Len(su) = z + n /\ \A i \in 1 .. z : su[i] = st[i]
        /\ \A j \in 1 .. n : su[z + j] = ItemOf(k[o + j])
    BY <1>1 DEF Extends
  <1>3. ASSUME NEW j \in 1 .. n PROVE su[z + j].m = k[o + j].m
    <2>1. su[z + j] = ItemOf(k[o + j])
      BY <1>2
    <2>2. QED
      BY <2>1 DEF ItemOf
  <1>4. ASSUME NEW q \in 1 .. z PROVE Follows(su, q)
    <2>1. Follows(st, q) /\ su[q] = st[q] /\ \A i \in 1 .. q - 1 : su[i] = st[i]
      BY <1>1, <1>2 DEF SubjectsOK
    <2>2. \A s : LastOf(su, q - 1, s) = LastOf(st, q - 1, s)
      BY <2>1, LastSame
    <2>3. QED
      BY <2>1, <2>2, Zenon DEF Follows
  <1>5. ASSUME NEW j \in 1 .. n, su[z + j].m.elss # -1
        PROVE  LastOf(su, z + j - 1, su[z + j].m.es) = su[z + j].m.elss
    <2>1. PICK p, s, y : p = k[o + j].m /\ s = p.es /\ y = z + j - 1
      OBVIOUS
    <2>2. su[z + j].m = p
      BY <1>3, <2>1
    <2>3. LastOf(st, z, s) = p.elss /\ \A i \in 1 .. j - 1 : k[o + i].m.s # s
      BY <1>1, <1>5, <2>1, <2>2 DEF NewFollows
    <2>4. y \in Nat /\ z <= y
      BY <1>2, <2>1
    <2>5. ASSUME NEW i \in z + 1 .. y PROVE su[i].m.s # s
      <3>1. PICK h : h = i - z
        OBVIOUS
      <3>2. h \in 1 .. j - 1 /\ h \in 1 .. n /\ i = z + h
        <4>1. z \in Nat /\ y = z + j - 1
          BY <1>2, <2>1
        <4>2. i \in Int /\ z + 1 <= i /\ i <= z + j - 1 /\ j <= n
          BY <4>1
        <4>3. QED
          BY <3>1, <4>1, <4>2
      <3>3. su[i].m = k[o + h].m
        BY <1>3, <3>2
      <3>4. QED
        BY <2>3, <3>2, <3>3
    <2>6. LastOf(su, y, s) = LastOf(su, z, s)
      BY <1>2, <2>4, <2>5, LastOthers
    <2>7. LastOf(su, z, s) = LastOf(st, z, s)
      BY <1>2, LastSame
    <2>8. QED
      BY <2>1, <2>2, <2>3, <2>6, <2>7
  <1>6. ASSUME NEW q \in 1 .. z + n PROVE Follows(su, q)
    <2>1. CASE q <= z
      BY <1>2, <1>4, <2>1
    <2>2. CASE ~(q <= z)
      <3>1. PICK j : j = q - z
        OBVIOUS
      <3>2. j \in 1 .. n /\ q = z + j /\ z + j - 1 = q - 1
        BY <1>2, <2>2, <3>1
      <3>3. ASSUME su[q].m.elss # -1 PROVE LastOf(su, q - 1, su[q].m.es) = su[q].m.elss
        <4>1. su[z + j].m.elss # -1
          BY <3>2, <3>3
        <4>2. LastOf(su, z + j - 1, su[z + j].m.es) = su[z + j].m.elss
          BY <1>5, <3>2, <4>1
        <4>3. QED
          BY <3>2, <4>2
      <3>4. QED
        BY <3>3 DEF Follows
    <2>3. QED
      BY <2>1, <2>2
  <1>7. QED
    BY <1>2, <1>6 DEF SubjectsOK

-----------------------------------------------------------------------------

\* The check of one message.
LEMMA CheckFinds ==
    ASSUME NEW x, NEW d, DiffOK(d), StagedRight(x, d), NEW p \in Message,
           NEW e, e = CheckMsg(x, d, p), e.ok
    PROVE  StagedRight(x, e) /\ FoundBy(x, d, p)
  <1>1. CASE /\ d.ok /\ DuplicateOk(x, d, p) /\ ExpectedLastSeqOk(x, d, p)
             /\ ExpectedPerSubjectOk(x, d, p) /\ LimitOk(x, d, p)
    <2>1. FoundBy(x, d, p)
      BY <1>1 DEF FoundBy, ExpectedPerSubjectOk, StagedRight
    <2>2. PICK g : g = IF p.elss = -1 THEN d.expected
                       ELSE [s \in DOMAIN d.expected \cup {p.es} |->
                               IF s = p.es THEN [sseq |-> p.elss, clseq |-> x.clseq]
                               ELSE d.expected[s]]
      OBVIOUS
    <2>3. PICK u, v : e = [d EXCEPT !.ids = u, !.inflight = v, !.expected = g]
      BY <1>1, <2>2 DEF CheckMsg
    <2>4. e.expected = g
      BY <2>3 DEF DiffOK
    <2>5. ASSUME NEW s \in DOMAIN g PROVE g[s].sseq = LastSeqOf(x, s)
      <3>1. CASE p.elss = -1
        BY <2>2, <3>1 DEF StagedRight
      <3>2. CASE p.elss # -1 /\ s = p.es
        <4>1. g[s] = [sseq |-> p.elss, clseq |-> x.clseq]
          BY <2>2, <3>2
        <4>2. QED
          BY <2>1, <3>2, <4>1 DEF FoundBy
      <3>3. CASE p.elss # -1 /\ s # p.es
        <4>1. s \in DOMAIN d.expected /\ g[s] = d.expected[s]
          BY <2>2, <3>3
        <4>2. QED
          BY <4>1 DEF StagedRight
      <3>4. QED
        BY <3>1, <3>2, <3>3
    <2>6. QED
      BY <2>1, <2>4, <2>5 DEF StagedRight
  <1>2. CASE ~(/\ d.ok /\ DuplicateOk(x, d, p) /\ ExpectedLastSeqOk(x, d, p)
               /\ ExpectedPerSubjectOk(x, d, p) /\ LimitOk(x, d, p))
    <2>1. PICK f : e = [d EXCEPT !.ok = FALSE, !.dup = f]
      BY <1>2 DEF CheckMsg
    <2>2. e.ok = FALSE
      BY <2>1 DEF DiffOK
    <2>3. QED
      BY <2>2
  <1>3. QED
    BY <1>1, <1>2

\* Nothing is staged at first.
LEMMA NothingStaged ==
    ASSUME NEW x
    PROVE  StagedRight(x, NoDiff)
  BY DEF StagedRight, NoDiff, EmptyFcn

\* A stream that has the same messages finds the same.
LEMMA AlikeFinds ==
    ASSUME NEW x, NEW y, Alike(x, y), NEW s
    PROVE  LastSeqOf(y, s) = LastSeqOf(x, s)
  <1>1. y.store = x.store /\ y.gone = x.gone
    BY DEF Alike
  <1>2. Live(y) = Live(x)
    BY <1>1, Zenon DEF Live
  <1>3. QED
    BY <1>1, <1>2, Zenon DEF LastSeqOf

\* The checks of a batch: each message expects what the leader has found, and none
\* before it in the batch has the subject.
LEMMA StepsFind ==
    ASSUME NEW x, NEW b \in Seq(Message), NEW w, NEW g, NEW f, Steps(x, b, w, g, f), w.d.ok,
           NEW j \in 1 .. Len(b), b[j].elss # -1
    PROVE  /\ b[j].elss = LastSeqOf(x, b[j].es) /\ b[j].es \notin DOMAIN x.inflight
           /\ \A i \in 1 .. j - 1 : b[i].s # b[j].es
  <1>1. PICK c : c = Len(b)
    OBVIOUS
  <1>2. c \in Nat /\ DOMAIN b = 1 .. c /\ f[0] = NoDiff /\ j \in 1 .. c
    BY <1>1 DEF Steps
  <1> DEFINE Good(h) == /\ StagedRight(x, f[h])
                        /\ \A i \in 1 .. h : b[i].s \in DOMAIN f[h].inflight
             G == {h \in 0 .. c : Good(h)}
  <1>3. 0 \in G
    <2>1. StagedRight(x, f[0])
      BY <1>2, NothingStaged
    <2>2. \A i \in 1 .. 0 : b[i].s \in DOMAIN f[0].inflight
      OBVIOUS
    <2>3. QED
      BY <1>2, <2>1, <2>2
  <1>4. ASSUME NEW h \in 1 .. c, StagedRight(x, f[h - 1])
        PROVE  /\ StagedRight(x, f[h]) /\ FoundBy(x, f[h - 1], b[h])
               /\ f[h].inflight = Plus(f[h - 1].inflight, Single(b[h].s))
    <2>1. PICK y, d, e, p : y = g[h - 1] /\ d = f[h - 1] /\ e = f[h] /\ p = b[h]
      OBVIOUS
    <2>2. h - 1 \in 0 .. c /\ h \in 1 .. Len(b) /\ p \in Message
      BY <1>1, <1>2, <2>1
    <2>3. e = CheckMsg(y, d, p) /\ DiffOK(d) /\ Alike(x, y)
      BY <1>1, <2>1, <2>2 DEF Steps
    <2>4. e.ok
      BY <2>1, <2>2, StepsTaken
    <2>5. \A s : LastSeqOf(y, s) = LastSeqOf(x, s)
      BY <2>3, AlikeFinds
    <2>6. StagedRight(y, d)
      BY <1>4, <2>1, <2>5 DEF StagedRight
    <2>7. StagedRight(y, e) /\ FoundBy(y, d, p)
      BY <2>2, <2>3, <2>4, <2>6, CheckFinds
    <2>8. StagedRight(x, e)
      BY <2>5, <2>7 DEF StagedRight
    <2>9. y.inflight = x.inflight
      BY <2>3 DEF Alike
    <2>10. FoundBy(x, d, p)
      BY <2>5, <2>7, <2>9 DEF FoundBy
    <2>11. e.inflight = Plus(d.inflight, Single(p.s))
      BY <2>2, <2>3, <2>4, CheckNotes
    <2>12. QED
      BY <2>1, <2>8, <2>10, <2>11
  <1>5. ASSUME NEW h \in 1 .. c, h - 1 \in G PROVE h \in G
    <2>1. Good(h - 1) /\ h \in 0 .. c
      BY <1>2, <1>5
    <2>2. StagedRight(x, f[h]) /\ f[h].inflight = Plus(f[h - 1].inflight, Single(b[h].s))
      BY <1>4, <2>1
    <2>3. DOMAIN f[h].inflight = DOMAIN f[h - 1].inflight \cup {b[h].s}
      BY <2>2 DEF Plus, Single
    <2>4. ASSUME NEW i \in 1 .. h PROVE b[i].s \in DOMAIN f[h].inflight
      <3>1. CASE i = h
        BY <2>3, <3>1
      <3>2. CASE i # h
        <4>1. i \in 1 .. h - 1
          BY <1>2, <3>2
        <4>2. QED
          BY <2>1, <2>3, <4>1
      <3>3. QED
        BY <3>1, <3>2
    <2>5. QED
      BY <2>1, <2>2, <2>4
  <1>6. j - 1 \in G
    <2> HIDE DEF G
    <2>1. j - 1 \in Nat /\ \A h \in 1 .. j - 1 : h \in 1 .. c
      BY <1>2
    <2>2. \A h \in 1 .. j - 1 : h - 1 \in G => h \in G
      BY <1>5, <2>1
    <2>3. QED
      BY <1>3, <2>1, <2>2, Sums!UpTo
  <1>7. Good(j - 1)
    BY <1>6
  <1>8. FoundBy(x, f[j - 1], b[j])
    BY <1>2, <1>4, <1>7
  <1>9. b[j].es \notin DOMAIN f[j - 1].inflight
    BY <1>8 DEF FoundBy
  <1>10. QED
    BY <1>7, <1>8, <1>9 DEF FoundBy

-----------------------------------------------------------------------------
\* What is stored after what x has applied is after SnapshotIndex in the log.
LEMMA StoredLater ==
    ASSUME NEW l, Grouped(l), NEW x, x.applied \in 0 .. Len(l), x.batch = BatchAt(l, x.applied),
           NEW i \in 1 .. Len(l), i > x.applied, NEW j \in 1 .. Width(l[i])
    PROVE  i - Width(l[i]) + j \in SnapshotIndex(x) + 1 .. Len(l)
  <1>1. PICK a, n, u, e : /\ a = x.applied /\ n = Len(l) /\ u = SnapshotIndex(x)
                          /\ e = i - Width(l[i]) + j
    OBVIOUS
  <1>2. n \in Nat /\ a \in 0 .. n /\ i \in 1 .. n /\ i > a
    BY <1>1 DEF Grouped
  <1>3. u = a - Open(l, a) /\ u \in 0 .. n
    BY <1>1, SnapshotAt
  <1>4. e \in 1 .. i
    BY <1>1, WidthFits
  <1>5. Open(l, a) \in Nat
    BY <1>1, OpenNat DEF Grouped
  <1>6. CASE e > a
    <2>1. e \in u + 1 .. n
      BY <1>2, <1>3, <1>4, <1>5, <1>6
    <2>2. QED
      BY <1>1, <2>1
  <1>7. CASE ~(e > a)
    <2>1. l[i].op = "batchCommit" /\ Width(l[i]) = l[i].bs
      <3>1. l[i].op \in {"msg", "batchCommit"}
        BY DEF Width
      <3>2. l[i].op # "msg"
        <4>1. l[i].op = "msg" => e = i
          BY <1>1, <1>2 DEF Width
        <4>2. QED
          BY <1>2, <1>7, <4>1
      <3>3. QED
        BY <3>1, <3>2 DEF Width
    <2>2. IsBatch(l[i])
      BY <2>1 DEF IsBatch
    <2>3. PICK b : b = l[i].bs
      OBVIOUS
    <2>4. b \in 1 .. i /\ j \in 1 .. b /\ e = i - b + j
      BY <1>1, <2>1, <2>2, <2>3, BlockStart
    <2>5. PICK h : h = a + 1 - (i - b)
      OBVIOUS
    <2>6. h \in 1 .. b /\ i - b + h = a + 1
      BY <1>2, <1>4, <1>7, <2>4, <2>5
    <2>7. Open(l, (i - b + h) - 1) = h - 1
      BY <2>2, <2>3, <2>6, BlockAt
    <2>8. Open(l, a) = h - 1
      <3>1. (i - b + h) - 1 = a
        BY <1>2, <2>6
      <3>2. QED
        BY <2>7, <3>1
    <2>9. u = i - b
      BY <1>2, <1>3, <2>4, <2>5, <2>8
    <2>10. e \in u + 1 .. n
      BY <1>2, <1>4, <2>4, <2>9
    <2>11. QED
      BY <1>1, <2>10
  <1>8. QED
    BY <1>6, <1>7

\* Nothing of a subject is in flight: the last of it that the leader has found is the
\* last one of all that is in the log.
LEMMA LastOfAll ==
    ASSUME NEW r \in Replica, Leading(r), InflightOK(m[r].inflight), m[r].gone = {},
           NEW st, Whole(log, st), NEW s \in Nat, s \notin DOMAIN m[r].inflight
    PROVE  LastSeqOf(m[r], s) = LastOf(st, Len(st), s)
  <1>1. PICK l, x, a, su : l = log /\ x = m[r] /\ a = x.applied /\ su = x.store
    OBVIOUS
  <1>2. /\ LogOK(l) /\ Grouped(l) /\ l \in Seq(Entry) /\ Len(l) \in Nat /\ a \in 0 .. Len(l)
        /\ Len(su) = Size(l, a) /\ x.batch = BatchAt(l, x.applied) /\ Tracks(l, x, post[r])
        /\ commit \in 0 .. Len(l) /\ StoreOK(l, commit, su)
    BY <1>1 DEF Leading, ReplicaOK
  <1>3. StoreOK(l, Len(l), st) /\ Len(st) = Size(l, Len(l)) /\ st \in Seq(Item)
    BY <1>1 DEF Whole, StoreOK
  <1>4. Len(l) \in commit .. Len(l) /\ Len(l) \in 0 .. Len(l) /\ Len(l) \in a .. Len(l)
    BY <1>2
  <1>5. StoreOK(l, Len(l), su) /\ su \in Seq(Item)
    <2>1. StoreOK(l, Len(l), su)
      BY <1>2, <1>4, StoreMore
    <2>2. QED
      BY <2>1 DEF StoreOK
  <1>6. Len(su) \in Nat /\ Len(st) \in Nat /\ Len(su) <= Len(st)
    BY <1>2, <1>3, <1>4, <1>5, SizeGrows
  <1>7. ASSUME NEW q \in 1 .. Len(su) PROVE su[q] = st[q]
    <2>1. q <= Len(st)
      BY <1>6
    <2>2. QED
      BY <1>2, <1>3, <1>4, <1>5, <2>1, StoresEqual, SMTT(30)
  <1>8. PICK u : u = SnapshotIndex(x)
    OBVIOUS
  <1>9. u \in 0 .. Len(l)
    BY <1>1, <1>2, <1>8, SnapshotAt
  <1>10. ASSUME NEW e \in u + 1 .. Len(l) PROVE ~Hit(l[e], s)
    <2>1. OpsOf(x.inflight, s) = 0
      BY <1>1 DEF OpsOf
    <2>2. OpsOf(x.inflight, s) = CountIn(l, u, Len(l), s) + Posted(post[r], s)
      BY <1>2, <1>8 DEF Tracks
    <2>3. PICK B, c, o : B = Between(l, u, Len(l), s) /\ c = Cardinality(B) /\ o = Posted(post[r], s)
      OBVIOUS
    <2>4. IsFiniteSet(B) /\ c \in Nat /\ c = CountIn(l, u, Len(l), s)
      <3>1. u \in Nat
        BY <1>9
      <3>2. QED
        BY <1>2, <2>3, <3>1, CountNat DEF CountIn
    <2>5. o \in Nat
      BY <2>3 DEF Posted
    <2>6. c + o = 0
      BY <2>1, <2>2, <2>3, <2>4
    <2>7. c = 0
      BY <2>4, <2>5, <2>6
    <2>8. B = {}
      BY <2>3, <2>4, <2>7, FS_EmptySet
    <2>9. QED
      BY <2>3, <2>8 DEF Between
  <1>11. ASSUME NEW q \in Len(su) + 1 .. Len(st) PROVE st[q].m.s # s
    <2>1. q \in 1 .. Size(l, Len(l)) /\ q <= Len(st)
      BY <1>3, <1>6
    <2>2. PICK i \in 1 .. Len(l) : \E j \in 1 .. Width(l[i]) : q = Size(l, i - 1) + j
      BY <1>2, <1>4, <2>1, Covered
    <2>3. PICK j \in 1 .. Width(l[i]) : q = Size(l, i - 1) + j
      BY <2>2
    <2>4. i > a
      <3>1. ASSUME i <= a PROVE FALSE
        <4>1. i \in 0 .. Len(l) /\ a \in i .. Len(l) /\ i - 1 \in 0 .. Len(l)
          BY <1>2, <3>1
        <4>2. Size(l, i) <= Size(l, a) /\ Size(l, i - 1) \in Nat /\ Size(l, a) \in Nat
              /\ Size(l, i) \in Nat /\ Width(l[i]) \in Nat
          BY <1>2, <4>1, SizeGrows, SizeNat, Weights
        <4>3. Size(l, i) = Size(l, i - 1) + Width(l[i])
          BY <1>2, SizeNext
        <4>4. QED
          BY <1>2, <1>6, <2>3, <4>2, <4>3, SMTT(30)
      <3>2. QED
        BY <1>2, <3>1
    <2>5. PICK e : e = i - Width(l[i]) + j
      OBVIOUS
    <2>6. e \in u + 1 .. Len(l)
      BY <1>1, <1>2, <1>8, <2>4, <2>5, StoredLater
    <2>7. st[q] = ItemOf(l[e])
      BY <1>3, <2>1, <2>3, <2>5 DEF StoreOK
    <2>8. IsMsg(l[e])
      BY <1>2, <2>5, WidthFits
    <2>9. ~Hit(l[e], s)
      BY <1>10, <2>6
    <2>10. QED
      BY <2>7, <2>8, <2>9 DEF Hit, ItemOf
  <1>12. LastSeqOf(x, s) = LastOf(su, Len(su), s)
    BY <1>1, <1>5, LastFound
  <1>13. LastOf(su, Len(su), s) = LastOf(st, Len(su), s)
    BY <1>7, LastSame
  <1>14. LastOf(st, Len(st), s) = LastOf(st, Len(su), s)
    BY <1>6, <1>11, LastOthers
  <1>15. QED
    BY <1>1, <1>12, <1>13, <1>14

\* The log goes on with n messages, which expect what the leader has found.
LEMMA SubjectProposed ==
    ASSUME SubjectInv, TrackInv', ShapeInv', cfg' = cfg, NEW r \in Replica, CanPropose(r),
           NEW k, k = log', NEW n \in Nat \ {0}, Past(log, k, Len(log)), Len(k) = Len(log) + n,
           Width(k[Len(k)]) = n, \A i \in Len(log) + 1 .. Len(k) - 1 : Width(k[i]) = 0,
           Size(k, Len(k) - 1) = Size(log, Len(log)),
           \A j \in 1 .. n : IsMsg(k[Len(log) + j]),
           \A j \in 1 .. n : NewFound(m[r], k, Len(log), j)
    PROVE  SubjectInv'
  <1>1. ASSUME cfg.removals = {} PROVE \E su : Whole(k, su) /\ SubjectsOK(su)
    <2>1. PICK st : Whole(log, st) /\ SubjectsOK(st)
      BY <1>1 DEF SubjectInv
    <2>2. /\ LogOK(log) /\ LogOK(k) /\ k \in Seq(Entry) /\ Len(log) \in Nat /\ Len(k) \in Nat
          /\ Len(k) - n = Len(log) /\ n <= Len(k)
      BY DEF SubjectInv, TrackInv, GroupInv, LogOK, Grouped
    <2>3. st \in Seq(Item) /\ Len(st) \in Nat
      BY <2>1 DEF Whole, StoreOK
    <2>4. PICK su : Extends(st, su, k, n)
      BY <2>2, <2>3, ExtendsOne
    <2>5. Whole(k, su)
      BY <2>1, <2>2, <2>4, WholeGrows
    <2>6. r = elected /\ halted[r] = "no" /\ m[r].active = TRUE
      BY Proposing DEF SubjectInv, TrackInv
    <2>7. Leading(r) /\ InflightOK(m[r].inflight)
      BY <2>6, LeadingIs, OnePost DEF SubjectInv
    <2>8. m[r].gone = {}
      BY <1>1, OfShape DEF SubjectInv, Shape
    <2>9. ASSUME NEW j \in 1 .. n, k[Len(log) + j].m.elss # -1
          PROVE  /\ LastOf(st, Len(st), k[Len(log) + j].m.es) = k[Len(log) + j].m.elss
                 /\ \A i \in 1 .. j - 1 : k[Len(log) + i].m.s # k[Len(log) + j].m.es
      <3>0. NewFound(m[r], k, Len(log), j)
        BY Zenon
      <3>1. PICK e, s : e = k[Len(log) + j] /\ s = e.m.es
        OBVIOUS
      <3>2. Len(log) + j \in 1 .. Len(k)
        BY <2>2
      <3>3. e \in Entry /\ IsMsg(e)
        <4>1. IsMsg(k[Len(log) + j])
          BY Zenon
        <4>2. k[Len(log) + j] \in Entry
          BY <2>2, <3>2
        <4>3. QED
          BY <3>1, <4>1, <4>2
      <3>4. e.m \in Message
        BY <3>3, EntryFacts
      <3>5. s \in Nat
        BY <3>1, <3>4 DEF Message
      <3>6. /\ e.m.elss = LastSeqOf(m[r], s) /\ s \notin DOMAIN m[r].inflight
            /\ \A i \in 1 .. j - 1 : k[Len(log) + i].m.s # s
        BY <2>9, <3>0, <3>1, Zenon DEF NewFound
      <3>7. LastSeqOf(m[r], s) = LastOf(st, Len(st), s)
        BY <2>1, <2>7, <2>8, <3>5, <3>6, LastOfAll
      <3>8. QED
        BY <3>1, <3>6, <3>7, Zenon
    <2>10. \A j \in 1 .. n : NewFollows(st, k, Len(log), j)
      BY <2>9, Zenon DEF NewFollows
    <2>11. SubjectsOK(su)
      BY <2>1, <2>2, <2>3, <2>4, <2>10, SubjectsGrow
    <2>12. QED
      BY <2>5, <2>11
  <1>2. QED
    BY <1>1 DEF SubjectInv

\* The leader finds the same when it has set the next sequence.
LEMMA ClseqFinds ==
    ASSUME NEW x, DOMAIN x = Fields, NEW s
    PROVE  LastSeqOf(WithClseq(x), s) = LastSeqOf(x, s)
  <1>1. Alike(x, WithClseq(x))
    BY DEF WithClseq, RecalculateClusteredSeq, Alike, Fields
  <1>2. QED
    BY <1>1, AlikeFinds

\* A message is proposed.
LEMMA SubjectPublish ==
    ASSUME SubjectInv, TrackInv', ShapeInv', NEW r \in Replica, NEW p \in cfg.pubs, Publish(r, p)
    PROVE  SubjectInv'
  <1>1. GroupInv /\ CanPropose(r) /\ cfg' = cfg
    BY DEF Publish, SubjectInv, TrackInv
  <1>2. PICK x, y, d : x = m[r] /\ y = WithClseq(x) /\ d = CheckMsg(y, NoDiff, p)
    OBVIOUS
  <1>3. PICK e : e = [op |-> "msg", m |-> p, lseq |-> y.clseq, b |-> 0, bs |-> 0]
    OBVIOUS
  <1>4. PICK k : k = log'
    OBVIOUS
  <1>5. k = Append(log, e) /\ d.ok
    BY <1>2, <1>3, <1>4 DEF Publish
  <1>6. /\ log \in Seq(Entry) /\ k \in Seq(Entry) /\ Len(log) \in Nat /\ DOMAIN x = Fields
    BY <1>1, <1>2, <1>4, OfReplica DEF ShapeInv, GroupInv, LogOK, Grouped
  <1>7. Past(log, k, Len(log)) /\ Len(k) = Len(log) + 1 /\ k[Len(log) + 1] = e /\ Len(k) - 1 = Len(log)
    BY <1>5, <1>6 DEF Past
  <1>8. Size(k, Len(k) - 1) = Size(log, Len(log))
    <2>1. Len(log) \in 0 .. Len(log)
      BY <1>6
    <2>2. QED
      BY <1>7, <2>1, PastSame
  <1>9. Width(k[Len(k)]) = 1 /\ IsMsg(e) /\ e.m = p
    BY <1>3, <1>7 DEF Width, IsMsg
  <1>10. p \in Message
    BY <1>1, OfConfig
  <1>11. FoundBy(y, NoDiff, p)
    <2>1. PICK o : o = NoDiff
      OBVIOUS
    <2>2. DiffOK(o) /\ StagedRight(y, o) /\ d = CheckMsg(y, o, p)
      BY <1>2, <2>1, NoDiffOK, NothingStaged
    <2>3. FoundBy(y, o, p)
      BY <1>5, <1>10, <2>2, CheckFinds
    <2>4. QED
      BY <2>1, <2>3
  <1>12. y.inflight = x.inflight /\ \A s : LastSeqOf(y, s) = LastSeqOf(x, s)
    BY <1>2, <1>6, KeepsOther, ClseqFinds DEF Keeps
  <1>13. p.elss # -1 => p.elss = LastSeqOf(m[r], p.es) /\ p.es \notin DOMAIN m[r].inflight
    BY <1>2, <1>11, <1>12 DEF FoundBy
  <1>14. \A j \in 1 .. 1 : IsMsg(k[Len(log) + j])
    BY <1>7, <1>9
  <1>15. \A i \in Len(log) + 1 .. Len(k) - 1 : Width(k[i]) = 0
    BY <1>6, <1>7
  <1>16. \A j \in 1 .. 1 : NewFound(m[r], k, Len(log), j)
    <2>1. \A j \in 1 .. 1 : j = 1 /\ k[Len(log) + j].m = p /\ \A i \in 1 .. j - 1 : FALSE
      BY <1>7, <1>9
    <2>2. QED
      BY <1>13, <2>1 DEF NewFound
  <1>17. QED
    BY <1>1, <1>4, <1>7, <1>8, <1>9, <1>14, <1>15, <1>16, SubjectProposed

\* A batch is proposed.
LEMMA SubjectPublishBatch ==
    ASSUME SubjectInv, TrackInv', ShapeInv', NEW r \in Replica, NEW b \in cfg.batches,
           PublishBatch(r, b)
    PROVE  SubjectInv'
  <1>1. GroupInv /\ CanPropose(r) /\ cfg' = cfg
    BY DEF PublishBatch, SubjectInv, TrackInv
  <1>2. PICK x, y, v : x = m[r] /\ y = WithClseq(x) /\ v = CheckBatch(y, b)
    OBVIOUS
  <1>3. PICK l, k, n : l = log /\ k = log' /\ n = Len(b)
    OBVIOUS
  <1>4. k = l \o BatchEntries(y, b, batches + 1) /\ v.d.ok
    BY <1>2, <1>3 DEF PublishBatch
  <1>5. Numbered(log, x, y)
    BY <1>1, <1>2, Proposing
  <1>6. y.clseq \in Nat /\ DOMAIN y = Fields
    BY <1>5 DEF Numbered, Same
  <1>7. b \in Seq(Message) /\ Len(b) > 0 /\ n \in Nat \ {0} /\ n \in 1 .. Len(b)
    BY <1>1, <1>3, OfConfig
  <1>8. /\ LogOK(l) /\ l \in Seq(Entry) /\ k \in Seq(Entry) /\ Len(l) \in Nat /\ DOMAIN x = Fields
    BY <1>1, <1>2, <1>3, OfReplica DEF ShapeInv, GroupInv, LogOK, Grouped
  <1>9. PICK g, f : Steps(y, b, v, g, f)
    BY <1>2, <1>6, <1>7, CheckSteps
  <1>10. /\ y.clseq = Proposed(l, Len(l)) /\ \A p \in ToSet(b) : p.elm = 0
         /\ batches + 1 \in Nat \ {0}
    BY <1>1, <1>3, <1>5 DEF PublishBatch, GroupInv, Numbered
  <1>11. Longer(l, k, b)
    BY <1>4, <1>7, <1>8, <1>10, BatchLonger
  <1>12. Len(k) = Len(l) + n /\ Past(l, k, Len(l)) /\ LogOK(k) /\ Grouped(k)
    BY <1>3, <1>11 DEF Longer, LogOK
  <1>13. ASSUME NEW j \in 1 .. n
         PROVE  /\ k[Len(l) + j].op = IF j = n THEN "batchCommit" ELSE "batchMsg"
                /\ k[Len(l) + j].m = b[j] /\ k[Len(l) + j].bs = j
    <2>1. EntryOf(k[Len(l) + j], y, b, batches + 1, j)
      BY <1>3, <1>4, <1>7, <1>8, BatchEntryIs
    <2>2. QED
      BY <1>3, <2>1 DEF EntryOf
  <1>14. \A j \in 1 .. n : IsMsg(k[Len(l) + j])
    BY <1>13 DEF IsMsg
  <1>15. k[Len(k)].op = "batchCommit" /\ k[Len(k)].bs = n
    <2>1. n \in 1 .. n /\ Len(k) = Len(l) + n
      BY <1>7, <1>12
    <2>2. QED
      BY <1>13, <2>1
  <1>16. Width(k[Len(k)]) = n /\ IsBatch(k[Len(k)])
    BY <1>15 DEF Width, IsBatch
  <1>17. ASSUME NEW i \in Len(l) + 1 .. Len(k) - 1 PROVE Width(k[i]) = 0
    <2>1. PICK j : j = i - Len(l)
      OBVIOUS
    <2>2. j \in 1 .. n /\ j # n /\ i = Len(l) + j
      BY <1>7, <1>8, <1>12, <2>1
    <2>3. k[i].op = "batchMsg"
      BY <1>13, <2>2
    <2>4. QED
      BY <2>3 DEF Width
  <1>18. Size(k, Len(k) - 1) = Size(l, Len(l))
    <2>1. PICK i : i = Len(k)
      OBVIOUS
    <2>2. i \in 1 .. Len(k) /\ n \in 1 .. k[i].bs /\ IsBatch(k[i]) /\ k[i].bs = n
      BY <1>7, <1>8, <1>12, <1>15, <1>16, <2>1
    <2>3. Size(k, (i - k[i].bs + n) - 1) = Size(k, i - k[i].bs)
      BY <1>12, <2>2, BlockFlat
    <2>4. (i - k[i].bs + n) - 1 = Len(k) - 1 /\ i - k[i].bs = Len(l)
      BY <1>7, <1>8, <1>12, <2>1, <2>2
    <2>5. Size(k, Len(l)) = Size(l, Len(l))
      <3>1. Len(l) \in 0 .. Len(l)
        BY <1>8
      <3>2. QED
        BY <1>12, <3>1, PastSame
    <2>6. QED
      BY <2>3, <2>4, <2>5
  <1>19. y.inflight = x.inflight /\ \A s : LastSeqOf(y, s) = LastSeqOf(x, s)
    BY <1>2, <1>8, KeepsOther, ClseqFinds DEF Keeps
  <1>20. ASSUME NEW j \in 1 .. n, k[Len(l) + j].m.elss # -1
         PROVE  /\ k[Len(l) + j].m.elss = LastSeqOf(x, k[Len(l) + j].m.es)
                /\ k[Len(l) + j].m.es \notin DOMAIN x.inflight
                /\ \A i \in 1 .. j - 1 : k[Len(l) + i].m.s # k[Len(l) + j].m.es
    <2>1. k[Len(l) + j].m = b[j] /\ j \in 1 .. Len(b) /\ b[j].elss # -1
      BY <1>3, <1>13, <1>20
    <2>2. /\ b[j].elss = LastSeqOf(y, b[j].es) /\ b[j].es \notin DOMAIN y.inflight
          /\ \A i \in 1 .. j - 1 : b[i].s # b[j].es
      <3>1. v.d.ok /\ b \in Seq(Message)
        BY <1>4, <1>7
      <3>2. QED
        BY <1>9, <2>1, <3>1, StepsFind, Zenon
    <2>3. ASSUME NEW i \in 1 .. j - 1 PROVE k[Len(l) + i].m.s # b[j].es
      <3>1. i \in 1 .. n
        BY <1>7
      <3>2. QED
        BY <1>13, <2>2, <3>1
    <2>4. QED
      BY <1>19, <2>1, <2>2, <2>3
  <1>21. \A j \in 1 .. n : NewFound(m[r], k, Len(l), j)
    BY <1>2, <1>20, Zenon DEF NewFound
  <1>22. QED
    BY <1>1, <1>3, <1>7, <1>12, <1>14, <1>16, <1>17, <1>18, <1>21, SubjectProposed

\* A request, or a new leader that cuts the log.
LEMMA SubjectLog ==
    ASSUME SubjectInv, TrackInv', ShapeInv', NEW r \in Replica,
           \/ \E q \in cfg.removals : MsgDeleteRequest(r, q) \/ StreamPurgeRequest(r, q)
           \/ \E k \in 0 .. cfg.len : LeaderChange(r, k)
    PROVE  SubjectInv'
  <1>1. CASE \E q \in cfg.removals : MsgDeleteRequest(r, q) \/ StreamPurgeRequest(r, q)
    <2>1. cfg' = cfg /\ cfg.removals # {}
      BY <1>1 DEF MsgDeleteRequest, StreamPurgeRequest
    <2>2. QED
      BY <2>1 DEF SubjectInv
  <1>2. ASSUME NEW n \in 0 .. cfg.len, LeaderChange(r, n) PROVE SubjectInv'
    <2>1. /\ cfg' = cfg /\ log' = Append(SubSeq(log, 1, n), [op |-> "empty"])
          /\ n \in commit .. Len(log) /\ commit \in 0 .. Len(log) /\ LogOK(log)
      BY <1>2 DEF LeaderChange, SubjectInv, TrackInv, GroupInv
    <2>2. Len(log) \in Nat /\ n \in 0 .. Len(log) /\ n \in Nat
      BY <2>1 DEF LogOK, Grouped
    <2>3. PICK k : k = log'
      OBVIOUS
    <2>4. LogOK(k) /\ Past(log, k, n) /\ Len(k) = n + 1
      BY <2>1, <2>2, <2>3, LogCut
    <2>5. k[n + 1] = [op |-> "empty"]
      BY <2>1, <2>2, <2>3 DEF LogOK, Grouped
    <2>6. ~IsMsg(k[n + 1])
      BY <2>5 DEF IsMsg
    <2>7. ASSUME cfg.removals = {} PROVE \E su : Whole(k, su) /\ SubjectsOK(su)
      <3>1. PICK st : Whole(log, st) /\ SubjectsOK(st)
        BY <2>7 DEF SubjectInv
      <3>2. PICK su : /\ Whole(k, su) /\ Len(su) \in Nat /\ Len(su) <= Len(st)
                      /\ \A i \in 1 .. Len(su) : su[i] = st[i]
        BY <2>1, <2>2, <2>4, <2>6, <3>1, WholeCut
      <3>3. Len(st) \in Nat
        BY <3>1 DEF Whole, StoreOK
      <3>4. SubjectsOK(su)
        BY <3>1, <3>2, <3>3, SubjectsBegin
      <3>5. QED
        BY <3>2, <3>4
    <2>8. QED
      BY <2>1, <2>3, <2>7 DEF SubjectInv
  <1>3. QED
    BY <1>1, <1>2

\* The configuration stays.
LEMMA SameConfig ==
    ASSUME [Next]_vars
    PROVE  cfg' = cfg
  <1>1. CASE UNCHANGED vars
    BY <1>1 DEF vars
  <1>2. CASE Commit
    BY <1>2 DEF Commit
  <1>3. ASSUME NEW r \in Replica, NEW p \in cfg.pubs, Publish(r, p) \/ PublishRefused(r, p)
        PROVE  cfg' = cfg
    BY <1>3 DEF Publish, PublishRefused
  <1>4. ASSUME NEW r \in Replica, NEW b \in cfg.batches, PublishBatch(r, b) PROVE cfg' = cfg
    BY <1>4 DEF PublishBatch
  <1>5. ASSUME NEW r \in Replica, NEW q \in cfg.removals,
               MsgDeleteRequest(r, q) \/ StreamPurgeRequest(r, q)
        PROVE  cfg' = cfg
    BY <1>5 DEF MsgDeleteRequest, StreamPurgeRequest
  <1>6. ASSUME NEW r \in Replica,
               \/ ApplyEmpty(r) \/ ApplyMsg(r) \/ AfterMsg(r) \/ ApplyBatchMsg(r)
               \/ ApplyBatch(r) \/ ApplyRemoval(r)
        PROVE  cfg' = cfg
    BY <1>6 DEF ApplyEmpty, ApplyMsg, AfterMsg, ApplyBatchMsg, ApplyBatch, ApplyRemoval
  <1>7. ASSUME NEW r \in Replica, ProcessLeaderChange(r) \/ Snapshot(r) \/ Catchup(r)
        PROVE  cfg' = cfg
    BY <1>7 DEF ProcessLeaderChange, Snapshot, Catchup
  <1>8. ASSUME NEW r \in Replica, NEW k, LeaderChange(r, k) PROVE cfg' = cfg
    BY <1>8 DEF LeaderChange
  <1>9. ASSUME NEW r \in Replica, NEW kept, NEW gone, Restart(r, kept, gone) PROVE cfg' = cfg
    BY <1>9 DEF Restart
  <1>10. QED
    BY <1>1, <1>2, <1>3, <1>4, <1>5, <1>6, <1>7, <1>8, <1>9, Zenon DEF Next

\* Every step keeps what messages expect of their subjects.
LEMMA SubjectNext ==
    ASSUME SubjectInv, [Next]_vars
    PROVE  SubjectInv'
  <1>1. TrackInv' /\ ShapeInv'
    BY TrackNext, ShapeNext DEF SubjectInv
  <1>2. ASSUME NEW r \in Replica, NEW p \in cfg.pubs, Publish(r, p) PROVE SubjectInv'
    BY <1>1, <1>2, SubjectPublish
  <1>3. ASSUME NEW r \in Replica, NEW b \in cfg.batches, PublishBatch(r, b) PROVE SubjectInv'
    BY <1>1, <1>3, SubjectPublishBatch
  <1>4. ASSUME NEW r \in Replica, NEW q \in cfg.removals,
               MsgDeleteRequest(r, q) \/ StreamPurgeRequest(r, q)
        PROVE  SubjectInv'
    BY <1>1, <1>4, SubjectLog
  <1>5. ASSUME NEW r \in Replica, NEW k \in 0 .. cfg.len, LeaderChange(r, k) PROVE SubjectInv'
    BY <1>1, <1>5, SubjectLog
  <1>6. ASSUME log' = log PROVE SubjectInv'
    BY <1>1, <1>6, SameConfig DEF SubjectInv
  <1>7. QED
    BY <1>2, <1>3, <1>4, <1>5, <1>6, OtherSteps

\* At first nothing is stored.
LEMMA SubjectInit ==
    ASSUME Init
    PROVE  SubjectInv
  <1>1. TrackInv /\ ShapeInv
    BY TrackInit, ShapeInit
  <1>2. log = <<[op |-> "empty"]>> /\ LogOK(log)
    BY <1>1 DEF Init, TrackInv, GroupInv
  <1>3. Len(log) = 1 /\ log[1].op = "empty" /\ log \in Seq(Entry) /\ 1 \in 1 .. Len(log) /\ 1 - 1 = 0
    BY <1>2 DEF LogOK, Grouped
  <1>4. Width(log[1]) = 0
    BY <1>3 DEF Width
  <1>5. Size(log, 1) = Size(log, 1 - 1) + Width(log[1])
    BY <1>3, SizeNext
  <1>6. Size(log, 1) = 0
    BY <1>3, <1>4, <1>5, SizeNone
  <1>7. PICK st : st = <<>>
    OBVIOUS
  <1>8. st \in Seq(Item) /\ Len(st) = 0
    BY <1>7
  <1>9. StoreOK(log, Len(log), st)
    <2>1. \A i \in 1 .. Len(log) : i = 1
      BY <1>3
    <2>2. ASSUME NEW i \in 1 .. Len(log), NEW j \in 1 .. Width(log[i]) PROVE FALSE
      BY <1>4, <2>1
    <2>3. QED
      BY <1>3, <1>6, <1>8, <2>2 DEF StoreOK
  <1>10. SubjectsOK(st)
    BY <1>8 DEF SubjectsOK
  <1>11. Whole(log, st)
    BY <1>3, <1>6, <1>8, <1>9 DEF Whole
  <1>12. QED
    BY <1>1, <1>10, <1>11 DEF SubjectInv

\* A replica has the beginning of what the log stores.
LEMMA SubjectsKept ==
    ASSUME SubjectInv
    PROVE  ExpectedSubjectKept
  <1>1. SUFFICES ASSUME cfg.removals = {}, NEW r \in Replica, NEW i \in DOMAIN m[r].store,
                        m[r].store[i].m.elss # -1
                 PROVE  LastSeqOf([m[r] EXCEPT !.store = SubSeq(@, 1, i - 1)], m[r].store[i].m.es)
                          = m[r].store[i].m.elss
    BY DEF ExpectedSubjectKept
  <1>2. PICK x, su, l, s : x = m[r] /\ su = x.store /\ l = log /\ s = su[i].m.es
    OBVIOUS
  <1>3. PICK st : Whole(l, st) /\ SubjectsOK(st)
    BY <1>1, <1>2 DEF SubjectInv
  <1>4. /\ Grouped(l) /\ l \in Seq(Entry) /\ commit \in 0 .. Len(l) /\ StoreOK(l, commit, su)
        /\ DOMAIN x = Fields /\ su \in Seq(Item) /\ Len(su) \in Nat /\ Len(l) \in Nat
    BY <1>2, OfReplica DEF SubjectInv, TrackInv
  <1>5. x.gone = {}
    BY <1>1, <1>2, OfShape DEF SubjectInv, Shape
  <1>6. Len(l) \in commit .. Len(l) /\ Len(l) \in 0 .. Len(l)
    BY <1>4
  <1>7. StoreOK(l, Len(l), su) /\ StoreOK(l, Len(l), st) /\ Len(st) \in Nat /\ Len(su) <= Len(st)
    <2>1. StoreOK(l, Len(l), su)
      BY <1>4, <1>6, StoreMore
    <2>2. QED
      BY <1>3, <2>1 DEF Whole, StoreOK
  <1>8. ASSUME NEW q \in 1 .. Len(su) PROVE su[q] = st[q]
    <2>1. q <= Len(st)
      BY <1>4, <1>7
    <2>2. QED
      BY <1>4, <1>6, <1>7, <2>1, StoresEqual
  <1>9. SubjectsOK(su)
    BY <1>3, <1>4, <1>7, <1>8, SubjectsBegin
  <1>10. i \in 1 .. Len(su) /\ i - 1 \in Nat /\ i - 1 <= Len(su)
    BY <1>1, <1>2, <1>4
  <1>11. LastOf(su, i - 1, s) = su[i].m.elss
    BY <1>1, <1>2, <1>9, <1>10 DEF SubjectsOK, Follows
  <1>12. PICK sv, y : sv = SubSeq(su, 1, i - 1) /\ y = [x EXCEPT !.store = sv]
    OBVIOUS
  <1>13. sv \in Seq(Item) /\ Len(sv) = i - 1 /\ \A q \in 1 .. i - 1 : sv[q] = su[q]
    BY <1>4, <1>10, <1>12
  <1>14. y.store = sv /\ y.gone = {}
    BY <1>4, <1>5, <1>12 DEF Fields
  <1>15. LastSeqOf(y, s) = LastOf(y.store, Len(y.store), s)
    BY <1>13, <1>14, LastFound
  <1>16. LastOf(sv, i - 1, s) = LastOf(su, i - 1, s)
    BY <1>13, LastSame
  <1>17. LastSeqOf(y, s) = su[i].m.elss
    BY <1>11, <1>13, <1>14, <1>15, <1>16
  <1>18. y = [m[r] EXCEPT !.store = SubSeq(@, 1, i - 1)]
    BY <1>2, <1>12
  <1>19. QED
    BY <1>2, <1>17, <1>18

\* What a leader found when it compared a message with what it had stored and
\* proposed is true when the message is stored, at every replica: one that expects
\* the last sequence of the stream directly follows it
\* (checkMsgHeadersPreClusteredProposal), and, in a stream of which nothing is removed,
\* one that expects the last sequence of a subject follows that message with nothing
\* of the subject between, whatever was in flight, staged earlier in the same batch,
\* cut short by a new leader or applied again after a restart.
THEOREM ChecksHold == Spec => []ChecksStillHold
  <1>1. Init => SubjectInv
    BY SubjectInit
  <1>2. SubjectInv /\ [Next]_vars => SubjectInv'
    BY SubjectNext
  <1>3. SubjectInv => ExpectedSubjectKept
    BY SubjectsKept
  <1>4. Spec => []ExpectedSubjectKept
    BY <1>1, <1>2, <1>3, PTL DEF Spec
  <1>5. ExpectedSeqKept /\ ExpectedSubjectKept => ChecksStillHold
    BY DEF ChecksStillHold
  <1>6. QED
    BY <1>4, <1>5, ExpectedSequences, PTL
=============================================================================
