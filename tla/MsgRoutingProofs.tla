--------------------------- MODULE MsgRoutingProofs ---------------------------
(***************************************************************************)
(* Proofs about MsgRouting, for every cluster and every placement of its   *)
(* subscribers: nobody gets a message twice and nobody who stayed is       *)
(* forgotten, a linear event taken by a local subscriber stays there, and  *)
(* "no responders" is the truth.                                           *)
(*                                                                         *)
(* The argument follows what is left of a message for one queue group: it  *)
(* is in one copy on one route or with one member, whatever the servers    *)
(* believe of each other.                                                  *)
(***************************************************************************)
EXTENDS MsgRouting, SequenceTheorems, FiniteSetTheorems, TLAPS

-----------------------------------------------------------------------------
(* The inductive invariant.  W and G stand for wire and got, before or     *)
(* after a step.                                                           *)

\* The message at place i of route r is a copy of m; and it names the group g.
At(W, m, r, i) == W[r][i].op = "RMSG" /\ W[r][i].msg = m
Names(W, m, g, r, i) == At(W, m, r, i) /\ g \in W[r][i].queues

\* m is on no route.
NoCopy(W, m) == \A r \in Routes : \A i \in DOMAIN W[r] : ~At(W, m, r, i)

\* Nobody got m.
Nobody(G, m) == \A x \in Subs : G[m][x] = 0

\* What is left of m for group g is in one place: in one copy on one route, or
\* with one member that got it once.
OneToken(W, G, m, g) ==
    /\ \A q, r \in Routes : \A i \in DOMAIN W[q], j \in DOMAIN W[r] :
          Names(W, m, g, q, i) /\ Names(W, m, g, r, j) => q = r /\ i = j
    /\ \A r \in Routes : \A i \in DOMAIN W[r] :
          Names(W, m, g, r, i) => \A x \in MembersOf(g) : G[m][x] = 0
    /\ \A x, y \in MembersOf(g) : G[m][x] > 0 /\ G[m][y] > 0 => x = y
    /\ \A x \in MembersOf(g) : G[m][x] <= 1

\* A server has one copy of m coming, and its plain subscribers do not have m yet.
OneCopy(W, G, m) ==
    /\ \A q, r \in Routes : \A i \in DOMAIN W[q], j \in DOMAIN W[r] :
          At(W, m, q, i) /\ At(W, m, r, j) /\ q[2] = r[2] => q = r /\ i = j
    /\ \A r \in Routes : \A i \in DOMAIN W[r] : At(W, m, r, i) =>
          \A x \in MembersOf(Plain) : home[x] = r[2] => G[m][x] = 0
    /\ \A x \in MembersOf(Plain) : G[m][x] <= 1

Tokens == \A m \in Msgs, g \in Groups : OneToken(wire, got, m, g)
PlainCopies == \A m \in Msgs \ forwarded : OneCopy(wire, got, m)

\* A message that was not published is nowhere.
Unpublished ==
    \A m \in Msgs : sent[m] = "no" => NoCopy(wire, m) /\ Nobody(got, m) /\ m \notin told

Untold == \A m \in told : NoCopy(wire, m) /\ Nobody(got, m)

Local ==
    \A m \in Msgs : sent[m] = "linear" /\ firsts[m] # {} =>
        /\ NoCopy(wire, m)
        /\ \A x \in Subs : got[m][x] = IF x \in firsts[m] THEN 1 ELSE 0
        /\ \A x, y \in firsts[m] : Group[x] = Plain => x = y

\* A copy of m is on its way to x, or to its group.
OnTheWay(W, m, x) ==
    \E r \in Routes : \E i \in DOMAIN W[r] :
        IF Group[x] = Plain THEN At(W, m, r, i) /\ r[2] = home[x]
                            ELSE Names(W, m, Group[x], r, i)

\* Whoever of them is enough: someone got it.
Reached(G, m, x) ==
    \E y \in Subs : /\ G[m][y] > 0
                    /\ sent[m] = "event" => IF Group[x] = Plain THEN y = x
                                                                ELSE Group[y] = Group[x]

Stays ==
    \A m \in Msgs : \A x \in stable[m] :
        /\ sent[m] # "no" /\ state[x] = "in" /\ Settled(x)
        /\ OnTheWay(wire, m, x) \/ Reached(got, m, x)

RoutingInv ==
    TypeOK /\ Tokens /\ PlainCopies /\ Unpublished /\ Untold /\ Local /\ Stays

-----------------------------------------------------------------------------
(* Messages on routes *)

\* A protocol message is an interest change or a message.
LEMMA ProtoCases ==
    ASSUME NEW p \in Protos
    PROVE  \/ p.op \in {"RS+", "RS-"} /\ p.key \in Keys
           \/ p.op = "RMSG" /\ p.msg \in Msgs /\ p.queues \subseteq Groups
  BY DEF Protos

\* What servers send are protocol messages.
LEMMA ProtosMade ==
    /\ \A k \in Keys : RS("RS+", k) \in Protos /\ RS("RS-", k) \in Protos
    /\ \A m \in Msgs, qs \in SUBSET Groups : RMSG(m, qs) \in Protos
  BY DEF RS, RMSG, Protos

\* W is a state of the routes.
Wire(W) == DOMAIN W = Routes /\ \A r \in Routes : W[r] \in Seq(Protos)

\* A route is a pair of two servers.
LEMMA RoutePair ==
    /\ \A r \in Routes : r[1] \in Srv /\ r[2] \in Srv /\ r[1] # r[2] /\ r = <<r[1], r[2]>>
    /\ \A s, t \in Srv : s # t => <<s, t>> \in Routes
  BY DEF Routes

\* The groups that are to be served by server t.
ChosenFor(choice, t) == {g \in DOMAIN choice : choice[g] = t}

\* Sending appends one message to each of the targets' routes.
LEMMA SendShape ==
    ASSUME NEW b, Wire(b), NEW s \in Srv, NEW m \in Msgs, NEW T, NEW choice,
           DOMAIN choice \subseteq Groups, NEW r \in Routes,
           NEW W, W = Send(b, s, m, T, choice)
    PROVE  /\ b[r] \in Seq(Protos) /\ Len(b[r]) \in Nat
           /\ DOMAIN W = Routes /\ W[r] \in Seq(Protos)
           /\ DOMAIN b[r] = 1 .. Len(b[r])
           /\ \A i \in DOMAIN b[r] : i \in DOMAIN W[r] /\ W[r][i] = b[r][i]
           /\ r[1] = s /\ r[2] \in T =>
                 /\ DOMAIN W[r] = 1 .. Len(b[r]) + 1
                 /\ W[r][Len(b[r]) + 1] = RMSG(m, ChosenFor(choice, r[2]))
           /\ ~(r[1] = s /\ r[2] \in T) => W[r] = b[r]
  <1> DEFINE q == RMSG(m, ChosenFor(choice, r[2]))
  <1>1. q \in Protos
    BY ProtosMade DEF ChosenFor
  <1>2. b[r] \in Seq(Protos) /\ Len(b[r]) \in Nat /\ DOMAIN b[r] = 1 .. Len(b[r])
    BY DEF Wire
  <1>3. /\ DOMAIN W = Routes
        /\ W[r] = IF r[1] = s /\ r[2] \in T THEN Append(b[r], q) ELSE b[r]
    BY DEF Send, ChosenFor
  <1> HIDE DEF q
  <1>4. CASE r[1] = s /\ r[2] \in T
    <2>1. W[r] = Append(b[r], q)
      BY <1>3, <1>4
    <2>2. /\ W[r] \in Seq(Protos) /\ DOMAIN W[r] = 1 .. Len(b[r]) + 1
          /\ W[r][Len(b[r]) + 1] = q /\ \A i \in 1 .. Len(b[r]) : W[r][i] = b[r][i]
      BY <1>1, <1>2, <2>1
    <2>3. 1 .. Len(b[r]) \subseteq 1 .. Len(b[r]) + 1
      BY <1>2
    <2>4. QED
      BY <1>1, <1>2, <1>3, <1>4, <2>2, <2>3 DEF q
  <1>5. CASE ~(r[1] = s /\ r[2] \in T)
    BY <1>1, <1>2, <1>3, <1>5 DEF q
  <1>6. QED
    BY <1>4, <1>5

\* r is a route from s to one of T, where the copy of m goes to place i.
NewCopy(b, s, T, r, i) == r[1] = s /\ r[2] \in T /\ i = Len(b[r]) + 1

\* The copies on the routes after sending.
LEMMA SendCopies ==
    ASSUME NEW b, Wire(b), NEW s \in Srv, NEW m \in Msgs, NEW T, NEW choice,
           DOMAIN choice \subseteq Groups, NEW W, W = Send(b, s, m, T, choice)
    PROVE  /\ Wire(W)
           /\ \A r \in Routes : \A i \in DOMAIN W[r] :
                 \/ i \in DOMAIN b[r] /\ W[r][i] = b[r][i]
                 \/ /\ NewCopy(b, s, T, r, i) /\ At(W, m, r, i)
                    /\ W[r][i].queues = ChosenFor(choice, r[2])
           /\ \A r \in Routes : \A i \in DOMAIN b[r] : i \in DOMAIN W[r] /\ W[r][i] = b[r][i]
           /\ \A r \in Routes : r[1] = s /\ r[2] \in T =>
                 \E i \in DOMAIN W[r] :
                     /\ At(W, m, r, i)
                     /\ W[r][i].queues = ChosenFor(choice, r[2])
  <1>1. ASSUME NEW r \in Routes, NEW qs \in SUBSET Groups, NEW i, W[r][i] = RMSG(m, qs)
        PROVE  At(W, m, r, i) /\ W[r][i].queues = qs
    BY <1>1 DEF At, RMSG
  <1>2. \A r \in Routes : ChosenFor(choice, r[2]) \in SUBSET Groups
    BY DEF ChosenFor
  <1>3. ASSUME NEW r \in Routes
        PROVE  /\ b[r] \in Seq(Protos) /\ Len(b[r]) \in Nat /\ DOMAIN b[r] = 1 .. Len(b[r])
               /\ DOMAIN W = Routes /\ W[r] \in Seq(Protos)
               /\ \A i \in DOMAIN b[r] : i \in DOMAIN W[r] /\ W[r][i] = b[r][i]
               /\ r[1] = s /\ r[2] \in T =>
                     /\ DOMAIN W[r] = 1 .. Len(b[r]) + 1
                     /\ W[r][Len(b[r]) + 1] = RMSG(m, ChosenFor(choice, r[2]))
               /\ ~(r[1] = s /\ r[2] \in T) => W[r] = b[r]
    BY SendShape
  <1>4. Wire(W)
    <2>1. DOMAIN W = Routes
      BY DEF Send
    <2>2. QED
      BY <1>3, <2>1 DEF Wire
  <1>5. ASSUME NEW r \in Routes, NEW i \in DOMAIN W[r]
        PROVE  \/ i \in DOMAIN b[r] /\ W[r][i] = b[r][i]
               \/ /\ NewCopy(b, s, T, r, i) /\ At(W, m, r, i)
                  /\ W[r][i].queues = ChosenFor(choice, r[2])
    <2>1. CASE r[1] = s /\ r[2] \in T
      <3>1. i \in 1 .. Len(b[r]) \/ i = Len(b[r]) + 1
        <4>1. Len(b[r]) \in Nat /\ i \in 1 .. Len(b[r]) + 1
          BY <1>3, <1>5, <2>1
        <4>2. QED
          BY <4>1
      <3>2. CASE i \in 1 .. Len(b[r])
        BY <1>3, <3>2
      <3>3. CASE i = Len(b[r]) + 1
        <4>1. W[r][i] = RMSG(m, ChosenFor(choice, r[2]))
          BY <1>3, <2>1, <3>3
        <4>2. QED
          BY <1>1, <1>2, <2>1, <3>3, <4>1 DEF NewCopy
      <3>4. QED
        BY <3>1, <3>2, <3>3
    <2>2. CASE ~(r[1] = s /\ r[2] \in T)
      BY <1>3, <1>5, <2>2
    <2>3. QED
      BY <2>1, <2>2
  <1>6. ASSUME NEW r \in Routes, r[1] = s, r[2] \in T
        PROVE  \E i \in DOMAIN W[r] :
                   /\ At(W, m, r, i)
                   /\ W[r][i].queues = ChosenFor(choice, r[2])
    <2>1. Len(b[r]) + 1 \in DOMAIN W[r]
      <3>1. Len(b[r]) \in Nat /\ DOMAIN W[r] = 1 .. Len(b[r]) + 1
        BY <1>3, <1>6
      <3>2. QED
        BY <3>1
    <2>2. W[r][Len(b[r]) + 1] = RMSG(m, ChosenFor(choice, r[2]))
      BY <1>3, <1>6
    <2>3. QED
      BY <1>1, <1>2, <2>1, <2>2
  <1>7. QED
    BY <1>3, <1>4, <1>5, <1>6

\* The routes when the first message of c was read.
AfterRead(V, c) == [V EXCEPT ![c] = Tail(@)]

\* Reading a route takes its first message.
LEMMA ReadShape ==
    ASSUME NEW V, Wire(V), NEW c \in Routes, V[c] # <<>>,
           NEW b, b = AfterRead(V, c)
    PROVE  /\ Wire(b) /\ 1 \in DOMAIN V[c] /\ Head(V[c]) = V[c][1] /\ Head(V[c]) \in Protos
           /\ \A r \in Routes : r # c => b[r] = V[r]
           /\ \A i \in DOMAIN b[c] : i + 1 \in DOMAIN V[c] /\ b[c][i] = V[c][i + 1]
           /\ \A i \in DOMAIN V[c] : i # 1 => i - 1 \in DOMAIN b[c] /\ b[c][i - 1] = V[c][i]
           /\ \A i \in DOMAIN b[c] : i \in Nat \ {0}
  <1>1. V[c] \in Seq(Protos) /\ Len(V[c]) \in Nat /\ DOMAIN V[c] = 1 .. Len(V[c])
    BY DEF Wire
  <1>2. /\ DOMAIN b = Routes /\ b[c] = Tail(V[c])
        /\ \A r \in Routes : r # c => b[r] = V[r]
    BY DEF Wire, AfterRead
  <1>3. /\ Head(V[c]) \in Protos /\ Head(V[c]) = V[c][1] /\ Len(V[c]) >= 1
        /\ Tail(V[c]) \in Seq(Protos) /\ Len(Tail(V[c])) = Len(V[c]) - 1
        /\ \A i \in 1 .. Len(Tail(V[c])) : Tail(V[c])[i] = V[c][i + 1]
    BY <1>1, HeadTailProperties
  <1>4. Wire(b)
    BY <1>2, <1>3 DEF Wire
  <1>5. DOMAIN b[c] = 1 .. Len(V[c]) - 1
    BY <1>2, <1>3
  <1>6. \A i \in DOMAIN b[c] : i + 1 \in DOMAIN V[c] /\ b[c][i] = V[c][i + 1]
    BY <1>1, <1>2, <1>3, <1>5
  <1>7. ASSUME NEW i \in DOMAIN V[c], i # 1
        PROVE  i - 1 \in DOMAIN b[c] /\ b[c][i - 1] = V[c][i]
    <2>1. i - 1 \in DOMAIN b[c] /\ (i - 1) + 1 = i
      BY <1>1, <1>5, <1>7
    <2>2. QED
      BY <1>6, <2>1
  <1>8. QED
    BY <1>1, <1>2, <1>3, <1>4, <1>5, <1>6, <1>7

\* The copies that are left when the first message of a route was read.
LEMMA ReadCopies ==
    ASSUME NEW V, Wire(V), NEW c \in Routes, V[c] # <<>>,
           NEW b, b = AfterRead(V, c), NEW G, NEW m
    PROVE  /\ NoCopy(V, m) => NoCopy(b, m)
           /\ OneCopy(V, G, m) =>
                 /\ OneCopy(b, G, m)
                 /\ At(V, m, c, 1) =>
                       \A r \in Routes : \A i \in DOMAIN b[r] : At(b, m, r, i) => r[2] # c[2]
           /\ \A g : OneToken(V, G, m, g) =>
                 /\ OneToken(b, G, m, g)
                 /\ Names(V, m, g, c, 1) =>
                       \A r \in Routes : \A i \in DOMAIN b[r] : ~Names(b, m, g, r, i)
  <1> DEFINE p(r, i) == IF r = c THEN i + 1 ELSE i
  <1>1. 1 \in DOMAIN V[c] /\ \A i \in DOMAIN b[c] : i \in Nat \ {0}
    BY ReadShape
  <1>2. ASSUME NEW r \in Routes, NEW i \in DOMAIN b[r]
        PROVE  p(r, i) \in DOMAIN V[r] /\ b[r][i] = V[r][p(r, i)] /\ (r = c => p(r, i) # 1)
    <2>1. CASE r = c
      <3>1. \A k \in DOMAIN b[c] : k + 1 \in DOMAIN V[c] /\ b[c][k] = V[c][k + 1]
        BY ReadShape
      <3>2. i + 1 # 1
        BY <1>1, <1>2, <2>1
      <3>3. QED
        BY <1>2, <2>1, <3>1, <3>2
    <2>2. CASE r # c
      <3>1. b[r] = V[r]
        BY <2>2, ReadShape
      <3>2. QED
        BY <1>2, <2>2, <3>1
    <2>3. QED
      BY <2>1, <2>2
  <1>3. ASSUME NEW r \in Routes, NEW i \in DOMAIN b[r], NEW j \in DOMAIN b[r], p(r, i) = p(r, j)
        PROVE  i = j
    <2>1. CASE r = c
      <3>1. i \in Nat /\ j \in Nat /\ i + 1 = j + 1
        BY <1>1, <1>3, <2>1
      <3>2. QED
        BY <3>1
    <2>2. QED
      BY <1>3, <2>1
  <1>4. \A r \in Routes : \A i \in DOMAIN b[r] : At(b, m, r, i) <=> At(V, m, r, p(r, i))
    BY <1>2 DEF At
  <1>5. \A g : \A r \in Routes : \A i \in DOMAIN b[r] :
            Names(b, m, g, r, i) <=> Names(V, m, g, r, p(r, i))
    BY <1>2 DEF Names, At
  <1> HIDE DEF p
  <1>6. ASSUME NoCopy(V, m) PROVE NoCopy(b, m)
    BY <1>2, <1>4, <1>6 DEF NoCopy
  <1>7. ASSUME OneCopy(V, G, m)
        PROVE  /\ OneCopy(b, G, m)
               /\ At(V, m, c, 1) =>
                     \A r \in Routes : \A i \in DOMAIN b[r] : At(b, m, r, i) => r[2] # c[2]
    <2>1. ASSUME NEW q \in Routes, NEW r \in Routes, NEW i \in DOMAIN b[q], NEW j \in DOMAIN b[r],
                 At(b, m, q, i), At(b, m, r, j), q[2] = r[2]
          PROVE  q = r /\ i = j
      <3>1. At(V, m, q, p(q, i)) /\ At(V, m, r, p(r, j))
        BY <1>4, <2>1
      <3>2. q = r /\ p(q, i) = p(r, j)
        BY <1>2, <1>7, <2>1, <3>1 DEF OneCopy
      <3>3. QED
        BY <1>3, <2>1, <3>2
    <2>2. ASSUME NEW r \in Routes, NEW i \in DOMAIN b[r], At(b, m, r, i),
                 NEW x \in MembersOf(Plain), home[x] = r[2]
          PROVE  G[m][x] = 0
      BY <1>2, <1>4, <1>7, <2>2 DEF OneCopy
    <2>3. ASSUME At(V, m, c, 1), NEW r \in Routes, NEW i \in DOMAIN b[r], At(b, m, r, i)
          PROVE  r[2] # c[2]
      BY <1>1, <1>2, <1>4, <1>7, <2>3 DEF OneCopy
    <2>4. OneCopy(b, G, m)
      BY <1>7, <2>1, <2>2 DEF OneCopy
    <2>5. QED
      BY <2>3, <2>4
  <1>8. ASSUME NEW g, OneToken(V, G, m, g)
        PROVE  /\ OneToken(b, G, m, g)
               /\ Names(V, m, g, c, 1) =>
                     \A r \in Routes : \A i \in DOMAIN b[r] : ~Names(b, m, g, r, i)
    <2>1. ASSUME NEW q \in Routes, NEW r \in Routes, NEW i \in DOMAIN b[q], NEW j \in DOMAIN b[r],
                 Names(b, m, g, q, i), Names(b, m, g, r, j)
          PROVE  q = r /\ i = j
      <3>1. Names(V, m, g, q, p(q, i)) /\ Names(V, m, g, r, p(r, j))
        BY <1>5, <2>1
      <3>2. q = r /\ p(q, i) = p(r, j)
        BY <1>2, <1>8, <3>1 DEF OneToken
      <3>3. QED
        BY <1>3, <3>2
    <2>2. ASSUME NEW r \in Routes, NEW i \in DOMAIN b[r], Names(b, m, g, r, i),
                 NEW x \in MembersOf(g)
          PROVE  G[m][x] = 0
      BY <1>2, <1>5, <1>8, <2>2 DEF OneToken
    <2>3. ASSUME Names(V, m, g, c, 1), NEW r \in Routes, NEW i \in DOMAIN b[r]
          PROVE  ~Names(b, m, g, r, i)
      <3>1. SUFFICES ASSUME Names(b, m, g, r, i) PROVE FALSE
        OBVIOUS
      <3>2. Names(V, m, g, r, p(r, i)) /\ p(r, i) \in DOMAIN V[r]
        BY <1>2, <1>5, <3>1
      <3>3. r = c /\ p(r, i) = 1
        BY <1>1, <1>8, <2>3, <3>2 DEF OneToken
      <3>4. QED
        BY <1>2, <3>3
    <2>4. QED
      BY <1>8, <2>1, <2>2, <2>3 DEF OneToken
  <1>9. QED
    BY <1>6, <1>7, <1>8

\* Nothing is known about a message but where its copies are.
LEMMA SameMeans ==
    ASSUME NEW V, NEW W,
           \A r \in Routes : \A i \in DOMAIN W[r] : W[r][i].op = "RMSG" =>
               i \in DOMAIN V[r] /\ W[r][i] = V[r][i],
           NEW G, NEW m
    PROVE  /\ NoCopy(V, m) => NoCopy(W, m)
           /\ OneCopy(V, G, m) => OneCopy(W, G, m)
           /\ \A g : OneToken(V, G, m, g) => OneToken(W, G, m, g)
  <1>1. \A r \in Routes : \A i \in DOMAIN W[r] :
            At(W, m, r, i) => i \in DOMAIN V[r] /\ At(V, m, r, i)
    BY DEF At
  <1>2. \A g : \A r \in Routes : \A i \in DOMAIN W[r] :
            Names(W, m, g, r, i) => i \in DOMAIN V[r] /\ Names(V, m, g, r, i)
    BY DEF Names, At
  <1>3. NoCopy(V, m) => NoCopy(W, m)
    BY <1>1 DEF NoCopy
  <1>4. OneCopy(V, G, m) => OneCopy(W, G, m)
    BY <1>1 DEF OneCopy
  <1>5. \A g : OneToken(V, G, m, g) => OneToken(W, G, m, g)
    BY <1>2 DEF OneToken
  <1>6. QED
    BY <1>3, <1>4, <1>5

\* Announcing interest appends no message.
LEMMA AnnounceShape ==
    ASSUME NEW s, NEW k \in Keys, NEW op \in {"RS+", "RS-"}, Wire(wire), Announce(s, k, op)
    PROVE  /\ Wire(wire')
           /\ \A r \in Routes : \A i \in DOMAIN wire[r] :
                 i \in DOMAIN wire'[r] /\ wire'[r][i] = wire[r][i]
           /\ \A r \in Routes : \A i \in DOMAIN wire'[r] :
                 \/ i \in DOMAIN wire[r] /\ wire'[r][i] = wire[r][i]
                 \/ r[1] = s /\ wire'[r][i].op = op /\ wire'[r][i].key = k
  <1>1. RS(op, k) \in Protos
    BY ProtosMade
  <1>2. ASSUME NEW r \in Routes
        PROVE  /\ wire'[r] \in Seq(Protos)
               /\ \A i \in DOMAIN wire[r] : i \in DOMAIN wire'[r] /\ wire'[r][i] = wire[r][i]
               /\ \A i \in DOMAIN wire'[r] :
                     \/ i \in DOMAIN wire[r] /\ wire'[r][i] = wire[r][i]
                     \/ r[1] = s /\ wire'[r][i] = RS(op, k)
    <2>1. wire[r] \in Seq(Protos)
      BY DEF Wire
    <2>2. wire'[r] = IF r[1] = s THEN Append(wire[r], RS(op, k)) ELSE wire[r]
      BY DEF Announce
    <2>3. CASE r[1] = s
      <3> DEFINE q == RS(op, k)
      <3>1. q \in Protos /\ wire'[r] = Append(wire[r], q)
        BY <1>1, <2>2, <2>3
      <3> HIDE DEF q
      <3>2. /\ wire'[r] \in Seq(Protos) /\ DOMAIN wire'[r] = 1 .. Len(wire[r]) + 1
            /\ DOMAIN wire[r] = 1 .. Len(wire[r]) /\ Len(wire[r]) \in Nat
            /\ wire'[r][Len(wire[r]) + 1] = q /\ \A i \in 1 .. Len(wire[r]) : wire'[r][i] = wire[r][i]
        BY <2>1, <3>1
      <3>3. \A i \in 1 .. Len(wire[r]) + 1 : i \in 1 .. Len(wire[r]) \/ i = Len(wire[r]) + 1
        BY <3>2
      <3>4. 1 .. Len(wire[r]) \subseteq 1 .. Len(wire[r]) + 1
        BY <3>2
      <3>5. QED
        BY <2>3, <3>2, <3>3, <3>4 DEF q
    <2>4. CASE r[1] # s
      BY <2>1, <2>2, <2>4
    <2>5. QED
      BY <2>3, <2>4
  <1>3. DOMAIN wire' = Routes
    BY DEF Announce
  <1>4. RS(op, k).op = op /\ RS(op, k).key = k
    BY DEF RS
  <1>5. QED
    BY <1>2, <1>3, <1>4 DEF Wire

-----------------------------------------------------------------------------
(* Choices and deliveries *)

\* Who can take a message here.
LEMMA DeliverableShape ==
    ASSUME NEW s, NEW k, NEW me, NEW x \in Deliverable(s, k, me)
    PROVE  x \in Subs /\ home[x] = s /\ Group[x] = k /\ state[x] = "in" /\ x # me
  BY DEF Deliverable, Members

\* A choice is of one member or one server for each of its groups.
LEMMA ChoiceShape ==
    ASSUME NEW s, NEW from, NEW qf \in SUBSET Groups, NEW me,
           NEW choice \in QueueChoices(s, from, qf, me)
    PROVE  /\ DOMAIN choice \subseteq SelectedGroups(from, qf) /\ DOMAIN choice \subseteq Groups
           /\ \A g \in SelectedGroups(from, qf) :
                 QueueCandidates(s, g, from, me) # {} => g \in DOMAIN choice
           /\ \A g \in DOMAIN choice : choice[g] \in Deliverable(s, g, me) \cup Peers(s, g)
           /\ \A x \in Range(choice) \cap Subs :
                 /\ Group[x] \in DOMAIN choice /\ choice[Group[x]] = x
                 /\ x \in Deliverable(s, Group[x], me)
  <1>1. /\ DOMAIN choice = {g \in SelectedGroups(from, qf) : QueueCandidates(s, g, from, me) # {}}
        /\ \A g \in DOMAIN choice : choice[g] \in QueueCandidates(s, g, from, me)
    BY DEF QueueChoices
  <1>2. SelectedGroups(from, qf) \subseteq Groups
    BY DEF SelectedGroups
  <1>3. \A g \in DOMAIN choice : choice[g] \in Deliverable(s, g, me) \cup Peers(s, g)
    BY <1>1 DEF QueueCandidates
  <1>4. ASSUME NEW x \in Range(choice) \cap Subs
        PROVE  /\ Group[x] \in DOMAIN choice /\ choice[Group[x]] = x
               /\ x \in Deliverable(s, Group[x], me)
    <2>1. PICK g \in DOMAIN choice : choice[g] = x
      BY <1>4 DEF Range
    <2>2. x \in Deliverable(s, g, me) \/ x \in Srv
      BY <1>3, <2>1 DEF Peers
    <2>3. x \in Deliverable(s, g, me)
      BY <1>4, <2>2, ServersAreNotSubscriptions
    <2>4. Group[x] = g
      BY <2>3, DeliverableShape
    <2>5. QED
      BY <2>1, <2>3, <2>4
  <1>5. QED
    BY <1>1, <1>2, <1>3, <1>4

\* H is G after the subscribers of X got m.
Given(G, H, m, X) ==
    /\ H \in [Msgs -> [Subs -> 0 .. Many]]
    /\ \A n \in Msgs : n # m => H[n] = G[n]
    /\ \A x \in Subs : H[m][x] = IF x \in X /\ G[m][x] < Many THEN G[m][x] + 1 ELSE G[m][x]

\* That is what a delivery does.
LEMMA GotShape ==
    ASSUME got \in [Msgs -> [Subs -> 0 .. Many]], NEW m \in Msgs, NEW X, GotBy(m, X)
    PROVE  Given(got, got', m, X)
  <1> DEFINE new == [x \in Subs |-> IF x \in X /\ got[m][x] < Many THEN got[m][x] + 1 ELSE got[m][x]]
  <1>1. got' = [got EXCEPT ![m] = new]
    BY DEF GotBy
  <1>2. \A x \in Subs : got[m][x] \in 0 .. Many
    OBVIOUS
  <1>3. new \in [Subs -> 0 .. Many]
    BY <1>2 DEF Many
  <1>4. \A x \in Subs : new[x] = IF x \in X /\ got[m][x] < Many THEN got[m][x] + 1 ELSE got[m][x]
    OBVIOUS
  <1> HIDE DEF new
  <1>5. got' \in [Msgs -> [Subs -> 0 .. Many]] /\ got'[m] = new
    BY <1>1, <1>3
  <1>6. \A n \in Msgs : n # m => got'[n] = got[n]
    BY <1>1
  <1>7. QED
    BY <1>4, <1>5, <1>6 DEF Given

\* A message is given and sent on: the other messages are not touched.
LEMMA OthersKept ==
    ASSUME NEW b, Wire(b), NEW s \in Srv, NEW m \in Msgs, NEW T, NEW choice,
           DOMAIN choice \subseteq Groups, NEW W, W = Send(b, s, m, T, choice),
           NEW G, NEW H, NEW X, Given(G, H, m, X), NEW n \in Msgs, n # m
    PROVE  /\ NoCopy(b, n) => NoCopy(W, n)
           /\ OneCopy(b, G, n) => OneCopy(W, H, n)
           /\ \A g : OneToken(b, G, n, g) => OneToken(W, H, n, g)
           /\ H[n] = G[n]
  <1>1. H[n] = G[n]
    BY DEF Given
  <1>2. ASSUME NEW r \in Routes, NEW i \in DOMAIN W[r], At(W, n, r, i)
        PROVE  i \in DOMAIN b[r] /\ W[r][i] = b[r][i]
    <2>1. ~At(W, m, r, i)
      BY <1>2 DEF At
    <2>2. QED
      BY <1>2, <2>1, SendCopies
  <1>3. \A r \in Routes : \A i \in DOMAIN W[r] :
            At(W, n, r, i) => i \in DOMAIN b[r] /\ At(b, n, r, i)
    BY <1>2 DEF At
  <1>4. \A g : \A r \in Routes : \A i \in DOMAIN W[r] :
            Names(W, n, g, r, i) => i \in DOMAIN b[r] /\ Names(b, n, g, r, i)
    BY <1>2 DEF Names, At
  <1>5. NoCopy(b, n) => NoCopy(W, n)
    BY <1>3 DEF NoCopy
  <1>6. OneCopy(b, G, n) => OneCopy(W, H, n)
    BY <1>1, <1>3 DEF OneCopy
  <1>7. \A g : OneToken(b, G, n, g) => OneToken(W, H, n, g)
    BY <1>1, <1>4 DEF OneToken
  <1>8. QED
    BY <1>1, <1>5, <1>6, <1>7

\* What is left of m for group g goes from one place to one place: to the member
\* chosen, or with the copy for the server chosen.
LEMMA TokenMoves ==
    ASSUME NEW b, Wire(b), NEW s \in Srv, NEW m \in Msgs, NEW T, NEW choice,
           DOMAIN choice \subseteq Groups, NEW W, W = Send(b, s, m, T, choice),
           NEW G \in [Msgs -> [Subs -> 0 .. Many]], NEW H, NEW X, Given(G, H, m, X),
           NEW g \in Groups, OneToken(b, G, m, g),
           \A x \in X : x \in Subs /\ (Group[x] = g => g \in DOMAIN choice /\ choice[g] = x),
           g \in DOMAIN choice =>
              /\ \A r \in Routes : \A i \in DOMAIN b[r] : ~Names(b, m, g, r, i)
              /\ \A x \in MembersOf(g) : G[m][x] = 0
    PROVE  OneToken(W, H, m, g)
  <1>1. MembersOf(g) \subseteq Subs /\ \A x \in MembersOf(g) : Group[x] = g
    BY DEF MembersOf
  <1>2. \A x \in Subs : G[m][x] \in 0 .. Many
    OBVIOUS
  <1>3. \A x \in Subs : H[m][x] = IF x \in X /\ G[m][x] < Many THEN G[m][x] + 1 ELSE G[m][x]
    BY DEF Given
  <1>4. ASSUME NEW r \in Routes, NEW i \in DOMAIN W[r], Names(W, m, g, r, i)
        PROVE  \/ i \in DOMAIN b[r] /\ Names(b, m, g, r, i)
               \/ NewCopy(b, s, T, r, i) /\ g \in DOMAIN choice /\ choice[g] = r[2]
    <2>1. CASE i \in DOMAIN b[r] /\ W[r][i] = b[r][i]
      BY <1>4, <2>1 DEF Names, At
    <2>2. CASE NewCopy(b, s, T, r, i) /\ W[r][i].queues = ChosenFor(choice, r[2])
      BY <1>4, <2>2 DEF Names, ChosenFor
    <2>3. QED
      BY <2>1, <2>2, SendCopies
  <1>5. CASE g \notin DOMAIN choice
    <2>1. \A r \in Routes : \A i \in DOMAIN W[r] :
              Names(W, m, g, r, i) => i \in DOMAIN b[r] /\ Names(b, m, g, r, i)
      BY <1>4, <1>5
    <2>2. \A x \in MembersOf(g) : H[m][x] = G[m][x]
      BY <1>1, <1>3, <1>5
    <2>3. QED
      BY <2>1, <2>2 DEF OneToken
  <1>6. CASE g \in DOMAIN choice
    <2>1. ASSUME NEW r \in Routes, NEW i \in DOMAIN W[r], Names(W, m, g, r, i)
          PROVE  r[1] = s /\ i = Len(b[r]) + 1 /\ choice[g] = r[2] /\ choice[g] \in Srv
      BY <1>4, <1>6, <2>1, RoutePair DEF NewCopy
    <2>2. ASSUME NEW q \in Routes, NEW r \in Routes, NEW i \in DOMAIN W[q], NEW j \in DOMAIN W[r],
                 Names(W, m, g, q, i), Names(W, m, g, r, j)
          PROVE  q = r /\ i = j
      <3>1. q[1] = r[1] /\ q[2] = r[2]
        BY <2>1, <2>2
      <3>2. q = r
        BY <3>1, RoutePair
      <3>3. i = Len(b[q]) + 1 /\ j = Len(b[r]) + 1
        BY <2>1, <2>2
      <3>4. QED
        BY <3>2, <3>3
    <2>3. ASSUME NEW x \in MembersOf(g)
          PROVE  H[m][x] = IF x \in X THEN 1 ELSE 0
      <3>1. G[m][x] = 0
        BY <1>6, <2>3
      <3>2. QED
        BY <1>1, <1>3, <2>3, <3>1 DEF Many
    <2>4. \A x \in MembersOf(g) : x \in X => choice[g] = x /\ choice[g] \notin Srv
      BY <1>1, ServersAreNotSubscriptions
    <2>5. QED
      <3>1. \A r \in Routes : \A i \in DOMAIN W[r] :
                Names(W, m, g, r, i) => \A x \in MembersOf(g) : H[m][x] = 0
        BY <2>1, <2>3, <2>4
      <3>2. \A x, y \in MembersOf(g) : H[m][x] > 0 /\ H[m][y] > 0 => x = y
        BY <2>3, <2>4
      <3>3. \A x \in MembersOf(g) : H[m][x] <= 1
        BY <2>3
      <3>4. QED
        BY <2>2, <3>1, <3>2, <3>3 DEF OneToken
  <1>7. QED
    BY <1>5, <1>6

\* A server that gives m to its plain subscribers has no other copy coming.
LEMMA CopyUsed ==
    ASSUME NEW b, Wire(b), NEW s \in Srv, NEW m \in Msgs, NEW T, NEW choice,
           DOMAIN choice \subseteq Groups, NEW W, W = Send(b, s, m, T, choice),
           NEW G \in [Msgs -> [Subs -> 0 .. Many]], NEW H, NEW X, Given(G, H, m, X),
           OneCopy(b, G, m),
           \A r \in Routes : \A i \in DOMAIN b[r] : At(b, m, r, i) => r[2] # s,
           \A x \in X : x \in MembersOf(Plain) => home[x] = s /\ G[m][x] = 0,
           T = {} \/ (NoCopy(b, m) /\ Nobody(G, m))
    PROVE  OneCopy(W, H, m)
  <1>1. MembersOf(Plain) \subseteq Subs
    BY DEF MembersOf
  <1>2. \A x \in MembersOf(Plain) : H[m][x] = IF x \in X THEN 1 ELSE G[m][x]
    <2>1. SUFFICES ASSUME NEW x \in MembersOf(Plain)
                   PROVE  H[m][x] = IF x \in X THEN 1 ELSE G[m][x]
      OBVIOUS
    <2>2. H[m][x] = IF x \in X /\ G[m][x] < Many THEN G[m][x] + 1 ELSE G[m][x]
      BY <1>1 DEF Given
    <2>3. x \in X => G[m][x] = 0
      OBVIOUS
    <2>4. QED
      BY <2>2, <2>3 DEF Many
  <1>3. ASSUME NEW r \in Routes, NEW i \in DOMAIN W[r], At(W, m, r, i)
        PROVE  \/ i \in DOMAIN b[r] /\ At(b, m, r, i)
               \/ NewCopy(b, s, T, r, i) /\ NoCopy(b, m) /\ Nobody(G, m)
    <2>1. CASE i \in DOMAIN b[r] /\ W[r][i] = b[r][i]
      BY <1>3, <2>1 DEF At
    <2>2. CASE NewCopy(b, s, T, r, i)
      BY <2>2 DEF NewCopy
    <2>3. QED
      BY <2>1, <2>2, SendCopies
  <1>4. \A r \in Routes : \A i \in DOMAIN W[r] : At(W, m, r, i) => r[2] # s
    <2>1. \A r \in Routes : \A i : NewCopy(b, s, T, r, i) => r[2] # s
      BY RoutePair DEF NewCopy
    <2>2. QED
      BY <1>3, <2>1
  <1>5. ASSUME NEW q \in Routes, NEW r \in Routes, NEW i \in DOMAIN W[q], NEW j \in DOMAIN W[r],
               At(W, m, q, i), At(W, m, r, j), q[2] = r[2]
        PROVE  q = r /\ i = j
    <2>1. CASE NoCopy(b, m)
      <3>1. NewCopy(b, s, T, q, i) /\ NewCopy(b, s, T, r, j)
        BY <1>3, <1>5, <2>1 DEF NoCopy
      <3>2. q = r
        <4>1. q[1] = r[1] /\ q[2] = r[2]
          BY <1>5, <3>1 DEF NewCopy
        <4>2. QED
          BY <4>1, RoutePair
      <3>3. QED
        BY <3>1, <3>2 DEF NewCopy
    <2>2. CASE ~NoCopy(b, m)
      <3>1. i \in DOMAIN b[q] /\ At(b, m, q, i) /\ j \in DOMAIN b[r] /\ At(b, m, r, j)
        BY <1>3, <1>5, <2>2
      <3>2. QED
        BY <1>5, <3>1 DEF OneCopy
    <2>3. QED
      BY <2>1, <2>2
  <1>6. ASSUME NEW r \in Routes, NEW i \in DOMAIN W[r], At(W, m, r, i),
               NEW x \in MembersOf(Plain), home[x] = r[2]
        PROVE  H[m][x] = 0
    <2>1. x \notin X
      BY <1>4, <1>6
    <2>2. H[m][x] = G[m][x]
      BY <1>2, <2>1
    <2>3. G[m][x] = 0
      BY <1>1, <1>3, <1>6 DEF OneCopy, Nobody
    <2>4. QED
      BY <2>2, <2>3
  <1>7. \A x \in MembersOf(Plain) : H[m][x] <= 1
    BY <1>2 DEF OneCopy
  <1>8. QED
    BY <1>5, <1>6, <1>7 DEF OneCopy

\* A message that is sent to nobody stays off the routes.
LEMMA NothingSent ==
    ASSUME NEW b, Wire(b), NEW s \in Srv, NEW m \in Msgs, NEW choice, NEW W,
           DOMAIN choice \subseteq Groups, W = Send(b, s, m, {}, choice)
    PROVE  \A r \in Routes : W[r] = b[r]
  BY DEF Send

-----------------------------------------------------------------------------
(* Publishing *)

(***************************************************************************)
(* What the three ways to publish have in common: whom the publishing      *)
(* server gives the message to, which servers it sends it to, and that     *)
(* everyone known to it is served unless a linear event was taken here.    *)
(***************************************************************************)
Plan(s, me, kind, locals, targets, choice) ==
    /\ kind \in {"event", "linear"} /\ DOMAIN choice \subseteq Groups
    /\ locals \subseteq Subs /\ targets \subseteq Srv
    /\ \A x \in locals :
          /\ home[x] = s
          /\ Group[x] # Plain => Group[x] \in DOMAIN choice /\ choice[Group[x]] = x
    /\ kind = "linear" /\ locals # {} =>
          targets = {} /\ \A x, y \in locals : Group[x] = Plain => x = y
    /\ \A x \in Subs : state[x] = "in" /\ x # me /\ Settled(x) =>
          \/ kind = "linear" /\ locals # {}
          \/ Group[x] = Plain /\ IF home[x] = s THEN x \in locals ELSE home[x] \in targets
          \/ /\ Group[x] # Plain /\ Group[x] \in DOMAIN choice
             /\ LET c == choice[Group[x]] IN
                \/ c \in locals /\ Group[c] = Group[x]
                \/ c \in targets /\ c # s

\* A settled subscriber elsewhere is known here.
LEMMA SettledKnown ==
    ASSUME NEW s \in Srv, NEW x \in Subs, Settled(x), home[x] # s, home \in [Subs -> Srv]
    PROVE  home[x] \in Peers(s, Group[x])
  BY DEF Settled, Peers

\* No server is its own peer.
LEMMA PeersElsewhere ==
    ASSUME TypeOK, NEW s \in Srv, NEW k \in Keys
    PROVE  Peers(s, k) \subseteq Srv /\ s \notin Peers(s, k)
  BY DEF Peers, TypeOK

\* With a settled subscriber in a group there is a choice for the group.
LEMMA ChoiceMade ==
    ASSUME TypeOK, NEW s \in Srv, NEW from, NEW qf \in SUBSET Groups, NEW me,
           NEW choice \in QueueChoices(s, from, qf, me), NEW x \in Subs,
           state[x] = "in", x # me, Settled(x), Group[x] \in SelectedGroups(from, qf)
    PROVE  /\ Group[x] \in DOMAIN choice
           /\ \/ /\ choice[Group[x]] \in Range(choice) \cap Subs
                 /\ Group[choice[Group[x]]] = Group[x]
              \/ choice[Group[x]] \in Range(choice) \cap Srv /\ choice[Group[x]] # s
  <1> DEFINE g == Group[x]
  <1>1. home[x] \in Srv /\ g \in Keys
    BY GroupOfSubscription DEF TypeOK, Keys
  <1>2. x \in Deliverable(s, g, me) \/ home[x] \in Peers(s, g)
    <2>1. CASE home[x] = s
      BY <2>1 DEF Deliverable, Members
    <2>2. CASE home[x] # s
      BY <2>2, SettledKnown DEF TypeOK
    <2>3. QED
      BY <2>1, <2>2
  <1>3. QueueCandidates(s, g, from, me) # {}
    BY <1>2 DEF QueueCandidates
  <1>4. g \in DOMAIN choice /\ choice[g] \in Deliverable(s, g, me) \cup Peers(s, g)
    BY <1>3, ChoiceShape
  <1>5. choice[g] \in Range(choice)
    BY <1>4 DEF Range
  <1>6. CASE choice[g] \in Deliverable(s, g, me)
    BY <1>4, <1>5, <1>6, DeliverableShape
  <1>7. CASE choice[g] \in Peers(s, g)
    BY <1>1, <1>4, <1>5, <1>7, PeersElsewhere
  <1>8. QED
    BY <1>4, <1>6, <1>7

\* The servers a message is sent to.
LEMMA TargetsShape ==
    ASSUME NEW s, NEW from, NEW choice
    PROVE  /\ RouteTargets(s, from, choice) \subseteq Srv
           /\ \A t \in Srv : t \in Range(choice) => t \in RouteTargets(s, from, choice)
           /\ from = "CLIENT" => Peers(s, Plain) \subseteq RouteTargets(s, from, choice)
  BY DEF RouteTargets, PlainRoutes, Peers

\* An ordinary event goes to all plain subscribers and to one of each group.
LEMMA EventPlan ==
    ASSUME TypeOK, NEW s \in Srv, NEW me, NEW choice \in QueueChoices(s, "CLIENT", {}, me)
    PROVE  Plan(s, me, "event", Deliverable(s, Plain, me) \cup (Range(choice) \cap Subs),
                RouteTargets(s, "CLIENT", choice), choice)
  <1> DEFINE locals == Deliverable(s, Plain, me) \cup (Range(choice) \cap Subs)
             targets == RouteTargets(s, "CLIENT", choice)
  <1>1. DOMAIN choice \subseteq Groups /\ SelectedGroups("CLIENT", {}) = Groups
    BY ChoiceShape DEF SelectedGroups
  <1>2. locals \subseteq Subs /\ targets \subseteq Srv
    BY DeliverableShape, TargetsShape
  <1>3. ASSUME NEW x \in locals
        PROVE  /\ home[x] = s
               /\ Group[x] # Plain => Group[x] \in DOMAIN choice /\ choice[Group[x]] = x
    <2>1. CASE x \in Deliverable(s, Plain, me)
      BY <2>1, DeliverableShape
    <2>2. CASE x \in Range(choice) \cap Subs
      <3>1. /\ Group[x] \in DOMAIN choice /\ choice[Group[x]] = x
            /\ x \in Deliverable(s, Group[x], me)
        BY <2>2, ChoiceShape
      <3>2. QED
        BY <3>1, DeliverableShape
    <2>3. QED
      BY <1>3, <2>1, <2>2
  <1>4. ASSUME NEW x \in Subs, state[x] = "in", x # me, Settled(x)
        PROVE  \/ Group[x] = Plain /\ IF home[x] = s THEN x \in locals ELSE home[x] \in targets
               \/ /\ Group[x] # Plain /\ Group[x] \in DOMAIN choice
                  /\ LET c == choice[Group[x]] IN
                     \/ c \in locals /\ Group[c] = Group[x]
                     \/ c \in targets /\ c # s
    <2>1. CASE Group[x] = Plain
      <3>1. home[x] = s => x \in Deliverable(s, Plain, me)
        BY <1>4, <2>1 DEF Deliverable, Members
      <3>2. home[x] # s => home[x] \in Peers(s, Plain)
        BY <1>4, <2>1, SettledKnown DEF TypeOK
      <3>3. QED
        BY <2>1, <3>1, <3>2, TargetsShape
    <2>2. CASE Group[x] # Plain
      <3>1. Group[x] \in SelectedGroups("CLIENT", {})
        BY <1>1, <2>2, GroupOfSubscription
      <3>2. /\ Group[x] \in DOMAIN choice
            /\ \/ /\ choice[Group[x]] \in Range(choice) \cap Subs
                  /\ Group[choice[Group[x]]] = Group[x]
               \/ choice[Group[x]] \in Range(choice) \cap Srv /\ choice[Group[x]] # s
        BY <1>4, <3>1, ChoiceMade
      <3>3. QED
        BY <2>2, <3>2, TargetsShape
    <2>3. QED
      BY <2>1, <2>2
  <1> HIDE DEF locals, targets
  <1>5. Plan(s, me, "event", locals, targets, choice)
    BY <1>1, <1>2, <1>3, <1>4 DEF Plan
  <1>6. QED
    BY <1>5 DEF locals, targets

\* A linear event that a plain subscriber takes goes nowhere else.
LEMMA LinearPlainPlan ==
    ASSUME TypeOK, NEW s \in Srv, NEW me, NEW x \in Deliverable(s, Plain, me)
    PROVE  /\ LinearTargets(s, {x}, <<>>) = {}
           /\ Plan(s, me, "linear", {x}, LinearTargets(s, {x}, <<>>), <<>>)
  <1>1. LinearTargets(s, {x}, <<>>) = {}
    BY DEF LinearTargets
  <1>2. x \in Subs /\ home[x] = s /\ Group[x] = Plain
    BY DeliverableShape
  <1>3. DOMAIN <<>> = {}
    OBVIOUS
  <1>4. QED
    BY <1>1, <1>2, <1>3 DEF Plan

\* Another linear event goes to one of each group, and if none of them is here
\* to the other servers.
LEMMA LinearPlan ==
    ASSUME TypeOK, NEW s \in Srv, NEW me, Deliverable(s, Plain, me) = {},
           NEW choice \in QueueChoices(s, "CLIENT", {}, me),
           NEW locals, locals = Range(choice) \cap Subs
    PROVE  Plan(s, me, "linear", locals, LinearTargets(s, locals, choice), choice)
  <1> DEFINE targets == LinearTargets(s, locals, choice)
             all == RouteTargets(s, "CLIENT", choice)
  <1>1. Plan(s, me, "event", locals, all, choice)
    <2>1. Deliverable(s, Plain, me) \cup (Range(choice) \cap Subs) = locals
      OBVIOUS
    <2>2. QED
      BY <2>1, EventPlan
  <1>2. targets = IF locals = {} THEN all ELSE {}
    BY DEF LinearTargets
  <1>3. \A x \in locals : Group[x] # Plain
    <2>1. \A x \in locals : Group[x] \in DOMAIN choice
      BY ChoiceShape
    <2>2. DOMAIN choice \subseteq Groups
      BY ChoiceShape
    <2>3. QED
      BY <2>1, <2>2, GroupsAreNotPlain
  <1> HIDE DEF targets, all
  <1>4. Plan(s, me, "linear", locals, targets, choice)
    <2>1. CASE locals = {}
      BY <1>1, <1>2, <2>1 DEF Plan
    <2>2. CASE locals # {}
      BY <1>1, <1>2, <1>3, <2>2 DEF Plan
    <2>3. QED
      BY <2>1, <2>2
  <1>5. QED
    BY <1>4 DEF targets

-----------------------------------------------------------------------------
(* Types *)

\* The routes have their type exactly if TypeOK says so.
LEMMA TypeParts ==
    ASSUME TypeOK
    PROVE  /\ Wire(wire) /\ got \in [Msgs -> [Subs -> 0 .. Many]]
           /\ home \in [Subs -> Srv] /\ state \in [Subs -> {"new", "in", "dead", "left"}]
           /\ sent \in [Msgs -> {"no", "event", "linear"}] /\ told \subseteq Msgs
           /\ stable \in [Msgs -> SUBSET Subs] /\ firsts \in [Msgs -> SUBSET Subs]
           /\ known \in [Srv -> SUBSET (Srv \X Keys)] /\ forwarded \subseteq Msgs
           /\ \A s \in Srv, k \in Keys : <<s, k>> \notin known[s]
           /\ \A x \in Subs : Group[x] \in Keys
  BY GroupOfSubscription DEF TypeOK, Wire, Keys

\* Subscriptions come and go.
LEMMA SubscriberType ==
    ASSUME TypeOK, NEW x \in Subs, Subscribe(x) \/ Close(x) \/ Remove(x)
    PROVE  TypeOK'
  <1>1. /\ Wire(wire) /\ Group[x] \in Keys /\ home[x] \in Srv
        /\ stable \in [Msgs -> SUBSET Subs] /\ state \in [Subs -> {"new", "in", "dead", "left"}]
    BY TypeParts
  <1>2. Wire(wire')
    <2>1. wire' = wire => Wire(wire')
      BY <1>1
    <2>2. Announce(home[x], Group[x], "RS+") \/ Announce(home[x], Group[x], "RS-") => Wire(wire')
      BY <1>1, AnnounceShape
    <2>3. QED
      BY <2>1, <2>2 DEF Subscribe, Close, Remove
  <1>3. state' \in [Subs -> {"new", "in", "dead", "left"}]
    BY <1>1 DEF Subscribe, Close, Remove
  <1>4. stable' \in [Msgs -> SUBSET Subs]
    BY <1>1 DEF Subscribe, Close, Remove, history
  <1>5. UNCHANGED <<home, known, sent, got, told, forwarded, firsts>>
    BY DEF Subscribe, Close, Remove, history
  <1>6. QED
    BY <1>2, <1>3, <1>4, <1>5 DEF TypeOK, Wire

\* A message is published.
LEMMA PublishType ==
    ASSUME TypeOK, NEW s \in Srv, NEW m \in Msgs, NEW me, NEW kind, NEW locals, NEW targets,
           NEW choice, PublishTo(s, m, me, kind, locals, targets, choice),
           Plan(s, me, kind, locals, targets, choice)
    PROVE  TypeOK'
  <1>1. kind \in {"event", "linear"} /\ locals \subseteq Subs /\ DOMAIN choice \subseteq Groups
    BY DEF Plan
  <1>2. Wire(wire')
    <2>1. Wire(wire) /\ wire' = Send(wire, s, m, targets, choice)
      BY TypeParts DEF PublishTo
    <2>2. QED
      BY <1>1, <2>1, SendCopies
  <1>3. got' \in [Msgs -> [Subs -> 0 .. Many]]
    BY TypeParts, GotShape DEF PublishTo, Given
  <1>4. sent' \in [Msgs -> {"no", "event", "linear"}]
    BY <1>1, TypeParts DEF PublishTo
  <1>5. firsts' \in [Msgs -> SUBSET Subs]
    BY <1>1, TypeParts DEF PublishTo
  <1>6. stable' \in [Msgs -> SUBSET Subs]
    BY TypeParts DEF PublishTo
  <1>7. told' \subseteq Msgs
    BY TypeParts DEF PublishTo
  <1>8. UNCHANGED <<home, state, known, forwarded>>
    BY DEF PublishTo, subs
  <1>9. QED
    BY <1>2, <1>3, <1>4, <1>5, <1>6, <1>7, <1>8 DEF TypeOK, Wire

\* An interest change is read.
LEMMA RemoteSubType ==
    ASSUME TypeOK, NEW c \in Routes, ProcessRemoteSub(c)
    PROVE  /\ TypeOK' /\ wire[c] # <<>> /\ wire' = AfterRead(wire, c)
           /\ Head(wire[c]).op \in {"RS+", "RS-"} /\ Head(wire[c]).key \in Keys
  <1>1. /\ wire[c] # <<>> /\ Head(wire[c]).op \in {"RS+", "RS-"} /\ wire' = AfterRead(wire, c)
        /\ known' = [known EXCEPT ![c[2]] =
                        IF Head(wire[c]).op = "RS+" THEN @ \cup {<<c[1], Head(wire[c]).key>>}
                                                    ELSE @ \ {<<c[1], Head(wire[c]).key>>}]
    BY DEF ProcessRemoteSub, AfterRead
  <1>2. Wire(wire') /\ Head(wire[c]) \in Protos
    <2>1. Wire(wire)
      BY TypeParts
    <2>2. QED
      BY <1>1, <2>1, ReadShape
  <1>3. Head(wire[c]).key \in Keys
    BY <1>1, <1>2, ProtoCases
  <1>4. /\ known' \in [Srv -> SUBSET (Srv \X Keys)]
        /\ \A s \in Srv, k \in Keys : <<s, k>> \notin known'[s]
    <2>1. c[1] \in Srv /\ c[2] \in Srv /\ c[1] # c[2]
      BY RoutePair
    <2>2. PICK i \in Srv \X Keys : i = <<c[1], Head(wire[c]).key>>
      BY <1>3, <2>1
    <2>3. \A k : <<c[2], k>> # i
      BY <2>1, <2>2
    <2>4. known' = [known EXCEPT ![c[2]] = IF Head(wire[c]).op = "RS+" THEN @ \cup {i} ELSE @ \ {i}]
      BY <1>1, <2>2
    <2>5. known \in [Srv -> SUBSET (Srv \X Keys)] /\ \A s \in Srv, k \in Keys : <<s, k>> \notin known[s]
      BY TypeParts
    <2>6. QED
      BY <2>1, <2>3, <2>4, <2>5
  <1>5. UNCHANGED <<home, state, sent, got, told, forwarded, firsts, stable>>
    BY DEF ProcessRemoteSub, subs, history
  <1>6. TypeOK'
    BY <1>2, <1>4, <1>5 DEF TypeOK, Wire
  <1>7. QED
    BY <1>1, <1>3, <1>6

\* What a server does with a message from a route.
Routed(c, m, qs, b, choice, locals, targets) ==
    LET s == c[2] IN
    /\ m \in Msgs /\ qs \in SUBSET Groups /\ 1 \in DOMAIN wire[c]
    /\ wire[c][1].op = "RMSG" /\ wire[c][1].msg = m /\ wire[c][1].queues = qs
    /\ b = AfterRead(wire, c) /\ Wire(b) /\ wire[c] # <<>>
    /\ choice \in QueueChoices(s, "ROUTER", qs, NoOne) /\ DOMAIN choice \subseteq qs
    /\ locals = Deliverable(s, Plain, NoOne) \cup (Range(choice) \cap Subs)
    /\ targets = RouteTargets(s, "ROUTER", choice)
    /\ Given(got, got', m, locals)
    /\ wire' = Send(b, s, m, targets, choice)
    /\ forwarded' = IF targets = {} THEN forwarded ELSE forwarded \cup {m}
    /\ UNCHANGED <<home, state, known, sent, told, firsts, stable>>

\* A message is read.
LEMMA RoutedShape ==
    ASSUME TypeOK, NEW c \in Routes, ProcessRoutedMsg(c)
    PROVE  \E m, qs, b, choice, locals, targets : Routed(c, m, qs, b, choice, locals, targets)
  <1> DEFINE m == Head(wire[c]).msg
             qs == Head(wire[c]).queues
             b == AfterRead(wire, c)
  <1>1. wire[c] # <<>> /\ Head(wire[c]).op = "RMSG"
    BY DEF ProcessRoutedMsg
  <1>2. Wire(wire) /\ got \in [Msgs -> [Subs -> 0 .. Many]]
    BY TypeParts
  <1>3. Wire(b) /\ 1 \in DOMAIN wire[c] /\ Head(wire[c]) = wire[c][1] /\ Head(wire[c]) \in Protos
    BY <1>1, <1>2, ReadShape
  <1>4. m \in Msgs /\ qs \in SUBSET Groups
    BY <1>1, <1>3, ProtoCases
  <1>5. PICK choice \in QueueChoices(c[2], "ROUTER", qs, NoOne) :
           LET targets == RouteTargets(c[2], "ROUTER", choice) IN
           /\ GotBy(m, Deliverable(c[2], Plain, NoOne) \cup (Range(choice) \cap Subs))
           /\ wire' = Send(b, c[2], m, targets, choice)
           /\ forwarded' = IF targets = {} THEN forwarded ELSE forwarded \cup {m}
    BY DEF ProcessRoutedMsg, AfterRead
  <1> DEFINE locals == Deliverable(c[2], Plain, NoOne) \cup (Range(choice) \cap Subs)
             targets == RouteTargets(c[2], "ROUTER", choice)
  <1>6. DOMAIN choice \subseteq qs
    BY DEF QueueChoices, SelectedGroups
  <1>7. Given(got, got', m, locals)
    BY <1>2, <1>4, <1>5, GotShape
  <1>8. UNCHANGED <<home, state, known, sent, told, firsts, stable>>
    BY DEF ProcessRoutedMsg, subs
  <1>9. /\ wire' = Send(b, c[2], m, targets, choice)
        /\ forwarded' = IF targets = {} THEN forwarded ELSE forwarded \cup {m}
    BY <1>5
  <1>10. /\ wire[c][1].op = "RMSG" /\ wire[c][1].msg = m /\ wire[c][1].queues = qs
    BY <1>1, <1>3
  <1>11. /\ b = AfterRead(wire, c) /\ locals = Deliverable(c[2], Plain, NoOne) \cup (Range(choice) \cap Subs)
         /\ targets = RouteTargets(c[2], "ROUTER", choice)
    OBVIOUS
  <1> HIDE DEF m, qs, b, locals, targets
  <1>12. Routed(c, m, qs, b, choice, locals, targets)
    BY <1>1, <1>3, <1>4, <1>5, <1>6, <1>7, <1>8, <1>9, <1>10, <1>11 DEF Routed
  <1>13. QED
    BY <1>12

\* Its types.
LEMMA RoutedType ==
    ASSUME TypeOK, NEW c \in Routes, NEW m, NEW qs, NEW b, NEW choice, NEW locals, NEW targets,
           Routed(c, m, qs, b, choice, locals, targets)
    PROVE  TypeOK'
  <1>1. c[2] \in Srv /\ m \in Msgs /\ Wire(b) /\ DOMAIN choice \subseteq Groups
    BY RoutePair DEF Routed
  <1>2. wire' = Send(b, c[2], m, targets, choice)
    BY DEF Routed
  <1>3. Wire(wire')
    BY <1>1, <1>2, SendCopies
  <1>4. got' \in [Msgs -> [Subs -> 0 .. Many]]
    BY DEF Routed, Given
  <1>5. forwarded' \subseteq Msgs
    BY <1>1, TypeParts DEF Routed
  <1>6. UNCHANGED <<home, state, known, sent, told, firsts, stable>>
    BY DEF Routed
  <1>7. QED
    BY <1>3, <1>4, <1>5, <1>6 DEF TypeOK, Wire

-----------------------------------------------------------------------------
(* Nobody gets a message twice *)

Exact == Tokens /\ PlainCopies /\ Unpublished /\ Untold /\ Local

\* Clients do not move.
LEMMA CopiesNext ==
    ASSUME home' = home, \A m \in Msgs \ forwarded' : OneCopy(wire', got', m)
    PROVE  PlainCopies'
  BY DEF PlainCopies, OneCopy

\* A step that gives and sends no message.
LEMMA QuietExact ==
    ASSUME TypeOK, Exact, UNCHANGED <<home, sent, got, told, firsts, forwarded>>,
           \A m \in Msgs :
              /\ NoCopy(wire, m) => NoCopy(wire', m)
              /\ OneCopy(wire, got, m) => OneCopy(wire', got, m)
              /\ \A g : OneToken(wire, got, m, g) => OneToken(wire', got, m, g)
    PROVE  Exact'
  <1>1. Tokens'
    BY DEF Exact, Tokens
  <1>2. PlainCopies'
    <2>1. \A m \in Msgs \ forwarded' : OneCopy(wire', got', m)
      BY DEF Exact, PlainCopies
    <2>2. QED
      BY <2>1, CopiesNext
  <1>3. Unpublished'
    BY DEF Exact, Unpublished, Nobody
  <1>4. Untold'
    BY TypeParts DEF Exact, Untold, Nobody
  <1>5. Local'
    BY DEF Exact, Local
  <1>6. QED
    BY <1>1, <1>2, <1>3, <1>4, <1>5 DEF Exact

\* Subscriptions come and go.
LEMMA SubscriberExact ==
    ASSUME TypeOK, Exact, NEW x \in Subs, Subscribe(x) \/ Close(x) \/ Remove(x)
    PROVE  Exact'
  <1>1. Wire(wire) /\ Group[x] \in Keys
    BY TypeParts
  <1>2. UNCHANGED <<home, sent, got, told, firsts, forwarded>>
    BY DEF Subscribe, Close, Remove, history
  <1>3. \A r \in Routes : \A i \in DOMAIN wire'[r] : wire'[r][i].op = "RMSG" =>
            i \in DOMAIN wire[r] /\ wire'[r][i] = wire[r][i]
    <2>1. CASE wire' = wire
      BY <2>1
    <2>2. ASSUME NEW op \in {"RS+", "RS-"}, Announce(home[x], Group[x], op)
          PROVE  \A r \in Routes : \A i \in DOMAIN wire'[r] : wire'[r][i].op = "RMSG" =>
                     i \in DOMAIN wire[r] /\ wire'[r][i] = wire[r][i]
      <3>1. \A r \in Routes : \A i \in DOMAIN wire'[r] :
                 \/ i \in DOMAIN wire[r] /\ wire'[r][i] = wire[r][i]
                 \/ wire'[r][i].op = op
        BY <1>1, <2>2, AnnounceShape
      <3>2. QED
        BY <2>2, <3>1
    <2>3. QED
      BY <2>1, <2>2 DEF Subscribe, Close, Remove
  <1>4. \A m \in Msgs :
            /\ NoCopy(wire, m) => NoCopy(wire', m)
            /\ OneCopy(wire, got, m) => OneCopy(wire', got, m)
            /\ \A g : OneToken(wire, got, m, g) => OneToken(wire', got, m, g)
    BY <1>3, SameMeans
  <1>5. QED
    BY <1>2, <1>4, QuietExact

\* An interest change is read.
LEMMA RemoteSubExact ==
    ASSUME TypeOK, Exact, NEW c \in Routes, ProcessRemoteSub(c)
    PROVE  Exact'
  <1>1. Wire(wire) /\ wire[c] # <<>> /\ wire' = AfterRead(wire, c)
    BY TypeParts, RemoteSubType
  <1>2. UNCHANGED <<home, sent, got, told, firsts, forwarded>>
    BY DEF ProcessRemoteSub, subs, history
  <1>3. \A m \in Msgs :
            /\ NoCopy(wire, m) => NoCopy(wire', m)
            /\ OneCopy(wire, got, m) => OneCopy(wire', got, m)
            /\ \A g : OneToken(wire, got, m, g) => OneToken(wire', got, m, g)
    BY <1>1, ReadCopies
  <1>4. QED
    BY <1>2, <1>3, QuietExact

\* A message is published.
LEMMA PublishExact ==
    ASSUME TypeOK, Exact, NEW s \in Srv, NEW m \in Msgs, NEW me, NEW kind, NEW locals,
           NEW targets, NEW choice, PublishTo(s, m, me, kind, locals, targets, choice),
           Plan(s, me, kind, locals, targets, choice)
    PROVE  Exact'
  <1>1. /\ kind \in {"event", "linear"} /\ locals \subseteq Subs /\ DOMAIN choice \subseteq Groups
        /\ \A x \in locals :
              /\ home[x] = s
              /\ Group[x] # Plain => Group[x] \in DOMAIN choice /\ choice[Group[x]] = x
        /\ kind = "linear" /\ locals # {} =>
              targets = {} /\ \A x, y \in locals : Group[x] = Plain => x = y
    BY DEF Plan
  <1>2. /\ sent[m] = "no" /\ wire' = Send(wire, s, m, targets, choice)
        /\ sent' = [sent EXCEPT ![m] = kind] /\ firsts' = [firsts EXCEPT ![m] = locals]
        /\ told' = IF locals = {} /\ targets = {} THEN told \cup {m} ELSE told
        /\ UNCHANGED <<home, state, known, forwarded>>
    BY DEF PublishTo, Unanswered, subs
  <1>3. /\ Wire(wire) /\ got \in [Msgs -> [Subs -> 0 .. Many]] /\ told \subseteq Msgs
        /\ sent \in [Msgs -> {"no", "event", "linear"}] /\ firsts \in [Msgs -> SUBSET Subs]
    BY TypeParts
  <1>4. Given(got, got', m, locals)
    BY <1>3, GotShape DEF PublishTo
  <1>5. NoCopy(wire, m) /\ Nobody(got, m) /\ m \notin told
    BY <1>2 DEF Exact, Unpublished
  <1>6. ASSUME NEW n \in Msgs, n # m
        PROVE  /\ NoCopy(wire, n) => NoCopy(wire', n)
               /\ OneCopy(wire, got, n) => OneCopy(wire', got', n)
               /\ \A g : OneToken(wire, got, n, g) => OneToken(wire', got', n, g)
               /\ got'[n] = got[n] /\ sent'[n] = sent[n] /\ firsts'[n] = firsts[n]
    <2>1. /\ NoCopy(wire, n) => NoCopy(wire', n)
          /\ OneCopy(wire, got, n) => OneCopy(wire', got', n)
          /\ \A g : OneToken(wire, got, n, g) => OneToken(wire', got', n, g)
          /\ got'[n] = got[n]
      BY <1>1, <1>2, <1>3, <1>4, <1>6, OthersKept
    <2>2. sent'[n] = sent[n] /\ firsts'[n] = firsts[n]
      BY <1>2, <1>3, <1>6
    <2>3. QED
      BY <2>1, <2>2
  <1>7. sent'[m] = kind /\ kind # "no" /\ firsts'[m] = locals
    BY <1>1, <1>2, <1>3
  <1>8. targets = {} => NoCopy(wire', m)
    <2>1. targets = {} => \A r \in Routes : wire'[r] = wire[r]
      BY <1>1, <1>2, <1>3, NothingSent
    <2>2. QED
      BY <1>5, <2>1 DEF NoCopy, At
  <1>9. \A x \in Subs : got'[m][x] = IF x \in locals THEN 1 ELSE 0
    <2>1. SUFFICES ASSUME NEW x \in Subs PROVE got'[m][x] = IF x \in locals THEN 1 ELSE 0
      OBVIOUS
    <2>2. got[m][x] = 0
      BY <1>5 DEF Nobody
    <2>3. got'[m][x] = IF x \in locals /\ got[m][x] < Many THEN got[m][x] + 1 ELSE got[m][x]
      BY <1>4 DEF Given
    <2>4. QED
      BY <2>2, <2>3 DEF Many
  <1>10. Tokens'
    <2>1. ASSUME NEW g \in Groups PROVE OneToken(wire', got', m, g)
      <3>1. OneToken(wire, got, m, g)
        BY DEF Exact, Tokens
      <3>2. \A x \in locals : x \in Subs /\ (Group[x] = g => g \in DOMAIN choice /\ choice[g] = x)
        BY <1>1, GroupsAreNotPlain
      <3>3. \A r \in Routes : \A i \in DOMAIN wire[r] : ~Names(wire, m, g, r, i)
        BY <1>5 DEF NoCopy, Names
      <3>4. \A x \in MembersOf(g) : got[m][x] = 0
        BY <1>5 DEF MembersOf, Nobody
      <3>5. /\ Wire(wire) /\ DOMAIN choice \subseteq Groups
            /\ wire' = Send(wire, s, m, targets, choice) /\ Given(got, got', m, locals)
            /\ got \in [Msgs -> [Subs -> 0 .. Many]]
        BY <1>1, <1>2, <1>3, <1>4
      <3>6. QED
        BY <3>1, <3>2, <3>3, <3>4, <3>5, TokenMoves
    <2>2. ASSUME NEW n \in Msgs, n # m, NEW g \in Groups PROVE OneToken(wire', got', n, g)
      BY <1>6, <2>2 DEF Exact, Tokens
    <2>3. QED
      BY <2>1, <2>2 DEF Tokens
  <1>11. PlainCopies'
    <2>1. ASSUME m \notin forwarded PROVE OneCopy(wire', got', m)
      <3>1. OneCopy(wire, got, m)
        BY <2>1 DEF Exact, PlainCopies
      <3>2. \A r \in Routes : \A i \in DOMAIN wire[r] : At(wire, m, r, i) => r[2] # s
        BY <1>5 DEF NoCopy
      <3>3. \A x \in locals : x \in MembersOf(Plain) => home[x] = s /\ got[m][x] = 0
        BY <1>1, <1>5 DEF Nobody
      <3>4. QED
        BY <1>1, <1>2, <1>3, <1>4, <1>5, <3>1, <3>2, <3>3, CopyUsed
    <2>2. \A n \in Msgs \ forwarded' : OneCopy(wire', got', n)
      BY <1>2, <1>6, <2>1 DEF Exact, PlainCopies
    <2>3. QED
      BY <1>2, <2>2, CopiesNext
  <1>12. Unpublished'
    <2>1. SUFFICES ASSUME NEW n \in Msgs, sent'[n] = "no"
                   PROVE  NoCopy(wire', n) /\ Nobody(got', n) /\ n \notin told'
      BY DEF Unpublished, NoCopy, Nobody, At
    <2>2. n # m
      BY <1>7, <2>1
    <2>3. NoCopy(wire, n) /\ Nobody(got, n) /\ n \notin told
      BY <1>6, <2>1, <2>2 DEF Exact, Unpublished
    <2>4. QED
      BY <1>2, <1>6, <2>2, <2>3 DEF Nobody
  <1>13. Untold'
    <2>1. SUFFICES ASSUME NEW n \in told' PROVE NoCopy(wire', n) /\ Nobody(got', n)
      BY DEF Untold, NoCopy, Nobody, At
    <2>2. CASE n = m
      <3>1. locals = {} /\ targets = {}
        BY <1>2, <1>5, <2>1, <2>2
      <3>2. QED
        BY <1>8, <1>9, <2>2, <3>1 DEF Nobody
    <2>3. CASE n # m
      <3>1. n \in told /\ n \in Msgs
        BY <1>2, <1>3, <2>1, <2>3
      <3>2. NoCopy(wire, n) /\ Nobody(got, n)
        BY <3>1 DEF Exact, Untold
      <3>3. QED
        BY <1>6, <2>3, <3>1, <3>2 DEF Nobody
    <2>4. QED
      BY <2>2, <2>3
  <1>14. Local'
    <2>1. SUFFICES ASSUME NEW n \in Msgs, sent'[n] = "linear", firsts'[n] # {}
                   PROVE  /\ NoCopy(wire', n)
                          /\ \A x \in Subs : got'[n][x] = IF x \in firsts'[n] THEN 1 ELSE 0
                          /\ \A x, y \in firsts'[n] : Group[x] = Plain => x = y
      BY DEF Local, NoCopy, At
    <2>2. CASE n = m
      BY <1>1, <1>7, <1>8, <1>9, <2>1, <2>2
    <2>3. CASE n # m
      BY <1>6, <2>1, <2>3 DEF Exact, Local
    <2>4. QED
      BY <2>2, <2>3
  <1>15. QED
    BY <1>10, <1>11, <1>12, <1>13, <1>14 DEF Exact

\* A message is read from a route.
LEMMA RoutedExact ==
    ASSUME TypeOK, Exact, NEW c \in Routes, NEW m, NEW qs, NEW b, NEW choice, NEW locals,
           NEW targets, Routed(c, m, qs, b, choice, locals, targets)
    PROVE  Exact'
  <1>1. /\ m \in Msgs /\ qs \in SUBSET Groups /\ 1 \in DOMAIN wire[c] /\ wire[c] # <<>>
        /\ wire[c][1].op = "RMSG" /\ wire[c][1].msg = m /\ wire[c][1].queues = qs
        /\ b = AfterRead(wire, c) /\ Wire(b)
        /\ choice \in QueueChoices(c[2], "ROUTER", qs, NoOne) /\ DOMAIN choice \subseteq qs
        /\ locals = Deliverable(c[2], Plain, NoOne) \cup (Range(choice) \cap Subs)
        /\ Given(got, got', m, locals)
        /\ wire' = Send(b, c[2], m, targets, choice)
        /\ forwarded' = IF targets = {} THEN forwarded ELSE forwarded \cup {m}
        /\ UNCHANGED <<home, state, known, sent, told, firsts, stable>>
    BY DEF Routed
  <1>2. /\ Wire(wire) /\ got \in [Msgs -> [Subs -> 0 .. Many]] /\ told \subseteq Msgs
        /\ c[2] \in Srv /\ DOMAIN choice \subseteq Groups
    BY <1>1, TypeParts, RoutePair
  <1>3. At(wire, m, c, 1) /\ \A g \in qs : Names(wire, m, g, c, 1)
    BY <1>1 DEF At, Names
  <1>4. ~NoCopy(wire, m)
    BY <1>1, <1>3 DEF NoCopy
  <1>5. ASSUME NEW n \in Msgs
        PROVE  /\ NoCopy(wire, n) => NoCopy(b, n)
               /\ OneCopy(wire, got, n) =>
                     /\ OneCopy(b, got, n)
                     /\ At(wire, n, c, 1) =>
                           \A r \in Routes : \A i \in DOMAIN b[r] : At(b, n, r, i) => r[2] # c[2]
               /\ \A g : OneToken(wire, got, n, g) =>
                     /\ OneToken(b, got, n, g)
                     /\ Names(wire, n, g, c, 1) =>
                           \A r \in Routes : \A i \in DOMAIN b[r] : ~Names(b, n, g, r, i)
    BY <1>1, <1>2, ReadCopies
  <1>6. ASSUME NEW n \in Msgs, n # m
        PROVE  /\ NoCopy(wire, n) => NoCopy(wire', n)
               /\ OneCopy(wire, got, n) => OneCopy(wire', got', n)
               /\ \A g : OneToken(wire, got, n, g) => OneToken(wire', got', n, g)
               /\ got'[n] = got[n]
    <2>1. /\ NoCopy(b, n) => NoCopy(wire', n)
          /\ OneCopy(b, got, n) => OneCopy(wire', got', n)
          /\ \A g : OneToken(b, got, n, g) => OneToken(wire', got', n, g)
          /\ got'[n] = got[n]
      BY <1>1, <1>2, <1>6, OthersKept
    <2>2. QED
      BY <1>5, <2>1
  <1>7. ASSUME NEW x \in locals
        PROVE  /\ x \in Subs /\ home[x] = c[2]
               /\ Group[x] # Plain => Group[x] \in DOMAIN choice /\ choice[Group[x]] = x
    <2>1. CASE x \in Deliverable(c[2], Plain, NoOne)
      BY <2>1, DeliverableShape
    <2>2. CASE x \in Range(choice) \cap Subs
      <3>1. /\ Group[x] \in DOMAIN choice /\ choice[Group[x]] = x
            /\ x \in Deliverable(c[2], Group[x], NoOne)
        BY <1>1, <2>2, ChoiceShape
      <3>2. QED
        BY <3>1, DeliverableShape
    <2>3. QED
      BY <1>1, <1>7, <2>1, <2>2
  <1>8. Tokens'
    <2>1. ASSUME NEW g \in Groups PROVE OneToken(wire', got', m, g)
      <3>1. OneToken(wire, got, m, g)
        BY <1>1 DEF Exact, Tokens
      <3>2. OneToken(b, got, m, g)
        BY <1>1, <1>5, <3>1
      <3>3. \A x \in locals : x \in Subs /\ (Group[x] = g => g \in DOMAIN choice /\ choice[g] = x)
        BY <1>7, GroupsAreNotPlain
      <3>4. g \in DOMAIN choice => Names(wire, m, g, c, 1)
        BY <1>1, <1>3
      <3>5. g \in DOMAIN choice => \A r \in Routes : \A i \in DOMAIN b[r] : ~Names(b, m, g, r, i)
        BY <1>1, <1>5, <3>1, <3>4
      <3>6. g \in DOMAIN choice => \A x \in MembersOf(g) : got[m][x] = 0
        BY <1>1, <3>1, <3>4 DEF OneToken
      <3>7. QED
        BY <1>1, <1>2, <3>2, <3>3, <3>5, <3>6, TokenMoves
    <2>2. ASSUME NEW n \in Msgs, n # m, NEW g \in Groups PROVE OneToken(wire', got', n, g)
      BY <1>6, <2>2 DEF Exact, Tokens
    <2>3. QED
      BY <2>1, <2>2 DEF Tokens
  <1>9. PlainCopies'
    <2>1. ASSUME m \notin forwarded, targets = {} PROVE OneCopy(wire', got', m)
      <3>1. OneCopy(wire, got, m)
        BY <1>1, <2>1 DEF Exact, PlainCopies
      <3>2. /\ OneCopy(b, got, m)
            /\ \A r \in Routes : \A i \in DOMAIN b[r] : At(b, m, r, i) => r[2] # c[2]
        BY <1>1, <1>3, <1>5, <3>1
      <3>3. \A x \in MembersOf(Plain) : home[x] = c[2] => got[m][x] = 0
        BY <1>1, <1>3, <3>1 DEF OneCopy
      <3>4. \A x \in locals : x \in MembersOf(Plain) => home[x] = c[2] /\ got[m][x] = 0
        BY <1>7, <3>3
      <3>5. /\ Wire(b) /\ DOMAIN choice \subseteq Groups /\ wire' = Send(b, c[2], m, targets, choice)
            /\ Given(got, got', m, locals) /\ c[2] \in Srv /\ m \in Msgs
            /\ got \in [Msgs -> [Subs -> 0 .. Many]]
        BY <1>1, <1>2
      <3>6. QED
        BY <2>1, <3>2, <3>4, <3>5, CopyUsed
    <2>2. \A n \in Msgs \ forwarded' : n # m => OneCopy(wire', got', n)
      BY <1>1, <1>6 DEF Exact, PlainCopies
    <2>3. m \notin forwarded' => OneCopy(wire', got', m)
      BY <1>1, <2>1
    <2>4. \A n \in Msgs \ forwarded' : OneCopy(wire', got', n)
      BY <2>2, <2>3
    <2>5. QED
      BY <1>1, <2>4, CopiesNext
  <1>10. Unpublished'
    <2>1. SUFFICES ASSUME NEW n \in Msgs, sent'[n] = "no"
                   PROVE  NoCopy(wire', n) /\ Nobody(got', n) /\ n \notin told'
      BY DEF Unpublished, NoCopy, Nobody, At
    <2>2. NoCopy(wire, n) /\ Nobody(got, n) /\ n \notin told
      BY <1>1, <2>1 DEF Exact, Unpublished
    <2>3. n # m
      BY <1>4, <2>2
    <2>4. QED
      BY <1>1, <1>6, <2>2, <2>3 DEF Nobody
  <1>11. Untold'
    <2>1. SUFFICES ASSUME NEW n \in told' PROVE NoCopy(wire', n) /\ Nobody(got', n)
      BY DEF Untold, NoCopy, Nobody, At
    <2>2. n \in Msgs /\ NoCopy(wire, n) /\ Nobody(got, n)
      BY <1>1, <1>2, <2>1 DEF Exact, Untold
    <2>3. n # m
      BY <1>4, <2>2
    <2>4. QED
      BY <1>6, <2>2, <2>3 DEF Nobody
  <1>12. Local'
    <2>1. SUFFICES ASSUME NEW n \in Msgs, sent'[n] = "linear", firsts'[n] # {}
                   PROVE  /\ NoCopy(wire', n)
                          /\ \A x \in Subs : got'[n][x] = IF x \in firsts'[n] THEN 1 ELSE 0
                          /\ \A x, y \in firsts'[n] : Group[x] = Plain => x = y
      BY DEF Local, NoCopy, At
    <2>2. /\ NoCopy(wire, n)
          /\ \A x \in Subs : got[n][x] = IF x \in firsts[n] THEN 1 ELSE 0
          /\ \A x, y \in firsts[n] : Group[x] = Plain => x = y
      BY <1>1, <2>1 DEF Exact, Local
    <2>3. n # m
      BY <1>4, <2>2
    <2>4. QED
      BY <1>1, <1>6, <2>2, <2>3
  <1>13. QED
    BY <1>8, <1>9, <1>10, <1>11, <1>12 DEF Exact

-----------------------------------------------------------------------------
(* Nobody is forgotten *)

\* Nothing about a settled subscriber's key is on the routes of its server.
LEMMA SettledWire ==
    ASSUME TypeOK, NEW x \in Subs, Settled(x), NEW r \in Routes, r[1] = home[x],
           NEW i \in DOMAIN wire[r], wire[r][i].op \in {"RS+", "RS-"}
    PROVE  wire[r][i].key # Group[x]
  <1>1. r[2] \in Srv \ {home[x]} /\ r = <<home[x], r[2]>>
    BY RoutePair
  <1>2. QED
    BY <1>1 DEF Settled

\* It stays so while its server announces nothing about the key.
LEMMA SettledNext ==
    ASSUME TypeOK, NEW x \in Subs, home' = home,
           \A t \in Srv \ {home[x]} : <<home[x], Group[x]>> \in known'[t],
           \A r \in Routes : r[1] = home[x] =>
               \A i \in DOMAIN wire'[r] : wire'[r][i].op \in {"RS+", "RS-"} =>
                   wire'[r][i].key # Group[x]
    PROVE  Settled(x)'
  <1>1. SUFFICES ASSUME NEW t \in Srv \ {home[x]}, NEW i \in DOMAIN wire'[<<home[x], t>>],
                        wire'[<<home[x], t>>][i].op \in {"RS+", "RS-"}
                 PROVE  wire'[<<home[x], t>>][i].key # Group[x]
    BY DEF Settled
  <1>2. <<home[x], t>> \in Routes /\ <<home[x], t>>[1] = home[x]
    BY TypeParts, RoutePair
  <1>3. QED
    BY <1>1, <1>2

\* Messages that are still there are still on their way.
LEMMA WayKept ==
    ASSUME NEW V, NEW W, NEW m, NEW x, OnTheWay(V, m, x),
           \A r \in Routes : \A i \in DOMAIN V[r] : At(V, m, r, i) =>
               \E j \in DOMAIN W[r] : W[r][j] = V[r][i]
    PROVE  OnTheWay(W, m, x)
  <1>1. PICK r \in Routes : \E i \in DOMAIN V[r] :
            IF Group[x] = Plain THEN At(V, m, r, i) /\ r[2] = home[x]
                                ELSE Names(V, m, Group[x], r, i)
    BY DEF OnTheWay
  <1>2. PICK i \in DOMAIN V[r] :
            IF Group[x] = Plain THEN At(V, m, r, i) /\ r[2] = home[x]
                                ELSE Names(V, m, Group[x], r, i)
    BY <1>1
  <1>3. At(V, m, r, i)
    BY <1>2 DEF Names
  <1>4. PICK j \in DOMAIN W[r] : W[r][j] = V[r][i]
    BY <1>3
  <1>5. IF Group[x] = Plain THEN At(W, m, r, j) /\ r[2] = home[x]
                            ELSE Names(W, m, Group[x], r, j)
    BY <1>2, <1>4 DEF Names, At
  <1>6. QED
    BY <1>5 DEF OnTheWay

\* A delivery takes nothing back.
LEMMA GivenGrows ==
    ASSUME NEW G \in [Msgs -> [Subs -> 0 .. Many]], NEW H, NEW m \in Msgs, NEW X, Given(G, H, m, X)
    PROVE  /\ \A n \in Msgs, y \in Subs : G[n][y] > 0 => H[n][y] > 0
           /\ \A y \in Subs : y \in X => H[m][y] > 0
  <1>1. ASSUME NEW y \in Subs
        PROVE  /\ G[m][y] > 0 => H[m][y] > 0
               /\ y \in X => H[m][y] > 0
    <2>1. G[m][y] \in 0 .. Many
      OBVIOUS
    <2>2. H[m][y] = IF y \in X /\ G[m][y] < Many THEN G[m][y] + 1 ELSE G[m][y]
      BY DEF Given
    <2>3. QED
      BY <2>1, <2>2 DEF Many
  <1>2. \A n \in Msgs : n # m => H[n] = G[n]
    BY DEF Given
  <1>3. QED
    BY <1>1, <1>2

\* What holds of a subscriber that stayed is about the same home and the same kind.
LEMMA StaysNext ==
    ASSUME home' = home,
           \A n \in Msgs : \A x \in stable'[n] :
              /\ sent'[n] # "no" /\ state'[x] = "in" /\ Settled(x)'
              /\ \/ OnTheWay(wire', n, x)
                 \/ sent'[n] = sent[n] /\ Reached(got', n, x)
                 \/ Reached(got, n, x)'
    PROVE  Stays'
  <1>1. ASSUME NEW n \in Msgs, NEW x \in stable'[n]
        PROVE  OnTheWay(wire, n, x)' \/ Reached(got, n, x)'
    <2>1. OnTheWay(wire', n, x) => OnTheWay(wire, n, x)'
      BY DEF OnTheWay, Names, At
    <2>2. sent'[n] = sent[n] /\ Reached(got', n, x) => Reached(got, n, x)'
      BY DEF Reached
    <2>3. QED
      BY <2>1, <2>2
  <1>2. QED
    BY <1>1 DEF Stays

\* Subscriptions come and go.
LEMMA SubscriberStays ==
    ASSUME TypeOK, Stays, NEW y \in Subs, Subscribe(y) \/ Close(y) \/ Remove(y)
    PROVE  Stays'
  <1>1. /\ Wire(wire) /\ Group[y] \in Keys /\ state \in [Subs -> {"new", "in", "dead", "left"}]
        /\ stable \in [Msgs -> SUBSET Subs]
    BY TypeParts
  <1>2. UNCHANGED <<home, known, sent, got>>
    BY DEF Subscribe, Close, Remove
  <1>3. ASSUME NEW n \in Msgs, NEW x \in stable'[n]
        PROVE  x \in stable[n] /\ x # y /\ state'[x] = state[x]
    <2>1. x \in stable[n] /\ x \in Subs
      BY <1>1, <1>3 DEF Subscribe, Close, Remove, history
    <2>2. state[x] = "in"
      BY <2>1 DEF Stays
    <2>3. x # y
      BY <1>3, <2>2 DEF Subscribe, Close, Remove
    <2>4. QED
      BY <1>1, <2>1, <2>3 DEF Subscribe, Close, Remove
  <1>4. ASSUME NEW x \in Subs, state[x] = "in", x # y
        PROVE  \/ wire' = wire
               \/ \E op \in {"RS+", "RS-"} :
                     Announce(home[y], Group[y], op) /\ ~(home[x] = home[y] /\ Group[x] = Group[y])
    <2>1. home[x] = home[y] /\ Group[x] = Group[y] => x \in Members(home[y], Group[y])
      BY <1>4 DEF Members
    <2>2. QED
      BY <1>4, <2>1 DEF Subscribe, Close, Remove
  <1>5. \A r \in Routes : \A i \in DOMAIN wire[r] : i \in DOMAIN wire'[r] /\ wire'[r][i] = wire[r][i]
    <2>1. CASE wire' = wire
      BY <2>1
    <2>2. ASSUME NEW op \in {"RS+", "RS-"}, Announce(home[y], Group[y], op)
          PROVE  \A r \in Routes : \A i \in DOMAIN wire[r] :
                     i \in DOMAIN wire'[r] /\ wire'[r][i] = wire[r][i]
      BY <1>1, <2>2, AnnounceShape
    <2>3. QED
      BY <2>1, <2>2 DEF Subscribe, Close, Remove
  <1>6. ASSUME NEW n \in Msgs, NEW x \in stable'[n]
        PROVE  /\ sent'[n] # "no" /\ state'[x] = "in" /\ Settled(x)'
               /\ OnTheWay(wire', n, x) \/ (sent'[n] = sent[n] /\ Reached(got', n, x))
    <2>1. x \in stable[n] /\ x # y /\ state'[x] = state[x] /\ x \in Subs
      BY <1>1, <1>3, <1>6
    <2>2. /\ sent[n] # "no" /\ state[x] = "in" /\ Settled(x)
          /\ OnTheWay(wire, n, x) \/ Reached(got, n, x)
      BY <2>1 DEF Stays
    <2>3. ASSUME NEW r \in Routes, r[1] = home[x], NEW i \in DOMAIN wire'[r],
                 wire'[r][i].op \in {"RS+", "RS-"}
          PROVE  wire'[r][i].key # Group[x]
      <3>1. CASE i \in DOMAIN wire[r] /\ wire'[r][i] = wire[r][i]
        BY <2>1, <2>2, <2>3, <3>1, SettledWire
      <3>2. CASE ~(i \in DOMAIN wire[r] /\ wire'[r][i] = wire[r][i])
        <4>1. wire' # wire
          BY <2>3, <3>2
        <4>2. PICK op \in {"RS+", "RS-"} :
                 Announce(home[y], Group[y], op) /\ ~(home[x] = home[y] /\ Group[x] = Group[y])
          BY <1>4, <2>1, <2>2, <4>1
        <4>3. r[1] = home[y] /\ wire'[r][i].key = Group[y]
          BY <1>1, <2>3, <3>2, <4>2, AnnounceShape
        <4>4. QED
          BY <2>3, <4>2, <4>3
      <3>3. QED
        BY <3>1, <3>2
    <2>4. \A t \in Srv \ {home[x]} : <<home[x], Group[x]>> \in known'[t]
      BY <1>2, <2>2 DEF Settled
    <2>5. Settled(x)'
      BY <1>2, <2>1, <2>3, <2>4, SettledNext
    <2>6. OnTheWay(wire, n, x) => OnTheWay(wire', n, x)
      BY <1>5, WayKept
    <2>7. QED
      BY <1>2, <2>1, <2>2, <2>5, <2>6
  <1>7. QED
    BY <1>2, <1>6, StaysNext

\* An interest change is read.
LEMMA RemoteSubStays ==
    ASSUME TypeOK, Stays, NEW c \in Routes, ProcessRemoteSub(c)
    PROVE  Stays'
  <1>1. /\ Wire(wire) /\ known \in [Srv -> SUBSET (Srv \X Keys)]
        /\ stable \in [Msgs -> SUBSET Subs] /\ c[2] \in Srv
    BY TypeParts, RoutePair
  <1>2. /\ wire[c] # <<>> /\ wire' = AfterRead(wire, c) /\ Head(wire[c]).op \in {"RS+", "RS-"}
        /\ UNCHANGED <<home, state, sent, got, stable>>
    BY RemoteSubType DEF ProcessRemoteSub, subs, history
  <1>3. /\ 1 \in DOMAIN wire[c] /\ Head(wire[c]) = wire[c][1]
        /\ \A r \in Routes : r # c => wire'[r] = wire[r]
        /\ \A i \in DOMAIN wire'[c] : i + 1 \in DOMAIN wire[c] /\ wire'[c][i] = wire[c][i + 1]
        /\ \A i \in DOMAIN wire[c] : i # 1 => i - 1 \in DOMAIN wire'[c] /\ wire'[c][i - 1] = wire[c][i]
    BY <1>1, <1>2, ReadShape
  <1>4. ASSUME NEW n \in Msgs, NEW x \in stable'[n]
        PROVE  /\ sent'[n] # "no" /\ state'[x] = "in" /\ Settled(x)'
               /\ OnTheWay(wire', n, x) \/ (sent'[n] = sent[n] /\ Reached(got', n, x))
    <2>1. /\ x \in Subs /\ sent[n] # "no" /\ state[x] = "in" /\ Settled(x)
          /\ OnTheWay(wire, n, x) \/ Reached(got, n, x)
      BY <1>1, <1>2, <1>4 DEF Stays
    <2>2. ASSUME NEW r \in Routes, r[1] = home[x], NEW i \in DOMAIN wire'[r],
                 wire'[r][i].op \in {"RS+", "RS-"}
          PROVE  wire'[r][i].key # Group[x]
      <3>1. PICK j \in DOMAIN wire[r] : wire'[r][i] = wire[r][j]
        BY <1>3, <2>2
      <3>2. QED
        BY <2>1, <2>2, <3>1, SettledWire
    <2>3. ASSUME NEW t \in Srv \ {home[x]} PROVE <<home[x], Group[x]>> \in known'[t]
      <3>1. <<home[x], Group[x]>> \in known[t]
        BY <2>1 DEF Settled
      <3>2. t = c[2] /\ c[1] = home[x] => Head(wire[c]).key # Group[x]
        BY <1>2, <1>3, <2>1, SettledWire
      <3>3. PICK i : i = <<c[1], Head(wire[c]).key>>
        OBVIOUS
      <3>4. known' = [known EXCEPT ![c[2]] =
                         IF Head(wire[c]).op = "RS+" THEN @ \cup {i} ELSE @ \ {i}]
        BY <3>3 DEF ProcessRemoteSub
      <3>5. t = c[2] => <<home[x], Group[x]>> # i
        BY <3>2, <3>3
      <3>6. QED
        BY <1>1, <3>1, <3>4, <3>5
    <2>4. Settled(x)'
      BY <1>2, <2>1, <2>2, <2>3, SettledNext
    <2>5. OnTheWay(wire, n, x) => OnTheWay(wire', n, x)
      <3>1. ASSUME NEW r \in Routes, NEW i \in DOMAIN wire[r], At(wire, n, r, i)
            PROVE  \E j \in DOMAIN wire'[r] : wire'[r][j] = wire[r][i]
        <4>1. r = c => i # 1
          BY <1>2, <1>3, <3>1 DEF At
        <4>2. QED
          BY <1>3, <3>1, <4>1
      <3>2. QED
        BY <3>1, WayKept
    <2>6. QED
      BY <1>2, <2>1, <2>4, <2>5
  <1>5. QED
    BY <1>2, <1>4, StaysNext

\* A message goes to a server that is to serve x.
LEMMA SentOnTheWay ==
    ASSUME NEW b, Wire(b), NEW s \in Srv, NEW m \in Msgs, NEW T, NEW choice,
           DOMAIN choice \subseteq Groups, NEW W, W = Send(b, s, m, T, choice),
           NEW x \in Subs, NEW t \in Srv, t \in T, t # s,
           IF Group[x] = Plain THEN t = home[x] ELSE Group[x] \in DOMAIN choice /\ choice[Group[x]] = t
    PROVE  OnTheWay(W, m, x)
  <1>1. PICK r \in Routes : r[1] = s /\ r[2] = t
    BY RoutePair
  <1>2. PICK i \in DOMAIN W[r] : At(W, m, r, i) /\ W[r][i].queues = ChosenFor(choice, r[2])
    BY <1>1, SendCopies
  <1>3. IF Group[x] = Plain THEN At(W, m, r, i) /\ r[2] = home[x]
                            ELSE Names(W, m, Group[x], r, i)
    BY <1>1, <1>2 DEF Names, ChosenFor
  <1>4. QED
    BY <1>3 DEF OnTheWay

\* A message is published.
LEMMA PublishStays ==
    ASSUME TypeOK, Stays, NEW s \in Srv, NEW m \in Msgs, NEW me, NEW kind, NEW locals,
           NEW targets, NEW choice, PublishTo(s, m, me, kind, locals, targets, choice),
           Plan(s, me, kind, locals, targets, choice)
    PROVE  Stays'
  <1>1. kind \in {"event", "linear"} /\ locals \subseteq Subs /\ DOMAIN choice \subseteq Groups
        /\ targets \subseteq Srv
    BY DEF Plan
  <1>2. /\ wire' = Send(wire, s, m, targets, choice) /\ sent' = [sent EXCEPT ![m] = kind]
        /\ stable' = [stable EXCEPT ![m] = {x \in Subs : state[x] = "in" /\ x # me /\ Settled(x)}]
        /\ UNCHANGED <<home, state, known>>
    BY DEF PublishTo, subs
  <1>3. /\ Wire(wire) /\ got \in [Msgs -> [Subs -> 0 .. Many]] /\ home \in [Subs -> Srv]
        /\ sent \in [Msgs -> {"no", "event", "linear"}] /\ stable \in [Msgs -> SUBSET Subs]
    BY TypeParts
  <1>4. Given(got, got', m, locals)
    BY <1>3, GotShape DEF PublishTo
  <1>5. /\ \A n \in Msgs, y \in Subs : got[n][y] > 0 => got'[n][y] > 0
        /\ \A y \in Subs : y \in locals => got'[m][y] > 0
    BY <1>3, <1>4, GivenGrows
  <1>6. /\ \A r \in Routes : \A i \in DOMAIN wire[r] : i \in DOMAIN wire'[r] /\ wire'[r][i] = wire[r][i]
        /\ \A r \in Routes : \A i \in DOMAIN wire'[r] :
              wire'[r][i].op = "RMSG" \/ (i \in DOMAIN wire[r] /\ wire'[r][i] = wire[r][i])
    BY <1>1, <1>2, <1>3, SendCopies DEF At
  <1>7. ASSUME NEW x \in Subs, Settled(x) PROVE Settled(x)'
    <2>1. ASSUME NEW r \in Routes, r[1] = home[x], NEW i \in DOMAIN wire'[r],
                 wire'[r][i].op \in {"RS+", "RS-"}
          PROVE  wire'[r][i].key # Group[x]
      <3>1. i \in DOMAIN wire[r] /\ wire'[r][i] = wire[r][i]
        BY <1>6, <2>1
      <3>2. QED
        BY <1>7, <2>1, <3>1, SettledWire
    <2>2. \A t \in Srv \ {home[x]} : <<home[x], Group[x]>> \in known'[t]
      BY <1>2, <1>7 DEF Settled
    <2>3. QED
      BY <1>2, <2>1, <2>2, SettledNext
  <1>8. ASSUME NEW n \in Msgs, n # m, NEW x \in stable'[n]
        PROVE  /\ sent'[n] # "no" /\ state'[x] = "in" /\ Settled(x)'
               /\ OnTheWay(wire', n, x) \/ (sent'[n] = sent[n] /\ Reached(got', n, x))
    <2>1. x \in stable[n] /\ x \in Subs /\ sent'[n] = sent[n] /\ state' = state
      BY <1>2, <1>3, <1>8
    <2>2. /\ sent[n] # "no" /\ state[x] = "in" /\ Settled(x)
          /\ OnTheWay(wire, n, x) \/ Reached(got, n, x)
      BY <2>1 DEF Stays
    <2>3. OnTheWay(wire, n, x) => OnTheWay(wire', n, x)
      BY <1>6, WayKept
    <2>4. Reached(got, n, x) => Reached(got', n, x)
      BY <1>5 DEF Reached
    <2>5. QED
      BY <1>7, <2>1, <2>2, <2>3, <2>4
  <1>9. ASSUME NEW x \in stable'[m]
        PROVE  /\ sent'[m] # "no" /\ state'[x] = "in" /\ Settled(x)'
               /\ OnTheWay(wire', m, x) \/ Reached(got, m, x)'
    <2>1. x \in Subs /\ state[x] = "in" /\ x # me /\ Settled(x)
      BY <1>2, <1>3, <1>9
    <2>2. sent'[m] = kind
      BY <1>2, <1>3
    <2>3. ASSUME NEW y \in locals, kind = "linear" \/ (IF Group[x] = Plain THEN y = x ELSE Group[y] = Group[x])
          PROVE  Reached(got, m, x)'
      <3>1. y \in Subs /\ got'[m][y] > 0
        BY <1>1, <1>5, <2>3
      <3>2. sent'[m] = "event" => IF Group[x] = Plain THEN y = x ELSE Group[y] = Group[x]
        BY <2>2, <2>3
      <3>3. QED
        BY <3>1, <3>2 DEF Reached
    <2>4. ASSUME NEW t \in Srv, t \in targets, t # s,
                 IF Group[x] = Plain THEN t = home[x]
                                     ELSE Group[x] \in DOMAIN choice /\ choice[Group[x]] = t
          PROVE  OnTheWay(wire', m, x)
      BY <1>1, <1>2, <1>3, <2>1, <2>4, SentOnTheWay
    <2>5. \/ kind = "linear" /\ locals # {}
          \/ Group[x] = Plain /\ IF home[x] = s THEN x \in locals ELSE home[x] \in targets
          \/ /\ Group[x] # Plain /\ Group[x] \in DOMAIN choice
             /\ \/ choice[Group[x]] \in locals /\ Group[choice[Group[x]]] = Group[x]
                \/ choice[Group[x]] \in targets /\ choice[Group[x]] # s
      BY <2>1 DEF Plan
    <2>6. OnTheWay(wire', m, x) \/ Reached(got, m, x)'
      <3>1. CASE kind = "linear" /\ locals # {}
        BY <2>3, <3>1
      <3>2. CASE Group[x] = Plain /\ home[x] = s /\ x \in locals
        BY <2>3, <3>2
      <3>3. CASE Group[x] = Plain /\ home[x] # s /\ home[x] \in targets
        BY <1>1, <2>4, <3>3
      <3>4. CASE Group[x] # Plain /\ choice[Group[x]] \in locals /\ Group[choice[Group[x]]] = Group[x]
        BY <2>3, <3>4
      <3>5. CASE /\ Group[x] # Plain /\ Group[x] \in DOMAIN choice
                 /\ choice[Group[x]] \in targets /\ choice[Group[x]] # s
        BY <1>1, <2>4, <3>5
      <3>6. QED
        BY <2>5, <3>1, <3>2, <3>3, <3>4, <3>5
    <2>7. QED
      BY <1>1, <1>2, <1>7, <2>1, <2>2, <2>6
  <1>10. QED
    BY <1>2, <1>8, <1>9, StaysNext

\* A message is read from a route.
LEMMA RoutedStays ==
    ASSUME TypeOK, Stays, NEW c \in Routes, NEW m, NEW qs, NEW b, NEW choice, NEW locals,
           NEW targets, Routed(c, m, qs, b, choice, locals, targets)
    PROVE  Stays'
  <1>1. /\ m \in Msgs /\ qs \in SUBSET Groups /\ 1 \in DOMAIN wire[c] /\ wire[c] # <<>>
        /\ wire[c][1].op = "RMSG" /\ wire[c][1].msg = m /\ wire[c][1].queues = qs
        /\ b = AfterRead(wire, c) /\ Wire(b)
        /\ choice \in QueueChoices(c[2], "ROUTER", qs, NoOne) /\ DOMAIN choice \subseteq qs
        /\ locals = Deliverable(c[2], Plain, NoOne) \cup (Range(choice) \cap Subs)
        /\ targets = RouteTargets(c[2], "ROUTER", choice)
        /\ Given(got, got', m, locals)
        /\ wire' = Send(b, c[2], m, targets, choice)
        /\ UNCHANGED <<home, state, known, sent, told, firsts, stable>>
    BY DEF Routed
  <1>2. /\ Wire(wire) /\ got \in [Msgs -> [Subs -> 0 .. Many]] /\ home \in [Subs -> Srv]
        /\ stable \in [Msgs -> SUBSET Subs] /\ c[2] \in Srv /\ DOMAIN choice \subseteq Groups
        /\ \A x \in Subs : Group[x] \in Keys
    BY <1>1, TypeParts, RoutePair
  <1>3. /\ \A n \in Msgs, y \in Subs : got[n][y] > 0 => got'[n][y] > 0
        /\ \A y \in Subs : y \in locals => got'[m][y] > 0
    <2>1. Given(got, got', m, locals) /\ m \in Msgs /\ got \in [Msgs -> [Subs -> 0 .. Many]]
      BY <1>1, <1>2
    <2>2. QED
      BY <2>1, GivenGrows
  <1>4. /\ \A r \in Routes : r # c => b[r] = wire[r]
        /\ \A i \in DOMAIN b[c] : i + 1 \in DOMAIN wire[c] /\ b[c][i] = wire[c][i + 1]
        /\ \A i \in DOMAIN wire[c] : i # 1 => i - 1 \in DOMAIN b[c] /\ b[c][i - 1] = wire[c][i]
    <2>1. Wire(wire) /\ wire[c] # <<>> /\ b = AfterRead(wire, c)
      BY <1>1, <1>2
    <2>2. QED
      BY <2>1, ReadShape
  <1>5. /\ \A r \in Routes : \A i \in DOMAIN b[r] : i \in DOMAIN wire'[r] /\ wire'[r][i] = b[r][i]
        /\ \A r \in Routes : \A i \in DOMAIN wire'[r] :
              wire'[r][i].op = "RMSG" \/ (i \in DOMAIN b[r] /\ wire'[r][i] = b[r][i])
    <2>1. /\ Wire(b) /\ m \in Msgs /\ c[2] \in Srv /\ DOMAIN choice \subseteq Groups
          /\ wire' = Send(b, c[2], m, targets, choice)
      BY <1>1, <1>2
    <2>2. QED
      BY <2>1, SendCopies DEF At
  <1>6. ASSUME NEW r \in Routes, NEW i \in DOMAIN wire[r], ~(r = c /\ i = 1)
        PROVE  \E j \in DOMAIN wire'[r] : wire'[r][j] = wire[r][i]
    <2>1. \E j \in DOMAIN b[r] : b[r][j] = wire[r][i]
      BY <1>4, <1>6
    <2>2. QED
      BY <1>5, <2>1
  <1>7. ASSUME NEW x \in Subs, Settled(x) PROVE Settled(x)'
    <2>1. ASSUME NEW r \in Routes, r[1] = home[x], NEW i \in DOMAIN wire'[r],
                 wire'[r][i].op \in {"RS+", "RS-"}
          PROVE  wire'[r][i].key # Group[x]
      <3>1. i \in DOMAIN b[r] /\ wire'[r][i] = b[r][i]
        BY <1>5, <2>1
      <3>2. PICK j \in DOMAIN wire[r] : b[r][i] = wire[r][j]
        BY <1>4, <3>1
      <3>3. QED
        BY <1>7, <2>1, <3>1, <3>2, SettledWire
    <2>2. \A t \in Srv \ {home[x]} : <<home[x], Group[x]>> \in known'[t]
      BY <1>1, <1>7 DEF Settled
    <2>3. QED
      BY <1>1, <2>1, <2>2, SettledNext
  <1>8. ASSUME NEW n \in Msgs, NEW x \in stable'[n]
        PROVE  /\ sent'[n] # "no" /\ state'[x] = "in" /\ Settled(x)'
               /\ OnTheWay(wire', n, x) \/ (sent'[n] = sent[n] /\ Reached(got', n, x))
    <2>1. /\ x \in Subs /\ sent[n] # "no" /\ state[x] = "in" /\ Settled(x)
          /\ OnTheWay(wire, n, x) \/ Reached(got, n, x)
      BY <1>1, <1>2, <1>8 DEF Stays
    <2>2. Reached(got, n, x) => Reached(got', n, x)
      BY <1>3 DEF Reached
    <2>3. ASSUME OnTheWay(wire, n, x)
          PROVE  OnTheWay(wire', n, x) \/ Reached(got', n, x)
      <3>1. PICK r \in Routes : \E i \in DOMAIN wire[r] :
               IF Group[x] = Plain THEN At(wire, n, r, i) /\ r[2] = home[x]
                                   ELSE Names(wire, n, Group[x], r, i)
        BY <2>3 DEF OnTheWay
      <3>2. PICK i \in DOMAIN wire[r] :
               IF Group[x] = Plain THEN At(wire, n, r, i) /\ r[2] = home[x]
                                   ELSE Names(wire, n, Group[x], r, i)
        BY <3>1
      <3>3. CASE ~(r = c /\ i = 1)
        <4>1. PICK j \in DOMAIN wire'[r] : wire'[r][j] = wire[r][i]
          BY <1>6, <3>3
        <4>2. IF Group[x] = Plain THEN At(wire', n, r, j) /\ r[2] = home[x]
                                  ELSE Names(wire', n, Group[x], r, j)
          BY <3>2, <4>1 DEF Names, At
        <4>3. QED
          BY <4>2 DEF OnTheWay
      <3>4. CASE r = c /\ i = 1
        <4>0. n = m
          BY <1>1, <3>2, <3>4 DEF Names, At
        <4>1. ASSUME NEW y \in locals, y \in Subs,
                     IF Group[x] = Plain THEN y = x ELSE Group[y] = Group[x]
              PROVE  Reached(got', n, x)
          <5>1. got'[m][y] > 0
            BY <1>3, <4>1
          <5>2. QED
            BY <4>0, <4>1, <5>1 DEF Reached
        <4>2. x # NoOne
          BY <2>1, NoOneIsNoSubscription
        <4>3. CASE Group[x] = Plain
          <5>1. home[x] = c[2]
            BY <3>2, <3>4, <4>3
          <5>2. x \in Deliverable(c[2], Plain, NoOne)
            BY <2>1, <4>2, <4>3, <5>1 DEF Deliverable, Members
          <5>3. QED
            BY <1>1, <2>1, <4>1, <4>3, <5>2
        <4>4. CASE Group[x] # Plain
          <5>1. Group[x] \in SelectedGroups("ROUTER", qs)
            BY <1>1, <3>2, <3>4, <4>4 DEF Names, SelectedGroups
          <5>2. /\ Group[x] \in DOMAIN choice
                /\ \/ /\ choice[Group[x]] \in Range(choice) \cap Subs
                      /\ Group[choice[Group[x]]] = Group[x]
                   \/ choice[Group[x]] \in Range(choice) \cap Srv /\ choice[Group[x]] # c[2]
            <6>1. choice \in QueueChoices(c[2], "ROUTER", qs, NoOne) /\ qs \in SUBSET Groups /\ c[2] \in Srv
              BY <1>1, <1>2
            <6>2. QED
              BY <2>1, <4>2, <5>1, <6>1, ChoiceMade
          <5>3. CASE /\ choice[Group[x]] \in Range(choice) \cap Subs
                     /\ Group[choice[Group[x]]] = Group[x]
            BY <1>1, <4>1, <4>4, <5>3
          <5>4. CASE choice[Group[x]] \in Range(choice) \cap Srv /\ choice[Group[x]] # c[2]
            <6>1. PICK t \in Srv : t = choice[Group[x]] /\ t # c[2] /\ t \in Range(choice)
              BY <5>4
            <6>2. t \in targets
              BY <1>1, <6>1, TargetsShape
            <6>3. Wire(b) /\ wire' = Send(b, c[2], m, targets, choice)
              BY <1>1
            <6>4. m \in Msgs /\ c[2] \in Srv /\ DOMAIN choice \subseteq Groups /\ x \in Subs
              BY <1>1, <1>2, <2>1
            <6>5. OnTheWay(wire', m, x)
              BY <4>4, <5>2, <6>1, <6>2, <6>3, <6>4, SentOnTheWay
            <6>6. QED
              BY <4>0, <6>5
          <5>5. QED
            BY <5>2, <5>3, <5>4
        <4>5. QED
          BY <4>3, <4>4
      <3>5. QED
        BY <3>3, <3>4
    <2>4. QED
      BY <1>1, <1>7, <2>1, <2>2, <2>3
  <1>9. QED
    BY <1>1, <1>8, StaysNext

-----------------------------------------------------------------------------
(* The theorems *)

\* The cluster starts without messages.
LEMMA RoutingInit ==
    ASSUME Init
    PROVE  RoutingInv
  <1>1. home \in [Subs -> Srv]
    BY HomesArePlacements DEF Init
  <1>2. /\ wire = [r \in Routes |-> <<>>] /\ got = [m \in Msgs |-> [x \in Subs |-> 0]]
        /\ sent = [m \in Msgs |-> "no"] /\ told = {} /\ forwarded = {}
        /\ firsts = [m \in Msgs |-> {}] /\ stable = [m \in Msgs |-> {}]
    BY DEF Init
  <1>3. \A r \in Routes : wire[r] = <<>> /\ DOMAIN wire[r] = {}
    BY <1>2
  <1>4. \A m \in Msgs, x \in Subs : got[m][x] = 0
    BY <1>2
  <1>5. TypeOK
    <2>1. got \in [Msgs -> [Subs -> 0 .. Many]]
      BY <1>2 DEF Many
    <2>2. DOMAIN wire = Routes /\ \A r \in Routes : wire[r] \in Seq(Protos)
      BY <1>2
    <2>3. state \in [Subs -> {"new", "in", "dead", "left"}]
      BY DEF Init
    <2>4. /\ known \in [Srv -> SUBSET (Srv \X Keys)]
          /\ \A s \in Srv, k \in Keys : <<s, k>> \notin known[s]
      BY DEF Init
    <2>5. sent \in [Msgs -> {"no", "event", "linear"}]
      BY <1>2
    <2>6. QED
      BY <1>1, <1>2, <2>1, <2>2, <2>3, <2>4, <2>5 DEF TypeOK
  <1>6. Tokens /\ PlainCopies
    <2>1. \A g : MembersOf(g) \subseteq Subs
      BY DEF MembersOf
    <2>2. QED
      BY <1>3, <1>4, <2>1 DEF Tokens, PlainCopies, OneToken, OneCopy
  <1>7. Unpublished /\ Untold
    BY <1>2, <1>3, <1>4 DEF Unpublished, Untold, NoCopy, Nobody
  <1>8. Local /\ Stays
    BY <1>2 DEF Local, Stays
  <1>9. QED
    BY <1>5, <1>6, <1>7, <1>8 DEF RoutingInv

\* Every step keeps the invariant.
LEMMA RoutingStep ==
    ASSUME RoutingInv, [Next]_vars
    PROVE  RoutingInv'
  <1>1. TypeOK /\ Exact /\ Stays
    BY DEF RoutingInv, Exact
  <1>2. SUFFICES TypeOK' /\ Exact' /\ Stays'
    BY DEF RoutingInv, Exact
  <1>3. ASSUME NEW x \in Subs, Subscribe(x) \/ Close(x) \/ Remove(x)
        PROVE  TypeOK' /\ Exact' /\ Stays'
    BY <1>1, <1>3, SubscriberType, SubscriberExact, SubscriberStays
  <1>4. ASSUME NEW s \in Srv, NEW m \in Msgs, NEW me, NEW kind, NEW locals, NEW targets, NEW choice,
               PublishTo(s, m, me, kind, locals, targets, choice),
               Plan(s, me, kind, locals, targets, choice)
        PROVE  TypeOK' /\ Exact' /\ Stays'
    BY <1>1, <1>4, PublishType, PublishExact, PublishStays
  <1>5. ASSUME NEW s \in Srv, NEW m \in Msgs, NEW me, PublishEvent(s, m, me)
        PROVE  TypeOK' /\ Exact' /\ Stays'
    <2>1. PICK choice \in QueueChoices(s, "CLIENT", {}, me) :
             PublishTo(s, m, me, "event", Deliverable(s, Plain, me) \cup (Range(choice) \cap Subs),
                       RouteTargets(s, "CLIENT", choice), choice)
      BY <1>5 DEF PublishEvent
    <2>2. Plan(s, me, "event", Deliverable(s, Plain, me) \cup (Range(choice) \cap Subs),
               RouteTargets(s, "CLIENT", choice), choice)
      BY <1>1, EventPlan
    <2>3. QED
      BY <1>4, <2>1, <2>2
  <1>6. ASSUME NEW s \in Srv, NEW m \in Msgs, NEW me, PublishLinearToPlain(s, m, me)
        PROVE  TypeOK' /\ Exact' /\ Stays'
    <2>1. PICK x \in Deliverable(s, Plain, me) :
             PublishTo(s, m, me, "linear", {x}, LinearTargets(s, {x}, <<>>), <<>>)
      BY <1>6 DEF PublishLinearToPlain
    <2>2. Plan(s, me, "linear", {x}, LinearTargets(s, {x}, <<>>), <<>>)
      BY <1>1, LinearPlainPlan
    <2>3. QED
      BY <1>4, <2>1, <2>2
  <1>7. ASSUME NEW s \in Srv, NEW m \in Msgs, NEW me, PublishLinear(s, m, me)
        PROVE  TypeOK' /\ Exact' /\ Stays'
    <2>1. PICK choice \in QueueChoices(s, "CLIENT", {}, me) :
             LET locals == Range(choice) \cap Subs IN
             PublishTo(s, m, me, "linear", locals, LinearTargets(s, locals, choice), choice)
      BY <1>7 DEF PublishLinear
    <2>2. PICK locals : locals = Range(choice) \cap Subs
      OBVIOUS
    <2>3. PublishTo(s, m, me, "linear", locals, LinearTargets(s, locals, choice), choice)
      BY <2>1, <2>2
    <2>4. Deliverable(s, Plain, me) = {}
      BY <1>7 DEF PublishLinear
    <2>5. Plan(s, me, "linear", locals, LinearTargets(s, locals, choice), choice)
      BY <1>1, <2>2, <2>4, LinearPlan
    <2>6. QED
      BY <1>4, <2>3, <2>5
  <1>8. ASSUME NEW c \in Routes, ReadRoute(c)
        PROVE  TypeOK' /\ Exact' /\ Stays'
    <2>1. CASE ProcessRemoteSub(c)
      BY <1>1, <2>1, RemoteSubType, RemoteSubExact, RemoteSubStays
    <2>2. CASE ProcessRoutedMsg(c)
      <3>1. PICK m, qs, b, choice, locals, targets : Routed(c, m, qs, b, choice, locals, targets)
        BY <1>1, <2>2, RoutedShape
      <3>2. TypeOK'
        BY <1>1, <3>1, RoutedType
      <3>3. Exact'
        BY <1>1, <3>1, RoutedExact
      <3>4. Stays'
        BY <1>1, <3>1, RoutedStays
      <3>5. QED
        BY <3>2, <3>3, <3>4
    <2>3. QED
      BY <1>8, <2>1, <2>2 DEF ReadRoute
  <1>9. CASE UNCHANGED vars
    <2>1. UNCHANGED <<home, state, known, wire, sent, got, told, forwarded, firsts, stable>>
      BY <1>9 DEF vars, subs, history
    <2>2. TypeOK'
      BY <1>1, <2>1 DEF TypeOK
    <2>3. Exact'
      BY <1>1, <2>1, QuietExact
    <2>4. \A x : Settled(x) => Settled(x)'
      BY <2>1 DEF Settled
    <2>5. Stays'
      <3>1. \A n \in Msgs : \A x \in stable'[n] :
                /\ sent'[n] # "no" /\ state'[x] = "in" /\ Settled(x)'
                /\ \/ OnTheWay(wire', n, x)
                   \/ sent'[n] = sent[n] /\ Reached(got', n, x)
        BY <1>1, <2>1, <2>4 DEF Stays
      <3>2. QED
        BY <2>1, <3>1, StaysNext
    <2>6. QED
      BY <2>2, <2>3, <2>5
  <1>10. QED
    BY <1>3, <1>5, <1>6, <1>7, <1>8, <1>9 DEF Next

(***************************************************************************)
(* The invariant holds in every reachable state of every cluster.          *)
(***************************************************************************)
THEOREM RoutingKept == Spec => []RoutingInv
  <1>1. Init => RoutingInv
    BY RoutingInit
  <1>2. RoutingInv /\ [Next]_vars => RoutingInv'
    BY RoutingStep
  <1>3. QED
    BY <1>1, <1>2, PTL DEF Spec

\* A message that is on no route has no copies, and conversely.
LEMMA CopiesEmpty ==
    ASSUME NEW m
    PROVE  NoCopy(wire, m) <=> Copies(m) = {}
  BY DEF NoCopy, Copies, At

\* The copies that some subscribers got, counted.
Marks(m, X) == {c \in X \X (1 .. Many) : c[2] <= got[m][c[1]]}

(***************************************************************************)
(* processMsgResults gives a message to at most one member of each queue   *)
(* group in the whole cluster, and once to a plain subscriber unless a     *)
(* server sent the message on.                                             *)
(***************************************************************************)
THEOREM DeliversAtMostOnce == Spec => []AtMostOnce
  <1>1. ASSUME RoutingInv PROVE AtMostOnce
    <2>0. TypeOK /\ got \in [Msgs -> [Subs -> 0 .. Many]]
      BY <1>1 DEF RoutingInv, TypeOK
    <2>1. ASSUME NEW m \in Msgs, NEW g \in Groups PROVE Received(m, MembersOf(g)) <= 1
      <3>1. OneToken(wire, got, m, g)
        BY <1>1 DEF RoutingInv, Tokens
      <3>2. ASSUME NEW c \in Marks(m, MembersOf(g))
            PROVE  /\ c[1] \in MembersOf(g) /\ c[2] = 1 /\ got[m][c[1]] > 0
                   /\ c = <<c[1], c[2]>>
        <4>1. c[1] \in MembersOf(g) /\ c[2] \in 1 .. Many /\ c[2] <= got[m][c[1]] /\ c = <<c[1], c[2]>>
          BY <3>2 DEF Marks
        <4>2. got[m][c[1]] \in 0 .. Many
          BY <2>0, <4>1 DEF MembersOf
        <4>3. got[m][c[1]] <= 1
          BY <3>1, <4>1 DEF OneToken
        <4>4. QED
          BY <4>1, <4>2, <4>3 DEF Many
      <3>3. \A c, d \in Marks(m, MembersOf(g)) : c = d
        BY <3>1, <3>2 DEF OneToken
      <3>4. Marks(m, MembersOf(g)) = {} \/ \E c : Marks(m, MembersOf(g)) = {c}
        BY <3>3
      <3>5. Cardinality(Marks(m, MembersOf(g))) <= 1
        <4>1. CASE Marks(m, MembersOf(g)) = {}
          <5>1. Cardinality(Marks(m, MembersOf(g))) = 0
            BY <4>1, FS_EmptySet, Zenon
          <5>2. QED
            BY <5>1
        <4>2. CASE \E c : Marks(m, MembersOf(g)) = {c}
          <5>1. Cardinality(Marks(m, MembersOf(g))) = 1
            BY <4>2, FS_Singleton, Zenon
          <5>2. QED
            BY <5>1
        <4>3. QED
          BY <3>4, <4>1, <4>2
      <3>6. QED
        BY <3>5 DEF Received, Marks
    <2>2. PlainOnceDirect
      BY <1>1 DEF RoutingInv, PlainCopies, OneCopy, PlainOnceDirect
    <2>3. QED
      BY <2>0, <2>1, <2>2 DEF AtMostOnce, GroupOnce
  <1>2. QED
    BY <1>1, RoutingKept, PTL

(***************************************************************************)
(* A linear event that the publishing server delivers itself is on no      *)
(* route then or later, and only those subscribers ever have it.           *)
(***************************************************************************)
THEOREM LinearEventsStay == Spec => []LinearStaysLocal
  <1>1. ASSUME RoutingInv PROVE LinearStaysLocal
    <2>1. SUFFICES ASSUME NEW m \in Msgs, sent[m] = "linear", firsts[m] # {}
                   PROVE  /\ Copies(m) = {}
                          /\ \A x \in Subs : got[m][x] = IF x \in firsts[m] THEN 1 ELSE 0
                          /\ (\E x \in firsts[m] : Group[x] = Plain) => Cardinality(firsts[m]) = 1
      BY DEF LinearStaysLocal
    <2>2. /\ NoCopy(wire, m)
          /\ \A x \in Subs : got[m][x] = IF x \in firsts[m] THEN 1 ELSE 0
          /\ \A x, y \in firsts[m] : Group[x] = Plain => x = y
      BY <1>1, <2>1 DEF RoutingInv, Local
    <2>3. ASSUME NEW x \in firsts[m], Group[x] = Plain PROVE Cardinality(firsts[m]) = 1
      <3>1. firsts[m] = {x}
        BY <2>2, <2>3
      <3>2. QED
        BY <3>1, FS_Singleton
    <2>4. QED
      BY <2>2, <2>3, CopiesEmpty
  <1>2. QED
    BY <1>1, RoutingKept, PTL

(***************************************************************************)
(* "No responders" is sent only for a message that nobody has or ever      *)
(* gets.                                                                   *)
(***************************************************************************)
THEOREM NoRespondersIsTrue == Spec => []NoRespondersTrue
  <1>1. ASSUME RoutingInv PROVE NoRespondersTrue
    <2>1. SUFFICES ASSUME NEW m \in told PROVE Received(m, Subs) = 0 /\ Copies(m) = {}
      BY DEF NoRespondersTrue
    <2>2. NoCopy(wire, m) /\ Nobody(got, m)
      BY <1>1, <2>1 DEF RoutingInv, Untold
    <2>3. Marks(m, Subs) = {}
      <3>1. SUFFICES ASSUME NEW c \in Marks(m, Subs) PROVE FALSE
        OBVIOUS
      <3>2. c[1] \in Subs /\ c[2] \in 1 .. Many /\ c[2] <= got[m][c[1]]
        BY <3>1 DEF Marks
      <3>3. got[m][c[1]] = 0
        BY <2>2, <3>2 DEF Nobody
      <3>4. QED
        BY <3>2, <3>3 DEF Many
    <2>4. QED
      BY <2>2, <2>3, CopiesEmpty, FS_EmptySet DEF Received, Marks
  <1>2. QED
    BY <1>1, RoutingKept, PTL

\* Someone of X got m.
LEMMA SomeoneReceived ==
    ASSUME TypeOK, NEW m \in Msgs, NEW X \in SUBSET Subs, NEW y \in X, got[m][y] > 0
    PROVE  Received(m, X) >= 1
  <1>1. got[m][y] \in 0 .. Many
    BY DEF TypeOK
  <1>2. <<y, 1>> \in Marks(m, X)
    BY <1>1 DEF Marks, Many
  <1>3. IsFiniteSet(Marks(m, X))
    <2>1. IsFiniteSet(X)
      BY FinitelyManySubscriptions, FS_Subset
    <2>2. IsFiniteSet(1 .. Many)
      <3>1. 1 \in Int /\ Many \in Int
        BY DEF Many
      <3>2. QED
        BY <3>1, FS_Interval, Zenon
    <2>3. IsFiniteSet(X \X (1 .. Many))
      BY <2>1, <2>2, FS_Product
    <2>4. QED
      BY <2>3, FS_Subset DEF Marks
  <1>4. Cardinality(Marks(m, X)) \in Nat /\ Cardinality(Marks(m, X)) # 0
    BY <1>2, <1>3, FS_CardinalityType, FS_EmptySet
  <1>5. QED
    BY <1>4 DEF Received, Marks

(***************************************************************************)
(* Once a message has left the routes, everyone who was known to the       *)
(* cluster when it was published, and stayed, is served: a plain           *)
(* subscriber itself, a queue group by one of its members, also when the   *)
(* server chosen first had lost its member; a linear event has reached     *)
(* someone.                                                                *)
(***************************************************************************)
THEOREM StableAreServed == Spec => []StableServed
  <1>1. ASSUME RoutingInv PROVE StableServed
    <2>0. TypeOK
      BY <1>1 DEF RoutingInv
    <2>1. ASSUME NEW m \in Msgs, Copies(m) = {}, NEW x \in stable[m]
          PROVE  /\ sent[m] = "event" =>
                       Received(m, IF Group[x] = Plain THEN {x} ELSE MembersOf(Group[x])) >= 1
                 /\ sent[m] = "linear" => Received(m, Subs) >= 1
      <3>1. x \in Subs
        BY <2>0, <2>1 DEF TypeOK
      <3>2. NoCopy(wire, m)
        BY <2>1, CopiesEmpty
      <3>3. ~OnTheWay(wire, m, x)
        BY <3>2 DEF OnTheWay, NoCopy, Names
      <3>4. Reached(got, m, x)
        BY <1>1, <2>1, <3>3 DEF RoutingInv, Stays
      <3>5. PICK y \in Subs : /\ got[m][y] > 0
                              /\ sent[m] = "event" => IF Group[x] = Plain THEN y = x
                                                                          ELSE Group[y] = Group[x]
        BY <3>4 DEF Reached
      <3>6. Received(m, Subs) >= 1
        BY <2>0, <3>5, SomeoneReceived
      <3>7. ASSUME sent[m] = "event"
            PROVE  Received(m, IF Group[x] = Plain THEN {x} ELSE MembersOf(Group[x])) >= 1
        <4>1. PICK X \in SUBSET Subs : X = IF Group[x] = Plain THEN {x} ELSE MembersOf(Group[x])
          BY <3>1 DEF MembersOf
        <4>2. y \in X
          BY <3>5, <3>7, <4>1 DEF MembersOf
        <4>3. Received(m, X) >= 1
          BY <2>0, <3>5, <4>2, SomeoneReceived
        <4>4. QED
          BY <4>1, <4>3
      <3>8. QED
        BY <3>6, <3>7
    <2>2. QED
      BY <2>1 DEF StableServed
  <1>2. QED
    BY <1>1, RoutingKept, PTL

=============================================================================
