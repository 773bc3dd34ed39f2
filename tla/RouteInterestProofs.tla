------------------------ MODULE RouteInterestProofs ------------------------
(***************************************************************************)
(* What RouteInterest promises for any number of subscribers, publishers,  *)
(* messages and route connections.                                         *)
(***************************************************************************)
EXTENDS RouteInterest, TLAPS

(***************************************************************************)
(* Type correctness: every variable of the interest protocol keeps its     *)
(* type through every operation of the subscribers, of the publishers and  *)
(* of the route.                                                           *)
(***************************************************************************)
LEMMA TypeStep == TypeOK /\ [Next]_vars => TypeOK'
<1> SUFFICES ASSUME TypeOK, [Next]_vars PROVE TypeOK'
  OBVIOUS
<1>0. /\ \A s \in Subs : <<"read", s>> \in Goroutines
      /\ \A s \in Subs : <<"close", s>> \in Goroutines
      /\ \A p \in Publishers : <<"pub", p>> \in Goroutines
  BY DEF Goroutines, Readers, Closers, Pubs
<1> USE DEF TypeOK, PCs, subscription, account, route, local, work, NoSub
<1>1. ASSUME NEW s \in Subs, Subscribe(s) PROVE TypeOK'
  BY <1>0, <1>1 DEF Subscribe, WorkFor
<1>2. ASSUME NEW s \in Subs, UnsubLookup(s) PROVE TypeOK'
  BY <1>0, <1>2 DEF UnsubLookup, WorkFor
<1>3. ASSUME NEW s \in Subs, CloseConnection(s) PROVE TypeOK'
  <2>0. /\ gone' \in [Subs -> BOOLEAN]
        /\ UNCHANGED <<isq, insubs, nm, n, to, account, route, raced>>
    BY <1>3 DEF CloseConnection
  <2>1. CASE insubs[s]
    <3>0. /\ max' = [max EXCEPT ![s] = 0]
          /\ state' = [state EXCEPT ![s] = "closed"]
      BY <1>3, <2>1 DEF CloseConnection
    <3>1. /\ max' \in [Subs -> Nat]
          /\ state' \in [Subs -> {"new", "open", "closed"}]
      BY <3>0
    <3>2. /\ WorkFor(<<"close", s>>, s, -1)
          /\ pc' = [pc EXCEPT ![<<"close", s>>] = "map"]
      BY <1>3, <2>1 DEF CloseConnection
    <3>3. /\ pc' \in [Goroutines -> PCs]
          /\ sub' \in [Goroutines -> Subs \cup {NoSub}]
          /\ delta' \in [Goroutines -> {-1, 0, 1}]
          /\ \A g \in Goroutines : pc'[g] = "unsub" => sub'[g] \in Subs
      BY <1>0, <3>2 DEF WorkFor
    <3> QED
      BY <2>0, <3>1, <3>3
  <2>2. CASE ~insubs[s]
    BY <1>3, <2>2 DEF CloseConnection
  <2> QED
    BY <2>1, <2>2
<1>4. ASSUME NEW s \in Subs, ClearSubs(s) PROVE TypeOK'
  BY <1>4 DEF ClearSubs
<1>5. ASSUME NEW s \in Subs, NEW m \in 1 .. MaxMsgs, UnsubAfter(s, m)
      PROVE  TypeOK'
  BY <1>5, BoundsAreNaturals DEF UnsubAfter
<1>6. ASSUME NEW p \in Publishers, NEW s \in Subs, DeliverMsg(p, s)
      PROVE  TypeOK'
  <2>1. CASE max[s] > 0 /\ nm[s] + 1 >= max[s]
    <3>1. /\ nm' \in [Subs -> Nat]
          /\ UNCHANGED <<isq, state, insubs, max, gone, n, to, account, route, raced>>
      BY <1>6 DEF DeliverMsg
    <3>2. /\ pc' \in [Goroutines -> PCs]
          /\ sub' \in [Goroutines -> Subs \cup {NoSub}]
          /\ delta' \in [Goroutines -> {-1, 0, 1}]
          /\ \A g \in Goroutines : pc'[g] = "unsub" => sub'[g] \in Subs
      BY <1>0, <1>6, <2>1 DEF DeliverMsg, WorkFor
    <3> QED
      BY <3>1, <3>2
  <2>2. CASE ~(max[s] > 0 /\ nm[s] + 1 >= max[s])
    BY <1>6, <2>2 DEF DeliverMsg
  <2> QED
    BY <2>1, <2>2
<1>7. ASSUME NEW g \in Goroutines, Unsubscribe(g) PROVE TypeOK'
  BY <1>7 DEF Unsubscribe
<1>8. ASSUME NEW g \in Goroutines, UpdateMap(g) PROVE TypeOK'
  <2>1. MapCount(delta[g]) \in Nat
    BY <1>8 DEF UpdateMap, MapCount
  <2>2. lqws' \in Nat
    BY <1>8 DEF UpdateMap
  <2>3. RacedByUpdate \in BOOLEAN
    BY DEF RacedByUpdate
  <2>4. CASE NeedsUpdate(delta[g])
    BY <1>8, <2>1, <2>2, <2>3, <2>4 DEF UpdateMap
  <2>5. CASE ~NeedsUpdate(delta[g])
    <3>1. /\ rm' \in Nat
          /\ UNCHANGED <<isq, subscription, to, route, n, raced>>
      BY <1>8, <2>1, <2>5 DEF UpdateMap
    <3>2. /\ pc' \in [Goroutines -> PCs]
          /\ sub' \in [Goroutines -> Subs \cup {NoSub}]
          /\ delta' \in [Goroutines -> {-1, 0, 1}]
          /\ \A h \in Goroutines : pc'[h] = "unsub" => sub'[h] \in Subs
      BY <1>8, <2>5 DEF UpdateMap, WorkFor
    <3> QED
      BY <2>2, <3>1, <3>2
  <2> QED
    BY <2>4, <2>5
<1>9. ASSUME NEW g \in Goroutines, GatherRoutes(g) PROVE TypeOK'
  BY <1>9 DEF GatherRoutes
<1>10. ASSUME NEW g \in Goroutines, SendPlain(g) PROVE TypeOK'
  <2>1. wire' \in Seq(Nat)
    BY <1>10 DEF SendPlain, Enqueue
  <2> QED
    BY <1>10, <2>1 DEF SendPlain, Return, WorkFor
<1>11. ASSUME NEW g \in Goroutines, SendQueue(g) PROVE TypeOK'
  <2>1. wire' \in Seq(Nat) /\ lqws' \in Nat
    <3>1. CASE lqws > 0 /\ lqws = rm
      BY <1>11, <3>1 DEF SendQueue, CurrentWeight
    <3>2. CASE ~(lqws > 0 /\ lqws = rm)
      <4>1. Enqueue(g, rm) /\ lqws' \in Nat
        BY <1>11, <3>2 DEF SendQueue, CurrentWeight
      <4> QED
        BY <4>1 DEF Enqueue
    <3> QED
      BY <3>1, <3>2
  <2> QED
    BY <1>11, <2>1 DEF SendQueue, Return, WorkFor
<1>12. CASE AddRoute
  BY <1>12 DEF AddRoute, RacedByRoute
<1>13. CASE CloseRoute
  <2>1. wire' \in Seq(Nat)
    BY <1>13 DEF CloseRoute
  <2>2. up' \in BOOLEAN
    BY <1>13 DEF CloseRoute
  <2>3. remote' \in Nat
    BY <1>13 DEF CloseRoute
  <2>4. UNCHANGED <<isq, subscription, pc, local, account, conn, raced>>
    BY <1>13 DEF CloseRoute
  <2> QED
    BY <2>1, <2>2, <2>3, <2>4
<1>14. CASE RemoteProcess
  BY <1>14 DEF RemoteProcess, RemoteWeight
<1>15. CASE UNCHANGED vars
  BY <1>15 DEF vars
<1> HIDE DEF TypeOK
<1> QED
  BY <1>1, <1>2, <1>3, <1>4, <1>5, <1>6, <1>7, <1>8, <1>9, <1>10, <1>11,
     <1>12, <1>13, <1>14, <1>15 DEF Next, Update

\* Type correctness of the announcement of interest, for any clients and bounds.
THEOREM TypeCorrect == Spec => []TypeOK
<1>1. Init => TypeOK
  <2> SUFFICES ASSUME Init PROVE TypeOK
    OBVIOUS
  <2>1. /\ isq \in BOOLEAN /\ up \in BOOLEAN /\ raced \in BOOLEAN
        /\ insubs \in [Subs -> BOOLEAN] /\ gone \in [Subs -> BOOLEAN]
    BY DEF Init
  <2>2. /\ state \in [Subs -> {"new", "open", "closed"}]
        /\ pc \in [Goroutines -> PCs]
        /\ sub \in [Goroutines -> Subs \cup {NoSub}]
        /\ \A g \in Goroutines : pc[g] = "unsub" => sub[g] \in Subs
    BY DEF Init, PCs, NoSub
  <2>3. /\ max \in [Subs -> Nat] /\ nm \in [Subs -> Nat]
        /\ delta \in [Goroutines -> {-1, 0, 1}]
        /\ n \in [Goroutines -> Nat] /\ to \in [Goroutines -> Nat]
        /\ rm \in Nat /\ lqws \in Nat /\ conn \in Nat /\ remote \in Nat
        /\ wire \in Seq(Nat)
    BY DEF Init
  <2> QED
    BY <2>1, <2>2, <2>3 DEF TypeOK
<1> QED
  BY <1>1, TypeStep, PTL DEF Spec

-----------------------------------------------------------------------------
(* What is sent last, across the ways the connection changes.              *)

\* A protocol put on the wire is what the peer will know last.
LEMMA LastAppended ==
  ASSUME NEW w \in Nat, wire \in Seq(Nat), wire' = Append(wire, w)
  PROVE  LastSent' = w
BY DEF LastSent

\* Reading the connection does not change what the peer will know last.
LEMMA LastProcessed ==
  ASSUME wire \in Seq(Nat), wire # <<>>, RemoteProcess
  PROVE  LastSent' = LastSent
<1>1. wire' = Tail(wire) /\ remote' = Head(wire)
  BY DEF RemoteProcess, RemoteWeight
<1>2. CASE Len(wire) = 1
  <2>1. wire' = <<>> /\ Head(wire) = wire[Len(wire)]
    BY <1>1, <1>2
  <2> QED
    BY <1>1, <2>1 DEF LastSent
<1>3. CASE Len(wire) # 1
  <2>0. Len(wire) \in Nat /\ Len(wire) > 1
    BY <1>3
  <2>1. Len(wire') = Len(wire) - 1 /\ wire'[Len(wire')] = wire[Len(wire)]
    BY <1>1, <2>0
  <2>2. wire' # <<>>
    BY <2>0, <2>1
  <2> QED
    BY <2>1, <2>2 DEF LastSent
<1> QED
  BY <1>2, <1>3

(***************************************************************************)
(* A step that leaves the account, the route and the updates in flight     *)
(* alone preserves the invariant.                                          *)
(***************************************************************************)
LEMMA FrameStep ==
  ASSUME InterestInv,
         UNCHANGED <<isq, n, to, account, route, raced>>,
         \A g \in Goroutines :
            \/ pc'[g] = pc[g]
            \/ pc[g] \notin {"gather", "send"} /\ pc'[g] \notin {"gather", "send"}
  PROVE  InterestInv'
<1>1. InFlight' = InFlight
  BY DEF InFlight
<1>2. /\ \A g \in Goroutines : pc'[g] = "send" <=> pc[g] = "send"
      /\ \A g \in InFlight : g \in Goroutines
  BY DEF InFlight
<1>3. LastSent' = LastSent
  BY DEF LastSent, route
<1>4. UNCHANGED <<rm, lqws, up, conn, wire, remote>>
  BY DEF account, route
<1>5. QueueInv'
  BY <1>1, <1>2, <1>3, <1>4 DEF InterestInv, QueueInv
<1>6. PlainInv'
  BY <1>1, <1>2, <1>3, <1>4 DEF InterestInv, PlainInv
<1>7. ConnInv'
  BY <1>4 DEF InterestInv, ConnInv
<1> QED
  BY <1>5, <1>6, <1>7 DEF InterestInv

-----------------------------------------------------------------------------
(* One lemma for each step that the invariant is about.                    *)

\* The section under acc.mu: rm and lqws change, an update may come into flight.
LEMMA UpdateMapStep ==
  ASSUME TypeOK, InterestInv, NEW g \in Goroutines, UpdateMap(g)
  PROVE  InterestInv'
<1> DEFINE d == delta[g]
<1>1. /\ d \in {-1, 0, 1} /\ rm \in Nat /\ lqws \in Nat
      /\ pc[g] = "map" /\ rm' = MapCount(d)
      /\ pc \in [Goroutines -> PCs] /\ n \in [Goroutines -> Nat]
  BY DEF TypeOK, UpdateMap
<1>2. UNCHANGED <<isq, to, up, conn, wire, remote>> /\ LastSent' = LastSent
  BY DEF UpdateMap, route, LastSent
<1>3. g \notin InFlight
  BY <1>1 DEF InFlight
<1>4. ConnInv'
  BY <1>2 DEF ConnInv, InterestInv
<1>5. CASE isq
  <2>1. NeedsUpdate(d)
    BY <1>5 DEF NeedsUpdate
  <2>2. /\ pc' = [pc EXCEPT ![g] = "gather"]
        /\ raced' = RacedByUpdate
        /\ lqws' = IF isq /\ rm > 0 /\ rm + d <= 0 THEN 0 ELSE lqws
    BY <2>1 DEF UpdateMap
  <2>3. ~raced' => ~raced
    BY <2>2 DEF RacedByUpdate
  <2>4. g \in InFlight'
    BY <1>1, <2>2 DEF InFlight
  <2>5. lqws' > 0 => lqws' = lqws /\ rm' > 0
    BY <1>1, <1>5, <2>2 DEF MapCount, InterestInv, QueueInv
  <2>6. \A h \in Goroutines : pc'[h] = "send" => pc[h] = "send"
    BY <1>1, <2>2
  <2>7. QueueInv'
    BY <1>2, <1>5, <2>3, <2>4, <2>5, <2>6 DEF InterestInv, QueueInv
  <2>8. PlainInv'
    BY <1>2, <1>5 DEF PlainInv
  <2> QED
    BY <1>4, <2>7, <2>8 DEF InterestInv
<1>6. CASE ~isq /\ NeedsUpdate(d)
  <2>1. /\ pc' = [pc EXCEPT ![g] = "gather"]
        /\ n' = [n EXCEPT ![g] = MapCount(d)]
        /\ raced' = RacedByUpdate
    BY <1>6 DEF UpdateMap
  <2>2. ~raced' => InFlight = {}
    BY <1>6, <2>1 DEF RacedByUpdate
  <2>3. InFlight' = InFlight \cup {g}
    BY <1>1, <2>1 DEF InFlight
  <2>4. n'[g] = rm' /\ pc'[g] = "gather"
    BY <1>1, <2>1
  <2>5. PlainInv'
    BY <1>2, <1>6, <2>2, <2>3, <2>4 DEF PlainInv
  <2>6. QueueInv'
    BY <1>2, <1>6 DEF QueueInv
  <2> QED
    BY <1>4, <2>5, <2>6 DEF InterestInv
<1>7. CASE ~isq /\ ~NeedsUpdate(d)
  <2>1. pc' = [pc EXCEPT ![g] = "idle"] /\ UNCHANGED <<n, raced>>
    BY <1>7 DEF UpdateMap
  <2>2. InFlight' = InFlight
    BY <1>1, <2>1 DEF InFlight
  <2>3. rm' > 0 <=> rm > 0
    BY <1>1, <1>7 DEF NeedsUpdate, MapCount
  <2>4. \A h \in InFlight : h \in Goroutines /\ pc'[h] = pc[h]
    BY <1>1, <1>3, <2>1 DEF InFlight
  <2>5. PlainInv'
    BY <1>2, <1>7, <2>1, <2>2, <2>3, <2>4 DEF InterestInv, PlainInv
  <2>6. QueueInv'
    BY <1>2, <1>7 DEF QueueInv
  <2> QED
    BY <1>4, <2>5, <2>6 DEF InterestInv
<1> QED
  BY <1>5, <1>6, <1>7

\* The section under s.mu: the update learns of the registered route.
LEMMA GatherStep ==
  ASSUME TypeOK, InterestInv, NEW g \in Goroutines, GatherRoutes(g)
  PROVE  InterestInv'
<1>1. /\ pc[g] = "gather" /\ pc' = [pc EXCEPT ![g] = "send"]
      /\ to' = [to EXCEPT ![g] = IF up THEN conn ELSE 0]
      /\ pc \in [Goroutines -> PCs] /\ to \in [Goroutines -> Nat] /\ conn \in Nat
      /\ UNCHANGED <<isq, n, rm, lqws, up, conn, wire, remote, raced>>
  BY DEF TypeOK, GatherRoutes, account, route
<1>2. InFlight' = InFlight /\ g \in InFlight /\ LastSent' = LastSent
  BY <1>1 DEF InFlight, LastSent
<1>3. up => to'[g] = conn
  BY <1>1
<1>4. \A h \in Goroutines : h # g => pc'[h] = pc[h] /\ to'[h] = to[h]
  BY <1>1
<1>5. QueueInv'
  BY <1>1, <1>2, <1>3, <1>4 DEF InterestInv, QueueInv
<1>6. PlainInv'
  BY <1>1, <1>2, <1>3 DEF InterestInv, PlainInv
<1>7. ConnInv'
  BY <1>1, <1>4 DEF InterestInv, ConnInv
<1> QED
  BY <1>5, <1>6, <1>7 DEF InterestInv

\* A plain key's update is put on the wire, or dropped with its route.
LEMMA SendPlainStep ==
  ASSUME TypeOK, InterestInv, NEW g \in Goroutines, SendPlain(g)
  PROVE  InterestInv'
<1> DEFINE w == IF n[g] > 0 THEN 1 ELSE 0
<1>1. /\ pc[g] = "send" /\ ~isq
      /\ wire' = IF up /\ to[g] = conn THEN Append(wire, w) ELSE wire
      /\ pc' = [pc EXCEPT ![g] = "idle"] /\ n' = [n EXCEPT ![g] = 0]
      /\ to' = [to EXCEPT ![g] = 0]
      /\ UNCHANGED <<isq, rm, lqws, up, conn, remote, raced>>
  BY DEF SendPlain, Return, Enqueue, account
<1>2. /\ pc \in [Goroutines -> PCs] /\ to \in [Goroutines -> Nat]
      /\ n \in [Goroutines -> Nat] /\ conn \in Nat
      /\ wire \in Seq(Nat) /\ rm \in Nat
  BY DEF TypeOK
<1>3. InFlight' = InFlight \ {g} /\ g \in InFlight
  BY <1>1, <1>2 DEF InFlight
<1>4. ASSUME ~raced PROVE InFlight' = {} /\ (n[g] > 0 <=> rm > 0) /\ InFlight = {g}
  BY <1>1, <1>3, <1>4 DEF InterestInv, PlainInv
<1>5. ASSUME ~raced, up PROVE LastSent' > 0 <=> rm > 0
  <2>1. CASE to[g] = conn
    <3>1. LastSent' = w
      BY <1>1, <1>2, <1>5, <2>1, LastAppended
    <3> QED
      BY <1>4, <1>5, <3>1
  <2>2. CASE to[g] # conn
    <3>1. LastSent' = LastSent
      BY <1>1, <2>2 DEF LastSent
    <3>2. \A h \in InFlight : pc[h] = "send" /\ to[h] # conn
      BY <1>1, <1>4, <1>5, <2>2
    <3> QED
      BY <1>1, <1>5, <3>1, <3>2 DEF InterestInv, PlainInv
  <2> QED
    BY <2>1, <2>2
<1>6. PlainInv'
  BY <1>1, <1>4, <1>5 DEF PlainInv
<1>7. QueueInv'
  BY <1>1 DEF QueueInv
<1>8. ConnInv'
  BY <1>1, <1>2 DEF InterestInv, ConnInv
<1> QED
  BY <1>6, <1>7, <1>8 DEF InterestInv

\* A queue key's update sends the weight rm has now, or nothing.
LEMMA SendQueueStep ==
  ASSUME TypeOK, InterestInv, NEW g \in Goroutines, SendQueue(g)
  PROVE  InterestInv'
<1>1. /\ pc[g] = "send" /\ isq
      /\ pc' = [pc EXCEPT ![g] = "idle"] /\ n' = [n EXCEPT ![g] = 0]
      /\ to' = [to EXCEPT ![g] = 0]
      /\ UNCHANGED <<isq, rm, up, conn, remote, raced>>
  BY DEF SendQueue, Return
<1>2. /\ pc \in [Goroutines -> PCs] /\ to \in [Goroutines -> Nat]
      /\ conn \in Nat /\ wire \in Seq(Nat) /\ rm \in Nat /\ lqws \in Nat
  BY DEF TypeOK
<1>3. /\ lqws > 0 => rm > 0
      /\ up /\ ~raced => (lqws > 0 => LastSent = lqws) /\ to[g] = conn
  BY <1>1 DEF InterestInv, QueueInv
<1>4. /\ lqws' = rm
      /\ up /\ ~raced => LastSent' = rm
      /\ ~up => wire' = wire
  <2>1. CASE lqws > 0 /\ lqws = rm
    <3>1. UNCHANGED <<lqws, wire>>
      BY <2>1 DEF SendQueue, CurrentWeight
    <3>2. LastSent' = LastSent
      BY <1>1, <3>1 DEF LastSent
    <3> QED
      BY <1>3, <2>1, <3>1, <3>2
  <2>2. CASE ~(lqws > 0 /\ lqws = rm)
    <3>1. lqws' = IF rm > 0 THEN rm ELSE lqws
      BY <2>2 DEF SendQueue, CurrentWeight
    <3>2. wire' = IF up /\ to[g] = conn THEN Append(wire, rm) ELSE wire
      BY <2>2 DEF SendQueue, CurrentWeight, Enqueue
    <3>3. up /\ ~raced => LastSent' = rm
      BY <1>2, <1>3, <3>2, LastAppended
    <3> QED
      BY <1>2, <1>3, <3>1, <3>2, <3>3
  <2> QED
    BY <2>1, <2>2
<1>5. \A h \in Goroutines : pc'[h] = "send" => pc[h] = "send" /\ to'[h] = to[h]
  BY <1>1, <1>2
<1>6. QueueInv'
  BY <1>1, <1>3, <1>4, <1>5 DEF InterestInv, QueueInv
<1>7. PlainInv'
  BY <1>1 DEF PlainInv
<1>8. ConnInv'
  BY <1>1, <1>2, <1>4 DEF InterestInv, ConnInv
<1> QED
  BY <1>6, <1>7, <1>8 DEF InterestInv

\* A new route is sent the interest rm has when it is registered.
LEMMA AddRouteStep ==
  ASSUME TypeOK, InterestInv, AddRoute
  PROVE  InterestInv'
<1>1. /\ ~up /\ up' /\ conn' = conn + 1
      /\ wire' = IF rm > 0 THEN <<IF isq THEN rm ELSE 1>> ELSE <<>>
      /\ raced' = RacedByRoute
      /\ UNCHANGED <<isq, pc, n, to, rm, lqws, remote>>
  BY DEF AddRoute, local, account
<1>2. rm \in Nat /\ conn \in Nat /\ to \in [Goroutines -> Nat] /\ remote = 0
  BY <1>1 DEF TypeOK, InterestInv, ConnInv
<1>3. InFlight' = InFlight
  BY <1>1 DEF InFlight
<1>4. LastSent' = IF isq THEN rm ELSE IF rm > 0 THEN 1 ELSE 0
  <2>1. CASE rm > 0
    BY <1>1, <2>1 DEF LastSent
  <2>2. CASE ~(rm > 0)
    BY <1>1, <1>2, <2>2 DEF LastSent
  <2> QED
    BY <2>1, <2>2
<1>5. ASSUME isq PROVE QueueInv'
  <2>1. ~raced' => InFlight = {}
    BY <1>1, <1>5 DEF RacedByRoute
  <2>2. ~raced' => \A g \in Goroutines : pc[g] # "send"
    BY <2>1 DEF InFlight
  <2> QED
    BY <1>1, <1>3, <1>4, <1>5, <2>1, <2>2 DEF InterestInv, QueueInv
<1>6. ASSUME ~isq PROVE PlainInv'
  <2>1. ~raced' => ~raced \/ InFlight = {}
    BY <1>1 DEF RacedByRoute
  <2>2. LastSent' > 0 <=> rm > 0
    BY <1>2, <1>4, <1>6
  <2>3. ~raced' => /\ \A g, h \in InFlight : g = h
                   /\ \A g \in InFlight : n[g] > 0 <=> rm > 0
    BY <1>6, <2>1 DEF InterestInv, PlainInv
  <2> QED
    BY <1>1, <1>3, <2>2, <2>3 DEF PlainInv
<1>7. ConnInv'
  BY <1>1, <1>2 DEF InterestInv, ConnInv
<1>8. QueueInv' /\ PlainInv'
  BY <1>1, <1>5, <1>6 DEF QueueInv, PlainInv
<1> QED
  BY <1>7, <1>8 DEF InterestInv

\* A lost route leaves nothing on the wire and nothing known remotely.
LEMMA CloseRouteStep ==
  ASSUME TypeOK, InterestInv, CloseRoute
  PROVE  InterestInv'
<1>1. /\ ~up' /\ wire' = <<>> /\ remote' = 0
      /\ UNCHANGED <<isq, pc, n, to, rm, lqws, conn, raced>>
  BY DEF CloseRoute, local, account
<1>2. InFlight' = InFlight
  BY <1>1 DEF InFlight
<1> QED
  BY <1>1, <1>2 DEF InterestInv, QueueInv, PlainInv, ConnInv

\* The peer applies the oldest protocol of the wire.
LEMMA RemoteProcessStep ==
  ASSUME TypeOK, InterestInv, RemoteProcess
  PROVE  InterestInv'
<1>1. /\ wire # <<>> /\ wire \in Seq(Nat) /\ up
      /\ UNCHANGED <<isq, pc, n, to, rm, lqws, up, conn, raced>>
  BY DEF TypeOK, RemoteProcess, InterestInv, ConnInv, local, account
<1>2. InFlight' = InFlight /\ LastSent' = LastSent
  BY <1>1, LastProcessed DEF InFlight
<1> QED
  BY <1>1, <1>2 DEF InterestInv, QueueInv, PlainInv, ConnInv

-----------------------------------------------------------------------------
\* InterestInv is inductive: one lemma above for each step that disturbs it.
LEMMA InterestStep ==
  ASSUME TypeOK, InterestInv, [Next]_vars
  PROVE  InterestInv'
<1>0. /\ \A s \in Subs : <<"read", s>> \in Goroutines
      /\ \A s \in Subs : <<"close", s>> \in Goroutines
      /\ \A p \in Publishers : <<"pub", p>> \in Goroutines
      /\ pc \in [Goroutines -> PCs]
  BY DEF Goroutines, Readers, Closers, Pubs, TypeOK
<1>1. ASSUME NEW s \in Subs, Subscribe(s) PROVE InterestInv'
  BY <1>0, <1>1, FrameStep DEF Subscribe
<1>2. ASSUME NEW s \in Subs, UnsubLookup(s) PROVE InterestInv'
  BY <1>0, <1>2, FrameStep DEF UnsubLookup
<1>3. ASSUME NEW s \in Subs, CloseConnection(s) PROVE InterestInv'
  <2>1. /\ UNCHANGED <<isq, n, to, account, route, raced>>
        /\ pc[<<"close", s>>] = "idle"
    BY <1>3 DEF CloseConnection
  <2>2. pc' = pc \/ pc' = [pc EXCEPT ![<<"close", s>>] = "map"]
    BY <1>3 DEF CloseConnection
  <2> QED
    BY <1>0, <2>1, <2>2, FrameStep
<1>4. ASSUME NEW s \in Subs, ClearSubs(s) PROVE InterestInv'
  BY <1>4, FrameStep DEF ClearSubs, local
<1>5. ASSUME NEW s \in Subs, NEW m \in 1 .. MaxMsgs, UnsubAfter(s, m)
      PROVE  InterestInv'
  BY <1>5, FrameStep DEF UnsubAfter, local
<1>6. ASSUME NEW p \in Publishers, NEW s \in Subs, DeliverMsg(p, s)
      PROVE  InterestInv'
  BY <1>0, <1>6, FrameStep DEF DeliverMsg
<1>7. ASSUME NEW g \in Goroutines, Unsubscribe(g) PROVE InterestInv'
  BY <1>0, <1>7, FrameStep DEF Unsubscribe, local
<1>8. CASE UNCHANGED vars
  BY <1>8, FrameStep DEF vars, local
<1> QED
  BY <1>1, <1>2, <1>3, <1>4, <1>5, <1>6, <1>7, <1>8, UpdateMapStep, GatherStep,
     SendPlainStep, SendQueueStep, AddRouteStep, CloseRouteStep,
     RemoteProcessStep DEF Next, Update

(***************************************************************************)
(* The announcement protocol of updateRouteSubscriptionMap is right for    *)
(* any number of goroutines that update one key: with a queue key always,  *)
(* with a plain key and across a new route as long as nothing raced, the   *)
(* remote server ends with the interest the account has.                   *)
(***************************************************************************)
THEOREM InterestCorrect == Spec => []InterestAgrees
<1>1. Init => InterestInv
  BY DEF Init, InterestInv, QueueInv, PlainInv, ConnInv, InFlight, LastSent
<1>2. TypeOK /\ InterestInv /\ [Next]_vars => InterestInv'
  BY InterestStep
<1>3. InterestInv => InterestAgrees
  BY DEF InterestInv, QueueInv, PlainInv, InterestAgrees, LastSent
<1> QED
  BY <1>1, <1>2, <1>3, TypeCorrect, PTL DEF Spec

=============================================================================
