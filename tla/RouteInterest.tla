--------------------------- MODULE RouteInterest ---------------------------
(***************************************************************************)
(* How a server of a cluster tells its peers what its clients are          *)
(* subscribed to (server/route.go, server/client.go).                      *)
(*                                                                         *)
(* The account keeps rm, the number of local subscriptions of a key, and   *)
(* lqws, the weight last announced for a queue key.  A goroutine that adds *)
(* or removes a subscription first changes rm under acc.mu, then reads the *)
(* routes under s.mu, then sends RS+ or RS- under the lock of the route:   *)
(* three sections with nothing held in between, run by the read loops of   *)
(* the subscribers, by the goroutines that close their connections, and by *)
(* publishers whose delivery reaches an auto-unsubscribe limit.            *)
(*                                                                         *)
(* One key (one subject, plain or with a queue name) and one remote server *)
(* are modelled; each subscription belongs to a client of its own.         *)
(***************************************************************************)
EXTENDS Integers, Sequences, FiniteSets

CONSTANTS
    Subs,         \* subscriptions, one per client connection
    Breaking,     \* the subscribers whose connection may break
    Limiting,     \* the subscribers that may use auto-unsubscribe
    Publishers,   \* local publishers
    MaxConns,     \* bound: route connections made in a behaviour
    MaxMsgs       \* bound: messages delivered to one subscription

ASSUME SubscriberKinds == Breaking \subseteq Subs /\ Limiting \subseteq Subs
ASSUME BoundsAreNaturals == MaxConns \in Nat /\ MaxMsgs \in Nat

(***************************************************************************)
(* The goroutines: the read loop of each subscriber, the goroutine that    *)
(* closes its connection, and the read loop of each publisher.             *)
(***************************************************************************)
Readers == {"read"} \X Subs
Closers == {"close"} \X Subs
Pubs == {"pub"} \X Publishers
Goroutines == Readers \cup Closers \cup Pubs

VARIABLES
    isq,      \* does the key have a queue name?  Fixed in the initial state
    state,    \* state[s]: "new", "open" (in the sublist) or "closed"
    insubs,   \* insubs[s]: s is in the c.subs map of its client
    max,      \* sub.max, 0 for none
    nm,       \* sub.nm
    gone,     \* gone[s]: closeConnection has started for the client of s
    pc,       \* where each goroutine is
    sub,      \* the subscription it works for
    delta,    \* what it adds to rm[key]
    n,        \* its copy of rm[key]
    to,       \* the route connection it has gathered, 0 for none
    rm,       \* acc.rm[key], 0 when there is no entry
    lqws,     \* acc.lqws[key], 0 when there is no entry
    up,       \* is a route to the remote server registered?
    conn,     \* the number of the last route connection
    wire,     \* weights on their way on that connection, 0 for an RS-
    remote,   \* the weight of the remote server's subscription, 0 for none
    raced     \* history, see RacedByUpdate and RacedByRoute

subscription == <<state, insubs, max, nm, gone>>
account == <<rm, lqws>>
route == <<up, conn, wire, remote>>
work == <<sub, delta>>
local == <<work, n, to>>
vars == <<isq, subscription, pc, local, account, route, raced>>

NoSub == "none"

Init ==
    /\ isq \in BOOLEAN
    /\ state = [s \in Subs |-> "new"]
    /\ insubs = [s \in Subs |-> FALSE]
    /\ max = [s \in Subs |-> 0]
    /\ nm = [s \in Subs |-> 0]
    /\ gone = [s \in Subs |-> FALSE]
    /\ pc = [g \in Goroutines |-> "idle"]
    /\ sub = [g \in Goroutines |-> NoSub]
    /\ delta = [g \in Goroutines |-> 0]
    /\ n = [g \in Goroutines |-> 0]
    /\ to = [g \in Goroutines |-> 0]
    /\ rm = 0 /\ lqws = 0
    /\ up = FALSE /\ conn = 0 /\ wire = <<>> /\ remote = 0
    /\ raced = FALSE

\* g goes on to updateRouteSubscriptionMap(acc, s, d).
WorkFor(g, s, d) ==
    /\ sub' = [sub EXCEPT ![g] = s]
    /\ delta' = [delta EXCEPT ![g] = d]

-----------------------------------------------------------------------------
(* The subscriber's read loop: processSubEx and processUnsub.              *)

Subscribe(s) ==
    /\ pc[<<"read", s>>] = "idle"
    /\ state[s] = "new" /\ ~gone[s]
    /\ state' = [state EXCEPT ![s] = "open"]
    /\ insubs' = [insubs EXCEPT ![s] = TRUE]
    /\ pc' = [pc EXCEPT ![<<"read", s>>] = "map"]
    /\ WorkFor(<<"read", s>>, s, 1)
    /\ UNCHANGED <<isq, max, nm, gone, n, to, account, route, raced>>

\* UNSUB sid max: nothing is removed before max messages were delivered.
UnsubAfter(s, m) ==
    /\ pc[<<"read", s>>] = "idle"
    /\ s \in Limiting /\ insubs[s] /\ m > nm[s]
    /\ max' = [max EXCEPT ![s] = m]
    /\ UNCHANGED <<isq, state, insubs, nm, gone, pc, local, account, route,
                   raced>>

\* UNSUB sid: the subscription is looked up, and the client's lock released.
UnsubLookup(s) ==
    /\ pc[<<"read", s>>] = "idle"
    /\ insubs[s]
    /\ max' = [max EXCEPT ![s] = 0]
    /\ pc' = [pc EXCEPT ![<<"read", s>>] = "unsub"]
    /\ WorkFor(<<"read", s>>, s, -1)
    /\ UNCHANGED <<isq, state, insubs, nm, gone, n, to, account, route, raced>>

\* unsubscribe(acc, sub, force, true), whoever calls it.
Unsubscribe(g) ==
    LET s == sub[g] IN
    /\ pc[g] = "unsub"
    /\ state' = [state EXCEPT ![s] = "closed"]
    /\ insubs' = [insubs EXCEPT ![s] = FALSE]
    /\ pc' = [pc EXCEPT ![g] = "map"]
    /\ UNCHANGED <<isq, max, nm, gone, local, account, route, raced>>

(***************************************************************************)
(* closeConnection and clearAccountSubs: any goroutine that finds the      *)
(* connection broken may run it, while the read loop is busy elsewhere.    *)
(* c.subs stays populated until the updates are made.                      *)
(***************************************************************************)
CloseConnection(s) ==
    /\ s \in Breaking /\ ~gone[s] /\ pc[<<"close", s>>] = "idle"
    /\ gone' = [gone EXCEPT ![s] = TRUE]
    /\ IF insubs[s]
         THEN /\ max' = [max EXCEPT ![s] = 0]
              /\ state' = [state EXCEPT ![s] = "closed"]
              /\ pc' = [pc EXCEPT ![<<"close", s>>] = "map"]
              /\ WorkFor(<<"close", s>>, s, -1)
         ELSE UNCHANGED <<max, state, pc, work>>
    /\ UNCHANGED <<isq, insubs, nm, n, to, account, route, raced>>

ClearSubs(s) ==
    /\ gone[s] /\ insubs[s]
    /\ pc[<<"close", s>>] = "idle"
    /\ insubs' = [insubs EXCEPT ![s] = FALSE]
    /\ UNCHANGED <<isq, state, max, nm, gone, pc, local, account, route, raced>>

(***************************************************************************)
(* deliverMsg by a publisher that matched s: the message that reaches the  *)
(* limit, or one that comes after it, makes the publisher unsubscribe s    *)
(* once it has released the client's lock.  (Deliveries to a subscription  *)
(* that never sets a limit change nothing here.)                           *)
(***************************************************************************)
DeliverMsg(p, s) ==
    LET g == <<"pub", p>> IN
    /\ pc[g] = "idle"
    /\ s \in Limiting /\ state[s] = "open" /\ nm[s] < MaxMsgs
    /\ nm' = [nm EXCEPT ![s] = @ + 1]
    /\ IF max[s] > 0 /\ nm[s] + 1 >= max[s]
         THEN /\ pc' = [pc EXCEPT ![g] = "unsub"]
              /\ WorkFor(g, s, -1)
         ELSE UNCHANGED <<pc, work>>
    /\ UNCHANGED <<isq, state, insubs, max, gone, n, to, account, route, raced>>

-----------------------------------------------------------------------------
(* updateRouteSubscriptionMap.                                             *)

InFlight == {g \in Goroutines : pc[g] \in {"gather", "send"}}

(***************************************************************************)
(* History: since the route was registered, something happened in a window *)
(* that the code leaves open.  An update of a plain key found another one  *)
(* that had changed rm and not yet sent; or the route was registered while *)
(* an update of a queue key (or a raced one) was between the two.          *)
(***************************************************************************)
RacedByUpdate == raced \/ (~isq /\ InFlight # {})
RacedByRoute == (isq \/ raced) /\ InFlight # {}

\* Mutant of MapCount: an entry is kept below zero.
MapCountSigned(d) == rm + d
\* rm[key] after the update; entries that would not be positive are deleted.
MapCount(d) == IF rm + d > 0 THEN rm + d ELSE 0

\* Mutant of NeedsUpdate: the second subscription is taken for the first.
NeedsUpdateLate(d) == isq \/ (rm = 1 /\ d > 0) \/ (rm > 0 /\ rm + d <= 0)
\* Mutant of NeedsUpdate: queue keys announce only their first subscription.
NeedsUpdatePlainOnly(d) == (rm = 0 /\ d > 0) \/ (rm > 0 /\ rm + d <= 0)
NeedsUpdate(d) == isq \/ (rm = 0 /\ d > 0) \/ (rm > 0 /\ rm + d <= 0)

\* The section under acc.mu (and acc.sqmu for a queue key).
UpdateMap(g) ==
    LET d == delta[g] IN
    /\ pc[g] = "map"
    /\ rm' = MapCount(d)
    /\ lqws' = IF isq /\ rm > 0 /\ rm + d <= 0 THEN 0 ELSE lqws
    /\ IF NeedsUpdate(d)
         THEN /\ pc' = [pc EXCEPT ![g] = "gather"]
              /\ n' = [n EXCEPT ![g] = MapCount(d)]
              /\ raced' = RacedByUpdate
              /\ UNCHANGED work
         ELSE /\ pc' = [pc EXCEPT ![g] = "idle"]
              /\ WorkFor(g, NoSub, 0)
              /\ UNCHANGED <<n, raced>>
    /\ UNCHANGED <<isq, subscription, to, route>>

\* The section under s.mu.
GatherRoutes(g) ==
    /\ pc[g] = "gather"
    /\ to' = [to EXCEPT ![g] = IF up THEN conn ELSE 0]
    /\ pc' = [pc EXCEPT ![g] = "send"]
    /\ UNCHANGED <<isq, subscription, work, n, account, route, raced>>

\* A protocol enqueued on a connection that is closed goes nowhere.
Enqueue(g, w) == wire' = IF up /\ to[g] = conn THEN Append(wire, w) ELSE wire

Return(g) ==
    /\ pc' = [pc EXCEPT ![g] = "idle"]
    /\ WorkFor(g, NoSub, 0)
    /\ n' = [n EXCEPT ![g] = 0]
    /\ to' = [to EXCEPT ![g] = 0]

\* A plain key: what is sent is the transition this goroutine made.
SendPlain(g) ==
    /\ pc[g] = "send" /\ ~isq
    /\ Enqueue(g, IF n[g] > 0 THEN 1 ELSE 0)
    /\ Return(g)
    /\ UNCHANGED <<isq, subscription, account, up, conn, remote, raced>>

CurrentWeight(g) == rm

(***************************************************************************)
(* A queue key: with acc.sqmu held through the sending, rm is read again   *)
(* and nothing is sent when that weight is the one sent last.              *)
(***************************************************************************)
SendQueue(g) ==
    LET w == CurrentWeight(g) IN
    /\ pc[g] = "send" /\ isq
    /\ IF lqws > 0 /\ lqws = w
         THEN UNCHANGED <<lqws, wire>>
         ELSE /\ lqws' = IF w > 0 THEN w ELSE lqws
              /\ Enqueue(g, w)
    /\ Return(g)
    /\ UNCHANGED <<isq, subscription, rm, up, conn, remote, raced>>

-----------------------------------------------------------------------------
(* The route and the remote server.                                        *)

\* addRoute and sendSubsToRoute, with s.mu held over both.
AddRoute ==
    /\ ~up /\ conn < MaxConns
    /\ up' = TRUE
    /\ conn' = conn + 1
    /\ wire' = IF rm > 0 THEN <<IF isq THEN rm ELSE 1>> ELSE <<>>
    /\ raced' = RacedByRoute
    /\ UNCHANGED <<isq, subscription, pc, local, account, remote>>

\* The connection is lost; the remote server removes what it knew from it.
CloseRoute ==
    /\ up
    /\ up' = FALSE
    /\ wire' = <<>>
    /\ remote' = 0
    /\ UNCHANGED <<isq, subscription, pc, local, account, conn, raced>>

\* Mutant of RemoteWeight: a queue subscription keeps its first weight.
RemoteWeightFirst(w) == IF w = 0 THEN 0 ELSE IF remote > 0 THEN remote ELSE w
\* processRemoteSub and processRemoteUnsub.
RemoteWeight(w) == w

RemoteProcess ==
    /\ wire # <<>>
    /\ remote' = RemoteWeight(Head(wire))
    /\ wire' = Tail(wire)
    /\ UNCHANGED <<isq, subscription, pc, local, account, up, conn, raced>>

Update(g) == Unsubscribe(g) \/ UpdateMap(g) \/ GatherRoutes(g)
                \/ SendPlain(g) \/ SendQueue(g)

Next ==
    \/ \E s \in Subs : \/ Subscribe(s)
                       \/ UnsubLookup(s)
                       \/ CloseConnection(s)
                       \/ ClearSubs(s)
                       \/ \E m \in 1 .. MaxMsgs : UnsubAfter(s, m)
    \/ \E p \in Publishers, s \in Subs : DeliverMsg(p, s)
    \/ \E g \in Goroutines : Update(g)
    \/ AddRoute
    \/ CloseRoute
    \/ RemoteProcess

(***************************************************************************)
(* A goroutine that has begun an update runs on, a registered route is     *)
(* read, and a server keeps trying to connect to its routes.               *)
(***************************************************************************)
Fairness ==
    /\ \A g \in Goroutines : WF_vars(Update(g))
    /\ WF_vars(AddRoute)
    /\ WF_vars(RemoteProcess)

Spec == Init /\ [][Next]_vars /\ Fairness

-----------------------------------------------------------------------------
PCs == {"idle", "unsub", "map", "gather", "send"}

TypeOK ==
    /\ isq \in BOOLEAN
    /\ state \in [Subs -> {"new", "open", "closed"}]
    /\ insubs \in [Subs -> BOOLEAN]
    /\ max \in [Subs -> Nat]
    /\ nm \in [Subs -> Nat]
    /\ gone \in [Subs -> BOOLEAN]
    /\ pc \in [Goroutines -> PCs]
    /\ sub \in [Goroutines -> Subs \cup {NoSub}]
    /\ delta \in [Goroutines -> {-1, 0, 1}]
    /\ \A g \in Goroutines : pc[g] = "unsub" => sub[g] \in Subs
    /\ n \in [Goroutines -> Nat]
    /\ to \in [Goroutines -> Nat]
    /\ rm \in Nat /\ lqws \in Nat
    /\ up \in BOOLEAN
    /\ conn \in Nat
    /\ wire \in Seq(Nat)
    /\ remote \in Nat
    /\ raced \in BOOLEAN

\* What the remote server will know once it has read the connection.
LastSent == IF wire = <<>> THEN remote ELSE wire[Len(wire)]

(***************************************************************************)
(* The peers know what the account knows: once no update is between rm and *)
(* the route and the route is read, the remote server has the interest,    *)
(* with the weight of a queue group, although updates are announced by     *)
(* several goroutines outside the lock that orders them.  It holds for a   *)
(* queue key however updates overlap, because SendQueue reads rm again;    *)
(* for a plain key, and across the registration of a route, only when      *)
(* nothing raced.                                                          *)
(***************************************************************************)
InterestAgrees ==
    (up /\ ~raced /\ wire = <<>> /\ InFlight = {}) =>
        IF isq THEN remote = rm ELSE (remote > 0 <=> rm > 0)

(***************************************************************************)
(* The inductive invariant behind InterestAgrees.  For a queue key lqws is *)
(* the last weight sent; for a plain key at most one update is in flight,  *)
(* and it carries the sign rm still has.                                   *)
(***************************************************************************)
QueueInv ==
    isq => /\ lqws > 0 => rm > 0
           /\ InFlight = {} => lqws = rm
           /\ up /\ ~raced =>
                /\ lqws > 0 => LastSent = lqws
                /\ InFlight = {} => LastSent = rm
                /\ \A g \in Goroutines : pc[g] = "send" => to[g] = conn

PlainInv ==
    ~isq /\ ~raced =>
        /\ \A g, h \in InFlight : g = h
        /\ \A g \in InFlight : n[g] > 0 <=> rm > 0
        /\ up /\ (\A g \in InFlight : pc[g] = "send" /\ to[g] # conn) =>
             (LastSent > 0 <=> rm > 0)

ConnInv ==
    /\ ~up => wire = <<>> /\ remote = 0
    /\ \A g \in Goroutines : to[g] <= conn

InterestInv == QueueInv /\ PlainInv /\ ConnInv

(***************************************************************************)
(* The peers of a server learn of an interest that lasts: a key that keeps *)
(* its subscribers on a route that stays up is known remotely from some    *)
(* point on.                                                               *)
(***************************************************************************)
InterestLearned ==
    <>[](up /\ ~raced /\ rm > 0) => <>[](remote > 0)

=============================================================================
