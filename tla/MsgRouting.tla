----------------------------- MODULE MsgRouting -----------------------------
(***************************************************************************)
(* How a published message reaches its subscribers in a cluster: the       *)
(* publishing server (processInboundClientMsg), the servers that get it    *)
(* over a route (processInboundRoutedMsg), and what both do with it        *)
(* (processMsgResults, deliverMsg), for ordinary and for linear events.    *)
(*                                                                         *)
(* The servers are a full mesh and a route is a FIFO stream that carries   *)
(* the messages together with the RS+ and RS- of its sender, so a server   *)
(* may act on interest that its peer no longer has.  All subscriptions     *)
(* match the one subject; several members of a queue group on one server   *)
(* count as one remote interest (the weight only biases the choice).       *)
(* Routes stay up; RouteInterest has the races behind RS+ and RS-.         *)
(***************************************************************************)
EXTENDS Integers, Sequences, FiniteSets, Functions

CONSTANTS
    Srv,      \* the servers of the cluster
    Subs,     \* subscriptions, one per client connection
    Groups,   \* queue groups
    Plain,    \* the "group" of a subscription without a queue name
    Group,    \* the queue group of a subscription, or Plain
    Homes,    \* the placements of the clients on the servers to start from
    Late,     \* the subscriptions that may appear during a behaviour
    Leaving,  \* the subscriptions that may close or be removed
    Msgs,     \* bound: the messages published
    NoOne     \* a publisher that receives its own messages

ASSUME GroupsAreNotPlain == Plain \notin Groups
ASSUME GroupOfSubscription == Group \in [Subs -> Groups \cup {Plain}]
ASSUME HomesArePlacements == Homes \subseteq [Subs -> Srv]
ASSUME LateAreSubscriptions == Late \subseteq Subs /\ Leaving \subseteq Subs
ASSUME NoOneIsNoSubscription == NoOne \notin Subs
ASSUME ServersAreNotSubscriptions == Srv \cap Subs = {}
ASSUME FinitelyManySubscriptions == IsFiniteSet(Subs)

Keys == Groups \cup {Plain}
Routes == {r \in Srv \X Srv : r[1] # r[2]}

VARIABLES
    home,       \* the server of each subscription's client
    state,      \* "new"; "in" the sublist; "dead": in it, connection closed; "left"
    known,      \* known[s]: the interest <<t, key>> s has on behalf of its routes
    wire,       \* wire[<<s, t>>]: what s has sent to t and t has not read
    sent,       \* sent[m]: "no", "event" or "linear"
    got,        \* got[m][x]: how often x was sent message m, up to Many
    told,       \* the messages whose publisher was told "no responders"
    forwarded,  \* history: the messages that a server sent on from a route
    firsts,     \* history: whom the publishing server itself delivered to
    stable      \* history: subscribers known to all since m was published

subs == <<home, state>>
history == <<forwarded, firsts, stable>>
vars == <<subs, known, wire, sent, got, told, history>>

-----------------------------------------------------------------------------
Members(s, k) ==
    {x \in Subs : home[x] = s /\ Group[x] = k /\ state[x] \in {"in", "dead"}}

\* deliverMsg succeeds: the connection is open, and not the no-echo publisher's.
Deliverable(s, k, me) == {x \in Members(s, k) : state[x] = "in" /\ x # me}

Peers(s, k) == {t \in Srv : <<t, k>> \in known[s]}

RS(op, k) == [op |-> op, key |-> k]
RMSG(m, qs) == [op |-> "RMSG", msg |-> m, queues |-> qs]

Copies(m) == {r \in Routes : \E i \in DOMAIN wire[r] :
                 wire[r][i].op = "RMSG" /\ wire[r][i].msg = m}

\* All servers know of x, and nothing about its key is on the way.
Settled(x) ==
    \A t \in Srv \ {home[x]} :
        /\ <<home[x], Group[x]>> \in known[t]
        /\ \A i \in DOMAIN wire[<<home[x], t>>] :
              LET p == wire[<<home[x], t>>][i] IN
              p.op \in {"RS+", "RS-"} => p.key # Group[x]

Init ==
    /\ home \in Homes
    /\ state \in {f \in [Subs -> {"new", "in"}] :
                     \A x \in Subs \ Late : f[x] = "in"}
    /\ known = [s \in Srv |-> {p \in Srv \X Keys :
                   /\ p[1] # s
                   /\ \E x \in Subs : /\ home[x] = p[1] /\ Group[x] = p[2]
                                      /\ state[x] = "in"}]
    /\ wire = [r \in Routes |-> <<>>]
    /\ sent = [m \in Msgs |-> "no"]
    /\ got = [m \in Msgs |-> [x \in Subs |-> 0]]
    /\ told = {}
    /\ forwarded = {}
    /\ firsts = [m \in Msgs |-> {}]
    /\ stable = [m \in Msgs |-> {}]

-----------------------------------------------------------------------------
(* The subscribers.  A key is announced when its first subscription of the *)
(* server appears and when the last one goes.                              *)

Announce(s, k, op) ==
    wire' = [r \in Routes |->
                IF r[1] = s THEN Append(wire[r], RS(op, k)) ELSE wire[r]]

Subscribe(x) ==
    /\ state[x] = "new"
    /\ state' = [state EXCEPT ![x] = "in"]
    /\ IF Members(home[x], Group[x]) = {}
         THEN Announce(home[x], Group[x], "RS+")
         ELSE UNCHANGED wire
    /\ UNCHANGED <<home, known, sent, got, told, history>>

\* The connection closes; its subscriptions are still in the sublist.
Close(x) ==
    /\ x \in Leaving /\ state[x] = "in"
    /\ state' = [state EXCEPT ![x] = "dead"]
    /\ stable' = [m \in Msgs |-> stable[m] \ {x}]
    /\ UNCHANGED <<home, known, wire, sent, got, told, forwarded, firsts>>

\* unsubscribe, by an UNSUB or by the closing of the connection.
Remove(x) ==
    /\ x \in Leaving /\ state[x] \in {"in", "dead"}
    /\ state' = [state EXCEPT ![x] = "left"]
    /\ IF Members(home[x], Group[x]) = {x}
         THEN Announce(home[x], Group[x], "RS-")
         ELSE UNCHANGED wire
    /\ stable' = [m \in Msgs |-> stable[m] \ {x}]
    /\ UNCHANGED <<home, known, sent, got, told, forwarded, firsts>>

-----------------------------------------------------------------------------
(* processMsgResults.                                                      *)

\* Mutant of QueueCandidates: a message from a route may be sent on at once.
QueueCandidatesAny(s, g, from, me) == Deliverable(s, g, me) \cup Peers(s, g)
\* Mutant of QueueCandidates: a message from a route is never sent on.
QueueCandidatesLocal(s, g, from, me) ==
    Deliverable(s, g, me) \cup IF from = "CLIENT" THEN Peers(s, g) ELSE {}
(***************************************************************************)
(* Where a message may go for group g.  From a client, a random start in   *)
(* the list: the first member that can take it, or the first routed one.   *)
(* From a route, local members first; a route only when none can take it.  *)
(***************************************************************************)
QueueCandidates(s, g, from, me) ==
    IF from = "ROUTER" /\ Deliverable(s, g, me) # {}
      THEN Deliverable(s, g, me)
      ELSE Deliverable(s, g, me) \cup Peers(s, g)

\* Mutant of SelectedGroups: the queue filter of a routed message is ignored.
SelectedGroupsAll(from, qf) == Groups
\* A routed message is only for the groups it names.
SelectedGroups(from, qf) == IF from = "ROUTER" THEN qf ELSE Groups

\* One candidate for every selected group that has any.
QueueChoices(s, from, qf, me) ==
    LET gs == {g \in SelectedGroups(from, qf) :
                  QueueCandidates(s, g, from, me) # {}}
        to == UNION {QueueCandidates(s, g, from, me) : g \in gs}
    IN  {f \in [gs -> to] :
            \A g \in gs : f[g] \in QueueCandidates(s, g, from, me)}

\* Plain subscriptions of routes get a message from a client only: one hop.
PlainRoutes(s, from) == IF from = "CLIENT" THEN Peers(s, Plain) ELSE {}

\* One RMSG for a route, with the queue groups chosen there.
RouteTargets(s, from, choice) ==
    {t \in Srv : t \in PlainRoutes(s, from) \/ t \in Range(choice)}

\* addSubToRouteTargets collects the groups of one route.
Send(base, s, m, targets, choice) ==
    [r \in Routes |->
        IF r[1] = s /\ r[2] \in targets
          THEN Append(base[r], RMSG(m, {g \in DOMAIN choice : choice[g] = r[2]}))
          ELSE base[r]]

\* Bound: copies a subscriber gets are counted up to Many.
Many == 2

GotBy(m, X) ==
    got' = [got EXCEPT ![m] = [x \in Subs |->
               IF x \in X /\ @[x] < Many THEN @[x] + 1 ELSE @[x]]]

\* Mutant of LinearTargets: the route targets survive a local delivery.
LinearTargetsKept(s, locals, choice) == RouteTargets(s, "CLIENT", choice)
\* A linear event that was delivered locally forgets its route targets.
LinearTargets(s, locals, choice) ==
    IF locals = {} THEN RouteTargets(s, "CLIENT", choice) ELSE {}

\* Mutant of Unanswered: only local deliveries count.
UnansweredLocally(locals, targets) == locals = {}
\* didDeliver is false, and the publisher asked to know.
Unanswered(locals, targets) == locals = {} /\ targets = {}

-----------------------------------------------------------------------------
(* processInboundClientMsg: me is the publisher's own subscription if it   *)
(* connected with no echo.                                                 *)

PublishTo(s, m, me, kind, locals, targets, choice) ==
    /\ sent[m] = "no"
    /\ sent' = [sent EXCEPT ![m] = kind]
    /\ GotBy(m, locals)
    /\ wire' = Send(wire, s, m, targets, choice)
    /\ told' = IF Unanswered(locals, targets) THEN told \cup {m} ELSE told
    /\ firsts' = [firsts EXCEPT ![m] = locals]
    /\ stable' = [stable EXCEPT ![m] =
                     {x \in Subs : state[x] = "in" /\ x # me /\ Settled(x)}]
    /\ UNCHANGED <<subs, known, forwarded>>

Publishers(s) == {NoOne} \cup {x \in Subs : home[x] = s /\ state[x] = "in"}

PublishEvent(s, m, me) ==
    \E choice \in QueueChoices(s, "CLIENT", {}, me) :
        PublishTo(s, m, me, "event",
                  Deliverable(s, Plain, me) \cup (Range(choice) \cap Subs),
                  RouteTargets(s, "CLIENT", choice), choice)

\* A linear event stops at the first plain subscriber that takes it ...
PublishLinearToPlain(s, m, me) ==
    \E x \in Deliverable(s, Plain, me) :
        PublishTo(s, m, me, "linear", {x}, LinearTargets(s, {x}, <<>>), <<>>)

\* ... and, with none, after the loop over all the queue groups.
PublishLinear(s, m, me) ==
    /\ Deliverable(s, Plain, me) = {}
    /\ \E choice \in QueueChoices(s, "CLIENT", {}, me) :
          LET locals == Range(choice) \cap Subs IN
          PublishTo(s, m, me, "linear", locals, LinearTargets(s, locals, choice),
                    choice)

-----------------------------------------------------------------------------
(* The read loop of a route: r = <<sender, receiver>>.                     *)

ProcessRemoteSub(r) ==
    /\ wire[r] # <<>> /\ Head(wire[r]).op \in {"RS+", "RS-"}
    /\ LET i == <<r[1], Head(wire[r]).key>> IN
       known' = [known EXCEPT ![r[2]] =
                    IF Head(wire[r]).op = "RS+" THEN @ \cup {i} ELSE @ \ {i}]
    /\ wire' = [wire EXCEPT ![r] = Tail(@)]
    /\ UNCHANGED <<subs, sent, got, told, history>>

(***************************************************************************)
(* processInboundRoutedMsg: no flag is set, so a linear event is treated   *)
(* like any other here.  The route the message came from is a candidate    *)
(* like the others: routes are connections with echo.                      *)
(***************************************************************************)
ProcessRoutedMsg(r) ==
    /\ wire[r] # <<>> /\ Head(wire[r]).op = "RMSG"
    /\ LET s == r[2]
           m == Head(wire[r]).msg
       IN  \E choice \in QueueChoices(s, "ROUTER", Head(wire[r]).queues, NoOne) :
             LET targets == RouteTargets(s, "ROUTER", choice) IN
             /\ GotBy(m, Deliverable(s, Plain, NoOne) \cup (Range(choice) \cap Subs))
             /\ wire' = Send([wire EXCEPT ![r] = Tail(@)], s, m, targets, choice)
             /\ forwarded' = IF targets = {} THEN forwarded ELSE forwarded \cup {m}
    /\ UNCHANGED <<subs, known, sent, told, firsts, stable>>

ReadRoute(r) == ProcessRemoteSub(r) \/ ProcessRoutedMsg(r)

Next ==
    \/ \E x \in Subs : Subscribe(x) \/ Close(x) \/ Remove(x)
    \/ \E s \in Srv, m \in Msgs : \E me \in Publishers(s) :
          \/ PublishEvent(s, m, me)
          \/ PublishLinearToPlain(s, m, me)
          \/ PublishLinear(s, m, me)
    \/ \E r \in Routes : ReadRoute(r)

(***************************************************************************)
(* Routes are read, and the goroutine that closes a connection gets to its *)
(* subscriptions.                                                          *)
(***************************************************************************)
Fairness ==
    /\ \A r \in Routes : WF_vars(ReadRoute(r))
    /\ \A x \in Subs : WF_vars(state[x] = "dead" /\ Remove(x))

Spec == Init /\ [][Next]_vars /\ Fairness

-----------------------------------------------------------------------------
Protos == [op : {"RS+", "RS-"}, key : Keys]
             \cup [op : {"RMSG"}, msg : Msgs, queues : SUBSET Groups]

TypeOK ==
    /\ home \in [Subs -> Srv]
    /\ state \in [Subs -> {"new", "in", "dead", "left"}]
    /\ known \in [Srv -> SUBSET (Srv \X Keys)]
    /\ \A s \in Srv, k \in Keys : <<s, k>> \notin known[s]
    /\ DOMAIN wire = Routes
    /\ \A r \in Routes : wire[r] \in Seq(Protos)
    /\ sent \in [Msgs -> {"no", "event", "linear"}]
    /\ got \in [Msgs -> [Subs -> 0 .. Many]]
    /\ told \subseteq Msgs
    /\ forwarded \subseteq Msgs
    /\ firsts \in [Msgs -> SUBSET Subs]
    /\ stable \in [Msgs -> SUBSET Subs]

\* The copies of m that subscribers in X got.
Received(m, X) == Cardinality({c \in X \X (1 .. Many) : c[2] <= got[m][c[1]]})
MembersOf(g) == {x \in Subs : Group[x] = g}

(***************************************************************************)
(* A queue group gets a message at most once in the whole cluster, however *)
(* its members come and go while servers that have lost theirs send the    *)
(* message on to each other.                                               *)
(***************************************************************************)
GroupOnce == \A m \in Msgs, g \in Groups : Received(m, MembersOf(g)) <= 1

(***************************************************************************)
(* A plain subscriber gets a message at most once, unless a server sent    *)
(* the message on for a queue group: a server that gets it back delivers   *)
(* to its plain subscribers again (processInboundRoutedMsg).               *)
(***************************************************************************)
PlainOnceDirect ==
    \A m \in Msgs \ forwarded, x \in MembersOf(Plain) : got[m][x] <= 1

(***************************************************************************)
(* Nobody gets a message twice: both of the above, of variables that have  *)
(* their types.                                                            *)
(***************************************************************************)
AtMostOnce == TypeOK /\ GroupOnce /\ PlainOnceDirect

(***************************************************************************)
(* Nobody is forgotten: once a message has left the routes, every plain    *)
(* subscriber the cluster knew when it was published, and that stayed, has *)
(* it, and so has one member of every queue group with such a member, even *)
(* if the server chosen first had just lost its own.  A linear event has   *)
(* reached someone.                                                        *)
(***************************************************************************)
StableServed ==
    \A m \in Msgs : (sent[m] # "no" /\ Copies(m) = {}) =>
        /\ sent[m] = "event" =>
              \A x \in stable[m] :
                  Received(m, IF Group[x] = Plain THEN {x} ELSE MembersOf(Group[x])) >= 1
        /\ sent[m] = "linear" /\ stable[m] # {} => Received(m, Subs) >= 1

(***************************************************************************)
(* A linear event that the publishing server could give to a subscriber of *)
(* its own is not sent to any other server, although routed interest was   *)
(* collected before that delivery, and nobody else ever gets it; if that   *)
(* subscriber is a plain one, it is the only one.                          *)
(***************************************************************************)
LinearStaysLocal ==
    \A m \in Msgs : (sent[m] = "linear" /\ firsts[m] # {}) =>
        /\ Copies(m) = {}
        /\ \A x \in Subs : got[m][x] = IF x \in firsts[m] THEN 1 ELSE 0
        /\ (\E x \in firsts[m] : Group[x] = Plain) => Cardinality(firsts[m]) = 1

(***************************************************************************)
(* A publisher that is told that there are no responders is told the       *)
(* truth: nobody has the message and nobody ever gets it.                  *)
(***************************************************************************)
NoRespondersTrue ==
    \A m \in told : Received(m, Subs) = 0 /\ Copies(m) = {}

(***************************************************************************)
(* A message does not go round for ever between servers that believe each  *)
(* other to have a member of its queue group.                              *)
(***************************************************************************)
MessagesSettle == \A m \in Msgs : (Copies(m) # {}) ~> (Copies(m) = {})

(***************************************************************************)
(* A linear event is delivered to at most one subscriber.                  *)
(***************************************************************************)
LinearOnce == \A m \in Msgs : sent[m] = "linear" => Received(m, Subs) <= 1

=============================================================================
