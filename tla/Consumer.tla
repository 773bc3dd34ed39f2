------------------------------- MODULE Consumer -------------------------------
(***************************************************************************)
(* A JetStream consumer of server/consumer.go: it delivers the messages of *)
(* a stream in order, remembers those that wait for an acknowledgement,    *)
(* redelivers them when the ack wait is over, and keeps its state in a     *)
(* store (ConsumerStore) from which the next leader, or the server after a *)
(* restart, goes on.                                                       *)
(*                                                                         *)
(* An unreplicated consumer (o.node == nil) writes its store at once, and  *)
(* the store is flushed to disk later.  A replicated one proposes every    *)
(* update to its Raft group (Raft): phead is the list of proposals that    *)
(* are not applied yet, of which the group may have a prefix in its log.   *)
(* A message is sent only when the update that records its delivery has    *)
(* been applied.  Two replicas are enough: the leader and the next one.    *)
(*                                                                         *)
(* A section under o.mu is one action; an iteration of the loops that      *)
(* deliver and that skip redeliveries is one, too.  There is no clock:     *)
(* whatever is pending may expire, a request may time out, at any time.    *)
(* The messages on their way to the client (o.outq), with it, and the acks *)
(* it sends (ackMsgs) are the set held: a delivery may still fail, an ack  *)
(* that is queued is one that was not sent yet, and one that is lost is    *)
(* never sent.                                                             *)
(***************************************************************************)
EXTENDS ConsumerStore, SequencesExt

CONSTANTS
    Configs,     \* the consumers to check, records of
                 \*   clustered, push, all (AckAll or AckExplicit), wq (a work
                 \*   queue or interest stream), maxdc (MaxDeliver), maxp
                 \*   (MaxAckPending), and the bounds of the run: n messages,
                 \*   props proposals that are not applied, f faults of the
                 \*   given kinds
    Width        \* delivery counts are modulo this (2^64 in the code)

FaultKinds == {"remove", "purge", "fail", "delay", "progress", "leader", "reset", "restart",
               "crash"}

ASSUME WidthAssumption == Width \in Nat \ {0, 1}
ASSUME ConfigsAssumption ==
    Configs \subseteq [clustered : BOOLEAN, push : BOOLEAN, all : BOOLEAN, wq : BOOLEAN,
                       maxdc : Nat, maxp : Nat, n : Nat \ {0}, props : Nat,
                       f : Nat,
                       kinds : SUBSET FaultKinds]

Replica == {1, 2}

VARIABLES
    cfg,      \* o.cfg, with the retention of the stream
    msgs,     \* the messages of the stream's store
    last,     \* its LastSeq
    o,        \* the state the leader keeps in memory
    lead,     \* which replica leads
    stores,   \* o.store of the replicas
    disk,     \* what an unreplicated store has on disk
    phead,    \* proposals of each replica that are not applied
    held,     \* deliveries the client has not answered
    toAck,    \* calls of mset.ackMsg that are due
    terms,    \* goroutines of decStreamPending
    got,      \* history: how often a message was sent to the client
    acked,    \* history: messages the client acknowledged or terminated
    dropped,  \* history: messages removed because of an acknowledgement
    given,    \* history: messages given up after MaxDeliver deliveries
    faults    \* history: the faults so far

storeVars == <<cfg, lead, stores, disk, phead, given>>
streamVars == <<msgs, last>>
clientVars == <<held, got, acked>>
histVars == <<dropped, faults>>
vars == <<storeVars, streamVars, o, clientVars, toAck, terms, histVars>>

Seqs == 1 .. cfg.n

\* Leader changes, crashes, failed deliveries, removals, purges, resets,
\* progress updates and delayed NAKs are bounded together.
Fault(kind) ==
    /\ Len(faults) < cfg.f /\ kind \in cfg.kinds
    /\ faults' = Append(faults, kind)

FirstSeq(m, l) == IF m = {} THEN l + 1 ELSE Min(m)

-----------------------------------------------------------------------------
(***************************************************************************)
(* The state of the leader.  Operators on it take and return a record with *)
(* o, the updates it makes to its store in order (ops), and whether it     *)
(* writes its whole state to its own store afterwards (write).             *)
(***************************************************************************)
Work(x) == [o |-> x, ops |-> <<>>, write |-> FALSE, up |-> {}]

Op(op, dseq, sseq, dc) == [op |-> op, d |-> dseq, s |-> sseq, dc |-> dc]

Emit(w, op) == [w EXCEPT !.ops = Append(@, op)]

StateOf(x) == [dc |-> x.dseq - 1, ds |-> x.sseq - 1, ac |-> x.adflr,
               as |-> x.asflr, pending |-> x.pending, redel |-> x.rdc]

ApplyOp(st, op) ==
    CASE op.op = "delivered" -> UpdateDelivered(st, cfg.maxdc, op.d, op.s, op.dc)
      [] op.op = "acks"      -> UpdateAcks(st, cfg.all, op.d, op.s)
      [] op.op = "skip"      -> UpdateStarting(st, op.s - 1)
      [] op.op = "reset"     -> ResetStore(op.s - 1)

ApplyOps(st, ops) == FoldLeft(ApplyOp, st, ops)

\* The sequence q without the elements of S, as a fold: SelectSeq is not
\* defined for the prover.
Dropping(q, S) == FoldLeft(LAMBDA r, x : IF x \in S THEN r ELSE Append(r, x), <<>>, q)

\* Skips are proposed only: an unreplicated consumer does not record them.
Local(ops) == Dropping(ops, {op \in ToSet(ops) : op.op = "skip"})

WriteStoreState(st, w) == IF w.write THEN Update(st, StateOf(w.o)) ELSE st

Store(w) ==
    /\ o' = w.o
    /\ given' = given \cup w.up
    /\ IF cfg.clustered
       THEN /\ phead' = [phead EXCEPT ![lead] = @ \o w.ops]
            /\ Len(phead'[lead]) <= cfg.props
            /\ stores' = [stores EXCEPT ![lead] = WriteStoreState(@, w)]
       ELSE /\ phead' = phead
            /\ stores' = [stores EXCEPT ![lead] =
                              WriteStoreState(ApplyOps(@, Local(w.ops)), w)]
    /\ UNCHANGED <<cfg, lead, disk>>

-----------------------------------------------------------------------------
(***************************************************************************)
(* Counting deliveries: rdc[s] is the number of redeliveries, an unsigned  *)
(* 64-bit integer that starts at zero.                                     *)
(***************************************************************************)
Rdc(x, s) == IF s \in DOMAIN x.rdc THEN x.rdc[s] ELSE 0

IncDeliveryCount(x, s) == [x EXCEPT !.rdc = With(@, s, (Rdc(x, s) + 1) % Width)]

DecDeliveryCount(x, s) == [x EXCEPT !.rdc = With(@, s, (Rdc(x, s) + Width - 1) % Width)]

DeliveryCount(x, s) == IF Rdc(x, s) >= 1 THEN Rdc(x, s) ELSE 1

RemoveFromRedeliverQueue(x, S) ==
    [x EXCEPT !.rdq = Dropping(@, S)]

OnRedeliverQueue(x, s) == s \in ToSet(x.rdq)

AddToRedeliverQueue(x, s) ==
    IF OnRedeliverQueue(x, s) THEN x ELSE [x EXCEPT !.rdq = Append(@, s)]

\* Mutant of MoveAckFloor: any acknowledgement moves the floors.
MoveAckFloorAlways(x, dseq, sseq) ==
    LET floors == IF DOMAIN x.pending = {} THEN <<x.dseq - 1, x.sseq - 1>>
                  ELSE FloorsAbove(x.pending, dseq, sseq)
    IN  [x EXCEPT !.adflr = floors[1], !.asflr = floors[2]]

MoveAckFloor(x, dseq, sseq) ==
    LET floors == IF DOMAIN x.pending = {} THEN <<x.dseq - 1, x.sseq - 1>>
                  ELSE IF dseq # x.adflr + 1 THEN <<x.adflr, x.asflr>>
                  ELSE FloorsAbove(x.pending, dseq, sseq)
    IN  [x EXCEPT !.adflr = floors[1], !.asflr = floors[2]]

\* A pending message that was delivered often enough is given up.
GiveUpPending(w, s, dc) ==
    IF s \notin DOMAIN w.o.pending THEN w
    ELSE LET p == w.o.pending[s]
             x == [w.o EXCEPT !.pending = Without(@, {s})]
         IN  [Emit(w, Op("delivered", p, s, dc)) EXCEPT !.o = MoveAckFloor(x, p, s),
                                                       !.up = @ \cup {s}]

-----------------------------------------------------------------------------
(***************************************************************************)
(* processAckMsgLocked: an ack, or a TERM, which is treated like one.      *)
(***************************************************************************)
AckIgnored(x, sseq, dseq) ==
    \/ sseq >= x.sseq
    \/ cfg.all /\ (dseq <= x.adflr \/ sseq <= x.asflr)

\* Mutant of AckExplicit: the message stays queued for redelivery.
AckExplicitQueued(w, sseq, dseq) ==
    LET x == [w.o EXCEPT !.pending = Without(@, {sseq}), !.rdc = Without(@, {sseq})]
    IN  Emit([w EXCEPT !.o = MoveAckFloor(x, dseq, sseq)], Op("acks", dseq, sseq, 0))

AckExplicit(w, sseq, dseq) ==
    LET x == w.o
        p == IF sseq \in DOMAIN x.pending THEN x.pending[sseq] ELSE dseq
        moved == IF sseq \in DOMAIN x.pending
                 THEN MoveAckFloor([x EXCEPT !.pending = Without(@, {sseq})], p, sseq)
                 ELSE x
        clean == RemoveFromRedeliverQueue([moved EXCEPT !.rdc = Without(@, {sseq})],
                                          {sseq})
    IN  Emit([w EXCEPT !.o = clean], Op("acks", p, sseq, 0))

AckAll(w, sseq, dseq) ==
    LET range == AckedRange(w.o.pending, w.o.asflr, sseq)
        clean == [w.o EXCEPT !.adflr = dseq, !.asflr = sseq,
                             !.pending = Without(@, range),
                             !.rdc = Without(@, range)]
    IN  Emit([w EXCEPT !.o = RemoveFromRedeliverQueue(clean, range)],
             Op("acks", dseq, sseq, 0))

ProcessAckMsg(w, sseq, dseq) ==
    IF AckIgnored(w.o, sseq, dseq) THEN w
    ELSE IF cfg.all THEN AckAll(w, sseq, dseq)
    ELSE AckExplicit(w, sseq, dseq)

\* What the unreplicated consumer of a work queue then tells the stream.
AckedInPlace(x, sseq, dseq) ==
    IF cfg.clustered \/ ~cfg.wq \/ AckIgnored(x, sseq, dseq) THEN {}
    ELSE IF cfg.all /\ sseq - x.asflr > 1
         THEN Min(AckedRange(x.pending, x.asflr, sseq) \cup {sseq}) .. sseq
    ELSE {sseq}

-----------------------------------------------------------------------------
(***************************************************************************)
(* checkPending: E are the pending messages whose ack wait is over.  The   *)
(* code sorts those that expired before it queues them.                    *)
(***************************************************************************)
HasMaxDeliveries(x, s) == cfg.maxdc > 0 /\ DeliveryCount(x, s) >= cfg.maxdc

\* Mutant of DropGone: the first message of the stream is taken for gone.
DropGoneFirst(w, fseq) ==
    LET x == w.o
        gone == {s \in DOMAIN x.pending : s <= fseq \/ s <= x.asflr}
        clean == [x EXCEPT !.pending = Without(@, gone), !.rdc = Without(@, gone),
                           !.asflr = Max({@} \cup gone),
                           !.adflr = Max({@} \cup {x.pending[s] : s \in gone})]
    IN  [w EXCEPT !.o = RemoveFromRedeliverQueue(clean, gone), !.write = gone # {}]

DropGone(w, fseq) ==
    LET x == w.o
        gone == {s \in DOMAIN x.pending : s < fseq \/ s <= x.asflr}
        clean == [x EXCEPT !.pending = Without(@, gone), !.rdc = Without(@, gone),
                           !.asflr = Max({@} \cup gone),
                           !.adflr = Max({@} \cup {x.pending[s] : s \in gone})]
    IN  [w EXCEPT !.o = RemoveFromRedeliverQueue(clean, gone), !.write = gone # {}]

Expire(w, s) ==
    IF s \notin DOMAIN w.o.pending \/ OnRedeliverQueue(w.o, s) THEN w
    ELSE IF HasMaxDeliveries(w.o, s)
         THEN LET dc == DeliveryCount(w.o, s)
                  up == GiveUpPending(w, s, dc)
              IN  [up EXCEPT !.o.rdc = With(@, s, dc)]
    ELSE [w EXCEPT !.o = AddToRedeliverQueue(@, s)]

\* In the order of their sequences: the greatest is taken last.
ExpireAll(w, E) == MapThenFoldSet(LAMBDA s, x : Expire(x, s), w, LAMBDA s : s, Max, E)

Settle(x) ==
    IF DOMAIN x.pending # {} THEN x
    ELSE [x EXCEPT !.ptmr = FALSE, !.rdq = <<>>,
                   !.adflr = x.dseq - 1, !.asflr = x.sseq - 1]

CheckPending(w, fseq, E) ==
    IF ~w.o.ptmr THEN w
    ELSE [ExpireAll(DropGone(w, fseq), E) EXCEPT !.o = Settle(@)]

-----------------------------------------------------------------------------
(***************************************************************************)
(* setLeader(true): the new leader takes over what the store has.          *)
(***************************************************************************)
CheckRedelivered(w, fseq) ==
    LET below == {s \in DOMAIN w.o.rdc : s < fseq}
    IN  [w EXCEPT !.o.rdc = Without(@, below), !.write = below # {}]

ReadStoredState(st) ==
    [sseq |-> st.ds + 1, dseq |-> st.dc + 1, adflr |-> st.ac, asflr |-> st.as,
     pending |-> st.pending, rdc |-> st.redel, rdq |-> <<>>,
     ptmr |-> DOMAIN st.pending # {}, active |-> TRUE, waiting |-> 0, pd |-> Empty]

TakeOver(st, E) ==
    LET fseq == FirstSeq(msgs, last)
    IN  CheckPending(CheckRedelivered(Work(ReadStoredState(st)), fseq), fseq, E)

Init ==
    /\ cfg \in Configs
    /\ last = cfg.n - 1 /\ msgs = 1 .. last
    /\ lead = 1
    /\ stores = [r \in Replica |-> InitState]
    /\ disk = InitState
    /\ o = ReadStoredState(InitState)
    /\ phead = [r \in Replica |-> <<>>]
    /\ held = {} /\ toAck = {} /\ terms = {}
    /\ got = [s \in Seqs |-> 0]
    /\ acked = {} /\ dropped = {} /\ given = {}
    /\ faults = <<>>

-----------------------------------------------------------------------------
(***************************************************************************)
(* The stream: a message is stored and signalled, removed, purged.         *)
(***************************************************************************)
Publish ==
    /\ last < cfg.n
    /\ last' = last + 1
    /\ msgs' = msgs \cup {last + 1}
    /\ UNCHANGED <<storeVars, o, toAck, terms, clientVars, histVars>>

\* decStreamPending, called for every message that leaves the stream.
DecStreamPending(s) ==
    IF s \in DOMAIN o.pending
    THEN /\ terms' = terms \cup {<<lead, s, o.pending[s]>>}
         /\ Store(Work(o))
    ELSE /\ terms' = terms
         /\ Store(IF s \in DOMAIN o.rdc
                  THEN Emit(Work([o EXCEPT !.rdc = Without(@, {s})]), Op("acks", 0, s, 0))
                  ELSE Work(o))

RemoveMsg(s) ==
    /\ s \in msgs
    /\ Fault("remove")
    /\ msgs' = msgs \ {s}
    /\ DecStreamPending(s)
    /\ UNCHANGED <<last, toAck, clientVars, dropped>>

\* The goroutine that decStreamPending started.  On a server that no longer
\* leads it leaves its proposal in o.phead.
ProcessTerm(t) ==
    LET r == t[1]  s == t[2]  d == t[3]
    IN  /\ t \in terms
        /\ terms' = terms \ {t}
        /\ toAck' = toAck \cup (IF r = lead THEN AckedInPlace(o, s, d) ELSE {})
        /\ \/ r = lead /\ Store(ProcessAckMsg(Work(o), s, d))
           \/ /\ r # lead
              /\ phead' = [phead EXCEPT ![r] = Append(@, Op("acks", d, s, 0))]
              /\ UNCHANGED <<cfg, o, lead, stores, disk, given>>
           \/ r # lead /\ cfg.all /\ UNCHANGED <<storeVars, o>>
        /\ UNCHANGED <<streamVars, clientVars, histVars>>

\* The updates for pending messages that a purge has taken, in order.
AcksOf(pending, gone) ==
    MapThenFoldSet(LAMBDA s, ops : Append(ops, Op("acks", pending[s], s, 0)), <<>>,
                   LAMBDA s : s, Max, gone)

\* stream.purge: the callback of the store, then consumer.purge.
PurgeConsumer(fseq) ==
    LET below == 0 .. fseq - 1
        x1 == RemoveFromRedeliverQueue(
                  [o EXCEPT !.rdc = Without(@, below)], DOMAIN o.rdc \cap below)
        x2 == [x1 EXCEPT !.sseq = Max2(@, fseq)]
        gone == IF o.asflr < fseq THEN DOMAIN o.pending \cap below ELSE {}
        adflr == Max({o.adflr} \cup {o.pending[s] : s \in gone})
        x3 == IF o.asflr < fseq
              THEN [x2 EXCEPT !.asflr = fseq - 1, !.adflr = adflr,
                              !.dseq = Max2(@, adflr),
                              !.pending = Without(@, gone), !.rdc = Without(@, gone)]
              ELSE x2
        x4 == IF DOMAIN x3.pending = {}
              THEN [x3 EXCEPT !.rdc = Empty, !.adflr = x3.dseq - 1, !.asflr = x3.sseq - 1]
              ELSE x3
    IN  [o |-> [x4 EXCEPT !.rdq = Dropping(@, 0 .. x4.sseq - 1)],
         ops |-> AcksOf(o.pending, gone), write |-> TRUE, up |-> {}]

Purge(fseq) ==
    /\ fseq \in 2 .. last + 1
    /\ \E s \in msgs : s < fseq
    /\ Fault("purge")
    /\ msgs' = {s \in msgs : s >= fseq}
    /\ LET first == FirstSeq(msgs', last)
           w == PurgeConsumer(first)
           old == [r \in Replica |-> RemoveRedeliveredBelow(stores[r], first)]
       IN  /\ o' = w.o
           /\ IF cfg.clustered
              THEN /\ phead' = [phead EXCEPT ![lead] = @ \o w.ops]
                   /\ stores' = [old EXCEPT ![lead] = WriteStoreState(@, w)]
              ELSE /\ phead' = phead
                   /\ stores' = [old EXCEPT ![lead] = WriteStoreState(ApplyOps(@, w.ops), w)]
    /\ UNCHANGED <<cfg, last, lead, disk, given, toAck, terms, clientVars, dropped>>

-----------------------------------------------------------------------------
(***************************************************************************)
(* Delivering: one iteration of loopAndGatherMsgs with getNextMsg.         *)
(***************************************************************************)
CanGather == IF cfg.push THEN o.active ELSE o.waiting > 0

\* deliverMsg with updateDelivered and trackPending.
DeliverMsg(w, s, dc) ==
    LET d == w.o.dseq
        x == [w.o EXCEPT !.dseq = d + 1, !.ptmr = TRUE,
                         !.waiting = IF cfg.push THEN @ ELSE @ - 1,
                         !.pending = IF s \in DOMAIN @ THEN @ ELSE With(@, s, d),
                         !.pd = IF cfg.clustered THEN With(@, s, d) ELSE @]
    IN  Emit([w EXCEPT !.o = x], Op("delivered", d, s, dc))

SendMsg(s, d) ==
    /\ held' = held \cup {<<s, d>>}
    /\ got' = [got EXCEPT ![s] = @ + 1]

\* Mutant of Deliver: a replicated consumer sends before the group has agreed.
DeliverAtOnce(w, s, dc) ==
    /\ Store(DeliverMsg(w, s, dc))
    /\ SendMsg(s, w.o.dseq)
    /\ UNCHANGED <<streamVars, toAck, terms, acked, histVars>>

Deliver(w, s, dc) ==
    /\ Store(DeliverMsg(w, s, dc))
    /\ IF cfg.clustered THEN UNCHANGED <<held, got>> ELSE SendMsg(s, w.o.dseq)
    /\ UNCHANGED <<streamVars, toAck, terms, acked, histVars>>

\* nextWaiting found that the requests have expired: put the message back.
PutBack(w, s, dc) ==
    /\ ~cfg.push
    /\ LET x == [w.o EXCEPT !.waiting = 0]
       IN  Store([w EXCEPT !.o = IF dc = 1 /\ s = x.sseq - 1
                                 THEN [x EXCEPT !.sseq = @ - 1]
                                 ELSE AddToRedeliverQueue(DecDeliveryCount(x, s), s)])
    /\ UNCHANGED <<streamVars, toAck, terms, clientVars, histVars>>

DeliverOrPutBack(w, s, dc) == Deliver(w, s, dc) \/ PutBack(w, s, dc)

\* The next message to redeliver, taken from o.rdq, and the number of its
\* delivery.
NextToRedeliver == IncDeliveryCount([o EXCEPT !.rdq = Tail(@)], Head(o.rdq))

NextCount == (Rdc(NextToRedeliver, Head(o.rdq)) + 1) % Width

\* Mutant of TooOften: one delivery too many.
TooOftenLate == cfg.maxdc > 0 /\ NextCount > cfg.maxdc + 1

TooOften == cfg.maxdc > 0 /\ NextCount > cfg.maxdc

RedeliverTooOften ==
    /\ CanGather /\ o.rdq # <<>> /\ TooOften
    /\ Store(GiveUpPending(Work(NextToRedeliver), Head(o.rdq), NextCount))
    /\ UNCHANGED <<streamVars, toAck, terms, clientVars, histVars>>

RedeliverRemoved ==
    /\ CanGather /\ o.rdq # <<>> /\ ~TooOften
    /\ LET s == Head(o.rdq)
           w == Work(DecDeliveryCount(NextToRedeliver, s))
       IN  /\ s \notin msgs
           /\ Store(IF s \in DOMAIN o.pending
                    THEN ProcessAckMsg(w, s, o.pending[s]) ELSE w)
    /\ UNCHANGED <<streamVars, toAck, terms, clientVars, histVars>>

Redeliver ==
    /\ CanGather /\ o.rdq # <<>> /\ ~TooOften
    /\ Head(o.rdq) \in msgs
    /\ DeliverOrPutBack(Work(NextToRedeliver), Head(o.rdq), NextCount)

AtMaxPending == cfg.maxp > 0 /\ Cardinality(DOMAIN o.pending) >= cfg.maxp

DeliverNext ==
    /\ CanGather /\ o.rdq = <<>> /\ ~AtMaxPending
    /\ \E s \in msgs :
          /\ s >= o.sseq /\ \A m \in msgs : m >= o.sseq => m >= s
          /\ DeliverOrPutBack(Work([o EXCEPT !.sseq = s + 1]), s, 1)

\* LoadNextMsg found nothing up to the end of the stream.
ReachEnd ==
    /\ CanGather /\ o.rdq = <<>> /\ ~AtMaxPending
    /\ o.sseq <= last /\ \A m \in msgs : m < o.sseq
    /\ LET w == Work([o EXCEPT !.sseq = last + 1])
       IN  Store(IF last # o.sseq THEN Emit(w, Op("skip", 0, last + 1, 0)) ELSE w)
    /\ UNCHANGED <<streamVars, toAck, terms, clientVars, histVars>>

\* The subscriber of a push consumer is back; a pull request comes in.
UpdateDeliveryInterest ==
    /\ cfg.push /\ ~o.active
    /\ o' = [o EXCEPT !.active = TRUE]
    /\ UNCHANGED <<storeVars, streamVars, toAck, terms, clientVars, histVars>>

ProcessNextMsgRequest ==
    /\ ~cfg.push /\ o.waiting = 0
    /\ o' = [o EXCEPT !.waiting = 1]
    /\ UNCHANGED <<storeVars, streamVars, toAck, terms, clientVars, histVars>>

\* The internal loop of the stream found nobody to give a message to.
DidNotDeliver(h) ==
    /\ h \in held
    /\ Fault("fail")
    /\ held' = held \ {h}
    /\ got' = [got EXCEPT ![h[1]] = @ - 1]
    /\ LET s == h[1]
           x == DecDeliveryCount(o, s)
       IN  \/ cfg.push /\ \E b \in BOOLEAN : o' = [x EXCEPT !.active = b]
           \/ ~cfg.push /\ \E n \in {0, x.waiting} :
                 LET y == [x EXCEPT !.waiting = n]
                 IN  o' = IF s \in DOMAIN x.pending THEN AddToRedeliverQueue(y, s) ELSE y
    /\ UNCHANGED <<storeVars, streamVars, toAck, terms, acked, dropped>>

-----------------------------------------------------------------------------
(***************************************************************************)
(* Answers of the client: processAck, by processInboundAcks.               *)
(***************************************************************************)
Answered(h) == held' = held \ {h}

\* An ack or a TERM.
ProcessAck(h) ==
    /\ h \in held
    /\ Answered(h)
    /\ acked' = acked \cup (IF cfg.all THEN 1 .. h[1] ELSE {h[1]})
    /\ toAck' = toAck \cup AckedInPlace(o, h[1], h[2])
    /\ Store(ProcessAckMsg(Work(o), h[1], h[2]))
    /\ UNCHANGED <<streamVars, got, terms, histVars>>

NakInRange(h) == h[2] > o.adflr /\ h[2] <= o.dseq /\ h[1] \in DOMAIN o.pending

ProcessNak(h) ==
    /\ h \in held
    /\ Answered(h)
    /\ Store(Work(IF NakInRange(h) THEN AddToRedeliverQueue(o, h[1]) ELSE o))
    /\ UNCHANGED <<streamVars, got, acked, toAck, terms, histVars>>

\* A NAK with a delay moves the ack wait of the message; so does a progress
\* update, which leaves the message with the client.
ProcessNakDelay(h) ==
    /\ h \in held /\ NakInRange(h)
    /\ Fault("delay")
    /\ Answered(h)
    /\ Store(Emit(Work(RemoveFromRedeliverQueue(o, {h[1]})),
                  Op("delivered", o.pending[h[1]], h[1], (Rdc(o, h[1]) + 1) % Width)))
    /\ UNCHANGED <<streamVars, got, acked, toAck, terms, dropped>>

ProgressUpdate(h) ==
    /\ h \in held /\ h[1] \in DOMAIN o.pending
    /\ Fault("progress")
    /\ Store(Emit(Work(o), Op("delivered", o.pending[h[1]], h[1], 1)))
    /\ UNCHANGED <<streamVars, clientVars, toAck, terms, dropped>>

\* The timer o.ptmr; and checkAckFloor, for what the stream no longer has.  The last
\* step of checkAckFloor sets a floor that is 50 behind (minOffThreshold): the first
\* sequences of the instances are below that.  ackMsg finds nothing of what is below
\* the first sequence.
AckWaitOver ==
    /\ o.ptmr
    /\ \E E \in SUBSET DOMAIN o.pending :
          LET w == CheckPending(Work(o), FirstSeq(msgs, last), E)
          IN  w # Work(o) /\ Store(w)
    /\ UNCHANGED <<streamVars, clientVars, toAck, terms, histVars>>

CheckAckFloor(s) ==
    /\ o.asflr > 0 /\ o.asflr < FirstSeq(msgs, last) - 1
    /\ s \in DOMAIN o.pending /\ s < FirstSeq(msgs, last)
    /\ Store(ProcessAckMsg(Work(o), s, o.pending[s]))
    /\ UNCHANGED <<streamVars, clientVars, toAck, terms, histVars>>

-----------------------------------------------------------------------------
(***************************************************************************)
(* stream.ackMsg: a message without interest leaves a work queue.          *)
(***************************************************************************)
\* Mutant of NeedAck: what was given up is not needed.
NeedAckPending(s) ==
    IF cfg.all THEN s > o.asflr
    ELSE s > o.asflr /\ (s >= o.sseq \/ s \in DOMAIN o.pending)

NeedAck(s) ==
    \/ IF cfg.all THEN s > o.asflr
       ELSE s > o.asflr /\ (s >= o.sseq \/ s \in DOMAIN o.pending)
    \/ s \in DOMAIN o.rdc

AckMsg(s) ==
    /\ s \in toAck
    /\ toAck' = toAck \ {s}
    /\ IF s \in msgs /\ ~NeedAck(s)
       THEN /\ msgs' = msgs \ {s}
            /\ dropped' = dropped \cup {s}
            /\ DecStreamPending(s)
       ELSE UNCHANGED <<storeVars, msgs, dropped, o, terms>>
    /\ UNCHANGED <<last, clientVars, faults>>

\* checkStateForInterestStream: what the stored state says is not pending.
InterestLost(st) ==
    LET dflr == IF DOMAIN st.pending = {} THEN st.as ELSE Max2(st.as, st.ds)
    IN  {s \in msgs : s <= dflr /\ (s <= st.as \/ s \notin DOMAIN st.pending)}

CheckStateForInterestStream ==
    /\ cfg.wq
    /\ stores[lead].as <= last
    /\ toAck' = toAck \cup InterestLost(stores[lead])
    /\ toAck' # toAck
    /\ UNCHANGED <<storeVars, streamVars, o, terms, clientVars, histVars>>

-----------------------------------------------------------------------------
(***************************************************************************)
(* The group of a replicated consumer.                                     *)
(***************************************************************************)
ResetLocalStartingSeq(x, seq) ==
    [x EXCEPT !.pending = Empty, !.rdc = Empty, !.rdq = <<>>, !.sseq = seq, !.dseq = 1,
              !.adflr = 0, !.asflr = seq - 1]

\* processReplicatedAck: the messages that the stream is told of.
ReplicatedAcks(st, op) ==
    IF op.op # "acks" \/ ~cfg.wq THEN {}
    ELSE IF cfg.all /\ op.s - st.as > 1 THEN st.as + 1 .. op.s
    ELSE {op.s}

\* loopAndForwardProposals, Raft and applyConsumerEntries: the next entry is
\* committed and applied by the leader, which sends what waited for it, and by
\* the other replica.
ApplyConsumerEntry ==
    /\ phead[lead] # <<>>
    /\ phead' = [phead EXCEPT ![lead] = Tail(@)]
    /\ LET op == Head(phead[lead])
       IN  /\ stores' = [r \in Replica |-> ApplyOp(stores[r], op)]
           /\ IF op.op = "delivered" /\ op.s \in DOMAIN o.pd
              THEN /\ SendMsg(op.s, o.pd[op.s])
                   /\ o' = [o EXCEPT !.pd = Without(@, {op.s})]
              ELSE /\ UNCHANGED <<held, got>>
                   /\ o' = IF op.op = "reset" THEN ResetLocalStartingSeq(o, op.s) ELSE o
           /\ toAck' = toAck \cup ReplicatedAcks(stores[lead], op)
    /\ UNCHANGED <<cfg, streamVars, lead, disk, given, terms, acked, histVars>>

\* The other replica is elected.  Of the proposals of the old leader a prefix
\* was committed, some more were forwarded and are lost with its log, and the
\* rest stays in o.phead, to be forwarded when it leads again.
LeaderChange ==
    /\ cfg.clustered
    /\ Fault("leader")
    /\ \E k \in 0 .. Len(phead[lead]) : \E f \in k .. Len(phead[lead]) :
          LET new == 3 - lead
              applied == [r \in Replica |-> ApplyOps(stores[r], SubSeq(phead[lead], 1, k))]
          IN  \E E \in SUBSET DOMAIN applied[new].pending :
                 LET w == TakeOver(applied[new], E)
                 IN  /\ lead' = new
                     /\ given' = given \cup w.up
                     /\ o' = w.o
                     /\ stores' = [applied EXCEPT ![new] = WriteStoreState(@, w)]
                     /\ phead' = [phead EXCEPT ![new] = @ \o w.ops,
                                               ![lead] = SubSeq(@, f + 1, Len(@))]
    /\ UNCHANGED <<cfg, streamVars, disk, toAck, terms, clientVars, dropped>>

\* resetStartingSeq with no sequence: back to the ack floor.
ResetStartingSeq ==
    /\ Fault("reset")
    /\ IF cfg.clustered
       THEN Store(Emit(Work(o), Op("reset", 0, o.asflr + 1, 0)))
       ELSE /\ o' = ResetLocalStartingSeq(o, o.asflr + 1)
            /\ stores' = [stores EXCEPT ![lead] = ResetStore(o.asflr)]
            /\ UNCHANGED <<cfg, lead, disk, phead, given>>
    /\ UNCHANGED <<streamVars, toAck, terms, clientVars, dropped>>

(***************************************************************************)
(* The server of an unreplicated consumer: the flusher of the store, and a *)
(* crash, after which the consumer goes on from the disk.                  *)
(***************************************************************************)
Flush ==
    /\ ~cfg.clustered
    /\ "crash" \in cfg.kinds /\ Len(faults) < cfg.f
    /\ disk # stores[lead]
    /\ disk' = stores[lead]
    /\ UNCHANGED <<cfg, streamVars, o, lead, stores, phead, given, toAck, terms,
                   clientVars, histVars>>

Restart ==
    /\ ~cfg.clustered
    /\ Fault(IF disk = stores[lead] THEN "restart" ELSE "crash")
    /\ \E E \in SUBSET DOMAIN disk.pending :
          LET w == TakeOver(disk, E)
          IN  /\ o' = w.o
              /\ given' = given \cup w.up
              /\ stores' = [stores EXCEPT ![lead] =
                                WriteStoreState(ApplyOps(disk, Local(w.ops)), w)]
    /\ toAck' = {} /\ terms' = {}
    /\ UNCHANGED <<cfg, streamVars, lead, disk, phead, clientVars, dropped>>

-----------------------------------------------------------------------------
Stream == Publish \/ \E s \in Seqs : RemoveMsg(s) \/ Purge(s + 1)
Gather == \/ RedeliverTooOften \/ RedeliverRemoved \/ Redeliver \/ DeliverNext \/ ReachEnd
          \/ UpdateDeliveryInterest \/ ProcessNextMsgRequest
Answer == \E h \in held : \/ ProcessAck(h) \/ ProcessNak(h) \/ ProcessNakDelay(h)
                          \/ ProgressUpdate(h) \/ DidNotDeliver(h)
Housekeeping == \/ \E t \in terms : ProcessTerm(t)
                \/ \E s \in Seqs : CheckAckFloor(s) \/ AckMsg(s)
                \/ AckWaitOver \/ CheckStateForInterestStream
Group == ApplyConsumerEntry \/ LeaderChange \/ ResetStartingSeq \/ Flush \/ Restart

Next == Stream \/ Gather \/ Answer \/ Housekeeping \/ Group

Spec == Init /\ [][Next]_vars

-----------------------------------------------------------------------------
(***************************************************************************)
(* Types.  The counts of redeliveries stay within their width, although    *)
(* didNotDeliver takes one back that may never have been counted.          *)
(***************************************************************************)
TypeOK ==
    /\ cfg \in Configs /\ last \in 0 .. cfg.n /\ msgs \subseteq 1 .. last
    /\ lead \in Replica
    /\ DOMAIN o.pending \subseteq Seqs /\ DOMAIN o.rdc \subseteq Seqs
    /\ \A s \in DOMAIN o.rdc : o.rdc[s] \in 0 .. Width - 1
    /\ o.sseq \in Nat /\ o.dseq \in Nat /\ o.adflr \in Nat /\ o.asflr \in Nat

-----------------------------------------------------------------------------
Calm(kinds) == ToSet(faults) \cap kinds = {}

\* A message that left the stream is acknowledged for the client, and with
\* AckAll so is everything before it.
AckedByRemoval == cfg.all /\ ~Calm({"remove"})

(***************************************************************************)
(* Nothing that is still in the stream falls between the next message to   *)
(* deliver and the pending ones: a message that the consumer has passed is *)
(* pending, or the client acknowledged it, or it was given up.             *)
(***************************************************************************)
NothingForgotten ==
    ~AckedByRemoval =>
        \A s \in msgs : s < o.sseq => s \in DOMAIN o.pending \cup acked \cup given

(***************************************************************************)
(* The ack floors stay below whatever is pending: nothing a client still   *)
(* has to acknowledge is reported as acknowledged, and checkPending does   *)
(* not take it for gone.                                                   *)
(***************************************************************************)
FloorsSound ==
    ~cfg.all => \A s \in DOMAIN o.pending : s > o.asflr /\ o.pending[s] > o.adflr

(***************************************************************************)
(* moveAckFloor only moves on an acknowledgement of adflr + 1: as long as  *)
(* no message leaves the stream and the leader stays, that is the first    *)
(* delivery of a message that is pending, so the floor cannot be stuck.    *)
(***************************************************************************)
FloorNotStuck ==
    /\ ~cfg.all /\ DOMAIN o.pending # {}
    /\ Calm(FaultKinds \ {"fail", "delay", "progress"})
    => o.adflr + 1 = Min({o.pending[s] : s \in DOMAIN o.pending})

(***************************************************************************)
(* Both: the floors are never ahead of the client, nor stuck behind it.    *)
(***************************************************************************)
AckFloorRight == FloorsSound /\ FloorNotStuck

(***************************************************************************)
(* MaxDeliver: a change of leader included, the client is sent no message  *)
(* more often, unless a crash lost the counts, a reset dropped them or     *)
(* failed deliveries were taken back.                                      *)
(***************************************************************************)
DeliveriesBounded ==
    cfg.maxdc > 0 /\ Calm({"reset", "crash", "fail"}) => \A s \in Seqs : got[s] <= cfg.maxdc

(***************************************************************************)
(* A work queue removes on acknowledgement only what the client has        *)
(* acknowledged; a message that was given up stays.  (A purge forgets      *)
(* which ones were given up.)                                              *)
(***************************************************************************)
WorkQueueKept == ~AckedByRemoval /\ Calm({"purge"}) => dropped \subseteq acked

(***************************************************************************)
(* Whoever leads knows of every message that was sent to the client: no    *)
(* acknowledgement on its way names a message that the leader would        *)
(* deliver as new.                                                         *)
(***************************************************************************)
SentKnown == Calm({"reset", "crash", "fail"}) => \A h \in held : h[1] < o.sseq

(***************************************************************************)
(* The store of the leader, once the proposals are applied, has the same   *)
(* messages pending as its memory: the next leader, or the server after a  *)
(* restart, redelivers what this one would.  Not covered: AckAll and       *)
(* MaxDeliver 1, where the two differ, and a leader that has come back.    *)
(***************************************************************************)
StoreAgrees ==
    /\ ~cfg.all /\ cfg.maxdc # 1
    /\ Calm({"reset", "fail"})
    /\ Len(SelectSeq(faults, LAMBDA k : k = "leader")) < 2
    => ApplyOps(stores[lead], phead[lead]).pending = o.pending

(***************************************************************************)
(* Both: a leader knows what was sent, and the next one will.              *)
(***************************************************************************)
LeadersKnow == SentKnown /\ StoreAgrees

(***************************************************************************)
(* Only what is pending is queued for redelivery: a message that was       *)
(* acknowledged, removed or given up meanwhile is not sent again.          *)
(***************************************************************************)
QueuedIsPending == ToSet(o.rdq) \subseteq DOMAIN o.pending

(***************************************************************************)
(* While anything is pending the timer that will redeliver it is armed.    *)
(***************************************************************************)
TimerArmed == DOMAIN o.pending # {} => o.ptmr

(***************************************************************************)
(* Both: what is pending will be redelivered, and nothing else.            *)
(***************************************************************************)
RedeliveryDue == TypeOK /\ QueuedIsPending /\ TimerArmed

(***************************************************************************)
(* A delivery that failed does not count towards MaxDeliver: a message is  *)
(* given up only if the client was sent it, or will be.                    *)
(***************************************************************************)
FailedNotCounted == \A s \in given : got[s] > 0 \/ s \in DOMAIN o.pd
=============================================================================
