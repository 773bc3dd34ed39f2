------------------------------ MODULE IpQueue ------------------------------
(***************************************************************************)
(* The intra-process queue of server/ipqueue.go: a slice guarded by a      *)
(* mutex, and a notification channel of capacity one.  Every subsystem of  *)
(* the server (Raft, streams, consumers, the system account, the JetStream *)
(* API) hands work to another goroutine through one of these queues.       *)
(*                                                                         *)
(* A section executed under q.Lock() is one action.  push() signals the    *)
(* channel AFTER it has unlocked, so a push is two actions; a consumer     *)
(* receives from the channel and only then calls pop() or popOne(), so a   *)
(* consumer is at least two actions.  drain() may come from any goroutine. *)
(***************************************************************************)
EXTENDS Integers, Sequences, SequencesExt, FiniteSetsExt

CONSTANTS
    Producers,    \* goroutines that push
    Consumers,    \* goroutines that receive from q.ch and then pop
    Buffers,      \* the backing arrays of q.elts
    Nil,          \* the nil slice
    Calc(_),      \* q.calc: the size of an entry
    MaxLen,       \* q.mlen, 0 for no limit
    MaxSize,      \* q.msz, 0 for no limit
    MaxPush       \* bound: the number of pushes of one producer

ASSUME ProcessesDisjoint == Producers \cap Consumers = {}
ASSUME FinitelyManyConsumers == IsFiniteSet(Consumers)
ASSUME NilIsNoBuffer == Nil \notin Buffers
ASSUME BoundsAreNaturals == MaxLen \in Nat /\ MaxSize \in Nat /\ MaxPush \in Nat

(***************************************************************************)
(* An entry is identified by its producer and its number there, so that    *)
(* loss, duplication and reordering of entries are visible.                *)
(***************************************************************************)
Entries == Producers \X (1 .. MaxPush)

ASSUME CalcIsNatural == \A e \in Entries : Calc(e) \in Nat

VARIABLES
    mem,         \* what each backing array holds
    qbuf,        \* the array q.elts points to, or Nil
    pos,         \* q.pos: entries of q.elts already taken by popOne
    sz,          \* q.sz
    ch,          \* tokens in q.ch, 0 or 1
    inprogress,  \* q.inprogress
    pool,        \* the arrays in q.pool
    pc,          \* where each goroutine is
    batch,       \* what pop() returned to each consumer, not yet recycled
    next,        \* the next entry of each producer
    appended,    \* history: every entry appended to the queue, in order
    taken        \* history: every entry popped or drained, in order

vars == <<mem, qbuf, pos, sz, ch, inprogress, pool, pc, batch, next, appended,
          taken>>

queue == <<mem, qbuf, pos, sz, pool>>

elts == IF qbuf = Nil THEN <<>> ELSE mem[qbuf]

Pending == SubSeq(elts, pos + 1, Len(elts))

\* len(q.elts) - q.pos
QLen == Len(elts) - pos

NoBatch == [buf |-> Nil, from |-> 0, elts |-> <<>>]

Init ==
    /\ mem = [b \in Buffers |-> <<>>]
    /\ qbuf = Nil
    /\ pos = 0
    /\ sz = 0
    /\ ch = 0
    /\ inprogress = 0
    /\ pool = {}
    /\ pc = [p \in Producers \cup Consumers |->
                IF p \in Producers THEN "idle" ELSE "waiting"]
    /\ batch = [c \in Consumers |-> NoBatch]
    /\ next = [p \in Producers |-> 1]
    /\ appended = <<>>
    /\ taken = <<>>

(***************************************************************************)
(* q.pool.Get(): one of the pooled arrays or, whatever the pool holds (the *)
(* collector may empty a sync.Pool), a new one.  A new array is one that   *)
(* nobody refers to.                                                       *)
(***************************************************************************)
Unreferenced == {b \in Buffers : /\ b # qbuf
                                 /\ b \notin pool
                                 /\ \A c \in Consumers : batch[c].buf # b}

GetBuffer(b) ==
    IF qbuf # Nil THEN b = qbuf ELSE b \in pool \cup Unreferenced

(***************************************************************************)
(* push: both limits are checked before anything changes; the entry is     *)
(* appended under the lock; only the pusher that found the queue empty     *)
(* goes on to signal.                                                      *)
(***************************************************************************)
AtLenLimit == MaxLen > 0 /\ QLen = MaxLen

\* Mutant of MustSignal: the length is read again after the append.
MustSignalAfterAppend == QLen + 1 = 0
MustSignal == QLen = 0

AtSizeLimit(e) == MaxSize > 0 /\ sz + Calc(e) > MaxSize

PushRefused(p) ==
    LET e == <<p, next[p]>> IN
    /\ pc[p] = "idle" /\ next[p] <= MaxPush
    /\ AtLenLimit \/ AtSizeLimit(e)
    /\ next' = [next EXCEPT ![p] = @ + 1]
    /\ UNCHANGED <<queue, ch, inprogress, pc, batch, appended, taken>>

PushAppend(p) ==
    LET e == <<p, next[p]>> IN
    /\ pc[p] = "idle" /\ next[p] <= MaxPush
    /\ ~AtLenLimit /\ ~AtSizeLimit(e)
    /\ \E b \in Buffers :
          /\ GetBuffer(b)
          /\ qbuf' = b
          /\ mem' = [mem EXCEPT ![b] =
                        Append(IF b \in pool \cup {qbuf} THEN @ ELSE <<>>, e)]
          /\ pool' = pool \ {b}
    /\ sz' = sz + Calc(e)
    /\ next' = [next EXCEPT ![p] = @ + 1]
    /\ pc' = [pc EXCEPT ![p] = IF MustSignal THEN "signal" ELSE "idle"]
    /\ appended' = Append(appended, e)
    /\ UNCHANGED <<pos, ch, inprogress, batch, taken>>

\* The select with a default: a full channel is left as it is.
PushSignal(p) ==
    /\ pc[p] = "signal"
    /\ ch' = 1
    /\ pc' = [pc EXCEPT ![p] = "idle"]
    /\ UNCHANGED <<queue, inprogress, batch, next, appended, taken>>

\* A consumer's  case <-q.ch:
Receive(c) ==
    /\ pc[c] = "waiting"
    /\ ch = 1
    /\ ch' = 0
    /\ pc' = [pc EXCEPT ![c] = "notified"]
    /\ UNCHANGED <<queue, inprogress, batch, next, appended, taken>>

\* pop() or popOne() after a drain, or after another consumer was faster.
PopNothing(c) ==
    /\ pc[c] = "notified"
    /\ QLen = 0
    /\ pc' = [pc EXCEPT ![c] = "waiting"]
    /\ UNCHANGED <<queue, ch, inprogress, batch, next, appended, taken>>

\* Mutant of ForgetArray: pop() truncates q.elts instead of letting it go.
ForgetArrayReused == qbuf' = qbuf /\ pos' = 0 /\ sz' = 0
ForgetArray == qbuf' = Nil /\ pos' = 0 /\ sz' = 0

\* pop(): the caller gets the array itself and the queue forgets it.
Pop(c) ==
    /\ pc[c] = "notified"
    /\ QLen # 0
    /\ batch' = [batch EXCEPT ![c] =
                    [buf |-> qbuf, from |-> pos, elts |-> Pending]]
    /\ ForgetArray
    /\ inprogress' = inprogress + QLen
    /\ taken' = taken \o Pending
    /\ pc' = [pc EXCEPT ![c] = "holding"]
    /\ UNCHANGED <<mem, ch, pool, next, appended>>

(***************************************************************************)
(* popOne(): while entries remain it signals again, under the lock.  When  *)
(* it empties the queue it keeps the array, unless the array has grown     *)
(* past q.mrs (capacities are abstracted: either may be the case).         *)
(***************************************************************************)
\* Mutant of TakeFirst: the size is kept, as in a queue without q.calc.
TakeFirstKeepSize == pos' = pos + 1 /\ sz' = sz /\ ch' = 1
\* Mutant of TakeFirst: the channel is not a select with a default.
TakeFirstCounting ==
    pos' = pos + 1 /\ sz' = sz - Calc(elts[pos + 1]) /\ ch' = ch + 1
\* Mutant of TakeFirst: no new signal.
TakeFirstSilently ==
    pos' = pos + 1 /\ sz' = sz - Calc(elts[pos + 1]) /\ ch' = ch
TakeFirst == pos' = pos + 1 /\ sz' = sz - Calc(elts[pos + 1]) /\ ch' = 1

PopOne(c) ==
    /\ pc[c] = "notified"
    /\ QLen # 0
    /\ taken' = Append(taken, elts[pos + 1])
    /\ IF QLen > 1
         THEN /\ TakeFirst
              /\ UNCHANGED <<mem, qbuf>>
         ELSE /\ \/ /\ mem' = [mem EXCEPT ![qbuf] = <<>>]
                    /\ UNCHANGED qbuf
                 \/ /\ qbuf' = Nil
                    /\ UNCHANGED mem
              /\ pos' = 0 /\ sz' = 0
              /\ UNCHANGED ch
    /\ pc' = [pc EXCEPT ![c] = "waiting"]
    /\ UNCHANGED <<inprogress, pool, batch, next, appended>>

\* Mutant of Truncated: the array goes to the pool at its full length.
TruncatedNot(s) == s
Truncated(s) == <<>>

\* recycle(): back to the pool, unless the array has grown past q.mrs.
Recycle(c) ==
    /\ pc[c] = "holding"
    /\ inprogress' = inprogress - Len(batch[c].elts)
    /\ \/ /\ pool' = pool \cup {batch[c].buf}
          /\ mem' = [mem EXCEPT ![batch[c].buf] = Truncated(@)]
       \/ UNCHANGED <<pool, mem>>
    /\ batch' = [batch EXCEPT ![c] = NoBatch]
    /\ pc' = [pc EXCEPT ![c] = "waiting"]
    /\ UNCHANGED <<qbuf, pos, sz, ch, next, appended, taken>>

\* drain(): empties the queue and consumes the token, all under the lock.
Drain ==
    /\ taken' = taken \o Pending
    /\ qbuf' = Nil /\ pos' = 0 /\ sz' = 0
    /\ ch' = 0
    /\ UNCHANGED <<mem, inprogress, pool, pc, batch, next, appended>>

Push(p) == PushRefused(p) \/ PushAppend(p) \/ PushSignal(p)
Consume(c) == Receive(c) \/ PopNothing(c) \/ Pop(c) \/ PopOne(c) \/ Recycle(c)

Next ==
    \/ \E p \in Producers : Push(p)
    \/ \E c \in Consumers : Consume(c)
    \/ Drain

(***************************************************************************)
(* A goroutine that is past its lock runs on, and a consumer loop always   *)
(* comes back to its receive.  Neither new pushes nor drains are promised. *)
(***************************************************************************)
Fairness ==
    /\ \A p \in Producers : WF_vars(PushSignal(p))
    /\ \A c \in Consumers : WF_vars(Consume(c))

Spec == Init /\ [][Next]_vars /\ Fairness

-----------------------------------------------------------------------------
TypeOK ==
    /\ mem \in [Buffers -> Seq(Entries)]
    /\ qbuf \in Buffers \cup {Nil}
    /\ pos \in Nat
    /\ sz \in Int
    /\ ch \in {0, 1}
    /\ inprogress \in Int
    /\ pool \subseteq Buffers
    /\ pc \in [Producers \cup Consumers ->
                  {"idle", "signal", "waiting", "notified", "holding"}]
    /\ \A p \in Producers : pc[p] \in {"idle", "signal"}
    /\ \A c \in Consumers : pc[c] \in {"waiting", "notified", "holding"}
    /\ batch \in [Consumers -> [buf : Buffers \cup {Nil}, from : Nat,
                                elts : Seq(Entries)]]
    /\ next \in [Producers -> 1 .. MaxPush + 1]
    /\ appended \in Seq(Entries)
    /\ taken \in Seq(Entries)

(***************************************************************************)
(* No lost wake-up.  Signalling only from the push that found the queue    *)
(* empty, only after the unlock, and without ever blocking, is enough:     *)
(* while entries are queued there is a token in q.ch, or a pusher that has *)
(* yet to put one, or a consumer that has received one and has yet to pop. *)
(***************************************************************************)
NoLostWakeup ==
    QLen > 0 => \/ ch = 1
                \/ \E p \in Producers : pc[p] = "signal"
                \/ \E c \in Consumers : pc[c] = "notified"

(***************************************************************************)
(* push, pop, popOne and drain lose, repeat and reorder nothing: what has  *)
(* left the queue followed by what is in it is what was appended.          *)
(***************************************************************************)
Fifo == appended = taken \o Pending

(***************************************************************************)
(* An array handed out by pop() belongs to its consumer until recycle():   *)
(* no push writes to it, although the queue goes on reusing arrays, so a   *)
(* batch reads the same for as long as the consumer holds it.              *)
(***************************************************************************)
BatchIntact ==
    \A c \in Consumers : pc[c] = "holding" =>
        LET b == batch[c] IN
        SubSeq(mem[b.buf], b.from + 1, Len(mem[b.buf])) = b.elts

(***************************************************************************)
(* Who owns the arrays: one in the pool is empty and is not the queue's,   *)
(* one held by a consumer is nobody else's.  With the position of popOne   *)
(* within the slice, this is what Fifo and BatchIntact rest on.            *)
(***************************************************************************)
ArraysOwned ==
    /\ pos <= Len(elts)
    /\ qbuf \notin pool
    /\ \A b \in pool : mem[b] = <<>>
    /\ \A c \in Consumers :
          IF pc[c] = "holding"
            THEN /\ batch[c].buf \in Buffers \ pool
                 /\ batch[c].buf # qbuf
            ELSE batch[c] = NoBatch
    /\ \A c, d \in Consumers :
          pc[c] = "holding" /\ pc[d] = "holding" /\ c # d =>
              batch[c].buf # batch[d].buf

SumCalc(s) == SumFunction([k \in DOMAIN s |-> Calc(s[k])])

(***************************************************************************)
(* The counters agree with the contents in every state: q.sz is the size   *)
(* of the queued entries (popOne subtracts, the others reset), neither     *)
(* limit is exceeded, and q.inprogress counts the entries of the batches   *)
(* popped and not yet recycled.                                            *)
(***************************************************************************)
CountersAgree ==
    /\ sz = SumCalc(Pending)
    /\ MaxLen > 0 => QLen <= MaxLen
    /\ MaxSize > 0 => sz <= MaxSize
    /\ inprogress = SumFunction([c \in Consumers |-> Len(batch[c].elts)])

(***************************************************************************)
(* Every queued entry is taken in the end, by whatever consumer, once the  *)
(* pushers that must signal do so.                                         *)
(***************************************************************************)
EventuallyTaken == (QLen > 0) ~> (QLen = 0)

=============================================================================
