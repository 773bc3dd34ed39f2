----------------------------- MODULE StreamGroup -----------------------------
(***************************************************************************)
(* A replicated JetStream stream: server/jetstream_cluster.go,             *)
(* jetstream_batching.go and the clustered side of stream.go.              *)
(*                                                                         *)
(* The leader checks a message (duplicates, expected sequences, limits)    *)
(* against what it has stored and what it has proposed, gives it the next  *)
(* sequence clseq and proposes it to the Raft group.  Every replica        *)
(* applies the committed entries in order: it stores the message at the    *)
(* sequence of the entry less clfs, the number of entries that were        *)
(* refused when they were applied.  The messages of an atomic batch are    *)
(* entries of their own; they are stored when the entry that commits the   *)
(* batch is applied, and refused together when the batch is cut short.     *)
(* Requests to delete or to purge messages are entries too: a replica that *)
(* recovers applies them again to a store that may be further than they    *)
(* are.                                                                    *)
(*                                                                         *)
(* The Raft group (module Raft) is taken as what it promises: one log, a   *)
(* prefix of which is committed for good, and a leader whose log has that  *)
(* prefix.  A new leader appends an empty entry, and tells the stream that *)
(* it leads when the stream has processed that entry.  An entry of the log *)
(* is a committed entry of its own here.                                   *)
(***************************************************************************)
EXTENDS Integers, Sequences, FiniteSets, Functions, FiniteSetsExt, SequencesExt

CONSTANTS
    Replica,     \* the servers of the group
    Configs      \* the streams to check: records of
                 \*   pubs, the messages that clients publish,
                 \*   batches, the atomic batches, sequences of messages,
                 \*   removals, the requests to delete or to purge,
                 \*   maxmsgs (MaxMsgs with DiscardNew, 0 for no limit),
                 \*   len, the bound on the log, and f, the bound on the
                 \*   faults, which are of the given kinds

FaultKinds == {"leader", "crash", "catchup"}

\* A message: its subject, its Nats-Msg-Id (0 for none) and what it expects of
\* the stream: the last sequence, the last sequence of subject es (-1 for no
\* such header) and the id of the last message (0 for none).
Message == [s : Nat, id : Nat, els : Int, elss : Int, es : Nat, elm : Nat]

\* A request to delete a message, or to purge those of subject s (0 for all)
\* below a sequence (0 for none), or all but the last ones.
Removal == [op : {"delete"}, seq : Nat \ {0}]
           \cup {q \in [op : {"purge"}, s : Nat, seq : Nat, keep : Nat] : q.seq = 0 \/ q.keep = 0}

ASSUME ReplicaAssumption == IsFiniteSet(Replica) /\ Replica # {} /\ 0 \notin Replica
ASSUME ConfigsAssumption ==
    \A c \in Configs : /\ c.pubs \subseteq Message
                       /\ \A b \in c.batches : b \in Seq(Message) /\ Len(b) > 0
                       /\ c.removals \subseteq Removal
                       /\ c.maxmsgs \in Nat /\ c.len \in Nat \ {0} /\ c.f \in Nat
                       /\ c.kinds \subseteq FaultKinds

VARIABLES
    cfg,          \* mset.cfg, with the bounds of the run
    log, commit,  \* the log of the group and what is committed of it
    elected,      \* which replica leads the group
    aflr,         \* the entry it has to process before it says so (n.aflr)
    leaderState,  \* it has (n.leaderState)
    m,            \* the streams of the replicas (mset)
    post,         \* the entry after whose processing inflight is still to be cleared
    snap,         \* the last snapshot of each replica
    replay,       \* up to where a replica recovers
    batches,      \* history: how many batches were proposed
    acks,         \* history: what publishers were told
    halted,       \* why a replica stopped to apply entries: it reset ("mismatch")
                  \* or it has a write error ("werr"); "no" while it runs
    faults        \* history: how many faults there were

raftVars == <<log, commit, elected, aflr, leaderState>>
histVars == <<batches, acks, faults>>
vars == <<cfg, raftVars, m, post, snap, replay, halted, histVars>>

Fault(kind) ==
    /\ faults < cfg.f /\ kind \in cfg.kinds
    /\ faults' = faults + 1

NoBatch == [id |-> 0, count |-> 0, from |-> 0]
NoEntry == [op |-> "none"]
EmptyFcn == [x \in {} |-> 0]

\* How many messages of subject s are noted in f, and what f and g note together.
OpsOf(f, s) == IF s \in DOMAIN f THEN f[s] ELSE 0
Plus(f, g) == [s \in DOMAIN f \cup DOMAIN g |-> OpsOf(f, s) + OpsOf(g, s)]
\* One message less of subject t, which is taken out with the last one.
Minus(f, t) == [s \in {u \in DOMAIN f : u # t \/ f[u] > 1} |-> f[s] - (IF s = t THEN 1 ELSE 0)]
Total(f) == FoldFunction(LAMBDA a, b : a + b, 0, f)
Dropping(f, S) == Restrict(f, DOMAIN f \ S)

\* gone are the sequences that are removed from the store.  ahead is history:
\* up to where the store knows more than the applied entries, after a catchup.
InitStream == [store |-> <<>>, gone |-> {}, ahead |-> 0, clfs |-> 0, clseq |-> 0,
               lmsgId |-> 0, dd |-> <<>>, inflight |-> EmptyFcn, expected |-> EmptyFcn, batch |-> NoBatch,
               applied |-> 0, active |-> FALSE]

Init ==
    /\ cfg \in Configs
    /\ log = <<[op |-> "empty"]>> /\ commit = 0
    /\ elected \in Replica
    /\ aflr = 1 /\ leaderState = FALSE
    /\ m = [r \in Replica |-> InitStream]
    /\ post = [r \in Replica |-> NoEntry]
    /\ snap = [r \in Replica |-> [idx |-> 0, lseq |-> 0, gone |-> {}, clfs |-> 0]]
    /\ replay = [r \in Replica |-> 0]
    /\ halted = [r \in Replica |-> "no"]
    /\ batches = 0 /\ acks = {} /\ faults = 0

-----------------------------------------------------------------------------
(***************************************************************************)
(* Duplicates: ddarr is a list of ids and sequences, and ddmap the last    *)
(* entry of each id.  Sequence 0 stands for a message that was proposed.   *)
(***************************************************************************)
DDIndex(dd, id) == Max({0} \cup {i \in DOMAIN dd : dd[i].id = id})

CheckMsgId(dd, id) == IF DDIndex(dd, id) = 0 THEN -1 ELSE dd[DDIndex(dd, id)].seq

StoreMsgId(dd, id, seq) == IF id = 0 THEN dd ELSE Append(dd, [id |-> id, seq |-> seq])

\* The leader completes the entry that it made when it proposed the message.
UpdateMsgId(dd, id, seq, leader) ==
    IF leader /\ DDIndex(dd, id) # 0 THEN [dd EXCEPT ![DDIndex(dd, id)].seq = seq]
    ELSE StoreMsgId(dd, id, seq)

\* What processStreamLeaderChange takes out: the entries without a sequence at
\* the end of ddarr.
TrimStaged(dd) ==
    LET kept == Max({0} \cup {i \in DOMAIN dd : dd[i].seq # 0})
        gone == {dd[i].id : i \in kept + 1 .. Len(dd)}
    IN  FoldLeft(LAMBDA staying, e : IF e.id \in gone THEN staying ELSE Append(staying, e),
                 <<>>, SubSeq(dd, 1, kept))

\* The ids of the messages that follow sequence from are noted, of those that are
\* not gone.
StoreIds(dd, msgs, gone, from) ==
    FoldLeftDomain(LAMBDA noted, i : IF from + i \in gone THEN noted
                                     ELSE StoreMsgId(noted, msgs[i].m.id, from + i),
                   dd, msgs)

-----------------------------------------------------------------------------
(***************************************************************************)
(* checkMsgHeadersPreClusteredProposal: message p against the stream x and *)
(* the changes d that are staged for the earlier messages of its batch.    *)
(***************************************************************************)
NoDiff == [ok |-> TRUE, dup |-> 0, ids |-> <<>>, inflight |-> EmptyFcn,
           expected |-> EmptyFcn]

Live(x) == DOMAIN x.store \ x.gone

LastSeqOf(x, s) == Max({0} \cup {i \in Live(x) : x.store[i].m.s = s})

\* Mutant of DuplicateOk: an id that is only proposed is no duplicate.
DuplicateOkStored(x, d, p) == p.id = 0 \/ (p.id \notin Range(d.ids) /\ CheckMsgId(x.dd, p.id) <= 0)

DuplicateOk(x, d, p) == p.id = 0 \/ (p.id \notin Range(d.ids) /\ CheckMsgId(x.dd, p.id) = -1)

ExpectedLastSeqOk(x, d, p) ==
    p.els = -1 \/ (p.els = x.clseq - x.clfs /\ DOMAIN d.inflight = {})

\* Mutant of ExpectedPerSubjectOk: messages without the header do not block.
ExpectedPerSubjectOkInFlight(x, d, p) ==
    \/ p.elss = -1
    \/ /\ p.es \notin DOMAIN d.inflight /\ p.es \notin Range(x.expected)
       /\ p.elss = LastSeqOf(x, p.es)

ExpectedPerSubjectOk(x, d, p) ==
    \/ p.elss = -1
    \/ /\ p.es \notin DOMAIN d.inflight
       /\ p.es \notin Range(x.expected) /\ p.es \notin DOMAIN x.inflight
       /\ p.elss = IF p.es \in DOMAIN d.expected THEN d.expected[p.es].sseq
                                                 ELSE LastSeqOf(x, p.es)

LimitOk(x, d, p) ==
    cfg.maxmsgs > 0 =>
        Cardinality(Live(x)) + Total(x.inflight) + Total(d.inflight) + 1 <= cfg.maxmsgs

CheckMsg(x, d, p) ==
    IF /\ d.ok /\ DuplicateOk(x, d, p) /\ ExpectedLastSeqOk(x, d, p)
       /\ ExpectedPerSubjectOk(x, d, p) /\ LimitOk(x, d, p)
    THEN [d EXCEPT !.ids = IF p.id = 0 THEN @ ELSE Append(@, p.id),
                   !.inflight = Plus(@, [s \in {p.s} |-> 1]),
                   !.expected = IF p.elss = -1 THEN @
                                ELSE [s \in DOMAIN @ \cup {p.es} |->
                                        IF s = p.es THEN [sseq |-> p.elss, clseq |-> x.clseq]
                                        ELSE @[s]]]
    ELSE [d EXCEPT !.ok = FALSE,
                   !.dup = IF p.id = 0 \/ p.id \in Range(d.ids) THEN 0
                           ELSE Max({0, CheckMsgId(x.dd, p.id)})]

\* batchStagedDiff.commit
CommitDiff(x, d) ==
    LET byClseq == {d.expected[s].clseq : s \in DOMAIN d.expected}
    IN  [x EXCEPT !.dd = @ \o [i \in DOMAIN d.ids |-> [id |-> d.ids[i], seq |-> 0]],
                  !.inflight = Plus(@, d.inflight),
                  !.expected = [c \in DOMAIN @ \cup byClseq |->
                                  IF c \in byClseq
                                  THEN CHOOSE s \in DOMAIN d.expected : d.expected[s].clseq = c
                                  ELSE @[c]]]

\* Mutant of RecalculateClusteredSeq: refused entries have no sequence.
RecalculateClusteredSeqStored(x) == [x EXCEPT !.clseq = Len(x.store) + x.batch.count]

RecalculateClusteredSeq(x) == [x EXCEPT !.clseq = Len(x.store) + x.clfs + x.batch.count]

WithClseq(x) == IF x.clseq = 0 \/ x.clseq < Len(x.store) + x.clfs
                THEN RecalculateClusteredSeq(x) ELSE x

\* Clients reach the stream of a replica that is subscribed, and it proposes if
\* the group takes it for the leader.
CanPropose(r) == r = elected /\ leaderState /\ m[r].active /\ halted[r] = "no"

\* A publisher is told that its message is stored already.
DuplicateAck(p, d) == IF d.dup > 0 THEN {[id |-> p.id, seq |-> d.dup, dup |-> TRUE]} ELSE {}

Publish(r, p) ==
    /\ CanPropose(r) /\ Len(log) < cfg.len
    /\ LET x == WithClseq(m[r])
           d == CheckMsg(x, NoDiff, p)
       IN  /\ d.ok
           /\ log' = Append(log, [op |-> "msg", m |-> p, lseq |-> x.clseq, b |-> 0, bs |-> 0])
           /\ m' = [m EXCEPT ![r] = [CommitDiff(x, d) EXCEPT !.clseq = @ + 1]]
    /\ UNCHANGED <<cfg, commit, elected, aflr, leaderState, post, snap, replay,
                   halted, histVars>>

PublishRefused(r, p) ==
    /\ CanPropose(r) /\ Len(log) < cfg.len
    /\ LET x == WithClseq(m[r])
           d == CheckMsg(x, NoDiff, p)
       IN  /\ ~d.ok
           /\ acks' = acks \cup DuplicateAck(p, d)
           /\ m' = [m EXCEPT ![r] = x]
    /\ UNCHANGED <<cfg, raftVars, post, snap, replay, halted, batches, faults>>

\* processJetStreamAtomicBatchMsg, the commit: all messages are checked with the
\* changes of those before them staged, then proposed together.
CheckBatch(x, b) ==
    FoldLeft(LAMBDA w, p : [x |-> [w.x EXCEPT !.clseq = @ + 1],
                            d |-> CheckMsg(w.x, w.d, p)],
             [x |-> x, d |-> NoDiff], b)

BatchEntries(x, b, id) ==
    [i \in DOMAIN b |->
        [op |-> IF i = Len(b) THEN "batchCommit" ELSE "batchMsg",
         m |-> b[i], lseq |-> x.clseq + i - 1, b |-> id, bs |-> i]]

PublishBatch(r, b) ==
    /\ CanPropose(r) /\ Len(log) + Len(b) <= cfg.len
    /\ \A p \in ToSet(b) : p.elm = 0
    /\ LET x == WithClseq(m[r])
           w == CheckBatch(x, b)
       IN  /\ w.d.ok
           /\ log' = log \o BatchEntries(x, b, batches + 1)
           /\ m' = [m EXCEPT ![r] = CommitDiff(w.x, w.d)]
    /\ batches' = batches + 1
    /\ UNCHANGED <<cfg, commit, elected, aflr, leaderState, post, snap, replay,
                   halted, acks, faults>>

\* Only the leader answers requests to the API of the stream.
CanRequest(r) == r = elected /\ leaderState /\ halted[r] = "no" /\ Len(log) < cfg.len

\* jsClusteredMsgDeleteRequest: nobody looks whether the message is there, or is
\* there yet.
MsgDeleteRequest(r, q) ==
    /\ CanRequest(r) /\ q.op = "delete"
    /\ log' = Append(log, q)
    /\ UNCHANGED <<cfg, commit, elected, aflr, leaderState, m, post, snap, replay,
                   halted, histVars>>

\* jsClusteredStreamPurgeRequest: the entry has the last sequence of the leader, 0
\* when it has stored nothing.  Requests with a sequence beyond the next one are
\* not among the inputs.
StreamPurgeRequest(r, q) ==
    /\ CanRequest(r) /\ q.op = "purge" /\ q.seq <= Len(m[r].store) + 1
    /\ log' = Append(log, [op |-> "purge", s |-> q.s, seq |-> q.seq, keep |-> q.keep,
                           lseq |-> Len(m[r].store)])
    /\ UNCHANGED <<cfg, commit, elected, aflr, leaderState, m, post, snap, replay,
                   halted, histVars>>

Commit ==
    /\ commit < Len(log)
    /\ commit' = commit + 1
    /\ UNCHANGED <<cfg, log, elected, aflr, leaderState, m, post, snap, replay,
                   halted, histVars>>

-----------------------------------------------------------------------------
(***************************************************************************)
(* applyStreamEntries                                                      *)
(***************************************************************************)

\* rejectBatchStateLocked
RejectBatch(x) == [x EXCEPT !.clfs = @ + x.batch.count, !.batch = NoBatch]

\* The replica has the message of entry e; sequences are unsigned.
AlreadyStored(x, e) ==
    \/ e.lseq >= x.clfs /\ e.lseq - x.clfs < Len(x.store)
    \/ e.lseq = 0 /\ Len(x.store) # 0

\* The sequence of the entry is not the next of this replica.
SeqMismatch(x, e) == ~AlreadyStored(x, e) /\ e.lseq # Len(x.store) + x.clfs

\* Nats-Expected-Last-Msg-Id is only looked at here; the error is one of those
\* that applyStreamMsgOp hands to monitorStream, which then stops.
MsgIdMismatch(x, e) ==
    ~AlreadyStored(x, e) /\ ~SeqMismatch(x, e) /\ e.m.elm # 0 /\ e.m.elm # x.lmsgId

Stores(x, e) == ~AlreadyStored(x, e) /\ ~SeqMismatch(x, e) /\ ~MsgIdMismatch(x, e)

\* processJetStreamMsg at a replica that does (or not) lead the group.
ProcessJetStreamMsg(x, e, leader) ==
    IF MsgIdMismatch(x, e) THEN [x EXCEPT !.clfs = @ + 1]
    ELSE IF Stores(x, e)
    THEN [x EXCEPT !.store = Append(@, [op |-> e.op, m |-> e.m, b |-> e.b, bs |-> e.bs]),
                   !.lmsgId = e.m.id,
                   !.dd = IF e.m.id = 0 THEN @
                          ELSE UpdateMsgId(@, e.m.id, Len(x.store) + 1, leader)]
    ELSE x

\* The end of applyStreamMsgOp, which an entry that was skipped does not reach.
ClearInflight(x, e) ==
    [x EXCEPT !.inflight = Minus(@, e.m.s), !.expected = Dropping(@, {e.lseq})]

\* The proposal of the entry is still noted.
Noted(x, e) == e.m.s \in DOMAIN x.inflight \/ e.lseq \in DOMAIN x.expected

\* The message of a batch: the batch before it is cut short if this one is not
\* its next message, and so is its own when a message is missing.
CountBatchMsg(x, e, i) ==
    LET y == IF (x.batch.id # 0 /\ x.batch.id # e.b) \/ e.bs = 1 THEN RejectBatch(x) ELSE x
        z == [y EXCEPT !.batch = [id |-> e.b, count |-> @.count + 1,
                                  from |-> IF e.bs = 1 THEN i ELSE @.from]]
    IN  IF e.bs = z.batch.count THEN z ELSE RejectBatch(z)

\* The entries of the batch that entry e commits, all from its first message on.
BatchToApply(y, i) == IF y.batch.id = 0 THEN <<>> ELSE SubSeq(log, y.batch.from, i)

\* They are applied under one lock.
ApplyBatchCommit(y, i, leader) ==
    FoldLeft(LAMBDA z, f : IF AlreadyStored(z, f) \/ SeqMismatch(z, f) THEN z
                           ELSE ClearInflight(ProcessJetStreamMsg(z, f, leader), f),
             [y EXCEPT !.batch = NoBatch], BatchToApply(y, i))

\* Mutant of StoredAck: the sequence of the proposal is told.
StoredAckProposed(r, x, y, e) ==
    IF r = elected /\ Len(y.store) > Len(x.store)
    THEN {[id |-> e.m.id, seq |-> e.lseq + 1, dup |-> FALSE]} ELSE {}

\* The publisher's answer, from the replica that leads when it stores.
StoredAck(r, x, y, e) ==
    IF r = elected /\ Len(y.store) > Len(x.store)
    THEN {[id |-> e.m.id, seq |-> Len(y.store), dup |-> FALSE]} ELSE {}

NextEntry(r) == log[m[r].applied + 1]

CanApply(r) == m[r].applied < commit /\ halted[r] = "no" /\ post[r] = NoEntry

\* An entry without content ends a batch.  It is with the first entry of its
\* term that the group takes a new leader for one (raft.Processed).
ApplyEmpty(r) ==
    /\ CanApply(r) /\ NextEntry(r).op = "empty"
    /\ m' = [m EXCEPT ![r] = [RejectBatch(m[r]) EXCEPT !.applied = @ + 1]]
    /\ leaderState' = (leaderState \/ (r = elected /\ m[r].applied + 1 >= aflr))
    /\ UNCHANGED <<cfg, log, commit, elected, aflr, post, snap, replay, halted, histVars>>

\* Publishers may come between the storing of a message and the clearing of
\* what was noted for it.
ApplyMsg(r) ==
    /\ CanApply(r) /\ NextEntry(r).op = "msg"
    /\ LET e == NextEntry(r)
           x == RejectBatch(m[r])
           y == ProcessJetStreamMsg(x, e, r = elected)
       IN  /\ m' = [m EXCEPT ![r] = [y EXCEPT !.applied = @ + 1]]
           /\ post' = [post EXCEPT ![r] = IF ~AlreadyStored(x, e) /\ Noted(x, e)
                                          THEN e ELSE NoEntry]
           /\ halted' = [halted EXCEPT ![r] = IF SeqMismatch(x, e) THEN "mismatch"
                                              ELSE IF MsgIdMismatch(x, e) THEN "werr"
                                              ELSE @]
           /\ acks' = acks \cup StoredAck(r, x, y, e)
    /\ UNCHANGED <<cfg, raftVars, snap, replay, batches, faults>>

AfterMsg(r) ==
    /\ post[r] # NoEntry
    /\ m' = [m EXCEPT ![r] = ClearInflight(@, post[r])]
    /\ post' = [post EXCEPT ![r] = NoEntry]
    /\ UNCHANGED <<cfg, raftVars, snap, replay, halted, histVars>>

ApplyBatchMsg(r) ==
    /\ CanApply(r) /\ NextEntry(r).op = "batchMsg"
    /\ m' = [m EXCEPT ![r] = [CountBatchMsg(m[r], NextEntry(r), m[r].applied + 1)
                                  EXCEPT !.applied = @ + 1]]
    /\ UNCHANGED <<cfg, raftVars, post, snap, replay, halted, histVars>>

ApplyBatch(r) ==
    /\ CanApply(r) /\ NextEntry(r).op = "batchCommit"
    /\ LET i == m[r].applied + 1
           y == CountBatchMsg(m[r], log[i], i)
           z == ApplyBatchCommit(y, i, r = elected)
       IN  /\ m' = [m EXCEPT ![r] = [z EXCEPT !.applied = i]]
           /\ acks' = acks \cup StoredAck(r, m[r], z, log[i])
           /\ halted' = [halted EXCEPT ![r] =
                            IF y.batch.id # 0 /\ SeqMismatch(y, log[y.batch.from])
                            THEN "mismatch" ELSE @]
    /\ UNCHANGED <<cfg, raftVars, post, snap, replay, batches, faults>>

\* PurgeEx of the file store: a sequence of 1 is no bound.
PurgeEx(x, s, seq, keep) ==
    LET matching == {i \in Live(x) : s = 0 \/ x.store[i].m.s = s}
    IN  IF keep > 0 THEN {i \in matching : Cardinality({j \in matching : j > i}) >= keep}
        ELSE {i \in matching : seq > 1 => i < seq}

\* Mutant of RemovedBy: a purge takes what is there when it is applied.
RemovedByNow(x, e, recovering) ==
    IF e.op = "delete" THEN {e.seq} \cap Live(x)
    ELSE IF e.seq = 0 /\ e.keep > 0 /\ recovering THEN {}
    ELSE PurgeEx(x, e.s, e.seq, e.keep)

\* What entry e removes: a purge without a sequence is up to the last one of the
\* leader; with a number to keep it is not done again.
RemovedBy(x, e, recovering) ==
    IF e.op = "delete" THEN {e.seq} \cap Live(x)
    ELSE IF e.seq = 0 /\ e.keep > 0 /\ recovering THEN {}
    ELSE PurgeEx(x, e.s, IF e.seq = 0 /\ e.keep = 0 THEN e.lseq + 1 ELSE e.seq, e.keep)

\* isRecovering is over when the entries are applied that the replica's own log knew
\* to be committed, which may be before replay.
ApplyRemoval(r) ==
    /\ CanApply(r) /\ NextEntry(r).op \in {"delete", "purge"}
    /\ \E recovering \in BOOLEAN :
           LET x == RejectBatch(m[r])
           IN  /\ recovering => x.applied < replay[r]
               /\ m' = [m EXCEPT ![r] =
                           [x EXCEPT !.applied = @ + 1,
                                     !.gone = @ \cup RemovedBy(x, NextEntry(r), recovering)]]
    /\ UNCHANGED <<cfg, raftVars, post, snap, replay, halted, histVars>>

-----------------------------------------------------------------------------
(***************************************************************************)
(* Changes of leader, snapshots, restarts.                                 *)
(***************************************************************************)

\* Another replica wins the election: what is not committed may be lost with the
\* old leader, the new one appends an empty entry.  The old leader has handled
\* its step down before it leads again.
LeaderChange(r, k) ==
    /\ Fault("leader") /\ halted[r] = "no" /\ ~m[r].active
    /\ k \in commit .. Len(log) /\ k < cfg.len
    /\ log' = Append(SubSeq(log, 1, k), [op |-> "empty"])
    /\ elected' = r /\ aflr' = k + 1 /\ leaderState' = FALSE
    /\ UNCHANGED <<cfg, commit, m, post, snap, replay, halted, batches, acks>>

\* Mutant of ForgetProposals: what was in flight stays noted.
ForgetProposalsKeepInflight(x) ==
    [x EXCEPT !.dd = TrimStaged(@), !.expected = EmptyFcn, !.clseq = 0]

\* processStreamLeaderChange, what it does in either case.
ForgetProposals(x) ==
    [x EXCEPT !.dd = TrimStaged(@), !.inflight = EmptyFcn, !.expected = EmptyFcn,
              !.clseq = 0]

\* The monitor of the stream reads the change of leader between two entries.
ProcessLeaderChange(r) ==
    /\ halted[r] = "no" /\ post[r] = NoEntry
    /\ m[r].active # (r = elected /\ leaderState)
    /\ m' = [m EXCEPT ![r] = [ForgetProposals(m[r]) EXCEPT !.active = ~@]]
    /\ UNCHANGED <<cfg, raftVars, post, snap, replay, halted, histVars>>

\* Mutant of SnapshotIndex: what is processed counts as applied.
SnapshotIndexProcessed(x) == x.applied

\* n.applied: entries of a batch that is not applied yet are not in a snapshot.
SnapshotIndex(x) == IF x.batch.id # 0 THEN x.batch.from - 1 ELSE x.applied

StateSnapshot(x) == [idx |-> SnapshotIndex(x), lseq |-> Len(x.store), gone |-> x.gone,
                     clfs |-> x.clfs]

\* doSnapshot: what is stored is flushed first.
Snapshot(r) ==
    /\ halted[r] = "no" /\ post[r] = NoEntry /\ cfg.kinds \cap {"crash", "catchup"} # {}
    /\ m[r].applied >= replay[r]
    /\ SnapshotIndex(m[r]) > snap[r].idx
    /\ snap' = [snap EXCEPT ![r] = StateSnapshot(m[r])]
    /\ UNCHANGED <<cfg, raftVars, m, post, replay, halted, histVars>>

\* rebuildDedupe, with all messages in the window of duplicates.
RebuildDedupe(x, store, gone) ==
    [x EXCEPT !.store = store, !.gone = gone,
              !.dd = StoreIds(<<>>, store, gone, 0),
              !.lmsgId = IF Len(store) \in {0} \cup gone THEN 0 ELSE Last(store).m.id]

\* A server comes back with what it had flushed, maybe more, and the state of
\* its snapshot, and applies what is committed since.
Restart(r, kept, gone) ==
    /\ r # elected /\ halted[r] = "no" /\ Fault("crash")
    /\ gone \subseteq 1 .. kept
    /\ m' = [m EXCEPT ![r] = [RebuildDedupe(InitStream, SubSeq(m[r].store, 1, kept), gone)
                                  EXCEPT !.clfs = snap[r].clfs, !.applied = snap[r].idx]]
    /\ post' = [post EXCEPT ![r] = NoEntry]
    /\ replay' = [replay EXCEPT ![r] = commit]
    /\ UNCHANGED <<cfg, raftVars, snap, halted, batches, acks>>

\* What is deleted in the snapshot, those that are still to come included.
ProcessSnapshotDeletes(x, s) == [x EXCEPT !.gone = @ \cup s.gone]

\* processSnapshot: the entries that the replica misses are gone from the log of
\* the leader.  It takes the state of the leader's snapshot, and the messages
\* that it does not have one by one from the leader (processCatchupMsg), which
\* says of those that it has no more that they are deleted.
ProcessSnapshot(x, s, leader) ==
    LET have == Len(x.store)
        missing == SubSeq(leader.store, have + 1, Max({have, s.lseq}))
        deleted == leader.gone \cap (have + 1 .. have + Len(missing))
    IN  [ProcessSnapshotDeletes(x, s) EXCEPT
                  !.store = @ \o missing, !.gone = @ \cup deleted,
                  !.ahead = leader.applied,
                  !.dd = StoreIds(@, missing, deleted, have),
                  !.batch = NoBatch, !.clfs = s.clfs, !.applied = s.idx]

Catchup(r) ==
    /\ r # elected /\ halted[r] = "no" /\ post[r] = NoEntry /\ Fault("catchup")
    /\ snap[elected].idx > m[r].applied
    /\ m' = [m EXCEPT ![r] = ProcessSnapshot(@, snap[elected], m[elected])]
    /\ snap' = [snap EXCEPT ![r] = snap[elected]]
    /\ UNCHANGED <<cfg, raftVars, post, replay, halted, batches, acks>>

-----------------------------------------------------------------------------
Next ==
    \/ Commit
    \/ \E r \in Replica :
        \/ \E p \in cfg.pubs : Publish(r, p) \/ PublishRefused(r, p)
        \/ \E b \in cfg.batches : PublishBatch(r, b)
        \/ \E q \in cfg.removals : MsgDeleteRequest(r, q) \/ StreamPurgeRequest(r, q)
        \/ ApplyEmpty(r) \/ ApplyMsg(r) \/ AfterMsg(r) \/ ApplyBatchMsg(r) \/ ApplyBatch(r)
        \/ ApplyRemoval(r)
        \/ \E k \in 0 .. cfg.len : LeaderChange(r, k)
        \/ ProcessLeaderChange(r) \/ Snapshot(r) \/ Catchup(r)
        \/ \E kept \in snap[r].lseq .. Len(m[r].store), gone \in {snap[r].gone, m[r].gone} :
              Restart(r, kept, gone)

Spec == Init /\ [][Next]_vars

-----------------------------------------------------------------------------
(***************************************************************************)
(* Properties                                                              *)
(***************************************************************************)
\* The values of the variables, as the stream keeps them: what is noted for a
\* subject is taken out when nothing is in flight any more (inflight has no
\* entry of zero), and the applied entries are committed ones.
TypeOK ==
    /\ cfg \in Configs
    /\ commit \in 0 .. Len(log) /\ Len(log) <= cfg.len
    /\ elected \in Replica /\ aflr \in 1 .. Len(log) /\ leaderState \in BOOLEAN
    /\ \A r \in Replica :
        /\ m[r].clfs \in Nat /\ m[r].clseq \in Nat /\ m[r].active \in BOOLEAN
        /\ m[r].applied \in 0 .. commit /\ m[r].gone \subseteq DOMAIN m[r].store
        /\ Range(m[r].inflight) \subseteq Nat \ {0}
        /\ \A i \in DOMAIN m[r].dd : m[r].dd[i].seq \in 0 .. Len(m[r].store)
        /\ m[r].batch.count > 0 <=> m[r].batch.id # 0
        /\ halted[r] \in {"no", "mismatch", "werr"}
        /\ snap[r].idx <= commit

\* The sequence that a leader gives a proposal is the next one of every replica
\* that applies it, whatever leaders, abandoned batches and restarts came
\* before: errLastSeqMismatch, which resets the stream, is never met.
SequencesMatch == \A r \in Replica : halted[r] # "mismatch"

\* Replicas hold the same messages under the same sequences.  Those that have
\* applied the same entries agree on what decides about the next one, and on the
\* messages once they have applied all that they may have stored before they
\* were restarted.
StoresAgree ==
    \A r, q \in Replica :
        /\ IsPrefix(m[r].store, m[q].store) \/ IsPrefix(m[q].store, m[r].store)
        /\ (m[r].applied = m[q].applied /\ halted[r] = "no" /\ halted[q] = "no") =>
               /\ m[r].clfs = m[q].clfs /\ m[r].batch = m[q].batch
               /\ (m[r].applied >= replay[r] /\ m[q].applied >= replay[q]) =>
                      m[r].store = m[q].store

\* Both: a sequence means the same message everywhere.
GroupAgrees == SequencesMatch /\ StoresAgree

Recovered(r) ==
    m[r].applied >= replay[r] /\ m[r].applied >= m[r].ahead /\ halted[r] # "mismatch"

\* A reader of a replica that has recovered sees all messages of a batch next to
\* each other, or none.
BatchAtomic ==
    \A r \in Replica : Recovered(r) =>
        LET store == m[r].store
        IN  \A i \in DOMAIN store : store[i].b # 0 =>
                /\ store[i].bs > 1 => i > 1 /\ store[i - 1].b = store[i].b
                                            /\ store[i - 1].bs = store[i].bs - 1
                /\ store[i].op = "batchMsg" => i < Len(store) /\ store[i + 1].b = store[i].b

\* No message id is in the stream twice, also when the first copy is still in
\* flight or was proposed by an earlier leader; one that was removed may come back.
DedupeOnce ==
    \A r \in Replica : Recovered(r) => \A i, j \in Live(m[r]) :
        (i # j /\ m[r].store[i].m.id # 0) => m[r].store[i].m.id # m[r].store[j].m.id

\* How many messages the first i entries of the log store: single ones, and those
\* of the batches that are complete.
StoredBy(i) ==
    Cardinality({j \in 1 .. i :
        \/ log[j].op = "msg"
        \/ /\ log[j].op \in {"batchMsg", "batchCommit"}
           /\ \E k \in j .. i : log[k].op = "batchCommit" /\ log[k].b = log[j].b})

\* Entry i of the log removes the same when it is applied again to a store that has
\* gone on.  The code proposes three kinds that do not: a delete of a sequence that
\* is still to come; a purge with sequence 1, which is no bound, and which is also
\* what a leader that has stored nothing stamps; and a purge that keeps a number of
\* messages, which a replica that recovers skips.
Repeatable(i) ==
    LET e == log[i]
    IN  /\ e.op = "delete" => e.seq <= StoredBy(i - 1)
        /\ (e.op = "purge" /\ e.keep = 0) => (IF e.seq = 0 THEN e.lseq > 0 ELSE e.seq > 1)
        /\ (e.op = "purge" /\ e.keep > 0) => cfg.kinds \subseteq {"leader"}
RemovalsRepeatable == \A i \in 1 .. commit : Repeatable(i)

\* Replicas that have applied the same entries hold the same messages and have
\* removed the same ones, also when one has stopped at the last of them.
RemovalsAgree ==
    \A r, q \in Replica :
        (m[r].applied = m[q].applied /\ Recovered(r) /\ Recovered(q)) =>
            m[r].store = m[q].store /\ m[r].gone = m[q].gone

\* MaxMsgs with DiscardNew holds at every replica, with proposals in flight and
\* when the room was made by removals.
LimitKept ==
    \A r \in Replica : (cfg.maxmsgs > 0 /\ Recovered(r)) => Cardinality(Live(m[r])) <= cfg.maxmsgs

\* What readers still find in the stream is the same at every replica, there once,
\* and no more than the stream may hold, unless a removal is committed that does not
\* remove the same when it is applied again.
LiveAgree == RemovalsRepeatable => RemovalsAgree /\ DedupeOnce /\ LimitKept

\* A publisher that was told a sequence finds its message there (or the place
\* where it was), at the replica that leads and at all that have that sequence.
AckedStored ==
    \A a \in acks : \A r \in Replica :
        /\ Len(m[r].store) >= a.seq => m[r].store[a.seq].m.id = a.id
        /\ (r = elected /\ m[r].active /\ leaderState) => Len(m[r].store) >= a.seq

\* A message that expects the last sequence of the stream directly follows it,
\* although the leader compares with what it has proposed.
ExpectedSeqKept ==
    \A r \in Replica : \A i \in DOMAIN m[r].store :
        m[r].store[i].m.els # -1 => i = m[r].store[i].m.els + 1

\* When a message that expects the last sequence of a subject is stored, that is
\* still the last one: nothing of the subject overtook it on the way.  A removal
\* may: the last one that is left is then another.
ExpectedSubjectKept ==
    cfg.removals = {} => \A r \in Replica : \A i \in DOMAIN m[r].store :
        LET p == m[r].store[i].m
        IN  p.elss # -1 => LastSeqOf([m[r] EXCEPT !.store = SubSeq(@, 1, i - 1)], p.es) = p.elss

\* Both: what a leader found when it compared a message with what it had stored
\* and proposed is true when the message is stored.
ChecksStillHold == ExpectedSeqKept /\ ExpectedSubjectKept

\* What a leader has noted as in flight is what it has proposed and not applied:
\* nothing leaks, which would refuse later messages for good.
InflightExact ==
    \A r \in Replica :
        (r = elected /\ leaderState /\ m[r].active /\ post[r] = NoEntry /\ halted[r] = "no") =>
            LET open == {i \in SnapshotIndex(m[r]) + 1 .. Len(log) : log[i].op \in {"msg", "batchMsg", "batchCommit"}}
            IN  /\ DOMAIN m[r].inflight = {log[i].m.s : i \in open}
                /\ \A s \in DOMAIN m[r].inflight :
                       m[r].inflight[s] = Cardinality({i \in open : log[i].m.s = s})

\* With the types: what the stream keeps about its proposals is right.
ProposalsTracked == TypeOK /\ InflightExact

=============================================================================
