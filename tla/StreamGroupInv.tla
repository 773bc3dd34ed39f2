---------------------------- MODULE StreamGroupInv ----------------------------
(***************************************************************************)
(* The inductive invariants of a replicated stream.                        *)
(*                                                                         *)
(* What a replica holds after entry i of the log is a function of the log: *)
(* Size(log, i) messages are stored and Refused(log, i) entries are        *)
(* refused, and the messages of a batch that is not complete wait.         *)
(* GroupInv says that every replica is at that point for the entries that  *)
(* it has applied, up to what it stored before a restart; that the         *)
(* sequence of every entry is the number of those before it that were      *)
(* proposed and are stored, refused or waiting; and that the leader counts *)
(* them the same way.                                                      *)
(*                                                                         *)
(* On top of it: a message that expects the last sequence gets the next    *)
(* one (ExpectInv), what a leader has noted as in flight is what it has    *)
(* proposed and not applied (TrackInv), the types (ShapeInv), and a        *)
(* message that expects the last sequence of a subject follows it          *)
(* (SubjectInv).                                                           *)
(***************************************************************************)
EXTENDS StreamGroup

\* The operators of the folds, with the sequence they are over.
AddWeight(w, q, sum, i) == sum + w[i]
StayItem(gone, dd, staying, i) ==
    IF dd[i].id \in gone THEN staying ELSE Append(staying, dd[i])
NoteItem(c, msgs, noted, k) ==
    LET i == [j \in DOMAIN msgs |-> j][k]
    IN  IF c.from + i \in c.gone THEN noted
        ELSE StoreMsgId(noted, msgs[i].m.id, c.from + i)
CheckItem(c, b, w, i) ==
    [x |-> [w.x EXCEPT !.clseq = @ + 1], d |-> CheckMsg(w.x, w.d, b[i])]
CommitItem(leader, q, z, i) ==
    IF AlreadyStored(z, q[i]) \/ SeqMismatch(z, q[i]) THEN z
    ELSE ClearInflight(ProcessJetStreamMsg(z, q[i], leader), q[i])

Sums == INSTANCE Folding WITH Op <- AddWeight
Stays == INSTANCE Folding WITH Op <- StayItem
Notes == INSTANCE Folding WITH Op <- NoteItem
Checks == INSTANCE Folding WITH Op <- CheckItem
Commits == INSTANCE Folding WITH Op <- CommitItem

-----------------------------------------------------------------------------
(***************************************************************************)
(* What the log says.                                                      *)
(***************************************************************************)
MsgEntry == [op : {"msg", "batchMsg", "batchCommit"}, m : Message, lseq : Nat, b : Nat, bs : Nat]
Entry == [op : {"empty"}] \cup [op : {"delete"}, seq : Nat \ {0}]
         \cup [op : {"purge"}, s : Nat, seq : Nat, keep : Nat, lseq : Nat] \cup MsgEntry
Item == [op : {"msg", "batchMsg", "batchCommit"}, m : Message, b : Nat, bs : Nat]

\* Entries with a message, and with one of a batch; what is stored of it.
IsMsg(e) == e.op \in {"msg", "batchMsg", "batchCommit"}
IsBatch(e) == e.op \in {"batchMsg", "batchCommit"}
ItemOf(e) == [op |-> e.op, m |-> e.m, b |-> e.b, bs |-> e.bs]

\* How many messages entry e stores when it is applied.
Width(e) == IF e.op = "msg" THEN 1 ELSE IF e.op = "batchCommit" THEN e.bs ELSE 0

\* How many messages of a batch wait after entry i.
Open(l, i) == IF i > 0 /\ l[i].op = "batchMsg" THEN l[i].bs ELSE 0
BatchAt(l, i) == IF Open(l, i) = 0 THEN NoBatch
                 ELSE [id |-> l[i].b, count |-> l[i].bs, from |-> i - l[i].bs + 1]

\* How much the first i entries store, how many messages of batches cut short they
\* refuse, and how many sequences were given out for them.
Widths(l) == [i \in DOMAIN l |-> Width(l[i])]
Drops(l) == [i \in DOMAIN l |-> IF IsBatch(l[i]) THEN 0 ELSE Open(l, i - 1)]
Sum(w, n) == Sums!Fold(w, 0, 0, 1 .. n)
Size(l, i) == Sum(Widths(l), i)
Refused(l, i) == Sum(Drops(l), i)
Proposed(l, i) == Size(l, i) + Refused(l, i) + Open(l, i)

\* The messages of a batch follow each other, until it is complete or cut short.
GroupedAt(l, i) ==
    /\ IsBatch(l[i]) => /\ l[i].bs \in 1 .. i /\ l[i].b # 0 /\ l[i].m.elm = 0
                        /\ l[i].bs > 1 => /\ l[i - 1].op = "batchMsg" /\ l[i - 1].b = l[i].b
                                          /\ l[i - 1].bs = l[i].bs - 1
    /\ (i > 1 /\ l[i - 1].op = "batchMsg") =>
           l[i].op = "empty" \/ (IsBatch(l[i]) /\ l[i].bs > 1)
    /\ l[i].op = "msg" => l[i].b = 0
Grouped(l) == l \in Seq(Entry) /\ \A i \in 1 .. Len(l) : GroupedAt(l, i)

-----------------------------------------------------------------------------
(***************************************************************************)
(* The inductive invariant: the log, the replicas, their snapshots, the    *)
(* leader and the answers.                                                 *)
(***************************************************************************)
\* Every entry has the sequence that the log before it says.
LogOK(l) ==
    /\ Grouped(l)
    /\ \A i \in 1 .. Len(l) : IsMsg(l[i]) => l[i].lseq = Proposed(l, i - 1)
    /\ Len(l) > 0 /\ l[Len(l)].op # "batchMsg"

\* st holds the first messages that the log has up to entry c.
StoreOK(l, c, st) ==
    /\ st \in Seq(Item) /\ Len(st) <= Size(l, c)
    /\ \A i \in 1 .. c : \A j \in 1 .. Width(l[i]) :
           Size(l, i - 1) + j <= Len(st) =>
               st[Size(l, i - 1) + j] = ItemOf(l[i - Width(l[i]) + j])

\* A replica is where the entries that it has applied lead, or has stored more
\* of those up to entry p.
RunOK(l, x, p) ==
    /\ x.clfs = Refused(l, x.applied) /\ x.batch = BatchAt(l, x.applied)
    /\ Size(l, x.applied) <= Len(x.store)
    /\ Len(x.store) <= Size(l, x.applied) \/ Len(x.store) <= Size(l, p)

\* What is said of replica x, of its snapshot s, and of whether it has stopped (h).
Fields == {"store", "gone", "ahead", "clfs", "clseq", "lmsgId", "dd", "inflight",
           "expected", "batch", "applied", "active"}
ReplicaOK(l, c, x, p, h) ==
    /\ DOMAIN x = Fields /\ x.clfs \in Nat /\ x.clseq \in Nat /\ x.active \in BOOLEAN
    /\ x.applied \in 0 .. c /\ p \in 0 .. c /\ h \in {"no", "werr"}
    /\ StoreOK(l, c, x.store)
    /\ h = "no" => RunOK(l, x, p)
    /\ h = "werr" => \E j \in 0 .. c : Len(x.store) = Size(l, j)
    /\ ~x.active => x.clseq = 0
SnapOK(l, c, x, s) ==
    /\ s.idx \in 0 .. c /\ s.lseq = Size(l, s.idx) /\ s.lseq <= Len(x.store)
    /\ s.clfs = Refused(l, s.idx) /\ Open(l, s.idx) = 0

\* The ids that are noted with a sequence are those of the messages there.
IdsOK(dd, st) ==
    /\ dd \in Seq([id : Nat, seq : Nat])
    /\ \A i \in DOMAIN dd : dd[i].seq # 0 =>
           dd[i].seq <= Len(st) /\ st[dd[i].seq].m.id = dd[i].id

\* What the leader gave out last follows what it found in the log.
LeaderOK(l, a, x, p, ls) ==
    /\ a \in 1 .. Len(l) /\ p < a /\ ls \in BOOLEAN
    /\ x.active => ls
    /\ ls => x.applied >= a /\ Len(x.store) >= Size(l, a)
    /\ Proposed(l, Len(l)) = IF x.clseq = 0 THEN Proposed(l, a) ELSE x.clseq

\* The message of answer a is in the log up to entry c.
AckOK(l, c, a) ==
    /\ a.seq \in 1 .. Size(l, c)
    /\ \A i \in 1 .. c : \A j \in 1 .. Width(l[i]) :
           Size(l, i - 1) + j = a.seq => l[i - Width(l[i]) + j].m.id = a.id

\* The leader has it, or will have it when it has applied entry f.
AckHeld(l, f, st, a) == a.seq <= Size(l, f) \/ a.seq <= Len(st)

\* All of it.
GroupInv ==
    /\ cfg \in Configs /\ batches \in Nat
    /\ LogOK(log) /\ commit \in 0 .. Len(log)
    /\ DOMAIN m = Replica /\ DOMAIN halted = Replica /\ DOMAIN snap = Replica
    /\ DOMAIN replay = Replica
    /\ \A r \in Replica : ReplicaOK(log, commit, m[r], replay[r], halted[r])
    /\ \A r \in Replica : SnapOK(log, commit, m[r], snap[r])
    /\ \A r \in Replica : IdsOK(m[r].dd, m[r].store)
    /\ elected \in Replica
    /\ LeaderOK(log, aflr, m[elected], replay[elected], leaderState)
    /\ \A a \in acks : AckOK(log, commit, a) /\ AckHeld(log, aflr, m[elected].store, a)

-----------------------------------------------------------------------------
(***************************************************************************)
(* What the lemmas say of a step: a replica x becomes y or w.              *)
(***************************************************************************)
\* Logs that agree up to entry n.
Past(l, k, n) ==
    /\ l \in Seq(Entry) /\ k \in Seq(Entry) /\ n \in Nat /\ n <= Len(l) /\ n <= Len(k)
    /\ \A i \in 1 .. n : l[i] = k[i]

\* The ids that stay when a leader changes.
LastStored(dd) == Max({0} \cup {i \in DOMAIN dd : dd[i].seq # 0})
StagedIds(dd) == {dd[i].id : i \in LastStored(dd) + 1 .. Len(dd)}

\* All but what is noted about proposals is the same.
Same(x, y) ==
    /\ DOMAIN y = Fields /\ y.store = x.store /\ y.clfs = x.clfs /\ y.batch = x.batch
    /\ y.applied = x.applied /\ y.active = x.active
Id == [id : Nat, seq : Nat]

\* Where replica x is after one entry: at w, and when it has stored something that
\* is up to this entry.
Applies(l, c, x, p, w, h) ==
    /\ ReplicaOK(l, c, w, p, h) /\ IdsOK(w.dd, w.store)
    /\ w.applied = x.applied + 1 /\ w.clseq = x.clseq /\ w.active = x.active
    /\ Len(x.store) <= Len(w.store)
    /\ Len(w.store) > Len(x.store) => Len(w.store) = Size(l, x.applied + 1)

\* What a replica x has become when the first j messages of the batch that
\* entry i completes are stored.
Committing(l, c, i, x, z, j) ==
    /\ DOMAIN z = Fields /\ z.clfs = x.clfs /\ z.batch = NoBatch /\ z.applied = x.applied
    /\ z.active = x.active /\ z.clseq = x.clseq
    /\ StoreOK(l, c, z.store) /\ IdsOK(z.dd, z.store)
    /\ Len(x.store) <= Len(z.store) /\ Size(l, i - 1) + j <= Len(z.store)
    /\ Len(z.store) = Len(x.store) \/ Len(z.store) = Size(l, i - 1) + j

\* The first message of the batch that y counts is the next one of y, or stored, and
\* the batch leads to w.
Completes(l, c, x, p, y, w) ==
    ~SeqMismatch(y, l[y.batch.from]) /\ Applies(l, c, x, p, w, "no")

\* Leader x has its next number, and is y.
Numbered(l, x, y) ==
    /\ Same(x, y) /\ y.dd = x.dd /\ y.clseq = Proposed(l, Len(l)) /\ y.clseq \in Nat

\* The changes that are staged for a batch.
DiffOK(d) == DOMAIN d = {"ok", "dup", "ids", "inflight", "expected"} /\ d.ids \in Seq(Nat)

\* x has noted what it proposes, and is y.
Staged(x, y, st) == Same(x, y) /\ y.clseq = x.clseq /\ IdsOK(y.dd, st)

\* x has checked batch b, and is w.x.
Counted(x, b, w) ==
    Same(x, w.x) /\ w.x.dd = x.dd /\ w.x.clseq = x.clseq + Len(b) /\ DiffOK(w.d)

\* A server that comes back with snapshot s is y.
Restarted(l, c, y, s) ==
    ReplicaOK(l, c, y, c, "no") /\ SnapOK(l, c, y, s) /\ IdsOK(y.dd, y.store)

\* What a replica with k messages takes from the leader, which has n in its
\* snapshot.
Missing(su, k, n) == SubSeq(su, k + 1, Max({k, n}))

\* A replica that has taken snapshot s is y.
Caught(l, c, y, p, s) ==
    ReplicaOK(l, c, y, p, "no") /\ SnapOK(l, c, y, s) /\ IdsOK(y.dd, y.store)

\* x has forgotten what it proposed and is y.
Forgot(x, y, st) ==
    /\ DOMAIN y = Fields /\ y.store = x.store /\ y.clfs = x.clfs /\ y.batch = x.batch
    /\ y.applied = x.applied /\ y.active = ~x.active /\ y.clseq = 0 /\ IdsOK(y.dd, st)

\* A message of a batch has the others around it.
Beside(st, q) ==
    /\ st[q].bs > 1 => q > 1 /\ st[q - 1].b = st[q].b /\ st[q - 1].bs = st[q].bs - 1
    /\ st[q].op = "batchMsg" => q < Len(st) /\ st[q + 1].b = st[q].b

-----------------------------------------------------------------------------
(***************************************************************************)
(* Messages that expect the last sequence.                                 *)
(***************************************************************************)
\* What the messages expect is what the log says of their places.
ExpectsAt(l, i) ==
    (IsMsg(l[i]) /\ l[i].m.els # -1) => l[i].m.els = l[i].lseq - Refused(l, i)
CheckedSeq(l) == \A i \in 1 .. Len(l) : ExpectsAt(l, i)

\* Nothing is refused after entry a.
NoneCut(l, a) == \A i \in a .. Len(l) : Refused(l, i) = Refused(l, a)

\* Both, on top of the group.
ExpectInv == GroupInv /\ CheckedSeq(log) /\ NoneCut(log, aflr)

\* Log k is log l with batch b.
Longer(l, k, b) ==
    /\ LogOK(k) /\ Past(l, k, Len(l)) /\ Len(k) = Len(l) + Len(b)
    /\ Proposed(k, Len(k)) = Proposed(l, Len(l)) + Len(b)

\* Entry e is that of message j of batch b, which x proposes.
EntryOf(e, x, b, id, j) ==
    e = [op |-> IF j = Len(b) THEN "batchCommit" ELSE "batchMsg",
         m |-> b[j], lseq |-> x.clseq + j - 1, b |-> id, bs |-> j]

\* What a message that is taken expects.
ExpectsNext(x, p) == p.els # -1 => p.els = x.clseq - x.clfs

\* y is x, but for the sequence that comes next.
Alike(x, y) ==
    /\ DOMAIN y = Fields /\ y.store = x.store /\ y.gone = x.gone /\ y.ahead = x.ahead
    /\ y.clfs = x.clfs /\ y.lmsgId = x.lmsgId /\ y.dd = x.dd /\ y.inflight = x.inflight
    /\ y.expected = x.expected /\ y.batch = x.batch /\ y.applied = x.applied
    /\ y.active = x.active

\* The checks of a batch, message by message: g[j] is the stream and f[j] what is
\* staged after the first j of them.
Steps(x, b, w, g, f) ==
    /\ g[0] = x /\ f[0] = NoDiff /\ w.d = f[Len(b)] /\ w.x = g[Len(b)]
    /\ \A j \in 0 .. Len(b) : Alike(x, g[j]) /\ g[j].clseq = x.clseq + j /\ DiffOK(f[j])
    /\ \A j \in 1 .. Len(b) : f[j] = CheckMsg(g[j - 1], f[j - 1], b[j])

-----------------------------------------------------------------------------
(***************************************************************************)
(* What is noted as in flight.                                             *)
(***************************************************************************)
\* Entry e is a message of subject s.
Hit(e, s) == IsMsg(e) /\ e.m.s = s

\* The messages of subject s after entry a and up to entry c, and their number.
Between(l, a, c, s) == {i \in a + 1 .. c : Hit(l[i], s)}
CountIn(l, a, c, s) == Cardinality(Between(l, a, c, s))
One(e, s) == IF Hit(e, s) THEN 1 ELSE 0

\* Of every subject that is noted there is a message.
InflightOK(f) == DOMAIN f \subseteq Nat /\ \A s \in DOMAIN f : f[s] \in Nat \ {0}

\* The end of a message that was in flight.
Cleared(f, g, t) ==
    /\ InflightOK(g)
    /\ \A s : OpsOf(g, s) = IF s = t /\ t \in DOMAIN f THEN OpsOf(f, s) - 1 ELSE OpsOf(f, s)

\* The message of entry e is stored and still noted.
Posted(e, s) == IF e # NoEntry /\ e.m.s = s THEN 1 ELSE 0

\* What replica x has noted is in the log after what it has applied, or is entry e.
Tracks(l, x, e) ==
    \A s \in Nat : OpsOf(x.inflight, s) = CountIn(l, SnapshotIndex(x), Len(l), s) + Posted(e, s)
PostOK(e) == e = NoEntry \/ (e \in MsgEntry /\ e.op = "msg")

\* Only a leader has noted anything.
Quiet(x, e) == ~x.active => x.inflight = EmptyFcn /\ x.expected = EmptyFcn /\ e = NoEntry
NotesOK(x, e) == InflightOK(x.inflight) /\ PostOK(e) /\ Quiet(x, e)

\* The leader x, whose first entry is a: no other follows it, no message either
\* before x is told that it leads, and from then on x has noted all while it runs.
LeadsOK(l, a, x, e, h) ==
    /\ \A i \in a + 1 .. Len(l) : l[i].op # "empty"
    /\ ~x.active => \A i \in a .. Len(l) : ~IsMsg(l[i])
    /\ x.active /\ h = "no" => Tracks(l, x, e)

\* What every replica has noted, and the leader.
TrackInv ==
    /\ GroupInv /\ DOMAIN post = Replica
    /\ \A r \in Replica : NotesOK(m[r], post[r])
    /\ LeadsOK(log, aflr, m[elected], post[elected], halted[elected])

\* y has noted what x has.
Keeps(x, y) ==
    /\ DOMAIN y = Fields /\ y.inflight = x.inflight /\ y.expected = x.expected
    /\ y.active = x.active

\* A replica that leads and runs: what it has noted, and where it is in the log.
Leading(r) ==
    /\ LogOK(log) /\ Grouped(log) /\ log \in Seq(Entry) /\ Len(log) \in Nat
    /\ commit \in 0 .. Len(log) /\ ReplicaOK(log, commit, m[r], replay[r], "no")
    /\ aflr \in 1 .. Len(log) /\ aflr <= m[r].applied /\ m[r].applied \in 0 .. Len(log)
    /\ m[r].applied \in 0 .. commit
    /\ Len(m[r].store) = Size(log, m[r].applied)
    /\ m[r].batch = BatchAt(log, m[r].applied)
    /\ \A i \in aflr + 1 .. Len(log) : log[i].op # "empty"
    /\ Tracks(log, m[r], post[r])

\* One message of a batch is applied.
ApplyOne(z, f, leader) ==
    IF AlreadyStored(z, f) \/ SeqMismatch(z, f) THEN z
    ELSE ClearInflight(ProcessJetStreamMsg(z, f, leader), f)

\* The messages of the batch that entry i completes are applied to x, counted in y,
\* one after another: h[j] is the replica after the first j of them.
CommitRun(l, c, i, x, y, w, leader, h) ==
    /\ h[0] = [y EXCEPT !.batch = NoBatch] /\ w = h[l[i].bs]
    /\ \A j \in 0 .. l[i].bs : Committing(l, c, i, x, h[j], j)
    /\ \A j \in 1 .. l[i].bs : h[j] = ApplyOne(h[j - 1], l[i - l[i].bs + j], leader)

\* What x has noted is right, and y is x with less of it.
Notes1(x, y) ==
    /\ DOMAIN y = Fields /\ InflightOK(y.inflight) /\ y.active = x.active
    /\ ~x.active => y.inflight = EmptyFcn /\ y.expected = EmptyFcn

\* What is noted after the first messages of a batch is what the log has after them.
Left(l, f, a) == \A s \in Nat : OpsOf(f, s) = CountIn(l, a, Len(l), s)

\* Message e of a batch, entry i, is counted, and x is y.
CountedAt(l, i, x, y, e) ==
    /\ DOMAIN y = Fields /\ y.store = x.store /\ y.clfs = x.clfs
    /\ y.batch = [id |-> e.b, count |-> e.bs, from |-> i - e.bs + 1]
    /\ y.applied = x.applied /\ y.active = x.active /\ y.clseq = x.clseq /\ y.dd = x.dd
    /\ Refused(l, i) = x.clfs /\ e.bs \in 1 .. i /\ e.b # 0

\* The leader has noted what it proposes: log l has become k, x is w.
Proposes(l, k, x, w) ==
    /\ Past(l, k, Len(l)) /\ w.active = x.active /\ w.batch = x.batch /\ w.applied = x.applied
    /\ \A i \in Len(l) + 1 .. Len(k) : k[i].op # "empty"
    /\ ~x.active => \A i \in Len(l) + 1 .. Len(k) : ~IsMsg(k[i])
    /\ \A s \in Nat : OpsOf(w.inflight, s) = OpsOf(x.inflight, s) + CountIn(k, Len(l), Len(k), s)

\* One message of subject s.
Single(s) == [t \in {s} |-> 1]

\* The messages at the end of log k, from entry n on, are noted in f.
NotedIn(k, n, c, f) == InflightOK(f) /\ \A s \in Nat : OpsOf(f, s) = CountIn(k, n, c, s)

\* The messages of the log that x has not applied.
OpenMsgs(l, x) == {i \in SnapshotIndex(x) + 1 .. Len(l) : IsMsg(l[i])}

\* What x has noted is exactly what is open.
ExactAt(l, x) ==
    /\ DOMAIN x.inflight = {l[i].m.s : i \in OpenMsgs(l, x)}
    /\ \A s \in DOMAIN x.inflight :
           x.inflight[s] = Cardinality({i \in OpenMsgs(l, x) : l[i].m.s = s})

-----------------------------------------------------------------------------
(***************************************************************************)
(* The types.                                                              *)
(***************************************************************************)
\* A replica, a snapshot and the log of configuration c.
Shape(c, x, h) ==
    /\ x.gone \subseteq DOMAIN x.store /\ (c.removals = {} => x.gone = {})
    /\ h = "werr" => x.batch = NoBatch
SnapShape(c, s) == s.gone \subseteq 1 .. s.lseq /\ (c.removals = {} => s.gone = {})
LogShape(c, l) ==
    /\ Len(l) <= c.len
    /\ c.removals = {} => \A i \in 1 .. Len(l) : l[i].op \notin {"delete", "purge"}
ShapeInv ==
    /\ GroupInv /\ LogShape(cfg, log)
    /\ \A r \in Replica : Shape(cfg, m[r], halted[r]) /\ SnapShape(cfg, snap[r])

\* y has the messages of x, and the same are removed.
Holds(x, y) == DOMAIN y = Fields /\ y.gone = x.gone /\ DOMAIN x.store \subseteq DOMAIN y.store

-----------------------------------------------------------------------------
(***************************************************************************)
(* Messages that expect the last sequence of a subject.                    *)
(***************************************************************************)
\* The places of subject s among the first n of store st, and the last of them.
PlacesOf(st, n, s) == {i \in 1 .. n : st[i].m.s = s}
LastOf(st, n, s) == Max({0} \cup PlacesOf(st, n, s))

\* Message q of the store follows what it expects.
Follows(st, q) == st[q].m.elss # -1 => LastOf(st, q - 1, st[q].m.es) = st[q].m.elss
SubjectsOK(st) == \A q \in 1 .. Len(st) : Follows(st, q)

\* All that log l stores.
Whole(l, st) == StoreOK(l, Len(l), st) /\ Len(st) = Size(l, Len(l))

\* In the store of the whole log, every message follows what it expects.
SubjectInv ==
    /\ TrackInv /\ ShapeInv
    /\ cfg.removals = {} => \E st : Whole(log, st) /\ SubjectsOK(st)

\* Store su is st and the last n messages of log k.
Extends(st, su, k, n) ==
    /\ su \in Seq(Item) /\ Len(su) = Len(st) + n /\ \A i \in 1 .. Len(st) : su[i] = st[i]
    /\ \A j \in 1 .. n : su[Len(st) + j] = ItemOf(k[(Len(k) - n) + j])

\* Entry o + j of log k expects the last sequence of its subject in store st, and no
\* entry between o and it has the subject.
NewFollows(st, k, o, j) ==
    k[o + j].m.elss # -1 => /\ LastOf(st, Len(st), k[o + j].m.es) = k[o + j].m.elss
                            /\ \A i \in 1 .. j - 1 : k[o + i].m.s # k[o + j].m.es

\* What the checks staged for a subject is what the leader has found.
StagedRight(x, d) == \A s \in DOMAIN d.expected : d.expected[s].sseq = LastSeqOf(x, s)

\* A message that is taken expects what the leader has found, and nothing of the
\* subject is in flight.
FoundBy(x, d, p) ==
    p.elss # -1 => /\ p.elss = LastSeqOf(x, p.es) /\ p.es \notin DOMAIN x.inflight
                   /\ p.es \notin DOMAIN d.inflight

\* Entry o + j of log k expects what stream x finds, and nothing of its subject is in
\* flight or between o and it.
NewFound(x, k, o, j) ==
    k[o + j].m.elss # -1 => /\ k[o + j].m.elss = LastSeqOf(x, k[o + j].m.es)
                            /\ k[o + j].m.es \notin DOMAIN x.inflight
                            /\ \A i \in 1 .. j - 1 : k[o + i].m.s # k[o + j].m.es

=============================================================================
