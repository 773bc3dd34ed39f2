------------------------------ MODULE FileStore ------------------------------
(***************************************************************************)
(* The file store of a stream: server/filestore.go.                        *)
(*                                                                         *)
(* Messages are appended to block files.  A message that a user removes    *)
(* gets a tombstone, a record appended to the last block; one that is the  *)
(* last of its block takes the file with it.  From time to time the state  *)
(* of the whole store is written to index.db, under no lock, and blocks    *)
(* with too many dead records are rewritten.  After a crash the store is   *)
(* taken from index.db if that is not out of date, and otherwise rebuilt   *)
(* from the blocks and their tombstones.                                   *)
(*                                                                         *)
(* An operation holds fs.mu, and here it is one step; what it does to the  *)
(* files is the sequence todo, and a crash may leave any prefix of it.     *)
(* Only the writing of index.db is apart from the rest.  A crash is one of *)
(* the process: what was written to a file stays.  Every record has the    *)
(* same size, messages are flushed as they are stored (no AsyncFlush), and *)
(* subjects, ages and times are left out, but for whether the first        *)
(* timestamp of a block is set (mb.first.ts), which the code tests.        *)
(***************************************************************************)
EXTENDS Integers, Sequences, FiniteSets, Functions, FiniteSetsExt, SequencesExt

CONSTANTS
    Configs   \* the stores to check: records of blocksize (in records),
              \*   maxmsgs (MaxMsgs with DiscardOld, 0 for none), and bounds on
              \*   the number of stored, skipped and removed messages, of
              \*   compactions, purges, syncs, index writes, crashes and updates
              \*   of the limit

Ops == {"store", "skip", "remove", "erase", "compact", "purge", "sync", "index", "crash", "update"}

ASSUME ConfigsAssumption ==
    \A c \in Configs : /\ c.blocksize \in Nat \ {0}
                       /\ c.maxmsgs \in Nat
                       /\ c.left \in [Ops -> Nat]

VARIABLES
    cfg,    \* fs.fcfg and fs.cfg
    left,   \* how many operations of each kind are left to this run
    up,     \* the process runs
    blks,   \* fs.blks, the last of which is fs.lmb
    st,     \* fs.state
    disk,   \* the files
    wfs,    \* what a writer of index.db is about to write (_writeFullState)
    goal,   \* history: what has to be in the store, and what may be
    hist    \* history: the last sequence that was ever given out (top) and that
            \*   an index.db ever had (kept), whether a recovery has gone back
            \*   behind top (back), and what was removed and still in a file
            \*   at the last crash, with no tombstone in any (unmarked)

vars == <<cfg, left, up, blks, st, disk, wfs, goal, hist>>

Nothing == [none |-> TRUE]

Msg(q) == [t |-> "msg", seq |-> q]
Tomb(q) == [t |-> "tomb", seq |-> q]
Erased(q) == [t |-> "erased", seq |-> q]

MsgsIn(recs) == {r.seq : r \in {x \in ToSet(recs) : x.t = "msg"}}

-----------------------------------------------------------------------------
(* Files.  What an operation does to them, in order.                       *)

FileOp(op, i, x) == [op |-> op, idx |-> i, x |-> x]

\* One such step: block files are created, appended to, replaced by a rename
\* and removed; purge moves its new block out of the directory (to ndir), the
\* directory away, and the new block's directory in its place.
Applied(d, o) ==
    CASE o.op = "create"  -> [d EXCEPT !.files = (o.idx :> <<>>) @@ @]
      [] o.op = "append"  -> [d EXCEPT !.files[o.idx] = Append(@, o.x)]
      [] o.op = "rewrite" -> [d EXCEPT !.files[o.idx] = o.x]
      [] o.op = "remove"  -> [d EXCEPT !.files = Restrict(@, DOMAIN @ \ {o.idx})]
      [] o.op = "rmindex" -> [d EXCEPT !.index = Nothing]
      [] o.op = "moveout" -> [d EXCEPT !.files = Restrict(@, DOMAIN @ \ {o.idx}),
                                       !.ndir = o.idx :> d.files[o.idx]]
      [] o.op = "drop"    -> [d EXCEPT !.files = <<>>, !.index = Nothing]
      [] o.op = "movein"  -> [d EXCEPT !.files = d.ndir, !.ndir = <<>>]

AfterSteps(d, todo, n) == FoldLeft(Applied, d, SubSeq(todo, 1, n))

-----------------------------------------------------------------------------
(* The store under its lock: s has the fields blks, first, last, msgs of   *)
(* the store and the file operations todo.                                 *)

Block(i, first, last) ==
    [idx |-> i, recs |-> <<>>, first |-> first, fts |-> FALSE, last |-> last,
     msgs |-> 0, dmap |-> {}]

Lmb(s) == s.blks[Len(s.blks)]
Pos(s, i) == CHOOSE p \in DOMAIN s.blks : s.blks[p].idx = i
Blk(s, i) == s.blks[Pos(s, i)]
SetBlk(s, b) == [s EXCEPT !.blks[Pos(s, b.idx)] = b]
Todo(s, o) == [s EXCEPT !.todo = Append(@, o)]

NewMsgBlockForWrite(s) ==
    LET i == IF s.blks = <<>> THEN 1 ELSE Lmb(s).idx + 1
    IN  Todo([s EXCEPT !.blks = Append(@, Block(i, s.last + 1, s.last))],
             FileOp("create", i, Nothing))

\* Rolls to a new block when the record would not fit.
CheckLastBlock(s) ==
    IF s.blks = <<>> \/ Len(Lmb(s).recs) >= cfg.blocksize THEN NewMsgBlockForWrite(s) ELSE s

\* A record goes to the cache of the last block and to its file.
WriteRecord(s, b, r) ==
    Todo(SetBlk(s, [b EXCEPT !.recs = Append(@, r)]), FileOp("append", b.idx, r))

\* A tombstone; it moves the sequences of a block that has no messages.
WriteTombstone(s0, q) ==
    LET s == CheckLastBlock(s0)
        b == Lmb(s)
    IN  WriteRecord(s, IF b.msgs = 0 /\ q > b.last
                       THEN [b EXCEPT !.last = q, !.first = q + 1, !.fts = FALSE]
                       ELSE b, Tomb(q))

\* Tombstones of this block that may be about messages of earlier blocks.
NumPriorTombs(s, b) ==
    LET firstMsg(n) == {k \in 1..n : b.recs[k].t = "msg"}
    IN  Cardinality({n \in DOMAIN b.recs :
            /\ b.recs[n].t = "tomb" /\ b.recs[n].seq >= s.first
            /\ \/ firstMsg(n) = {}
               \/ b.recs[n].seq < b.recs[Min(firstMsg(n))].seq})

ForceRemoveMsgBlock(s, i) ==
    Todo([s EXCEPT !.blks = SelectSeq(@, LAMBDA b : b.idx # i)], FileOp("remove", i, Nothing))

\* The block goes, after a tombstone that remembers the last sequence if it
\* was in this block; but it stays if it has tombstones for earlier blocks.
RemoveMsgBlock(s, i) ==
    LET b == Blk(s, i)
        s1 == IF i = Lmb(s).idx THEN WriteTombstone(NewMsgBlockForWrite(s), b.last)
              ELSE IF b.last = s.last THEN WriteTombstone(s, b.last)
              ELSE s
    IN  IF NumPriorTombs(s1, b) > 0 THEN s1 ELSE ForceRemoveMsgBlock(s1, i)

\* The next message of a block after its first (mb.selectNextFirst).
BlockNextFirst(b) ==
    LET next == Min({q \in b.first + 1 .. b.last : q \notin b.dmap} \cup {Max({b.first, b.last}) + 1})
    IN  [b EXCEPT !.first = next, !.fts = next <= b.last, !.dmap = @ \ (b.first + 1 .. next - 1)]

\* fs.selectNextFirst: empty blocks at the start go, but never the last one.
SelectNextFirst(s) ==
    LET kept == {p \in DOMAIN s.blks : s.blks[p].msgs # 0} \cup {Len(s.blks)}
        gone == SubSeq(s.blks, 1, Min(kept) - 1)
        rest == SubSeq(s.blks, Min(kept), Len(s.blks))
    IN  IF s.blks = <<>> THEN [s EXCEPT !.first = s.last + 1]
        ELSE [s EXCEPT !.blks = rest, !.first = rest[1].first,
                       !.todo = @ \o [n \in DOMAIN gone |-> FileOp("remove", gone[n].idx, Nothing)]]

-----------------------------------------------------------------------------
(* Rebuilding a block from its records (rebuildStateFromBufLocked).        *)

RebuildLast(b, q) ==
    IF q <= b.last THEN b
    ELSE [b EXCEPT !.last = q,
                   !.dmap = IF b.last > 0 /\ b.msgs # 0 THEN @ \cup (b.last + 1 .. q - 1) ELSE @]

RebuildRecord(b, r) ==
    CASE r.t = "tomb" -> b
      [] r.t = "erased" \/ r.seq < b.first ->
           IF r.seq < b.first THEN b
           ELSE LET c == RebuildLast(b, r.seq)
                IN  IF c.msgs = 0 THEN [c EXCEPT !.first = r.seq + 1, !.fts = FALSE]
                    ELSE [c EXCEPT !.dmap = @ \cup {r.seq}]
      [] OTHER ->
           LET c == IF b.fset THEN b ELSE [b EXCEPT !.first = r.seq, !.fts = TRUE, !.fset = TRUE]
           IN  IF r.seq <= c.last THEN c
               ELSE RebuildLast([c EXCEPT !.msgs = IF r.seq \in c.dmap THEN @ ELSE @ + 1], r.seq)

TombsIn(recs) == [n \in DOMAIN SelectSeq(recs, LAMBDA r : r.t = "tomb") |->
                     SelectSeq(recs, LAMBDA r : r.t = "tomb")[n].seq]

\* A block without messages takes its sequences from its first one, or from
\* the highest tombstone.
AlignEmpty(b, maxTomb) ==
    IF b.msgs # 0 THEN b
    ELSE IF b.first > 0 THEN [b EXCEPT !.last = b.first - 1]
    ELSE IF maxTomb > 0 THEN [b EXCEPT !.first = maxTomb + 1, !.fts = FALSE,
                                       !.last = IF @ = 0 THEN maxTomb ELSE @]
    ELSE b

\* b brings the first sequence and the deletes that are known already.
RebuildState(b, recs) ==
    Restrict(AlignEmpty(FoldLeft(RebuildRecord,
                                 [idx |-> b.idx, recs |-> recs, first |-> b.first, fts |-> b.fts,
                                  last |-> 0, msgs |-> 0, dmap |-> b.dmap, fset |-> FALSE], recs),
                        Max(ToSet(TombsIn(recs)) \cup {0})),
             DOMAIN b)

\* The state of the store as its blocks have it (updateTrackingState, and
\* rebuildStateLocked, which does the same).
TrackBlock(t, b) ==
    [first |-> IF t.first = 0 \/ (b.first < t.first /\ b.fts) THEN b.first ELSE t.first,
     last |-> Max({t.last, b.last}),
     msgs |-> t.msgs + b.msgs]
Tracked(bs) == FoldLeft(TrackBlock, [first |-> 0, last |-> 0, msgs |-> 0], bs)

TrackingStatesEqual(f, t) ==
    /\ f.msgs = t.msgs /\ f.last = t.last
    /\ t.first > 1 => f.first = t.first

RebuildStateLocked(s) ==
    LET t == Tracked(s.blks) IN [s EXCEPT !.first = t.first, !.last = t.last, !.msgs = t.msgs]

-----------------------------------------------------------------------------
(* Removing messages.                                                      *)

\* Mutant of CompactBlock: the first message of the block is taken for removed.
CompactBlockPastFirst(s, b, floor, noDmap, fsDmap) ==
    LET alive(r) == r.t = "msg" /\ r.seq \notin b.dmap /\ r.seq > b.first
        kept(r) == r.t = "tomb" /\ r.seq < b.first /\ r.seq >= floor
                   /\ (noDmap \/ r.seq \in fsDmap)
        recs == SelectSeq(b.recs, LAMBDA r : alive(r) \/ kept(r))
        ms == MsgsIn(recs)
        c == IF ms = {}
             THEN [b EXCEPT !.recs = recs, !.last = b.first - 1, !.dmap = {}]
             ELSE [b EXCEPT !.recs = recs, !.first = Min(ms), !.last = Max(ms),
                            !.dmap = @ \ ((b.first .. Min(ms) - 1) \cup (Max(ms) + 1 .. b.last))]
    IN  Todo(SetBlk(s, c), FileOp("rewrite", b.idx, recs))

\* A block is rewritten with what is alive of it (compactWithFloor).  Of the
\* tombstones those stay that may still be about a message of another block:
\* in a sync that is one of fsDmap, the deletes of the blocks (noDmap: all).
CompactBlock(s, b, floor, noDmap, fsDmap) ==
    LET alive(r) == r.t = "msg" /\ r.seq \notin b.dmap /\ r.seq >= b.first
        kept(r) == r.t = "tomb" /\ r.seq < b.first /\ r.seq >= floor
                   /\ (noDmap \/ r.seq \in fsDmap)
        recs == SelectSeq(b.recs, LAMBDA r : alive(r) \/ kept(r))
        ms == MsgsIn(recs)
        c == IF ms = {}
             THEN [b EXCEPT !.recs = recs, !.last = b.first - 1, !.dmap = {}]
             ELSE [b EXCEPT !.recs = recs, !.first = Min(ms), !.last = Max(ms),
                            !.dmap = @ \ ((b.first .. Min(ms) - 1) \cup (Max(ms) + 1 .. b.last))]
    IN  Todo(SetBlk(s, c), FileOp("rewrite", b.idx, recs))

\* selectMsgBlock: 0 when there is none.
SelectMsgBlock(s, q) ==
    IF q < s.first \/ q > s.last \/ s.msgs = 0 THEN 0
    ELSE LET ps == {p \in DOMAIN s.blks : q <= s.blks[p].last}
         IN  IF ps = {} THEN 0 ELSE s.blks[Min(ps)].idx

InBlock(b, q) == q >= b.first /\ q \notin b.dmap /\ q \in MsgsIn(b.recs)

\* The message is there for a reader (and for removeMsg).
Found(s, q) == SelectMsgBlock(s, q) # 0 /\ InBlock(Blk(s, SelectMsgBlock(s, q)), q)

\* The messages of the store, as a reader sees them.
Contents(s) == {q \in s.first .. s.last : Found(s, q)}

\* A tombstone, unless a limit removes the message (limits are enforced again
\* after a restart) or it is the last of its block, which then goes.
MarkRemoved(s, b, q, viaLimits) ==
    IF ~viaLimits /\ b.msgs # 1 THEN WriteTombstone(s, q) ELSE s

EraseMsg(s, i, q) ==
    LET recs == [n \in DOMAIN Blk(s, i).recs |->
                    IF Blk(s, i).recs[n] = Msg(q) THEN Erased(q) ELSE Blk(s, i).recs[n]]
    IN  Todo(SetBlk(s, [Blk(s, i) EXCEPT !.recs = recs]), FileOp("rewrite", i, recs))

\* The block without the message.
RemovedFrom(b, q) ==
    IF q = b.first THEN BlockNextFirst([b EXCEPT !.msgs = @ - 1])
    ELSE [b EXCEPT !.msgs = @ - 1, !.dmap = IF b.msgs = 1 THEN @ ELSE @ \cup {q}]

\* And the store: its first sequence moves with that of the block.
Uncount(s, b, q) ==
    [SetBlk(s, RemovedFrom(b, q)) EXCEPT !.msgs = @ - 1,
         !.first = IF q = b.first /\ b.msgs # 1 /\ q = s.first THEN RemovedFrom(b, q).first ELSE @]

CompactIfSparse(s, b) ==
    IF 2 * b.msgs < Len(b.recs) THEN CompactBlock(s, b, 0, TRUE, {}) ELSE s

NextFirstAfter(s, q) == IF q = s.first THEN SelectNextFirst(s) ELSE s

\* removeMsgFromBlock, for a message that is there.  inline: the block is over
\* the size from which it is compacted at once (shouldCompactInline).
RemoveMsgFromBlock(s0, i, q, secure, viaLimits, inline) ==
    LET b0 == Blk(s0, i)
        s1 == MarkRemoved(s0, b0, q, viaLimits)
        s2 == IF secure THEN EraseMsg(s1, i, q) ELSE s1
        s3 == Uncount(s2, Blk(s2, i), q)
    IN  IF b0.msgs = 1 THEN NextFirstAfter(RemoveMsgBlock(s3, i), q)
        ELSE IF q # b0.first /\ inline /\ i # Lmb(s0).idx THEN CompactIfSparse(s3, Blk(s3, i))
        ELSE s3

RemoveMsg(s, q, secure, viaLimits, inline) ==
    IF Found(s, q) THEN RemoveMsgFromBlock(s, SelectMsgBlock(s, q), q, secure, viaLimits, inline)
    ELSE s

\* Mutant of PurgeMsgBlock: the count of the store is left alone.
PurgeMsgBlockUncounted(s) ==
    SelectNextFirst(RemoveMsgBlock(s, s.blks[1].idx))

\* The first block goes as a whole (purgeMsgBlock).
PurgeMsgBlock(s) ==
    SelectNextFirst(RemoveMsgBlock([s EXCEPT !.msgs = @ - s.blks[1].msgs], s.blks[1].idx))

\* When the first message cannot be removed (rebuildFirst).
ReplaceFirst(s, b) == IF b.msgs = 0 THEN ForceRemoveMsgBlock(SetBlk(s, b), b.idx) ELSE SetBlk(s, b)
RebuildFirst(s) ==
    RebuildStateLocked(SelectNextFirst(ReplaceFirst(s, RebuildState(s.blks[1], s.blks[1].recs))))

\* One round of enforceMsgLimit, which stops once it had to rebuild the first.
EnforceOnce(s, max) ==
    IF s.msgs - s.blks[1].msgs > max THEN PurgeMsgBlock(s)
    ELSE RemoveMsg(s, s.first, FALSE, TRUE, FALSE)

\* MaxMsgs with DiscardOld: while there are too many messages, the first block
\* goes if that is not too much, and else the first message.  When no block has the
\* first sequence removeMsg returns an error, and nothing is rebuilt.
EnforceMsgLimit(s, max) ==
    LET within(a) == max = 0 \/ a.msgs <= max
        stuck(a) == a.msgs - a.blks[1].msgs <= max /\ ~Found(a, a.first)
        round[n \in 0 .. s.msgs] ==
            IF n = 0 THEN s
            ELSE IF within(round[n - 1]) \/ stuck(round[n - 1]) THEN round[n - 1]
            ELSE EnforceOnce(round[n - 1], max)
        ended(a) == IF within(a) \/ ~stuck(a) \/ SelectMsgBlock(a, a.first) = 0 THEN a
                    ELSE RebuildFirst(a)
    IN  ended(round[s.msgs])

-----------------------------------------------------------------------------
(* Operations.  Do is how each of them ends: with its file operations done, *)
(* or in a crash after some of them.                                        *)

Here == [blks |-> blks, first |-> st.first, last |-> st.last, msgs |-> st.msgs, todo |-> <<>>]

\* What the store holds as the operation starts.
Now == Contents(Here)

StateOf(s) == [first |-> s.first, last |-> s.last, msgs |-> s.msgs]

Use(op) == left[op] > 0 /\ left' = [left EXCEPT ![op] = @ - 1]

\* after: what the store has to hold once the operation is done.
Do(op, s, after) ==
    /\ up
    /\ Use(op)
    /\ blks' = s.blks /\ st' = StateOf(s)
    /\ disk' = AfterSteps(disk, s.todo, Len(s.todo))
    /\ goal' = [must |-> after, may |-> after]
    /\ hist' = [hist EXCEPT !.top = Max({@, s.last}), !.unmarked = {}]
    /\ UNCHANGED <<up, wfs>>

\* The process is gone; an index.db that was being written may be cut short.
Gone(d, after) ==
    /\ up' = FALSE /\ blks' = <<>> /\ st' = [first |-> 0, last |-> 0, msgs |-> 0]
    /\ wfs' = Nothing
    /\ \/ disk' = d
       \/ wfs # Nothing /\ disk' = [d EXCEPT !.index = Nothing]
    /\ goal' = [must |-> Now \cap after, may |-> Now \cup after]
    /\ hist' = [hist EXCEPT !.unmarked =
                    (UNION {MsgsIn(d.files[i]) : i \in DOMAIN d.files})
                      \ (Now \cup after \cup UNION {ToSet(TombsIn(d.files[i])) : i \in DOMAIN d.files})]

DieIn(s, after) ==
    /\ up
    /\ Use("crash")
    /\ \E n \in 0 .. Len(s.todo) - 1 : Gone(AfterSteps(disk, s.todo, n), after)

Crash ==
    /\ up
    /\ Use("crash")
    /\ Gone(disk, Now)
    /\ UNCHANGED cfg

\* storeRawMsg.
Stored(s0) ==
    LET q == s0.last + 1
        s == CheckLastBlock(s0)
        b == Lmb(s)
        c == [b EXCEPT !.first = IF @ = 0 \/ (~b.fts /\ q >= @) THEN q ELSE @,
                       !.fts = @ \/ b.first = 0 \/ q >= b.first,
                       !.last = q, !.msgs = @ + 1]
    IN  EnforceMsgLimit([WriteRecord(s, c, Msg(q)) EXCEPT
            !.first = IF s.msgs = 0 THEN q ELSE @, !.msgs = @ + 1, !.last = q], cfg.maxmsgs)

\* What MaxMsgs leaves of a set of messages.
Limited(S, max) == {q \in S : max = 0 \/ Cardinality({x \in S : x >= q}) <= max}

StoreMsg ==
    LET after == Limited(Now \cup {st.last + 1}, cfg.maxmsgs)
    IN  /\ Do("store", Stored(Here), after) \/ (left.store > 0 /\ DieIn(Stored(Here), after))
        /\ UNCHANGED cfg

\* UpdateConfig with a lower MaxMsgs: the new configuration is on disk first.
UpdateConfig(max) ==
    LET s == EnforceMsgLimit(Here, max)
        after == Limited(Now, max)
    IN  /\ cfg.maxmsgs = 0 \/ max < cfg.maxmsgs
        /\ cfg' = [cfg EXCEPT !.maxmsgs = max]
        /\ Do("update", s, after) \/ (left.update > 0 /\ DieIn(s, after))

\* SkipMsg: a sequence that has no message.
Skipped(s0) ==
    LET q == s0.last + 1
        s == CheckLastBlock(s0)
        b == Lmb(s)
        c == IF b.msgs = 0 THEN [b EXCEPT !.last = q, !.first = q + 1, !.fts = FALSE]
             ELSE [b EXCEPT !.last = q, !.dmap = @ \cup {q}]
        first == IF s.msgs = 0 THEN q ELSE s.first
    IN  [WriteRecord(s, c, Erased(q)) EXCEPT !.last = q, !.first = IF q = first THEN q + 1 ELSE first]

SkipMsg ==
    /\ Do("skip", Skipped(Here), Now) \/ (left.skip > 0 /\ DieIn(Skipped(Here), Now))
    /\ UNCHANGED cfg

\* RemoveMsg and EraseMsg.
UserRemove(op, q, inline) ==
    LET s == RemoveMsg(Here, q, op = "erase", FALSE, inline)
        after == Now \ {q}
    IN  /\ Found(Here, q)
        /\ Do(op, s, after) \/ (left[op] > 0 /\ DieIn(s, after))
        /\ UNCHANGED cfg

\* purge: a new block with a tombstone for the last sequence takes the place
\* of all the others.
Purged(s0, fseq) ==
    LET first == Max({s0.last + 1, fseq})
        s1 == NewMsgBlockForWrite([s0 EXCEPT !.first = first, !.last = first - 1, !.msgs = 0])
        s2 == IF s1.last > 0 THEN WriteTombstone(s1, s1.last) ELSE s1
        i == Lmb(s2).idx
    IN  [s2 EXCEPT !.blks = <<Lmb(s2)>>,
                   !.todo = @ \o <<FileOp("moveout", i, Nothing), FileOp("drop", 0, Nothing),
                                   FileOp("movein", 0, Nothing)>>]

Purge ==
    LET s == Purged(Here, 0)
    IN  /\ Do("purge", s, {}) \/ (left.purge > 0 /\ DieIn(s, {}))
        /\ UNCHANGED cfg

\* compact: the blocks before the one of seq go, and of that one what is below
\* seq, by tombstones or, when that saves enough (reclaim), by a rewrite.
WriteTombstones(s, qs) == FoldLeft(WriteTombstone, s, qs)

CompactTo(s0, seq, reclaim) ==
    LET i == SelectMsgBlock(s0, seq)
        p == Pos(s0, i)
        b == s0.blks[p]
        exact == b.first = seq
        below == SetToSortSeq({q \in b.first .. seq - 1 : InBlock(b, q)}, <)
        left0 == [b EXCEPT !.dmap = {q \in @ : q >= seq \/ q < b.first},
                           !.msgs = @ - Len(below)]
        empty == left0.msgs = 0
        isLmb == p = Len(s0.blks)
        next == BlockNextFirst([left0 EXCEPT !.first = IF @ < seq THEN seq - 1 ELSE @ - 1])
        rewrite == ~exact /\ ~empty /\ reclaim /\ 2 * next.msgs < Len(next.recs)
        from == Min({n \in DOMAIN b.recs : b.recs[n] = Msg(next.first)})
        c == IF exact THEN b
             ELSE IF empty THEN left0
             ELSE IF rewrite THEN [next EXCEPT !.recs = SubSeq(@, from, Len(@))]
             ELSE next
        goneTo == IF ~exact /\ empty /\ ~isLmb THEN p ELSE p - 1
        purged == FoldLeft(LAMBDA a, x : a + x.msgs, 0, SubSeq(s0.blks, 1, p - 1))
                  + (IF exact THEN 0 ELSE Len(below))
        s1 == [s0 EXCEPT !.blks[p] = c,
                         !.first = IF exact \/ ~empty THEN c.first ELSE b.last + 1,
                         !.todo = @ \o [n \in 1..goneTo |-> FileOp("remove", s0.blks[n].idx, Nothing)]
                                    \o (IF rewrite THEN <<FileOp("rewrite", i, c.recs)>> ELSE <<>>)]
        s2 == IF exact \/ rewrite THEN s1 ELSE WriteTombstones(s1, below)
        s3 == [s2 EXCEPT !.blks = SubSeq(@, goneTo + 1, Len(@)), !.msgs = @ - purged]
    IN  Todo([s3 EXCEPT !.first = IF s3.msgs = 0 THEN s3.last + 1 ELSE @],
             FileOp("rmindex", 0, Nothing))

Compact(seq, reclaim) ==
    LET s == IF seq > st.last THEN Purged(Here, seq) ELSE CompactTo(Here, seq, reclaim)
        after == {q \in Now : q >= seq}
    IN  /\ seq >= st.first
        /\ seq > st.last \/ SelectMsgBlock(Here, seq) # 0
        /\ Do("compact", s, after) \/ (left.compact > 0 /\ DieIn(s, after))
        /\ UNCHANGED cfg

\* syncBlocks rewrites a block, but the last, of which too little is alive; if
\* nothing is left of it, it goes.
Synced(s0, b) ==
    LET fsDmap == UNION {s0.blks[p].dmap : p \in DOMAIN s0.blks}
        s == CompactBlock(s0, b, s0.first, FALSE, fsDmap)
    IN  IF Blk(s, b.idx).recs = <<>> THEN RemoveMsgBlock(s, b.idx) ELSE s

SyncBlock(p) ==
    LET s == Synced(Here, blks[p])
    IN  /\ p < Len(blks) /\ 2 * blks[p].msgs < Len(blks[p].recs)
        /\ s.todo[1].x # blks[p].recs
        /\ Do("sync", s, Now) \/ (left.sync > 0 /\ DieIn(s, Now))
        /\ UNCHANGED cfg

-----------------------------------------------------------------------------
(* index.db.                                                               *)

LastRecord(recs) == IF recs = <<>> THEN Nothing ELSE recs[Len(recs)]

FullState ==
    [st |-> st,
     blks |-> [p \in DOMAIN blks |-> [idx |-> blks[p].idx, first |-> blks[p].first, fts |-> blks[p].fts,
                                      last |-> blks[p].last, dmap |-> blks[p].dmap]],
     lbi |-> Lmb(Here).idx, lchk |-> LastRecord(Lmb(Here).recs)]

\* _writeFullState under the lock: if the state and the blocks disagree, the
\* state is rebuilt and nothing written.  The timer does this, a clean stop,
\* and purge and compact when they are done.
WriteFullState ==
    /\ up /\ wfs = Nothing /\ blks # <<>>
    /\ Use("index")
    /\ IF TrackingStatesEqual(st, Tracked(blks))
       THEN wfs' = FullState /\ UNCHANGED st
       ELSE st' = StateOf(RebuildStateLocked(Here)) /\ UNCHANGED wfs
    /\ UNCHANGED <<cfg, up, blks, disk, goal, hist>>

\* And the write of the file, after the lock was released.
WriteIndex ==
    /\ wfs # Nothing
    /\ disk' = [disk EXCEPT !.index = wfs]
    /\ wfs' = Nothing
    /\ hist' = [hist EXCEPT !.kept = Max({@, wfs.st.last})]
    /\ UNCHANGED <<cfg, left, up, blks, st, goal>>

-----------------------------------------------------------------------------
(* Recovery (newFileStoreWithCreated).                                     *)

\* A purge that got as far as its new block is completed (recoverPartialPurge).
RecoverPartialPurge ==
    IF disk.ndir = <<>> THEN <<>>
    ELSE <<FileOp("drop", 0, Nothing), FileOp("movein", 0, Nothing)>>

\* A block as index.db has it; the number of its messages is worked out.  The
\* first sequence of a block is at most one after its last, so nothing wraps.
IndexedBlock(x, files) ==
    [idx |-> x.idx, recs |-> IF x.idx \in DOMAIN files THEN files[x.idx] ELSE <<>>,
     first |-> x.first, fts |-> x.fts, last |-> x.last, dmap |-> x.dmap,
     msgs |-> Max({0, x.last - x.first + 1 - Cardinality(x.dmap)})]

\* Blocks without messages are left out, but for the last.
IndexedBlocks(d) ==
    LET n == Len(d.index.blks)
        all == [p \in 1..n |-> IndexedBlock(d.index.blks[p], d.files)]
    IN  SelectSeq(all, LAMBDA b : b.msgs > 0 \/ b.idx = all[n].idx)

\* Mutant of PriorState: the last record of the last block is not compared.
PriorStateUnchecked(d) ==
    \/ d.index.lbi \notin DOMAIN d.files
    \/ \E i \in DOMAIN d.files : i > d.index.lbi
    \/ \E n \in DOMAIN IndexedBlocks(d) : IndexedBlocks(d)[n].idx \notin DOMAIN d.files

\* index.db is out of date: the last block has other records than it had,
\* there are newer blocks, or a block is gone.
PriorState(d) ==
    \/ d.index.lbi \notin DOMAIN d.files
    \/ LastRecord(d.files[d.index.lbi]) # d.index.lchk
    \/ \E i \in DOMAIN d.files : i > d.index.lbi
    \/ \E n \in DOMAIN IndexedBlocks(d) : IndexedBlocks(d)[n].idx \notin DOMAIN d.files

CorruptState(d) == ~TrackingStatesEqual(d.index.st, Tracked(IndexedBlocks(d)))

\* recoverFullState, when it succeeds.
FromIndex(d, s) ==
    [s EXCEPT !.blks = IndexedBlocks(d), !.first = d.index.st.first,
              !.last = d.index.st.last, !.msgs = d.index.st.msgs]

\* A rebuilt block joins the store; one without a message is aligned with the
\* state so far.
AddBlock(s, b, t) ==
    [s EXCEPT !.blks = Append(@, IF b.msgs # 0 THEN b
                                 ELSE [b EXCEPT !.first = t.last + 1, !.fts = FALSE, !.last = t.last]),
              !.first = t.first, !.last = t.last, !.msgs = t.msgs]

RecoverOne(s, b) ==
    IF b.first = 0 THEN Todo(s, FileOp("remove", b.idx, Nothing))
    ELSE AddBlock(s, b, TrackBlock(IF s.msgs = 0 THEN [s EXCEPT !.first = 0, !.last = 0] ELSE s, b))

\* recoverMsgs takes the blocks in their order; a block without a record is
\* removed.
RecoverBlock(s, x) == RecoverOne(s, RebuildState(Block(x.idx, 0, 0), x.recs))

AnyBlock(s) == IF s.blks = <<>> THEN NewMsgBlockForWrite(s) ELSE s

FromBlocks(d, s) ==
    LET is == SetToSortSeq(DOMAIN d.files, <)
    IN  AnyBlock(FoldLeft(RecoverBlock, s, [n \in DOMAIN is |-> [idx |-> is[n], recs |-> d.files[is[n]]]]))

\* Mutant of KeepPriorLast: only for a store that has nothing left.
KeepPriorLastIfEmpty(s, last) ==
    LET s1 == WriteTombstone(NewMsgBlockForWrite(s), last)
    IN  IF last <= s.last \/ s.msgs > 0 THEN s
        ELSE [s1 EXCEPT !.last = last, !.first = last + 1]

\* The last sequence of an index.db that is out of date is not given up.
KeepPriorLast(s, last) ==
    LET s1 == WriteTombstone(NewMsgBlockForWrite(s), last)
    IN  IF last <= s.last THEN s
        ELSE [s1 EXCEPT !.last = last, !.first = IF s1.msgs = 0 THEN last + 1 ELSE @]

\* The tombstones are carried out, as removals that leave no new ones.
CarryOutTombs(s, tombs) ==
    FoldLeft(LAMBDA a, q : RemoveMsg(a, q, FALSE, TRUE, FALSE), s, tombs)

AllTombs(d) ==
    LET is == SetToSortSeq(DOMAIN d.files, <)
    IN  FlattenSeq([n \in DOMAIN is |-> TombsIn(d.files[is[n]])])

Recovered ==
    LET todo == RecoverPartialPurge
        d == AfterSteps(disk, todo, Len(todo))
        s == [blks |-> <<>>, first |-> 0, last |-> 0, msgs |-> 0, todo |-> todo]
        corrupt == d.index # Nothing /\ ~PriorState(d) /\ CorruptState(d)
        s1 == IF corrupt THEN Todo(s, FileOp("rmindex", 0, Nothing)) ELSE s
        s2 == KeepPriorLast(FromBlocks(d, s1), IF d.index = Nothing THEN 0 ELSE d.index.st.last)
    IN  EnforceMsgLimit(IF d.index # Nothing /\ ~PriorState(d) /\ ~corrupt THEN FromIndex(d, s)
                        ELSE CarryOutTombs(s2, AllTombs(d)), cfg.maxmsgs)

Recover ==
    /\ ~up
    /\ \E s \in {Recovered} :
          \/ /\ up' = TRUE /\ blks' = s.blks /\ st' = StateOf(s)
             /\ disk' = AfterSteps(disk, s.todo, Len(s.todo))
             /\ hist' = [hist EXCEPT !.top = Max({@, s.last}), !.back = @ \/ s.last < hist.top]
             /\ UNCHANGED left
          \/ /\ Use("crash")
             /\ \E n \in 1 .. Len(s.todo) - 1 : disk' = AfterSteps(disk, s.todo, n)
             /\ UNCHANGED <<up, blks, st, hist>>
    /\ UNCHANGED <<cfg, wfs, goal>>

-----------------------------------------------------------------------------

Init ==
    /\ cfg \in Configs
    /\ left = cfg.left
    /\ up = TRUE
    /\ blks = <<Block(1, 1, 0)>>
    /\ st = [first |-> 0, last |-> 0, msgs |-> 0]
    /\ disk = [files |-> 1 :> <<>>, index |-> Nothing, ndir |-> <<>>]
    /\ wfs = Nothing
    /\ goal = [must |-> {}, may |-> {}]
    /\ hist = [top |-> 0, kept |-> 0, back |-> FALSE, unmarked |-> {}]

Next ==
    \/ StoreMsg
    \/ SkipMsg
    \/ \E max \in 1 .. 2 : UpdateConfig(max)
    \/ \E q \in st.first .. st.last, inline \in BOOLEAN :
          UserRemove("remove", q, inline) \/ UserRemove("erase", q, inline)
    \/ Purge
    \/ \E q \in st.first .. st.last + 2, reclaim \in BOOLEAN : Compact(q, reclaim)
    \/ \E p \in DOMAIN blks : SyncBlock(p)
    \/ WriteFullState
    \/ WriteIndex
    \/ Crash
    \/ Recover

Spec == Init /\ [][Next]_vars

-----------------------------------------------------------------------------
(* Properties.                                                             *)

\* The properties are about a store whose sequences have not gone back in a
\* recovery: after that a sequence has two messages.  When this can happen is
\* said in the README.
Running == up /\ ~hist.back

\* The block files are numbered in their order, and hold what the blocks hold.
TypeOK ==
    /\ up \in BOOLEAN
    /\ st \in [first : Nat, last : Nat, msgs : Nat]
    /\ hist.top \in Nat /\ hist.kept \in Nat /\ hist.back \in BOOLEAN
    /\ \A p, q \in DOMAIN blks : p < q => blks[p].idx < blks[q].idx
    /\ \A p \in DOMAIN blks : /\ blks[p].idx \in DOMAIN disk.files
                              /\ disk.files[blks[p].idx] = blks[p].recs

\* A message that was stored, and that no remove, compact, purge or limit has
\* taken, is there for a reader: after any of the store's operations, after
\* blocks were rewritten, and after a crash at any point of any of them, with
\* an index.db that is current, out of date, cut short or gone
\* (newFileStoreWithCreated, recoverFullState, recoverMsgs).
NothingLost == Running => goal.must \subseteq Contents(Here)

\* A message that was removed does not come back by a crash, as long as a block
\* file has a tombstone of it (removeMsgFromBlock, recoverFullState).
NothingComesBack == Running => Contents(Here) \subseteq goal.may \cup hist.unmarked

\* And whether or not there is one: the store remembers what users removed.
NothingComesBackAtAll == Running => Contents(Here) \subseteq goal.may

\* A last sequence that index.db has had once is not given out again, though
\* the blocks may no longer show it and index.db may be out of date or gone
\* when the store recovers (the prior state in newFileStoreWithCreated, and
\* the tombstones of purge and compact).
LastRemembered == up => st.last >= hist.kept

\* The counts of the store and of each block are those of the messages a reader
\* finds: enforceMsgLimit, selectMsgBlock and the removal of empty blocks rest
\* on them, and a recovery takes them from index.db or counts again.
CountsAgree ==
    Running => /\ st.msgs = Cardinality(Contents(Here))
               /\ \A p \in DOMAIN blks :
                     blks[p].msgs = Cardinality({q \in Contents(Here) : SelectMsgBlock(Here, q) = blks[p].idx})

\* MaxMsgs holds, of what came back after a crash too (enforceMsgLimit).
LimitHolds == Running /\ cfg.maxmsgs > 0 => Cardinality(Contents(Here)) <= cfg.maxmsgs

\* Files, blocks, counts and limits go together.
BlocksAgree == TypeOK /\ CountsAgree /\ LimitHolds

=============================================================================
