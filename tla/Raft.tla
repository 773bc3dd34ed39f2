-------------------------------- MODULE Raft --------------------------------
(***************************************************************************)
(* One replication group of server/raft.go: the servers of a JetStream     *)
(* group elect a leader, replicate its append entries and catch up the     *)
(* followers that fell behind.  Membership is fixed, there are no          *)
(* snapshots and no leader transfer.                                       *)
(*                                                                         *)
(* Every server runs one goroutine (run, runAsFollower, runAsCandidate,    *)
(* runAsLeader) that takes one message or timer at a time and handles it   *)
(* under n.Lock, so a handler is one action; runCatchup is a goroutine of  *)
(* its own and is one action per entry it sends.  A message is in link or  *)
(* msgs from sendRPC until the handler of its receiver takes it.  Append   *)
(* entries, the caught-up ones included, go through one send queue and one *)
(* route and arrive in n.entry in the order they were sent: link is FIFO.  *)
(* The other queues (n.reqs, n.votes, n.resp) are read by a Go select, in  *)
(* no fixed order: msgs is a set.  Any message may be lost on its way.     *)
(* Timers are not modelled: whatever a timer starts may happen any time.   *)
(***************************************************************************)
EXTENDS Integers, Sequences, FiniteSets, FiniteSetsExt

CONSTANTS
    Server,        \* the peers of the group
    NoVote,        \* noVote: the empty peer id
    FileWAL,       \* n.wtype: the log is a file store, or a memory store
    MaxTerm,       \* bound on terms
    MaxLog,        \* bound on the length of a log
    MaxMsgs,       \* bound on messages in flight; one more is lost
    MaxRestarts,   \* bound on crashes
    MaxInbox       \* bound on catchup requests

ASSUME ServerAssumption == IsFiniteSet(Server) /\ Cardinality(Server) > 1
ASSUME NoVoteAssumption == NoVote \notin Server
ASSUME FileWALAssumption == FileWAL \in BOOLEAN
ASSUME BoundsAssumption ==
    /\ MaxTerm \in Nat /\ MaxLog \in Nat /\ MaxMsgs \in Nat
    /\ MaxRestarts \in Nat /\ MaxInbox \in Nat

VARIABLES
    state,         \* n.state: Follower, Candidate or Leader
    term,          \* n.term
    vote,          \* n.vote
    tav,           \* the term-and-vote file tav.idx
    wal,           \* n.wal: the stored append entries
    commit,        \* n.commit
    initializing,  \* n.initializing
    votes,         \* runAsCandidate's votes
    emptyVotes,    \* runAsCandidate's emptyVotes
    acks,          \* n.acks, as a set of pairs <<index, peer>>
    catchup,       \* n.catchup: the inbox of the catchup and its target
    progress,      \* n.progress: the runCatchup goroutines of a leader
    link,          \* append entries in flight, for each ordered pair
    msgs,          \* requests, votes and responses in flight
    inboxes,       \* how many catchup inboxes were created
    restarts       \* how many crashes there were

ballotVars  == <<term, vote, tav>>
logVars     == <<wal, commit, initializing>>
electVars   == <<votes, emptyVotes>>
catchupVars == <<catchup, inboxes>>
vars == <<state, ballotVars, logVars, electVars, acks, catchupVars, progress,
          link, msgs, restarts>>

Peers(s) == Server \ {s}
Pairs == Server \X Server

\* n.qn, from processPeerState: csz/2 + 1.
qn == Cardinality(Server) \div 2 + 1

\* n.pindex and n.pterm: index and term of the last entry of a log.
TermAt(log, i) == IF i = 0 THEN 0 ELSE log[i].term
pindex(s) == Len(wal[s])
pterm(s) == TermAt(wal[s], pindex(s))

NoCatchup == [inbox |-> 0, cterm |-> 0, cindex |-> 0]
NoProgress == [inbox |-> 0, next |-> 0, term |-> 0, last |-> 0]

-----------------------------------------------------------------------------
(* Messages *)

\* An append entry; a heartbeat has no entry.  inbox is 0 for one sent on the
\* append entry subject and the inbox of the catchup for one sent by runCatchup;
\* lterm is the term of the leader that sends it.
AppendEntry(t, lt, c, pt, pi, e, i) ==
    [term |-> t, lterm |-> lt, commit |-> c, pterm |-> pt, pindex |-> pi,
     entry |-> e, inbox |-> i]

\* Mutant of BuildAppendEntry: the index before the previous entry.
BuildAppendEntryOff(s, e) ==
    AppendEntry(term[s], term[s], commit[s], pterm(s), pindex(s) - 1, e, 0)

\* buildAppendEntry: what leader s sends, before it stores the entry.
BuildAppendEntry(s, e) ==
    AppendEntry(term[s], term[s], commit[s], pterm(s), pindex(s), e, 0)

VoteRequest(s, p, t) ==
    [type |-> "request", from |-> s, to |-> p, term |-> t,
     lastTerm |-> pterm(s), lastIndex |-> pindex(s)]

VoteResponse(s, p, t, granted, empty) ==
    [type |-> "vote", from |-> s, to |-> p, term |-> t,
     granted |-> granted, empty |-> empty]

Response(s, p, t, index, success, inbox) ==
    [type |-> "response", from |-> s, to |-> p, term |-> t, index |-> index,
     success |-> success, inbox |-> inbox]

\* How many more messages may be in flight when rest is left of msgs.
Room(rest) ==
    MaxMsgs - Cardinality(rest)
            - Cardinality(UNION {{p} \X DOMAIN link[p] : p \in Pairs})

\* The sets of peers a message s sends on a subject all of them subscribe to may
\* reach; the others lose it.
Receivers(s, rest) == {R \in SUBSET Peers(s) : Cardinality(R) <= Room(rest)}

\* sendRPC of append entry ae by s, received by the peers in R.
Broadcast(s, R, ae) ==
    [p \in Pairs |-> IF p[1] = s /\ p[2] \in R THEN Append(link[p], ae) ELSE link[p]]

\* The link from i to s without its first append entry.
Received(i, s) == [link EXCEPT ![<<i, s>>] = Tail(@)]

\* What answering message m with reply leaves in flight: the reply may be lost.
Answer(m, reply) == {msgs \ {m}, (msgs \ {m}) \cup {reply}}

\* The same for an append entry, whose link has just lost its head.
AnswerEntry(reply) == {msgs, msgs \cup {reply}}

-----------------------------------------------------------------------------
Init ==
    /\ state = [s \in Server |-> "Follower"]
    /\ term = [s \in Server |-> 0]
    /\ vote = [s \in Server |-> NoVote]
    /\ tav = [s \in Server |-> [term |-> 0, vote |-> NoVote]]
    /\ wal = [s \in Server |-> <<>>]
    /\ commit = [s \in Server |-> 0]
    /\ initializing = [s \in Server |-> TRUE]
    /\ votes = [s \in Server |-> {}]
    /\ emptyVotes = [s \in Server |-> {}]
    /\ acks = [s \in Server |-> {}]
    /\ catchup = [s \in Server |-> NoCatchup]
    /\ progress = [p \in Pairs |-> NoProgress]
    /\ link = [p \in Pairs |-> <<>>]
    /\ msgs = {}
    /\ inboxes = 0
    /\ restarts = 0

-----------------------------------------------------------------------------
(* Steps the handlers share *)

\* Mutant of WriteTermVote: the file is not written.
WriteTermVoteNot(s) == UNCHANGED tav

\* writeTermVote: the file takes the term and the vote the step ends with.
WriteTermVote(s) ==
    tav' = [tav EXCEPT ![s] = [term |-> term'[s], vote |-> vote'[s]]]

\* A higher term was seen: take it, forget the vote, write both.
AdoptTerm(s, t) ==
    /\ term' = [term EXCEPT ![s] = t]
    /\ vote' = [vote EXCEPT ![s] = NoVote]
    /\ WriteTermVote(s)

\* stepdownLocked, switchToFollowerLocked: the acks of the term are dropped, and
\* with the return from runAsCandidate its votes.
Stepdown(s) ==
    /\ state' = [state EXCEPT ![s] = "Follower"]
    /\ acks' = [acks EXCEPT ![s] = {}]
    /\ votes' = [votes EXCEPT ![s] = {}]
    /\ emptyVotes' = [emptyVotes EXCEPT ![s] = {}]

\* createCatchup for append entry ae, with an inbox no catchup had before.
CreateCatchup(s, ae) ==
    /\ inboxes < MaxInbox
    /\ inboxes' = inboxes + 1
    /\ catchup' = [catchup EXCEPT ![s] =
           [inbox |-> inboxes', cterm |-> ae.pterm, cindex |-> ae.pindex]]

\* sendAppendEntryLocked with one entry: s stores it and sends it to its peers.
SendEntry(s, rest) ==
    /\ pindex(s) < MaxLog
    /\ wal' = [wal EXCEPT ![s] =
           Append(@, [term |-> term[s], lterm |-> term[s], commit |-> commit[s]])]
    /\ \E R \in Receivers(s, rest) : link' = Broadcast(s, R, BuildAppendEntry(s, TRUE))

-----------------------------------------------------------------------------
(* Elections *)

\* The election timer fired: switchToCandidate, then requestVote and the vote
\* for itself at the top of runAsCandidate.  A follower that is catching up
\* waits instead.
SwitchToCandidate(s) ==
    /\ \/ state[s] = "Candidate"
       \/ state[s] = "Follower" /\ catchup[s] = NoCatchup
    /\ term[s] < MaxTerm
    /\ term' = [term EXCEPT ![s] = @ + 1]
    /\ vote' = [vote EXCEPT ![s] = s]
    /\ WriteTermVote(s)
    /\ state' = [state EXCEPT ![s] = "Candidate"]
    /\ votes' = [votes EXCEPT ![s] = {s}]
    /\ emptyVotes' = [emptyVotes EXCEPT ![s] = {}]
    /\ \E R \in Receivers(s, msgs) :
           msgs' = msgs \cup {VoteRequest(s, p, term[s] + 1) : p \in R}
    /\ UNCHANGED <<logVars, acks, catchupVars, progress, link, restarts>>

\* A follower whose catchup stalled gives it up when the election timer fires.
CatchupStalled(s) ==
    /\ state[s] = "Follower" /\ catchup[s] # NoCatchup
    /\ catchup' = [catchup EXCEPT ![s] = NoCatchup]
    /\ UNCHANGED <<state, ballotVars, logVars, electVars, acks, inboxes,
                   progress, link, msgs, restarts>>

\* Mutant of UpToDate: any candidate will do.
UpToDateAny(s, m) == TRUE
\* Mutant of UpToDate: the index is not compared.
UpToDateTerm(s, m) == m.lastTerm >= pterm(s)

\* The candidate's log must not be behind that of s.
UpToDate(s, m) ==
    \/ m.lastTerm > pterm(s)
    \/ m.lastTerm = pterm(s) /\ m.lastIndex >= pindex(s)

\* processVoteRequest, for a request of an older term.
RejectVoteRequest(m) ==
    LET s == m.to IN
    /\ m \in msgs /\ m.type = "request" /\ m.term < term[s]
    /\ msgs' \in Answer(m, VoteResponse(s, m.from, term[s], FALSE, pindex(s) = 0))
    /\ UNCHANGED <<state, ballotVars, logVars, electVars, acks, catchupVars,
                   progress, link, restarts>>

\* processVoteRequest otherwise.  A higher term makes s a follower without a
\* vote and ends its catchup.  The vote is in tav.idx before the response goes out.
ProcessVoteRequest(m) ==
    LET s == m.to
        higher == m.term > term[s]
        previous == IF higher THEN NoVote ELSE vote[s]
        voteOk == previous \in {NoVote, m.from}
        granted == voteOk /\ UpToDate(s, m)
        empty == pindex(s) = 0 /\ ~(voteOk /\ initializing[s])
    IN
    /\ m \in msgs /\ m.type = "request" /\ m.term >= term[s]
    /\ term' = [term EXCEPT ![s] = m.term]
    /\ vote' = [vote EXCEPT ![s] = IF granted THEN m.from ELSE previous]
    /\ IF higher \/ granted THEN WriteTermVote(s) ELSE UNCHANGED tav
    /\ IF higher
       THEN Stepdown(s) /\ catchup' = [catchup EXCEPT ![s] = NoCatchup]
       ELSE UNCHANGED <<state, acks, electVars, catchup>>
    /\ msgs' \in Answer(m, VoteResponse(s, m.from, m.term, granted, empty))
    /\ UNCHANGED <<logVars, inboxes, progress, link, restarts>>

\* The votes and emptyVotes of m.to once it has counted response m.
VotesWith(m) == votes[m.to] \cup (IF m.empty THEN {} ELSE {m.from})
EmptyVotesWith(m) == emptyVotes[m.to] \cup (IF m.empty THEN {m.from} ELSE {})

\* wonElection, or the whole cluster voted and some logs were empty.
Wins(m) ==
    \/ Cardinality(VotesWith(m)) >= qn
    \/ Cardinality(VotesWith(m)) + Cardinality(EmptyVotesWith(m)) = Cardinality(Server)

\* runAsCandidate counts a vote of its term; with enough of them it is leader,
\* and stores and sends its peer state (switchToLeader).
CountVote(m) ==
    LET s == m.to IN
    /\ m \in msgs /\ m.type = "vote" /\ m.granted
    /\ state[s] = "Candidate" /\ m.term = term[s]
    /\ votes' = [votes EXCEPT ![s] = VotesWith(m)]
    /\ emptyVotes' = [emptyVotes EXCEPT ![s] = EmptyVotesWith(m)]
    /\ msgs' = msgs \ {m}
    /\ IF Wins(m)
       THEN state' = [state EXCEPT ![s] = "Leader"] /\ SendEntry(s, msgs \ {m})
       ELSE UNCHANGED <<state, wal, link>>
    /\ UNCHANGED <<ballotVars, commit, initializing, acks, catchupVars,
                   progress, restarts>>

\* A vote response of a higher term: a candidate takes the term, a leader
\* only steps down.
HigherTermVote(m) ==
    LET s == m.to IN
    /\ m \in msgs /\ m.type = "vote" /\ m.term > term[s]
    /\ state[s] # "Follower"
    /\ Stepdown(s)
    /\ IF state[s] = "Candidate" THEN AdoptTerm(s, m.term) ELSE UNCHANGED ballotVars
    /\ msgs' = msgs \ {m}
    /\ UNCHANGED <<logVars, catchupVars, progress, link, restarts>>

\* Every other vote response is taken off the queue and ignored.
IgnoreVote(m) ==
    LET s == m.to IN
    /\ m \in msgs /\ m.type = "vote"
    /\ \/ state[s] = "Follower"
       \/ state[s] = "Candidate" /\ m.term <= term[s] /\ ~(m.granted /\ m.term = term[s])
       \/ state[s] = "Leader" /\ m.term <= term[s]
    /\ msgs' = msgs \ {m}
    /\ UNCHANGED <<state, ballotVars, logVars, electVars, acks, catchupVars,
                   progress, link, restarts>>

-----------------------------------------------------------------------------
(* The leader *)

\* runAsLeader takes a proposal.
Propose(s) ==
    /\ state[s] = "Leader"
    /\ SendEntry(s, msgs)
    /\ UNCHANGED <<state, ballotVars, commit, initializing, electVars, acks,
                   catchupVars, progress, msgs, restarts>>

\* sendHeartbeat: an append entry without entries.
SendHeartbeat(s) ==
    /\ state[s] = "Leader"
    /\ \E R \in Receivers(s, msgs) : link' = Broadcast(s, R, BuildAppendEntry(s, FALSE))
    /\ UNCHANGED <<state, ballotVars, logVars, electVars, acks, catchupVars,
                   progress, msgs, restarts>>

\* The lost-quorum timer of runAsLeader.
LostQuorum(s) ==
    /\ state[s] = "Leader"
    /\ Stepdown(s)
    /\ UNCHANGED <<ballotVars, logVars, catchupVars, progress, link, msgs, restarts>>

\* trackResponse: m counts when it is about an entry of this term that is not
\* committed yet.
Tracked(m) == m.index > commit[m.to] /\ m.term = term[m.to]

\* The peers that acked index i at leader s once m is tracked.
AckedWith(m) == {a[2] : a \in {b \in acks[m.to] : b[1] = m.index}} \cup {m.from}

\* processAppendEntryResponse, success: trackResponse and, with a quorum that
\* counts the leader, tryCommit up to the index and a heartbeat with the new
\* commit (skipped when a proposal waits).
ProcessSuccess(m) ==
    LET s == m.to IN
    /\ m \in msgs /\ m.type = "response" /\ m.success
    /\ state[s] = "Leader" /\ Tracked(m)
    /\ msgs' = msgs \ {m}
    /\ IF Cardinality(AckedWith(m)) + 1 >= qn
       THEN /\ commit' = [commit EXCEPT ![s] = m.index]
            /\ acks' = [acks EXCEPT ![s] = {a \in @ : a[1] > m.index}]
            /\ \E R \in Receivers(s, msgs \ {m}) :
                   link' = Broadcast(s, R,
                       [BuildAppendEntry(s, FALSE) EXCEPT !.commit = m.index])
       ELSE /\ acks' = [acks EXCEPT ![s] = @ \cup {<<m.index, m.from>>}]
            /\ UNCHANGED <<commit, link>>
    /\ UNCHANGED <<state, ballotVars, wal, initializing, electVars, catchupVars,
                   progress, restarts>>

\* catchupFollower: start a runCatchup from the index the follower is at, or
\* step down when the follower has entries this leader does not.  runAsLeader
\* handles the rest of a batch even when a response in it made s a follower.
CatchupFollower(m) ==
    LET s == m.to IN
    /\ m \in msgs /\ m.type = "response" /\ ~m.success /\ m.inbox # 0
    /\ state[s] # "Candidate"
    /\ msgs' = msgs \ {m}
    /\ IF m.index + 1 <= pindex(s)
       THEN /\ progress' = [progress EXCEPT ![<<s, m.from>>] =
                   [inbox |-> m.inbox, next |-> m.index, term |-> 0, last |-> 0]]
            /\ UNCHANGED <<state, acks, electVars>>
       ELSE /\ Stepdown(s)
            /\ progress' = [progress EXCEPT ![<<s, m.from>>] = NoProgress]
    /\ UNCHANGED <<ballotVars, logVars, catchupVars, link, restarts>>

\* A failure response of a higher term makes the leader step down; like the one
\* above it may be in a batch after the one that did.
HigherTermResponse(m) ==
    LET s == m.to IN
    /\ m \in msgs /\ m.type = "response" /\ ~m.success /\ m.inbox = 0
    /\ state[s] # "Candidate" /\ m.term > term[s]
    /\ AdoptTerm(s, m.term)
    /\ Stepdown(s)
    /\ msgs' = msgs \ {m}
    /\ UNCHANGED <<logVars, catchupVars, progress, link, restarts>>

\* Responses nobody waits for: not leader any more, committed or older entries.
IgnoreResponse(m) ==
    LET s == m.to IN
    /\ m \in msgs /\ m.type = "response"
    /\ \/ state[s] # "Leader"
       \/ m.success /\ ~Tracked(m)
       \/ ~m.success /\ m.inbox = 0 /\ m.term <= term[s]
    /\ msgs' = msgs \ {m}
    /\ UNCHANGED <<state, ballotVars, logVars, electVars, acks, catchupVars,
                   progress, link, restarts>>

\* One entry sent by runCatchup for peer p.  The goroutine notes the term and
\* the last index when it starts, and only then checks that s is leader; the
\* entries are read without the lock, as they are when it gets to them.
RunCatchup(s, p) ==
    LET job == progress[<<s, p>>]
        begun == job.term # 0
        t == IF begun THEN job.term ELSE term[s]
        last == IF begun THEN job.last ELSE pindex(s)
        next == job.next + 1
        sends == (begun \/ state[s] = "Leader") /\ next <= last /\ next <= pindex(s)
    IN
    /\ job # NoProgress
    /\ IF sends
       THEN LET e == wal[s][next]
                ae == AppendEntry(e.term, t, e.commit, TermAt(wal[s], next - 1),
                                  next - 1, TRUE, job.inbox)
            IN \/ UNCHANGED link
               \/ Room(msgs) > 0 /\ link' = Broadcast(s, {p}, ae)
       ELSE UNCHANGED link
    /\ progress' = [progress EXCEPT ![<<s, p>>] =
           IF sends /\ next < last
           THEN [job EXCEPT !.next = next, !.term = t, !.last = last]
           ELSE NoProgress]
    /\ UNCHANGED <<state, ballotVars, logVars, electVars, acks, catchupVars,
                   msgs, restarts>>

-----------------------------------------------------------------------------
(* processAppendEntry: ae is the first append entry on the link from i to s *)

IsNew(ae) == ae.inbox = 0
Outdated(s, ae) == ae.lterm < term[s]

\* Mutant of OldCatchup: entries of old catchups are not told apart.
OldCatchupNever(s, ae) == FALSE

\* An entry of a catchup that s no longer waits for and that would truncate.
OldCatchup(s, ae) ==
    ~IsNew(ae) /\ ae.pindex < pindex(s) /\ ae.inbox # catchup[s].inbox

\* True as well when there is no catchup.
CaughtUp(s) == pterm(s) >= catchup[s].cterm /\ pindex(s) >= catchup[s].cindex

Current(s, ae) == ~Outdated(s, ae) /\ ~OldCatchup(s, ae)

\* Past the check of the catching-up state.
Ready(s, ae) == Current(s, ae) /\ (IsNew(ae) => CaughtUp(s))

\* The first thing a current append entry does: s follows its leader's term.  A
\* term a follower learns from a catchup entry is not written to the file.
FollowTerm(s, ae) ==
    /\ Stepdown(s)
    /\ term' = [term EXCEPT ![s] = ae.lterm]
    /\ vote' = [vote EXCEPT ![s] = IF ae.lterm > term[s] THEN NoVote ELSE @]
    /\ IF ae.lterm > term[s] /\ (IsNew(ae) \/ state[s] # "Follower")
       THEN WriteTermVote(s)
       ELSE \/ UNCHANGED tav
            \/ IsNew(ae) /\ CaughtUp(s) /\ WriteTermVote(s)   \* the leader changed

EndCatchupIfDone(s) ==
    catchup' = [catchup EXCEPT ![s] = IF CaughtUp(s) THEN NoCatchup ELSE @]

\* An append entry of an older term is answered with the newer one.
RejectAppendEntry(i, s) ==
    LET ae == Head(link[<<i, s>>]) IN
    /\ link[<<i, s>>] # <<>>
    /\ Outdated(s, ae) /\ (IsNew(ae) \/ state[s] = "Leader")
    /\ link' = Received(i, s)
    /\ msgs' \in AnswerEntry(Response(s, i, term[s], pindex(s), FALSE, 0))
    /\ UNCHANGED <<state, ballotVars, logVars, electVars, acks, catchupVars,
                   progress, restarts>>

\* An entry from an old catchup is ignored; a leader or candidate has by then
\* stepped down for a term that is not older than its own.
IgnoreCatchupEntry(i, s) ==
    LET ae == Head(link[<<i, s>>]) IN
    /\ link[<<i, s>>] # <<>>
    /\ ~IsNew(ae)
    /\ IF Outdated(s, ae) THEN state[s] # "Leader" ELSE OldCatchup(s, ae)
    /\ IF Outdated(s, ae) \/ state[s] = "Follower"
       THEN UNCHANGED <<state, ballotVars, acks, electVars>>
       ELSE FollowTerm(s, ae)
    /\ link' = Received(i, s)
    /\ UNCHANGED <<logVars, catchupVars, progress, msgs, restarts>>

\* New entries wait until the catchup is done; when it is stalled it is asked
\* for again.
AwaitCatchup(i, s) ==
    LET ae == Head(link[<<i, s>>]) IN
    /\ link[<<i, s>>] # <<>>
    /\ Current(s, ae) /\ IsNew(ae) /\ ~CaughtUp(s)
    /\ FollowTerm(s, ae)
    /\ link' = Received(i, s)
    /\ \/ UNCHANGED <<catchupVars, msgs>>
       \/ /\ CreateCatchup(s, ae)
          /\ msgs' \in AnswerEntry(
                 Response(s, i, pterm(s), pindex(s), FALSE, inboxes'))
    /\ UNCHANGED <<logVars, progress, restarts>>

\* The append entry follows an entry that is already committed here: no answer.
BelowCommit(s, ae) == ae.pindex < commit[s]

\* Mutant of Conflicts: only the index is compared.
ConflictsNever(s, ae) == FALSE

\* s has another entry, or at index 0 any entry, where ae expects pterm.
Conflicts(s, ae) ==
    /\ ae.pindex <= pindex(s)
    /\ IF ae.pindex = 0 THEN pindex(s) > 0 ELSE wal[s][ae.pindex].term # ae.pterm

\* The conflicting entry is committed: the code asserts this is unreachable and
\* keeps its log.
CommitConflict(s, ae) == Conflicts(s, ae) /\ ae.pindex - 1 < commit[s] /\ ae.pindex > 0

AlreadyCommitted(i, s) ==
    LET ae == Head(link[<<i, s>>]) IN
    /\ link[<<i, s>>] # <<>>
    /\ Ready(s, ae) /\ (BelowCommit(s, ae) \/ CommitConflict(s, ae))
    /\ FollowTerm(s, ae)
    /\ EndCatchupIfDone(s)
    /\ link' = Received(i, s)
    /\ UNCHANGED <<logVars, inboxes, progress, msgs, restarts>>

\* The conflicting entry and all after it go (resetWAL when the conflict is at
\* the start of the log) and the catchup is cancelled; no answer.
TruncateConflict(i, s) ==
    LET ae == Head(link[<<i, s>>]) IN
    /\ link[<<i, s>>] # <<>>
    /\ Ready(s, ae) /\ ~BelowCommit(s, ae)
    /\ Conflicts(s, ae) /\ ~CommitConflict(s, ae)
    /\ FollowTerm(s, ae)
    /\ wal' = [wal EXCEPT ![s] = SubSeq(@, 1, ae.pindex - 1)]
    /\ catchup' = [catchup EXCEPT ![s] = NoCatchup]
    /\ link' = Received(i, s)
    /\ UNCHANGED <<commit, initializing, inboxes, progress, msgs, restarts>>

\* s lacks entries before ae: it asks for a catchup, or gives up the one it is
\* in, because what it got was not what it expected.
MissingEntries(i, s) ==
    LET ae == Head(link[<<i, s>>]) IN
    /\ link[<<i, s>>] # <<>>
    /\ Ready(s, ae) /\ ae.pindex > pindex(s)
    /\ FollowTerm(s, ae)
    /\ link' = Received(i, s)
    /\ IF CaughtUp(s)
       THEN /\ CreateCatchup(s, ae)
            /\ msgs' \in AnswerEntry(
                   Response(s, i, pterm(s), pindex(s), FALSE, inboxes'))
       ELSE /\ catchup' = [catchup EXCEPT ![s] = NoCatchup]
            /\ UNCHANGED <<inboxes, msgs>>
    /\ UNCHANGED <<logVars, progress, restarts>>

\* The log of s after it accepted ae: what follows ae's place is truncated, a
\* heartbeat included.
AcceptedLog(s, ae) ==
    SubSeq(wal[s], 1, ae.pindex) \o
        IF ae.entry
        THEN <<[term |-> ae.term, lterm |-> ae.lterm, commit |-> ae.commit]>>
        ELSE <<>>

\* applyCommit for every stored index up to the leader's commit.
CommitUpTo(s, ae, length) ==
    Max({commit[s], Min({ae.commit, length})})

\* ae continues the log, after a truncation if needed.  Only a new append entry
\* is answered with success.
AcceptEntry(i, s) ==
    LET ae == Head(link[<<i, s>>])
        log == AcceptedLog(s, ae)
        length == Len(log)
    IN
    /\ link[<<i, s>>] # <<>>
    /\ Ready(s, ae) /\ ~BelowCommit(s, ae)
    /\ ae.pindex <= pindex(s) /\ ~Conflicts(s, ae)
    /\ FollowTerm(s, ae)
    /\ EndCatchupIfDone(s)
    /\ wal' = [wal EXCEPT ![s] = log]
    /\ commit' = [commit EXCEPT ![s] = CommitUpTo(s, ae, length)]
    /\ initializing' = [initializing EXCEPT ![s] = @ /\ ~ae.entry]
    /\ link' = Received(i, s)
    /\ IF IsNew(ae)
       THEN msgs' \in AnswerEntry(
                Response(s, i, TermAt(log, length), length, TRUE, 0))
       ELSE UNCHANGED msgs
    /\ UNCHANGED <<inboxes, progress, restarts>>

-----------------------------------------------------------------------------
\* s crashes and initRaftNode starts it again: term and vote come from tav.idx,
\* commit and a term a catchup brought from the replay of the log.  A memory
\* log is gone.
Restart(s) ==
    LET log == IF FileWAL THEN wal[s] ELSE <<>>
        terms == {tav[s].term} \cup {log[k].lterm : k \in DOMAIN log}
        commits == {0} \cup {log[k].commit : k \in DOMAIN log}
    IN
    /\ restarts < MaxRestarts
    /\ restarts' = restarts + 1
    /\ Stepdown(s)
    /\ \E t \in terms, c \in commits :
           /\ \A u \in terms : u <= t
           /\ \A u \in commits : u <= c
           /\ term' = [term EXCEPT ![s] = t]
           /\ vote' = [vote EXCEPT ![s] = IF t > tav[s].term THEN NoVote ELSE tav[s].vote]
           /\ commit' = [commit EXCEPT ![s] = c]
    /\ wal' = [wal EXCEPT ![s] = log]
    /\ initializing' = [initializing EXCEPT ![s] = FALSE]
    /\ catchup' = [catchup EXCEPT ![s] = NoCatchup]
    /\ progress' = [p \in Pairs |-> IF p[1] = s THEN NoProgress ELSE progress[p]]
    /\ UNCHANGED <<tav, inboxes, link, msgs>>

ProcessAppendEntry(i, s) ==
    \/ RejectAppendEntry(i, s) \/ IgnoreCatchupEntry(i, s) \/ AwaitCatchup(i, s)
    \/ AlreadyCommitted(i, s) \/ TruncateConflict(i, s) \/ MissingEntries(i, s)
    \/ AcceptEntry(i, s)

ServerStep(s) ==
    \/ SwitchToCandidate(s) \/ CatchupStalled(s)
    \/ Propose(s) \/ SendHeartbeat(s) \/ LostQuorum(s) \/ Restart(s)

MessageStep(m) ==
    \/ RejectVoteRequest(m) \/ ProcessVoteRequest(m)
    \/ CountVote(m) \/ HigherTermVote(m) \/ IgnoreVote(m)
    \/ ProcessSuccess(m) \/ CatchupFollower(m)
    \/ HigherTermResponse(m) \/ IgnoreResponse(m)

Next ==
    \/ \E s \in Server : ServerStep(s)
    \/ \E m \in msgs : MessageStep(m)
    \/ \E s, p \in Server : RunCatchup(s, p) \/ ProcessAppendEntry(s, p)

Spec == Init /\ [][Next]_vars

-----------------------------------------------------------------------------
(* Properties *)

Entry == [term : Nat, lterm : Nat, commit : Nat]

AppendEntryType ==
    [term : Nat, lterm : Nat, commit : Nat, pterm : Nat, pindex : Nat,
     entry : BOOLEAN, inbox : Nat]

Message ==
    [type : {"request"}, from : Server, to : Server, term : Nat,
     lastTerm : Nat, lastIndex : Nat]
    \cup
    [type : {"vote"}, from : Server, to : Server, term : Nat,
     granted : BOOLEAN, empty : BOOLEAN]
    \cup
    [type : {"response"}, from : Server, to : Server, term : Nat, index : Nat,
     success : BOOLEAN, inbox : Nat]

\* Every variable has the type its Go counterpart has.
TypeOK ==
    /\ state \in [Server -> {"Follower", "Candidate", "Leader"}]
    /\ term \in [Server -> Nat]
    /\ vote \in [Server -> Server \cup {NoVote}]
    /\ tav \in [Server -> [term : Nat, vote : Server \cup {NoVote}]]
    /\ wal \in [Server -> Seq(Entry)]
    /\ commit \in [Server -> Nat]
    /\ initializing \in [Server -> BOOLEAN]
    /\ votes \in [Server -> SUBSET Server]
    /\ emptyVotes \in [Server -> SUBSET Server]
    /\ acks \in [Server -> SUBSET (Nat \X Server)]
    /\ catchup \in [Server -> [inbox : Nat, cterm : Nat, cindex : Nat]]
    /\ progress \in [Pairs -> [inbox : Nat, next : Nat, term : Nat, last : Nat]]
    /\ link \in [Pairs -> Seq(AppendEntryType)]
    /\ msgs \in SUBSET Message
    /\ inboxes \in Nat
    /\ restarts \in Nat

\* "Two leaders using the same term" is unreachable (processAppendEntry): a vote
\* survives a crash, so two candidates cannot both win a term.
OneLeaderPerTerm ==
    \A s, p \in Server :
        state[s] = "Leader" /\ state[p] = "Leader" /\ term[s] = term[p] => s = p

\* The vote of p for c in term t shows: on its way to c, or counted by c.
Voted(p, c, t) ==
    \/ \E m \in msgs : /\ m.type = "vote" /\ m.granted
                       /\ m.from = p /\ m.to = c /\ m.term = t
    \/ state[c] # "Follower" /\ term[c] = t /\ p \in votes[c] \cup emptyVotes[c]

VisibleTerms == {term[s] : s \in Server} \cup {m.term : m \in msgs}

\* tav.idx holds the term and the vote of its server; only when a catchup brought
\* a term it may be behind, and then there was no vote in that term yet.
BallotWritten ==
    \A s \in Server :
        \/ tav[s] = [term |-> term[s], vote |-> vote[s]]
        \/ tav[s].term < term[s] /\ vote[s] = NoVote

\* A vote that shows is in the file of the server that gave it, or its file is
\* in a later term.
VoteKept ==
    \A p, c \in Server, t \in VisibleTerms :
        Voted(p, c, t) => tav[p].term > t \/ tav[p] = [term |-> t, vote |-> c]

\* No server's vote shows for two candidates of a term.
VoteOnce ==
    \A p, c, d \in Server, t \in VisibleTerms :
        Voted(p, c, t) /\ Voted(p, d, t) => c = d

NoVoteToSelf == \A m \in msgs : m.type \in {"request", "vote"} => m.from # m.to

\* A candidate has its own vote, and not as an empty one; a leader has those of
\* a majority, empty votes included.
LeaderElected ==
    \A c \in Server : state[c] # "Follower" =>
        /\ c \in votes[c] \ emptyVotes[c]
        /\ state[c] = "Leader" =>
               2 * Cardinality(votes[c] \cup emptyVotes[c]) > Cardinality(Server)

\* Why no term has two leaders: every vote that shows is on disk, over crashes,
\* catchups that bring a term, and votes that count as empty.
ElectionInv == BallotWritten /\ VoteKept /\ VoteOnce /\ NoVoteToSelf /\ LeaderElected

\* Two logs that agree on an entry's term agree on everything before it, however
\* the entry got there: sent by its leader or by the catchup of a later one.
LogMatching ==
    \A s, p \in Server : \A i \in 1..Min({pindex(s), pindex(p)}) :
        wal[s][i].term = wal[p][i].term =>
            \A k \in 1..i : wal[s][k].term = wal[p][k].term

\* applyCommit hands the same entry to the upper layer at an index on every
\* server, over elections, crashes, lost messages and catchups.
CommitsAgree ==
    \A s, p \in Server : \A i \in 1..Min({commit[s], commit[p]}) :
        /\ i <= pindex(s) /\ i <= pindex(p)
        /\ wal[s][i].term = wal[p][i].term

\* A success response that the leader will count, or counted, is from a peer that
\* still stores the entry, as long as the peer is in the leader's term: no
\* heartbeat and no late catchup entry truncates what was acked.
AcksStored ==
    LET Stores(p, i, t) == term[p] = t => i <= pindex(p) /\ wal[p][i].term = t IN
    \A s \in Server : state[s] = "Leader" =>
        /\ \A a \in acks[s] : Stores(a[2], a[1], term[s])
        /\ \A m \in msgs :
               m.type = "response" /\ m.to = s /\ m.success /\ m.term = term[s]
                   => Stores(m.from, m.index, term[s])

\* "Truncate to earlier entry would lose commits" is unreachable: no leader
\* sends a server an append entry that contradicts what it committed.
NoCommitConflict ==
    \A i, s \in Server : link[<<i, s>>] # <<>> =>
        LET ae == Head(link[<<i, s>>]) IN
        Ready(s, ae) /\ ~BelowCommit(s, ae) => ~CommitConflict(s, ae)

=============================================================================
