----------------------------- MODULE RaftProofs -----------------------------
(***************************************************************************)
(* Proofs about Raft, for every number of servers, messages, crashes and   *)
(* catchups: the types, that no term has two leaders, that the logs match, *)
(* and that what was acknowledged is kept.                                 *)
(***************************************************************************)
EXTENDS Raft, FiniteSetTheorems, WellFoundedInduction, TLAPS

-----------------------------------------------------------------------------
(* Types *)

\* The larger and the smaller of two numbers are among them.
LEMMA PairBounds ==
    ASSUME NEW a \in Nat, NEW b \in Nat
    PROVE  Max({a, b}) \in Nat /\ Min({a, b}) \in Nat
  <1>1. \E x \in {a, b} : \A y \in {a, b} : x >= y
    <2>1. CASE a >= b
      BY <2>1
    <2>2. CASE b >= a
      BY <2>2
    <2>3. QED
      BY <2>1, <2>2
  <1>2. \E x \in {a, b} : \A y \in {a, b} : x <= y
    <2>1. CASE a >= b
      BY <2>1
    <2>2. CASE b >= a
      BY <2>2
    <2>3. QED
      BY <2>1, <2>2
  <1>3. Max({a, b}) \in {a, b}
    BY <1>1 DEF Max
  <1>4. Min({a, b}) \in {a, b}
    BY <1>2 DEF Min
  <1>5. QED
    BY <1>3, <1>4

\* loadEntry finds an entry with a term, or there is none at index 0.
LEMMA TermAtType ==
    ASSUME NEW log \in Seq(Entry), NEW i \in 0..Len(log)
    PROVE  TermAt(log, i) \in Nat
  <1>1. CASE i = 0
    BY <1>1 DEF TermAt
  <1>2. CASE i \in 1..Len(log)
    <2>1. log[i] \in Entry
      BY <1>2
    <2>2. QED
      BY <1>2, <2>1 DEF TermAt, Entry
  <1>3. QED
    BY <1>1, <1>2

\* The last index and term of a log are numbers.
LEMMA LastType ==
    ASSUME TypeOK, NEW s \in Server
    PROVE  pindex(s) \in Nat /\ pterm(s) \in Nat
  <1>1. wal[s] \in Seq(Entry) /\ pindex(s) \in Nat /\ pindex(s) \in 0..Len(wal[s])
    BY DEF TypeOK, pindex
  <1>2. QED
    BY <1>1, TermAtType DEF pterm

\* buildAppendEntry makes an append entry.
LEMMA BuildType ==
    ASSUME TypeOK, NEW s \in Server, NEW e \in BOOLEAN
    PROVE  BuildAppendEntry(s, e) \in AppendEntryType
  <1>1. term[s] \in Nat /\ commit[s] \in Nat
    BY DEF TypeOK
  <1>2. QED
    BY <1>1, LastType DEF BuildAppendEntry, AppendEntry, AppendEntryType

\* sendRPC leaves sequences of append entries on the links.
LEMMA BroadcastType ==
    ASSUME TypeOK, NEW s, NEW R, NEW ae \in AppendEntryType
    PROVE  Broadcast(s, R, ae) \in [Pairs -> Seq(AppendEntryType)]
  <1>1. \A p \in Pairs : link[p] \in Seq(AppendEntryType)
    BY DEF TypeOK
  <1>2. QED
    BY <1>1 DEF Broadcast

\* The head of a link is an append entry, and so is the rest.
LEMMA ReceivedType ==
    ASSUME TypeOK, NEW i \in Server, NEW s \in Server, link[<<i, s>>] # <<>>
    PROVE  /\ Head(link[<<i, s>>]) \in AppendEntryType
           /\ Received(i, s) \in [Pairs -> Seq(AppendEntryType)]
  <1>1. <<i, s>> \in Pairs /\ link \in [Pairs -> Seq(AppendEntryType)]
    BY DEF TypeOK, Pairs
  <1>2. link[<<i, s>>] \in Seq(AppendEntryType)
    BY <1>1
  <1>3. Head(link[<<i, s>>]) \in AppendEntryType
    BY <1>2
  <1>4. Tail(link[<<i, s>>]) \in Seq(AppendEntryType)
    BY <1>2
  <1>5. QED
    BY <1>1, <1>3, <1>4 DEF Received

\* stepdownLocked keeps the types of what it resets.
LEMMA StepdownType ==
    ASSUME TypeOK, NEW s \in Server, Stepdown(s)
    PROVE  /\ state' \in [Server -> {"Follower", "Candidate", "Leader"}]
           /\ acks' \in [Server -> SUBSET (Nat \X Server)]
           /\ votes' \in [Server -> SUBSET Server]
           /\ emptyVotes' \in [Server -> SUBSET Server]
  BY DEF TypeOK, Stepdown

\* writeTermVote writes a term and a vote.
LEMMA WriteType ==
    ASSUME TypeOK, NEW s \in Server, WriteTermVote(s),
           term' \in [Server -> Nat], vote' \in [Server -> Server \cup {NoVote}]
    PROVE  tav' \in [Server -> [term : Nat, vote : Server \cup {NoVote}]]
  BY DEF TypeOK, WriteTermVote

\* So does a higher term that is adopted.
LEMMA AdoptType ==
    ASSUME TypeOK, NEW s \in Server, NEW t \in Nat, AdoptTerm(s, t)
    PROVE  /\ term' \in [Server -> Nat]
           /\ vote' \in [Server -> Server \cup {NoVote}]
           /\ tav' \in [Server -> [term : Nat, vote : Server \cup {NoVote}]]
  <1>1. /\ term' \in [Server -> Nat]
        /\ vote' \in [Server -> Server \cup {NoVote}]
    BY DEF TypeOK, AdoptTerm
  <1>2. QED
    BY <1>1, WriteType DEF AdoptTerm

\* An append entry that s follows leaves its term, vote and state typed.
LEMMA FollowType ==
    ASSUME TypeOK, NEW s \in Server, NEW ae \in AppendEntryType, FollowTerm(s, ae)
    PROVE  /\ state' \in [Server -> {"Follower", "Candidate", "Leader"}]
           /\ acks' \in [Server -> SUBSET (Nat \X Server)]
           /\ votes' \in [Server -> SUBSET Server]
           /\ emptyVotes' \in [Server -> SUBSET Server]
           /\ term' \in [Server -> Nat]
           /\ vote' \in [Server -> Server \cup {NoVote}]
           /\ tav' \in [Server -> [term : Nat, vote : Server \cup {NoVote}]]
  <1>1. Stepdown(s)
    BY DEF FollowTerm
  <1>2. ae.lterm \in Nat
    BY DEF AppendEntryType
  <1>3. /\ term' \in [Server -> Nat]
        /\ vote' \in [Server -> Server \cup {NoVote}]
    BY <1>2 DEF TypeOK, FollowTerm
  <1>4. WriteTermVote(s) \/ UNCHANGED tav
    BY DEF FollowTerm
  <1>5. tav' \in [Server -> [term : Nat, vote : Server \cup {NoVote}]]
    BY <1>3, <1>4, WriteType DEF TypeOK
  <1>6. QED
    BY <1>1, <1>3, <1>5, StepdownType

\* createCatchup notes two numbers and a new inbox.
LEMMA CreateType ==
    ASSUME TypeOK, NEW s \in Server, NEW ae \in AppendEntryType, CreateCatchup(s, ae)
    PROVE  /\ catchup' \in [Server -> [inbox : Nat, cterm : Nat, cindex : Nat]]
           /\ inboxes' \in Nat
  BY DEF TypeOK, CreateCatchup, AppendEntryType

\* A catchup that is given up leaves no catchup.
LEMMA NoCatchupType ==
    NoCatchup \in [inbox : Nat, cterm : Nat, cindex : Nat]
  BY DEF NoCatchup

\* What storing and sending an entry changes.
LEMMA SendType ==
    ASSUME TypeOK, NEW s \in Server, NEW rest, SendEntry(s, rest)
    PROVE  /\ wal' \in [Server -> Seq(Entry)]
           /\ link' \in [Pairs -> Seq(AppendEntryType)]
  <1>1. [term |-> term[s], lterm |-> term[s], commit |-> commit[s]] \in Entry
    BY DEF TypeOK, Entry
  <1>2. wal' \in [Server -> Seq(Entry)]
    BY <1>1 DEF SendEntry, TypeOK
  <1>3. BuildAppendEntry(s, TRUE) \in AppendEntryType
    BY BuildType
  <1>4. link' \in [Pairs -> Seq(AppendEntryType)]
    BY <1>3, BroadcastType DEF SendEntry
  <1>5. QED
    BY <1>2, <1>4

\* The answers are messages.
LEMMA MessageTypes ==
    ASSUME NEW s \in Server, NEW p \in Server, NEW t \in Nat, NEW i \in Nat,
           NEW n \in Nat, NEW a \in BOOLEAN, NEW b \in BOOLEAN
    PROVE  /\ VoteResponse(s, p, t, a, b) \in Message
           /\ Response(s, p, t, i, a, n) \in Message
  BY DEF VoteResponse, Response, Message

\* The fields of a message have their types.
LEMMA FieldTypes ==
    ASSUME NEW m \in Message
    PROVE  /\ m.from \in Server /\ m.to \in Server /\ m.term \in Nat
           /\ m.type = "request" => m.lastTerm \in Nat /\ m.lastIndex \in Nat
           /\ m.type = "vote" => m.granted \in BOOLEAN /\ m.empty \in BOOLEAN
           /\ m.type = "response" =>
                  m.index \in Nat /\ m.success \in BOOLEAN /\ m.inbox \in Nat
  BY DEF Message

\* The steps of a server keep the types.
LEMMA ServerStepType ==
    ASSUME TypeOK, NEW s \in Server, ServerStep(s)
    PROVE  TypeOK'
  <1>1. CASE SwitchToCandidate(s)
    <2>1. PICK R \in Receivers(s, msgs) :
              msgs' = msgs \cup {VoteRequest(s, p, term[s] + 1) : p \in R}
      BY <1>1 DEF SwitchToCandidate
    <2>2. \A p \in R : VoteRequest(s, p, term[s] + 1) \in Message
      <3>1. R \subseteq Server
        BY <2>1 DEF Receivers, Peers
      <3>2. term[s] + 1 \in Nat
        BY DEF TypeOK
      <3>3. pterm(s) \in Nat /\ pindex(s) \in Nat
        BY LastType
      <3>4. QED
        BY <3>1, <3>2, <3>3 DEF VoteRequest, Message
    <2>3. msgs' \in SUBSET Message
      BY <2>1, <2>2 DEF TypeOK
    <2>4. term' \in [Server -> Nat] /\ vote' \in [Server -> Server \cup {NoVote}]
      BY <1>1 DEF SwitchToCandidate, TypeOK
    <2>5. tav' \in [Server -> [term : Nat, vote : Server \cup {NoVote}]]
      BY <1>1, <2>4, WriteType DEF SwitchToCandidate
    <2>6. /\ state' \in [Server -> {"Follower", "Candidate", "Leader"}]
          /\ votes' \in [Server -> SUBSET Server]
          /\ emptyVotes' \in [Server -> SUBSET Server]
      BY <1>1 DEF SwitchToCandidate, TypeOK
    <2>7. QED
      BY <1>1, <2>3, <2>4, <2>5, <2>6 DEF SwitchToCandidate, TypeOK, logVars, catchupVars
  <1>2. CASE CatchupStalled(s)
    BY <1>2, NoCatchupType DEF CatchupStalled, TypeOK, ballotVars, logVars, electVars
  <1>3. CASE Propose(s)
    BY <1>3, SendType DEF Propose, TypeOK, ballotVars, electVars, catchupVars
  <1>4. CASE SendHeartbeat(s)
    <2>1. link' \in [Pairs -> Seq(AppendEntryType)]
      BY <1>4, BuildType, BroadcastType DEF SendHeartbeat
    <2>2. QED
      BY <1>4, <2>1 DEF SendHeartbeat, TypeOK, ballotVars, logVars, electVars, catchupVars
  <1>5. CASE LostQuorum(s)
    BY <1>5, StepdownType DEF LostQuorum, TypeOK, ballotVars, logVars, catchupVars
  <1>6. CASE Restart(s)
    <2> DEFINE log == IF FileWAL THEN wal[s] ELSE <<>>
    <2>1. log \in Seq(Entry)
      BY DEF TypeOK
    <2>2. \A k \in DOMAIN log : log[k] \in Entry
      BY <2>1
    <2>3. \A k \in DOMAIN log : log[k].lterm \in Nat /\ log[k].commit \in Nat
      BY <2>2 DEF Entry
    <2>4. tav[s].term \in Nat /\ tav[s].vote \in Server \cup {NoVote}
      BY DEF TypeOK
    <2> HIDE DEF log
    <2>5. PICK t \in {tav[s].term} \cup {log[k].lterm : k \in DOMAIN log},
               c \in {0} \cup {log[k].commit : k \in DOMAIN log} :
              /\ term' = [term EXCEPT ![s] = t]
              /\ vote' = [vote EXCEPT ![s] =
                     IF t > tav[s].term THEN NoVote ELSE tav[s].vote]
              /\ commit' = [commit EXCEPT ![s] = c]
      BY <1>6 DEF Restart, log
    <2>6. t \in Nat /\ c \in Nat
      BY <2>3, <2>4, <2>5
    <2>7. /\ term' \in [Server -> Nat]
          /\ vote' \in [Server -> Server \cup {NoVote}]
          /\ commit' \in [Server -> Nat]
      BY <2>4, <2>5, <2>6 DEF TypeOK
    <2>8. wal' \in [Server -> Seq(Entry)]
      BY <1>6, <2>1 DEF Restart, TypeOK, log
    <2>9. progress' \in [Pairs -> [inbox : Nat, next : Nat, term : Nat, last : Nat]]
      BY <1>6 DEF Restart, TypeOK, NoProgress
    <2>10. /\ Stepdown(s)
           /\ catchup' \in [Server -> [inbox : Nat, cterm : Nat, cindex : Nat]]
           /\ initializing' \in [Server -> BOOLEAN]
           /\ restarts' \in Nat
      BY <1>6, NoCatchupType DEF Restart, TypeOK
    <2>11. QED
      BY <1>6, <2>7, <2>8, <2>9, <2>10, StepdownType DEF Restart, TypeOK
  <1>7. QED
    BY <1>1, <1>2, <1>3, <1>4, <1>5, <1>6 DEF ServerStep

\* The handling of a request, a vote or a response keeps the types.
LEMMA MessageStepType ==
    ASSUME TypeOK, NEW m \in msgs, MessageStep(m)
    PROVE  TypeOK'
  <1> DEFINE s == m.to
  <1>0. /\ m \in Message /\ s \in Server /\ m.from \in Server /\ m.term \in Nat
        /\ msgs \ {m} \in SUBSET Message
    BY FieldTypes DEF TypeOK
  <1>1. CASE RejectVoteRequest(m)
    <2>1. VoteResponse(s, m.from, term[s], FALSE, pindex(s) = 0) \in Message
      BY <1>0, MessageTypes DEF TypeOK
    <2>2. msgs' \in SUBSET Message
      BY <1>0, <1>1, <2>1 DEF RejectVoteRequest, Answer
    <2>3. QED
      BY <1>1, <2>2 DEF RejectVoteRequest, TypeOK, ballotVars, logVars, electVars, catchupVars
  <1>2. CASE ProcessVoteRequest(m)
    <2>1. PICK granted \in BOOLEAN, empty \in BOOLEAN :
              msgs' \in Answer(m, VoteResponse(s, m.from, m.term, granted, empty))
      BY <1>2 DEF ProcessVoteRequest
    <2>2. VoteResponse(s, m.from, m.term, granted, empty) \in Message
      BY <1>0, MessageTypes
    <2>3. msgs' \in SUBSET Message
      BY <1>0, <2>1, <2>2 DEF Answer
    <2>4. term' \in [Server -> Nat] /\ vote' \in [Server -> Server \cup {NoVote}]
      BY <1>0, <1>2 DEF ProcessVoteRequest, TypeOK
    <2>5. tav' \in [Server -> [term : Nat, vote : Server \cup {NoVote}]]
      BY <1>0, <1>2, <2>4, WriteType DEF ProcessVoteRequest, TypeOK
    <2>6. /\ state' \in [Server -> {"Follower", "Candidate", "Leader"}]
          /\ acks' \in [Server -> SUBSET (Nat \X Server)]
          /\ votes' \in [Server -> SUBSET Server]
          /\ emptyVotes' \in [Server -> SUBSET Server]
          /\ catchup' \in [Server -> [inbox : Nat, cterm : Nat, cindex : Nat]]
      <3>1. CASE m.term > term[s]
        <4>1. Stepdown(s) /\ catchup' = [catchup EXCEPT ![s] = NoCatchup]
          BY <1>2, <3>1 DEF ProcessVoteRequest
        <4>2. QED
          BY <1>0, <4>1, StepdownType, NoCatchupType DEF TypeOK
      <3>2. CASE ~(m.term > term[s])
        <4>1. UNCHANGED <<state, acks, votes, emptyVotes, catchup>>
          BY <1>2, <3>2 DEF ProcessVoteRequest, electVars
        <4>2. QED
          BY <4>1 DEF TypeOK
      <3>3. QED
        BY <3>1, <3>2
    <2>7. QED
      BY <1>2, <2>3, <2>4, <2>5, <2>6 DEF ProcessVoteRequest, TypeOK, logVars
  <1>3. CASE CountVote(m)
    <2>1. /\ votes' \in [Server -> SUBSET Server]
          /\ emptyVotes' \in [Server -> SUBSET Server]
      BY <1>0, <1>3 DEF CountVote, VotesWith, EmptyVotesWith, TypeOK
    <2>2. /\ state' \in [Server -> {"Follower", "Candidate", "Leader"}]
          /\ wal' \in [Server -> Seq(Entry)]
          /\ link' \in [Pairs -> Seq(AppendEntryType)]
      BY <1>0, <1>3, SendType DEF CountVote, TypeOK
    <2>3. QED
      BY <1>0, <1>3, <2>1, <2>2 DEF CountVote, TypeOK, ballotVars, catchupVars
  <1>4. CASE HigherTermVote(m)
    <2>1. /\ term' \in [Server -> Nat]
          /\ vote' \in [Server -> Server \cup {NoVote}]
          /\ tav' \in [Server -> [term : Nat, vote : Server \cup {NoVote}]]
      BY <1>0, <1>4, AdoptType DEF HigherTermVote, TypeOK, ballotVars
    <2>2. QED
      BY <1>0, <1>4, <2>1, StepdownType DEF HigherTermVote, TypeOK, logVars, catchupVars
  <1>5. CASE IgnoreVote(m)
    BY <1>0, <1>5 DEF IgnoreVote, TypeOK, ballotVars, logVars, electVars, catchupVars
  <1>6. CASE ProcessSuccess(m)
    <2>1. m.index \in Nat
      BY <1>0, <1>6, FieldTypes DEF ProcessSuccess
    <2>2. [BuildAppendEntry(s, FALSE) EXCEPT !.commit = m.index] \in AppendEntryType
      BY <1>0, <2>1, BuildType DEF AppendEntryType
    <2>3. link' \in [Pairs -> Seq(AppendEntryType)]
      <3>1. \/ \E R : link' = Broadcast(s, R,
                       [BuildAppendEntry(s, FALSE) EXCEPT !.commit = m.index])
            \/ link' = link
        BY <1>6 DEF ProcessSuccess
      <3>2. link \in [Pairs -> Seq(AppendEntryType)]
        BY DEF TypeOK
      <3>3. QED
        BY <2>2, <3>1, <3>2, BroadcastType
    <2>4. commit' \in [Server -> Nat] /\ acks' \in [Server -> SUBSET (Nat \X Server)]
      <3>1. \/ /\ commit' = [commit EXCEPT ![s] = m.index]
               /\ acks' = [acks EXCEPT ![s] = {a \in @ : a[1] > m.index}]
            \/ /\ commit' = commit
               /\ acks' = [acks EXCEPT ![s] = @ \cup {<<m.index, m.from>>}]
        BY <1>6 DEF ProcessSuccess
      <3>2. <<m.index, m.from>> \in Nat \X Server
        BY <1>0, <2>1
      <3>3. commit \in [Server -> Nat] /\ acks \in [Server -> SUBSET (Nat \X Server)]
        BY DEF TypeOK
      <3>4. commit' \in [Server -> Nat]
        BY <1>0, <2>1, <3>1, <3>3
      <3>5. /\ {a \in acks[s] : a[1] > m.index} \in SUBSET (Nat \X Server)
            /\ acks[s] \cup {<<m.index, m.from>>} \in SUBSET (Nat \X Server)
        BY <1>0, <3>2, <3>3
      <3>6. acks' \in [Server -> SUBSET (Nat \X Server)]
        BY <1>0, <3>1, <3>3, <3>5
      <3>7. QED
        BY <3>4, <3>6
    <2>5. QED
      BY <1>0, <1>6, <2>3, <2>4 DEF ProcessSuccess, TypeOK, ballotVars, electVars, catchupVars
  <1>7. CASE CatchupFollower(m)
    <2>1. m.index \in Nat /\ m.inbox \in Nat
      BY <1>0, <1>7, FieldTypes DEF CatchupFollower
    <2>2. progress' \in [Pairs -> [inbox : Nat, next : Nat, term : Nat, last : Nat]]
      <3>1. \/ progress' = [progress EXCEPT ![<<s, m.from>>] =
                   [inbox |-> m.inbox, next |-> m.index, term |-> 0, last |-> 0]]
            \/ progress' = [progress EXCEPT ![<<s, m.from>>] = NoProgress]
        BY <1>7 DEF CatchupFollower
      <3>2. /\ [inbox |-> m.inbox, next |-> m.index, term |-> 0, last |-> 0]
                   \in [inbox : Nat, next : Nat, term : Nat, last : Nat]
            /\ NoProgress \in [inbox : Nat, next : Nat, term : Nat, last : Nat]
        BY <2>1 DEF NoProgress
      <3>3. progress \in [Pairs -> [inbox : Nat, next : Nat, term : Nat, last : Nat]]
        BY DEF TypeOK
      <3>4. QED
        BY <3>1, <3>2, <3>3
    <2>3. /\ state' \in [Server -> {"Follower", "Candidate", "Leader"}]
          /\ acks' \in [Server -> SUBSET (Nat \X Server)]
          /\ votes' \in [Server -> SUBSET Server]
          /\ emptyVotes' \in [Server -> SUBSET Server]
      BY <1>0, <1>7, StepdownType DEF CatchupFollower, TypeOK, electVars
    <2>4. QED
      BY <1>0, <1>7, <2>2, <2>3 DEF CatchupFollower, TypeOK, ballotVars, logVars, catchupVars
  <1>8. CASE HigherTermResponse(m)
    BY <1>0, <1>8, AdoptType, StepdownType
       DEF HigherTermResponse, TypeOK, logVars, catchupVars
  <1>9. CASE IgnoreResponse(m)
    BY <1>0, <1>9 DEF IgnoreResponse, TypeOK, ballotVars, logVars, electVars, catchupVars
  <1>10. QED
    BY <1>1, <1>2, <1>3, <1>4, <1>5, <1>6, <1>7, <1>8, <1>9 DEF MessageStep

\* An entry that runCatchup sends keeps the types.
LEMMA RunCatchupType ==
    ASSUME TypeOK, NEW s \in Server, NEW p \in Server, RunCatchup(s, p)
    PROVE  TypeOK'
  <1> DEFINE job == progress[<<s, p>>]
             t == IF job.term # 0 THEN job.term ELSE term[s]
             last == IF job.term # 0 THEN job.last ELSE pindex(s)
             next == job.next + 1
             e == wal[s][next]
             ae == AppendEntry(e.term, t, e.commit, TermAt(wal[s], next - 1),
                               next - 1, TRUE, job.inbox)
  <1>1. /\ <<s, p>> \in Pairs
        /\ job \in [inbox : Nat, next : Nat, term : Nat, last : Nat]
        /\ wal[s] \in Seq(Entry) /\ term[s] \in Nat /\ pindex(s) \in Nat
    BY LastType DEF TypeOK, Pairs
  <1>2. t \in Nat /\ last \in Nat /\ next \in Nat /\ next > 0
    BY <1>1
  <1> HIDE DEF t, last, job
  <1>3. ASSUME next <= pindex(s)
        PROVE  ae \in AppendEntryType
    <2>1. next \in 1..Len(wal[s]) /\ next - 1 \in 0..Len(wal[s])
      BY <1>1, <1>2, <1>3 DEF pindex
    <2>2. e \in Entry
      BY <1>1, <2>1
    <2>3. TermAt(wal[s], next - 1) \in Nat
      BY <1>1, <2>1, TermAtType
    <2>4. e.term \in Nat /\ e.commit \in Nat
      BY <2>2 DEF Entry
    <2>5. next - 1 \in Nat /\ job.inbox \in Nat
      BY <1>1, <1>2, <2>1
    <2> HIDE DEF e, next
    <2>6. QED
      BY <1>2, <2>3, <2>4, <2>5 DEF AppendEntry, AppendEntryType
  <1>4. \/ UNCHANGED link
        \/ next <= pindex(s) /\ link' = Broadcast(s, {p}, ae)
    BY DEF RunCatchup, job, t
  <1>5. link' \in [Pairs -> Seq(AppendEntryType)]
    <2>1. link \in [Pairs -> Seq(AppendEntryType)]
      BY DEF TypeOK
    <2> HIDE DEF ae, next
    <2>2. QED
      BY <1>3, <1>4, <2>1, BroadcastType
  <1>6. \/ progress' = [progress EXCEPT ![<<s, p>>] =
                [job EXCEPT !.next = next, !.term = t, !.last = last]]
        \/ progress' = [progress EXCEPT ![<<s, p>>] = NoProgress]
    BY DEF RunCatchup, job, t, last
  <1>7. progress' \in [Pairs -> [inbox : Nat, next : Nat, term : Nat, last : Nat]]
    <2>1. /\ [job EXCEPT !.next = next, !.term = t, !.last = last]
                 \in [inbox : Nat, next : Nat, term : Nat, last : Nat]
          /\ NoProgress \in [inbox : Nat, next : Nat, term : Nat, last : Nat]
      BY <1>1, <1>2 DEF NoProgress
    <2>2. progress \in [Pairs -> [inbox : Nat, next : Nat, term : Nat, last : Nat]]
      BY DEF TypeOK
    <2>3. QED
      BY <1>6, <2>1, <2>2
  <1>8. QED
    BY <1>5, <1>7 DEF RunCatchup, TypeOK, ballotVars, logVars, electVars, catchupVars

\* Every branch of processAppendEntry keeps the types.
LEMMA ProcessAppendEntryType ==
    ASSUME TypeOK, NEW i \in Server, NEW s \in Server, ProcessAppendEntry(i, s)
    PROVE  TypeOK'
  <1> DEFINE ae == Head(link[<<i, s>>])
  <1>1. link[<<i, s>>] # <<>> /\ link' = Received(i, s)
    BY DEF ProcessAppendEntry, RejectAppendEntry, IgnoreCatchupEntry, AwaitCatchup,
           AlreadyCommitted, TruncateConflict, MissingEntries, AcceptEntry
  <1>2. ae \in AppendEntryType /\ link' \in [Pairs -> Seq(AppendEntryType)]
    BY <1>1, ReceivedType
  <1>3. /\ pindex(s) \in Nat /\ pterm(s) \in Nat
        /\ term[s] \in Nat /\ commit[s] \in Nat /\ wal[s] \in Seq(Entry)
    BY LastType DEF TypeOK
  <1>4. /\ ae.term \in Nat /\ ae.lterm \in Nat /\ ae.commit \in Nat
        /\ ae.pindex \in Nat /\ ae.pterm \in Nat /\ ae.entry \in BOOLEAN
    BY <1>2 DEF AppendEntryType
  <1> HIDE DEF ae
  <1>5. CASE RejectAppendEntry(i, s)
    <2>1. Response(s, i, term[s], pindex(s), FALSE, 0) \in Message
      BY <1>3, MessageTypes
    <2>2. msgs' \in SUBSET Message
      BY <1>5, <2>1 DEF RejectAppendEntry, AnswerEntry, TypeOK
    <2>3. QED
      BY <1>2, <1>5, <2>2
         DEF RejectAppendEntry, TypeOK, ballotVars, logVars, electVars, catchupVars
  <1>6. CASE IgnoreCatchupEntry(i, s)
    <2>1. \/ UNCHANGED <<state, ballotVars, acks, electVars>>
          \/ FollowTerm(s, ae)
      BY <1>6 DEF IgnoreCatchupEntry, ae
    <2>2. QED
      BY <1>2, <1>6, <2>1, FollowType
         DEF IgnoreCatchupEntry, TypeOK, ballotVars, logVars, electVars, catchupVars
  <1>7. CASE AwaitCatchup(i, s)
    <2>1. FollowTerm(s, ae)
      BY <1>7 DEF AwaitCatchup, ae
    <2>2. \/ UNCHANGED <<catchup, inboxes, msgs>>
          \/ /\ CreateCatchup(s, ae)
             /\ msgs' \in AnswerEntry(
                    Response(s, i, pterm(s), pindex(s), FALSE, inboxes'))
      BY <1>7 DEF AwaitCatchup, catchupVars, ae
    <2>3. /\ catchup' \in [Server -> [inbox : Nat, cterm : Nat, cindex : Nat]]
          /\ inboxes' \in Nat
      BY <1>2, <2>2, CreateType DEF TypeOK
    <2>4. Response(s, i, pterm(s), pindex(s), FALSE, inboxes') \in Message
      BY <1>3, <2>3, MessageTypes
    <2>5. msgs' \in SUBSET Message
      BY <2>2, <2>4 DEF AnswerEntry, TypeOK
    <2>6. QED
      BY <1>2, <1>7, <2>1, <2>3, <2>5, FollowType DEF AwaitCatchup, TypeOK, logVars
  <1>8. CASE AlreadyCommitted(i, s)
    <2>1. FollowTerm(s, ae) /\ EndCatchupIfDone(s)
      BY <1>8 DEF AlreadyCommitted, ae
    <2>2. catchup' \in [Server -> [inbox : Nat, cterm : Nat, cindex : Nat]]
      BY <2>1, NoCatchupType DEF EndCatchupIfDone, TypeOK
    <2>3. QED
      BY <1>2, <1>8, <2>1, <2>2, FollowType DEF AlreadyCommitted, TypeOK, logVars
  <1>9. CASE TruncateConflict(i, s)
    <2>1. /\ FollowTerm(s, ae)
          /\ wal' = [wal EXCEPT ![s] = SubSeq(wal[s], 1, ae.pindex - 1)]
          /\ ae.pindex <= Len(wal[s])
      BY <1>9 DEF TruncateConflict, Conflicts, pindex, ae
    <2>2. SubSeq(wal[s], 1, ae.pindex - 1) \in Seq(Entry)
      BY <1>3, <1>4, <2>1
    <2>3. wal' \in [Server -> Seq(Entry)]
      BY <2>1, <2>2 DEF TypeOK
    <2>4. catchup' \in [Server -> [inbox : Nat, cterm : Nat, cindex : Nat]]
      BY <1>9, NoCatchupType DEF TruncateConflict, TypeOK
    <2>5. QED
      BY <1>2, <1>9, <2>1, <2>3, <2>4, FollowType DEF TruncateConflict, TypeOK
  <1>10. CASE MissingEntries(i, s)
    <2>1. FollowTerm(s, ae)
      BY <1>10 DEF MissingEntries, ae
    <2>2. \/ /\ catchup' = [catchup EXCEPT ![s] = NoCatchup]
             /\ UNCHANGED <<inboxes, msgs>>
          \/ /\ CreateCatchup(s, ae)
             /\ msgs' \in AnswerEntry(
                    Response(s, i, pterm(s), pindex(s), FALSE, inboxes'))
      BY <1>10 DEF MissingEntries, ae
    <2>3. /\ catchup' \in [Server -> [inbox : Nat, cterm : Nat, cindex : Nat]]
          /\ inboxes' \in Nat
      <3>1. CASE CreateCatchup(s, ae)
        BY <1>2, <3>1, CreateType
      <3>2. CASE /\ catchup' = [catchup EXCEPT ![s] = NoCatchup]
                 /\ UNCHANGED <<inboxes, msgs>>
        BY <3>2, NoCatchupType DEF TypeOK
      <3>3. QED
        BY <2>2, <3>1, <3>2
    <2>4. Response(s, i, pterm(s), pindex(s), FALSE, inboxes') \in Message
      BY <1>3, <2>3, MessageTypes
    <2>5. msgs' \in SUBSET Message
      BY <2>2, <2>4 DEF AnswerEntry, TypeOK
    <2>6. QED
      BY <1>2, <1>10, <2>1, <2>3, <2>5, FollowType DEF MissingEntries, TypeOK, logVars
  <1>11. CASE AcceptEntry(i, s)
    <2> DEFINE log == AcceptedLog(s, ae)
    <2>1. /\ FollowTerm(s, ae) /\ EndCatchupIfDone(s)
          /\ ae.pindex <= Len(wal[s])
          /\ wal' = [wal EXCEPT ![s] = log]
          /\ commit' = [commit EXCEPT ![s] = CommitUpTo(s, ae, Len(log))]
          /\ initializing' = [initializing EXCEPT ![s] = @ /\ ~ae.entry]
          /\ \/ msgs' \in AnswerEntry(
                    Response(s, i, TermAt(log, Len(log)), Len(log), TRUE, 0))
             \/ UNCHANGED msgs
      BY <1>11 DEF AcceptEntry, pindex, ae
    <2>2. log \in Seq(Entry)
      <3>1. SubSeq(wal[s], 1, ae.pindex) \in Seq(Entry)
        BY <1>3, <1>4, <2>1
      <3>2. [term |-> ae.term, lterm |-> ae.lterm, commit |-> ae.commit] \in Entry
        BY <1>4 DEF Entry
      <3>3. QED
        BY <3>1, <3>2 DEF AcceptedLog
    <2> HIDE DEF log
    <2>3. wal' \in [Server -> Seq(Entry)]
      BY <2>1, <2>2 DEF TypeOK
    <2>4. Len(log) \in Nat /\ TermAt(log, Len(log)) \in Nat
      BY <2>2, TermAtType
    <2>5. commit' \in [Server -> Nat]
      <3>1. CommitUpTo(s, ae, Len(log)) \in Nat
        BY <1>3, <1>4, <2>4, PairBounds DEF CommitUpTo
      <3>2. QED
        BY <2>1, <3>1 DEF TypeOK
    <2>6. Response(s, i, TermAt(log, Len(log)), Len(log), TRUE, 0) \in Message
      BY <2>4, MessageTypes
    <2>7. msgs' \in SUBSET Message
      BY <2>1, <2>6 DEF AnswerEntry, TypeOK
    <2>8. /\ catchup' \in [Server -> [inbox : Nat, cterm : Nat, cindex : Nat]]
          /\ initializing' \in [Server -> BOOLEAN]
      BY <1>4, <2>1, NoCatchupType DEF EndCatchupIfDone, TypeOK
    <2>9. QED
      BY <1>2, <1>11, <2>1, <2>3, <2>5, <2>7, <2>8, FollowType DEF AcceptEntry, TypeOK
  <1>12. QED
    BY <1>5, <1>6, <1>7, <1>8, <1>9, <1>10, <1>11 DEF ProcessAppendEntry

\* No step leaves the types.
LEMMA TypeStep ==
    TypeOK /\ [Next]_vars => TypeOK'
  <1>1. SUFFICES ASSUME TypeOK, [Next]_vars PROVE TypeOK'
    OBVIOUS
  <1>2. CASE UNCHANGED vars
    BY <1>1, <1>2
       DEF TypeOK, vars, ballotVars, logVars, electVars, catchupVars
  <1>3. CASE Next
    BY <1>1, <1>3, ServerStepType, MessageStepType, RunCatchupType,
       ProcessAppendEntryType DEF Next
  <1>4. QED
    BY <1>1, <1>2, <1>3

\* The first state has the types.
LEMMA TypeInit ==
    Init => TypeOK
  BY DEF Init, TypeOK, NoCatchup, NoProgress, Entry, AppendEntryType, Message

\* Every variable of a replication group keeps its type; in particular no index
\* or term a handler computes is negative.
THEOREM TypeCorrect ==
    Spec => []TypeOK
  <1>1. QED
    BY TypeInit, TypeStep, PTL DEF Spec

-----------------------------------------------------------------------------
(* One leader per term *)

\* The files of the servers move on: a later term, or a vote where there was none.
TavGrows ==
    \A p \in Server :
        \/ tav'[p] = tav[p]
        \/ tav'[p].term > tav[p].term
        \/ tav'[p].term = tav[p].term /\ tav[p].vote = NoVote

\* Nothing is sent that could be a vote.
NoVoteSent ==
    \A m \in msgs' \ msgs :
        \/ m.type = "response"
        \/ m.type = "vote" /\ ~m.granted /\ m.from # m.to

\* No candidate or leader counts more votes: all stay what they are, or one
\* becomes a follower.
NoVoteCounted ==
    \/ UNCHANGED <<state, term, votes, emptyVotes>>
    \/ \E s \in Server :
           /\ state'[s] = "Follower"
           /\ \A c \in Server \ {s} :
                  /\ state'[c] = state[c] /\ term'[c] = term[c]
                  /\ votes'[c] = votes[c] /\ emptyVotes'[c] = emptyVotes[c]

\* A vote that starts to show is the one its file now holds.
VotesWritten ==
    \A p, c \in Server : \A t :
        Voted(p, c, t)' => Voted(p, c, t) \/ tav'[p] = [term |-> t, vote |-> c]

\* What every step does to the ballots.
BallotStep == ElectionInv' /\ TavGrows /\ VotesWritten

\* A vote that shows is one for a term that shows.
LEMMA VotedVisible ==
    ASSUME TypeOK, NEW p \in Server, NEW c \in Server, NEW t, Voted(p, c, t)
    PROVE  t \in VisibleTerms /\ t \in Nat
  <1>1. \A m \in msgs : m.term \in Nat
    BY FieldTypes DEF TypeOK
  <1>2. term[c] \in Nat
    BY DEF TypeOK
  <1>3. QED
    BY <1>1, <1>2 DEF Voted, VisibleTerms

\* Votes that showed before are kept, and once only, when the files move on.
LEMMA VotesStay ==
    ASSUME TypeOK, TypeOK', ElectionInv, TavGrows,
           \A p, c \in Server : \A t : Voted(p, c, t)' => Voted(p, c, t)
    PROVE  VoteKept' /\ VoteOnce'
  <1>1. VoteKept'
    <2>1. SUFFICES ASSUME NEW p \in Server, NEW c \in Server, NEW t,
                          Voted(p, c, t)'
                   PROVE  tav'[p].term > t \/ tav'[p] = [term |-> t, vote |-> c]
      BY DEF VoteKept
    <2>2. t \in VisibleTerms /\ t \in Nat /\ Voted(p, c, t)
      BY <2>1, VotedVisible
    <2>3. tav[p].term > t \/ tav[p] = [term |-> t, vote |-> c]
      BY <2>2 DEF ElectionInv, VoteKept
    <2>4. tav[p].term \in Nat /\ tav'[p].term \in Nat
      BY DEF TypeOK
    <2>5. c # NoVote
      BY NoVoteAssumption
    <2>6. QED
      BY <2>2, <2>3, <2>4, <2>5 DEF TavGrows
  <1>2. VoteOnce'
    <2>1. SUFFICES ASSUME NEW p \in Server, NEW c \in Server, NEW d \in Server,
                          NEW t, Voted(p, c, t)', Voted(p, d, t)'
                   PROVE  c = d
      BY DEF VoteOnce
    <2>2. t \in VisibleTerms /\ Voted(p, c, t) /\ Voted(p, d, t)
      BY <2>1, VotedVisible
    <2>3. QED
      BY <2>2 DEF ElectionInv, VoteOnce
  <1>3. QED
    BY <1>1, <1>2

\* So are they when one vote is new, that of q for d in term u: it is in the
\* file of q, and q has not voted for another in that term.
LEMMA OneNewVote ==
    ASSUME TypeOK, TypeOK', ElectionInv, TavGrows,
           NEW q \in Server, NEW d \in Server, NEW u \in Nat,
           \A p, c \in Server : \A t :
               Voted(p, c, t)' => Voted(p, c, t) \/ (p = q /\ c = d /\ t = u),
           \A c \in Server : Voted(q, c, u) => c = d,
           tav'[q] = [term |-> u, vote |-> d]
    PROVE  VoteKept' /\ VoteOnce'
  <1>1. VoteKept'
    <2>1. SUFFICES ASSUME NEW p \in Server, NEW c \in Server, NEW t,
                          Voted(p, c, t)'
                   PROVE  tav'[p].term > t \/ tav'[p] = [term |-> t, vote |-> c]
      BY DEF VoteKept
    <2>2. CASE p = q /\ c = d /\ t = u
      BY <2>2
    <2>3. CASE Voted(p, c, t)
      <3>1. t \in VisibleTerms /\ t \in Nat
        BY <2>3, VotedVisible
      <3>2. tav[p].term > t \/ tav[p] = [term |-> t, vote |-> c]
        BY <2>3, <3>1 DEF ElectionInv, VoteKept
      <3>3. tav[p].term \in Nat /\ tav'[p].term \in Nat
        BY DEF TypeOK
      <3>4. c # NoVote
        BY NoVoteAssumption
      <3>5. QED
        BY <3>1, <3>2, <3>3, <3>4 DEF TavGrows
    <2>4. QED
      BY <2>1, <2>2, <2>3
  <1>2. VoteOnce'
    <2>1. SUFFICES ASSUME NEW p \in Server, NEW c \in Server, NEW e \in Server,
                          NEW t, Voted(p, c, t)', Voted(p, e, t)'
                   PROVE  c = e
      BY DEF VoteOnce
    <2>2. CASE p = q /\ t = u
      <3>1. c = d /\ e = d
        BY <2>1, <2>2
      <3>2. QED
        BY <3>1
    <2>3. CASE ~(p = q /\ t = u)
      <3>1. t \in VisibleTerms /\ Voted(p, c, t) /\ Voted(p, e, t)
        BY <2>1, <2>3, VotedVisible
      <3>2. QED
        BY <3>1 DEF ElectionInv, VoteOnce
    <2>4. QED
      BY <2>2, <2>3
  <1>3. QED
    BY <1>1, <1>2

\* When nobody counts more votes, a vote that shows is one that was sent, or
\* showed before.
LEMMA OldVotes ==
    ASSUME NoVoteCounted, NEW p \in Server, NEW c \in Server, NEW t,
           Voted(p, c, t)'
    PROVE  \/ Voted(p, c, t)
           \/ \E m \in msgs' \ msgs : /\ m.type = "vote" /\ m.granted
                                      /\ m.from = p /\ m.to = c /\ m.term = t
  <1>1. CASE \E m \in msgs' : /\ m.type = "vote" /\ m.granted
                              /\ m.from = p /\ m.to = c /\ m.term = t
    BY <1>1 DEF Voted
  <1>2. CASE /\ state'[c] # "Follower" /\ term'[c] = t
             /\ p \in votes'[c] \cup emptyVotes'[c]
    BY <1>2 DEF NoVoteCounted, Voted
  <1>3. QED
    BY <1>1, <1>2 DEF Voted

\* A step that grants and counts no vote, and writes the ballots it changes,
\* keeps the invariant.
LEMMA QuietStep ==
    ASSUME TypeOK, TypeOK', ElectionInv,
           BallotWritten', TavGrows, NoVoteSent, NoVoteCounted
    PROVE  BallotStep
  <1>1. ASSUME NEW p \in Server, NEW c \in Server, NEW t, Voted(p, c, t)'
        PROVE  Voted(p, c, t)
    BY <1>1, OldVotes DEF NoVoteSent
  <1>2. VoteKept' /\ VoteOnce'
    BY <1>1, VotesStay
  <1>3. NoVoteToSelf'
    BY DEF ElectionInv, NoVoteToSelf, NoVoteSent
  <1>4. LeaderElected'
    BY DEF ElectionInv, LeaderElected, NoVoteCounted
  <1>5. VotesWritten
    BY <1>1 DEF VotesWritten
  <1>6. QED
    BY <1>2, <1>3, <1>4, <1>5 DEF ElectionInv, BallotStep

\* stepdownLocked takes s out of the count of candidates and leaders.
LEMMA StepdownQuiet ==
    ASSUME TypeOK, NEW s \in Server, Stepdown(s),
           \A c \in Server \ {s} : term'[c] = term[c]
    PROVE  NoVoteCounted
  BY DEF TypeOK, Stepdown, NoVoteCounted

\* The file of a server is never ahead of it.
LEMMA FileNotAhead ==
    ASSUME TypeOK, BallotWritten, NEW s \in Server
    PROVE  tav[s].term <= term[s] /\ tav[s].term \in Nat /\ term[s] \in Nat
  <1>1. tav[s].term \in Nat /\ term[s] \in Nat
    BY DEF TypeOK
  <1>2. \/ tav[s] = [term |-> term[s], vote |-> vote[s]]
        \/ tav[s].term < term[s]
    BY DEF BallotWritten
  <1>3. tav[s].term = term[s] \/ tav[s].term < term[s]
    BY <1>2
  <1>4. QED
    BY <1>1, <1>3

\* A step that leaves term, vote and file alone.
LEMMA SameBallots ==
    ASSUME BallotWritten, UNCHANGED ballotVars
    PROVE  BallotWritten' /\ TavGrows
  BY DEF BallotWritten, TavGrows, ballotVars

\* Adopting a higher term writes it.
LEMMA AdoptBallots ==
    ASSUME TypeOK, BallotWritten, NEW s \in Server, NEW t \in Nat,
           AdoptTerm(s, t), t > term[s]
    PROVE  /\ BallotWritten' /\ TavGrows
           /\ \A c \in Server \ {s} : term'[c] = term[c]
  <1>1. /\ \A c \in Server \ {s} : /\ term'[c] = term[c] /\ vote'[c] = vote[c]
                                    /\ tav'[c] = tav[c]
        /\ term'[s] = t /\ vote'[s] = NoVote
        /\ tav'[s] = [term |-> t, vote |-> NoVote]
    BY DEF TypeOK, AdoptTerm, WriteTermVote
  <1>2. BallotWritten'
    BY <1>1 DEF BallotWritten
  <1>3. tav[s].term <= term[s] /\ tav[s].term \in Nat /\ term[s] \in Nat
    BY FileNotAhead
  <1>4. TavGrows
    BY <1>1, <1>3 DEF TavGrows
  <1>5. QED
    BY <1>1, <1>2, <1>4

\* Following an append entry writes its term, or leaves the file behind with
\* no vote.
LEMMA FollowBallots ==
    ASSUME TypeOK, BallotWritten, NEW s \in Server, NEW ae \in AppendEntryType,
           FollowTerm(s, ae), ~Outdated(s, ae)
    PROVE  BallotWritten' /\ TavGrows /\ NoVoteCounted
  <1>1. ae.lterm \in Nat /\ term[s] \in Nat /\ ae.lterm >= term[s]
    BY DEF TypeOK, AppendEntryType, Outdated
  <1>2. tav[s].term <= term[s] /\ tav[s].term \in Nat
    BY FileNotAhead
  <1>3. /\ \A c \in Server \ {s} : /\ term'[c] = term[c] /\ vote'[c] = vote[c]
        /\ term'[s] = ae.lterm
        /\ vote'[s] = IF ae.lterm > term[s] THEN NoVote ELSE vote[s]
    BY DEF TypeOK, FollowTerm
  <1>4. /\ \A c \in Server \ {s} : tav'[c] = tav[c]
        /\ \/ tav'[s] = [term |-> term'[s], vote |-> vote'[s]]
           \/ tav'[s] = tav[s]
    BY DEF TypeOK, FollowTerm, WriteTermVote
  <1>5. BallotWritten'
    BY <1>1, <1>2, <1>3, <1>4 DEF BallotWritten
  <1>6. TavGrows
    BY <1>1, <1>2, <1>3, <1>4 DEF TavGrows, BallotWritten
  <1>7. NoVoteCounted
    BY <1>3, StepdownQuiet DEF FollowTerm
  <1>8. QED
    BY <1>5, <1>6, <1>7

\* The votes with which runAsCandidate wins are a majority: non-empty ones alone,
\* or all servers together, where the candidate's own vote is not an empty one.
LEMMA WinningMajority ==
    ASSUME NEW V \in SUBSET Server, NEW E \in SUBSET Server, NEW c \in V \ E,
           \/ Cardinality(V) >= qn
           \/ Cardinality(V) + Cardinality(E) = Cardinality(Server)
    PROVE  2 * Cardinality(V \cup E) > Cardinality(Server)
  <1>1. IsFiniteSet(Server) /\ Cardinality(Server) \in Nat
    BY ServerAssumption, FS_CardinalityType
  <1>2. /\ IsFiniteSet(V) /\ IsFiniteSet(E) /\ IsFiniteSet(V \cup E)
        /\ Cardinality(V) \in Nat /\ Cardinality(E) \in Nat
        /\ Cardinality(V \cup E) \in Nat
    BY <1>1, FS_Subset, FS_CardinalityType
  <1>3. Cardinality(V) <= Cardinality(V \cup E)
    BY <1>2, FS_Subset
  <1>4. /\ IsFiniteSet(E \cup {c}) /\ Cardinality(E \cup {c}) = Cardinality(E) + 1
    BY <1>2, FS_AddElement
  <1>5. Cardinality(E \cup {c}) <= Cardinality(V \cup E)
    <2>1. E \cup {c} \subseteq V \cup E
      OBVIOUS
    <2>2. QED
      BY <1>2, <2>1, FS_Subset
  <1>6. 2 * qn > Cardinality(Server) /\ qn \in Nat
    BY <1>1 DEF qn
  <1>7. CASE Cardinality(V) >= qn
    BY <1>1, <1>2, <1>3, <1>6, <1>7
  <1>8. CASE Cardinality(V) + Cardinality(E) = Cardinality(Server)
    BY <1>1, <1>2, <1>3, <1>4, <1>5, <1>8
  <1>9. QED
    BY <1>7, <1>8

\* switchToCandidate and requestVote: the one new vote is that of s for itself,
\* in a term no file of s has reached.
LEMMA CandidateElection ==
    ASSUME TypeOK, TypeOK', ElectionInv, NEW s \in Server, SwitchToCandidate(s)
    PROVE  BallotStep
  <1> DEFINE u == term[s] + 1
  <1>1. tav[s].term <= term[s] /\ tav[s].term \in Nat /\ term[s] \in Nat
    BY FileNotAhead DEF ElectionInv
  <1>2. /\ \A c \in Server \ {s} : /\ state'[c] = state[c] /\ term'[c] = term[c]
                                    /\ vote'[c] = vote[c] /\ tav'[c] = tav[c]
                                    /\ votes'[c] = votes[c]
                                    /\ emptyVotes'[c] = emptyVotes[c]
        /\ state'[s] = "Candidate" /\ term'[s] = u /\ vote'[s] = s
        /\ tav'[s] = [term |-> u, vote |-> s]
        /\ votes'[s] = {s} /\ emptyVotes'[s] = {}
    BY DEF SwitchToCandidate, WriteTermVote, TypeOK
  <1>3. \A m \in msgs' \ msgs : m.type = "request" /\ m.from # m.to
    <2>1. PICK R \in Receivers(s, msgs) :
              msgs' = msgs \cup {VoteRequest(s, p, u) : p \in R}
      BY DEF SwitchToCandidate
    <2>2. \A p \in R : p # s
      BY <2>1 DEF Receivers, Peers
    <2>3. QED
      BY <2>1, <2>2 DEF VoteRequest
  <1>4. BallotWritten'
    BY <1>2 DEF ElectionInv, BallotWritten
  <1>5. TavGrows
    BY <1>1, <1>2 DEF TavGrows
  <1>6. ASSUME NEW p \in Server, NEW c \in Server, NEW t, Voted(p, c, t)'
        PROVE  Voted(p, c, t) \/ (p = s /\ c = s /\ t = u)
    <2>1. CASE \E m \in msgs' : /\ m.type = "vote" /\ m.granted
                                /\ m.from = p /\ m.to = c /\ m.term = t
      BY <1>3, <2>1 DEF Voted
    <2>2. CASE /\ state'[c] # "Follower" /\ term'[c] = t
               /\ p \in votes'[c] \cup emptyVotes'[c]
      BY <1>2, <2>2 DEF Voted
    <2>3. QED
      BY <1>6, <2>1, <2>2 DEF Voted
  <1>7. \A c \in Server : Voted(s, c, u) => c = s
    <2>1. SUFFICES ASSUME NEW c \in Server, Voted(s, c, u) PROVE FALSE
      OBVIOUS
    <2>2. u \in VisibleTerms
      BY <2>1, VotedVisible
    <2>3. tav[s].term > u \/ tav[s] = [term |-> u, vote |-> c]
      BY <2>1, <2>2 DEF ElectionInv, VoteKept
    <2>4. tav[s].term > u \/ tav[s].term = u
      BY <2>3
    <2>5. QED
      BY <1>1, <2>4
  <1>8. VoteKept' /\ VoteOnce'
    <2>1. u \in Nat /\ tav'[s] = [term |-> u, vote |-> s]
      BY <1>1, <1>2
    <2> HIDE DEF u
    <2>2. QED
      BY <1>5, <1>6, <1>7, <2>1, OneNewVote
  <1>9. NoVoteToSelf'
    BY <1>3 DEF ElectionInv, NoVoteToSelf
  <1>10. LeaderElected'
    BY <1>2 DEF ElectionInv, LeaderElected
  <1>11. VotesWritten
    BY <1>2, <1>6 DEF VotesWritten
  <1>12. QED
    BY <1>4, <1>5, <1>8, <1>9, <1>10, <1>11 DEF ElectionInv, BallotStep

\* processVoteRequest: the one new vote is that of s for the candidate, and s
\* had no other in this term, in memory or in its file.
LEMMA VoteElection ==
    ASSUME TypeOK, TypeOK', ElectionInv, NEW m \in msgs, ProcessVoteRequest(m)
    PROVE  BallotStep
  <1> DEFINE s == m.to
             higher == m.term > term[s]
             previous == IF higher THEN NoVote ELSE vote[s]
             granted == previous \in {NoVote, m.from} /\ UpToDate(s, m)
  <1>1. /\ s \in Server /\ m.from \in Server /\ m.term \in Nat /\ m.from # s
        /\ m.term >= term[s]
    BY FieldTypes DEF TypeOK, ProcessVoteRequest, ElectionInv, NoVoteToSelf
  <1>2. tav[s].term <= term[s] /\ tav[s].term \in Nat /\ term[s] \in Nat
    BY <1>1, FileNotAhead DEF ElectionInv
  <1>3. /\ \A c \in Server \ {s} : /\ term'[c] = term[c] /\ vote'[c] = vote[c]
                                    /\ tav'[c] = tav[c]
        /\ term'[s] = m.term
        /\ vote'[s] = IF granted THEN m.from ELSE previous
        /\ tav'[s] = IF higher \/ granted
                     THEN [term |-> term'[s], vote |-> vote'[s]] ELSE tav[s]
    <2>1. /\ term' = [term EXCEPT ![s] = m.term]
          /\ vote' = [vote EXCEPT ![s] = IF granted THEN m.from ELSE previous]
      BY DEF ProcessVoteRequest
    <2>2. IF higher \/ granted
          THEN tav' = [tav EXCEPT ![s] = [term |-> term'[s], vote |-> vote'[s]]]
          ELSE tav' = tav
      BY DEF ProcessVoteRequest, WriteTermVote
    <2>3. /\ term \in [Server -> Nat] /\ DOMAIN vote = Server /\ DOMAIN tav = Server
      BY DEF TypeOK
    <2> HIDE DEF granted, higher, previous
    <2>4. QED
      BY <1>1, <2>1, <2>2, <2>3
  <1>4. PICK empty \in BOOLEAN :
            msgs' \in Answer(m, VoteResponse(s, m.from, m.term, granted, empty))
    BY DEF ProcessVoteRequest
  <1>5. \A x \in msgs' \ msgs : /\ x.type = "vote" /\ x.granted = granted
                                /\ x.from = s /\ x.to = m.from /\ x.term = m.term
    BY <1>4 DEF Answer, VoteResponse
  <1>6. NoVoteCounted
    <2>1. CASE higher
      <3>1. Stepdown(s)
        BY <2>1 DEF ProcessVoteRequest
      <3>2. QED
        BY <1>1, <1>3, <3>1, StepdownQuiet
    <2>2. CASE ~higher
      <3>1. UNCHANGED <<state, votes, emptyVotes>>
        BY <2>2 DEF ProcessVoteRequest, electVars
      <3>2. term'[s] = term[s]
        BY <1>1, <1>2, <1>3, <2>2
      <3>3. term' = term
        <4>1. term' = [term EXCEPT ![s] = m.term] /\ m.term = term[s]
          BY <1>3, <3>2 DEF ProcessVoteRequest
        <4>2. term \in [Server -> Nat]
          BY DEF TypeOK
        <4>3. QED
          BY <4>1, <4>2
      <3>4. QED
        BY <3>1, <3>3 DEF NoVoteCounted
    <2>3. QED
      BY <2>1, <2>2
  <1>7. BallotWritten'
    BY <1>1, <1>2, <1>3 DEF ElectionInv, BallotWritten
  <1>8. ASSUME NEW c \in Server, Voted(s, c, m.term), granted
        PROVE  c = m.from /\ ~higher
    <2>1. m.term \in VisibleTerms
      BY <1>1, <1>8, VotedVisible
    <2>2. tav[s].term > m.term \/ tav[s] = [term |-> m.term, vote |-> c]
      BY <1>1, <1>8, <2>1 DEF ElectionInv, VoteKept
    <2>3. tav[s] = [term |-> m.term, vote |-> c]
      BY <1>1, <1>2, <2>2
    <2>4. tav[s].term = m.term /\ tav[s].vote = c
      BY <2>3
    <2>5. tav[s].term = term[s] /\ ~higher
      BY <1>1, <1>2, <2>4
    <2>6. \/ tav[s] = [term |-> term[s], vote |-> vote[s]]
          \/ tav[s].term < term[s]
      BY <1>1 DEF ElectionInv, BallotWritten
    <2>7. vote[s] = c
      BY <1>2, <2>4, <2>5, <2>6
    <2>8. c # NoVote
      BY NoVoteAssumption
    <2>9. QED
      BY <1>8, <2>5, <2>7, <2>8
  <1>9. TavGrows
    <2>1. CASE higher
      BY <1>1, <1>2, <1>3, <2>1 DEF TavGrows
    <2>2. CASE ~higher /\ ~granted
      BY <1>1, <1>3, <2>2 DEF TavGrows
    <2>3. CASE ~higher /\ granted
      <3>1. m.term = term[s] /\ tav'[s] = [term |-> term[s], vote |-> m.from]
        BY <1>1, <1>2, <1>3, <2>3
      <3>2. \/ tav[s] = [term |-> term[s], vote |-> vote[s]]
            \/ tav[s].term < term[s]
        BY <1>1 DEF ElectionInv, BallotWritten
      <3>3. vote[s] = NoVote \/ vote[s] = m.from
        BY <2>3
      <3>4. \/ tav'[s] = tav[s] \/ tav'[s].term > tav[s].term
            \/ tav'[s].term = tav[s].term /\ tav[s].vote = NoVote
        BY <1>2, <3>1, <3>2, <3>3
      <3>5. QED
        BY <1>3, <3>4 DEF TavGrows
    <2>4. QED
      BY <2>1, <2>2, <2>3
  <1>10. VoteKept' /\ VoteOnce' /\ VotesWritten
    <2> HIDE DEF granted, higher, previous, s
    <2>1. ASSUME NEW p \in Server, NEW c \in Server, NEW t, Voted(p, c, t)'
          PROVE  Voted(p, c, t) \/ (granted /\ p = s /\ c = m.from /\ t = m.term)
      BY <1>5, <1>6, <2>1, OldVotes
    <2>2. CASE granted
      <3>1. tav'[s] = [term |-> m.term, vote |-> m.from]
        BY <1>3, <2>2
      <3>2. VoteKept' /\ VoteOnce'
        BY <1>1, <1>8, <1>9, <2>1, <2>2, <3>1, OneNewVote
      <3>3. QED
        BY <2>1, <3>1, <3>2 DEF VotesWritten
    <2>3. CASE ~granted
      <3>1. VoteKept' /\ VoteOnce'
        BY <1>9, <2>1, <2>3, VotesStay
      <3>2. QED
        BY <2>1, <2>3, <3>1 DEF VotesWritten
    <2>4. QED
      BY <2>2, <2>3
  <1>11. NoVoteToSelf'
    BY <1>1, <1>5 DEF ElectionInv, NoVoteToSelf
  <1>12. LeaderElected'
    BY <1>6 DEF ElectionInv, LeaderElected, NoVoteCounted
  <1>13. QED
    BY <1>7, <1>9, <1>10, <1>11, <1>12 DEF ElectionInv, BallotStep

\* runAsCandidate counts a vote that was on its way; if it wins, it has a majority.
LEMMA CountElection ==
    ASSUME TypeOK, TypeOK', ElectionInv, NEW m \in msgs, CountVote(m)
    PROVE  BallotStep
  <1> DEFINE s == m.to
             V == VotesWith(m)
             E == EmptyVotesWith(m)
  <1>1. /\ s \in Server /\ m.from \in Server /\ m.from # s
        /\ m.type = "vote" /\ m.granted /\ state[s] = "Candidate" /\ m.term = term[s]
    BY FieldTypes DEF TypeOK, CountVote, ElectionInv, NoVoteToSelf
  <1>2. /\ \A c \in Server \ {s} : /\ state'[c] = state[c]
                                    /\ votes'[c] = votes[c]
                                    /\ emptyVotes'[c] = emptyVotes[c]
        /\ votes'[s] = V /\ emptyVotes'[s] = E
        /\ term' = term /\ msgs' = msgs \ {m}
        /\ state'[s] = IF Wins(m) THEN "Leader" ELSE "Candidate"
    <2>1. /\ votes' = [votes EXCEPT ![s] = V] /\ emptyVotes' = [emptyVotes EXCEPT ![s] = E]
          /\ term' = term /\ msgs' = msgs \ {m}
          /\ state' = IF Wins(m) THEN [state EXCEPT ![s] = "Leader"] ELSE state
      BY DEF CountVote, ballotVars
    <2>2. DOMAIN state = Server /\ DOMAIN votes = Server /\ DOMAIN emptyVotes = Server
      BY DEF TypeOK
    <2> HIDE DEF V, E
    <2>3. QED
      BY <1>1, <2>1, <2>2
  <1>3. /\ V \in SUBSET Server /\ E \in SUBSET Server /\ s \in V \ E
        /\ V \cup E = votes[s] \cup emptyVotes[s] \cup {m.from}
    BY <1>1 DEF VotesWith, EmptyVotesWith, TypeOK, ElectionInv, LeaderElected
  <1>4. BallotWritten' /\ TavGrows
    BY SameBallots DEF CountVote, ElectionInv
  <1>5. Voted(m.from, s, m.term)
    BY <1>1 DEF Voted
  <1> HIDE DEF V, E, s
  <1>6. ASSUME NEW p \in Server, NEW c \in Server, NEW t, Voted(p, c, t)'
        PROVE  Voted(p, c, t)
    <2>1. CASE \E x \in msgs' : /\ x.type = "vote" /\ x.granted
                                /\ x.from = p /\ x.to = c /\ x.term = t
      BY <1>2, <2>1 DEF Voted
    <2>2. CASE /\ state'[c] # "Follower" /\ term'[c] = t
               /\ p \in votes'[c] \cup emptyVotes'[c]
      <3>1. CASE c # s
        BY <1>2, <2>2, <3>1 DEF Voted
      <3>2. CASE c = s
        <4>1. t = term[s] /\ p \in votes[s] \cup emptyVotes[s] \cup {m.from}
          BY <1>2, <1>3, <2>2, <3>2
        <4>2. CASE p = m.from
          BY <1>1, <1>5, <3>2, <4>1, <4>2
        <4>3. CASE p # m.from
          BY <1>1, <3>2, <4>1, <4>3 DEF Voted
        <4>4. QED
          BY <4>2, <4>3
      <3>3. QED
        BY <3>1, <3>2
    <2>3. QED
      BY <1>6, <2>1, <2>2 DEF Voted
  <1>7. VoteKept' /\ VoteOnce'
    BY <1>4, <1>6, VotesStay
  <1>8. NoVoteToSelf'
    BY <1>2 DEF ElectionInv, NoVoteToSelf
  <1>9. Wins(m) => 2 * Cardinality(V \cup E) > Cardinality(Server)
    BY <1>3, WinningMajority DEF Wins, V, E
  <1>10. LeaderElected'
    BY <1>1, <1>2, <1>3, <1>9 DEF ElectionInv, LeaderElected
  <1>11. VotesWritten
    BY <1>6 DEF VotesWritten
  <1>12. QED
    BY <1>4, <1>7, <1>8, <1>10, <1>11 DEF ElectionInv, BallotStep

\* The steps of a server keep the election invariant.
LEMMA ServerStepElection ==
    ASSUME TypeOK, TypeOK', ElectionInv, NEW s \in Server, ServerStep(s)
    PROVE  BallotStep
  <1>1. CASE SwitchToCandidate(s)
    BY <1>1, CandidateElection
  <1>2. CASE CatchupStalled(s) \/ Propose(s) \/ SendHeartbeat(s)
    <2>1. UNCHANGED <<state, ballotVars, electVars, msgs>>
      BY <1>2 DEF CatchupStalled, Propose, SendHeartbeat
    <2>2. BallotWritten' /\ TavGrows
      BY <2>1, SameBallots DEF ElectionInv
    <2>3. NoVoteSent /\ NoVoteCounted
      BY <2>1 DEF NoVoteSent, NoVoteCounted, ballotVars, electVars
    <2>4. QED
      BY <2>2, <2>3, QuietStep
  <1>3. CASE LostQuorum(s)
    <2>1. Stepdown(s) /\ UNCHANGED <<ballotVars, msgs>>
      BY <1>3 DEF LostQuorum
    <2>2. BallotWritten' /\ TavGrows
      BY <2>1, SameBallots DEF ElectionInv
    <2>3. NoVoteSent /\ NoVoteCounted
      BY <2>1, StepdownQuiet DEF NoVoteSent, ballotVars
    <2>4. QED
      BY <2>2, <2>3, QuietStep
  <1>4. CASE Restart(s)
    <2> DEFINE log == IF FileWAL THEN wal[s] ELSE <<>>
               terms == {tav[s].term} \cup {log[k].lterm : k \in DOMAIN log}
    <2>1. PICK t \in terms :
              /\ \A u \in terms : u <= t
              /\ term' = [term EXCEPT ![s] = t]
              /\ vote' = [vote EXCEPT ![s] =
                     IF t > tav[s].term THEN NoVote ELSE tav[s].vote]
      BY <1>4 DEF Restart
    <2>2. tav[s].term <= t
      BY <2>1
    <2> HIDE DEF terms
    <2>3. Stepdown(s) /\ UNCHANGED <<tav, msgs>>
      BY <1>4 DEF Restart
    <2>4. /\ \A c \in Server \ {s} : term'[c] = term[c] /\ vote'[c] = vote[c]
          /\ term'[s] = t
          /\ vote'[s] = IF t > tav[s].term THEN NoVote ELSE tav[s].vote
      BY <2>1 DEF TypeOK
    <2>5. t \in Nat /\ tav[s] \in [term : Nat, vote : Server \cup {NoVote}]
      BY <2>4 DEF TypeOK
    <2>6. BallotWritten'
      <3>1. CASE t > tav[s].term
        BY <2>3, <2>4, <2>5, <3>1 DEF ElectionInv, BallotWritten
      <3>2. CASE t = tav[s].term
        <4>1. term'[s] = tav[s].term /\ vote'[s] = tav[s].vote
          BY <2>4, <2>5, <3>2
        <4>2. tav[s] = [term |-> term'[s], vote |-> vote'[s]]
          BY <2>5, <4>1
        <4>3. QED
          BY <2>3, <2>4, <4>2 DEF ElectionInv, BallotWritten
      <3>3. QED
        BY <2>2, <2>5, <3>1, <3>2
    <2>7. TavGrows
      BY <2>3 DEF TavGrows
    <2>8. NoVoteSent /\ NoVoteCounted
      BY <2>3, <2>4, StepdownQuiet DEF NoVoteSent
    <2>9. QED
      BY <2>6, <2>7, <2>8, QuietStep
  <1>5. QED
    BY <1>1, <1>2, <1>3, <1>4 DEF ServerStep

\* So does the handling of requests, votes and responses.
LEMMA MessageStepElection ==
    ASSUME TypeOK, TypeOK', ElectionInv, NEW m \in msgs, MessageStep(m)
    PROVE  BallotStep
  <1> DEFINE s == m.to
  <1>0. m \in Message /\ s \in Server /\ m.from \in Server /\ m.term \in Nat
    BY FieldTypes DEF TypeOK
  <1>1. CASE RejectVoteRequest(m)
    <2>1. /\ UNCHANGED <<state, ballotVars, electVars>>
          /\ msgs' \in Answer(m, VoteResponse(s, m.from, term[s], FALSE, pindex(s) = 0))
      BY <1>1 DEF RejectVoteRequest
    <2>2. BallotWritten' /\ TavGrows
      BY <2>1, SameBallots DEF ElectionInv
    <2>3. m.from # s
      BY <1>1 DEF RejectVoteRequest, ElectionInv, NoVoteToSelf
    <2>4. NoVoteSent
      BY <2>1, <2>3 DEF NoVoteSent, Answer, VoteResponse
    <2>5. NoVoteCounted
      BY <2>1 DEF NoVoteCounted, ballotVars, electVars
    <2>6. QED
      BY <2>2, <2>4, <2>5, QuietStep
  <1>2. CASE ProcessVoteRequest(m)
    BY <1>2, VoteElection
  <1>3. CASE CountVote(m)
    BY <1>3, CountElection
  <1>4. CASE HigherTermVote(m) \/ HigherTermResponse(m)
    <2>1. /\ Stepdown(s) /\ msgs' = msgs \ {m} /\ m.term > term[s]
          /\ AdoptTerm(s, m.term) \/ UNCHANGED ballotVars
      BY <1>4 DEF HigherTermVote, HigherTermResponse
    <2>2. /\ BallotWritten' /\ TavGrows
          /\ \A c \in Server \ {s} : term'[c] = term[c]
      <3>1. CASE AdoptTerm(s, m.term)
        BY <1>0, <2>1, <3>1, AdoptBallots DEF ElectionInv
      <3>2. CASE UNCHANGED ballotVars
        <4>1. term' = term
          BY <3>2 DEF ballotVars
        <4>2. QED
          BY <3>2, <4>1, SameBallots DEF ElectionInv
      <3>3. QED
        BY <2>1, <3>1, <3>2
    <2>3. NoVoteCounted
      BY <1>0, <2>1, <2>2, StepdownQuiet
    <2>4. NoVoteSent
      BY <2>1 DEF NoVoteSent
    <2>5. QED
      BY <2>2, <2>3, <2>4, QuietStep
  <1>5. CASE IgnoreVote(m) \/ ProcessSuccess(m) \/ CatchupFollower(m) \/ IgnoreResponse(m)
    <2>1. /\ UNCHANGED ballotVars /\ msgs' = msgs \ {m}
          /\ UNCHANGED <<state, electVars>> \/ Stepdown(s)
      BY <1>5 DEF IgnoreVote, ProcessSuccess, CatchupFollower, IgnoreResponse
    <2>2. term' = term
      BY <2>1 DEF ballotVars
    <2>3. BallotWritten' /\ TavGrows
      BY <2>1, SameBallots DEF ElectionInv
    <2>4. NoVoteCounted
      <3>1. CASE Stepdown(s)
        BY <1>0, <2>2, <3>1, StepdownQuiet
      <3>2. CASE UNCHANGED <<state, electVars>>
        BY <2>2, <3>2 DEF NoVoteCounted, electVars
      <3>3. QED
        BY <2>1, <3>1, <3>2
    <2>5. NoVoteSent
      BY <2>1 DEF NoVoteSent
    <2>6. QED
      BY <2>3, <2>4, <2>5, QuietStep
  <1>6. QED
    BY <1>1, <1>2, <1>3, <1>4, <1>5 DEF MessageStep

\* And so do runCatchup and every branch of processAppendEntry.
LEMMA EntryStepElection ==
    ASSUME TypeOK, TypeOK', ElectionInv, NEW i \in Server, NEW s \in Server,
           RunCatchup(i, s) \/ ProcessAppendEntry(i, s)
    PROVE  BallotStep
  <1> DEFINE ae == Head(link[<<i, s>>])
  <1>1. CASE RunCatchup(i, s) \/ RejectAppendEntry(i, s)
    <2>1. /\ UNCHANGED <<state, ballotVars, electVars>>
          /\ \/ UNCHANGED msgs
             \/ msgs' \in AnswerEntry(Response(s, i, term[s], pindex(s), FALSE, 0))
      BY <1>1 DEF RunCatchup, RejectAppendEntry
    <2>2. BallotWritten' /\ TavGrows
      BY <2>1, SameBallots DEF ElectionInv
    <2>3. NoVoteSent /\ NoVoteCounted
      BY <2>1 DEF NoVoteSent, NoVoteCounted, AnswerEntry, Response, ballotVars, electVars
    <2>4. QED
      BY <2>2, <2>3, QuietStep
  <1>2. CASE /\ IgnoreCatchupEntry(i, s)
             /\ UNCHANGED <<state, ballotVars, electVars>>
    <2>1. UNCHANGED msgs
      BY <1>2 DEF IgnoreCatchupEntry
    <2>2. BallotWritten' /\ TavGrows
      BY <1>2, SameBallots DEF ElectionInv
    <2>3. NoVoteSent /\ NoVoteCounted
      BY <1>2, <2>1 DEF NoVoteSent, NoVoteCounted, ballotVars, electVars
    <2>4. QED
      BY <2>2, <2>3, QuietStep
  <1>3. CASE /\ link[<<i, s>>] # <<>> /\ FollowTerm(s, ae) /\ ~Outdated(s, ae)
             /\ \A m \in msgs' \ msgs : m.type = "response"
    <2>1. ae \in AppendEntryType
      BY <1>3, ReceivedType
    <2>2. BallotWritten' /\ TavGrows /\ NoVoteCounted
      BY <1>3, <2>1, FollowBallots DEF ElectionInv
    <2>3. NoVoteSent
      BY <1>3 DEF NoVoteSent
    <2>4. QED
      BY <2>2, <2>3, QuietStep
  <1>4. ASSUME ProcessAppendEntry(i, s), ~RejectAppendEntry(i, s),
               ~(IgnoreCatchupEntry(i, s) /\ UNCHANGED <<state, ballotVars, electVars>>)
        PROVE  /\ link[<<i, s>>] # <<>> /\ FollowTerm(s, ae) /\ ~Outdated(s, ae)
               /\ \A m \in msgs' \ msgs : m.type = "response"
    <2>1. CASE IgnoreCatchupEntry(i, s)
      BY <1>4, <2>1 DEF IgnoreCatchupEntry
    <2>2. CASE AwaitCatchup(i, s) \/ MissingEntries(i, s)
      BY <2>2 DEF AwaitCatchup, MissingEntries, Current, Ready, AnswerEntry, Response
    <2>3. CASE AlreadyCommitted(i, s) \/ TruncateConflict(i, s)
      BY <2>3 DEF AlreadyCommitted, TruncateConflict, Current, Ready
    <2>4. CASE AcceptEntry(i, s)
      BY <2>4 DEF AcceptEntry, Current, Ready, AnswerEntry, Response
    <2>5. QED
      BY <1>4, <2>1, <2>2, <2>3, <2>4 DEF ProcessAppendEntry
  <1>5. QED
    BY <1>1, <1>2, <1>3, <1>4 DEF ProcessAppendEntry

\* Every step keeps the election invariant, and moves the files on.
LEMMA ElectionStep ==
    TypeOK /\ TypeOK' /\ ElectionInv /\ [Next]_vars => BallotStep
  <1>1. SUFFICES ASSUME TypeOK, TypeOK', ElectionInv, [Next]_vars PROVE BallotStep
    OBVIOUS
  <1>2. CASE UNCHANGED vars
    <2>1. BallotWritten' /\ TavGrows
      BY <1>1, <1>2, SameBallots DEF ElectionInv, vars, ballotVars
    <2>2. NoVoteSent /\ NoVoteCounted
      BY <1>2 DEF NoVoteSent, NoVoteCounted, vars, ballotVars, electVars
    <2>3. QED
      BY <1>1, <2>1, <2>2, QuietStep
  <1>3. CASE Next
    BY <1>1, <1>3, ServerStepElection, MessageStepElection, EntryStepElection DEF Next
  <1>4. QED
    BY <1>1, <1>2, <1>3

\* Nobody has voted at the start.
LEMMA ElectionInit ==
    Init => ElectionInv
  BY DEF Init, ElectionInv, BallotWritten, VoteKept, VoteOnce, Voted, NoVoteToSelf,
         LeaderElected

\* Two majorities share a server, and it voted once.
LEMMA ElectionSafe ==
    TypeOK /\ ElectionInv => OneLeaderPerTerm
  <1>1. SUFFICES ASSUME TypeOK, ElectionInv, NEW s \in Server, NEW p \in Server,
                        state[s] = "Leader", state[p] = "Leader", term[s] = term[p]
                 PROVE  s = p
    BY DEF OneLeaderPerTerm
  <1> DEFINE Q == votes[s] \cup emptyVotes[s]
             P == votes[p] \cup emptyVotes[p]
  <1>2. /\ Q \in SUBSET Server /\ P \in SUBSET Server
        /\ 2 * Cardinality(Q) > Cardinality(Server)
        /\ 2 * Cardinality(P) > Cardinality(Server)
    BY <1>1 DEF TypeOK, ElectionInv, LeaderElected
  <1>3. /\ IsFiniteSet(Server) /\ Cardinality(Server) \in Nat
        /\ IsFiniteSet(Q) /\ IsFiniteSet(P)
        /\ Cardinality(Q) \in Nat /\ Cardinality(P) \in Nat
    BY <1>2, ServerAssumption, FS_Subset, FS_CardinalityType
  <1>4. Q \cap P # {}
    BY <1>2, <1>3, FS_MajoritiesIntersect
  <1>5. PICK q \in Server : q \in Q /\ q \in P
    BY <1>2, <1>4
  <1>6. Voted(q, s, term[s]) /\ Voted(q, p, term[s])
    BY <1>1, <1>5 DEF Voted
  <1>7. term[s] \in VisibleTerms
    BY DEF VisibleTerms
  <1>8. QED
    BY <1>1, <1>6, <1>7 DEF ElectionInv, VoteOnce

\* The election invariant holds of every replication group: each vote that is
\* counted or under way is in a file, or the file has moved to a later term.
THEOREM VotesOnDisk ==
    Spec => []ElectionInv
  <1>1. TypeOK /\ TypeOK' /\ ElectionInv /\ [Next]_vars => ElectionInv'
    BY ElectionStep DEF BallotStep
  <1>2. QED
    BY <1>1, TypeCorrect, ElectionInit, PTL DEF Spec

\* processAppendEntry's "Two leaders using the same term" is unreachable, with any
\* number of servers, crashes, lost messages, catchups, and file or memory logs.
THEOREM OneLeader ==
    Spec => []OneLeaderPerTerm
  <1>1. QED
    BY TypeCorrect, VotesOnDisk, ElectionSafe, PTL

-----------------------------------------------------------------------------
(***************************************************************************)
(* Proofs about the logs of a replication group (Raft): two logs that      *)
(* agree on the term of an entry agree on everything before it, for every  *)
(* number of servers, lost messages, crashes and catchups, with file and   *)
(* with memory logs.                                                       *)
(*                                                                         *)
(* The argument is about links of the logs: an entry of term t at index i  *)
(* follows an entry of term u.  A link is in a stored log or in an append  *)
(* entry under way, and only the leader of t makes one; every other step,  *)
(* the catchups of later leaders included, copies or drops links.          *)
(***************************************************************************)

(* The inductive invariant *)

\* The log of s has an entry of term t at index i, after one of term u.
Stored(s, i, t, u) ==
    i \in 1..pindex(s) /\ wal[s][i].term = t /\ TermAt(wal[s], i - 1) = u

\* An append entry on the way between the pair p carries such an entry.
Sent(p, i, t, u) ==
    \E k \in 1..Len(link[p]) :
        /\ link[p][k].entry
        /\ link[p][k].pindex + 1 = i /\ link[p][k].term = t /\ link[p][k].pterm = u

Follows(i, t, u) ==
    (\E s \in Server : Stored(s, i, t, u)) \/ (\E p \in Pairs : Sent(p, i, t, u))

\* An entry of a term at an index has one predecessor.
OnePredecessor ==
    \A i, t, u, v \in Nat : Follows(i, t, u) /\ Follows(i, t, v) => u = v

\* The first entry of a log has none.
FirstAfterNothing == \A t, u \in Nat : Follows(1, t, u) => u = 0

\* No entry of a leader's term is beyond the leader's log.
LeaderAhead ==
    \A s \in Server : state[s] = "Leader" =>
        \A i, u \in Nat : Follows(i, term[s], u) => i <= pindex(s)

\* c was elected in term t and no other server can be: a majority has its vote
\* for c on file or is past t, and none of them has a vote for another under way.
Elected(c, t) ==
    /\ tav[c].term >= t
    /\ ~(state[c] = "Candidate" /\ term[c] = t)
    /\ \E Q \in SUBSET Server :
           /\ 2 * Cardinality(Q) > Cardinality(Server)
           /\ \A q \in Q : /\ tav[q].term >= t
                           /\ tav[q].term = t => tav[q].vote = c
                           /\ \A d \in Server \ {c} : ~Voted(q, d, t)

\* Every entry is of a term in which somebody was elected.
TermsElected ==
    \A i, t, u \in Nat : Follows(i, t, u) => \E c \in Server : Elected(c, t)

LogInv == OnePredecessor /\ FirstAfterNothing /\ LeaderAhead /\ TermsElected

-----------------------------------------------------------------------------
(* Numbers *)

\* Every set of natural numbers has a least one.
LEMMA LeastNumber ==
    ASSUME NEW T \in SUBSET Nat, T # {}
    PROVE  \E x \in T : \A y \in T : x <= y
  <1> DEFINE R == {ss \in Nat \X Nat : ss[1] < ss[2]}
  <1>1. IsWellFoundedOn(R, Nat)
    BY NatLessThanWellFounded DEF OpToRel
  <1>2. \A x, y \in Nat : <<y, x>> \notin R => x <= y
    OBVIOUS
  <1> HIDE DEF R
  <1>3. \E x \in T : \A y \in T : ~(<<y, x>> \in R)
    BY <1>1, WFMin
  <1>4. QED
    BY <1>2, <1>3

\* The smaller of two numbers is below both.
LEMMA PairMin ==
    ASSUME NEW a \in Nat, NEW b \in Nat
    PROVE  Min({a, b}) \in Nat /\ Min({a, b}) <= a /\ Min({a, b}) <= b
  <1>1. \E x \in {a, b} : \A y \in {a, b} : x <= y
    <2>1. CASE a >= b
      BY <2>1
    <2>2. CASE b >= a
      BY <2>2
    <2>3. QED
      BY <2>1, <2>2
  <1>2. Min({a, b}) \in {a, b} /\ \A y \in {a, b} : Min({a, b}) <= y
    BY <1>1 DEF Min
  <1>3. QED
    BY <1>2

-----------------------------------------------------------------------------
(* What the steps do to the links *)

\* A link is between numbers.
LEMMA FollowsType ==
    ASSUME TypeOK, NEW i, NEW t, NEW u, Follows(i, t, u)
    PROVE  i \in Nat \ {0} /\ t \in Nat /\ u \in Nat
  <1>1. CASE \E s \in Server : Stored(s, i, t, u)
    <2>1. PICK s \in Server : Stored(s, i, t, u)
      BY <1>1
    <2>2. wal[s] \in Seq(Entry) /\ i \in 1..Len(wal[s]) /\ i - 1 \in 0..Len(wal[s])
      BY <2>1 DEF Stored, TypeOK, pindex
    <2>3. wal[s][i] \in Entry
      BY <2>2
    <2>4. TermAt(wal[s], i - 1) \in Nat
      BY <2>2, TermAtType
    <2>5. wal[s][i].term \in Nat
      BY <2>3 DEF Entry
    <2>6. t \in Nat /\ u \in Nat
      BY <2>1, <2>4, <2>5 DEF Stored
    <2>7. QED
      BY <2>2, <2>6
  <1>2. CASE \E p \in Pairs : Sent(p, i, t, u)
    <2>0. PICK p \in Pairs : Sent(p, i, t, u)
      BY <1>2
    <2>1. PICK k \in 1..Len(link[p]) :
              link[p][k].pindex + 1 = i /\ link[p][k].term = t /\ link[p][k].pterm = u
      BY <2>0 DEF Sent
    <2>2. link[p] \in Seq(AppendEntryType)
      BY DEF TypeOK
    <2>3. link[p][k] \in AppendEntryType
      BY <2>1, <2>2
    <2>4. QED
      BY <2>1, <2>3 DEF AppendEntryType
  <1>3. QED
    BY <1>1, <1>2 DEF Follows

\* Truncating a log makes no link.
LEMMA PrefixStored ==
    ASSUME TypeOK, NEW s \in Server, NEW n \in 0..Len(wal[s]),
           wal'[s] = SubSeq(wal[s], 1, n),
           NEW i, NEW t, NEW u, Stored(s, i, t, u)'
    PROVE  Stored(s, i, t, u)
  <1>1. wal[s] \in Seq(Entry)
    BY DEF TypeOK
  <1>2. /\ Len(wal'[s]) = n
        /\ \A k \in 1..n : wal'[s][k] = wal[s][k]
    BY <1>1
  <1>3. /\ i \in 1..n /\ wal'[s][i].term = t
        /\ TermAt(wal'[s], i - 1) = u
    BY <1>2 DEF Stored, pindex
  <1>4. TermAt(wal[s], i - 1) = TermAt(wal'[s], i - 1)
    BY <1>2, <1>3 DEF TermAt
  <1>5. i \in 1..pindex(s) /\ wal[s][i].term = t
    BY <1>2, <1>3 DEF pindex
  <1>6. QED
    BY <1>3, <1>4, <1>5 DEF Stored

\* Taking an append entry off its way makes no link.
LEMMA ReceivedSent ==
    ASSUME TypeOK, NEW j \in Server, NEW s \in Server, link[<<j, s>>] # <<>>,
           link' = Received(j, s),
           NEW p \in Pairs, NEW i, NEW t, NEW u, Sent(p, i, t, u)'
    PROVE  Sent(p, i, t, u)
  <1>1. link[p] \in Seq(AppendEntryType)
    BY DEF TypeOK
  <1>2. CASE p = <<j, s>>
    <2>1. link'[p] = Tail(link[p]) /\ link[p] # <<>>
      BY <1>2 DEF Received, TypeOK
    <2>2. /\ Len(link'[p]) = Len(link[p]) - 1
          /\ \A k \in 1..Len(link'[p]) : link'[p][k] = link[p][k + 1]
      BY <1>1, <2>1
    <2>3. PICK k \in 1..Len(link'[p]) :
              /\ link'[p][k].entry
              /\ link'[p][k].pindex + 1 = i /\ link'[p][k].term = t
              /\ link'[p][k].pterm = u
      BY DEF Sent
    <2>4. k + 1 \in 1..Len(link[p])
      BY <1>1, <2>2, <2>3
    <2>5. QED
      BY <2>2, <2>3, <2>4 DEF Sent
  <1>3. CASE p # <<j, s>>
    <2>1. link'[p] = link[p]
      BY <1>3 DEF Received, TypeOK
    <2>2. QED
      BY <2>1 DEF Sent
  <1>4. QED
    BY <1>2, <1>3

\* Sending an append entry makes the link it carries and no other.
LEMMA BroadcastSent ==
    ASSUME TypeOK, NEW s, NEW R, NEW ae \in AppendEntryType,
           link' = Broadcast(s, R, ae),
           NEW p \in Pairs, NEW i, NEW t, NEW u, Sent(p, i, t, u)'
    PROVE  \/ Sent(p, i, t, u)
           \/ ae.entry /\ ae.pindex + 1 = i /\ ae.term = t /\ ae.pterm = u
  <1>1. link[p] \in Seq(AppendEntryType)
    BY DEF TypeOK
  <1>2. link'[p] = Append(link[p], ae) \/ link'[p] = link[p]
    BY DEF Broadcast
  <1>3. PICK k \in 1..Len(link'[p]) :
            /\ link'[p][k].entry
            /\ link'[p][k].pindex + 1 = i /\ link'[p][k].term = t
            /\ link'[p][k].pterm = u
    BY DEF Sent
  <1>4. CASE link'[p] = link[p]
    BY <1>3, <1>4 DEF Sent
  <1>5. CASE link'[p] = Append(link[p], ae)
    <2>1. \/ k \in 1..Len(link[p]) /\ link'[p][k] = link[p][k]
          \/ link'[p][k] = ae
      BY <1>1, <1>3, <1>5
    <2>2. QED
      BY <1>3, <2>1 DEF Sent
  <1>6. QED
    BY <1>2, <1>4, <1>5

-----------------------------------------------------------------------------
(* The two kinds of steps *)

\* A server that becomes a candidate does so in a term above its own.
CandidatesNew ==
    \A c \in Server : state'[c] = "Candidate" =>
        \/ state[c] = "Candidate" /\ term'[c] = term[c]
        \/ term'[c] > term[c]

\* No link is made, and a leader was one before, with the same log length.
QuietLog ==
    /\ \A i, t, u \in Nat : Follows(i, t, u)' => Follows(i, t, u)
    /\ CandidatesNew
    /\ \A s \in Server : state'[s] = "Leader" =>
           state[s] = "Leader" /\ term'[s] = term[s] /\ pindex(s)' = pindex(s)

\* s, from now on or already leader, adds one entry to its log and sends it.
Sends(s) ==
    /\ \A i, t, u \in Nat : Follows(i, t, u)' =>
           \/ Follows(i, t, u)
           \/ i = pindex(s) + 1 /\ t = term[s] /\ u = pterm(s)
    /\ CandidatesNew
    /\ \A p \in Server \ {s} : state'[p] = state[p] /\ pindex(p)' = pindex(p)
    /\ state[s] \in {"Candidate", "Leader"} /\ state'[s] = "Leader"
    /\ term' = term /\ pindex(s)' = pindex(s) + 1

\* Links that are in no log and no append entry are nowhere.
LEMMA QuietLinks ==
    ASSUME TypeOK, TypeOK',
           \A s \in Server : \A i, t, u \in Nat :
               Stored(s, i, t, u)' => Follows(i, t, u),
           \A p \in Pairs : \A i, t, u \in Nat :
               Sent(p, i, t, u)' => Follows(i, t, u)
    PROVE  \A i, t, u \in Nat : Follows(i, t, u)' => Follows(i, t, u)
  BY DEF Follows

\* Logs and append entries that stay as they are keep their links.
LEMMA SameStored ==
    ASSUME NEW s \in Server, wal'[s] = wal[s], NEW i, NEW t, NEW u, Stored(s, i, t, u)'
    PROVE  Stored(s, i, t, u) /\ Follows(i, t, u)
  BY DEF Stored, pindex, Follows

\* The same of the append entries on a link that stays as it is.
LEMMA SameSent ==
    ASSUME NEW p \in Pairs, link'[p] = link[p], NEW i, NEW t, NEW u, Sent(p, i, t, u)'
    PROVE  Sent(p, i, t, u) /\ Follows(i, t, u)
  BY DEF Sent, Follows

\* A leader that stores and sends an entry makes the one link.
LEMMA SendLinks ==
    ASSUME TypeOK, TypeOK', NEW s \in Server, NEW rest, SendEntry(s, rest)
    PROVE  /\ \A i, t, u \in Nat : Follows(i, t, u)' =>
                  \/ Follows(i, t, u)
                  \/ i = pindex(s) + 1 /\ t = term[s] /\ u = pterm(s)
           /\ pindex(s)' = pindex(s) + 1
           /\ \A p \in Server \ {s} : pindex(p)' = pindex(p)
  <1> DEFINE e == [term |-> term[s], lterm |-> term[s], commit |-> commit[s]]
             n == Len(wal[s])
  <1>1. /\ wal[s] \in Seq(Entry) /\ e \in Entry /\ n \in Nat
        /\ wal'[s] = Append(wal[s], e)
        /\ \A p \in Server \ {s} : wal'[p] = wal[p]
    BY DEF SendEntry, TypeOK, Entry
  <1> HIDE DEF e
  <1>2. /\ Len(wal'[s]) = n + 1 /\ wal'[s][n + 1] = e
        /\ \A k \in 1..n : wal'[s][k] = wal[s][k]
    BY <1>1
  <1>3. ASSUME NEW i \in Nat, NEW t \in Nat, NEW u \in Nat, NEW p \in Server,
               Stored(p, i, t, u)'
        PROVE  \/ Follows(i, t, u)
               \/ i = pindex(s) + 1 /\ t = term[s] /\ u = pterm(s)
    <2>1. CASE p # s
      BY <1>1, <1>3, <2>1, SameStored
    <2>2. CASE p = s
      <3>1. /\ i \in 1..(n + 1) /\ wal'[s][i].term = t
            /\ TermAt(wal'[s], i - 1) = u
        BY <1>2, <1>3, <2>2 DEF Stored, pindex
      <3>2. TermAt(wal'[s], i - 1) = TermAt(wal[s], i - 1)
        BY <1>1, <1>2, <3>1 DEF TermAt
      <3>3. CASE i = n + 1
        <4>1. t = term[s]
          BY <1>2, <3>1, <3>3 DEF e
        <4>2. i - 1 = n /\ u = TermAt(wal[s], n)
          BY <1>1, <3>1, <3>2, <3>3
        <4>3. QED
          BY <3>3, <4>1, <4>2 DEF pindex, pterm
      <3>4. CASE i \in 1..n
        BY <1>2, <3>1, <3>2, <3>4 DEF Stored, Follows, pindex
      <3>5. QED
        BY <1>1, <3>1, <3>3, <3>4
    <2>3. QED
      BY <2>1, <2>2
  <1>4. PICK R : link' = Broadcast(s, R, BuildAppendEntry(s, TRUE))
    BY DEF SendEntry
  <1>5. BuildAppendEntry(s, TRUE) \in AppendEntryType
    BY BuildType
  <1>6. ASSUME NEW i \in Nat, NEW t \in Nat, NEW u \in Nat, NEW p \in Pairs,
               Sent(p, i, t, u)'
        PROVE  \/ Follows(i, t, u)
               \/ i = pindex(s) + 1 /\ t = term[s] /\ u = pterm(s)
    <2> DEFINE ae == BuildAppendEntry(s, TRUE)
    <2>1. ae.pindex = pindex(s) /\ ae.term = term[s] /\ ae.pterm = pterm(s)
      BY DEF BuildAppendEntry, AppendEntry
    <2> HIDE DEF ae
    <2>2. \/ Sent(p, i, t, u)
          \/ ae.pindex + 1 = i /\ ae.term = t /\ ae.pterm = u
      BY <1>4, <1>5, <1>6, BroadcastSent DEF ae
    <2>3. QED
      BY <2>1, <2>2 DEF Follows
  <1>7. \A i, t, u \in Nat : Follows(i, t, u)' =>
                  \/ Follows(i, t, u)
                  \/ i = pindex(s) + 1 /\ t = term[s] /\ u = pterm(s)
    BY <1>3, <1>6 DEF Follows
  <1>8. QED
    BY <1>1, <1>2, <1>7 DEF pindex

\* No server changes its role, or one becomes a follower; only its log changes.
RolesKept ==
    \/ UNCHANGED <<state, term, wal>>
    \/ \E s \in Server :
           /\ state'[s] = "Follower"
           /\ \A p \in Server \ {s} :
                  state'[p] = state[p] /\ term'[p] = term[p] /\ wal'[p] = wal[p]

\* A step that keeps the roles and makes no link is quiet.
LEMMA QuietRoles ==
    ASSUME RolesKept, \A i, t, u \in Nat : Follows(i, t, u)' => Follows(i, t, u)
    PROVE  QuietLog
  <1>1. CandidatesNew
    BY DEF RolesKept, CandidatesNew
  <1>2. \A s \in Server : state'[s] = "Leader" =>
            state[s] = "Leader" /\ term'[s] = term[s] /\ pindex(s)' = pindex(s)
    BY DEF RolesKept, pindex
  <1>3. QED
    BY <1>1, <1>2 DEF QuietLog

\* stepdownLocked keeps the roles of the others.
LEMMA StepdownRoles ==
    ASSUME TypeOK, NEW s \in Server, Stepdown(s),
           \A p \in Server \ {s} : term'[p] = term[p] /\ wal'[p] = wal[p]
    PROVE  RolesKept
  BY DEF TypeOK, Stepdown, RolesKept

\* Logs stay, and what is sent stays or is without an entry.
LEMMA NoLinkSent ==
    ASSUME TypeOK, TypeOK', UNCHANGED wal,
           \/ UNCHANGED link
           \/ \E s, R, ae : /\ ae \in AppendEntryType /\ ~ae.entry
                            /\ link' = Broadcast(s, R, ae)
    PROVE  \A i, t, u \in Nat : Follows(i, t, u)' => Follows(i, t, u)
  <1>1. ASSUME NEW i \in Nat, NEW t \in Nat, NEW u \in Nat, NEW s \in Server,
               Stored(s, i, t, u)'
        PROVE  Follows(i, t, u)
    BY <1>1, SameStored
  <1>2. ASSUME NEW i \in Nat, NEW t \in Nat, NEW u \in Nat, NEW p \in Pairs,
               Sent(p, i, t, u)'
        PROVE  Follows(i, t, u)
    <2>1. CASE UNCHANGED link
      BY <1>2, <2>1, SameSent
    <2>2. CASE \E s, R, ae : /\ ae \in AppendEntryType /\ ~ae.entry
                            /\ link' = Broadcast(s, R, ae)
      <3>1. PICK s, R, ae : /\ ae \in AppendEntryType /\ ~ae.entry
                            /\ link' = Broadcast(s, R, ae)
        BY <2>2
      <3>2. Sent(p, i, t, u)
        BY <1>2, <3>1, BroadcastSent
      <3>3. QED
        BY <3>2 DEF Follows
    <2>3. QED
      BY <2>1, <2>2
  <1>3. QED
    BY <1>1, <1>2, QuietLinks

\* The timers, proposals and crashes of a server.
LEMMA ServerStepLog ==
    ASSUME TypeOK, TypeOK', NEW s \in Server, ServerStep(s)
    PROVE  QuietLog \/ Sends(s)
  <1>1. CASE SwitchToCandidate(s)
    <2>1. UNCHANGED <<wal, link>>
      BY <1>1 DEF SwitchToCandidate, logVars
    <2>2. \A i, t, u \in Nat : Follows(i, t, u)' => Follows(i, t, u)
      BY <2>1, NoLinkSent
    <2>3. /\ state'[s] = "Candidate" /\ term'[s] = term[s] + 1
          /\ \A p \in Server \ {s} : state'[p] = state[p] /\ term'[p] = term[p]
      BY <1>1 DEF SwitchToCandidate, TypeOK
    <2>4. CandidatesNew
      <3>1. term[s] \in Nat
        BY DEF TypeOK
      <3>2. term'[s] > term[s]
        BY <2>3, <3>1
      <3>3. QED
        BY <2>3, <3>2 DEF CandidatesNew
    <2>5. \A p \in Server : state'[p] = "Leader" =>
              state[p] = "Leader" /\ term'[p] = term[p] /\ pindex(p)' = pindex(p)
      BY <2>1, <2>3 DEF pindex
    <2>6. QED
      BY <2>2, <2>4, <2>5 DEF QuietLog
  <1>2. CASE CatchupStalled(s)
    <2>1. UNCHANGED <<state, term, wal, link>>
      BY <1>2 DEF CatchupStalled, ballotVars, logVars
    <2>2. QED
      BY <2>1, NoLinkSent, QuietRoles DEF RolesKept
  <1>3. CASE Propose(s)
    <2>1. SendEntry(s, msgs) /\ state[s] = "Leader" /\ UNCHANGED <<state, term>>
      BY <1>3 DEF Propose, ballotVars
    <2>2. CandidatesNew
      BY <2>1 DEF CandidatesNew
    <2>3. QED
      BY <2>1, <2>2, SendLinks DEF Sends
  <1>4. CASE SendHeartbeat(s)
    <2>1. UNCHANGED <<state, term, wal>>
      BY <1>4 DEF SendHeartbeat, ballotVars, logVars
    <2>2. PICK R : link' = Broadcast(s, R, BuildAppendEntry(s, FALSE))
      BY <1>4 DEF SendHeartbeat
    <2>3. /\ BuildAppendEntry(s, FALSE) \in AppendEntryType
          /\ ~BuildAppendEntry(s, FALSE).entry
      BY BuildType DEF BuildAppendEntry, AppendEntry
    <2>4. QED
      BY <2>1, <2>2, <2>3, NoLinkSent, QuietRoles DEF RolesKept
  <1>5. CASE LostQuorum(s)
    <2>1. Stepdown(s) /\ UNCHANGED <<term, wal, link>>
      BY <1>5 DEF LostQuorum, ballotVars, logVars
    <2>2. QED
      BY <2>1, NoLinkSent, StepdownRoles, QuietRoles
  <1>6. CASE Restart(s)
    <2>1. /\ Stepdown(s) /\ UNCHANGED link
          /\ \A p \in Server \ {s} : term'[p] = term[p] /\ wal'[p] = wal[p]
          /\ wal'[s] = wal[s] \/ wal'[s] = <<>>
      BY <1>6 DEF Restart, TypeOK
    <2>2. ASSUME NEW i \in Nat, NEW t \in Nat, NEW u \in Nat, NEW p \in Server,
                 Stored(p, i, t, u)'
          PROVE  Follows(i, t, u)
      <3>1. CASE wal'[p] = wal[p]
        BY <2>2, <3>1, SameStored
      <3>2. CASE wal'[p] = <<>>
        BY <2>2, <3>2 DEF Stored, pindex
      <3>3. QED
        BY <2>1, <3>1, <3>2
    <2>3. ASSUME NEW i \in Nat, NEW t \in Nat, NEW u \in Nat, NEW p \in Pairs,
                 Sent(p, i, t, u)'
          PROVE  Follows(i, t, u)
      BY <2>1, <2>3, SameSent
    <2>4. \A i, t, u \in Nat : Follows(i, t, u)' => Follows(i, t, u)
      BY <2>2, <2>3, QuietLinks
    <2>5. QED
      BY <2>1, <2>4, StepdownRoles, QuietRoles
  <1>7. QED
    BY <1>1, <1>2, <1>3, <1>4, <1>5, <1>6 DEF ServerStep

\* The handling of requests, votes and responses.
LEMMA MessageStepLog ==
    ASSUME TypeOK, TypeOK', NEW m \in msgs, MessageStep(m)
    PROVE  QuietLog \/ Sends(m.to)
  <1> DEFINE s == m.to
  <1>0. m \in Message /\ s \in Server /\ m.term \in Nat /\ term[s] \in Nat
    BY FieldTypes DEF TypeOK
  <1> HIDE DEF s
  <1>1. CASE RejectVoteRequest(m) \/ IgnoreVote(m) \/ IgnoreResponse(m)
    <2>1. UNCHANGED <<state, term, wal, link>>
      BY <1>1 DEF RejectVoteRequest, IgnoreVote, IgnoreResponse, ballotVars, logVars
    <2>2. QED
      BY <2>1, NoLinkSent, QuietRoles DEF RolesKept
  <1>2. CASE ProcessVoteRequest(m)
    <2>1. /\ UNCHANGED <<wal, link>> /\ m.term >= term[s]
          /\ term' = [term EXCEPT ![s] = m.term]
      BY <1>2 DEF ProcessVoteRequest, logVars, s
    <2>2. CASE m.term > term[s]
      <3>1. Stepdown(s)
        BY <1>2, <2>2 DEF ProcessVoteRequest, s
      <3>2. \A p \in Server \ {s} : term'[p] = term[p] /\ wal'[p] = wal[p]
        BY <1>0, <2>1 DEF TypeOK
      <3>3. QED
        BY <1>0, <2>1, <3>1, <3>2, NoLinkSent, StepdownRoles, QuietRoles
    <2>3. CASE ~(m.term > term[s])
      <3>1. UNCHANGED state
        BY <1>2, <2>3 DEF ProcessVoteRequest, s
      <3>2. m.term = term[s]
        BY <1>0, <2>1, <2>3
      <3>3. term' = term
        BY <1>0, <2>1, <3>2 DEF TypeOK
      <3>4. QED
        BY <2>1, <3>1, <3>3, NoLinkSent, QuietRoles DEF RolesKept
    <2>4. QED
      BY <2>2, <2>3
  <1>3. CASE CountVote(m)
    <2>1. UNCHANGED term /\ state[s] = "Candidate"
      BY <1>3 DEF CountVote, ballotVars, s
    <2>2. CASE Wins(m)
      <3>1. SendEntry(s, msgs \ {m}) /\ state' = [state EXCEPT ![s] = "Leader"]
        BY <1>3, <2>2 DEF CountVote, s
      <3>2. /\ state'[s] = "Leader"
            /\ \A p \in Server \ {s} : state'[p] = state[p]
        BY <1>0, <3>1 DEF TypeOK
      <3>3. CandidatesNew
        BY <2>1, <3>2 DEF CandidatesNew
      <3>4. Sends(s)
        BY <1>0, <2>1, <3>1, <3>2, <3>3, SendLinks DEF Sends
      <3>5. QED
        BY <3>4 DEF s
    <2>3. CASE ~Wins(m)
      <3>1. UNCHANGED <<state, wal, link>>
        BY <1>3, <2>3 DEF CountVote
      <3>2. QED
        BY <2>1, <3>1, NoLinkSent, QuietRoles DEF RolesKept
    <2>4. QED
      BY <2>2, <2>3
  <1>4. CASE HigherTermVote(m) \/ HigherTermResponse(m)
    <2>1. /\ Stepdown(s) /\ UNCHANGED <<wal, link>>
          /\ AdoptTerm(s, m.term) \/ UNCHANGED term
      BY <1>4 DEF HigherTermVote, HigherTermResponse, ballotVars, logVars, s
    <2>2. \A p \in Server \ {s} : term'[p] = term[p] /\ wal'[p] = wal[p]
      BY <1>0, <2>1 DEF AdoptTerm, TypeOK
    <2>3. QED
      BY <1>0, <2>1, <2>2, NoLinkSent, StepdownRoles, QuietRoles
  <1>5. CASE ProcessSuccess(m)
    <2>1. UNCHANGED <<state, term, wal>>
      BY <1>5 DEF ProcessSuccess, ballotVars
    <2> DEFINE ae == [BuildAppendEntry(s, FALSE) EXCEPT !.commit = m.index]
    <2>2. UNCHANGED link \/ \E R : link' = Broadcast(s, R, ae)
      BY <1>5 DEF ProcessSuccess, s
    <2>3. ae \in AppendEntryType /\ ~ae.entry
      <3>1. m.index \in Nat
        BY <1>0, <1>5, FieldTypes DEF ProcessSuccess
      <3>2. BuildAppendEntry(s, FALSE) \in AppendEntryType
        BY <1>0, BuildType
      <3>3. ~BuildAppendEntry(s, FALSE).entry
        BY DEF BuildAppendEntry, AppendEntry
      <3>4. QED
        BY <3>1, <3>2, <3>3 DEF AppendEntryType
    <2> HIDE DEF ae
    <2>4. QED
      BY <2>1, <2>2, <2>3, NoLinkSent, QuietRoles DEF RolesKept
  <1>6. CASE CatchupFollower(m)
    <2>1. /\ UNCHANGED <<term, wal, link>>
          /\ Stepdown(s) \/ UNCHANGED state
      BY <1>6 DEF CatchupFollower, ballotVars, logVars, s
    <2>2. RolesKept
      BY <1>0, <2>1, StepdownRoles DEF RolesKept
    <2>3. QED
      BY <2>1, <2>2, NoLinkSent, QuietRoles
  <1>7. QED
    BY <1>1, <1>2, <1>3, <1>4, <1>5, <1>6 DEF MessageStep

\* runCatchup sends an entry with the one before it in its own log.
LEMMA RunCatchupLog ==
    ASSUME TypeOK, TypeOK', NEW s \in Server, NEW p \in Server, RunCatchup(s, p)
    PROVE  QuietLog
  <1> DEFINE job == progress[<<s, p>>]
             t0 == IF job.term # 0 THEN job.term ELSE term[s]
             next == job.next + 1
             e == wal[s][next]
             ae == AppendEntry(e.term, t0, e.commit, TermAt(wal[s], next - 1),
                               next - 1, TRUE, job.inbox)
  <1>1. UNCHANGED <<state, term, wal>>
    BY DEF RunCatchup, ballotVars, logVars
  <1>2. UNCHANGED link \/ (next <= pindex(s) /\ link' = Broadcast(s, {p}, ae))
    BY DEF RunCatchup
  <1>3. job \in [inbox : Nat, next : Nat, term : Nat, last : Nat]
    BY DEF TypeOK, Pairs
  <1>4. next \in Nat \ {0} /\ job.inbox \in Nat /\ t0 \in Nat
    <2>1. term[s] \in Nat
      BY DEF TypeOK
    <2>2. QED
      BY <1>3, <2>1
  <1>5. CASE UNCHANGED link
    BY <1>1, <1>5, NoLinkSent, QuietRoles DEF RolesKept
  <1>6. CASE next <= pindex(s) /\ link' = Broadcast(s, {p}, ae)
    <2> HIDE DEF job, t0, next
    <2>1. /\ next \in 1..pindex(s) /\ next \in 1..Len(wal[s])
          /\ next - 1 \in 0..Len(wal[s]) /\ wal[s] \in Seq(Entry)
      BY <1>4, <1>6 DEF pindex, TypeOK
    <2>2. e \in Entry
      BY <2>1
    <2>3. e.term \in Nat /\ e.commit \in Nat /\ TermAt(wal[s], next - 1) \in Nat
      BY <2>1, <2>2, TermAtType DEF Entry
    <2>4. next - 1 \in Nat
      BY <2>1
    <2>5. /\ ae \in AppendEntryType /\ ae.pindex + 1 = next /\ ae.term = e.term
          /\ ae.pterm = TermAt(wal[s], next - 1)
      <3> HIDE DEF e
      <3>1. QED
        BY <1>4, <2>3, <2>4 DEF AppendEntry, AppendEntryType
    <2>6. Follows(next, e.term, TermAt(wal[s], next - 1))
      BY <2>1 DEF Follows, Stored
    <2> HIDE DEF e, ae
    <2>7. ASSUME NEW i \in Nat, NEW t \in Nat, NEW u \in Nat, NEW q \in Server,
                 Stored(q, i, t, u)'
          PROVE  Follows(i, t, u)
      BY <1>1, <2>7, SameStored
    <2>8. ASSUME NEW i \in Nat, NEW t \in Nat, NEW u \in Nat, NEW q \in Pairs,
                 Sent(q, i, t, u)'
          PROVE  Follows(i, t, u)
      <3>1. Sent(q, i, t, u) \/ (ae.pindex + 1 = i /\ ae.term = t /\ ae.pterm = u)
        BY <1>6, <2>5, <2>8, BroadcastSent
      <3>2. CASE Sent(q, i, t, u)
        BY <3>2 DEF Follows
      <3>3. CASE ae.pindex + 1 = i /\ ae.term = t /\ ae.pterm = u
        BY <2>5, <2>6, <3>3
      <3>4. QED
        BY <3>1, <3>2, <3>3
    <2>9. QED
      BY <1>1, <2>7, <2>8, QuietLinks, QuietRoles DEF RolesKept
  <1>7. QED
    BY <1>2, <1>5, <1>6

\* The log of a server that accepts ae has no link but its own ones and that of
\* ae: the entry before ae has the term ae expects.
LEMMA AcceptedStored ==
    ASSUME TypeOK, FirstAfterNothing, NEW j \in Server, NEW s \in Server,
           AcceptEntry(j, s), NEW i \in Nat, NEW t \in Nat, NEW u \in Nat,
           Stored(s, i, t, u)'
    PROVE  Follows(i, t, u)
  <1> DEFINE ae == Head(link[<<j, s>>])
             n == ae.pindex
             e == [term |-> ae.term, lterm |-> ae.lterm, commit |-> ae.commit]
  <1>1. ae \in AppendEntryType /\ <<j, s>> \in Pairs /\ link[<<j, s>>] # <<>>
    BY ReceivedType DEF AcceptEntry, Pairs
  <1>2. link[<<j, s>>] \in Seq(AppendEntryType) /\ wal[s] \in Seq(Entry)
    BY <1>1 DEF TypeOK
  <1>3. 1 \in 1..Len(link[<<j, s>>]) /\ ae = link[<<j, s>>][1]
    BY <1>1, <1>2
  <1>4. wal'[s] = AcceptedLog(s, ae) /\ n <= pindex(s) /\ ~Conflicts(s, ae)
    BY DEF AcceptEntry, TypeOK
  <1> HIDE DEF ae
  <1>5. n \in 0..Len(wal[s]) /\ ae.term \in Nat /\ ae.pterm \in Nat /\ ae.entry \in BOOLEAN
    BY <1>1, <1>2, <1>4 DEF AppendEntryType, pindex
  <1>6. ae.entry => Follows(n + 1, ae.term, ae.pterm)
    BY <1>1, <1>3 DEF Follows, Sent
  <1>7. wal'[s] = SubSeq(wal[s], 1, n) \o (IF ae.entry THEN <<e>> ELSE <<>>)
    BY <1>4 DEF AcceptedLog
  <1> HIDE DEF e, n
  <1>8. CASE ~ae.entry
    <2>1. wal'[s] = SubSeq(wal[s], 1, n)
      BY <1>2, <1>5, <1>7, <1>8
    <2>2. Stored(s, i, t, u)
      BY <1>5, <2>1, PrefixStored
    <2>3. QED
      BY <2>2 DEF Follows
  <1>9. CASE ae.entry
    <2>1. wal'[s] = SubSeq(wal[s], 1, n) \o <<e>>
      BY <1>7, <1>9
    <2>2. /\ Len(wal'[s]) = n + 1 /\ wal'[s][n + 1] = e
          /\ \A k \in 1..n : wal'[s][k] = wal[s][k]
      <3> DEFINE head == SubSeq(wal[s], 1, n)
      <3>1. head \in Seq(Entry) /\ Len(head) = n /\ \A k \in 1..n : head[k] = wal[s][k]
        BY <1>2, <1>5
      <3>2. e \in Entry
        BY <1>1 DEF e, Entry, AppendEntryType
      <3> HIDE DEF head
      <3>3. wal'[s] = head \o <<e>>
        BY <2>1 DEF head
      <3>4. QED
        BY <1>5, <3>1, <3>2, <3>3
    <2>3. /\ i \in 1..(n + 1) /\ wal'[s][i].term = t
          /\ TermAt(wal'[s], i - 1) = u
      BY <2>2 DEF Stored, pindex
    <2>4. TermAt(wal'[s], i - 1) = TermAt(wal[s], i - 1)
      BY <1>5, <2>2, <2>3 DEF TermAt
    <2>5. CASE i \in 1..n
      <3>1. i \in 1..pindex(s) /\ wal[s][i].term = t
        BY <1>5, <2>2, <2>3, <2>5 DEF pindex
      <3>2. QED
        BY <2>3, <2>4, <3>1 DEF Stored, Follows
    <2>6. CASE i = n + 1
      <3>1. t = ae.term
        BY <2>2, <2>3, <2>6 DEF e
      <3>2. i - 1 = n /\ u = TermAt(wal[s], n)
        BY <1>5, <2>3, <2>4, <2>6
      <3>3. CASE n = 0
        <4>1. ae.pterm = 0
          BY <1>5, <1>6, <1>9, <3>3 DEF FirstAfterNothing
        <4>2. u = 0
          BY <3>2, <3>3 DEF TermAt
        <4>3. QED
          BY <1>6, <1>9, <2>6, <3>1, <4>1, <4>2
      <3>4. CASE n # 0
        <4>1. wal[s][n].term = ae.pterm
          BY <1>4, <3>4 DEF Conflicts, n
        <4>2. u = ae.pterm
          BY <3>2, <3>4, <4>1 DEF TermAt
        <4>3. QED
          BY <1>6, <1>9, <2>6, <3>1, <4>2
      <3>5. QED
        BY <3>3, <3>4
    <2>7. QED
      BY <1>5, <2>3, <2>5, <2>6
  <1>10. QED
    BY <1>5, <1>8, <1>9

\* Every branch of processAppendEntry.
LEMMA ProcessAppendEntryLog ==
    ASSUME TypeOK, TypeOK', FirstAfterNothing, NEW j \in Server, NEW s \in Server,
           ProcessAppendEntry(j, s)
    PROVE  QuietLog
  <1> DEFINE ae == Head(link[<<j, s>>])
  <1>1. link[<<j, s>>] # <<>> /\ link' = Received(j, s)
    BY DEF ProcessAppendEntry, RejectAppendEntry, IgnoreCatchupEntry, AwaitCatchup,
           AlreadyCommitted, TruncateConflict, MissingEntries, AcceptEntry
  <1>2. ae \in AppendEntryType
    BY <1>1, ReceivedType
  <1> HIDE DEF ae
  <1>3. \/ UNCHANGED <<state, term, wal>>
        \/ /\ FollowTerm(s, ae)
           /\ \A p \in Server \ {s} : wal'[p] = wal[p]
    <2>1. CASE RejectAppendEntry(j, s)
      BY <2>1 DEF RejectAppendEntry, ballotVars, logVars
    <2>2. CASE IgnoreCatchupEntry(j, s)
      BY <2>2 DEF IgnoreCatchupEntry, ballotVars, logVars, ae
    <2>3. CASE AwaitCatchup(j, s) \/ AlreadyCommitted(j, s) \/ MissingEntries(j, s)
      BY <2>3 DEF AwaitCatchup, AlreadyCommitted, MissingEntries, logVars, ae
    <2>4. CASE TruncateConflict(j, s)
      BY <2>4 DEF TruncateConflict, TypeOK, ae
    <2>5. CASE AcceptEntry(j, s)
      <3>1. /\ FollowTerm(s, ae)
            /\ wal' = [wal EXCEPT ![s] = AcceptedLog(s, ae)]
        BY <2>5 DEF AcceptEntry, ae
      <3>2. QED
        BY <3>1 DEF TypeOK
    <2>6. QED
      BY <2>1, <2>2, <2>3, <2>4, <2>5 DEF ProcessAppendEntry
  <1>4. RolesKept
    <2>1. CASE FollowTerm(s, ae) /\ \A p \in Server \ {s} : wal'[p] = wal[p]
      <3>1. Stepdown(s) /\ \A p \in Server \ {s} : term'[p] = term[p]
        BY <2>1 DEF FollowTerm, TypeOK
      <3>2. QED
        BY <2>1, <3>1, StepdownRoles
    <2>2. QED
      BY <1>3, <2>1 DEF RolesKept
  <1>5. ASSUME NEW i \in Nat, NEW t \in Nat, NEW u \in Nat, NEW p \in Server,
               Stored(p, i, t, u)'
        PROVE  Follows(i, t, u)
    <2>1. CASE wal'[p] = wal[p]
      BY <1>5, <2>1, SameStored
    <2>2. CASE p = s /\ TruncateConflict(j, s)
      <3>1. /\ ae.pindex <= Len(wal[s]) /\ ae.pindex \in Nat
            /\ wal'[s] = SubSeq(wal[s], 1, ae.pindex - 1) /\ wal[s] \in Seq(Entry)
        BY <1>2, <2>2 DEF TruncateConflict, Conflicts, pindex, AppendEntryType, TypeOK, ae
      <3>2. CASE ae.pindex = 0
        <4>1. wal'[s] = <<>>
          BY <3>1, <3>2
        <4>2. QED
          BY <1>5, <2>2, <4>1 DEF Stored, pindex
      <3>3. CASE ae.pindex # 0
        <4>1. ae.pindex - 1 \in 0..Len(wal[s])
          BY <3>1, <3>3
        <4>2. Stored(s, i, t, u)
          BY <1>5, <2>2, <3>1, <4>1, PrefixStored
        <4>3. QED
          BY <4>2 DEF Follows
      <3>4. QED
        BY <3>2, <3>3
    <2>3. CASE p = s /\ AcceptEntry(j, s)
      BY <1>5, <2>3, AcceptedStored
    <2>4. CASE UNCHANGED wal
      BY <2>1, <2>4
    <2>5. CASE ~TruncateConflict(j, s) /\ ~AcceptEntry(j, s)
      <3>1. UNCHANGED wal
        BY <2>5 DEF ProcessAppendEntry, RejectAppendEntry, IgnoreCatchupEntry,
           AwaitCatchup, AlreadyCommitted, MissingEntries, logVars
      <3>2. QED
        BY <2>4, <3>1
    <2>6. QED
      BY <1>3, <2>1, <2>2, <2>3, <2>4, <2>5
  <1>6. ASSUME NEW i \in Nat, NEW t \in Nat, NEW u \in Nat, NEW p \in Pairs,
               Sent(p, i, t, u)'
        PROVE  Follows(i, t, u)
    <2>1. Sent(p, i, t, u)
      BY <1>1, <1>6, ReceivedSent
    <2>2. QED
      BY <2>1 DEF Follows
  <1>7. QED
    BY <1>4, <1>5, <1>6, QuietLinks, QuietRoles

\* Every step is of one of the two kinds.
LEMMA LogSteps ==
    ASSUME TypeOK, TypeOK', FirstAfterNothing, [Next]_vars
    PROVE  QuietLog \/ \E s \in Server : Sends(s)
  <1>1. CASE UNCHANGED vars
    <2>1. UNCHANGED <<state, term, wal, link>>
      BY <1>1 DEF vars, ballotVars, logVars
    <2>2. QED
      BY <2>1, NoLinkSent, QuietRoles DEF RolesKept
  <1>2. ASSUME NEW s \in Server, ServerStep(s)
        PROVE  QuietLog \/ \E p \in Server : Sends(p)
    BY <1>2, ServerStepLog
  <1>3. ASSUME NEW m \in msgs, MessageStep(m)
        PROVE  QuietLog \/ \E p \in Server : Sends(p)
    <2>1. m.to \in Server
      BY FieldTypes DEF TypeOK
    <2>2. QED
      BY <1>3, <2>1, MessageStepLog
  <1>4. ASSUME NEW s \in Server, NEW p \in Server,
               RunCatchup(s, p) \/ ProcessAppendEntry(s, p)
        PROVE  QuietLog
    BY <1>4, RunCatchupLog, ProcessAppendEntryLog
  <1>5. QED
    BY <1>1, <1>2, <1>3, <1>4 DEF Next

-----------------------------------------------------------------------------
(* The invariant is kept *)

\* A leader was elected in its term.
LEMMA LeaderWasElected ==
    ASSUME TypeOK, ElectionInv, NEW s \in Server, state[s] = "Leader"
    PROVE  Elected(s, term[s])
  <1> DEFINE Q == votes[s] \cup emptyVotes[s]
  <1>1. Q \in SUBSET Server /\ 2 * Cardinality(Q) > Cardinality(Server) /\ s \in Q
    BY DEF TypeOK, ElectionInv, LeaderElected
  <1>2. term[s] \in VisibleTerms /\ term[s] \in Nat
    BY DEF VisibleTerms, TypeOK
  <1>3. ASSUME NEW q \in Q
        PROVE  /\ tav[q].term >= term[s]
               /\ tav[q].term = term[s] => tav[q].vote = s
               /\ \A d \in Server \ {s} : ~Voted(q, d, term[s])
    <2>1. q \in Server /\ Voted(q, s, term[s])
      BY <1>1, <1>3 DEF Voted
    <2>2. tav[q].term > term[s] \/ tav[q] = [term |-> term[s], vote |-> s]
      BY <1>2, <2>1 DEF ElectionInv, VoteKept
    <2>3. tav[q].term \in Nat
      BY <2>1 DEF TypeOK
    <2>4. \A d \in Server \ {s} : ~Voted(q, d, term[s])
      BY <1>2, <2>1 DEF ElectionInv, VoteOnce
    <2>5. QED
      BY <1>2, <2>2, <2>3, <2>4
  <1> HIDE DEF Q
  <1>4. QED
    BY <1>1, <1>3 DEF Elected

\* The same of the state after a step.
LEMMA LeaderWasElectedNext ==
    (TypeOK /\ ElectionInv => \A s \in Server : state[s] = "Leader" => Elected(s, term[s]))'
  <1>1. TypeOK /\ ElectionInv => \A s \in Server : state[s] = "Leader" => Elected(s, term[s])
    BY LeaderWasElected
  <1>2. QED
    BY <1>1, PTL

\* Nor are there two leaders of a term in the state after a step.
LEMMA ElectionSafeNext ==
    (TypeOK /\ ElectionInv => OneLeaderPerTerm)'
  BY ElectionSafe, PTL

\* Once a server was elected in a term, nothing changes that.
LEMMA ElectedStays ==
    ASSUME TypeOK, TypeOK', ElectionInv, BallotStep, CandidatesNew,
           NEW c \in Server, NEW t \in Nat, Elected(c, t)
    PROVE  Elected(c, t)'
  <1>1. PICK Q \in SUBSET Server :
           /\ 2 * Cardinality(Q) > Cardinality(Server)
           /\ \A q \in Q : /\ tav[q].term >= t
                           /\ tav[q].term = t => tav[q].vote = c
                           /\ \A d \in Server \ {c} : ~Voted(q, d, t)
    BY DEF Elected
  <1>2. \A p \in Server : /\ tav[p].term \in Nat /\ tav'[p].term \in Nat
                          /\ term[p] \in Nat /\ term'[p] \in Nat
    BY DEF TypeOK
  <1>3. \A p \in Server : tav'[p].term >= tav[p].term
    BY <1>2 DEF BallotStep, TavGrows
  <1>4. c # NoVote
    BY NoVoteAssumption
  <1>5. ASSUME NEW q \in Q
        PROVE  /\ tav'[q].term >= t
               /\ tav'[q].term = t => tav'[q].vote = c
               /\ \A d \in Server \ {c} : ~Voted(q, d, t)'
    <2>1. q \in Server
      BY <1>1
    <2>2. tav'[q].term >= t
      BY <1>1, <1>2, <1>3, <2>1
    <2>3. tav'[q].term = t => tav'[q].vote = c
      <3>1. SUFFICES ASSUME tav'[q].term = t PROVE tav'[q].vote = c
        OBVIOUS
      <3>2. tav[q].term = t /\ tav[q].vote = c
        BY <1>1, <1>2, <1>3, <2>1, <3>1
      <3>3. tav'[q] = tav[q]
        BY <1>2, <1>4, <2>1, <3>1, <3>2 DEF BallotStep, TavGrows
      <3>4. QED
        BY <3>2, <3>3
    <2>4. ASSUME NEW d \in Server \ {c}, Voted(q, d, t)'
          PROVE  FALSE
      <3>1. tav'[q] = [term |-> t, vote |-> d]
        BY <1>1, <2>1, <2>4 DEF BallotStep, VotesWritten
      <3>2. tav'[q].term = t /\ tav'[q].vote = d
        BY <3>1
      <3>3. QED
        BY <2>3, <2>4, <3>2
    <2>5. QED
      BY <2>2, <2>3, <2>4
  <1>6. tav'[c].term >= t
    BY <1>2, <1>3 DEF Elected
  <1>7. ~(state'[c] = "Candidate" /\ term'[c] = t)
    <2>1. tav[c].term <= term[c] /\ tav[c].term >= t
      BY FileNotAhead DEF ElectionInv, Elected
    <2>2. QED
      BY <1>2, <2>1 DEF CandidatesNew, Elected
  <1>8. QED
    BY <1>1, <1>5, <1>6, <1>7 DEF Elected

\* A server that has just won an election finds no entry of its term.
LEMMA WinnerFindsNothing ==
    ASSUME TypeOK, TypeOK', ElectionInv, BallotStep, CandidatesNew, TermsElected,
           NEW s \in Server, state[s] = "Candidate", state'[s] = "Leader",
           term'[s] = term[s], NEW i \in Nat, NEW u \in Nat, Follows(i, term[s], u)
    PROVE  FALSE
  <1> DEFINE t == term[s]
             Q == votes'[s] \cup emptyVotes'[s]
  <1>1. t \in Nat
    BY DEF TypeOK
  <1>2. PICK c \in Server : Elected(c, t)
    BY <1>1 DEF TermsElected
  <1>3. c # s
    BY <1>2 DEF Elected
  <1>4. Elected(c, t)'
    BY <1>1, <1>2, ElectedStays
  <1>5. PICK P \in SUBSET Server :
           /\ 2 * Cardinality(P) > Cardinality(Server)
           /\ \A q \in P : \A d \in Server \ {c} : ~Voted(q, d, t)'
    BY <1>4 DEF Elected
  <1>6. Q \in SUBSET Server /\ 2 * Cardinality(Q) > Cardinality(Server)
    BY DEF TypeOK, BallotStep, ElectionInv, LeaderElected
  <1>7. /\ IsFiniteSet(Server) /\ Cardinality(Server) \in Nat
        /\ IsFiniteSet(Q) /\ IsFiniteSet(P)
        /\ Cardinality(Q) \in Nat /\ Cardinality(P) \in Nat
    BY <1>5, <1>6, ServerAssumption, FS_Subset, FS_CardinalityType
  <1>8. Q \cap P # {}
    BY <1>5, <1>6, <1>7, FS_MajoritiesIntersect
  <1>9. PICK q \in Server : q \in Q /\ q \in P
    BY <1>6, <1>8
  <1>10. Voted(q, s, t)'
    BY <1>9 DEF Voted
  <1>11. QED
    BY <1>3, <1>5, <1>9, <1>10

\* Every entry is of an elected leader's term, after the step as well.
LEMMA TermsElectedStep ==
    ASSUME TypeOK, TypeOK', ElectionInv, BallotStep, TermsElected,
           QuietLog \/ \E s \in Server : Sends(s)
    PROVE  TermsElected'
  <1>1. CandidatesNew
    BY DEF QuietLog, Sends
  <1>2. SUFFICES ASSUME NEW i \in Nat, NEW t \in Nat, NEW u \in Nat, Follows(i, t, u)'
                 PROVE  \E c \in Server : Elected(c, t)'
    BY DEF TermsElected
  <1>3. CASE Follows(i, t, u)
    <2>1. PICK c \in Server : Elected(c, t)
      BY <1>3 DEF TermsElected
    <2>2. Elected(c, t)'
      BY <1>1, <2>1, ElectedStays
    <2>3. QED
      BY <2>2
  <1>4. CASE ~Follows(i, t, u)
    <2>1. PICK s \in Server : Sends(s)
      BY <1>2, <1>4 DEF QuietLog
    <2>2. t = term'[s] /\ state'[s] = "Leader"
      BY <1>2, <1>4, <2>1 DEF Sends
    <2>3. Elected(s, term[s])'
      BY <2>2, LeaderWasElectedNext DEF BallotStep
    <2>4. QED
      BY <2>2, <2>3
  <1>5. QED
    BY <1>3, <1>4

\* Every step keeps the invariant of the links.
LEMMA LogStep ==
    ASSUME TypeOK, TypeOK', ElectionInv, BallotStep, LogInv, [Next]_vars
    PROVE  LogInv'
  <1>1. QuietLog \/ \E s \in Server : Sends(s)
    BY LogSteps DEF LogInv
  <1>2. TermsElected'
    BY <1>1, TermsElectedStep DEF LogInv
  <1>3. CASE QuietLog
    <2>1. OnePredecessor'
      BY <1>3 DEF QuietLog, LogInv, OnePredecessor
    <2>2. FirstAfterNothing'
      BY <1>3 DEF QuietLog, LogInv, FirstAfterNothing
    <2>3. LeaderAhead'
      <3>1. SUFFICES ASSUME NEW s \in Server, state'[s] = "Leader",
                            NEW t \in Nat, t = term'[s],
                            NEW i \in Nat, NEW u \in Nat, Follows(i, t, u)'
                     PROVE  i <= pindex(s)'
        BY DEF LeaderAhead, TypeOK
      <3>2. state[s] = "Leader" /\ term'[s] = term[s] /\ pindex(s)' = pindex(s)
        BY <1>3, <3>1 DEF QuietLog
      <3>3. term[s] \in Nat
        BY DEF TypeOK
      <3>4. Follows(i, term[s], u)
        BY <1>3, <3>1, <3>2, <3>3 DEF QuietLog
      <3>5. QED
        BY <3>2, <3>4 DEF LogInv, LeaderAhead
    <2>4. QED
      BY <1>2, <2>1, <2>2, <2>3 DEF LogInv
  <1>4. ASSUME NEW s \in Server, Sends(s)
        PROVE  LogInv'
    <2>1. pindex(s) \in Nat /\ pterm(s) \in Nat /\ term[s] \in Nat
      BY LastType DEF TypeOK
    <2>2. ASSUME NEW i \in Nat, NEW u \in Nat, Follows(i, term[s], u)
          PROVE  i <= pindex(s)
      <3>1. CASE state[s] = "Leader"
        BY <2>2, <3>1 DEF LogInv, LeaderAhead
      <3>2. CASE state[s] = "Candidate"
        <4>1. /\ state'[s] = "Leader" /\ term'[s] = term[s] /\ CandidatesNew
              /\ TermsElected
          BY <1>4 DEF Sends, LogInv
        <4>2. QED
          BY <2>2, <3>2, <4>1, WinnerFindsNothing
      <3>3. QED
        BY <1>4, <3>1, <3>2 DEF Sends
    <2>3. OnePredecessor'
      <3>1. SUFFICES ASSUME NEW i \in Nat, NEW t \in Nat, NEW u \in Nat, NEW v \in Nat,
                            Follows(i, t, u)', Follows(i, t, v)'
                     PROVE  u = v
        BY DEF OnePredecessor
      <3>2. /\ Follows(i, t, u) \/ (i = pindex(s) + 1 /\ t = term[s] /\ u = pterm(s))
            /\ Follows(i, t, v) \/ (i = pindex(s) + 1 /\ t = term[s] /\ v = pterm(s))
        BY <1>4, <3>1 DEF Sends
      <3>3. CASE Follows(i, t, u) /\ Follows(i, t, v)
        BY <3>3 DEF LogInv, OnePredecessor
      <3>4. CASE i = pindex(s) + 1 /\ t = term[s]
        <4>1. ~Follows(i, t, u) /\ ~Follows(i, t, v)
          BY <2>1, <2>2, <3>4
        <4>2. QED
          BY <3>2, <4>1
      <3>5. QED
        BY <3>2, <3>3, <3>4
    <2>4. FirstAfterNothing'
      <3>1. SUFFICES ASSUME NEW t \in Nat, NEW u \in Nat, Follows(1, t, u)'
                     PROVE  u = 0
        BY DEF FirstAfterNothing
      <3>2. Follows(1, t, u) \/ (1 = pindex(s) + 1 /\ u = pterm(s))
        BY <1>4, <3>1 DEF Sends
      <3>3. CASE Follows(1, t, u)
        BY <3>3 DEF LogInv, FirstAfterNothing
      <3>4. CASE 1 = pindex(s) + 1 /\ u = pterm(s)
        BY <2>1, <3>4 DEF pterm, TermAt
      <3>5. QED
        BY <3>2, <3>3, <3>4
    <2>5. LeaderAhead'
      <3>1. SUFFICES ASSUME NEW p \in Server, state'[p] = "Leader",
                            NEW t \in Nat, t = term'[p],
                            NEW i \in Nat, NEW u \in Nat, Follows(i, t, u)'
                     PROVE  i <= pindex(p)'
        BY DEF LeaderAhead, TypeOK
      <3>2. term' = term /\ term[p] \in Nat
        BY <1>4 DEF Sends, TypeOK
      <3>3. \/ Follows(i, term[p], u)
            \/ i = pindex(s) + 1 /\ term[p] = term[s]
        BY <1>4, <3>1, <3>2 DEF Sends
      <3>4. CASE p = s
        <4>1. i <= pindex(s) \/ i = pindex(s) + 1
          BY <2>2, <3>3, <3>4
        <4>2. QED
          BY <1>4, <2>1, <3>4, <4>1 DEF Sends
      <3>5. CASE p # s
        <4>1. OneLeaderPerTerm'
          BY ElectionSafeNext DEF BallotStep
        <4>2. term[p] # term[s]
          BY <1>4, <3>1, <3>2, <3>5, <4>1 DEF OneLeaderPerTerm, Sends
        <4>3. state[p] = "Leader" /\ pindex(p)' = pindex(p)
          BY <1>4, <3>1, <3>5 DEF Sends
        <4>4. QED
          BY <3>3, <4>2, <4>3 DEF LogInv, LeaderAhead
      <3>6. QED
        BY <3>4, <3>5
    <2>6. QED
      BY <1>2, <2>3, <2>4, <2>5 DEF LogInv
  <1>5. QED
    BY <1>1, <1>3, <1>4

\* There are no links at the start.
LEMMA LogInit ==
    Init => LogInv
  <1>1. SUFFICES ASSUME Init PROVE LogInv
    OBVIOUS
  <1>2. \A s \in Server : wal[s] = <<>> /\ state[s] = "Follower"
    BY <1>1 DEF Init
  <1>3. \A p \in Pairs : link[p] = <<>>
    BY <1>1 DEF Init
  <1>4. \A i, t, u : ~Follows(i, t, u)
    BY <1>2, <1>3 DEF Follows, Stored, Sent, pindex
  <1>5. QED
    BY <1>2, <1>4
       DEF LogInv, OnePredecessor, FirstAfterNothing, LeaderAhead, TermsElected

\* From the last entry they agree on, two logs agree link by link to the first.
LEMMA LinksMatch ==
    TypeOK /\ LogInv => LogMatching
  <1>1. SUFFICES ASSUME TypeOK, LogInv, NEW s \in Server, NEW p \in Server,
                        NEW i \in 1..Min({pindex(s), pindex(p)}),
                        wal[s][i].term = wal[p][i].term, NEW k \in 1..i,
                        wal[s][k].term # wal[p][k].term
                 PROVE  FALSE
    BY DEF LogMatching
  <1>2. pindex(s) \in Nat /\ pindex(p) \in Nat
    BY <1>1, LastType
  <1>3. i \in Nat /\ i <= pindex(s) /\ i <= pindex(p) /\ k \in Nat
    BY <1>1, <1>2, PairMin
  <1> DEFINE T == {j \in Nat : j < i /\ wal[s][i - j].term # wal[p][i - j].term}
  <1>4. i - k \in T
    <2>1. i - (i - k) = k /\ i - k \in Nat /\ i - k < i
      BY <1>3
    <2>2. QED
      BY <1>1, <2>1
  <1>5. PICK j \in T : \A y \in T : j <= y
    <2>1. T \in SUBSET Nat /\ T # {}
      BY <1>4
    <2> HIDE DEF T
    <2>2. QED
      BY <2>1, LeastNumber
  <1>6. j \in Nat /\ j < i /\ wal[s][i - j].term # wal[p][i - j].term
    BY <1>5
  <1>7. j # 0
    BY <1>1, <1>3, <1>6
  <1> DEFINE n == i - j
  <1>8. /\ n \in Nat /\ n # 0 /\ n + 1 <= i /\ n + 1 = i - (j - 1) /\ n + 1 - 1 = n
        /\ j - 1 \in Nat /\ j - 1 < i
    BY <1>3, <1>6, <1>7
  <1>9. wal[s][n + 1].term = wal[p][n + 1].term
    <2>1. j - 1 \notin T
      BY <1>5, <1>6, <1>8
    <2>2. QED
      BY <1>8, <2>1
  <1> HIDE DEF T, n
  <1>10. /\ Stored(s, n + 1, wal[s][n + 1].term, wal[s][n].term)
         /\ Stored(p, n + 1, wal[s][n + 1].term, wal[p][n].term)
    BY <1>2, <1>3, <1>8, <1>9 DEF Stored, TermAt
  <1>11. /\ Follows(n + 1, wal[s][n + 1].term, wal[s][n].term)
         /\ Follows(n + 1, wal[s][n + 1].term, wal[p][n].term)
    BY <1>10 DEF Follows
  <1>12. /\ n + 1 \in Nat /\ wal[s][n + 1].term \in Nat
         /\ wal[s][n].term \in Nat /\ wal[p][n].term \in Nat
    BY <1>1, <1>11, FollowsType
  <1>13. wal[s][n].term = wal[p][n].term
    BY <1>1, <1>11, <1>12 DEF LogInv, OnePredecessor
  <1>14. QED
    BY <1>6, <1>13 DEF n

\* The invariant of the links holds of every replication group.
THEOREM LinksKept ==
    Spec => []LogInv
  <1>1. TypeOK /\ TypeOK' /\ ElectionInv /\ LogInv /\ [Next]_vars => LogInv'
    BY ElectionStep, LogStep
  <1>2. QED
    BY <1>1, LogInit, TypeCorrect, VotesOnDisk, PTL DEF Spec

\* The logs of a replication group match, whoever sent their entries: two logs
\* with an entry of the same term at an index are the same up to there.
THEOREM LogsMatch ==
    Spec => []LogMatching
  <1>1. QED
    BY LinksKept, LinksMatch, TypeCorrect, PTL

-----------------------------------------------------------------------------
(***************************************************************************)
(* Proofs about the acknowledgements of a replication group (Raft): as     *)
(* long as no server restarts, whatever a peer acknowledged to the leader  *)
(* of its term is still in its log, for every number of servers, terms,    *)
(* lost messages and catchups.                                             *)
(*                                                                         *)
(* A follower truncates its log at every append entry it takes, heartbeats *)
(* included, so the argument is about where append entries can point: the  *)
(* new ones of a leader come in the order of its log, and those of the     *)
(* catchup a follower waits for begin where its log was when it asked, and *)
(* no entry is acknowledged while it waits.                                *)
(***************************************************************************)

(* The inductive invariant *)

\* The last index an append entry covers.
End(ae) == IF ae.entry THEN ae.pindex + 1 ELSE ae.pindex

\* Every append entry is from a server that was elected in the term it carries;
\* a new one ends with an entry of that term.
Heard ==
    \A q \in Pairs : \A k \in 1..Len(link[q]) :
        LET ae == link[q][k] IN
        /\ Elected(q[1], ae.lterm)
        /\ ae.inbox <= inboxes
        /\ IsNew(ae) => IF ae.entry THEN ae.term = ae.lterm
                                    ELSE ae.pterm = ae.lterm /\ ae.pindex >= 1

\* So is what runCatchup noted when it began; its inbox was given out.
Jobs ==
    \A q \in Pairs : progress[q] # NoProgress =>
        /\ progress[q].inbox \in 1..inboxes
        /\ progress[q].term # 0 => Elected(q[1], progress[q].term)

\* A success is about an entry of the term of the server it is for, and from one
\* that has reached that term.
Answers ==
    \A m \in msgs : m.type = "response" =>
        /\ m.inbox <= inboxes
        /\ m.success => /\ Elected(m.to, m.term)
                        /\ term[m.from] >= m.term /\ m.index >= 1

\* Only a leader counts acks, and those of peers in its term or later ones.
Counted ==
    \A s \in Server : \A a \in acks[s] :
        state[s] = "Leader" /\ term[a[2]] >= term[s] /\ a[1] >= 1

\* The log of a leader ends with an entry of its term.
LeaderTail ==
    \A s \in Server : state[s] = "Leader" =>
        pindex(s) >= 1 /\ wal[s][pindex(s)].term = term[s]

\* ae is what the log of s has after ae's place.
Copies(s, ae) ==
    /\ ae.pindex <= pindex(s) /\ ae.pterm = TermAt(wal[s], ae.pindex)
    /\ ae.entry => ae.pindex < pindex(s) /\ ae.term = wal[s][ae.pindex + 1].term

\* What a leader sends in its term is what it has in its log.
OwnEntries ==
    \A s, p \in Server : state[s] = "Leader" =>
        \A k \in 1..Len(link[<<s, p>>]) :
            link[<<s, p>>][k].lterm = term[s] => Copies(s, link[<<s, p>>][k])

\* p acked index i to leader s in its term, and s counted it or will.
Acked(s, p, i) ==
    \/ <<i, p>> \in acks[s]
    \/ \E m \in msgs : /\ m.type = "response" /\ m.success
                       /\ m.from = p /\ m.to = s
                       /\ m.term = term[s] /\ m.index = i

\* Both have the entry, as long as they are in the same term.
AckedByBoth ==
    \A s, p \in Server : state[s] = "Leader" /\ term[p] = term[s] =>
        \A i \in Nat : Acked(s, p, i) =>
            /\ i \in 1..pindex(p) /\ wal[p][i].term = term[s]
            /\ i \in 1..pindex(s) /\ wal[s][i].term = term[s]

\* New append entries of a leader come in the order of its log, and after what
\* was acked.
InOrder ==
    \A s, p \in Server : state[s] = "Leader" =>
        \A k \in 1..Len(link[<<s, p>>]) :
            LET ae == link[<<s, p>>][k] IN
            IsNew(ae) /\ ae.lterm = term[s] =>
                /\ \A j \in 1..k - 1 :
                       LET be == link[<<s, p>>][j] IN
                       IsNew(be) /\ be.lterm = term[s] => End(be) <= ae.pindex
                /\ \A i \in Nat :
                       Acked(s, p, i) /\ term[p] = term[s] => i <= ae.pindex

\* Under inbox b, s is asked for, is about to send, or has sent p what is after
\* index n.
Offers(s, p, b, n) ==
    \/ \E m \in msgs : /\ m.type = "response" /\ ~m.success
                       /\ m.from = p /\ m.to = s /\ m.inbox = b /\ m.index = n
    \/ progress[<<s, p>>].inbox = b /\ progress[<<s, p>>].next = n
    \/ \E k \in 1..Len(link[<<s, p>>]) :
           link[<<s, p>>][k].inbox = b /\ link[<<s, p>>][k].pindex = n

\* The catchup p waits for begins after all that p has acked.
CatchupAfterAcks ==
    \A s, p \in Server :
        state[s] = "Leader" /\ term[p] = term[s] /\ catchup[p].inbox # 0 =>
            \A i, n \in Nat :
                Acked(s, p, i) /\ Offers(s, p, catchup[p].inbox, n) => i <= n

AckInv ==
    /\ Heard /\ Jobs /\ Answers /\ Counted /\ LeaderTail
    /\ OwnEntries /\ AckedByBoth /\ InOrder /\ CatchupAfterAcks

-----------------------------------------------------------------------------
(* What the steps do.  Each of these says where the new value of one part  *)
(* of the state can come from, unless a server restarts.                   *)

\* A leader was one before or has just won; its log stays or grows by an entry
\* of its term.
LeadersGrow ==
    \A s \in Server : state'[s] = "Leader" =>
        /\ term'[s] = term[s]
        /\ \/ state[s] = "Leader" /\ wal'[s] = wal[s]
           \/ /\ state[s] \in {"Candidate", "Leader"}
              /\ \E e \in Entry : e.term = term[s] /\ wal'[s] = Append(wal[s], e)

TermsGrow == \A s \in Server : term'[s] >= term[s]

\* A leader counts a success it was sent.
AcksFrom ==
    \A s \in Server : \A a \in acks'[s] :
        /\ state'[s] = "Leader"
        /\ \/ a \in acks[s]
           \/ /\ state[s] = "Leader"
              /\ \E m \in msgs : /\ m.type = "response" /\ m.success
                                 /\ m.to = s /\ m.term = term[s]
                                 /\ a = <<m.index, m.from>>

\* A leader sends where its log ends, with the entry it stores or without one.
NewFrom(a, ae) ==
    /\ IsNew(ae) /\ ae.lterm = term[a]
    /\ ae.pindex = pindex(a) /\ ae.pterm = pterm(a)
    /\ state'[a] = "Leader" /\ term'[a] = term[a]
    /\ IF ae.entry
       THEN /\ ae.term = term[a]
            /\ \E e \in Entry : e.term = term[a] /\ wal'[a] = Append(wal[a], e)
       ELSE state[a] = "Leader" /\ wal'[a] = wal[a]

\* runCatchup sends the next entry of the log.
CatchupFrom(q, ae) ==
    /\ progress[q] # NoProgress
    /\ ae.inbox = progress[q].inbox /\ ae.pindex = progress[q].next
    /\ Copies(q[1], ae)
    /\ UNCHANGED <<state, term, wal>>
    /\ \/ progress[q].term # 0 /\ ae.lterm = progress[q].term
       \/ state[q[1]] = "Leader" /\ ae.lterm = term[q[1]]

LinkFrom(q) ==
    \/ link'[q] = link[q]
    \/ link[q] # <<>> /\ link'[q] = Tail(link[q])
    \/ \E ae \in AppendEntryType :
           link'[q] = Append(link[q], ae) /\ (NewFrom(q[1], ae) \/ CatchupFrom(q, ae))

LinksFrom == \A q \in Pairs : LinkFrom(q)

\* A catchup begins where the follower asked for, and goes on to the next entry.
JobFrom(q) ==
    \/ progress'[q] \in {progress[q], NoProgress}
    \/ \E m \in msgs : /\ m.type = "response" /\ ~m.success /\ m.inbox # 0
                       /\ m.from = q[2] /\ m.to = q[1]
                       /\ progress'[q].inbox = m.inbox
                       /\ progress'[q].next = m.index /\ progress'[q].term = 0
    \/ /\ progress[q] # NoProgress /\ UNCHANGED <<state, term>>
       /\ progress'[q].inbox = progress[q].inbox
       /\ progress'[q].next = progress[q].next + 1
       /\ \/ progress[q].term # 0 /\ progress'[q].term = progress[q].term
          \/ state[q[1]] = "Leader" /\ progress'[q].term = term[q[1]]

JobsFrom == \A q \in Pairs : JobFrom(q)

\* p takes the first append entry from a: its log is cut at the entry's place.
Takes(a, p) ==
    LET ae == Head(link[<<a, p>>]) IN
    /\ link[<<a, p>>] # <<>>
    /\ Current(p, ae) /\ ae.pindex <= pindex(p) /\ term'[p] = ae.lterm
    /\ \/ Conflicts(p, ae) /\ wal'[p] = SubSeq(wal[p], 1, ae.pindex - 1)
       \/ ~Conflicts(p, ae) /\ wal'[p] = AcceptedLog(p, ae)

LogsFrom ==
    \A p \in Server :
        \/ wal'[p] = wal[p]
        \/ \E e \in Entry : wal'[p] = Append(wal[p], e)
        \/ \E a \in Server : Takes(a, p)

\* The request for a catchup says where the follower's log ends.
Asks(m) == ~m.success /\ m.inbox = inboxes' /\ m.index = pindex(m.from)

\* A success follows from a new append entry that is taken, and ends a catchup.
Acks(m) ==
    LET a == m.to
        p == m.from
        ae == Head(link[<<a, p>>])
    IN
    /\ Takes(a, p) /\ IsNew(ae) /\ ~Conflicts(p, ae)
    /\ m = Response(p, a, TermAt(wal'[p], Len(wal'[p])), Len(wal'[p]), TRUE, 0)
    /\ catchup'[p] = NoCatchup
    /\ link'[<<a, p>>] = Tail(link[<<a, p>>])
    /\ state'[p] = "Follower"
    /\ \A s \in Server \ {p} : state'[s] = state[s] /\ wal'[s] = wal[s]

AnswersFrom ==
    \A m \in msgs' \ msgs : m.type = "response" =>
        (~m.success /\ m.inbox = 0) \/ Asks(m) \/ Acks(m)

\* A new catchup has an inbox of its own.
CatchupsFrom ==
    /\ inboxes' >= inboxes
    /\ \A p \in Server :
           catchup'[p] \in {catchup[p], NoCatchup} \/ catchup'[p].inbox > inboxes

Shape ==
    /\ LeadersGrow /\ TermsGrow /\ AcksFrom /\ LinksFrom
    /\ JobsFrom /\ LogsFrom /\ AnswersFrom /\ CatchupsFrom

-----------------------------------------------------------------------------
(* Every step has that shape *)

\* Roles, terms and acks that stay, or those of a server that steps down.
LEMMA SameRoles ==
    ASSUME TypeOK, Counted, UNCHANGED <<state, term, wal, acks>>
    PROVE  LeadersGrow /\ TermsGrow /\ AcksFrom
  <1>1. \A s \in Server : term[s] \in Nat
    BY DEF TypeOK
  <1>2. LeadersGrow /\ TermsGrow
    BY <1>1 DEF LeadersGrow, TermsGrow
  <1>3. AcksFrom
    BY DEF AcksFrom, Counted
  <1>4. QED
    BY <1>2, <1>3

\* A server that steps down leads no more and counts no acks.
LEMMA StepdownShape ==
    ASSUME TypeOK, Counted, NEW s \in Server, Stepdown(s),
           \A p \in Server \ {s} : wal'[p] = wal[p],
           \A p \in Server \ {s} : term'[p] = term[p]
    PROVE  LeadersGrow /\ AcksFrom
  <1>1. /\ state'[s] = "Follower" /\ acks'[s] = {}
        /\ \A p \in Server \ {s} : state'[p] = state[p] /\ acks'[p] = acks[p]
    BY DEF Stepdown, TypeOK
  <1>2. LeadersGrow
    BY <1>1 DEF LeadersGrow
  <1>3. AcksFrom
    BY <1>1 DEF AcksFrom, Counted
  <1>4. QED
    BY <1>2, <1>3

\* What stays came from where it is.
LEMMA SameLinks == UNCHANGED link => LinksFrom
  BY DEF LinksFrom, LinkFrom

\* The catchups a server runs stay.
LEMMA SameJobs == UNCHANGED progress => JobsFrom
  BY DEF JobsFrom, JobFrom

\* The logs stay.
LEMMA SameLogs == UNCHANGED wal => LogsFrom
  BY DEF LogsFrom

\* The catchups a server waits for stay or end.
LEMMA SameCatchups ==
    ASSUME TypeOK, inboxes' = inboxes,
           \A p \in Server : catchup'[p] \in {catchup[p], NoCatchup}
    PROVE  CatchupsFrom
  BY DEF CatchupsFrom, TypeOK

\* No answers are sent.
LEMMA NoAnswers ==
    ASSUME \A m \in msgs' \ msgs : m.type # "response"
    PROVE  AnswersFrom
  BY DEF AnswersFrom

\* What a leader broadcasts is new.
LEMMA BroadcastNew ==
    ASSUME TypeOK, NEW s \in Server, NEW R, NEW ae \in AppendEntryType,
           link' = Broadcast(s, R, ae), NewFrom(s, ae)
    PROVE  LinksFrom
  <1>1. SUFFICES ASSUME NEW q \in Pairs PROVE LinkFrom(q)
    BY DEF LinksFrom
  <1>2. link'[q] = link[q] \/ (link'[q] = Append(link[q], ae) /\ q[1] = s)
    BY DEF Broadcast
  <1>3. QED
    BY <1>2 DEF LinkFrom

\* A leader, or a candidate that wins, stores an entry and sends it.
LEMMA SendShape ==
    ASSUME TypeOK, NEW s \in Server, NEW rest, SendEntry(s, rest),
           state'[s] = "Leader", term'[s] = term[s]
    PROVE  /\ LinksFrom /\ LogsFrom
           /\ \E e \in Entry : e.term = term[s] /\ wal'[s] = Append(wal[s], e)
           /\ \A p \in Server \ {s} : wal'[p] = wal[p]
  <1> DEFINE e == [term |-> term[s], lterm |-> term[s], commit |-> commit[s]]
             ae == BuildAppendEntry(s, TRUE)
  <1>1. e \in Entry /\ e.term = term[s]
    BY DEF Entry, TypeOK
  <1>2. wal'[s] = Append(wal[s], e) /\ \A p \in Server \ {s} : wal'[p] = wal[p]
    BY DEF SendEntry, TypeOK
  <1>3. PICK R : link' = Broadcast(s, R, ae)
    BY DEF SendEntry
  <1>4. ae \in AppendEntryType
    BY BuildType
  <1>5. /\ ae.inbox = 0 /\ ae.lterm = term[s] /\ ae.term = term[s] /\ ae.entry
        /\ ae.pindex = pindex(s) /\ ae.pterm = pterm(s)
    BY DEF BuildAppendEntry, AppendEntry
  <1> HIDE DEF e, ae
  <1>6. NewFrom(s, ae)
    BY <1>1, <1>2, <1>5 DEF NewFrom, IsNew
  <1>7. LinksFrom
    BY <1>3, <1>4, <1>6, BroadcastNew
  <1>8. LogsFrom
    BY <1>1, <1>2 DEF LogsFrom
  <1>9. QED
    BY <1>1, <1>2, <1>7, <1>8

\* A leader sends a heartbeat.
LEMMA HeartbeatShape ==
    ASSUME TypeOK, NEW s \in Server, NEW R, NEW ae \in AppendEntryType,
           ae.inbox = 0 /\ ae.lterm = term[s] /\ ~ae.entry,
           ae.pindex = pindex(s) /\ ae.pterm = pterm(s),
           link' = Broadcast(s, R, ae),
           state[s] = "Leader", UNCHANGED <<state, term, wal>>
    PROVE  LinksFrom
  <1>1. NewFrom(s, ae)
    BY DEF NewFrom, IsNew
  <1>2. QED
    BY <1>1, BroadcastNew

\* The timers and proposals of a server.
LEMMA ServerStepShape ==
    ASSUME TypeOK, TypeOK', Counted, restarts' = 0, NEW s \in Server, ServerStep(s)
    PROVE  Shape
  <1>0. \A p \in Server : term[p] \in Nat
    BY DEF TypeOK
  <1>1. CASE SwitchToCandidate(s)
    <2>1. UNCHANGED <<wal, link, progress, catchup, inboxes, acks>>
      BY <1>1 DEF SwitchToCandidate, logVars, catchupVars
    <2>2. /\ state'[s] = "Candidate" /\ term'[s] = term[s] + 1 /\ state[s] # "Leader"
          /\ \A p \in Server \ {s} : state'[p] = state[p] /\ term'[p] = term[p]
      BY <1>1 DEF SwitchToCandidate, TypeOK
    <2>3. LeadersGrow
      BY <2>1, <2>2 DEF LeadersGrow
    <2>4. TermsGrow
      BY <1>0, <2>2 DEF TermsGrow
    <2>5. AcksFrom
      BY <2>1, <2>2 DEF AcksFrom, Counted
    <2>6. \A m \in msgs' \ msgs : m.type # "response"
      <3>1. PICK R : msgs' = msgs \cup {VoteRequest(s, p, term[s] + 1) : p \in R}
        BY <1>1 DEF SwitchToCandidate
      <3>2. \A p \in R : VoteRequest(s, p, term[s] + 1).type = "request"
        BY DEF VoteRequest
      <3>3. QED
        BY <3>1, <3>2
    <2>7. QED
      BY <2>1, <2>3, <2>4, <2>5, <2>6, SameLinks, SameJobs, SameLogs, SameCatchups,
         NoAnswers DEF Shape
  <1>2. CASE CatchupStalled(s)
    <2>1. UNCHANGED <<state, term, wal, acks, link, progress, inboxes, msgs>>
      BY <1>2 DEF CatchupStalled, ballotVars, logVars
    <2>2. \A p \in Server : catchup'[p] \in {catchup[p], NoCatchup}
      BY <1>2 DEF CatchupStalled, TypeOK
    <2>3. QED
      BY <2>1, <2>2, SameRoles, SameLinks, SameJobs, SameLogs, SameCatchups, NoAnswers
      DEF Shape
  <1>3. CASE Propose(s)
    <2>1. /\ SendEntry(s, msgs) /\ state[s] = "Leader"
          /\ UNCHANGED <<state, term, acks, progress, catchup, inboxes, msgs>>
      BY <1>3 DEF Propose, ballotVars, catchupVars
    <2>2. /\ LinksFrom /\ LogsFrom
          /\ \E e \in Entry : e.term = term[s] /\ wal'[s] = Append(wal[s], e)
          /\ \A p \in Server \ {s} : wal'[p] = wal[p]
      BY <2>1, SendShape
    <2>3. LeadersGrow
      BY <2>1, <2>2 DEF LeadersGrow
    <2>4. TermsGrow
      BY <1>0, <2>1 DEF TermsGrow
    <2>5. AcksFrom
      BY <2>1 DEF AcksFrom, Counted
    <2>6. QED
      BY <2>1, <2>2, <2>3, <2>4, <2>5, SameJobs, SameCatchups, NoAnswers DEF Shape
  <1>4. CASE SendHeartbeat(s)
    <2>1. /\ state[s] = "Leader"
          /\ UNCHANGED <<state, term, wal, acks, progress, catchup, inboxes, msgs>>
      BY <1>4 DEF SendHeartbeat, ballotVars, logVars, catchupVars
    <2> DEFINE ae == BuildAppendEntry(s, FALSE)
    <2>2. PICK R : link' = Broadcast(s, R, ae)
      BY <1>4 DEF SendHeartbeat
    <2>3. ae \in AppendEntryType
      BY BuildType
    <2>4. /\ ae.inbox = 0 /\ ae.lterm = term[s] /\ ~ae.entry
          /\ ae.pindex = pindex(s) /\ ae.pterm = pterm(s)
      BY DEF BuildAppendEntry, AppendEntry
    <2> HIDE DEF ae
    <2>5. LinksFrom
      BY <2>1, <2>2, <2>3, <2>4, HeartbeatShape
    <2>6. QED
      BY <2>1, <2>5, SameRoles, SameJobs, SameLogs, SameCatchups, NoAnswers DEF Shape
  <1>5. CASE LostQuorum(s)
    <2>1. /\ Stepdown(s)
          /\ UNCHANGED <<term, wal, link, progress, catchup, inboxes, msgs>>
      BY <1>5 DEF LostQuorum, ballotVars, logVars, catchupVars
    <2>2. TermsGrow
      BY <1>0, <2>1 DEF TermsGrow
    <2>3. LeadersGrow /\ AcksFrom
      BY <2>1, StepdownShape
    <2>4. QED
      BY <2>1, <2>2, <2>3, SameLinks, SameJobs, SameLogs, SameCatchups, NoAnswers
      DEF Shape
  <1>6. CASE Restart(s)
    BY <1>6 DEF Restart, TypeOK
  <1>7. QED
    BY <1>1, <1>2, <1>3, <1>4, <1>5, <1>6 DEF ServerStep

\* The handling of requests, votes and responses.
LEMMA MessageStepShape ==
    ASSUME TypeOK, TypeOK', Counted, NEW m \in msgs, MessageStep(m)
    PROVE  Shape
  <1> DEFINE s == m.to
  <1>0. m \in Message /\ s \in Server /\ m.term \in Nat /\ m.from \in Server
    BY FieldTypes DEF TypeOK
  <1>00. \A p \in Server : term[p] \in Nat
    BY DEF TypeOK
  <1> HIDE DEF s
  <1>1. CASE RejectVoteRequest(m) \/ IgnoreVote(m) \/ IgnoreResponse(m)
    <2>1. UNCHANGED <<state, term, wal, acks, link, progress, catchup, inboxes>>
      BY <1>1 DEF RejectVoteRequest, IgnoreVote, IgnoreResponse, ballotVars, logVars,
                  catchupVars
    <2>2. \A n \in msgs' \ msgs : n.type # "response"
      BY <1>1 DEF RejectVoteRequest, IgnoreVote, IgnoreResponse, Answer, VoteResponse
    <2>3. QED
      BY <2>1, <2>2, SameRoles, SameLinks, SameJobs, SameLogs, SameCatchups, NoAnswers
      DEF Shape
  <1>2. CASE ProcessVoteRequest(m)
    <2>1. /\ UNCHANGED <<wal, link, progress, inboxes>> /\ m.term >= term[s]
          /\ term' = [term EXCEPT ![s] = m.term]
      BY <1>2 DEF ProcessVoteRequest, logVars, s
    <2>2. \A n \in msgs' \ msgs : n.type # "response"
      BY <1>2 DEF ProcessVoteRequest, Answer, VoteResponse
    <2>3. term'[s] = m.term /\ \A p \in Server \ {s} : term'[p] = term[p]
      BY <1>0, <2>1 DEF TypeOK
    <2>4. TermsGrow
      BY <1>0, <1>00, <2>1, <2>3 DEF TermsGrow
    <2>5. /\ LeadersGrow /\ AcksFrom
          /\ \A p \in Server : catchup'[p] \in {catchup[p], NoCatchup}
      <3>1. CASE m.term > term[s]
        <4>1. Stepdown(s) /\ catchup' = [catchup EXCEPT ![s] = NoCatchup]
          BY <1>2, <3>1 DEF ProcessVoteRequest, s
        <4>2. LeadersGrow /\ AcksFrom
          BY <1>0, <2>1, <2>3, <4>1, StepdownShape
        <4>3. \A p \in Server : catchup'[p] \in {catchup[p], NoCatchup}
          BY <1>0, <4>1 DEF TypeOK
        <4>4. QED
          BY <4>2, <4>3
      <3>2. CASE ~(m.term > term[s])
        <4>1. UNCHANGED <<state, acks, catchup>>
          BY <1>2, <3>2 DEF ProcessVoteRequest, s
        <4>2. term' = term
          BY <1>0, <1>00, <2>1, <3>2 DEF TypeOK
        <4>3. QED
          BY <2>1, <4>1, <4>2, SameRoles
      <3>3. QED
        BY <3>1, <3>2
    <2>6. QED
      BY <2>1, <2>2, <2>4, <2>5, SameLinks, SameJobs, SameLogs, SameCatchups, NoAnswers
      DEF Shape
  <1>3. CASE CountVote(m)
    <2>1. /\ UNCHANGED <<term, acks, progress, catchup, inboxes>> /\ state[s] = "Candidate"
          /\ msgs' = msgs \ {m}
      BY <1>3 DEF CountVote, ballotVars, catchupVars, s
    <2>2. TermsGrow
      BY <1>00, <2>1 DEF TermsGrow
    <2>3. LinksFrom /\ LogsFrom /\ LeadersGrow /\ AcksFrom
      <3>1. CASE Wins(m)
        <4>1. SendEntry(s, msgs \ {m}) /\ state' = [state EXCEPT ![s] = "Leader"]
          BY <1>3, <3>1 DEF CountVote, s
        <4>2. /\ state'[s] = "Leader"
              /\ \A p \in Server \ {s} : state'[p] = state[p]
          BY <1>0, <4>1 DEF TypeOK
        <4>3. /\ LinksFrom /\ LogsFrom
              /\ \E e \in Entry : e.term = term[s] /\ wal'[s] = Append(wal[s], e)
              /\ \A p \in Server \ {s} : wal'[p] = wal[p]
          BY <1>0, <2>1, <4>1, <4>2, SendShape
        <4>4. LeadersGrow
          BY <2>1, <4>2, <4>3 DEF LeadersGrow
        <4>5. AcksFrom
          BY <2>1, <4>2 DEF AcksFrom, Counted
        <4>6. QED
          BY <4>3, <4>4, <4>5
      <3>2. CASE ~Wins(m)
        <4>1. UNCHANGED <<state, wal, link>>
          BY <1>3, <3>2 DEF CountVote
        <4>2. QED
          BY <2>1, <4>1, SameRoles, SameLinks, SameLogs
      <3>3. QED
        BY <3>1, <3>2
    <2>4. QED
      BY <2>1, <2>2, <2>3, SameJobs, SameCatchups, NoAnswers DEF Shape
  <1>4. CASE HigherTermVote(m) \/ HigherTermResponse(m)
    <2>1. /\ Stepdown(s) /\ UNCHANGED <<wal, link, progress, catchup, inboxes>>
          /\ AdoptTerm(s, m.term) \/ UNCHANGED term
          /\ m.term > term[s] /\ msgs' = msgs \ {m}
      BY <1>4 DEF HigherTermVote, HigherTermResponse, ballotVars, logVars, catchupVars, s
    <2>2. /\ \A p \in Server \ {s} : term'[p] = term[p]
          /\ term'[s] \in {term[s], m.term}
      BY <1>0, <2>1 DEF AdoptTerm, TypeOK
    <2>3. TermsGrow
      BY <1>0, <1>00, <2>1, <2>2 DEF TermsGrow
    <2>4. LeadersGrow /\ AcksFrom
      BY <1>0, <2>1, <2>2, StepdownShape
    <2>5. QED
      BY <2>1, <2>3, <2>4, SameLinks, SameJobs, SameLogs, SameCatchups, NoAnswers
      DEF Shape
  <1>5. CASE ProcessSuccess(m)
    <2>1. /\ UNCHANGED <<state, term, wal, progress, catchup, inboxes>>
          /\ state[s] = "Leader" /\ msgs' = msgs \ {m}
          /\ m.type = "response" /\ m.success /\ m.term = term[s]
      BY <1>5 DEF ProcessSuccess, Tracked, ballotVars, catchupVars, s
    <2>2. m.index \in Nat
      BY <1>0, <2>1, FieldTypes
    <2> DEFINE ae == [BuildAppendEntry(s, FALSE) EXCEPT !.commit = m.index]
    <2>3. UNCHANGED link \/ \E R : link' = Broadcast(s, R, ae)
      BY <1>5 DEF ProcessSuccess, s
    <2>4. ae \in AppendEntryType
      <3>1. BuildAppendEntry(s, FALSE) \in AppendEntryType
        BY <1>0, BuildType
      <3>2. QED
        BY <2>2, <3>1 DEF AppendEntryType
    <2>5. /\ ae.inbox = 0 /\ ae.lterm = term[s] /\ ~ae.entry
           /\ ae.pindex = pindex(s) /\ ae.pterm = pterm(s)
      BY DEF BuildAppendEntry, AppendEntry
    <2> HIDE DEF ae
    <2>6. LinksFrom
      <3>1. CASE UNCHANGED link
        BY <3>1, SameLinks
      <3>2. CASE \E R : link' = Broadcast(s, R, ae)
        BY <1>0, <2>1, <2>4, <2>5, <3>2, HeartbeatShape
      <3>3. QED
        BY <2>3, <3>1, <3>2
    <2>7. /\ acks'[s] \subseteq acks[s] \cup {<<m.index, m.from>>}
          /\ \A p \in Server \ {s} : acks'[p] = acks[p]
      <3>1. \/ acks' = [acks EXCEPT ![s] = {a \in @ : a[1] > m.index}]
            \/ acks' = [acks EXCEPT ![s] = @ \cup {<<m.index, m.from>>}]
        BY <1>5 DEF ProcessSuccess, s
      <3>2. DOMAIN acks = Server
        BY DEF TypeOK
      <3>3. QED
        BY <1>0, <3>1, <3>2
    <2>8. LeadersGrow /\ TermsGrow
      BY <1>00, <2>1 DEF LeadersGrow, TermsGrow
    <2>9. AcksFrom
      <3>1. SUFFICES ASSUME NEW p \in Server, NEW a \in acks'[p]
                     PROVE  /\ state'[p] = "Leader"
                            /\ \/ a \in acks[p]
                               \/ /\ state[p] = "Leader"
                                  /\ \E n \in msgs :
                                        /\ n.type = "response" /\ n.success
                                        /\ n.to = p /\ n.term = term[p]
                                        /\ a = <<n.index, n.from>>
        BY DEF AcksFrom
      <3>2. CASE a \in acks[p]
        BY <2>1, <3>2 DEF Counted
      <3>3. CASE a \notin acks[p]
        <4>1. p = s /\ a = <<m.index, m.from>>
          BY <2>7, <3>1, <3>3
        <4>2. QED
          BY <2>1, <4>1 DEF s
      <3>4. QED
        BY <3>2, <3>3
    <2>10. QED
      BY <2>1, <2>6, <2>8, <2>9, SameJobs, SameLogs, SameCatchups, NoAnswers DEF Shape
  <1>6. CASE CatchupFollower(m)
    <2>1. /\ UNCHANGED <<term, wal, link, catchup, inboxes>> /\ msgs' = msgs \ {m}
          /\ Stepdown(s) \/ UNCHANGED <<state, acks>>
          /\ m.type = "response" /\ ~m.success /\ m.inbox # 0
      BY <1>6 DEF CatchupFollower, ballotVars, logVars, catchupVars, s
    <2>2. TermsGrow
      BY <1>00, <2>1 DEF TermsGrow
    <2>3. LeadersGrow /\ AcksFrom
      BY <1>0, <2>1, StepdownShape, SameRoles
    <2>4. JobsFrom
      <3> DEFINE job == [inbox |-> m.inbox, next |-> m.index, term |-> 0, last |-> 0]
      <3>1. \/ progress' = [progress EXCEPT ![<<s, m.from>>] = job]
            \/ progress' = [progress EXCEPT ![<<s, m.from>>] = NoProgress]
        BY <1>6 DEF CatchupFollower, s
      <3>2. job.inbox = m.inbox /\ job.next = m.index /\ job.term = 0
        OBVIOUS
      <3> HIDE DEF job
      <3>3. SUFFICES ASSUME NEW q \in Pairs PROVE JobFrom(q)
        BY DEF JobsFrom
      <3>4. \/ progress'[q] \in {progress[q], NoProgress}
            \/ q = <<s, m.from>> /\ progress'[q] = job
        BY <1>0, <3>1 DEF TypeOK, Pairs
      <3>5. QED
        BY <2>1, <3>2, <3>4 DEF JobFrom, s
    <2>5. QED
      BY <2>1, <2>2, <2>3, <2>4, SameLinks, SameLogs, SameCatchups, NoAnswers DEF Shape
  <1>7. QED
    BY <1>1, <1>2, <1>3, <1>4, <1>5, <1>6 DEF MessageStep

\* One entry of runCatchup.
LEMMA RunCatchupShape ==
    ASSUME TypeOK, TypeOK', Counted, NEW s \in Server, NEW p \in Server, RunCatchup(s, p)
    PROVE  Shape
  <1> DEFINE job == progress[<<s, p>>]
             t == IF job.term # 0 THEN job.term ELSE term[s]
             next == job.next + 1
             e == wal[s][next]
             ae == AppendEntry(e.term, t, e.commit, TermAt(wal[s], next - 1),
                               next - 1, TRUE, job.inbox)
  <1>1. /\ UNCHANGED <<state, term, wal, acks, catchup, inboxes, msgs>>
        /\ job # NoProgress
    BY DEF RunCatchup, ballotVars, logVars, catchupVars
  <1>2. \/ UNCHANGED link
        \/ /\ next <= pindex(s) /\ link' = Broadcast(s, {p}, ae)
           /\ job.term # 0 \/ state[s] = "Leader"
    BY DEF RunCatchup
  <1>3. \E n : progress' = [progress EXCEPT ![<<s, p>>] =
            IF (job.term # 0 \/ state[s] = "Leader") /\ n
            THEN [job EXCEPT !.next = next, !.term = t,
                             !.last = IF job.term # 0 THEN job.last ELSE pindex(s)]
            ELSE NoProgress]
    <2> DEFINE last == IF job.term # 0 THEN job.last ELSE pindex(s)
               sends == (job.term # 0 \/ state[s] = "Leader")
                            /\ next <= last /\ next <= pindex(s)
    <2>1. progress' = [progress EXCEPT ![<<s, p>>] =
            IF sends /\ next < last
            THEN [job EXCEPT !.next = next, !.term = t, !.last = last]
            ELSE NoProgress]
      BY DEF RunCatchup
    <2>2. WITNESS next <= last /\ next <= pindex(s) /\ next < last
    <2>3. QED
      BY <2>1
  <1>4. <<s, p>> \in Pairs /\ DOMAIN progress = Pairs
    BY DEF TypeOK, Pairs
  <1>5. job \in [inbox : Nat, next : Nat, term : Nat, last : Nat] /\ term[s] \in Nat
    BY DEF TypeOK, Pairs
  <1>6. next \in Nat \ {0} /\ next - 1 = job.next /\ job.inbox \in Nat /\ t \in Nat
    BY <1>5
  <1>7. JobsFrom
    <2>1. PICK n : progress' = [progress EXCEPT ![<<s, p>>] =
            IF (job.term # 0 \/ state[s] = "Leader") /\ n
            THEN [job EXCEPT !.next = next, !.term = t,
                             !.last = IF job.term # 0 THEN job.last ELSE pindex(s)]
            ELSE NoProgress]
      BY <1>3
    <2> DEFINE new == [job EXCEPT !.next = next, !.term = t,
                                  !.last = IF job.term # 0 THEN job.last ELSE pindex(s)]
    <2>2. new.inbox = job.inbox /\ new.next = next /\ new.term = t
      BY <1>5
    <2>3. \/ progress'[<<s, p>>] = NoProgress
          \/ /\ progress'[<<s, p>>] = new
             /\ job.term # 0 \/ state[s] = "Leader"
      BY <1>4, <2>1
    <2>4. \A q \in Pairs : q # <<s, p>> => progress'[q] = progress[q]
      BY <1>4, <2>1
    <2> HIDE DEF new
    <2>5. JobFrom(<<s, p>>)
      BY <1>1, <2>2, <2>3 DEF JobFrom
    <2>6. QED
      BY <2>4, <2>5 DEF JobsFrom, JobFrom
  <1>8. LinksFrom
    <2>1. CASE UNCHANGED link
      BY <2>1, SameLinks
    <2>2. CASE /\ next <= pindex(s) /\ link' = Broadcast(s, {p}, ae)
               /\ job.term # 0 \/ state[s] = "Leader"
      <3> HIDE DEF job, t, next
      <3>1. /\ next \in 1..pindex(s) /\ next \in 1..Len(wal[s])
            /\ next - 1 \in 0..Len(wal[s]) /\ wal[s] \in Seq(Entry)
        BY <1>6, <2>2 DEF pindex, TypeOK
      <3>2. e \in Entry
        BY <3>1
      <3>3. e.term \in Nat /\ e.commit \in Nat /\ TermAt(wal[s], next - 1) \in Nat
        BY <3>1, <3>2, TermAtType DEF Entry
      <3>4. next - 1 \in Nat /\ (next - 1) + 1 = next
        BY <3>1
      <3>5. /\ ae \in AppendEntryType /\ ae.pindex = next - 1 /\ ae.term = e.term
            /\ ae.pterm = TermAt(wal[s], next - 1) /\ ae.lterm = t
            /\ ae.inbox = job.inbox /\ ae.entry
        <4> HIDE DEF e
        <4>1. QED
          BY <1>6, <3>3, <3>4 DEF AppendEntry, AppendEntryType
      <3>6. ae.term = wal[s][ae.pindex + 1].term
        BY <3>4, <3>5
      <3> HIDE DEF e, ae
      <3>7. Copies(s, ae)
        BY <3>1, <3>5, <3>6 DEF Copies, pindex
      <3>8. CatchupFrom(<<s, p>>, ae)
        BY <1>1, <1>6, <2>2, <3>5, <3>7 DEF CatchupFrom, job, t
      <3>9. SUFFICES ASSUME NEW q \in Pairs PROVE LinkFrom(q)
        BY DEF LinksFrom
      <3>10. \/ link'[q] = link[q]
             \/ link'[q] = Append(link[q], ae) /\ q = <<s, p>>
        BY <2>2 DEF Broadcast, Pairs
      <3>11. QED
        BY <3>5, <3>8, <3>10 DEF LinkFrom
    <2>3. QED
      BY <1>2, <2>1, <2>2
  <1>9. QED
    BY <1>1, <1>7, <1>8, SameRoles, SameLogs, SameCatchups, NoAnswers DEF Shape

\* A server that follows the term of an append entry.
LEMMA FollowShape ==
    ASSUME TypeOK, Counted, NEW s \in Server, NEW ae \in AppendEntryType,
           FollowTerm(s, ae), ~Outdated(s, ae),
           \A p \in Server \ {s} : wal'[p] = wal[p]
    PROVE  /\ LeadersGrow /\ AcksFrom /\ TermsGrow
           /\ term'[s] = ae.lterm /\ state'[s] = "Follower"
           /\ \A p \in Server \ {s} : state'[p] = state[p]
  <1>1. /\ Stepdown(s) /\ term'[s] = ae.lterm /\ ae.lterm \in Nat
        /\ \A p \in Server \ {s} : term'[p] = term[p]
    BY DEF FollowTerm, TypeOK, AppendEntryType
  <1>2. \A p \in Server : term[p] \in Nat
    BY DEF TypeOK
  <1>3. TermsGrow
    BY <1>1, <1>2 DEF TermsGrow, Outdated
  <1>4. state'[s] = "Follower" /\ \A p \in Server \ {s} : state'[p] = state[p]
    BY <1>1 DEF Stepdown, TypeOK
  <1>5. QED
    BY <1>1, <1>3, <1>4, StepdownShape

\* An append entry is off its link once it is handled.
LEMMA ReceivedLinks ==
    ASSUME TypeOK, NEW i \in Server, NEW s \in Server, link[<<i, s>>] # <<>>,
           link' = Received(i, s)
    PROVE  LinksFrom /\ link'[<<i, s>>] = Tail(link[<<i, s>>])
  <1>1. /\ link'[<<i, s>>] = Tail(link[<<i, s>>])
        /\ \A q \in Pairs : q # <<i, s>> => link'[q] = link[q]
    BY DEF Received, TypeOK, Pairs
  <1>2. QED
    BY <1>1 DEF LinksFrom, LinkFrom

\* createCatchup asks for what follows the log.
LEMMA CreateShape ==
    ASSUME TypeOK, NEW i \in Server, NEW s \in Server, NEW ae, CreateCatchup(s, ae),
           msgs' \in AnswerEntry(Response(s, i, pterm(s), pindex(s), FALSE, inboxes'))
    PROVE  CatchupsFrom /\ AnswersFrom
  <1>1. /\ inboxes' = inboxes + 1 /\ inboxes \in Nat /\ DOMAIN catchup = Server
        /\ catchup' = [catchup EXCEPT ![s] =
               [inbox |-> inboxes', cterm |-> ae.pterm, cindex |-> ae.pindex]]
    BY DEF CreateCatchup, TypeOK
  <1>2. catchup'[s].inbox = inboxes + 1
        /\ \A p \in Server \ {s} : catchup'[p] = catchup[p]
    BY <1>1
  <1>3. CatchupsFrom
    BY <1>1, <1>2 DEF CatchupsFrom
  <1> DEFINE m == Response(s, i, pterm(s), pindex(s), FALSE, inboxes')
  <1>4. ~m.success /\ m.inbox = inboxes' /\ m.index = pindex(s) /\ m.from = s
    BY DEF Response
  <1>5. \A n \in msgs' \ msgs : n = m
    BY DEF AnswerEntry
  <1> HIDE DEF m
  <1>6. AnswersFrom
    BY <1>4, <1>5 DEF AnswersFrom, Asks
  <1>7. QED
    BY <1>3, <1>6

\* processAppendEntry, in all its ways.
LEMMA ProcessAppendEntryShape ==
    ASSUME TypeOK, TypeOK', Counted, NEW i \in Server, NEW s \in Server,
           ProcessAppendEntry(i, s)
    PROVE  Shape
  <1> DEFINE ae == Head(link[<<i, s>>])
  <1>1. link[<<i, s>>] # <<>> /\ link' = Received(i, s) /\ UNCHANGED progress
    BY DEF ProcessAppendEntry, RejectAppendEntry, IgnoreCatchupEntry, AwaitCatchup,
           AlreadyCommitted, TruncateConflict, MissingEntries, AcceptEntry
  <1>2. ae \in AppendEntryType
    BY <1>1, ReceivedType
  <1>3. LinksFrom /\ JobsFrom /\ link'[<<i, s>>] = Tail(link[<<i, s>>])
    BY <1>1, ReceivedLinks, SameJobs
  <1>4. DOMAIN wal = Server /\ DOMAIN catchup = Server
    BY DEF TypeOK
  <1>5. CASE RejectAppendEntry(i, s)
    <2>1. UNCHANGED <<state, term, wal, acks, catchup, inboxes>>
      BY <1>5 DEF RejectAppendEntry, ballotVars, logVars, catchupVars
    <2> DEFINE m == Response(s, i, term[s], pindex(s), FALSE, 0)
    <2>2. ~m.success /\ m.inbox = 0
      BY DEF Response
    <2>3. \A n \in msgs' \ msgs : n = m
      BY <1>5 DEF RejectAppendEntry, AnswerEntry
    <2> HIDE DEF m
    <2>4. AnswersFrom
      BY <2>2, <2>3 DEF AnswersFrom
    <2>5. QED
      BY <1>3, <2>1, <2>4, SameRoles, SameLogs, SameCatchups DEF Shape
  <1>6. CASE IgnoreCatchupEntry(i, s)
    <2>1. /\ UNCHANGED <<wal, catchup, inboxes, msgs>>
          /\ UNCHANGED <<state, term, acks>> \/ (FollowTerm(s, ae) /\ ~Outdated(s, ae))
      BY <1>6 DEF IgnoreCatchupEntry, ballotVars, logVars, catchupVars
    <2> HIDE DEF ae
    <2>2. LeadersGrow /\ AcksFrom /\ TermsGrow
      BY <1>2, <2>1, FollowShape, SameRoles
    <2>3. QED
      BY <1>3, <2>1, <2>2, SameLogs, SameCatchups, NoAnswers DEF Shape
  <1>7. CASE AwaitCatchup(i, s)
    <2>1. /\ UNCHANGED wal /\ FollowTerm(s, ae) /\ ~Outdated(s, ae)
          /\ \/ UNCHANGED <<catchup, inboxes, msgs>>
             \/ /\ CreateCatchup(s, ae)
                /\ msgs' \in AnswerEntry(
                       Response(s, i, pterm(s), pindex(s), FALSE, inboxes'))
      BY <1>7 DEF AwaitCatchup, Current, logVars, catchupVars
    <2> HIDE DEF ae
    <2>2. LeadersGrow /\ AcksFrom /\ TermsGrow
      BY <1>2, <2>1, FollowShape
    <2>3. CatchupsFrom /\ AnswersFrom
      BY <2>1, CreateShape, SameCatchups, NoAnswers
    <2>4. QED
      BY <1>3, <2>1, <2>2, <2>3, SameLogs DEF Shape
  <1>8. CASE AlreadyCommitted(i, s)
    <2>1. /\ UNCHANGED <<wal, inboxes, msgs>> /\ FollowTerm(s, ae) /\ ~Outdated(s, ae)
          /\ EndCatchupIfDone(s)
      BY <1>8 DEF AlreadyCommitted, Ready, Current, logVars
    <2> HIDE DEF ae
    <2>2. LeadersGrow /\ AcksFrom /\ TermsGrow
      BY <1>2, <2>1, FollowShape
    <2>3. \A p \in Server : catchup'[p] \in {catchup[p], NoCatchup}
      BY <1>4, <2>1 DEF EndCatchupIfDone
    <2>4. QED
      BY <1>3, <2>1, <2>2, <2>3, SameLogs, SameCatchups, NoAnswers DEF Shape
  <1>9. CASE TruncateConflict(i, s)
    <2>1. /\ UNCHANGED <<inboxes, msgs>> /\ FollowTerm(s, ae)
          /\ Current(s, ae) /\ Conflicts(s, ae)
          /\ wal' = [wal EXCEPT ![s] = SubSeq(@, 1, ae.pindex - 1)]
          /\ catchup' = [catchup EXCEPT ![s] = NoCatchup]
      BY <1>9 DEF TruncateConflict, Ready
    <2> HIDE DEF ae
    <2>2. /\ wal'[s] = SubSeq(wal[s], 1, ae.pindex - 1)
          /\ \A p \in Server \ {s} : wal'[p] = wal[p]
          /\ \A p \in Server : catchup'[p] \in {catchup[p], NoCatchup}
      BY <1>4, <2>1
    <2>3. LeadersGrow /\ AcksFrom /\ TermsGrow /\ term'[s] = ae.lterm
      BY <1>2, <2>1, <2>2, FollowShape DEF Current
    <2>4. ae.pindex <= pindex(s)
      BY <2>1 DEF Conflicts
    <2>5. Takes(i, s)
      BY <1>1, <2>1, <2>2, <2>3, <2>4 DEF Takes, ae
    <2>6. LogsFrom
      BY <2>2, <2>5 DEF LogsFrom
    <2>7. QED
      BY <1>3, <2>1, <2>2, <2>3, <2>6, SameCatchups, NoAnswers DEF Shape
  <1>10. CASE MissingEntries(i, s)
    <2>1. /\ UNCHANGED wal /\ FollowTerm(s, ae) /\ ~Outdated(s, ae)
          /\ \/ /\ UNCHANGED <<inboxes, msgs>>
                /\ catchup' = [catchup EXCEPT ![s] = NoCatchup]
             \/ /\ CreateCatchup(s, ae)
                /\ msgs' \in AnswerEntry(
                       Response(s, i, pterm(s), pindex(s), FALSE, inboxes'))
      BY <1>10 DEF MissingEntries, Ready, Current, logVars
    <2> HIDE DEF ae
    <2>2. LeadersGrow /\ AcksFrom /\ TermsGrow
      BY <1>2, <2>1, FollowShape
    <2>3. CASE /\ UNCHANGED <<inboxes, msgs>>
               /\ catchup' = [catchup EXCEPT ![s] = NoCatchup]
      <3>1. \A p \in Server : catchup'[p] \in {catchup[p], NoCatchup}
        BY <1>4, <2>3
      <3>2. QED
        BY <1>3, <2>1, <2>2, <2>3, <3>1, SameLogs, SameCatchups, NoAnswers DEF Shape
    <2>4. CASE /\ CreateCatchup(s, ae)
               /\ msgs' \in AnswerEntry(
                      Response(s, i, pterm(s), pindex(s), FALSE, inboxes'))
      BY <1>3, <2>1, <2>2, <2>4, SameLogs, CreateShape DEF Shape
    <2>5. QED
      BY <2>1, <2>3, <2>4
  <1>11. CASE AcceptEntry(i, s)
    <2> DEFINE m == Response(s, i, TermAt(wal'[s], Len(wal'[s])), Len(wal'[s]), TRUE, 0)
    <2>1. /\ UNCHANGED inboxes /\ FollowTerm(s, ae) /\ EndCatchupIfDone(s)
          /\ Ready(s, ae) /\ ae.pindex <= pindex(s) /\ ~Conflicts(s, ae)
          /\ wal' = [wal EXCEPT ![s] = AcceptedLog(s, ae)]
      BY <1>11 DEF AcceptEntry
    <2>2. /\ wal'[s] = AcceptedLog(s, ae)
          /\ \A p \in Server \ {s} : wal'[p] = wal[p]
      <3> HIDE DEF ae
      <3>1. QED
        BY <1>4, <2>1
    <2>3. IF IsNew(ae) THEN msgs' \in AnswerEntry(m) ELSE UNCHANGED msgs
      BY <1>11, <2>2 DEF AcceptEntry
    <2> HIDE DEF ae
    <2>4. /\ LeadersGrow /\ AcksFrom /\ TermsGrow
          /\ term'[s] = ae.lterm /\ state'[s] = "Follower"
          /\ \A p \in Server \ {s} : state'[p] = state[p]
      BY <1>2, <2>1, <2>2, FollowShape DEF Ready, Current
    <2>5. /\ \A p \in Server : catchup'[p] \in {catchup[p], NoCatchup}
          /\ IsNew(ae) => catchup'[s] = NoCatchup
      BY <1>4, <2>1 DEF EndCatchupIfDone, Ready
    <2>6. Takes(i, s)
      BY <1>1, <2>1, <2>2, <2>4 DEF Takes, Ready, ae
    <2>7. LogsFrom
      BY <2>2, <2>6 DEF LogsFrom
    <2>8. m.from = s /\ m.to = i
      BY DEF Response
    <2>9. IsNew(ae) => Acks(m)
      <3>1. m = Response(s, i, TermAt(wal'[s], Len(wal'[s])), Len(wal'[s]), TRUE, 0)
        OBVIOUS
      <3> HIDE DEF m
      <3>2. QED
        BY <1>3, <2>1, <2>2, <2>4, <2>5, <2>6, <2>8, <3>1 DEF Acks, ae
    <2> HIDE DEF m
    <2>10. \A n \in msgs' \ msgs : n = m /\ IsNew(ae)
      BY <2>3 DEF AnswerEntry
    <2>11. AnswersFrom
      BY <2>9, <2>10 DEF AnswersFrom
    <2>12. QED
      BY <1>3, <2>1, <2>4, <2>5, <2>7, <2>11, SameCatchups DEF Shape
  <1>12. QED
    BY <1>5, <1>6, <1>7, <1>8, <1>9, <1>10, <1>11 DEF ProcessAppendEntry

\* Every step that is not a restart has the shape.
LEMMA ShapeStep ==
    ASSUME TypeOK, TypeOK', Counted, restarts' = 0, [Next]_vars
    PROVE  Shape
  <1>1. CASE UNCHANGED vars
    <2>1. UNCHANGED <<state, term, wal, acks, link, progress, catchup, inboxes, msgs>>
      BY <1>1 DEF vars, ballotVars, logVars, catchupVars
    <2>2. QED
      BY <2>1, SameRoles, SameLinks, SameJobs, SameLogs, SameCatchups, NoAnswers DEF Shape
  <1>2. ASSUME NEW s \in Server, ServerStep(s) PROVE Shape
    BY <1>2, ServerStepShape
  <1>3. ASSUME NEW m \in msgs, MessageStep(m) PROVE Shape
    BY <1>3, MessageStepShape
  <1>4. ASSUME NEW s \in Server, NEW p \in Server,
               RunCatchup(s, p) \/ ProcessAppendEntry(s, p)
        PROVE  Shape
    BY <1>4, RunCatchupShape, ProcessAppendEntryShape
  <1>5. QED
    BY <1>1, <1>2, <1>3, <1>4 DEF Next

-----------------------------------------------------------------------------
(* The invariant is kept: who was elected, and what is under way *)

\* Only the leader of a term was elected in it.
LEMMA ElectedIsLeader ==
    ASSUME TypeOK, ElectionInv, NEW s \in Server, NEW c \in Server,
           state[s] = "Leader", Elected(c, term[s])
    PROVE  c = s
  <1> DEFINE t == term[s]
             Q == votes[s] \cup emptyVotes[s]
  <1>1. PICK P \in SUBSET Server :
           /\ 2 * Cardinality(P) > Cardinality(Server)
           /\ \A q \in P : \A d \in Server \ {c} : ~Voted(q, d, t)
    BY DEF Elected
  <1>2. Q \in SUBSET Server /\ 2 * Cardinality(Q) > Cardinality(Server)
    BY DEF TypeOK, ElectionInv, LeaderElected
  <1>3. /\ IsFiniteSet(Server) /\ Cardinality(Server) \in Nat
        /\ IsFiniteSet(Q) /\ IsFiniteSet(P)
        /\ Cardinality(Q) \in Nat /\ Cardinality(P) \in Nat
    BY <1>1, <1>2, ServerAssumption, FS_Subset, FS_CardinalityType
  <1>4. Q \cap P # {}
    BY <1>1, <1>2, <1>3, FS_MajoritiesIntersect
  <1>5. PICK q \in Server : q \in Q /\ q \in P
    BY <1>2, <1>4
  <1>6. Voted(q, s, t)
    BY <1>5 DEF Voted
  <1>7. QED
    BY <1>1, <1>5, <1>6

\* What is on a link.
LEMMA LinkType ==
    ASSUME TypeOK, NEW q \in Pairs
    PROVE  /\ link[q] \in Seq(AppendEntryType) /\ Len(link[q]) \in Nat
           /\ \A k \in 1..Len(link[q]) :
                  /\ link[q][k] \in AppendEntryType
                  /\ link[q][k].term \in Nat /\ link[q][k].lterm \in Nat
                  /\ link[q][k].pterm \in Nat /\ link[q][k].pindex \in Nat
                  /\ link[q][k].entry \in BOOLEAN /\ link[q][k].inbox \in Nat
           /\ link[q] # <<>> => 1 \in 1..Len(link[q]) /\ Head(link[q]) = link[q][1]
  <1>1. link[q] \in Seq(AppendEntryType)
    BY DEF TypeOK
  <1>2. \A k \in 1..Len(link[q]) : link[q][k] \in AppendEntryType
    BY <1>1
  <1>3. \A ae \in AppendEntryType :
            /\ ae.term \in Nat /\ ae.lterm \in Nat /\ ae.pterm \in Nat
            /\ ae.pindex \in Nat /\ ae.entry \in BOOLEAN /\ ae.inbox \in Nat
    BY DEF AppendEntryType
  <1>4. Len(link[q]) \in Nat
    BY <1>1
  <1>5. link[q] # <<>> => 1 \in 1..Len(link[q]) /\ Head(link[q]) = link[q][1]
    BY <1>1
  <1>6. QED
    BY <1>1, <1>2, <1>3, <1>4, <1>5

\* An append entry on a link was there before, or has just been sent.
LEMMA LinkCases ==
    ASSUME TypeOK, NEW q \in Pairs, LinkFrom(q), NEW k \in 1..Len(link'[q])
    PROVE  \/ \E j \in 1..Len(link[q]) : link'[q][k] = link[q][j]
           \/ /\ NewFrom(q[1], link'[q][k]) \/ CatchupFrom(q, link'[q][k])
              /\ k = Len(link[q]) + 1 /\ link'[q] = Append(link[q], link'[q][k])
  <1>1. link[q] \in Seq(AppendEntryType) /\ Len(link[q]) \in Nat
    BY LinkType
  <1>2. CASE link'[q] = link[q]
    BY <1>2
  <1>3. CASE link[q] # <<>> /\ link'[q] = Tail(link[q])
    <2>1. k + 1 \in 1..Len(link[q]) /\ link'[q][k] = link[q][k + 1]
      BY <1>1, <1>3
    <2>2. QED
      BY <2>1
  <1>4. ASSUME NEW ae \in AppendEntryType, link'[q] = Append(link[q], ae),
               NewFrom(q[1], ae) \/ CatchupFrom(q, ae)
        PROVE  \/ \E j \in 1..Len(link[q]) : link'[q][k] = link[q][j]
               \/ /\ NewFrom(q[1], link'[q][k]) \/ CatchupFrom(q, link'[q][k])
                  /\ k = Len(link[q]) + 1 /\ link'[q] = Append(link[q], link'[q][k])
    <2>1. \/ k \in 1..Len(link[q]) /\ link'[q][k] = link[q][k]
          \/ k = Len(link[q]) + 1 /\ link'[q][k] = ae
      BY <1>1, <1>4
    <2>2. QED
      BY <1>4, <2>1
  <1>5. QED
    BY <1>2, <1>3, <1>4 DEF LinkFrom

\* Append entries are from elected servers.
LEMMA HeardStep ==
    ASSUME TypeOK, TypeOK', ElectionInv, BallotStep, CandidatesNew, Shape, AckInv
    PROVE  Heard'
  <1>1. SUFFICES ASSUME NEW q \in Pairs, NEW k \in 1..Len(link'[q]),
                        NEW ae, ae = link'[q][k]
                 PROVE  /\ Elected(q[1], ae.lterm)'
                        /\ ae.inbox <= inboxes'
                        /\ IsNew(ae) => IF ae.entry
                                        THEN ae.term = ae.lterm
                                        ELSE ae.pterm = ae.lterm /\ ae.pindex >= 1
    BY DEF Heard, IsNew
  <1>2. q[1] \in Server /\ q[2] \in Server /\ inboxes \in Nat /\ inboxes' \in Nat
        /\ inboxes' >= inboxes
    BY DEF Pairs, TypeOK, Shape, CatchupsFrom
  <1>3. LinkFrom(q)
    BY DEF Shape, LinksFrom
  <1>4. CASE \E j \in 1..Len(link[q]) : ae = link[q][j]
    <2>1. PICK j \in 1..Len(link[q]) : ae = link[q][j]
      BY <1>4
    <2>2. /\ Elected(q[1], ae.lterm) /\ ae.inbox <= inboxes
          /\ IsNew(ae) => IF ae.entry THEN ae.term = ae.lterm
                                      ELSE ae.pterm = ae.lterm /\ ae.pindex >= 1
      BY <2>1 DEF AckInv, Heard
    <2>3. ae.lterm \in Nat /\ ae.inbox \in Nat
      BY <2>1, LinkType
    <2>4. Elected(q[1], ae.lterm)'
      BY <1>2, <2>2, <2>3, ElectedStays
    <2>5. QED
      BY <1>2, <2>2, <2>3, <2>4
  <1>5. CASE NewFrom(q[1], ae)
    <2>1. /\ IsNew(ae) /\ ae.lterm = term'[q[1]] /\ state'[q[1]] = "Leader"
          /\ ae.lterm = term[q[1]]
      BY <1>5 DEF NewFrom
    <2>2. Elected(q[1], term[q[1]])'
      BY <1>2, <2>1, LeaderWasElectedNext DEF BallotStep
    <2>3. ae.inbox = 0
      BY <2>1 DEF IsNew
    <2>4. ae.entry => ae.term = ae.lterm
      BY <2>1, <1>5 DEF NewFrom
    <2>5. ~ae.entry => ae.pterm = ae.lterm /\ ae.pindex >= 1
      <3>1. SUFFICES ASSUME ~ae.entry PROVE ae.pterm = ae.lterm /\ ae.pindex >= 1
        OBVIOUS
      <3>2. /\ state[q[1]] = "Leader"
            /\ ae.pindex = pindex(q[1]) /\ ae.pterm = pterm(q[1])
        BY <1>5, <3>1 DEF NewFrom
      <3>3. pindex(q[1]) >= 1 /\ wal[q[1]][pindex(q[1])].term = term[q[1]]
        BY <1>2, <3>2 DEF AckInv, LeaderTail
      <3>4. QED
        BY <2>1, <3>2, <3>3 DEF pterm, TermAt
    <2>6. QED
      BY <1>2, <2>1, <2>2, <2>3, <2>4, <2>5
  <1>6. CASE CatchupFrom(q, ae)
    <2>1. progress[q].inbox \in 1..inboxes
      BY <1>6 DEF CatchupFrom, AckInv, Jobs
    <2>2. ae.inbox = progress[q].inbox
      BY <1>6 DEF CatchupFrom
    <2>3. Elected(q[1], ae.lterm)'
      <3>1. CASE progress[q].term # 0 /\ ae.lterm = progress[q].term
        <4>1. Elected(q[1], ae.lterm)
          BY <1>6, <3>1 DEF CatchupFrom, AckInv, Jobs
        <4>2. progress[q].term \in Nat
          BY DEF TypeOK
        <4>3. QED
          BY <1>2, <3>1, <4>1, <4>2, ElectedStays
      <3>2. CASE state[q[1]] = "Leader" /\ ae.lterm = term[q[1]]
        <4>1. Elected(q[1], ae.lterm)
          BY <1>2, <3>2, LeaderWasElected
        <4>2. term[q[1]] \in Nat
          BY <1>2 DEF TypeOK
        <4>3. QED
          BY <1>2, <3>2, <4>1, <4>2, ElectedStays
      <3>3. QED
        BY <1>6, <3>1, <3>2 DEF CatchupFrom
    <2>4. ~IsNew(ae) /\ ae.inbox <= inboxes'
      BY <1>2, <2>1, <2>2 DEF IsNew
    <2>5. QED
      BY <2>3, <2>4
  <1>7. QED
    BY <1>1, <1>3, <1>4, <1>5, <1>6, LinkCases

\* So are the catchups.
LEMMA JobsStep ==
    ASSUME TypeOK, TypeOK', ElectionInv, BallotStep, CandidatesNew, Shape, AckInv
    PROVE  Jobs'
  <1>1. SUFFICES ASSUME NEW q \in Pairs, progress'[q] # NoProgress
                 PROVE  /\ progress'[q].inbox \in 1..inboxes'
                        /\ progress'[q].term # 0 => Elected(q[1], progress[q].term)'
    BY DEF Jobs
  <1>2. q[1] \in Server /\ q[2] \in Server /\ inboxes \in Nat /\ inboxes' \in Nat
        /\ inboxes' >= inboxes
    BY DEF Pairs, TypeOK, Shape, CatchupsFrom
  <1>3. progress[q] \in [inbox : Nat, next : Nat, term : Nat, last : Nat]
        /\ term[q[1]] \in Nat
    BY <1>2 DEF TypeOK
  <1>4. progress[q].term \in Nat
    BY <1>3
  <1>5. progress[q] # NoProgress =>
           /\ progress[q].inbox \in 1..inboxes'
           /\ progress[q].term # 0 => Elected(q[1], progress[q].term)
    BY <1>2 DEF AckInv, Jobs
  <1>6. JobFrom(q)
    BY DEF Shape, JobsFrom
  <1>7. CASE progress'[q] = progress[q]
    <2>1. progress[q].term # 0 => Elected(q[1], progress[q].term)
      BY <1>1, <1>5, <1>7
    <2>2. ASSUME NEW t, t = progress[q].term, t # 0 PROVE Elected(q[1], t)'
      BY <1>2, <1>4, <2>1, <2>2, ElectedStays
    <2>3. progress'[q].term # 0 => Elected(q[1], progress[q].term)'
      BY <1>7, <2>2
    <2>4. QED
      BY <1>1, <1>5, <1>7, <2>3
  <1>8. ASSUME NEW m \in msgs, m.type = "response", m.inbox # 0,
               progress'[q].inbox = m.inbox, progress'[q].term = 0
        PROVE  /\ progress'[q].inbox \in 1..inboxes'
               /\ progress'[q].term # 0 => Elected(q[1], progress[q].term)'
    <2>1. m.inbox <= inboxes /\ m.inbox \in Nat
      BY <1>8, FieldTypes DEF AckInv, Answers, TypeOK
    <2>2. QED
      BY <1>2, <1>8, <2>1
  <1>9. ASSUME progress[q] # NoProgress, progress'[q].inbox = progress[q].inbox,
               NEW t, t = progress'[q].term,
               \/ t = progress[q].term /\ t # 0
               \/ state[q[1]] = "Leader" /\ t = term[q[1]]
        PROVE  /\ progress'[q].inbox \in 1..inboxes'
               /\ progress'[q].term # 0 => Elected(q[1], progress[q].term)'
    <2>1. Elected(q[1], t) /\ t \in Nat
      BY <1>2, <1>3, <1>4, <1>5, <1>9, LeaderWasElected
    <2>2. Elected(q[1], t)'
      BY <1>2, <2>1, ElectedStays
    <2>3. QED
      BY <1>5, <1>9, <2>2
  <1>10. QED
    BY <1>1, <1>6, <1>7, <1>8, <1>9 DEF JobFrom

\* What p acks is the end of the new append entry, and of the leader's term.
LEMMA AckPlace ==
    ASSUME TypeOK, TypeOK', Heard, NEW m \in msgs', Acks(m), NEW ae,
           ae = Head(link[<<m.to, m.from>>])
    PROVE  /\ m.to \in Server /\ m.from \in Server
           /\ ae \in AppendEntryType /\ <<m.to, m.from>> \in Pairs
           /\ 1 \in 1..Len(link[<<m.to, m.from>>]) /\ ae = link[<<m.to, m.from>>][1]
           /\ m.index = End(ae) /\ m.index \in 1..pindex(m.from)'
           /\ m.success /\ m.inbox = 0
           /\ m.term = ae.lterm /\ wal'[m.from][m.index].term = ae.lterm
           /\ term'[m.from] = ae.lterm
  <1> DEFINE a == m.to
             p == m.from
             n == ae.pindex
             e == [term |-> ae.term, lterm |-> ae.lterm, commit |-> ae.commit]
  <1>1. m \in Message
    BY DEF TypeOK
  <1>2. a \in Server /\ p \in Server /\ <<a, p>> \in Pairs
    BY <1>1, FieldTypes DEF Pairs
  <1>3. /\ link[<<a, p>>] # <<>> /\ term'[p] = ae.lterm /\ n <= pindex(p)
        /\ wal'[p] = AcceptedLog(p, ae) /\ ~Conflicts(p, ae) /\ IsNew(ae)
    BY DEF Acks, Takes
  <1>4. 1 \in 1..Len(link[<<a, p>>]) /\ ae = link[<<a, p>>][1] /\ ae \in AppendEntryType
    BY <1>2, <1>3, LinkType
  <1>5. IF ae.entry THEN ae.term = ae.lterm ELSE ae.pterm = ae.lterm /\ ae.pindex >= 1
    <2> HIDE DEF a, p, n, e
    <2>1. QED
      BY <1>2, <1>3, <1>4 DEF Heard
  <1>6. /\ m.term = TermAt(wal'[p], Len(wal'[p])) /\ m.index = Len(wal'[p])
        /\ m.success /\ m.inbox = 0
    <2>1. m = Response(p, a, TermAt(wal'[p], Len(wal'[p])), Len(wal'[p]), TRUE, 0)
      BY DEF Acks
    <2>2. QED
      BY <2>1 DEF Response
  <1>7. wal[p] \in Seq(Entry) /\ n \in 0..Len(wal[p]) /\ ae.entry \in BOOLEAN
    <2>1. n \in Nat /\ ae.entry \in BOOLEAN
      BY <1>4 DEF AppendEntryType
    <2> HIDE DEF a, p, n, e
    <2>2. wal[p] \in Seq(Entry)
      BY <1>2 DEF TypeOK
    <2>3. n <= Len(wal[p])
      BY <1>3 DEF pindex
    <2>4. QED
      BY <2>1, <2>2, <2>3
  <1>8. wal'[p] = SubSeq(wal[p], 1, n) \o (IF ae.entry THEN <<e>> ELSE <<>>)
    BY <1>3 DEF AcceptedLog
  <1>9. e \in Entry /\ e.term = ae.term
    BY <1>4 DEF AppendEntryType, Entry
  <1> HIDE DEF a, p, n, e
  <1>10. CASE ae.entry
    <2>1. wal'[p] = SubSeq(wal[p], 1, n) \o <<e>>
      BY <1>8, <1>10
    <2>2. SubSeq(wal[p], 1, n) \in Seq(Entry) /\ Len(SubSeq(wal[p], 1, n)) = n
      BY <1>7
    <2>3. Len(wal'[p]) = n + 1 /\ wal'[p][n + 1] = e
      BY <1>9, <2>1, <2>2
    <2>4. m.index = n + 1 /\ m.index \in 1..Len(wal'[p]) /\ n + 1 # 0
      BY <1>6, <1>7, <2>3
    <2>5. m.term = ae.lterm /\ wal'[p][m.index].term = ae.lterm
      BY <1>5, <1>6, <1>9, <1>10, <2>3, <2>4 DEF TermAt
    <2>6. QED
      BY <1>2, <1>3, <1>4, <1>6, <1>10, <2>4, <2>5 DEF End, pindex, a, p, n
  <1>11. CASE ~ae.entry
    <2>1. wal'[p] = SubSeq(wal[p], 1, n) \o <<>>
      BY <1>8, <1>11
    <2>2. wal'[p] = SubSeq(wal[p], 1, n) /\ n >= 1
      <3>1. SubSeq(wal[p], 1, n) \in Seq(Entry)
        BY <1>7
      <3>2. QED
        BY <1>5, <1>11, <2>1, <3>1 DEF n
    <2>3. Len(wal'[p]) = n /\ wal'[p][n] = wal[p][n] /\ n # 0
      BY <1>7, <2>2
    <2>4. wal[p][n].term = ae.pterm
      BY <1>3, <2>3 DEF Conflicts, n
    <2>5. m.index = n /\ m.index \in 1..Len(wal'[p])
      BY <1>6, <1>7, <2>2, <2>3
    <2>6. m.term = ae.lterm /\ wal'[p][m.index].term = ae.lterm
      BY <1>5, <1>6, <1>11, <2>3, <2>4, <2>5 DEF TermAt
    <2>7. QED
      BY <1>2, <1>3, <1>4, <1>6, <1>11, <2>5, <2>6 DEF End, pindex, a, p, n
  <1>12. QED
    BY <1>7, <1>10, <1>11

\* Answers are for elected servers.
LEMMA AnswersStep ==
    ASSUME TypeOK, TypeOK', ElectionInv, BallotStep, CandidatesNew, Shape, AckInv
    PROVE  Answers'
  <1>1. SUFFICES ASSUME NEW m \in msgs', m.type = "response"
                 PROVE  /\ m.inbox <= inboxes'
                        /\ m.success => /\ Elected(m.to, m.term)'
                                        /\ term'[m.from] >= m.term /\ m.index >= 1
    BY DEF Answers
  <1>2. /\ m \in Message /\ m.from \in Server /\ m.to \in Server /\ m.term \in Nat
        /\ m.inbox \in Nat /\ m.success \in BOOLEAN
    BY <1>1, FieldTypes DEF TypeOK
  <1>3. /\ inboxes \in Nat /\ inboxes' \in Nat /\ inboxes' >= inboxes
        /\ term[m.from] \in Nat /\ term'[m.from] \in Nat /\ term'[m.from] >= term[m.from]
    BY <1>2 DEF TypeOK, Shape, CatchupsFrom, TermsGrow
  <1>4. CASE m \in msgs
    <2>1. /\ m.inbox <= inboxes
          /\ m.success => /\ Elected(m.to, m.term)
                          /\ term[m.from] >= m.term /\ m.index >= 1
      BY <1>1, <1>4 DEF AckInv, Answers
    <2>2. m.success => Elected(m.to, m.term)'
      BY <1>2, <2>1, ElectedStays
    <2>3. QED
      BY <1>2, <1>3, <2>1, <2>2
  <1>5. CASE m \notin msgs /\ ~m.success
    <2>1. m.inbox = 0 \/ Asks(m)
      <3>1. Acks(m) => m.success
        BY AckPlace DEF AckInv
      <3>2. QED
        BY <1>1, <1>5, <3>1 DEF Shape, AnswersFrom
    <2>2. QED
      BY <1>3, <1>5, <2>1 DEF Asks
  <1>6. CASE m \notin msgs /\ m.success
    <2>1. Acks(m)
      BY <1>1, <1>6 DEF Shape, AnswersFrom, Asks
    <2> DEFINE ae == Head(link[<<m.to, m.from>>])
    <2>2. /\ <<m.to, m.from>> \in Pairs
          /\ 1 \in 1..Len(link[<<m.to, m.from>>]) /\ ae = link[<<m.to, m.from>>][1]
          /\ m.inbox = 0 /\ m.index \in 1..pindex(m.from)'
          /\ m.term = ae.lterm /\ term'[m.from] = ae.lterm
      BY <2>1, AckPlace DEF AckInv
    <2> HIDE DEF ae
    <2>3. Elected(m.to, m.term)
      BY <2>2 DEF AckInv, Heard
    <2>4. Elected(m.to, m.term)'
      BY <1>2, <2>3, ElectedStays
    <2>5. QED
      BY <1>2, <1>3, <2>2, <2>4
  <1>7. QED
    BY <1>4, <1>5, <1>6

\* Acks are counted by leaders, from peers that have reached the leader's term.
LEMMA CountedStep ==
    ASSUME TypeOK, TypeOK', Shape, AckInv
    PROVE  Counted'
  <1>1. SUFFICES ASSUME NEW s \in Server, NEW a \in acks'[s]
                 PROVE  state'[s] = "Leader" /\ term'[a[2]] >= term'[s] /\ a[1] >= 1
    BY DEF Counted
  <1>2. a \in Nat \X Server
    BY DEF TypeOK
  <1>3. \A p \in Server : term[p] \in Nat /\ term'[p] \in Nat /\ term'[p] >= term[p]
    BY DEF TypeOK, Shape, TermsGrow
  <1>4. state'[s] = "Leader" /\ term'[s] = term[s]
    BY DEF Shape, AcksFrom, LeadersGrow
  <1>5. CASE a \in acks[s]
    BY <1>2, <1>3, <1>4, <1>5 DEF AckInv, Counted
  <1>6. CASE \E m \in msgs : /\ m.type = "response" /\ m.success
                             /\ m.to = s /\ m.term = term[s]
                             /\ a = <<m.index, m.from>>
    <2>1. PICK m \in msgs : /\ m.type = "response" /\ m.success
                            /\ m.to = s /\ m.term = term[s]
                            /\ a = <<m.index, m.from>>
      BY <1>6
    <2>2. term[a[2]] >= term[s] /\ a[1] >= 1
      BY <2>1 DEF AckInv, Answers
    <2>3. QED
      BY <1>2, <1>3, <1>4, <2>2
  <1>7. QED
    BY <1>5, <1>6 DEF Shape, AcksFrom

\* The log of a leader ends with an entry of its term.
LEMMA TailStep ==
    ASSUME TypeOK, TypeOK', Shape, AckInv
    PROVE  LeaderTail'
  <1>1. SUFFICES ASSUME NEW s \in Server, state'[s] = "Leader"
                 PROVE  /\ Len(wal'[s]) >= 1
                        /\ wal'[s][Len(wal'[s])].term = term'[s]
    BY DEF LeaderTail, pindex
  <1>2. term'[s] = term[s] /\ wal[s] \in Seq(Entry)
    BY <1>1 DEF Shape, LeadersGrow, TypeOK
  <1>3. CASE state[s] = "Leader" /\ wal'[s] = wal[s]
    BY <1>2, <1>3 DEF AckInv, LeaderTail, pindex
  <1>4. ASSUME NEW e \in Entry, e.term = term[s], wal'[s] = Append(wal[s], e)
        PROVE  /\ Len(wal'[s]) >= 1
               /\ wal'[s][Len(wal'[s])].term = term'[s]
    <2>1. Len(wal'[s]) = Len(wal[s]) + 1 /\ wal'[s][Len(wal[s]) + 1] = e
          /\ Len(wal[s]) \in Nat
      BY <1>2, <1>4
    <2>2. QED
      BY <1>2, <1>4, <2>1
  <1>5. QED
    BY <1>1, <1>3, <1>4 DEF Shape, LeadersGrow

\* What a leader had in its log it still has.
LEMMA LeaderKeeps ==
    ASSUME TypeOK, Shape, NEW s \in Server, state'[s] = "Leader"
    PROVE  /\ pindex(s) \in Nat /\ pindex(s)' \in Nat /\ pindex(s) <= pindex(s)'
           /\ \A i \in 1..pindex(s) : wal'[s][i] = wal[s][i]
           /\ \A ae \in AppendEntryType : Copies(s, ae) => Copies(s, ae)'
  <1>1. wal[s] \in Seq(Entry) /\ pindex(s) = Len(wal[s]) /\ pindex(s)' = Len(wal'[s])
    BY DEF TypeOK, pindex
  <1>2. /\ Len(wal[s]) \in Nat /\ Len(wal'[s]) \in Nat /\ Len(wal[s]) <= Len(wal'[s])
        /\ \A i \in 1..Len(wal[s]) : wal'[s][i] = wal[s][i]
    <2>1. CASE wal'[s] = wal[s]
      BY <1>1, <2>1
    <2>2. ASSUME NEW e \in Entry, wal'[s] = Append(wal[s], e)
          PROVE  /\ Len(wal[s]) \in Nat /\ Len(wal'[s]) \in Nat
                 /\ Len(wal[s]) <= Len(wal'[s])
                 /\ \A i \in 1..Len(wal[s]) : wal'[s][i] = wal[s][i]
      BY <1>1, <2>2
    <2>3. QED
      BY <2>1, <2>2 DEF Shape, LeadersGrow
  <1>3. ASSUME NEW ae \in AppendEntryType, Copies(s, ae)
        PROVE  Copies(s, ae)'
    <2>1. ae.pindex \in Nat /\ ae.entry \in BOOLEAN
      BY DEF AppendEntryType
    <2>2. /\ ae.pindex <= Len(wal[s]) /\ ae.pterm = TermAt(wal[s], ae.pindex)
          /\ ae.entry => ae.pindex < Len(wal[s]) /\ ae.term = wal[s][ae.pindex + 1].term
      BY <1>1, <1>3 DEF Copies
    <2>3. TermAt(wal'[s], ae.pindex) = TermAt(wal[s], ae.pindex)
      BY <1>2, <2>1, <2>2 DEF TermAt
    <2>4. ae.entry => ae.pindex < Len(wal'[s]) /\ ae.term = wal'[s][ae.pindex + 1].term
      <3>1. SUFFICES ASSUME ae.entry
                     PROVE  ae.pindex < Len(wal'[s]) /\ ae.term = wal'[s][ae.pindex + 1].term
        OBVIOUS
      <3>2. ae.pindex < Len(wal[s]) /\ ae.term = wal[s][ae.pindex + 1].term
        BY <2>2, <3>1
      <3>3. ae.pindex + 1 \in 1..Len(wal[s]) /\ ae.pindex < Len(wal'[s])
        BY <1>2, <2>1, <3>2
      <3>4. QED
        BY <1>2, <3>2, <3>3
    <2>5. ae.pindex <= Len(wal'[s])
      BY <1>2, <2>1, <2>2
    <2>6. QED
      BY <2>2, <2>3, <2>4, <2>5 DEF Copies, pindex
  <1>4. QED
    BY <1>1, <1>2, <1>3

\* A server that has just won an election has sent nothing in its term.
LEMMA SentByLeader ==
    ASSUME TypeOK, Heard, Shape, NEW s \in Server, NEW p \in Server,
           state'[s] = "Leader",
           NEW k \in 1..Len(link[<<s, p>>]), link[<<s, p>>][k].lterm = term[s]
    PROVE  state[s] = "Leader"
  <1>1. <<s, p>> \in Pairs
    BY DEF Pairs
  <1>2. Elected(s, term[s])
    BY <1>1 DEF Heard
  <1>3. state[s] # "Candidate"
    BY <1>2 DEF Elected
  <1>4. QED
    BY <1>3 DEF Shape, LeadersGrow

\* What a leader sends in its term is what it has.
LEMMA OwnEntriesStep ==
    ASSUME TypeOK, TypeOK', Shape, AckInv
    PROVE  OwnEntries'
  <1>1. SUFFICES ASSUME NEW s \in Server, NEW p \in Server, state'[s] = "Leader",
                        NEW k \in 1..Len(link'[<<s, p>>]),
                        link'[<<s, p>>][k].lterm = term'[s]
                 PROVE  Copies(s, link[<<s, p>>][k])'
    BY DEF OwnEntries
  <1> DEFINE q == <<s, p>>
             ae == link'[q][k]
  <1>2. q \in Pairs /\ LinkFrom(q) /\ q[1] = s
    BY DEF Pairs, Shape, LinksFrom
  <1>3. term'[s] = term[s]
    BY <1>1 DEF Shape, LeadersGrow
  <1>4. ae \in AppendEntryType
    <2>1. link' \in [Pairs -> Seq(AppendEntryType)]
      BY DEF TypeOK
    <2>2. link'[q] \in Seq(AppendEntryType)
      BY <1>2, <2>1
    <2>3. QED
      BY <2>2
  <1>5. ASSUME Copies(s, ae)
        PROVE  Copies(s, link[<<s, p>>][k])'
    <2> HIDE DEF ae
    <2>1. \A be \in AppendEntryType : Copies(s, be) => Copies(s, be)'
      BY <1>1, LeaderKeeps
    <2>2. PICK be \in AppendEntryType : be = ae
      BY <1>4
    <2>3. Copies(s, be)'
      BY <1>5, <2>1, <2>2
    <2>4. QED
      BY <2>2, <2>3 DEF ae, q, Copies
  <1>6. CASE \E j \in 1..Len(link[q]) : ae = link[q][j]
    <2>1. PICK j \in 1..Len(link[q]) : ae = link[q][j]
      BY <1>6
    <2>2. link[q][j].lterm = term[s]
      BY <1>1, <1>3, <2>1
    <2>3. state[s] = "Leader"
      BY <1>1, <2>1, <2>2, SentByLeader DEF AckInv
    <2>4. Copies(s, link[q][j])
      BY <2>1, <2>2, <2>3 DEF AckInv, OwnEntries
    <2>5. QED
      BY <1>5, <2>1, <2>4
  <1>7. CASE CatchupFrom(q, ae)
    <2>1. Copies(s, ae)
      BY <1>2, <1>7 DEF CatchupFrom
    <2>2. QED
      BY <1>5, <2>1
  <1>8. CASE NewFrom(s, ae)
    <2>1. /\ ae.pindex = pindex(s) /\ ae.pterm = pterm(s)
          /\ ~ae.entry => wal'[s] = wal[s]
          /\ ae.entry => /\ ae.term = term[s]
                         /\ \E e \in Entry : e.term = term[s] /\ wal'[s] = Append(wal[s], e)
      BY <1>8 DEF NewFrom
    <2> HIDE DEF ae
    <2>2. wal[s] \in Seq(Entry) /\ pindex(s) = Len(wal[s]) /\ Len(wal[s]) \in Nat
      BY DEF TypeOK, pindex
    <2>3. CASE ~ae.entry
      <3>1. Copies(s, ae)
        BY <2>1, <2>2, <2>3 DEF Copies, pterm
      <3>2. QED
        BY <1>5, <3>1
    <2>4. CASE ae.entry
      <3>1. PICK e \in Entry : e.term = term[s] /\ wal'[s] = Append(wal[s], e)
        BY <2>1, <2>4
      <3>2. /\ Len(wal'[s]) = Len(wal[s]) + 1 /\ wal'[s][Len(wal[s]) + 1] = e
            /\ \A i \in 1..Len(wal[s]) : wal'[s][i] = wal[s][i]
        BY <2>2, <3>1
      <3>3. TermAt(wal'[s], Len(wal[s])) = TermAt(wal[s], Len(wal[s]))
        BY <2>2, <3>2 DEF TermAt
      <3>4. /\ ae.pindex <= Len(wal'[s]) /\ ae.pterm = TermAt(wal'[s], ae.pindex)
            /\ ae.pindex < Len(wal'[s])
        BY <2>1, <2>2, <3>2, <3>3 DEF pterm
      <3>5. ae.term = wal'[s][ae.pindex + 1].term
        BY <2>1, <2>2, <2>4, <3>1, <3>2
      <3>6. QED
        BY <3>4, <3>5 DEF Copies, pindex, ae, q
    <2>5. QED
      BY <2>3, <2>4
  <1>9. QED
    BY <1>2, <1>6, <1>7, <1>8, LinkCases

-----------------------------------------------------------------------------
(* The invariant is kept: what was acked *)

\* An ack that a leader has or will get was there before, or is sent now.
LEMMA AckedBefore ==
    ASSUME TypeOK, TypeOK', Shape, AckInv, NEW s \in Server, NEW p \in Server,
           state'[s] = "Leader", term'[p] = term'[s], NEW i \in Nat, Acked(s, p, i)'
    PROVE  /\ term'[s] = term[s]
           /\ \/ state[s] = "Leader" /\ term[p] = term[s] /\ Acked(s, p, i)
              \/ \E m \in msgs' : Acks(m) /\ m.from = p /\ m.to = s /\ m.index = i
  <1>1. term'[s] = term[s] /\ state[s] \in {"Candidate", "Leader"}
    BY DEF Shape, LeadersGrow
  <1>2. \A r \in Server : term[r] \in Nat /\ term'[r] \in Nat /\ term'[r] >= term[r]
    BY DEF TypeOK, Shape, TermsGrow
  <1>3. ASSUME term[p] >= term[s] PROVE term[p] = term[s]
    <2>1. term[p] \in Nat /\ term[s] \in Nat /\ term'[p] >= term[p] /\ term'[p] = term[s]
      BY <1>1, <1>2
    <2>2. QED
      BY <1>3, <2>1
  <1>4. ASSUME NEW m \in msgs, m.type = "response", m.success, m.from = p, m.to = s,
               m.term = term[s], m.index = i
        PROVE  state[s] = "Leader" /\ term[p] = term[s] /\ Acked(s, p, i)
    <2>1. Elected(s, term[s]) /\ term[p] >= term[s]
      BY <1>4 DEF AckInv, Answers
    <2>2. state[s] # "Candidate"
      BY <2>1 DEF Elected
    <2>3. Acked(s, p, i)
      BY <1>4 DEF Acked
    <2>4. QED
      BY <1>1, <1>3, <2>1, <2>2, <2>3
  <1>5. CASE <<i, p>> \in acks'[s]
    <2>1. CASE <<i, p>> \in acks[s]
      <3>1. state[s] = "Leader" /\ term[p] >= term[s]
        BY <2>1 DEF AckInv, Counted
      <3>2. QED
        BY <1>1, <1>3, <2>1, <3>1 DEF Acked
    <2>2. CASE <<i, p>> \notin acks[s]
      <3>1. PICK m \in msgs : /\ m.type = "response" /\ m.success
                              /\ m.to = s /\ m.term = term[s]
                              /\ <<i, p>> = <<m.index, m.from>>
        BY <1>5, <2>2 DEF Shape, AcksFrom
      <3>2. QED
        BY <1>1, <1>4, <3>1
    <2>3. QED
      BY <2>1, <2>2
  <1>6. CASE <<i, p>> \notin acks'[s]
    <2>1. PICK m \in msgs' : /\ m.type = "response" /\ m.success
                             /\ m.from = p /\ m.to = s
                             /\ m.term = term'[s] /\ m.index = i
      BY <1>6 DEF Acked
    <2>2. CASE m \in msgs
      BY <1>1, <1>4, <2>1, <2>2
    <2>3. CASE m \notin msgs
      <3>1. Acks(m)
        BY <2>1, <2>3 DEF Shape, AnswersFrom, Asks
      <3>2. QED
        BY <1>1, <2>1, <3>1
    <2>4. QED
      BY <2>2, <2>3
  <1>7. QED
    BY <1>5, <1>6

\* An append entry that p takes in the leader's term comes from the leader, and
\* points past all that p has acked.
LEMMA TakesPlace ==
    ASSUME TypeOK, ElectionInv, AckInv, NEW s \in Server, NEW p \in Server,
           state[s] = "Leader", term[p] = term[s],
           NEW a \in Server, Takes(a, p), term'[p] = term[s],
           NEW i \in Nat, Acked(s, p, i), NEW ae, ae = Head(link[<<a, p>>])
    PROVE  /\ a = s /\ i <= ae.pindex /\ ae.pindex \in Nat
           /\ ae.pterm = TermAt(wal[s], ae.pindex)
  <1>1. <<a, p>> \in Pairs /\ link[<<a, p>>] # <<>> /\ ae.lterm = term[s]
    BY DEF Pairs, Takes
  <1>2. 1 \in 1..Len(link[<<a, p>>]) /\ ae = link[<<a, p>>][1] /\ ae \in AppendEntryType
    BY <1>1, LinkType
  <1>3. Elected(a, term[s])
    BY <1>1, <1>2 DEF AckInv, Heard
  <1>4. a = s
    BY <1>3, ElectedIsLeader
  <1>5. Copies(s, ae)
    BY <1>1, <1>2, <1>4 DEF AckInv, OwnEntries
  <1>6. ae.pindex \in Nat /\ ae.inbox \in Nat
    BY <1>2 DEF AppendEntryType
  <1>7. i <= ae.pindex
    <2>1. CASE IsNew(ae)
      BY <1>1, <1>2, <1>4, <2>1 DEF AckInv, InOrder
    <2>2. CASE ~IsNew(ae) /\ ae.pindex >= pindex(p)
      <3>1. i <= pindex(p)
        BY DEF AckInv, AckedByBoth
      <3>2. pindex(p) \in Nat
        BY DEF pindex, TypeOK
      <3>3. QED
        BY <1>6, <2>2, <3>1, <3>2
    <2>3. CASE ~IsNew(ae) /\ ~(ae.pindex >= pindex(p))
      <3>1. pindex(p) \in Nat
        BY DEF pindex, TypeOK
      <3>2. ae.pindex < pindex(p)
        BY <1>6, <2>3, <3>1
      <3>3. ae.inbox = catchup[p].inbox /\ catchup[p].inbox # 0
        BY <2>3, <3>2 DEF Takes, Current, OldCatchup, IsNew
      <3>4. Offers(s, p, catchup[p].inbox, ae.pindex)
        BY <1>2, <1>4, <3>3 DEF Offers
      <3>5. QED
        BY <1>6, <3>3, <3>4 DEF AckInv, CatchupAfterAcks
    <2>4. QED
      BY <2>1, <2>2, <2>3
  <1>8. QED
    BY <1>4, <1>5, <1>6, <1>7 DEF Copies

\* What p has acked stays in its log.
LEMMA AckedStays ==
    ASSUME TypeOK, TypeOK', ElectionInv, Shape, AckInv, NEW s \in Server, NEW p \in Server,
           state[s] = "Leader", term[p] = term[s], term'[p] = term[s],
           NEW i \in Nat, Acked(s, p, i)
    PROVE  i \in 1..pindex(p)' /\ wal'[p][i].term = term[s]
  <1>1. /\ i \in 1..pindex(p) /\ wal[p][i].term = term[s]
        /\ i \in 1..pindex(s) /\ wal[s][i].term = term[s]
    BY DEF AckInv, AckedByBoth
  <1>2. wal[p] \in Seq(Entry) /\ pindex(p) = Len(wal[p]) /\ Len(wal[p]) \in Nat
    BY DEF TypeOK, pindex
  <1>3. CASE wal'[p] = wal[p]
    BY <1>1, <1>3 DEF pindex
  <1>4. ASSUME NEW e \in Entry, wal'[p] = Append(wal[p], e)
        PROVE  i \in 1..pindex(p)' /\ wal'[p][i].term = term[s]
    <2>1. Len(wal'[p]) = Len(wal[p]) + 1 /\ wal'[p][i] = wal[p][i]
      BY <1>1, <1>2, <1>4
    <2>2. QED
      BY <1>1, <1>2, <2>1 DEF pindex
  <1>5. ASSUME NEW a \in Server, Takes(a, p)
        PROVE  i \in 1..pindex(p)' /\ wal'[p][i].term = term[s]
    <2> DEFINE ae == Head(link[<<a, p>>])
               n == ae.pindex
    <2>1. i <= n /\ n \in Nat /\ ae.pterm = TermAt(wal[s], n)
      BY <1>5, TakesPlace
    <2>2. /\ n <= pindex(p)
          /\ \/ Conflicts(p, ae) /\ wal'[p] = SubSeq(wal[p], 1, n - 1)
             \/ ~Conflicts(p, ae) /\ wal'[p] = AcceptedLog(p, ae)
      BY <1>5 DEF Takes
    <2> HIDE DEF ae, n
    <2>3. n \in 1..Len(wal[p]) /\ i \in 1..n
      BY <1>1, <1>2, <2>1, <2>2
    <2>4. CASE Conflicts(p, ae) /\ wal'[p] = SubSeq(wal[p], 1, n - 1)
      <3>1. wal[p][n].term # TermAt(wal[s], n) /\ n # 0
        BY <2>1, <2>3, <2>4 DEF Conflicts, n
      <3>2. i # n
        BY <1>1, <3>1 DEF TermAt
      <3>3. i \in 1..n - 1 /\ n - 1 \in 0..Len(wal[p])
        BY <2>3, <3>2
      <3>4. Len(wal'[p]) = n - 1 /\ wal'[p][i] = wal[p][i]
        BY <1>2, <2>4, <3>3
      <3>5. QED
        BY <1>1, <3>3, <3>4 DEF pindex
    <2>5. CASE ~Conflicts(p, ae) /\ wal'[p] = AcceptedLog(p, ae)
      <3> DEFINE log == SubSeq(wal[p], 1, n)
                 e == [term |-> ae.term, lterm |-> ae.lterm, commit |-> ae.commit]
      <3>1. wal'[p] = log \o (IF ae.entry THEN <<e>> ELSE <<>>)
        BY <2>5 DEF AcceptedLog, n
      <3>2. log \in Seq(Entry) /\ Len(log) = n /\ log[i] = wal[p][i]
        BY <1>2, <2>3
      <3> HIDE DEF log, e
      <3>3. wal'[p] = log \o <<e>> \/ wal'[p] = log \o <<>>
        BY <3>1
      <3>4. Len(wal'[p]) \in Nat /\ Len(wal'[p]) >= n /\ wal'[p][i] = log[i]
        <4>1. CASE wal'[p] = log \o <<>>
          <5>1. wal'[p] = log
            BY <3>2, <4>1
          <5>2. QED
            BY <2>1, <3>2, <5>1
        <4>2. CASE wal'[p] = log \o <<e>>
          <5>1. Len(wal'[p]) = n + 1 /\ wal'[p][i] = log[i]
            BY <2>3, <3>2, <4>2
          <5>2. QED
            BY <2>1, <5>1
        <4>3. QED
          BY <3>3, <4>1, <4>2
      <3>5. QED
        BY <1>1, <2>3, <3>2, <3>4 DEF pindex
    <2>6. QED
      BY <2>2, <2>4, <2>5
  <1>6. QED
    BY <1>3, <1>4, <1>5 DEF Shape, LogsFrom

\* An append entry whose ack is sent now, by the leader's peer p.
LEMMA AckNow ==
    ASSUME TypeOK, TypeOK', Shape, AckInv, NEW s \in Server, NEW p \in Server,
           state'[s] = "Leader", term'[p] = term[s],
           NEW m \in msgs', Acks(m), m.from = p, m.to = s,
           NEW ae, ae = Head(link[<<s, p>>])
    PROVE  /\ state[s] = "Leader" /\ wal'[s] = wal[s]
           /\ 1 \in 1..Len(link[<<s, p>>]) /\ ae = link[<<s, p>>][1]
           /\ IsNew(ae) /\ ae.lterm = term[s] /\ ae \in AppendEntryType
           /\ m.index = End(ae) /\ Copies(s, ae)
           /\ m.index \in 1..pindex(p)' /\ wal'[p][m.index].term = term[s]
           /\ link'[<<s, p>>] = Tail(link[<<s, p>>]) /\ catchup'[p] = NoCatchup
  <1>1. /\ 1 \in 1..Len(link[<<s, p>>]) /\ ae = link[<<s, p>>][1]
        /\ ae \in AppendEntryType /\ ae.lterm = term[s]
        /\ m.index = End(ae)
        /\ m.index \in 1..pindex(p)' /\ wal'[p][m.index].term = term[s]
    BY AckPlace DEF AckInv
  <1>2. /\ IsNew(ae) /\ state'[p] = "Follower"
        /\ link'[<<s, p>>] = Tail(link[<<s, p>>]) /\ catchup'[p] = NoCatchup
        /\ \A r \in Server \ {p} : state'[r] = state[r] /\ wal'[r] = wal[r]
    BY DEF Acks
  <1>3. state[s] = "Leader" /\ wal'[s] = wal[s]
    BY <1>2
  <1>4. Copies(s, ae)
    BY <1>1, <1>3 DEF AckInv, OwnEntries
  <1>5. QED
    BY <1>1, <1>2, <1>3, <1>4

\* Leader and peer have what was acked.
LEMMA AckedByBothStep ==
    ASSUME TypeOK, TypeOK', ElectionInv, Shape, AckInv
    PROVE  AckedByBoth'
  <1>1. SUFFICES ASSUME NEW s \in Server, NEW p \in Server, state'[s] = "Leader",
                        term'[p] = term'[s], NEW i \in Nat, Acked(s, p, i)'
                 PROVE  /\ i \in 1..pindex(p)' /\ wal'[p][i].term = term'[s]
                        /\ i \in 1..pindex(s)' /\ wal'[s][i].term = term'[s]
    BY DEF AckedByBoth
  <1>2. /\ term'[s] = term[s]
        /\ \/ state[s] = "Leader" /\ term[p] = term[s] /\ Acked(s, p, i)
           \/ \E m \in msgs' : Acks(m) /\ m.from = p /\ m.to = s /\ m.index = i
    BY <1>1, AckedBefore
  <1>3. /\ pindex(s) \in Nat /\ pindex(s)' \in Nat /\ pindex(s) <= pindex(s)'
        /\ \A j \in 1..pindex(s) : wal'[s][j] = wal[s][j]
    BY <1>1, LeaderKeeps
  <1>4. CASE state[s] = "Leader" /\ term[p] = term[s] /\ Acked(s, p, i)
    <2>1. i \in 1..pindex(p)' /\ wal'[p][i].term = term[s]
      BY <1>1, <1>2, <1>4, AckedStays
    <2>2. i \in 1..pindex(s) /\ wal[s][i].term = term[s]
      BY <1>4 DEF AckInv, AckedByBoth
    <2>3. QED
      BY <1>2, <1>3, <2>1, <2>2
  <1>5. ASSUME NEW m \in msgs', Acks(m), m.from = p, m.to = s, m.index = i
        PROVE  /\ i \in 1..pindex(p)' /\ wal'[p][i].term = term'[s]
               /\ i \in 1..pindex(s)' /\ wal'[s][i].term = term'[s]
    <2> DEFINE ae == Head(link[<<s, p>>])
    <2>1. /\ state[s] = "Leader" /\ wal'[s] = wal[s]
          /\ 1 \in 1..Len(link[<<s, p>>]) /\ ae = link[<<s, p>>][1]
          /\ IsNew(ae) /\ ae.lterm = term[s] /\ ae \in AppendEntryType
          /\ i = End(ae) /\ Copies(s, ae)
          /\ i \in 1..pindex(p)' /\ wal'[p][i].term = term[s]
      BY <1>1, <1>2, <1>5, AckNow
    <2> HIDE DEF ae
    <2>2. IF ae.entry THEN ae.term = ae.lterm ELSE ae.pterm = ae.lterm /\ ae.pindex >= 1
      BY <2>1 DEF AckInv, Heard, Pairs
    <2>3. ae.pindex \in Nat
      BY <2>1 DEF AppendEntryType
    <2>4. i \in 1..pindex(s) /\ wal[s][i].term = term[s]
      <3>1. CASE ae.entry
        <4>1. i = ae.pindex + 1 /\ ae.pindex < pindex(s) /\ wal[s][i].term = ae.term
          BY <2>1, <3>1 DEF End, Copies
        <4>2. QED
          BY <1>3, <2>1, <2>2, <2>3, <3>1, <4>1
      <3>2. CASE ~ae.entry
        <4>1. i = ae.pindex /\ ae.pindex <= pindex(s) /\ ae.pindex >= 1
              /\ ae.pterm = TermAt(wal[s], i)
          BY <2>1, <2>2, <3>2 DEF End, Copies
        <4>2. wal[s][i].term = ae.pterm
          BY <4>1, <2>3 DEF TermAt
        <4>3. QED
          BY <1>3, <2>1, <2>2, <2>3, <3>2, <4>1, <4>2
      <3>3. QED
        BY <3>1, <3>2
    <2>5. QED
      BY <1>2, <1>3, <2>1, <2>4
  <1>6. QED
    BY <1>2, <1>4, <1>5

\* Where an append entry was on its link before the step.
LEMMA LinkOrder ==
    ASSUME TypeOK, NEW q \in Pairs, LinkFrom(q)
    PROVE  \/ \E d \in {0, 1} :
                  /\ Len(link'[q]) = Len(link[q]) - d
                  /\ \A k \in 1..Len(link'[q]) :
                         k + d \in 1..Len(link[q]) /\ link'[q][k] = link[q][k + d]
                  /\ d = 1 => link[q] # <<>>
           \/ /\ Len(link'[q]) = Len(link[q]) + 1
              /\ \A k \in 1..Len(link[q]) : link'[q][k] = link[q][k]
              /\ \/ NewFrom(q[1], link'[q][Len(link[q]) + 1])
                 \/ CatchupFrom(q, link'[q][Len(link[q]) + 1])
  <1>1. link[q] \in Seq(AppendEntryType) /\ Len(link[q]) \in Nat
    BY LinkType
  <1>2. CASE link'[q] = link[q]
    <2>1. /\ Len(link'[q]) = Len(link[q]) - 0
          /\ \A k \in 1..Len(link'[q]) :
                 k + 0 \in 1..Len(link[q]) /\ link'[q][k] = link[q][k + 0]
      BY <1>1, <1>2
    <2>2. QED
      BY <2>1
  <1>3. CASE link[q] # <<>> /\ link'[q] = Tail(link[q])
    <2>1. /\ Len(link'[q]) = Len(link[q]) - 1
          /\ \A k \in 1..Len(link'[q]) :
                 k + 1 \in 1..Len(link[q]) /\ link'[q][k] = link[q][k + 1]
      BY <1>1, <1>3
    <2>2. QED
      BY <1>3, <2>1
  <1>4. ASSUME NEW ae \in AppendEntryType, link'[q] = Append(link[q], ae),
               NewFrom(q[1], ae) \/ CatchupFrom(q, ae)
        PROVE  /\ Len(link'[q]) = Len(link[q]) + 1
               /\ \A k \in 1..Len(link[q]) : link'[q][k] = link[q][k]
               /\ \/ NewFrom(q[1], link'[q][Len(link[q]) + 1])
                  \/ CatchupFrom(q, link'[q][Len(link[q]) + 1])
    <2>1. /\ Len(link'[q]) = Len(link[q]) + 1
          /\ \A k \in 1..Len(link[q]) : link'[q][k] = link[q][k]
          /\ link'[q][Len(link[q]) + 1] = ae
      BY <1>1, <1>4
    <2>2. QED
      BY <1>4, <2>1
  <1>5. QED
    BY <1>2, <1>3, <1>4 DEF LinkFrom

\* An append entry that was on the link of a leader stays behind what was sent
\* before it and what was acked.
LEMMA OldInOrder ==
    ASSUME TypeOK, TypeOK', Shape, AckInv, NEW s \in Server, NEW p \in Server,
           state'[s] = "Leader", NEW j \in 1..Len(link[<<s, p>>]), NEW ae,
           ae = link[<<s, p>>][j], IsNew(ae), ae.lterm = term[s],
           link'[<<s, p>>] = Tail(link[<<s, p>>]) => j # 1
    PROVE  /\ \A k \in 1..j - 1 :
                  LET be == link[<<s, p>>][k] IN
                  IsNew(be) /\ be.lterm = term[s] => End(be) <= ae.pindex
           /\ \A i \in Nat :
                  Acked(s, p, i)' /\ term'[p] = term'[s] => i <= ae.pindex
  <1>1. state[s] = "Leader"
    BY SentByLeader DEF AckInv
  <1>2. \A k \in 1..j - 1 :
            LET be == link[<<s, p>>][k] IN
            IsNew(be) /\ be.lterm = term[s] => End(be) <= ae.pindex
    BY <1>1 DEF AckInv, InOrder
  <1>3. ASSUME NEW i \in Nat, Acked(s, p, i)', term'[p] = term'[s]
        PROVE  i <= ae.pindex
    <2>1. /\ term'[s] = term[s]
          /\ \/ state[s] = "Leader" /\ term[p] = term[s] /\ Acked(s, p, i)
             \/ \E m \in msgs' : Acks(m) /\ m.from = p /\ m.to = s /\ m.index = i
      BY <1>3, AckedBefore
    <2>2. CASE term[p] = term[s] /\ Acked(s, p, i)
      BY <1>1, <2>2 DEF AckInv, InOrder
    <2>3. ASSUME NEW m \in msgs', Acks(m), m.from = p, m.to = s, m.index = i
          PROVE  i <= ae.pindex
      <3> DEFINE be == Head(link[<<s, p>>])
      <3>1. /\ be = link[<<s, p>>][1] /\ IsNew(be) /\ be.lterm = term[s]
            /\ i = End(be) /\ link'[<<s, p>>] = Tail(link[<<s, p>>])
        BY <1>3, <2>1, <2>3, AckNow
      <3> HIDE DEF be
      <3>2. 1 \in 1..j - 1
        BY <3>1
      <3>3. QED
        BY <1>2, <3>1, <3>2
    <2>4. QED
      BY <2>1, <2>2, <2>3
  <1>4. QED
    BY <1>2, <1>3

\* What a leader sends now comes after what it sent before and what was acked.
LEMMA NewInOrder ==
    ASSUME TypeOK, TypeOK', Shape, AckInv, NEW s \in Server, NEW p \in Server,
           state'[s] = "Leader", Len(link'[<<s, p>>]) = Len(link[<<s, p>>]) + 1
    PROVE  /\ \A k \in 1..Len(link[<<s, p>>]) :
                  LET be == link[<<s, p>>][k] IN
                  IsNew(be) /\ be.lterm = term[s] => End(be) <= pindex(s)
           /\ \A i \in Nat :
                  Acked(s, p, i)' /\ term'[p] = term'[s] => i <= pindex(s)
  <1>1. pindex(s) \in Nat
    BY DEF pindex, TypeOK
  <1>2. <<s, p>> \in Pairs
    BY DEF Pairs
  <1>3. ASSUME NEW k \in 1..Len(link[<<s, p>>]), NEW be, be = link[<<s, p>>][k],
               be.lterm = term[s]
        PROVE  End(be) <= pindex(s)
    <2>1. state[s] = "Leader"
      BY <1>3, SentByLeader DEF AckInv
    <2>2. Copies(s, be)
      BY <1>3, <2>1 DEF AckInv, OwnEntries
    <2>3. be.pindex \in Nat
      BY <1>2, <1>3, LinkType
    <2>4. QED
      BY <1>1, <2>2, <2>3 DEF Copies, End
  <1>4. ASSUME NEW i \in Nat, Acked(s, p, i)', term'[p] = term'[s]
        PROVE  i <= pindex(s)
    <2>1. /\ term'[s] = term[s]
          /\ \/ state[s] = "Leader" /\ term[p] = term[s] /\ Acked(s, p, i)
             \/ \E m \in msgs' : Acks(m) /\ m.from = p /\ m.to = s /\ m.index = i
      BY <1>4, AckedBefore
    <2>2. CASE state[s] = "Leader" /\ term[p] = term[s] /\ Acked(s, p, i)
      <3>1. i \in 1..pindex(s)
        BY <2>2 DEF AckInv, AckedByBoth
      <3>2. QED
        BY <1>1, <3>1
    <2>3. ASSUME NEW m \in msgs', Acks(m), m.from = p, m.to = s PROVE FALSE
      <3>1. link[<<s, p>>] # <<>> /\ link'[<<s, p>>] = Tail(link[<<s, p>>])
        BY <2>3 DEF Acks, Takes
      <3>2. link[<<s, p>>] \in Seq(AppendEntryType) /\ Len(link[<<s, p>>]) \in Nat
        BY <1>2, LinkType
      <3>3. Len(link'[<<s, p>>]) = Len(link[<<s, p>>]) - 1
        BY <3>1, <3>2
      <3>4. QED
        BY <3>2, <3>3
    <2>4. QED
      BY <2>1, <2>2, <2>3
  <1>5. QED
    BY <1>3, <1>4

\* New append entries stay in order.
LEMMA InOrderStep ==
    ASSUME TypeOK, TypeOK', Shape, AckInv
    PROVE  InOrder'
  <1>1. SUFFICES ASSUME NEW s \in Server, NEW p \in Server, state'[s] = "Leader",
                        NEW k \in 1..Len(link'[<<s, p>>]), NEW ae,
                        ae = link'[<<s, p>>][k], IsNew(ae), ae.lterm = term'[s]
                 PROVE  /\ \A j \in 1..k - 1 :
                               LET be == link'[<<s, p>>][j] IN
                               IsNew(be) /\ be.lterm = term'[s] => End(be) <= ae.pindex
                        /\ \A i \in Nat :
                               Acked(s, p, i)' /\ term'[p] = term'[s] => i <= ae.pindex
    BY DEF InOrder, IsNew, End
  <1> DEFINE q == <<s, p>>
  <1>2. q \in Pairs /\ LinkFrom(q) /\ q[1] = s
    BY DEF Pairs, Shape, LinksFrom
  <1>3. term'[s] = term[s]
    BY <1>1 DEF Shape, LeadersGrow
  <1>4. Len(link[q]) \in Nat /\ link[q] \in Seq(AppendEntryType)
    BY <1>2, LinkType
  <1>5. ASSUME NEW d \in {0, 1}, Len(link'[q]) = Len(link[q]) - d,
               \A j \in 1..Len(link'[q]) :
                   j + d \in 1..Len(link[q]) /\ link'[q][j] = link[q][j + d],
               d = 1 => link[q] # <<>>
        PROVE  /\ \A j \in 1..k - 1 :
                      LET be == link'[q][j] IN
                      IsNew(be) /\ be.lterm = term'[s] => End(be) <= ae.pindex
               /\ \A i \in Nat :
                      Acked(s, p, i)' /\ term'[p] = term'[s] => i <= ae.pindex
    <2>1. k + d \in 1..Len(link[q]) /\ ae = link[q][k + d]
      BY <1>1, <1>5
    <2>2. link'[q] = Tail(link[q]) => k + d # 1
      <3>1. SUFFICES ASSUME link'[q] = Tail(link[q]) PROVE k + d # 1
        OBVIOUS
      <3>2. link[q] # <<>>
        BY <1>4, <2>1
      <3>3. Len(link'[q]) = Len(link[q]) - 1
        BY <1>4, <3>1, <3>2
      <3>4. d = 1
        BY <1>4, <1>5, <3>3
      <3>5. QED
        BY <1>1, <3>4
    <2>3. /\ \A j \in 1..(k + d) - 1 :
                 LET be == link[q][j] IN
                 IsNew(be) /\ be.lterm = term[s] => End(be) <= ae.pindex
          /\ \A i \in Nat :
                 Acked(s, p, i)' /\ term'[p] = term'[s] => i <= ae.pindex
      BY <1>1, <1>3, <2>1, <2>2, OldInOrder
    <2>4. ASSUME NEW j \in 1..k - 1, IsNew(link'[q][j]), link'[q][j].lterm = term'[s]
          PROVE  End(link'[q][j]) <= ae.pindex
      <3>1. j \in 1..Len(link'[q]) /\ j + d \in 1..(k + d) - 1
        BY <1>4, <1>5, <2>1
      <3>2. link'[q][j] = link[q][j + d]
        BY <1>5, <3>1
      <3>3. QED
        BY <1>3, <2>3, <2>4, <3>1, <3>2
    <2>5. QED
      BY <2>3, <2>4
  <1>6. ASSUME Len(link'[q]) = Len(link[q]) + 1,
               \A j \in 1..Len(link[q]) : link'[q][j] = link[q][j],
               NewFrom(s, link'[q][Len(link[q]) + 1])
                   \/ CatchupFrom(q, link'[q][Len(link[q]) + 1])
        PROVE  /\ \A j \in 1..k - 1 :
                      LET be == link'[q][j] IN
                      IsNew(be) /\ be.lterm = term'[s] => End(be) <= ae.pindex
               /\ \A i \in Nat :
                      Acked(s, p, i)' /\ term'[p] = term'[s] => i <= ae.pindex
    <2>1. CASE k \in 1..Len(link[q])
      <3>1. ae = link[q][k]
        BY <1>1, <1>6, <2>1
      <3>2. link'[q] # Tail(link[q])
        <4>1. Len(Tail(link[q])) = Len(link[q]) - 1
          BY <1>4, <2>1
        <4>2. SUFFICES ASSUME link'[q] = Tail(link[q]) PROVE FALSE
          OBVIOUS
        <4>3. Len(link'[q]) = Len(link[q]) - 1
          BY <4>1, <4>2
        <4>4. QED
          BY <1>4, <1>6, <4>3
      <3>3. /\ \A j \in 1..k - 1 :
                   LET be == link[q][j] IN
                   IsNew(be) /\ be.lterm = term[s] => End(be) <= ae.pindex
            /\ \A i \in Nat :
                   Acked(s, p, i)' /\ term'[p] = term'[s] => i <= ae.pindex
        BY <1>1, <1>3, <2>1, <3>1, <3>2, OldInOrder
      <3>4. \A j \in 1..k - 1 : link'[q][j] = link[q][j]
        BY <1>4, <1>6, <2>1
      <3>5. QED
        BY <1>3, <3>3, <3>4
    <2>2. CASE k \notin 1..Len(link[q])
      <3>1. k = Len(link[q]) + 1
        BY <1>1, <1>4, <1>6, <2>2
      <3>2. ~CatchupFrom(q, ae)
        <4>1. SUFFICES ASSUME CatchupFrom(q, ae) PROVE FALSE
          OBVIOUS
        <4>2. ae.inbox \in 1..inboxes
          BY <1>2, <4>1 DEF CatchupFrom, AckInv, Jobs
        <4>3. QED
          BY <1>1, <4>2 DEF IsNew, TypeOK
      <3>3. ae.pindex = pindex(s)
        BY <1>1, <1>6, <3>1, <3>2 DEF NewFrom
      <3>4. /\ \A j \in 1..Len(link[q]) :
                   LET be == link[q][j] IN
                   IsNew(be) /\ be.lterm = term[s] => End(be) <= pindex(s)
            /\ \A i \in Nat :
                   Acked(s, p, i)' /\ term'[p] = term'[s] => i <= pindex(s)
        BY <1>1, <1>6, NewInOrder
      <3>5. \A j \in 1..k - 1 : j \in 1..Len(link[q]) /\ link'[q][j] = link[q][j]
        BY <1>4, <1>6, <3>1
      <3>6. QED
        BY <1>3, <3>3, <3>4, <3>5
    <2>3. QED
      BY <2>1, <2>2
  <1>7. QED
    BY <1>2, <1>5, <1>6, LinkOrder

\* What is offered under an inbox was offered before, from there or an earlier
\* index, or the follower asks now for what is after its log.
LEMMA OffersBefore ==
    ASSUME TypeOK, TypeOK', Shape, NEW s \in Server, NEW p \in Server,
           NEW b \in Nat \ {0}, NEW n \in Nat, Offers(s, p, b, n)'
    PROVE  \/ n = pindex(p)
           \/ \E l \in Nat : l <= n /\ Offers(s, p, b, l)
  <1> DEFINE q == <<s, p>>
  <1>1. q \in Pairs /\ q[1] = s /\ q[2] = p
    BY DEF Pairs
  <1>2. Offers(s, p, b, n) => \E l \in Nat : l <= n /\ Offers(s, p, b, l)
    OBVIOUS
  <1>3. ASSUME NEW m \in msgs', m.type = "response", ~m.success,
               m.from = p, m.to = s, m.inbox = b, m.index = n
        PROVE  n = pindex(p) \/ Offers(s, p, b, n)
    <2>1. CASE m \in msgs
      BY <1>3, <2>1 DEF Offers
    <2>2. CASE m \notin msgs
      <3>1. ~Acks(m)
        <4>1. SUFFICES ASSUME Acks(m) PROVE FALSE
          OBVIOUS
        <4>2. m.success = TRUE
          BY <4>1 DEF Acks, Response
        <4>3. QED
          BY <1>3, <4>2
      <3>2. Asks(m)
        BY <1>3, <2>2, <3>1 DEF Shape, AnswersFrom
      <3>3. QED
        BY <1>3, <3>2 DEF Asks
    <2>3. QED
      BY <2>1, <2>2
  <1>4. ASSUME progress'[q].inbox = b, progress'[q].next = n
        PROVE  \E l \in Nat : l <= n /\ Offers(s, p, b, l)
    <2>1. JobFrom(q)
      BY <1>1 DEF Shape, JobsFrom
    <2>2. CASE progress'[q] = progress[q]
      BY <1>2, <1>4, <2>2 DEF Offers
    <2>3. CASE progress'[q] = NoProgress
      BY <1>4, <2>3 DEF NoProgress
    <2>4. ASSUME NEW m \in msgs, m.type = "response", ~m.success,
                 m.from = q[2], m.to = q[1], progress'[q].inbox = m.inbox,
                 progress'[q].next = m.index
          PROVE  Offers(s, p, b, n)
      BY <1>1, <1>4, <2>4 DEF Offers
    <2>5. CASE /\ progress'[q].inbox = progress[q].inbox
               /\ progress'[q].next = progress[q].next + 1
      <3>1. progress[q].next \in Nat
        BY <1>1 DEF TypeOK
      <3>2. Offers(s, p, b, progress[q].next)
        BY <1>4, <2>5 DEF Offers
      <3>3. progress[q].next <= n
        BY <1>4, <2>5, <3>1
      <3>4. QED
        BY <3>1, <3>2, <3>3
    <2>6. QED
      BY <1>2, <2>1, <2>2, <2>3, <2>4, <2>5 DEF JobFrom
  <1>5. ASSUME NEW k \in 1..Len(link'[q]), link'[q][k].inbox = b, link'[q][k].pindex = n
        PROVE  Offers(s, p, b, n)
    <2>1. LinkFrom(q)
      BY <1>1 DEF Shape, LinksFrom
    <2>2. ASSUME NEW j \in 1..Len(link[q]), link'[q][k] = link[q][j]
          PROVE  Offers(s, p, b, n)
      BY <1>5, <2>2 DEF Offers
    <2>3. ~NewFrom(s, link'[q][k])
      BY <1>5 DEF NewFrom, IsNew
    <2>4. CASE CatchupFrom(q, link'[q][k])
      BY <1>5, <2>4 DEF CatchupFrom, Offers
    <2>5. QED
      BY <1>1, <2>1, <2>2, <2>3, <2>4, LinkCases
  <1>6. QED
    BY <1>2, <1>3, <1>4, <1>5 DEF Offers

\* Nothing is offered under an inbox that was not given out yet.
LEMMA OfferedInbox ==
    ASSUME TypeOK, AckInv, NEW s \in Server, NEW p \in Server,
           NEW b \in Nat \ {0}, NEW n \in Nat, Offers(s, p, b, n)
    PROVE  b <= inboxes
  <1> DEFINE q == <<s, p>>
  <1>1. q \in Pairs
    BY DEF Pairs
  <1>2. ASSUME NEW m \in msgs, m.type = "response", m.inbox = b
        PROVE  b <= inboxes
    BY <1>2 DEF AckInv, Answers
  <1>3. CASE progress[q].inbox = b
    <2>1. progress[q] # NoProgress
      BY <1>3 DEF NoProgress
    <2>2. b \in 1..inboxes
      BY <1>1, <1>3, <2>1 DEF AckInv, Jobs
    <2>3. QED
      BY <2>2 DEF TypeOK
  <1>4. ASSUME NEW k \in 1..Len(link[q]), link[q][k].inbox = b
        PROVE  b <= inboxes
    BY <1>1, <1>4 DEF AckInv, Heard
  <1>5. QED
    BY <1>2, <1>3, <1>4 DEF Offers

\* The catchup a peer waits for stays behind what it acked.
LEMMA CatchupAfterAcksStep ==
    ASSUME TypeOK, TypeOK', Shape, AckInv
    PROVE  CatchupAfterAcks'
  <1>1. SUFFICES ASSUME NEW s \in Server, NEW p \in Server, state'[s] = "Leader",
                        term'[p] = term'[s], NEW b, b = catchup'[p].inbox, b # 0,
                        NEW i \in Nat, NEW n \in Nat, Acked(s, p, i)',
                        Offers(s, p, b, n)'
                 PROVE  i <= n
    BY DEF CatchupAfterAcks, Offers
  <1>2. b \in Nat \ {0} /\ inboxes \in Nat /\ inboxes' \in Nat
    BY <1>1 DEF TypeOK
  <1>3. state[s] = "Leader" /\ term[p] = term[s] /\ Acked(s, p, i)
    <2>1. \A m \in msgs' : Acks(m) /\ m.from = p => FALSE
      BY <1>1 DEF Acks, NoCatchup
    <2>2. QED
      BY <1>1, <2>1, AckedBefore
  <1>4. i \in 1..pindex(p) /\ pindex(p) \in Nat
    <2>1. i \in 1..pindex(p)
      BY <1>3 DEF AckInv, AckedByBoth
    <2>2. pindex(p) \in Nat
      BY DEF pindex, TypeOK
    <2>3. QED
      BY <2>1, <2>2
  <1>5. CASE n = pindex(p)
    BY <1>4, <1>5
  <1>6. ASSUME NEW l \in Nat, l <= n, Offers(s, p, b, l)
        PROVE  i <= n
    <2>1. b <= inboxes
      BY <1>2, <1>6, OfferedInbox
    <2>2. catchup'[p] = catchup[p]
      <3>1. catchup'[p] # NoCatchup
        BY <1>1 DEF NoCatchup
      <3>2. ~(b > inboxes)
        BY <1>2, <2>1
      <3>3. QED
        BY <1>1, <3>1, <3>2 DEF Shape, CatchupsFrom
    <2>3. i <= l
      BY <1>1, <1>3, <1>6, <2>2 DEF AckInv, CatchupAfterAcks
    <2>4. QED
      BY <1>6, <2>3
  <1>7. QED
    BY <1>1, <1>2, <1>5, <1>6, OffersBefore

-----------------------------------------------------------------------------
(* The theorems *)

\* No step takes a restart back.
LEMMA RestartsStay ==
    ASSUME TypeOK, restarts' = 0, [Next]_vars
    PROVE  restarts = 0
  <1>1. CASE UNCHANGED vars
    BY <1>1 DEF vars
  <1>2. ASSUME NEW s \in Server, ServerStep(s) PROVE restarts = 0
    <2>1. ~Restart(s)
      BY DEF Restart, TypeOK
    <2>2. UNCHANGED restarts
      BY <1>2, <2>1 DEF ServerStep, SwitchToCandidate, CatchupStalled, Propose,
                        SendHeartbeat, LostQuorum
    <2>3. QED
      BY <2>2
  <1>3. ASSUME NEW m \in msgs, MessageStep(m) PROVE restarts = 0
    <2>1. UNCHANGED restarts
      BY <1>3 DEF MessageStep, RejectVoteRequest, ProcessVoteRequest, CountVote,
                  HigherTermVote, IgnoreVote, ProcessSuccess, CatchupFollower,
                  HigherTermResponse, IgnoreResponse
    <2>2. QED
      BY <2>1
  <1>4. ASSUME NEW s \in Server, NEW p \in Server,
               RunCatchup(s, p) \/ ProcessAppendEntry(s, p)
        PROVE  restarts = 0
    <2>1. UNCHANGED restarts
      BY <1>4 DEF RunCatchup, ProcessAppendEntry, RejectAppendEntry, IgnoreCatchupEntry,
                  AwaitCatchup, AlreadyCommitted, TruncateConflict, MissingEntries,
                  AcceptEntry
    <2>2. QED
      BY <2>1
  <1>5. QED
    BY <1>1, <1>2, <1>3, <1>4 DEF Next

\* At first nothing was sent.
LEMMA AckInit ==
    Init => AckInv
  <1>1. SUFFICES ASSUME Init PROVE AckInv
    OBVIOUS
  <1>2. \A s \in Server : state[s] # "Leader" /\ acks[s] = {}
    BY <1>1 DEF Init
  <1>3. \A q \in Pairs : progress[q] = NoProgress /\ link[q] = <<>> /\ Len(link[q]) = 0
    BY <1>1 DEF Init
  <1>4. msgs = {}
    BY <1>1 DEF Init
  <1>5. Heard
    BY <1>3 DEF Heard
  <1>6. Jobs /\ Answers /\ Counted
    BY <1>2, <1>3, <1>4 DEF Jobs, Answers, Counted
  <1>7. LeaderTail /\ OwnEntries /\ AckedByBoth /\ InOrder /\ CatchupAfterAcks
    BY <1>2 DEF LeaderTail, OwnEntries, AckedByBoth, InOrder, CatchupAfterAcks
  <1>8. QED
    BY <1>5, <1>6, <1>7 DEF AckInv

\* Every step that is not a restart keeps the invariant.
LEMMA AckStep ==
    ASSUME TypeOK, TypeOK', ElectionInv, LogInv, AckInv, restarts' = 0, [Next]_vars
    PROVE  AckInv'
  <1>1. Shape
    BY ShapeStep DEF AckInv
  <1>2. BallotStep
    BY ElectionStep
  <1>3. CandidatesNew
    BY LogSteps DEF LogInv, QuietLog, Sends
  <1>4. Heard' /\ Jobs' /\ Answers'
    BY <1>1, <1>2, <1>3, HeardStep, JobsStep, AnswersStep
  <1>5. Counted' /\ LeaderTail' /\ OwnEntries'
    BY <1>1, CountedStep, TailStep, OwnEntriesStep
  <1>6. AckedByBoth' /\ InOrder' /\ CatchupAfterAcks'
    BY <1>1, AckedByBothStep, InOrderStep, CatchupAfterAcksStep
  <1>7. QED
    BY <1>4, <1>5, <1>6 DEF AckInv

\* What the invariant says of the acks that a leader has or will get.
LEMMA AckedAreStored ==
    ASSUME TypeOK, AckInv
    PROVE  AcksStored
  <1>1. SUFFICES ASSUME NEW s \in Server, state[s] = "Leader"
                 PROVE  /\ \A a \in acks[s] : term[a[2]] = term[s] =>
                               a[1] <= pindex(a[2]) /\ wal[a[2]][a[1]].term = term[s]
                        /\ \A m \in msgs :
                               /\ m.type = "response" /\ m.to = s /\ m.success
                               /\ m.term = term[s] /\ term[m.from] = term[s]
                               => m.index <= pindex(m.from)
                                  /\ wal[m.from][m.index].term = term[s]
    BY DEF AcksStored
  <1>2. ASSUME NEW p \in Server, NEW i \in Nat, term[p] = term[s], Acked(s, p, i)
        PROVE  i <= pindex(p) /\ wal[p][i].term = term[s]
    <2>1. i \in 1..pindex(p) /\ wal[p][i].term = term[s]
      BY <1>1, <1>2 DEF AckInv, AckedByBoth
    <2>2. pindex(p) \in Nat
      BY DEF pindex, TypeOK
    <2>3. QED
      BY <2>1, <2>2
  <1>3. ASSUME NEW a \in acks[s], term[a[2]] = term[s]
        PROVE  a[1] <= pindex(a[2]) /\ wal[a[2]][a[1]].term = term[s]
    <2>1. a \in Nat \X Server
      BY DEF TypeOK
    <2>2. a[1] \in Nat /\ a[2] \in Server /\ a = <<a[1], a[2]>>
      BY <2>1
    <2>3. Acked(s, a[2], a[1])
      BY <2>2 DEF Acked
    <2>4. QED
      BY <1>2, <1>3, <2>2, <2>3
  <1>4. ASSUME NEW m \in msgs, m.type = "response", m.to = s, m.success,
               m.term = term[s], term[m.from] = term[s]
        PROVE  m.index <= pindex(m.from) /\ wal[m.from][m.index].term = term[s]
    <2>1. m.from \in Server /\ m.index \in Nat
      BY <1>4, FieldTypes DEF TypeOK
    <2>2. Acked(s, m.from, m.index)
      BY <1>4 DEF Acked
    <2>3. QED
      BY <1>2, <1>4, <2>1, <2>2
  <1>5. QED
    BY <1>3, <1>4

\* The invariant of the acks holds of every replication group until a server
\* restarts, whatever is lost, reordered between links or left to catchups.
THEOREM AcksKept ==
    Spec => [](restarts = 0 => AckInv)
  <1>1. Init => (restarts = 0 => AckInv)
    BY AckInit
  <1>2. TypeOK /\ TypeOK' /\ ElectionInv /\ LogInv /\ (restarts = 0 => AckInv)
            /\ [Next]_vars => (restarts = 0 => AckInv)'
    BY AckStep, RestartsStay
  <1>3. QED
    BY <1>1, <1>2, TypeCorrect, VotesOnDisk, LinksKept, PTL DEF Spec

\* As long as no server restarts, a success that the leader counted or will
\* count is from a peer that still stores the entry: no heartbeat, no catchup
\* entry and no conflict that processAppendEntry finds truncates it.
THEOREM AckedEntriesStay ==
    Spec => [](restarts = 0 => AcksStored)
  <1>1. TypeOK /\ (restarts = 0 => AckInv) => (restarts = 0 => AcksStored)
    BY AckedAreStored
  <1>2. QED
    BY <1>1, AcksKept, TypeCorrect, PTL

=============================================================================
