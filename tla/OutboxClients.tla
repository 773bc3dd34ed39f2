---------------------------- MODULE OutboxClients ----------------------------
(***************************************************************************)
(* The in-memory outboxes of the Go, Rust, TypeScript and Zig helper       *)
(* clients.  flush is the same idea in four shapes:                        *)
(*   Go    goes through all entries, compacting them in place, and assigns *)
(*         the shortened slice at the end; an error building a message     *)
(*         returns at once;                                                *)
(*   Rust  pops an entry and awaits its publish; the first failure puts it *)
(*         back and returns; a caller may drop the future at the await;    *)
(*   TS    removes the first entry when it is sent; the first failure is   *)
(*         thrown (building the headers is inside the try);                *)
(*   Zig   removes an entry when it is sent and otherwise goes on to the   *)
(*         next; an error building the headers returns at once.            *)
(* Nothing is enqueued during a flush: the Go outbox holds its mutex, the  *)
(* Rust one is borrowed, the others run in one thread.  One publish, or    *)
(* one dead letter, is one action.                                         *)
(***************************************************************************)
EXTENDS Integers, Sequences, SequencesExt

CONSTANTS
    Langs,        \* the clients considered: "go", "rust", "ts", "zig"
    MaxEntries,   \* bound: entries enqueued in a behaviour
    MaxAttempts,  \* max / max_attempts / maxAttempts
    HasDLQ,       \* is a DLQ subject configured?
    MaxFails      \* bound: failed publishes of one entry

ASSUME KnownLangs == Langs \subseteq {"go", "rust", "ts", "zig"}
ASSUME BoundsAreNaturals ==
    /\ MaxEntries \in Nat /\ MaxFails \in Nat
    /\ MaxAttempts \in Nat \ {0} /\ HasDLQ \in BOOLEAN

Ids == 1 .. MaxEntries
None == 0

\* Bound: publishes of one entry are counted up to Many.
Many == 2
Count(n) == IF n < Many THEN n + 1 ELSE n

VARIABLES
    lang,       \* the client
    entries,    \* the outbox: the slice, deque, array or list
    nextID,
    attempts,   \* entry.Attempts
    pc,         \* "idle", "flush" or "dlq": the dead letter of the entry is next
    i,          \* the index of the entry that flush is at
    w,          \* Go: len(remaining)
    held,       \* Rust: the popped entry
    sent,       \* how often each entry was published, up to Many
    dead,       \* how often its dead letter was published
    rebuilt,    \* history: a Go flush returned with its slice half compacted
    dropped     \* history: the entries held when a Rust flush was dropped

outcome == <<sent, dead>>
history == <<rebuilt, dropped>>
vars == <<lang, entries, nextID, attempts, pc, i, w, held, outcome, history>>

Init ==
    /\ lang \in Langs
    /\ entries = <<>>
    /\ nextID = 0
    /\ attempts = [e \in Ids |-> 0]
    /\ pc = "idle" /\ i = 0 /\ w = 0 /\ held = None
    /\ sent = [e \in Ids |-> 0]
    /\ dead = [e \in Ids |-> 0]
    /\ rebuilt = FALSE /\ dropped = {}

\* EnqueueLinear, enqueue_linear, enqueueLinear.
Enqueue ==
    /\ pc = "idle" /\ nextID < MaxEntries
    /\ nextID' = nextID + 1
    /\ entries' = Append(entries, nextID + 1)
    /\ UNCHANGED <<lang, attempts, pc, i, w, held, outcome, history>>

-----------------------------------------------------------------------------
(* flush.                                                                  *)

Begin ==
    /\ pc = "idle"
    /\ pc' = "flush" /\ i' = 1 /\ w' = 0
    /\ UNCHANGED <<lang, entries, nextID, attempts, held, outcome, history>>

\* Rust: entries.pop_front().
PopFront ==
    /\ lang = "rust" /\ pc = "flush" /\ held = None /\ entries # <<>>
    /\ held' = Head(entries)
    /\ entries' = Tail(entries)
    /\ UNCHANGED <<lang, nextID, attempts, pc, i, w, outcome, history>>

\* The entry that flush is about to publish, None at the end of the loop.
Entry ==
    IF lang = "rust" THEN held
    ELSE IF i <= Len(entries) THEN entries[i] ELSE None

\* The entry is done with, and the loop goes on.
Forget ==
    \/ /\ lang = "go"
       /\ i' = i + 1
       /\ UNCHANGED <<entries, w, held>>
    \/ /\ lang = "rust"
       /\ held' = None
       /\ UNCHANGED <<entries, i, w>>
    \/ /\ lang \in {"ts", "zig"}
       /\ entries' = RemoveAt(entries, i)
       /\ UNCHANGED <<i, w, held>>

\* Mutant of PutBack: the failed entry goes behind the rest.
PutBackLast(e, rest) == Append(rest, e)
\* Mutant of PutBack: the failed entry is forgotten.
PutBackNot(e, rest) == rest
PutBack(e, rest) == <<e>> \o rest

(***************************************************************************)
(* The entry stays: Go writes it to the slot of the compacted slice; Rust  *)
(* puts it in front of the rest and returns; TS throws; Zig goes on.       *)
(***************************************************************************)
Keep ==
    \/ /\ lang = "go"
       /\ entries' = [entries EXCEPT ![w + 1] = Entry]
       /\ w' = w + 1 /\ i' = i + 1 /\ pc' = "flush"
       /\ UNCHANGED held
    \/ /\ lang = "rust"
       /\ entries' = PutBack(held, entries)
       /\ held' = None /\ pc' = "idle"
       /\ UNCHANGED <<i, w>>
    \/ /\ lang = "ts"
       /\ pc' = "idle"
       /\ UNCHANGED <<entries, i, w, held>>
    \/ /\ lang = "zig"
       /\ i' = i + 1 /\ pc' = "flush"
       /\ UNCHANGED <<entries, w, held>>

PublishOk ==
    /\ pc = "flush" /\ Entry # None
    /\ sent' = [sent EXCEPT ![Entry] = Count(@)]
    /\ Forget
    /\ UNCHANGED <<lang, nextID, attempts, pc, dead, history>>

\* Mutant of Exhausted: one attempt too few.
ExhaustedEarly(n) == HasDLQ /\ n + 1 >= MaxAttempts
Exhausted(n) == HasDLQ /\ n >= MaxAttempts

PublishFails ==
    LET n == attempts[Entry] + 1 IN
    /\ pc = "flush" /\ Entry # None /\ attempts[Entry] < MaxFails
    /\ attempts' = [attempts EXCEPT ![Entry] = n]
    /\ IF Exhausted(n)
         THEN /\ pc' = "dlq"
              /\ UNCHANGED <<entries, i, w, held>>
         ELSE Keep
    /\ UNCHANGED <<lang, nextID, outcome, history>>

DeadLetterOk ==
    /\ pc = "dlq"
    /\ dead' = [dead EXCEPT ![Entry] = Count(@)]
    /\ Forget
    /\ pc' = "flush"
    /\ UNCHANGED <<lang, nextID, attempts, sent, history>>

DeadLetterFails ==
    /\ pc = "dlq"
    /\ Keep
    /\ UNCHANGED <<lang, nextID, attempts, outcome, history>>

(***************************************************************************)
(* A message could not be built (Go: the security headers; Zig: memory,    *)
(* for the dead letter too): flush returns.  The Go slice keeps its old    *)
(* length over what is compacted.                                          *)
(***************************************************************************)
BuildError ==
    /\ \/ lang \in {"go", "zig"} /\ pc = "flush" /\ Entry # None
       \/ lang = "zig" /\ pc = "dlq"
    /\ pc' = "idle"
    /\ rebuilt' = (rebuilt \/ (lang = "go" /\ w + 1 < i))
    /\ UNCHANGED <<lang, entries, nextID, attempts, i, w, held, outcome, dropped>>

\* The caller drops the future that flush returned, at one of its awaits.
DropFuture ==
    /\ lang = "rust" /\ held # None
    /\ held' = None
    /\ pc' = "idle"
    /\ dropped' = dropped \cup {held}
    /\ UNCHANGED <<lang, entries, nextID, attempts, i, w, outcome, rebuilt>>

\* Go assigns the compacted slice; the others have nothing left to do.
Compacted == IF lang = "go" THEN SubSeq(entries, 1, w) ELSE entries

End ==
    /\ pc = "flush" /\ Entry = None
    /\ lang = "rust" => entries = <<>>
    /\ entries' = Compacted
    /\ pc' = "idle"
    /\ UNCHANGED <<lang, nextID, attempts, i, w, held, outcome, history>>

Next ==
    \/ Enqueue
    \/ Begin
    \/ PopFront
    \/ PublishOk
    \/ PublishFails
    \/ DeadLetterOk
    \/ DeadLetterFails
    \/ BuildError
    \/ DropFuture
    \/ End

Spec == Init /\ [][Next]_vars

-----------------------------------------------------------------------------
TypeOK ==
    /\ lang \in Langs
    /\ entries \in Seq(Ids)
    /\ nextID \in 0 .. MaxEntries
    /\ attempts \in [Ids -> 0 .. MaxFails]
    /\ pc \in {"idle", "flush", "dlq"}
    /\ i \in Nat /\ w \in Nat
    /\ held \in Ids \cup {None}
    /\ sent \in [Ids -> 0 .. Many]
    /\ dead \in [Ids -> 0 .. Many]
    /\ rebuilt \in BOOLEAN
    /\ dropped \subseteq Ids

(***************************************************************************)
(* What is still in the outbox: during a Go flush, the compacted part and  *)
(* the part not yet read; for Rust, the popped entry as well.              *)
(***************************************************************************)
Contents ==
    IF lang = "go" /\ pc # "idle"
      THEN SubSeq(entries, 1, w) \o SubSeq(entries, i, Len(entries))
    ELSE IF held # None THEN <<held>> \o entries
    ELSE entries

Queued == {Contents[k] : k \in 1 .. Len(Contents)}
Accepted == {e \in Ids : sent[e] > 0}
Dead == {e \in Ids : dead[e] > 0}

Doc == INSTANCE Outbox WITH queued <- Queued, accepted <- Accepted, dead <- Dead

(***************************************************************************)
(* Until a flush is cut short, every step of every client is a step the    *)
(* outbox may take or changes nothing it shows: an entry leaves only with  *)
(* its publish or with its dead letter after MaxAttempts failures.         *)
(***************************************************************************)
FollowsOutbox ==
    Doc!Init /\ [][rebuilt' \/ dropped' # {} \/ Doc!Next]_Doc!vars

(***************************************************************************)
(* No entry disappears: it is in the outbox, was published, has its dead   *)
(* letter, or was held by a Rust flush when its future was dropped; a Go   *)
(* flush that returns early loses nothing.                                 *)
(***************************************************************************)
NothingLost == 1 .. nextID \subseteq Queued \cup Accepted \cup Dead \cup dropped

(***************************************************************************)
(* An entry is published at most once, and not if it got a dead letter,    *)
(* unless a Go flush returned half way.                                    *)
(***************************************************************************)
PublishedOnce ==
    ~rebuilt => \A e \in Ids : sent[e] + dead[e] <= 1

(***************************************************************************)
(* Both: an entry is sent, dead-lettered or still there, and only one of   *)
(* these.                                                                  *)
(***************************************************************************)
SentOnce == TypeOK /\ NothingLost /\ PublishedOnce

(***************************************************************************)
(* The entries stay in the order they were enqueued in, through removals   *)
(* from the middle, compaction and putting back.                           *)
(***************************************************************************)
OrderKept ==
    ~rebuilt => \A j, k \in 1 .. Len(Contents) : j < k => Contents[j] < Contents[k]

=============================================================================
