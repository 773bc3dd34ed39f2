---------------------------- MODULE OutboxProofs ----------------------------
(***************************************************************************)
(* Proofs about OutboxClients, for every number of entries and attempts:   *)
(* no entry of an outbox is lost, published twice or overtaken, and the    *)
(* four clients implement the outbox they document (Outbox), as long as no *)
(* flush is cut short.                                                     *)
(*                                                                         *)
(* All of it is about Contents, the entries that are still to be sent: the *)
(* proofs show what each step does to that sequence and go on from there.  *)
(***************************************************************************)
EXTENDS OutboxClients, SequenceTheorems, TLAPS

-----------------------------------------------------------------------------
(* The inductive invariant *)

\* Where a flush is: only a Rust flush holds an entry; the others are at an
\* entry or at the end, and Go has compacted no more than it has read; the entry
\* whose dead letter is next has used up its attempts.
FlushShape ==
    /\ held # None => lang = "rust" /\ pc # "idle"
    /\ pc = "dlq" => Entry # None /\ Exhausted(attempts[Entry])
    /\ pc # "idle" /\ lang # "rust" => i \in 1 .. Len(entries) + 1
    /\ pc # "idle" /\ lang = "go" => w < i

\* Entries are numbered as they are enqueued, and only those are sent.
Numbered ==
    /\ \A k \in 1 .. Len(entries) : entries[k] <= nextID
    /\ held <= nextID
    /\ \A e \in Ids : e > nextID => sent[e] = 0 /\ dead[e] = 0

\* What is in the outbox was not sent, unless a Go flush returned half way.
UnsentQueued == ~rebuilt => \A e \in Queued : sent[e] = 0 /\ dead[e] = 0

OutboxInv ==
    /\ TypeOK /\ FlushShape /\ Numbered
    /\ NothingLost /\ PublishedOnce /\ OrderKept /\ UnsentQueued

-----------------------------------------------------------------------------
(* Sequences of entries *)

\* t is s without its element at place c.
Without(s, c, t) ==
    /\ t \in Seq(Ids) /\ Len(t) = Len(s) - 1
    /\ \A k \in 1 .. Len(t) : t[k] = IF k < c THEN s[k] ELSE s[k + 1]

Increasing(s) == \A j, k \in 1 .. Len(s) : j < k => s[j] < s[k]

Elements(s) == {s[k] : k \in 1 .. Len(s)}

\* The entries are positive numbers, and so none of them is None.
LEMMA IdsAreNumbers ==
    /\ Ids \subseteq Nat /\ None \notin Ids
    /\ nextID \in Nat /\ nextID < MaxEntries => nextID + 1 \in Ids
  BY BoundsAreNaturals DEF Ids, None

\* Removing an element leaves the others.
LEMMA WithoutElements ==
    ASSUME NEW s \in Seq(Ids), NEW c \in 1 .. Len(s), NEW t, Without(s, c, t)
    PROVE  /\ Elements(t) \subseteq Elements(s)
           /\ Elements(s) \subseteq Elements(t) \cup {s[c]}
           /\ Increasing(s) => Increasing(t) /\ s[c] \notin Elements(t)
  <1>1. \A k \in 1 .. Len(s) : s[k] \in Nat
    <2>1. \A k \in 1 .. Len(s) : s[k] \in Ids
      BY ElementOfSeq
    <2>2. QED
      BY <2>1, IdsAreNumbers
  <1>2. Len(s) \in Nat /\ Len(t) = Len(s) - 1 /\ Len(t) \in Nat /\ c \in Nat
    BY DEF Without
  <1>3. \A k \in 1 .. Len(t) : t[k] = IF k < c THEN s[k] ELSE s[k + 1]
    BY DEF Without
  <1>4. Elements(t) \subseteq Elements(s)
    BY <1>2, <1>3 DEF Elements
  <1>5. ASSUME NEW k \in 1 .. Len(s), k # c
        PROVE  s[k] \in Elements(t)
    <2>1. CASE k < c
      <3>1. k \in 1 .. Len(t) /\ t[k] = s[k]
        BY <1>2, <1>3, <1>5, <2>1
      <3>2. QED
        BY <3>1 DEF Elements
    <2>2. CASE k > c
      <3>1. k - 1 \in 1 .. Len(t) /\ t[k - 1] = s[(k - 1) + 1] /\ (k - 1) + 1 = k
        BY <1>2, <1>3, <1>5, <2>2
      <3>2. QED
        BY <3>1 DEF Elements
    <2>3. QED
      BY <1>2, <1>5, <2>1, <2>2
  <1>6. Elements(s) \subseteq Elements(t) \cup {s[c]}
    BY <1>5 DEF Elements
  <1>7. ASSUME Increasing(s)
        PROVE  Increasing(t) /\ s[c] \notin Elements(t)
    <2>1. Increasing(t)
      <3>1. SUFFICES ASSUME NEW j \in 1 .. Len(t), NEW k \in 1 .. Len(t), j < k
                     PROVE  t[j] < t[k]
        BY DEF Increasing
      <3>2. PICK a \in 1 .. Len(s), b \in 1 .. Len(s) : a < b /\ t[j] = s[a] /\ t[k] = s[b]
        BY <1>2, <1>3, <3>1
      <3>3. QED
        BY <1>7, <3>2 DEF Increasing
    <2>2. ASSUME NEW k \in 1 .. Len(t)
          PROVE  t[k] # s[c]
      <3>1. PICK a \in 1 .. Len(s) : a # c /\ t[k] = s[a]
        BY <1>2, <1>3, <2>2
      <3>2. s[a] # s[c]
        BY <1>1, <1>2, <1>7, <3>1 DEF Increasing
      <3>3. QED
        BY <3>1, <3>2
    <2>3. QED
      BY <2>1, <2>2 DEF Elements
  <1>8. QED
    BY <1>4, <1>6, <1>7

-----------------------------------------------------------------------------
(* What the steps do to the contents *)

\* The entry e leaves the outbox, the others keep their places.
Takes(e) == \E c \in 1 .. Len(Contents) : Contents[c] = e /\ Without(Contents, c, Contents')

\* During a Go flush the contents are what is compacted and what is not read.
LEMMA GoContents ==
    ASSUME TypeOK, lang = "go", pc # "idle", i \in 1 .. Len(entries) + 1, w < i
    PROVE  /\ Contents \in Seq(Ids)
           /\ Len(Contents) = w + Len(entries) - i + 1
           /\ \A k \in 1 .. Len(Contents) :
                  Contents[k] = IF k <= w THEN entries[k] ELSE entries[k - w + i - 1]
  <1> DEFINE a == SubSeq(entries, 1, w)
             b == SubSeq(entries, i, Len(entries))
  <1>1. /\ entries \in Seq(Ids) /\ Len(entries) \in Nat /\ i \in Nat /\ w \in Nat
        /\ w <= Len(entries)
    BY DEF TypeOK
  <1>2. a \in Seq(Ids) /\ Len(a) = w /\ \A k \in 1 .. w : a[k] = entries[k]
    BY <1>1
  <1>3. /\ b \in Seq(Ids) /\ Len(b) = Len(entries) - i + 1
        /\ \A k \in 1 .. Len(b) : b[k] = entries[i + k - 1]
    BY <1>1
  <1> HIDE DEF a, b
  <1>4. Contents = a \o b
    BY DEF Contents, a, b
  <1>5. /\ Contents \in Seq(Ids) /\ Len(Contents) = Len(a) + Len(b)
        /\ \A k \in 1 .. Len(Contents) :
               Contents[k] = IF k <= Len(a) THEN a[k] ELSE b[k - Len(a)]
    BY <1>2, <1>3, <1>4, ConcatProperties
  <1>6. \A k \in 1 .. Len(Contents) : k > w => i + (k - w) - 1 = k - w + i - 1
    BY <1>1, <1>2, <1>3, <1>5
  <1>7. QED
    BY <1>1, <1>2, <1>3, <1>5, <1>6

\* So are they after the step.
LEMMA GoContentsNext ==
    (TypeOK /\ lang = "go" /\ pc # "idle" /\ i \in 1 .. Len(entries) + 1 /\ w < i =>
       /\ Contents \in Seq(Ids)
       /\ Len(Contents) = w + Len(entries) - i + 1
       /\ \A k \in 1 .. Len(Contents) :
              Contents[k] = IF k <= w THEN entries[k] ELSE entries[k - w + i - 1])'
  <1>1. TypeOK /\ lang = "go" /\ pc # "idle" /\ i \in 1 .. Len(entries) + 1 /\ w < i =>
           /\ Contents \in Seq(Ids)
           /\ Len(Contents) = w + Len(entries) - i + 1
           /\ \A k \in 1 .. Len(Contents) :
                  Contents[k] = IF k <= w THEN entries[k] ELSE entries[k - w + i - 1]
    BY GoContents
  <1>2. QED
    BY <1>1, PTL

\* The contents are entries.
LEMMA ContentsType ==
    TypeOK /\ FlushShape => Contents \in Seq(Ids)
  <1>1. SUFFICES ASSUME TypeOK, FlushShape PROVE Contents \in Seq(Ids)
    OBVIOUS
  <1>2. CASE lang = "go" /\ pc # "idle"
    BY <1>1, <1>2, GoContents DEF FlushShape
  <1>3. CASE ~(lang = "go" /\ pc # "idle")
    <2>1. entries \in Seq(Ids) /\ held \in Ids \cup {None}
      BY <1>1 DEF TypeOK
    <2>2. held # None => <<held>> \o entries \in Seq(Ids)
      BY <2>1
    <2>3. QED
      BY <1>3, <2>1, <2>2 DEF Contents
  <1>4. QED
    BY <1>2, <1>3

\* The entry a flush is at is in the outbox.
LEMMA EntryPlace ==
    ASSUME TypeOK, FlushShape, Entry # None, pc # "idle"
    PROVE  /\ Entry \in Ids
           /\ lang # "rust" => i \in 1 .. Len(entries) /\ Entry = entries[i]
           /\ lang = "rust" => Entry = held
  <1>1. CASE lang = "rust"
    BY <1>1 DEF Entry, TypeOK
  <1>2. CASE lang # "rust"
    <2>1. i \in 1 .. Len(entries) /\ Entry = entries[i]
      BY <1>2 DEF Entry, FlushShape
    <2>2. entries \in Seq(Ids)
      BY DEF TypeOK
    <2>3. QED
      BY <1>2, <2>1, <2>2
  <1>3. QED
    BY <1>1, <1>2

\* Removing the entry at the index of the flush.
LEMMA RemoveAtProperties ==
    ASSUME NEW s \in Seq(Ids), NEW c \in 1 .. Len(s)
    PROVE  Without(s, c, RemoveAt(s, c))
  <1> DEFINE a == SubSeq(s, 1, c - 1)
             b == SubSeq(s, c + 1, Len(s))
  <1>1. /\ a \in Seq(Ids) /\ Len(a) = c - 1
        /\ \A k \in 1 .. c - 1 : a[k] = s[k]
    OBVIOUS
  <1>2. /\ b \in Seq(Ids) /\ Len(b) = Len(s) - c
        /\ \A k \in 1 .. Len(b) : b[k] = s[(c + 1) + k - 1]
    OBVIOUS
  <1> HIDE DEF a, b
  <1>3. RemoveAt(s, c) = a \o b
    BY DEF RemoveAt, a, b
  <1>4. /\ RemoveAt(s, c) \in Seq(Ids) /\ Len(RemoveAt(s, c)) = Len(a) + Len(b)
        /\ \A k \in 1 .. Len(a) + Len(b) :
               RemoveAt(s, c)[k] = IF k <= Len(a) THEN a[k] ELSE b[k - Len(a)]
    <2>1. /\ a \o b \in Seq(Ids) /\ Len(a \o b) = Len(a) + Len(b)
          /\ \A k \in 1 .. Len(a) + Len(b) :
                 (a \o b)[k] = IF k <= Len(a) THEN a[k] ELSE b[k - Len(a)]
      BY <1>1, <1>2, ConcatProperties
    <2>2. QED
      BY <1>3, <2>1
  <1>5. Len(s) \in Nat /\ c \in Nat
    OBVIOUS
  <1>6. Len(RemoveAt(s, c)) = Len(s) - 1
    BY <1>1, <1>2, <1>4, <1>5
  <1>7. ASSUME NEW k \in 1 .. Len(s) - 1
        PROVE  RemoveAt(s, c)[k] = IF k < c THEN s[k] ELSE s[k + 1]
    <2>0. k \in 1 .. Len(a) + Len(b)
      BY <1>1, <1>2, <1>5, <1>7
    <2>1. CASE k < c
      <3>1. k <= Len(a) /\ k \in 1 .. c - 1
        BY <1>1, <1>5, <1>7, <2>1
      <3>2. RemoveAt(s, c)[k] = a[k]
        BY <1>4, <2>0, <3>1
      <3>3. QED
        BY <1>1, <2>1, <3>1, <3>2
    <2>2. CASE k >= c
      <3>1. /\ k - (c - 1) \in 1 .. Len(b) /\ ~(k <= Len(a))
            /\ (c + 1) + (k - (c - 1)) - 1 = k + 1
        BY <1>1, <1>2, <1>5, <1>7, <2>2
      <3>2. RemoveAt(s, c)[k] = b[k - (c - 1)]
        BY <1>1, <1>4, <2>0, <3>1
      <3>3. b[k - (c - 1)] = s[k + 1]
        BY <1>2, <3>1
      <3>4. QED
        BY <1>5, <1>7, <2>2, <3>2, <3>3
    <2>3. QED
      BY <1>5, <1>7, <2>1, <2>2
  <1>8. QED
    BY <1>4, <1>6, <1>7 DEF Without

-----------------------------------------------------------------------------
(* Types, and where a flush is *)

\* The loop goes on, without the entry.
LEMMA ForgetShape ==
    ASSUME TypeOK, FlushShape, Entry # None, pc # "idle", Forget, UNCHANGED lang
    PROVE  /\ entries' \in Seq(Ids) /\ i' \in Nat /\ w' \in Nat
           /\ held' \in Ids \cup {None}
           /\ held' # None => lang = "rust"
           /\ lang # "rust" => i' \in 1 .. Len(entries') + 1
           /\ lang = "go" => w' < i'
  <1>1. entries \in Seq(Ids) /\ Len(entries) \in Nat /\ i \in Nat /\ w \in Nat
    BY DEF TypeOK
  <1>2. CASE lang = "go"
    BY <1>1, <1>2, EntryPlace DEF Forget, FlushShape, TypeOK
  <1>3. CASE lang = "rust"
    BY <1>1, <1>3 DEF Forget
  <1>4. CASE lang \in {"ts", "zig"}
    <2>1. i \in 1 .. Len(entries) /\ entries' = RemoveAt(entries, i) /\ UNCHANGED <<i, w, held>>
      BY <1>4, EntryPlace DEF Forget
    <2>2. entries' \in Seq(Ids) /\ Len(entries') = Len(entries) - 1
      BY <1>1, <2>1, RemoveAtProperties DEF Without
    <2>3. QED
      BY <1>1, <1>4, <2>1, <2>2 DEF FlushShape, TypeOK
  <1>5. QED
    BY <1>2, <1>3, <1>4 DEF Forget

\* The entry stays.
LEMMA KeepShape ==
    ASSUME TypeOK, FlushShape, Entry # None, pc # "idle", Keep, UNCHANGED lang
    PROVE  /\ entries' \in Seq(Ids) /\ i' \in Nat /\ w' \in Nat
           /\ held' \in Ids \cup {None} /\ pc' \in {"idle", "flush"}
           /\ held' # None => lang = "rust" /\ pc' # "idle"
           /\ pc' # "idle" /\ lang # "rust" => i' \in 1 .. Len(entries') + 1
           /\ pc' # "idle" /\ lang = "go" => w' < i'
  <1>1. entries \in Seq(Ids) /\ Len(entries) \in Nat /\ i \in Nat /\ w \in Nat
    BY DEF TypeOK
  <1>2. CASE lang = "go"
    <2>1. /\ i \in 1 .. Len(entries) /\ Entry \in Ids /\ w < i
          /\ entries' = [entries EXCEPT ![w + 1] = Entry]
          /\ w' = w + 1 /\ i' = i + 1 /\ pc' = "flush" /\ UNCHANGED held
      BY <1>2, EntryPlace DEF Keep, FlushShape
    <2>2. entries' \in Seq(Ids) /\ Len(entries') = Len(entries)
      BY <1>1, <2>1, ExceptSeq
    <2>3. QED
      BY <1>1, <1>2, <2>1, <2>2 DEF FlushShape, TypeOK
  <1>3. CASE lang = "rust"
    <2>1. held \in Ids /\ entries' = <<held>> \o entries
      BY <1>3, EntryPlace DEF Keep, PutBack
    <2>2. entries' \in Seq(Ids)
      BY <1>1, <2>1
    <2>3. QED
      BY <1>1, <1>3, <2>2 DEF Keep
  <1>4. CASE lang = "ts"
    BY <1>1, <1>4 DEF Keep, FlushShape, TypeOK
  <1>5. CASE lang = "zig"
    BY <1>1, <1>5, EntryPlace DEF Keep, FlushShape, TypeOK
  <1>6. QED
    BY <1>2, <1>3, <1>4, <1>5 DEF Keep

\* A publish is counted.
LEMMA CountType ==
    ASSUME NEW n \in 0 .. Many
    PROVE  Count(n) \in 0 .. Many /\ Count(n) > 0 /\ (n = 0 => Count(n) = 1)
  BY DEF Count, Many

\* Every step keeps the types and the place of the flush.
LEMMA ShapeStep ==
    ASSUME TypeOK, FlushShape, [Next]_vars
    PROVE  TypeOK' /\ FlushShape'
  <1>0. /\ entries \in Seq(Ids) /\ Len(entries) \in Nat /\ i \in Nat /\ w \in Nat
        /\ nextID \in 0 .. MaxEntries /\ held \in Ids \cup {None}
    BY DEF TypeOK
  <1>1. CASE Enqueue
    <2>1. nextID + 1 \in Ids /\ nextID' \in 0 .. MaxEntries
      BY <1>0, <1>1, IdsAreNumbers, BoundsAreNaturals DEF Enqueue
    <2>2. entries' \in Seq(Ids)
      BY <1>0, <1>1, <2>1 DEF Enqueue
    <2>3. TypeOK'
      BY <1>1, <2>1, <2>2 DEF Enqueue, TypeOK, outcome, history
    <2>4. FlushShape'
      BY <1>1 DEF Enqueue, FlushShape
    <2>5. QED
      BY <2>3, <2>4
  <1>2. CASE Begin
    <2>1. TypeOK'
      BY <1>2 DEF Begin, TypeOK, outcome, history
    <2>2. FlushShape'
      BY <1>0, <1>2 DEF Begin, FlushShape
    <2>3. QED
      BY <2>1, <2>2
  <1>3. CASE PopFront
    <2>1. held' \in Ids /\ entries' \in Seq(Ids)
      BY <1>0, <1>3, HeadTailProperties DEF PopFront
    <2>2. TypeOK'
      BY <1>3, <2>1 DEF PopFront, TypeOK, outcome, history
    <2>3. FlushShape'
      BY <1>3 DEF PopFront, FlushShape
    <2>4. QED
      BY <2>2, <2>3
  <1>4. CASE PublishOk
    <2>1. Entry # None /\ pc = "flush" /\ Forget /\ UNCHANGED lang
      BY <1>4 DEF PublishOk
    <2>2. sent' \in [Ids -> 0 .. Many]
      <3>1. Entry \in Ids /\ sent \in [Ids -> 0 .. Many]
        BY <2>1, EntryPlace DEF TypeOK
      <3>2. Count(sent[Entry]) \in 0 .. Many
        BY <3>1, CountType
      <3>3. QED
        BY <1>4, <3>1, <3>2 DEF PublishOk
    <2>3. TypeOK'
      BY <1>4, <2>1, <2>2, ForgetShape DEF PublishOk, TypeOK, history
    <2>4. FlushShape'
      BY <1>4, <2>1, ForgetShape DEF PublishOk, FlushShape
    <2>5. QED
      BY <2>3, <2>4
  <1>5. CASE PublishFails
    <2>1. /\ Entry # None /\ pc = "flush" /\ UNCHANGED lang /\ attempts[Entry] < MaxFails
          /\ attempts' = [attempts EXCEPT ![Entry] = attempts[Entry] + 1]
      BY <1>5 DEF PublishFails
    <2>2. Entry \in Ids /\ attempts \in [Ids -> 0 .. MaxFails]
      BY <2>1, EntryPlace DEF TypeOK
    <2>3. attempts' \in [Ids -> 0 .. MaxFails] /\ attempts'[Entry] = attempts[Entry] + 1
      BY <2>1, <2>2, BoundsAreNaturals
    <2>4. CASE Exhausted(attempts[Entry] + 1)
      <3>1. pc' = "dlq" /\ UNCHANGED <<entries, i, w, held>>
        BY <1>5, <2>4 DEF PublishFails
      <3>2. TypeOK'
        BY <1>5, <2>3, <3>1 DEF PublishFails, TypeOK, outcome, history
      <3>3. Entry' = Entry
        BY <2>1, <3>1 DEF Entry
      <3>4. FlushShape'
        BY <2>1, <2>3, <2>4, <3>1, <3>3 DEF FlushShape
      <3>5. QED
        BY <3>2, <3>4
    <2>5. CASE ~Exhausted(attempts[Entry] + 1)
      <3>1. Keep
        BY <1>5, <2>5 DEF PublishFails
      <3>2. TypeOK'
        BY <1>5, <2>1, <2>3, <3>1, KeepShape DEF PublishFails, TypeOK, outcome, history
      <3>3. FlushShape'
        BY <2>1, <3>1, KeepShape DEF FlushShape
      <3>4. QED
        BY <3>2, <3>3
    <2>6. QED
      BY <2>4, <2>5
  <1>6. CASE DeadLetterOk
    <2>1. Entry # None /\ pc = "dlq" /\ pc' = "flush" /\ Forget /\ UNCHANGED lang
      BY <1>6 DEF DeadLetterOk, FlushShape
    <2>2. dead' \in [Ids -> 0 .. Many]
      <3>1. Entry \in Ids /\ dead \in [Ids -> 0 .. Many]
        BY <2>1, EntryPlace DEF TypeOK
      <3>2. Count(dead[Entry]) \in 0 .. Many
        BY <3>1, CountType
      <3>3. QED
        BY <1>6, <3>1, <3>2 DEF DeadLetterOk
    <2>3. TypeOK'
      BY <1>6, <2>1, <2>2, ForgetShape DEF DeadLetterOk, TypeOK, history
    <2>4. FlushShape'
      BY <2>1, ForgetShape DEF FlushShape
    <2>5. QED
      BY <2>3, <2>4
  <1>7. CASE DeadLetterFails
    <2>1. Entry # None /\ pc = "dlq" /\ Keep /\ UNCHANGED lang
      BY <1>7 DEF DeadLetterFails, FlushShape
    <2>2. TypeOK'
      BY <1>7, <2>1, KeepShape DEF DeadLetterFails, TypeOK, outcome, history
    <2>3. FlushShape'
      BY <2>1, KeepShape DEF FlushShape
    <2>4. QED
      BY <2>2, <2>3
  <1>8. CASE BuildError
    <2>1. TypeOK'
      BY <1>8 DEF BuildError, TypeOK, outcome
    <2>2. FlushShape'
      BY <1>8 DEF BuildError, FlushShape
    <2>3. QED
      BY <2>1, <2>2
  <1>9. CASE DropFuture
    <2>1. held \in Ids
      BY <1>0, <1>9 DEF DropFuture
    <2>2. TypeOK'
      BY <1>9, <2>1 DEF DropFuture, TypeOK, outcome
    <2>3. FlushShape'
      BY <1>9 DEF DropFuture, FlushShape
    <2>4. QED
      BY <2>2, <2>3
  <1>10. CASE End
    <2>1. entries' \in Seq(Ids)
      <3>1. CASE lang = "go"
        <4>1. w <= Len(entries) /\ entries' = SubSeq(entries, 1, w)
          BY <1>0, <1>10, <3>1 DEF End, Compacted, FlushShape
        <4>2. QED
          BY <1>0, <4>1
      <3>2. CASE lang # "go"
        BY <1>0, <1>10, <3>2 DEF End, Compacted
      <3>3. QED
        BY <3>1, <3>2
    <2>2. TypeOK'
      BY <1>10, <2>1 DEF End, TypeOK, outcome, history
    <2>3. held = None
      BY <1>10 DEF End, Entry, FlushShape
    <2>4. FlushShape'
      BY <1>10, <2>3 DEF End, FlushShape
    <2>5. QED
      BY <2>2, <2>4
  <1>11. CASE UNCHANGED vars
    <2>1. UNCHANGED <<lang, entries, nextID, attempts, pc, i, w, held, sent, dead, rebuilt, dropped>>
      BY <1>11 DEF vars, outcome, history
    <2>2. TypeOK' /\ FlushShape'
      BY <2>1 DEF TypeOK, FlushShape, Entry
    <2>3. QED
      BY <2>2
  <1>12. QED
    BY <1>1, <1>2, <1>3, <1>4, <1>5, <1>6, <1>7, <1>8, <1>9, <1>10, <1>11 DEF Next

-----------------------------------------------------------------------------
(* The contents after a step *)

\* Outside a Go flush, and when Rust holds nothing, the contents are the entries.
LEMMA PlainContents ==
    ASSUME ~(lang = "go" /\ pc # "idle"), held = None
    PROVE  Contents = entries
  BY DEF Contents

\* An entry that is done with leaves the contents.
LEMMA ForgetContents ==
    ASSUME TypeOK, FlushShape, TypeOK', FlushShape', Entry # None,
           pc # "idle", pc' # "idle", Forget, UNCHANGED lang
    PROVE  Takes(Entry)
  <1>1. /\ entries \in Seq(Ids) /\ Len(entries) \in Nat /\ i \in Nat /\ w \in Nat
        /\ Contents \in Seq(Ids) /\ Entry \in Ids
    BY ContentsType, EntryPlace DEF TypeOK
  <1>2. CASE lang = "go"
    <2>1. /\ i \in 1 .. Len(entries) /\ Entry = entries[i] /\ w < i
          /\ i' = i + 1 /\ w' = w /\ entries' = entries
      BY <1>2, EntryPlace DEF Forget, FlushShape
    <2>2. /\ Len(Contents) = w + Len(entries) - i + 1
          /\ \A k \in 1 .. Len(Contents) :
                 Contents[k] = IF k <= w THEN entries[k] ELSE entries[k - w + i - 1]
      BY <1>2, GoContents DEF FlushShape
    <2>3. /\ Contents' \in Seq(Ids)
          /\ Len(Contents') = w + Len(entries) - (i + 1) + 1
          /\ \A k \in 1 .. Len(Contents') :
                 Contents'[k] = IF k <= w THEN entries[k] ELSE entries[k - w + (i + 1) - 1]
      BY <1>2, <2>1, GoContentsNext DEF FlushShape
    <2>4. w + 1 \in 1 .. Len(Contents) /\ (w + 1) - w + i - 1 = i /\ ~(w + 1 <= w)
      BY <1>1, <2>1, <2>2
    <2>5. Contents[w + 1] = Entry
      BY <2>1, <2>2, <2>4
    <2>6. Len(Contents') = Len(Contents) - 1
      BY <1>1, <2>2, <2>3
    <2>7. ASSUME NEW k \in 1 .. Len(Contents')
          PROVE  Contents'[k] = IF k < w + 1 THEN Contents[k] ELSE Contents[k + 1]
      <3>1. k \in 1 .. Len(Contents) /\ k + 1 \in 1 .. Len(Contents)
        BY <1>1, <2>2, <2>3, <2>6, <2>7
      <3>2. CASE k <= w
        BY <1>1, <2>2, <2>3, <2>7, <3>1, <3>2
      <3>3. CASE ~(k <= w)
        <4>1. k - w + (i + 1) - 1 = (k + 1) - w + i - 1 /\ ~(k + 1 <= w) /\ ~(k < w + 1)
          BY <1>1, <3>1, <3>3
        <4>2. Contents'[k] = entries[k - w + (i + 1) - 1]
          BY <2>3, <2>7, <3>3
        <4>3. Contents[k + 1] = entries[(k + 1) - w + i - 1]
          BY <2>2, <3>1, <4>1
        <4>4. QED
          BY <4>1, <4>2, <4>3
      <3>4. QED
        BY <3>2, <3>3
    <2>8. QED
      BY <2>3, <2>4, <2>5, <2>6, <2>7 DEF Takes, Without
  <1>3. CASE lang = "rust"
    <2>1. held \in Ids /\ Entry = held /\ held # None /\ held' = None /\ entries' = entries
      BY <1>1, <1>3, EntryPlace DEF Forget
    <2>2. Contents = <<held>> \o entries
      BY <1>3, <2>1 DEF Contents
    <2>3. Contents' = entries
      BY <1>3, <2>1 DEF Contents
    <2>4. /\ Len(Contents) = Len(entries) + 1 /\ Contents[1] = held
          /\ \A k \in 1 .. Len(entries) : Contents[k + 1] = entries[k]
      BY <1>1, <2>1, <2>2
    <2>5. 1 \in 1 .. Len(Contents)
      BY <1>1, <2>4
    <2>6. Without(Contents, 1, entries)
      BY <1>1, <2>4 DEF Without
    <2>7. QED
      BY <2>1, <2>3, <2>4, <2>5, <2>6 DEF Takes
  <1>4. CASE lang \in {"ts", "zig"}
    <2>1. i \in 1 .. Len(entries) /\ Entry = entries[i] /\ entries' = RemoveAt(entries, i)
      BY <1>4, EntryPlace DEF Forget
    <2>2. held = None /\ held' = None
      BY <1>4 DEF FlushShape
    <2>3. Contents = entries
      BY <1>4, <2>2, PlainContents
    <2>4. Contents' = entries'
      BY <1>4, <2>2 DEF Contents
    <2>5. QED
      BY <1>1, <2>1, <2>3, <2>4, RemoveAtProperties DEF Takes
  <1>5. QED
    BY <1>2, <1>3, <1>4 DEF Forget

\* An entry that stays leaves the contents as they are.
LEMMA KeepContents ==
    ASSUME TypeOK, FlushShape, TypeOK', FlushShape', Entry # None, pc # "idle",
           Keep, UNCHANGED lang
    PROVE  Contents' = Contents
  <1>1. /\ entries \in Seq(Ids) /\ Len(entries) \in Nat /\ i \in Nat /\ w \in Nat
        /\ Contents \in Seq(Ids) /\ Entry \in Ids
    <2>1. entries \in Seq(Ids) /\ Len(entries) \in Nat /\ i \in Nat /\ w \in Nat
      BY DEF TypeOK
    <2>2. Contents \in Seq(Ids)
      BY ContentsType
    <2>3. Entry \in Ids
      BY EntryPlace
    <2>4. QED
      BY <2>1, <2>2, <2>3
  <1>2. CASE lang = "go"
    <2>1. /\ i \in 1 .. Len(entries) /\ Entry = entries[i] /\ w < i
          /\ i' = i + 1 /\ w' = w + 1 /\ pc' = "flush"
          /\ entries' = [entries EXCEPT ![w + 1] = Entry]
      BY <1>2, EntryPlace DEF Keep, FlushShape
    <2>2. /\ Len(entries') = Len(entries)
          /\ \A k \in 1 .. Len(entries) :
                 entries'[k] = IF k = w + 1 THEN entries[i] ELSE entries[k]
      BY <1>1, <2>1, ExceptSeq
    <2>3. /\ Len(Contents) = w + Len(entries) - i + 1
          /\ \A k \in 1 .. Len(Contents) :
                 Contents[k] = IF k <= w THEN entries[k] ELSE entries[k - w + i - 1]
      BY <1>2, GoContents DEF FlushShape
    <2>4. /\ Contents' \in Seq(Ids)
          /\ Len(Contents') = w + 1 + Len(entries') - (i + 1) + 1
          /\ \A k \in 1 .. Len(Contents') :
                 Contents'[k] = IF k <= w + 1 THEN entries'[k]
                                ELSE entries'[k - (w + 1) + (i + 1) - 1]
      BY <1>2, <2>1, GoContentsNext DEF FlushShape
    <2>5. Len(Contents') = Len(Contents)
      BY <1>1, <2>2, <2>3, <2>4
    <2>6. ASSUME NEW k \in 1 .. Len(Contents)
          PROVE  Contents'[k] = Contents[k]
      <3>1. k \in 1 .. Len(Contents') /\ k \in Nat
        BY <1>1, <2>3, <2>5, <2>6
      <3>2. CASE k <= w
        <4>1. k \in 1 .. Len(entries) /\ k # w + 1 /\ k <= w + 1
          BY <1>1, <2>1, <2>6, <3>2
        <4>2. QED
          BY <2>2, <2>3, <2>4, <2>6, <3>1, <3>2, <4>1
      <3>3. CASE k = w + 1
        <4>1. k \in 1 .. Len(entries) /\ k - w + i - 1 = i /\ ~(k <= w) /\ k <= w + 1
          BY <1>1, <2>1, <2>6, <3>3
        <4>2. QED
          BY <2>2, <2>3, <2>4, <2>6, <3>1, <3>3, <4>1
      <3>4. CASE k > w + 1
        <4> DEFINE n == k - w + i - 1
        <4>0. k <= w + Len(entries) - i + 1
          BY <2>3, <2>6
        <4>1. /\ k - (w + 1) + (i + 1) - 1 = n
              /\ n \in 1 .. Len(entries) /\ n # w + 1 /\ ~(k <= w) /\ ~(k <= w + 1)
          <5>1. w < i /\ i \in Nat /\ w \in Nat /\ k \in Nat /\ Len(entries) \in Nat
            BY <1>1, <2>1, <3>1
          <5>2. n \in Int /\ k - (w + 1) + (i + 1) - 1 = n /\ ~(k <= w) /\ ~(k <= w + 1)
            BY <5>1, <3>4
          <5>3. n > w + 1 /\ n >= 1
            BY <5>1, <3>4
          <5>4. n <= Len(entries)
            BY <5>1, <4>0
          <5>5. QED
            BY <5>1, <5>2, <5>3, <5>4
        <4>2. Contents'[k] = entries'[n]
          BY <2>4, <3>1, <4>1
        <4>3. Contents[k] = entries[n]
          BY <2>3, <2>6, <4>1
        <4> HIDE DEF n
        <4>4. entries'[n] = entries[n]
          BY <2>2, <4>1
        <4>5. QED
          BY <4>2, <4>3, <4>4
      <3>5. QED
        BY <1>1, <3>1, <3>2, <3>3, <3>4
    <2>7. QED
      BY <1>1, <2>4, <2>5, <2>6, SeqEqual
  <1>3. CASE lang = "rust"
    <2>1. held # None /\ entries' = <<held>> \o entries /\ held' = None
      BY <1>3, EntryPlace DEF Keep, PutBack
    <2>2. QED
      BY <1>3, <2>1 DEF Contents
  <1>4. CASE lang \in {"ts", "zig"}
    <2>1. entries' = entries
      BY <1>4 DEF Keep
    <2>2. held = None /\ held' = None
      BY <1>4 DEF FlushShape
    <2>3. QED
      BY <1>4, <2>1, <2>2 DEF Contents
  <1>5. QED
    BY <1>2, <1>3, <1>4 DEF Keep

\* An enqueued entry goes to the end.
LEMMA EnqueueContents ==
    ASSUME TypeOK, FlushShape, Enqueue
    PROVE  Contents' = Append(Contents, nextID + 1)
  <1>1. held = None /\ held' = None /\ pc = "idle" /\ pc' = "idle"
    BY DEF FlushShape, Enqueue
  <1>2. Contents = entries /\ Contents' = entries'
    BY <1>1 DEF Contents
  <1>3. QED
    BY <1>2 DEF Enqueue

\* A flush begins with all of it.
LEMMA BeginContents ==
    ASSUME TypeOK, FlushShape, TypeOK', FlushShape', Begin
    PROVE  Contents' = Contents
  <1>1. entries \in Seq(Ids) /\ Len(entries) \in Nat
    BY DEF TypeOK
  <1>2. /\ held = None /\ held' = None /\ pc = "idle" /\ pc' = "flush"
        /\ i' = 1 /\ w' = 0 /\ entries' = entries /\ lang' = lang
    BY DEF FlushShape, Begin
  <1>3. Contents = entries
    BY <1>2 DEF Contents
  <1>4. CASE lang = "go"
    <2>1. /\ Contents' \in Seq(Ids)
          /\ Len(Contents') = 0 + Len(entries) - 1 + 1
          /\ \A k \in 1 .. Len(Contents') :
                 Contents'[k] = IF k <= 0 THEN entries[k] ELSE entries[k - 0 + 1 - 1]
      BY <1>1, <1>2, <1>4, GoContentsNext
    <2>2. Len(Contents') = Len(entries)
      BY <1>1, <2>1
    <2>3. \A k \in 1 .. Len(entries) : ~(k <= 0) /\ k - 0 + 1 - 1 = k
      BY <1>1
    <2>4. \A k \in 1 .. Len(entries) : Contents'[k] = entries[k]
      BY <2>1, <2>2, <2>3
    <2>5. QED
      BY <1>1, <1>3, <2>1, <2>2, <2>4, SeqEqual
  <1>5. CASE lang # "go"
    BY <1>2, <1>3, <1>5 DEF Contents
  <1>6. QED
    BY <1>4, <1>5

\* The popped entry is still there.
LEMMA PopContents ==
    ASSUME TypeOK, TypeOK', PopFront
    PROVE  Contents' = Contents
  <1>1. entries \in Seq(Ids) /\ entries # <<>>
    BY DEF TypeOK, PopFront
  <1>2. lang = "rust" /\ lang' = lang /\ held = None /\ held' = Head(entries) /\ entries' = Tail(entries)
    BY DEF PopFront
  <1>3. held' # None
    BY <1>1, <1>2, HeadTailProperties, IdsAreNumbers
  <1>4. Contents = entries /\ Contents' = <<Head(entries)>> \o Tail(entries)
    BY <1>2, <1>3 DEF Contents
  <1>5. <<Head(entries)>> \o Tail(entries) = entries
    BY <1>1
  <1>6. QED
    BY <1>4, <1>5

\* What Go has compacted at the end is all that is left.
LEMMA EndContents ==
    ASSUME TypeOK, FlushShape, TypeOK', FlushShape', End
    PROVE  Contents' = Contents
  <1>1. entries \in Seq(Ids) /\ Len(entries) \in Nat /\ i \in Nat /\ w \in Nat
    BY DEF TypeOK
  <1>2. /\ pc = "flush" /\ Entry = None /\ pc' = "idle" /\ lang' = lang
        /\ entries' = Compacted /\ held' = held
    BY DEF End
  <1>3. held = None
    BY <1>2 DEF FlushShape, Entry
  <1>4. Contents' = Compacted
    BY <1>2, <1>3 DEF Contents
  <1>5. CASE lang = "go"
    <2>1. i \in 1 .. Len(entries) + 1 /\ w < i
      BY <1>2, <1>5 DEF FlushShape
    <2>2. i = Len(entries) + 1
      <3>1. i <= Len(entries) => entries[i] \in Ids
        BY <1>1, <2>1, ElementOfSeq
      <3>2. ~(i <= Len(entries))
        BY <1>2, <1>5, <3>1, IdsAreNumbers DEF Entry
      <3>3. QED
        BY <1>1, <2>1, <3>2
    <2>3. /\ Contents \in Seq(Ids)
          /\ Len(Contents) = w + Len(entries) - i + 1
          /\ \A k \in 1 .. Len(Contents) :
                 Contents[k] = IF k <= w THEN entries[k] ELSE entries[k - w + i - 1]
      BY <1>2, <1>5, <2>1, GoContents
    <2>4. Len(Contents) = w
      BY <1>1, <2>2, <2>3
    <2>5. \A k \in 1 .. w : Contents[k] = entries[k]
      BY <1>1, <2>3, <2>4
    <2>6. w <= Len(entries)
      BY <1>1, <2>1, <2>2
    <2>7. /\ Compacted \in Seq(Ids) /\ Len(Compacted) = w
          /\ \A k \in 1 .. w : Compacted[k] = entries[k]
      <3>1. Compacted = SubSeq(entries, 1, w)
        BY <1>5 DEF Compacted
      <3>2. /\ SubSeq(entries, 1, w) \in Seq(Ids) /\ Len(SubSeq(entries, 1, w)) = w
            /\ \A k \in 1 .. w : SubSeq(entries, 1, w)[k] = entries[k]
        BY <1>1, <2>6
      <3>3. QED
        BY <3>1, <3>2
    <2>8. Compacted = Contents
      BY <2>3, <2>4, <2>5, <2>7, SeqEqual
    <2>9. QED
      BY <1>4, <2>8
  <1>6. CASE lang # "go"
    <2>1. Compacted = entries /\ Contents = entries
      BY <1>3, <1>6 DEF Compacted, Contents
    <2>2. QED
      BY <1>4, <2>1
  <1>7. QED
    BY <1>5, <1>6

\* A flush that returns early leaves the contents as they are, unless the Go slice
\* was half compacted: then it shows them all and more.
LEMMA BuildErrorContents ==
    ASSUME TypeOK, FlushShape, TypeOK', FlushShape', BuildError
    PROVE  /\ ~rebuilt' => Contents' = Contents
           /\ Elements(Contents) \subseteq Elements(Contents')
  <1>1. entries \in Seq(Ids) /\ Len(entries) \in Nat /\ i \in Nat /\ w \in Nat
    BY DEF TypeOK
  <1>2. /\ pc # "idle" /\ pc' = "idle" /\ lang' = lang /\ entries' = entries /\ held' = held
        /\ lang \in {"go", "zig"} /\ (lang = "go" => Entry # None)
        /\ (rebuilt' = (rebuilt \/ (lang = "go" /\ w + 1 < i)))
    BY DEF BuildError
  <1>3. held = None
    BY <1>2 DEF FlushShape
  <1>4. Contents' = entries
    BY <1>2, <1>3 DEF Contents
  <1>5. CASE lang = "go"
    <2>1. i \in 1 .. Len(entries) /\ w < i
      BY <1>2, <1>5, EntryPlace DEF FlushShape
    <2>2. /\ Contents \in Seq(Ids)
          /\ Len(Contents) = w + Len(entries) - i + 1
          /\ \A k \in 1 .. Len(Contents) :
                 Contents[k] = IF k <= w THEN entries[k] ELSE entries[k - w + i - 1]
      BY <1>1, <1>2, <1>5, <2>1, GoContents
    <2>3. ASSUME ~rebuilt'
          PROVE  Contents = entries
      <3>1. i = w + 1
        <4>1. ~(w + 1 < i)
          BY <1>2, <1>5, <2>3, Zenon
        <4>2. QED
          BY <1>1, <2>1, <4>1
      <3>2. Len(Contents) = Len(entries)
        BY <1>1, <2>2, <3>1
      <3>3. ASSUME NEW k \in 1 .. Len(entries)
            PROVE  Contents[k] = entries[k]
        <4>1. k - w + i - 1 = k
          BY <1>1, <3>1
        <4>2. Contents[k] = IF k <= w THEN entries[k] ELSE entries[k - w + i - 1]
          BY <2>2, <3>2
        <4>3. QED
          BY <4>1, <4>2
      <3>4. \A k \in 1 .. Len(entries) : Contents[k] = entries[k]
        BY <3>3
      <3>5. QED
        BY <1>1, <2>2, <3>2, <3>4, SeqEqual
    <2>4. ASSUME NEW k \in 1 .. Len(Contents)
          PROVE  \E c \in 1 .. Len(entries) : Contents[k] = entries[c]
      <3>0. Len(Contents) \in Nat /\ k \in Nat /\ k >= 1 /\ k <= w + Len(entries) - i + 1
        BY <2>2, <2>4
      <3>1. CASE k <= w
        <4>1. k \in 1 .. Len(entries)
          BY <1>1, <2>1, <3>0, <3>1
        <4>2. QED
          BY <2>2, <2>4, <3>1, <4>1
      <3>2. CASE ~(k <= w)
        <4>1. k - w + i - 1 \in 1 .. Len(entries)
          BY <1>1, <2>1, <3>0, <3>2
        <4>2. QED
          BY <2>2, <2>4, <3>2, <4>1
      <3>3. QED
        BY <3>1, <3>2
    <2>5. Elements(Contents) \subseteq Elements(entries)
      BY <2>4 DEF Elements
    <2>6. QED
      BY <1>4, <2>3, <2>5
  <1>6. CASE lang # "go"
    <2>1. Contents = entries
      BY <1>3, <1>6 DEF Contents
    <2>2. QED
      BY <1>4, <2>1
  <1>7. QED
    BY <1>5, <1>6

\* An entry that a dropped future held is gone.
LEMMA DropContents ==
    ASSUME TypeOK, DropFuture
    PROVE  held \in Ids /\ Takes(held)
  <1>1. entries \in Seq(Ids) /\ Len(entries) \in Nat /\ held \in Ids
    BY DEF TypeOK, DropFuture
  <1>2. /\ lang = "rust" /\ held # None /\ lang' = lang /\ held' = None /\ entries' = entries
    BY DEF DropFuture
  <1>3. Contents = <<held>> \o entries /\ Contents' = entries
    BY <1>2 DEF Contents
  <1>4. /\ Len(Contents) = Len(entries) + 1 /\ Contents[1] = held
        /\ \A k \in 1 .. Len(entries) : Contents[k + 1] = entries[k]
    BY <1>1, <1>3
  <1>5. Without(Contents, 1, entries) /\ 1 \in 1 .. Len(Contents)
    BY <1>1, <1>4 DEF Without
  <1>6. QED
    BY <1>1, <1>3, <1>4, <1>5 DEF Takes

-----------------------------------------------------------------------------
(* The invariant *)

\* The entries after a step were there before, or are the one just enqueued.
LEMMA EntriesFrom ==
    ASSUME TypeOK, FlushShape, Numbered, Next
    PROVE  \A k \in 1 .. Len(entries') : entries'[k] <= nextID'
  <1>1. /\ entries \in Seq(Ids) /\ Len(entries) \in Nat /\ nextID \in Nat
        /\ i \in Nat /\ w \in Nat
    BY BoundsAreNaturals DEF TypeOK
  <1>2. /\ \A k \in 1 .. Len(entries) : entries[k] \in Nat /\ entries[k] <= nextID
        /\ held <= nextID
    <2>1. \A k \in 1 .. Len(entries) : entries[k] \in Ids
      BY <1>1, ElementOfSeq
    <2>2. QED
      BY <2>1, IdsAreNumbers DEF Numbered
  <1>3. CASE Enqueue
    <2>1. nextID' = nextID + 1 /\ entries' = Append(entries, nextID + 1)
      BY <1>3 DEF Enqueue
    <2>2. /\ Len(entries') = Len(entries) + 1 /\ entries'[Len(entries) + 1] = nextID + 1
          /\ \A k \in 1 .. Len(entries) : entries'[k] = entries[k]
      BY <1>1, <2>1
    <2>3. ASSUME NEW k \in 1 .. Len(entries')
          PROVE  entries'[k] <= nextID'
      <3>1. CASE k = Len(entries) + 1
        BY <1>1, <2>1, <2>2, <3>1
      <3>2. CASE k # Len(entries) + 1
        <4>1. k \in 1 .. Len(entries)
          BY <1>1, <2>2, <2>3, <3>2
        <4>2. entries'[k] = entries[k] /\ entries[k] \in Nat /\ entries[k] <= nextID
          BY <1>2, <2>2, <4>1
        <4>3. QED
          BY <1>1, <2>1, <4>2
      <3>3. QED
        BY <3>1, <3>2
    <2>4. QED
      BY <2>3
  <1>4. CASE UNCHANGED <<entries, nextID>>
    BY <1>2, <1>4
  <1>5. ASSUME Forget, Entry # None, pc # "idle", UNCHANGED <<nextID, lang>>
        PROVE  \A k \in 1 .. Len(entries') : entries'[k] <= nextID'
    <2>1. CASE entries' = entries
      BY <1>2, <1>5, <2>1
    <2>2. CASE lang \in {"ts", "zig"}
      <3>1. i \in 1 .. Len(entries) /\ entries' = RemoveAt(entries, i)
        BY <1>5, <2>2, EntryPlace DEF Forget
      <3>2. Without(entries, i, entries')
        BY <1>1, <3>1, RemoveAtProperties
      <3>3. Elements(entries') \subseteq Elements(entries)
        BY <1>1, <3>1, <3>2, WithoutElements
      <3>4. \A k \in 1 .. Len(entries') : \E c \in 1 .. Len(entries) : entries'[k] = entries[c]
        BY <3>3 DEF Elements
      <3>5. QED
        BY <1>2, <1>5, <3>4
    <2>3. QED
      BY <1>5, <2>1, <2>2 DEF Forget
  <1>6. ASSUME Keep, Entry # None, pc # "idle", UNCHANGED <<nextID, lang>>
        PROVE  \A k \in 1 .. Len(entries') : entries'[k] <= nextID'
    <2>1. CASE entries' = entries
      BY <1>2, <1>6, <2>1
    <2>2. CASE lang = "go"
      <3>1. /\ i \in 1 .. Len(entries) /\ w < i /\ Entry = entries[i]
            /\ entries' = [entries EXCEPT ![w + 1] = Entry]
        BY <1>6, <2>2, EntryPlace DEF Keep, FlushShape
      <3>2. /\ Len(entries') = Len(entries)
            /\ \A k \in 1 .. Len(entries) : entries'[k] = IF k = w + 1 THEN entries[i] ELSE entries[k]
        BY <1>1, <3>1, ExceptSeq, EntryPlace, <1>6
      <3>3. QED
        BY <1>2, <1>6, <3>1, <3>2
    <2>3. CASE lang = "rust"
      <3>1. held \in Ids /\ entries' = <<held>> \o entries
        BY <1>6, <2>3, EntryPlace DEF Keep, PutBack
      <3>2. /\ Len(entries') = Len(entries) + 1 /\ entries'[1] = held
            /\ \A k \in 1 .. Len(entries') : k # 1 => entries'[k] = entries[k - 1]
        BY <1>1, <3>1
      <3>3. ASSUME NEW k \in 1 .. Len(entries')
            PROVE  entries'[k] <= nextID'
        <4>1. CASE k = 1
          BY <1>2, <1>6, <3>2, <4>1
        <4>2. CASE k # 1
          <5>1. k - 1 \in 1 .. Len(entries)
            BY <1>1, <3>2, <3>3, <4>2
          <5>2. QED
            BY <1>2, <1>6, <3>2, <3>3, <4>2, <5>1
        <4>3. QED
          BY <4>1, <4>2
      <3>4. QED
        BY <3>3
    <2>4. QED
      BY <1>6, <2>1, <2>2, <2>3 DEF Keep
  <1>7. CASE PopFront
    <2>1. entries # <<>> /\ entries' = Tail(entries) /\ nextID' = nextID
      BY <1>7 DEF PopFront
    <2>2. /\ Len(entries') = Len(entries) - 1
          /\ \A k \in 1 .. Len(entries') : entries'[k] = entries[k + 1]
      BY <1>1, <2>1, HeadTailProperties
    <2>3. ASSUME NEW k \in 1 .. Len(entries')
          PROVE  entries'[k] <= nextID'
      <3>1. k + 1 \in 1 .. Len(entries)
        BY <1>1, <2>2, <2>3
      <3>2. QED
        BY <1>2, <2>1, <2>2, <2>3, <3>1
    <2>4. QED
      BY <2>3
  <1>8. CASE End
    <2>1. entries' = Compacted /\ nextID' = nextID /\ pc = "flush"
      BY <1>8 DEF End
    <2>2. CASE lang = "go"
      <3>1. w <= Len(entries) /\ entries' = SubSeq(entries, 1, w)
        BY <1>1, <2>1, <2>2 DEF Compacted, FlushShape
      <3>2. Len(entries') = w /\ \A k \in 1 .. w : entries'[k] = entries[k] /\ k \in 1 .. Len(entries)
        BY <1>1, <3>1
      <3>3. QED
        BY <1>2, <2>1, <3>2
    <2>3. CASE lang # "go"
      BY <1>4, <2>1, <2>3 DEF Compacted
    <2>4. QED
      BY <2>2, <2>3
  <1>9. CASE Begin
    BY <1>4, <1>9 DEF Begin
  <1>10. CASE PublishOk
    BY <1>5, <1>10 DEF PublishOk
  <1>11. CASE PublishFails
    BY <1>4, <1>6, <1>11 DEF PublishFails
  <1>12. CASE DeadLetterOk
    BY <1>5, <1>12 DEF DeadLetterOk, FlushShape
  <1>13. CASE DeadLetterFails
    BY <1>6, <1>13 DEF DeadLetterFails, FlushShape
  <1>14. CASE BuildError
    BY <1>4, <1>14 DEF BuildError
  <1>15. CASE DropFuture
    BY <1>4, <1>15 DEF DropFuture
  <1>16. QED
    BY <1>3, <1>7, <1>8, <1>9, <1>10, <1>11, <1>12, <1>13, <1>14, <1>15 DEF Next

\* A step that leaves the contents and what was sent alone.
LEMMA StayStep ==
    ASSUME OutboxInv, Contents' = Contents, UNCHANGED outcome, nextID' = nextID,
           dropped \subseteq dropped', rebuilt => rebuilt'
    PROVE  NothingLost' /\ PublishedOnce' /\ OrderKept' /\ UnsentQueued'
  <1>1. Queued' = Queued /\ sent' = sent /\ dead' = dead
    BY DEF Queued, outcome
  <1>2. Accepted' = Accepted /\ Dead' = Dead
    BY <1>1 DEF Accepted, Dead
  <1>3. NothingLost'
    BY <1>1, <1>2 DEF OutboxInv, NothingLost
  <1>4. PublishedOnce'
    BY <1>1 DEF OutboxInv, PublishedOnce
  <1>5. OrderKept'
    BY DEF OutboxInv, OrderKept
  <1>6. UnsentQueued'
    BY <1>1 DEF OutboxInv, UnsentQueued
  <1>7. QED
    BY <1>3, <1>4, <1>5, <1>6

\* Being sent changes one entry.
LEMMA Marked ==
    ASSUME NEW f \in [Ids -> 0 .. Many], NEW e \in Ids, NEW g,
           g = [f EXCEPT ![e] = Count(@)]
    PROVE  /\ {x \in Ids : g[x] > 0} = {x \in Ids : f[x] > 0} \cup {e}
           /\ \A x \in Ids : x # e => g[x] = f[x]
           /\ f[e] = 0 => g[e] = 1
  <1>1. \A x \in Ids : g[x] = IF x = e THEN Count(f[e]) ELSE f[x]
    OBVIOUS
  <1>2. f[e] \in 0 .. Many
    OBVIOUS
  <1>3. Count(f[e]) > 0 /\ (f[e] = 0 => Count(f[e]) = 1)
    BY <1>2, CountType
  <1>4. QED
    BY <1>1, <1>3

\* A step that takes an entry, which is sent, dead-lettered or dropped.
LEMMA TakeStep ==
    ASSUME OutboxInv, TypeOK', NEW e \in Ids, Takes(e), nextID' = nextID, rebuilt' = rebuilt,
           \/ sent' = [sent EXCEPT ![e] = Count(@)] /\ dead' = dead /\ dropped' = dropped
           \/ dead' = [dead EXCEPT ![e] = Count(@)] /\ sent' = sent /\ dropped' = dropped
           \/ dropped' = dropped \cup {e} /\ dead' = dead /\ sent' = sent
    PROVE  /\ NothingLost' /\ PublishedOnce' /\ OrderKept' /\ UnsentQueued'
           /\ e \in Queued /\ Queued' \subseteq Queued
           /\ ~rebuilt => Queued' = Queued \ {e}
  <1>1. PICK c \in 1 .. Len(Contents) : Contents[c] = e /\ Without(Contents, c, Contents')
    BY DEF Takes
  <1>2. Contents \in Seq(Ids)
    BY ContentsType DEF OutboxInv
  <1>3. Queued = Elements(Contents) /\ Queued' = Elements(Contents')
    BY DEF Queued, Elements
  <1>4. /\ Queued' \subseteq Queued /\ Queued \subseteq Queued' \cup {e}
        /\ Increasing(Contents) => Increasing(Contents') /\ e \notin Queued'
    BY <1>1, <1>2, <1>3, WithoutElements
  <1>5. e \in Queued
    BY <1>1 DEF Queued
  <1>6. ~rebuilt => Increasing(Contents)
    BY DEF OutboxInv, OrderKept, Increasing
  <1>7. OrderKept'
    <2>1. ~rebuilt' => Increasing(Contents')
      BY <1>4, <1>6
    <2>2. QED
      BY <2>1 DEF OrderKept, Increasing
  <1>8. sent \in [Ids -> 0 .. Many] /\ dead \in [Ids -> 0 .. Many]
    BY DEF OutboxInv, TypeOK
  <1>9. ~rebuilt => sent[e] = 0 /\ dead[e] = 0
    BY <1>5 DEF OutboxInv, UnsentQueued
  <1>10. /\ \A x \in Ids : x # e => sent'[x] = sent[x] /\ dead'[x] = dead[x]
         /\ Accepted \subseteq Accepted' /\ Dead \subseteq Dead'
         /\ e \in Accepted' \cup Dead' \cup dropped' /\ dropped \subseteq dropped'
         /\ sent[e] = 0 /\ dead[e] = 0 => sent'[e] + dead'[e] <= 1
    <2>1. CASE sent' = [sent EXCEPT ![e] = Count(@)] /\ dead' = dead /\ dropped' = dropped
      <3>1. /\ {x \in Ids : sent'[x] > 0} = {x \in Ids : sent[x] > 0} \cup {e}
            /\ \A x \in Ids : x # e => sent'[x] = sent[x]
            /\ sent[e] = 0 => sent'[e] = 1
        BY <1>8, <2>1, Marked
      <3>2. Accepted' = Accepted \cup {e} /\ Dead' = Dead
        BY <2>1, <3>1 DEF Accepted, Dead
      <3>3. QED
        BY <2>1, <3>1, <3>2
    <2>2. CASE dead' = [dead EXCEPT ![e] = Count(@)] /\ sent' = sent /\ dropped' = dropped
      <3>1. /\ {x \in Ids : dead'[x] > 0} = {x \in Ids : dead[x] > 0} \cup {e}
            /\ \A x \in Ids : x # e => dead'[x] = dead[x]
            /\ dead[e] = 0 => dead'[e] = 1
        BY <1>8, <2>2, Marked
      <3>2. Dead' = Dead \cup {e} /\ Accepted' = Accepted
        BY <2>2, <3>1 DEF Accepted, Dead
      <3>3. QED
        BY <2>2, <3>1, <3>2
    <2>3. CASE dropped' = dropped \cup {e} /\ dead' = dead /\ sent' = sent
      BY <2>3 DEF Accepted, Dead
    <2>4. QED
      BY <2>1, <2>2, <2>3
  <1>11. NothingLost'
    BY <1>4, <1>10 DEF OutboxInv, NothingLost
  <1>12. PublishedOnce'
    <2>1. SUFFICES ASSUME ~rebuilt, NEW x \in Ids
                   PROVE  sent'[x] + dead'[x] <= 1
      BY DEF PublishedOnce
    <2>2. CASE x = e
      BY <1>9, <1>10, <2>1, <2>2
    <2>3. CASE x # e
      BY <1>10, <2>1, <2>3 DEF OutboxInv, PublishedOnce
    <2>4. QED
      BY <2>2, <2>3
  <1>13. UnsentQueued'
    <2>1. SUFFICES ASSUME ~rebuilt, NEW x \in Queued'
                   PROVE  sent'[x] = 0 /\ dead'[x] = 0
      BY DEF UnsentQueued
    <2>2. x \in Queued /\ x # e
      BY <1>4, <1>6, <2>1
    <2>3. x \in Ids
      BY <1>2, <2>2, ElementOfSeq DEF Queued
    <2>4. QED
      BY <1>10, <2>1, <2>2, <2>3 DEF OutboxInv, UnsentQueued
  <1>14. QED
    BY <1>4, <1>5, <1>6, <1>7, <1>11, <1>12, <1>13

\* A new entry.
LEMMA EnqueueStep ==
    ASSUME OutboxInv, Enqueue
    PROVE  /\ NothingLost' /\ PublishedOnce' /\ OrderKept' /\ UnsentQueued'
           /\ Queued' = Queued \cup {nextID + 1}
           /\ nextID + 1 \in Ids /\ sent[nextID + 1] = 0 /\ dead[nextID + 1] = 0
  <1> DEFINE new == nextID + 1
  <1>1. nextID \in Nat /\ new \in Ids /\ nextID' = new
    BY IdsAreNumbers, BoundsAreNaturals DEF OutboxInv, TypeOK, Enqueue
  <1>2. Contents \in Seq(Ids) /\ Len(Contents) \in Nat
    <2>1. Contents \in Seq(Ids)
      BY ContentsType DEF OutboxInv
    <2>2. QED
      BY <2>1
  <1>3. Contents' = Append(Contents, new)
    BY EnqueueContents DEF OutboxInv
  <1>4. /\ Len(Contents') = Len(Contents) + 1 /\ Contents'[Len(Contents) + 1] = new
        /\ \A k \in 1 .. Len(Contents) : Contents'[k] = Contents[k]
    BY <1>1, <1>2, <1>3
  <1>5. \A k \in 1 .. Len(Contents) : Contents[k] \in Nat /\ Contents[k] < new
    <2>1. Contents = entries
      <3>1. pc = "idle" /\ held = None
        BY DEF OutboxInv, FlushShape, Enqueue
      <3>2. QED
        BY <3>1, PlainContents
    <2>2. \A k \in 1 .. Len(entries) : entries[k] \in Ids
      BY <1>2, <2>1, ElementOfSeq
    <2>3. \A k \in 1 .. Len(entries) : entries[k] <= nextID
      BY DEF OutboxInv, Numbered
    <2>4. ASSUME NEW k \in 1 .. Len(entries)
          PROVE  entries[k] \in Nat /\ entries[k] < new
      <3>1. entries[k] \in Nat /\ entries[k] <= nextID
        BY <2>2, <2>3, IdsAreNumbers
      <3>2. QED
        BY <1>1, <3>1
    <2>5. QED
      BY <2>1, <2>4
  <1>6. UNCHANGED <<sent, dead, rebuilt, dropped>>
    BY DEF Enqueue, outcome, history
  <1>7. sent[new] = 0 /\ dead[new] = 0
    <2>1. new > nextID
      BY <1>1
    <2>2. QED
      BY <1>1, <2>1 DEF OutboxInv, Numbered
  <1> HIDE DEF new
  <1>8. Queued' = Queued \cup {new}
    <2>1. \A k \in 1 .. Len(Contents') : k \in 1 .. Len(Contents) \/ k = Len(Contents) + 1
      BY <1>2, <1>4
    <2>2. Len(Contents) + 1 \in 1 .. Len(Contents') /\ 1 .. Len(Contents) \subseteq 1 .. Len(Contents')
      BY <1>2, <1>4
    <2>3. \A x \in Queued' : x \in Queued \/ x = new
      BY <1>4, <2>1 DEF Queued
    <2>4. \A x \in Queued : x \in Queued'
      BY <1>4, <2>2 DEF Queued
    <2>5. new \in Queued'
      BY <1>4, <2>2 DEF Queued
    <2>6. QED
      BY <2>3, <2>4, <2>5
  <1>9. NothingLost'
    <2>1. 1 .. nextID' \subseteq 1 .. nextID \cup {new}
      BY <1>1 DEF new
    <2>2. Accepted' = Accepted /\ Dead' = Dead
      BY <1>6 DEF Accepted, Dead
    <2>3. QED
      BY <1>6, <1>8, <2>1, <2>2 DEF OutboxInv, NothingLost
  <1>10. PublishedOnce'
    BY <1>6 DEF OutboxInv, PublishedOnce
  <1>11. OrderKept'
    <2>1. SUFFICES ASSUME ~rebuilt, NEW j \in 1 .. Len(Contents'), NEW k \in 1 .. Len(Contents'), j < k
                   PROVE  Contents'[j] < Contents'[k]
      BY <1>6 DEF OrderKept
    <2>2. j \in 1 .. Len(Contents) /\ (k \in 1 .. Len(Contents) \/ k = Len(Contents) + 1)
      BY <1>2, <1>4, <2>1
    <2>3. CASE k \in 1 .. Len(Contents)
      BY <1>4, <2>1, <2>2, <2>3 DEF OutboxInv, OrderKept
    <2>4. CASE k = Len(Contents) + 1
      BY <1>4, <1>5, <2>2, <2>4
    <2>5. QED
      BY <2>2, <2>3, <2>4
  <1>12. UnsentQueued'
    BY <1>6, <1>7, <1>8 DEF OutboxInv, UnsentQueued
  <1>13. QED
    BY <1>1, <1>7, <1>8, <1>9, <1>10, <1>11, <1>12 DEF new

\* Every step keeps the invariant.
LEMMA InvStep ==
    ASSUME OutboxInv, [Next]_vars
    PROVE  OutboxInv'
  <1>1. TypeOK /\ FlushShape /\ TypeOK' /\ FlushShape'
    BY ShapeStep DEF OutboxInv
  <1>2. CASE UNCHANGED vars
    <2>1. UNCHANGED <<lang, entries, nextID, pc, i, w, held, sent, dead, rebuilt, dropped>>
      BY <1>2 DEF vars, outcome, history
    <2>2. Contents' = Contents
      BY <2>1 DEF Contents
    <2>3. NothingLost' /\ PublishedOnce' /\ OrderKept' /\ UnsentQueued'
      BY <2>1, <2>2, StayStep DEF outcome
    <2>4. Numbered'
      BY <2>1 DEF OutboxInv, Numbered
    <2>5. QED
      BY <1>1, <2>3, <2>4 DEF OutboxInv
  <1>3. ASSUME Next
        PROVE  NothingLost' /\ PublishedOnce' /\ OrderKept' /\ UnsentQueued'
    <2>1. CASE Enqueue
      BY <2>1, EnqueueStep
    <2>2. CASE Begin
      BY <1>1, <2>2, BeginContents, StayStep DEF Begin, history
    <2>3. CASE PopFront
      BY <1>1, <2>3, PopContents, StayStep DEF PopFront, history
    <2>4. CASE PublishOk
      <3>1. /\ Entry # None /\ pc = "flush" /\ pc' = pc /\ Forget /\ UNCHANGED <<lang, nextID>>
            /\ sent' = [sent EXCEPT ![Entry] = Count(@)]
            /\ dead' = dead /\ rebuilt' = rebuilt /\ dropped' = dropped
        BY <2>4 DEF PublishOk, history
      <3>2. Entry \in Ids
        BY <1>1, <3>1, EntryPlace
      <3>3. Takes(Entry)
        BY <1>1, <3>1, ForgetContents
      <3>4. QED
        BY <1>1, <3>1, <3>2, <3>3, TakeStep
    <2>5. CASE PublishFails
      <3>1. /\ Entry # None /\ pc = "flush" /\ UNCHANGED <<lang, nextID, outcome>>
            /\ rebuilt' = rebuilt /\ dropped' = dropped
        BY <2>5 DEF PublishFails, history
      <3>2. Contents' = Contents
        <4>1. CASE Keep
          BY <1>1, <3>1, <4>1, KeepContents
        <4>2. CASE pc' = "dlq" /\ UNCHANGED <<entries, i, w, held>>
          BY <3>1, <4>2 DEF Contents
        <4>3. QED
          BY <2>5, <4>1, <4>2 DEF PublishFails
      <3>3. QED
        BY <3>1, <3>2, StayStep
    <2>6. CASE DeadLetterOk
      <3>1. /\ Entry # None /\ pc = "dlq" /\ pc' = "flush" /\ Forget /\ UNCHANGED <<lang, nextID>>
            /\ dead' = [dead EXCEPT ![Entry] = Count(@)]
            /\ sent' = sent /\ rebuilt' = rebuilt /\ dropped' = dropped
        BY <1>1, <2>6 DEF DeadLetterOk, history, FlushShape
      <3>2. Entry \in Ids
        BY <1>1, <3>1, EntryPlace
      <3>3. Takes(Entry)
        BY <1>1, <3>1, ForgetContents
      <3>4. QED
        BY <1>1, <3>1, <3>2, <3>3, TakeStep
    <2>7. CASE DeadLetterFails
      <3>1. /\ Entry # None /\ pc = "dlq" /\ Keep /\ UNCHANGED <<lang, nextID, outcome>>
            /\ rebuilt' = rebuilt /\ dropped' = dropped
        BY <1>1, <2>7 DEF DeadLetterFails, history, FlushShape
      <3>2. Contents' = Contents
        BY <1>1, <3>1, KeepContents
      <3>3. QED
        BY <3>1, <3>2, StayStep
    <2>8. CASE BuildError
      <3>1. UNCHANGED <<nextID, sent, dead, dropped>>
        BY <2>8 DEF BuildError, outcome
      <3>2. rebuilt => rebuilt'
        BY <2>8 DEF BuildError
      <3>3. CASE ~rebuilt'
        BY <1>1, <2>8, <3>1, <3>2, <3>3, BuildErrorContents, StayStep DEF outcome
      <3>4. CASE rebuilt'
        <4>1. Queued \subseteq Queued'
          BY <1>1, <2>8, BuildErrorContents DEF Queued, Elements
        <4>2. Accepted' = Accepted /\ Dead' = Dead
          BY <3>1 DEF Accepted, Dead
        <4>3. NothingLost'
          BY <3>1, <4>1, <4>2 DEF OutboxInv, NothingLost
        <4>4. QED
          BY <3>4, <4>3 DEF PublishedOnce, OrderKept, UnsentQueued
      <3>5. QED
        BY <3>3, <3>4
    <2>9. CASE DropFuture
      <3>1. /\ nextID' = nextID /\ rebuilt' = rebuilt /\ dropped' = dropped \cup {held}
            /\ sent' = sent /\ dead' = dead
        BY <2>9 DEF DropFuture, outcome
      <3>2. held \in Ids /\ Takes(held)
        BY <1>1, <2>9, DropContents
      <3>3. QED
        BY <1>1, <3>1, <3>2, TakeStep
    <2>10. CASE End
      BY <1>1, <2>10, EndContents, StayStep DEF End, history
    <2>11. QED
      BY <1>3, <2>1, <2>2, <2>3, <2>4, <2>5, <2>6, <2>7, <2>8, <2>9, <2>10 DEF Next
  <1>4. ASSUME Next
        PROVE  Numbered'
    <2>0. /\ nextID \in Nat /\ nextID' \in Nat /\ nextID <= nextID'
          /\ sent \in [Ids -> 0 .. Many] /\ dead \in [Ids -> 0 .. Many]
      <3>1. nextID \in Nat /\ sent \in [Ids -> 0 .. Many] /\ dead \in [Ids -> 0 .. Many]
        BY <1>1, BoundsAreNaturals DEF TypeOK
      <3>2. nextID' = nextID \/ nextID' = nextID + 1
        BY <1>4 DEF Next, Enqueue, Begin, PopFront, PublishOk, PublishFails, DeadLetterOk,
                    DeadLetterFails, BuildError, DropFuture, End
      <3>3. QED
        BY <3>1, <3>2
    <2>1. \A k \in 1 .. Len(entries') : entries'[k] <= nextID'
      BY <1>1, <1>4, EntriesFrom DEF OutboxInv
    <2>2. \A k \in 1 .. Len(entries) : entries[k] \in Ids /\ entries[k] <= nextID
      BY <1>1, ElementOfSeq DEF OutboxInv, Numbered, TypeOK
    <2>3. held' <= nextID'
      <3>1. CASE held' = held
        <4>1. held \in Nat /\ held <= nextID
          BY <1>1, IdsAreNumbers DEF OutboxInv, Numbered, TypeOK, None
        <4>2. QED
          BY <2>0, <3>1, <4>1
      <3>2. CASE held' = None
        BY <2>0, <3>2 DEF None
      <3>3. CASE PopFront
        <4>1. entries \in Seq(Ids) /\ entries # <<>> /\ held' = Head(entries) /\ nextID' = nextID
          BY <1>1, <3>3 DEF PopFront, TypeOK
        <4>2. 1 \in 1 .. Len(entries) /\ Head(entries) = entries[1]
          BY <4>1, HeadTailProperties
        <4>3. QED
          BY <2>2, <4>1, <4>2
      <3>4. QED
        BY <1>4, <3>1, <3>2, <3>3 DEF Next, Enqueue, Begin, PopFront, PublishOk, PublishFails,
             DeadLetterOk, DeadLetterFails, BuildError, DropFuture, End, Forget, Keep
    <2>4. ASSUME Entry # None, pc # "idle"
          PROVE  Entry \in Ids /\ Entry <= nextID
      <3>1. CASE lang = "rust"
        BY <1>1, <2>4, <3>1, EntryPlace DEF OutboxInv, Numbered
      <3>2. CASE lang # "rust"
        BY <1>1, <2>2, <2>4, <3>2, EntryPlace
      <3>3. QED
        BY <3>1, <3>2
    <2>5. ASSUME NEW e \in Ids, e > nextID'
          PROVE  sent'[e] = 0 /\ dead'[e] = 0
      <3>1. e > nextID
        BY <2>0, <2>5, IdsAreNumbers
      <3>2. sent[e] = 0 /\ dead[e] = 0
        BY <3>1 DEF OutboxInv, Numbered
      <3>3. Entry # None /\ pc # "idle" => Entry \in Ids /\ e # Entry
        BY <2>0, <2>4, <3>1, IdsAreNumbers
      <3>4. CASE UNCHANGED outcome
        BY <3>2, <3>4 DEF outcome
      <3>5. CASE PublishOk
        <4>1. Entry # None /\ pc # "idle" /\ dead' = dead /\ sent' = [sent EXCEPT ![Entry] = Count(@)]
          BY <3>5 DEF PublishOk
        <4>2. QED
          BY <2>0, <3>2, <3>3, <4>1
      <3>6. CASE DeadLetterOk
        <4>1. Entry # None /\ pc # "idle" /\ sent' = sent /\ dead' = [dead EXCEPT ![Entry] = Count(@)]
          BY <1>1, <3>6 DEF DeadLetterOk, FlushShape
        <4>2. QED
          BY <2>0, <3>2, <3>3, <4>1
      <3>7. QED
        BY <1>4, <3>4, <3>5, <3>6 DEF Next, Enqueue, Begin, PopFront, PublishFails,
             DeadLetterFails, BuildError, DropFuture, End
    <2>6. QED
      BY <2>1, <2>3, <2>5 DEF Numbered
  <1>5. QED
    BY <1>1, <1>2, <1>3, <1>4 DEF OutboxInv

\* It holds at the start: the outbox is empty.
LEMMA InvInit ==
    ASSUME Init
    PROVE  OutboxInv
  <1>1. TypeOK
    <2>1. 0 \in 0 .. MaxEntries /\ 0 \in 0 .. MaxFails /\ 0 \in 0 .. Many
      BY BoundsAreNaturals DEF Many
    <2>2. entries \in Seq(Ids)
      BY DEF Init
    <2>3. /\ attempts \in [Ids -> 0 .. MaxFails]
          /\ sent \in [Ids -> 0 .. Many] /\ dead \in [Ids -> 0 .. Many]
      BY <2>1 DEF Init
    <2>4. QED
      BY <2>1, <2>2, <2>3 DEF Init, TypeOK
  <1>2. Contents = <<>>
    BY DEF Init, Contents
  <1>3. FlushShape
    BY DEF Init, FlushShape
  <1>4. Numbered
    BY DEF Init, Numbered, None
  <1>5. NothingLost
    BY DEF Init, NothingLost
  <1>6. PublishedOnce
    BY DEF Init, PublishedOnce
  <1>7. OrderKept /\ UnsentQueued
    BY <1>2 DEF OrderKept, UnsentQueued, Queued
  <1>8. QED
    BY <1>1, <1>3, <1>4, <1>5, <1>6, <1>7 DEF OutboxInv

(***************************************************************************)
(* The invariant holds in every reachable state of all four clients.       *)
(***************************************************************************)
THEOREM OutboxKept == Spec => []OutboxInv
  <1>1. Init => OutboxInv
    BY InvInit
  <1>2. OutboxInv /\ [Next]_vars => OutboxInv'
    BY InvStep
  <1>3. QED
    BY <1>1, <1>2, PTL DEF Spec

(***************************************************************************)
(* flush and enqueue lose no entry, and publish or dead-letter none of     *)
(* them twice unless a Go flush returned half way.                         *)
(***************************************************************************)
THEOREM SendsOnce == Spec => []SentOnce
  <1>1. OutboxInv => SentOnce
    BY DEF OutboxInv, SentOnce
  <1>2. QED
    BY <1>1, OutboxKept, PTL

(***************************************************************************)
(* An outbox keeps the order of its entries, in whatever way flush takes   *)
(* some of them out.                                                       *)
(***************************************************************************)
THEOREM KeepsOrder == Spec => []OrderKept
  <1>1. OutboxInv => OrderKept
    BY DEF OutboxInv
  <1>2. QED
    BY <1>1, OutboxKept, PTL

-----------------------------------------------------------------------------
(* The clients implement the documented outbox *)

\* The entry a flush is at is among the contents.
LEMMA EntryQueued ==
    ASSUME TypeOK, FlushShape, Entry # None, pc # "idle"
    PROVE  Entry \in Queued
  <1>1. entries \in Seq(Ids) /\ Len(entries) \in Nat /\ i \in Nat /\ w \in Nat
    BY DEF TypeOK
  <1>2. CASE lang = "go"
    <2>1. i \in 1 .. Len(entries) /\ Entry = entries[i] /\ w < i
      BY <1>2, EntryPlace DEF FlushShape
    <2>2. /\ Len(Contents) = w + Len(entries) - i + 1
          /\ \A k \in 1 .. Len(Contents) :
                 Contents[k] = IF k <= w THEN entries[k] ELSE entries[k - w + i - 1]
      BY <1>2, GoContents DEF FlushShape
    <2>3. w + 1 \in 1 .. Len(Contents) /\ (w + 1) - w + i - 1 = i /\ ~(w + 1 <= w)
      BY <1>1, <2>1, <2>2
    <2>4. Contents[w + 1] = Entry
      BY <2>1, <2>2, <2>3
    <2>5. QED
      BY <2>3, <2>4 DEF Queued
  <1>3. CASE lang = "rust"
    <2>1. held \in Ids /\ Entry = held /\ held # None
      BY <1>3, EntryPlace
    <2>2. Contents = <<held>> \o entries
      BY <1>3, <2>1 DEF Contents
    <2>3. Contents[1] = held /\ 1 \in 1 .. Len(Contents)
      BY <1>1, <2>1, <2>2
    <2>4. QED
      BY <2>1, <2>3 DEF Queued
  <1>4. CASE lang \notin {"go", "rust"}
    <2>1. i \in 1 .. Len(entries) /\ Entry = entries[i] /\ held = None
      BY <1>4, EntryPlace DEF FlushShape
    <2>2. Contents = entries
      BY <1>4, <2>1 DEF Contents
    <2>3. QED
      BY <2>1, <2>2 DEF Queued
  <1>5. QED
    BY <1>2, <1>3, <1>4

\* Every step is a step of the outbox or shows nothing.
LEMMA StepFollows ==
    ASSUME OutboxInv, OutboxInv', [Next]_vars, ~rebuilt', dropped' = {}
    PROVE  Doc!Next \/ UNCHANGED Doc!vars
  <1>1. TypeOK /\ FlushShape /\ TypeOK' /\ FlushShape'
    BY DEF OutboxInv
  <1>2. ASSUME Contents' = Contents, UNCHANGED <<attempts, sent, dead>>
        PROVE  UNCHANGED Doc!vars
    BY <1>2 DEF Doc!vars, Queued, Accepted, Dead
  <1>3. ASSUME Next
        PROVE  Doc!Next \/ UNCHANGED Doc!vars
    <2>1. CASE Enqueue
      <3>1. /\ Queued' = Queued \cup {nextID + 1}
            /\ nextID + 1 \in Ids /\ sent[nextID + 1] = 0 /\ dead[nextID + 1] = 0
        BY <2>1, EnqueueStep
      <3>2. UNCHANGED <<attempts, sent, dead>> /\ Accepted' = Accepted /\ Dead' = Dead
        BY <2>1 DEF Enqueue, outcome, Accepted, Dead
      <3>3. nextID + 1 \notin Queued
        <4>1. pc = "idle" /\ held = None /\ Contents = entries
          BY <1>1, <2>1, PlainContents DEF FlushShape, Enqueue
        <4>2. \A k \in 1 .. Len(Contents) : Contents[k] <= nextID
          BY <4>1 DEF OutboxInv, Numbered
        <4>3. nextID \in Nat
          BY <1>1, BoundsAreNaturals DEF TypeOK
        <4>4. QED
          BY <4>2, <4>3 DEF Queued
      <3>4. nextID + 1 \notin Accepted /\ nextID + 1 \notin Dead
        BY <3>1 DEF Accepted, Dead
      <3>5. Doc!Enqueue(nextID + 1)
        BY <3>1, <3>2, <3>3, <3>4 DEF Doc!Enqueue
      <3>6. QED
        BY <3>1, <3>5 DEF Doc!Next
    <2>2. CASE Begin
      BY <1>1, <1>2, <2>2, BeginContents DEF Begin, outcome
    <2>3. CASE PopFront
      BY <1>1, <1>2, <2>3, PopContents DEF PopFront, outcome
    <2>4. CASE PublishOk
      <3>1. /\ Entry # None /\ pc = "flush" /\ pc' = pc /\ Forget /\ UNCHANGED <<lang, nextID, attempts>>
            /\ sent' = [sent EXCEPT ![Entry] = Count(@)]
            /\ dead' = dead /\ rebuilt' = rebuilt /\ dropped' = dropped
        BY <2>4 DEF PublishOk, history
      <3>2. Entry \in Ids /\ sent \in [Ids -> 0 .. Many]
        BY <1>1, <3>1, EntryPlace DEF TypeOK
      <3>3. Takes(Entry)
        BY <1>1, <3>1, ForgetContents
      <3>4. Entry \in Queued /\ Queued' = Queued \ {Entry}
        BY <1>1, <3>1, <3>2, <3>3, TakeStep
      <3>5. Accepted' = Accepted \cup {Entry} /\ Dead' = Dead
        <4>1. PICK e \in Ids : e = Entry
          BY <3>2
        <4>2. sent' = [sent EXCEPT ![e] = Count(@)]
          BY <3>1, <4>1
        <4>3. {x \in Ids : sent'[x] > 0} = {x \in Ids : sent[x] > 0} \cup {e}
          BY <3>2, <4>2, Marked
        <4>4. QED
          BY <3>1, <4>1, <4>3 DEF Accepted, Dead
      <3>6. Doc!Accept(Entry)
        BY <3>1, <3>4, <3>5 DEF Doc!Accept
      <3>7. QED
        BY <3>2, <3>6 DEF Doc!Next
    <2>5. CASE PublishFails
      <3>1. /\ Entry # None /\ pc = "flush" /\ UNCHANGED <<lang, nextID, sent, dead>>
            /\ attempts' = [attempts EXCEPT ![Entry] = attempts[Entry] + 1]
        BY <2>5 DEF PublishFails, outcome
      <3>2. Contents' = Contents
        <4>1. CASE Keep
          BY <1>1, <3>1, <4>1, KeepContents
        <4>2. CASE pc' = "dlq" /\ UNCHANGED <<entries, i, w, held>>
          BY <3>1, <4>2 DEF Contents
        <4>3. QED
          BY <2>5, <4>1, <4>2 DEF PublishFails
      <3>3. Queued' = Queued /\ Accepted' = Accepted /\ Dead' = Dead
        BY <3>1, <3>2 DEF Queued, Accepted, Dead
      <3>4. Entry \in Ids /\ Entry \in Queued
        BY <1>1, <3>1, EntryQueued, EntryPlace
      <3>5. Doc!Fail(Entry)
        BY <3>1, <3>3, <3>4 DEF Doc!Fail
      <3>6. QED
        BY <3>4, <3>5 DEF Doc!Next
    <2>6. CASE DeadLetterOk
      <3>1. /\ Entry # None /\ pc = "dlq" /\ pc' = "flush" /\ Forget
            /\ UNCHANGED <<lang, nextID, attempts>>
            /\ dead' = [dead EXCEPT ![Entry] = Count(@)]
            /\ sent' = sent /\ rebuilt' = rebuilt /\ dropped' = dropped
            /\ HasDLQ /\ attempts[Entry] >= MaxAttempts
        BY <1>1, <2>6 DEF DeadLetterOk, history, FlushShape, Exhausted
      <3>2. Entry \in Ids /\ dead \in [Ids -> 0 .. Many]
        BY <1>1, <3>1, EntryPlace DEF TypeOK
      <3>3. Takes(Entry)
        BY <1>1, <3>1, ForgetContents
      <3>4. Entry \in Queued /\ Queued' = Queued \ {Entry}
        BY <1>1, <3>1, <3>2, <3>3, TakeStep
      <3>5. Dead' = Dead \cup {Entry} /\ Accepted' = Accepted
        <4>1. PICK e \in Ids : e = Entry
          BY <3>2
        <4>2. dead' = [dead EXCEPT ![e] = Count(@)]
          BY <3>1, <4>1
        <4>3. {x \in Ids : dead'[x] > 0} = {x \in Ids : dead[x] > 0} \cup {e}
          BY <3>2, <4>2, Marked
        <4>4. QED
          BY <3>1, <4>1, <4>3 DEF Accepted, Dead
      <3>6. Doc!DeadLetter(Entry)
        BY <3>1, <3>4, <3>5 DEF Doc!DeadLetter
      <3>7. QED
        BY <3>2, <3>6 DEF Doc!Next
    <2>7. CASE DeadLetterFails
      <3>1. /\ Entry # None /\ pc = "dlq" /\ Keep /\ UNCHANGED <<lang, attempts, sent, dead>>
        BY <1>1, <2>7 DEF DeadLetterFails, outcome, FlushShape
      <3>2. Contents' = Contents
        BY <1>1, <3>1, KeepContents
      <3>3. QED
        BY <1>2, <3>1, <3>2
    <2>8. CASE BuildError
      BY <1>1, <1>2, <2>8, BuildErrorContents DEF BuildError, outcome
    <2>9. CASE DropFuture
      BY <2>9 DEF DropFuture
    <2>10. CASE End
      BY <1>1, <1>2, <2>10, EndContents DEF End, outcome
    <2>11. QED
      BY <1>3, <2>1, <2>2, <2>3, <2>4, <2>5, <2>6, <2>7, <2>8, <2>9, <2>10 DEF Next
  <1>4. CASE UNCHANGED vars
    <2>1. Contents' = Contents /\ UNCHANGED <<attempts, sent, dead>>
      BY <1>4 DEF vars, outcome, Contents
    <2>2. QED
      BY <1>2, <2>1
  <1>5. QED
    BY <1>3, <1>4

(***************************************************************************)
(* The Go, Rust, TypeScript and Zig outboxes do what Outbox promises: from *)
(* an empty outbox, and until a Go flush returns half way or a Rust flush  *)
(* is dropped, each of their steps enqueues a new entry, sends one that is *)
(* there, counts a failure or moves an entry out of attempts to its dead   *)
(* letter, or changes nothing that shows.                                  *)
(***************************************************************************)
THEOREM ClientsFollow == Spec => FollowsOutbox
  <1>1. Init => Doc!Init
    <2>1. SUFFICES ASSUME Init PROVE Doc!Init
      OBVIOUS
    <2>2. Contents = <<>> /\ attempts = [e \in Ids |-> 0]
      BY <2>1 DEF Init, Contents
    <2>3. Queued = {}
      BY <2>2 DEF Queued
    <2>4. Accepted = {} /\ Dead = {}
      BY <2>1 DEF Init, Accepted, Dead
    <2>5. QED
      BY <2>2, <2>3, <2>4 DEF Doc!Init
  <1>2. OutboxInv /\ OutboxInv' /\ [Next]_vars
            => [rebuilt' \/ dropped' # {} \/ Doc!Next]_Doc!vars
    BY StepFollows
  <1>3. QED
    BY <1>1, <1>2, OutboxKept, PTL DEF Spec, FollowsOutbox

=============================================================================
