---------------------------- MODULE ConsumerStore ----------------------------
(***************************************************************************)
(* The state of a JetStream consumer that survives its leader: the         *)
(* consumerFileStore of server/filestore.go (the memory store has the same *)
(* operations).  A replicated consumer applies the same sequence of these  *)
(* operations on every replica; an unreplicated one calls them directly.   *)
(*                                                                         *)
(* A state is a record: dc and ds are Delivered.Consumer and               *)
(* Delivered.Stream, ac and as the AckFloor, pending maps a stream         *)
(* sequence to the consumer sequence of its first delivery (Pending), and  *)
(* redel is Redelivered.  Timestamps are left out.                         *)
(***************************************************************************)
EXTENDS Integers, Sequences, FiniteSets, Functions, FiniteSetsExt

Empty == [s \in {} |-> 0]

InitState == [dc |-> 0, ds |-> 0, ac |-> 0, as |-> 0,
              pending |-> Empty, redel |-> Empty]

Max2(a, b) == IF a > b THEN a ELSE b

Without(f, S) == Restrict(f, DOMAIN f \ S)

With(f, s, v) == [x \in DOMAIN f \cup {s} |-> IF x = s THEN v ELSE f[x]]

(***************************************************************************)
(* A delivery, a redelivery, or a change of the timestamp of one.  dc is   *)
(* the number of the delivery.                                             *)
(***************************************************************************)
UpdateDelivered(st, maxdc, dseq, sseq, dc) ==
    IF dseq <= st.ac
    THEN st
    ELSE LET added == IF sseq <= st.ds THEN st.pending
                                       ELSE With(st.pending, sseq, dseq)
             old == IF sseq \in DOMAIN st.redel THEN st.redel[sseq] ELSE 0
         IN  [st EXCEPT !.dc = Max2(@, dseq),
                        !.ds = Max2(@, sseq),
                        !.pending = IF dc > 1 /\ maxdc > 0 /\ dc > maxdc
                                    THEN Without(added, {sseq}) ELSE added,
                        !.redel = IF dc > 1 THEN With(@, sseq, Max2(old, dc - 1)) ELSE @]

\* The lowest pending sequence above sseq bounds the floors: everything below
\* it was acknowledged.
FloorsAbove(pending, dseq, sseq) ==
    LET above == {s \in DOMAIN pending : s > sseq}
    IN  IF above = {} THEN <<dseq, sseq>>
                      ELSE <<pending[Min(above)] - 1, Min(above) - 1>>

\* The acknowledgement of one message.
AckOne(st, dseq, sseq) ==
    LET first == IF dseq > st.pending[sseq] THEN st.pending[sseq] ELSE dseq
        left  == Without(st.pending, {sseq})
        floors == IF DOMAIN left = {} THEN <<st.dc, st.ds>>
                  ELSE IF first # st.ac + 1 THEN <<st.ac, st.as>>
                  ELSE IF st.dc > first THEN FloorsAbove(left, first, sseq)
                  ELSE <<first, sseq>>
    IN  [st EXCEPT !.pending = left, !.ac = floors[1], !.as = floors[2]]

\* The sequences that acknowledging up to sseq takes out: the code walks either
\* the pending messages or, if that is shorter, the range above the floor, and
\* then stops as soon as nothing is pending.
AckedRange(pending, floor, sseq) ==
    IF sseq - floor > Cardinality(DOMAIN pending)
    THEN {s \in DOMAIN pending : s <= sseq}
    ELSE {s \in floor + 1 .. sseq : \E p \in DOMAIN pending : p <= s \/ p > sseq}

\* The acknowledgement of a message and of everything before it.
AckUpTo(st, dseq, sseq) ==
    LET range == AckedRange(st.pending, st.as, sseq)
    IN  [st EXCEPT !.ac = dseq, !.as = sseq,
                   !.pending = Without(@, range),
                   !.redel = Without(@, range)]

UpdateAcks(st, all, dseq, sseq) ==
    LET seen == [st EXCEPT !.redel = Without(@, {sseq})]
    IN  IF dseq <= st.ac \/ sseq \notin DOMAIN st.pending THEN seen
        ELSE IF all THEN AckUpTo(seen, dseq, sseq)
        ELSE AckOne(seen, dseq, sseq)

UpdateStarting(st, sseq) == [st EXCEPT !.ds = Max2(@, sseq)]

ResetStore(sseq) == [InitState EXCEPT !.ds = sseq, !.as = sseq]

RemoveRedeliveredBelow(st, seq) == [st EXCEPT !.redel = Without(@, 0 .. seq - 1)]

\* Update refuses a state that is damaged or older than the one it has.
Update(st, new) ==
    IF \/ new.ac > new.dc \/ new.as > new.ds
       \/ \E s \in DOMAIN new.pending : s <= new.as \/ s > new.ds
       \/ new.dc < st.dc \/ new.as < st.as
    THEN st ELSE new
=============================================================================
