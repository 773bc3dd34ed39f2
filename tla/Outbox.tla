------------------------------- MODULE Outbox -------------------------------
(***************************************************************************)
(* What an outbox of the linear helper clients promises: an entry stays    *)
(* until its publish succeeds, or until its dead letter was published once *)
(* its attempts were used up.  The four clients are in OutboxClients.      *)
(***************************************************************************)
EXTENDS Naturals

CONSTANTS
    Ids,           \* the entries
    MaxAttempts,   \* the configured number of attempts
    HasDLQ         \* is a DLQ subject configured?

VARIABLES
    queued,     \* the entries in the outbox
    attempts,   \* the failed publishes of each entry
    accepted,   \* the entries whose publish succeeded
    dead        \* the entries whose dead letter was published

vars == <<queued, attempts, accepted, dead>>

Init ==
    /\ queued = {}
    /\ attempts = [e \in Ids |-> 0]
    /\ accepted = {}
    /\ dead = {}

Enqueue(e) ==
    /\ e \notin queued \cup accepted \cup dead
    /\ queued' = queued \cup {e}
    /\ UNCHANGED <<attempts, accepted, dead>>

Accept(e) ==
    /\ e \in queued
    /\ accepted' = accepted \cup {e}
    /\ queued' = queued \ {e}
    /\ UNCHANGED <<attempts, dead>>

Fail(e) ==
    /\ e \in queued
    /\ attempts' = [attempts EXCEPT ![e] = @ + 1]
    /\ UNCHANGED <<queued, accepted, dead>>

DeadLetter(e) ==
    /\ e \in queued
    /\ HasDLQ /\ attempts[e] >= MaxAttempts
    /\ dead' = dead \cup {e}
    /\ queued' = queued \ {e}
    /\ UNCHANGED <<attempts, accepted>>

Next == \E e \in Ids : Enqueue(e) \/ Accept(e) \/ Fail(e) \/ DeadLetter(e)

Spec == Init /\ [][Next]_vars

=============================================================================
