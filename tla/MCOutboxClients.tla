-------------------------- MODULE MCOutboxClients --------------------------
(***************************************************************************)
(* Three entries in each of the four clients, with a DLQ after two failed  *)
(* attempts; every publish and dead letter may fail.                       *)
(***************************************************************************)
EXTENDS OutboxClients

=============================================================================
