----------------------------- MODULE MCIpQueue -----------------------------
(***************************************************************************)
(* Two pushers and two consumers on a queue with both limits set.  Each    *)
(* consumer may pop the whole queue or one entry, whatever the other does. *)
(***************************************************************************)
EXTENDS IpQueue

\* Entries of different sizes: the second entry of a producer is larger.
MCCalc(e) == e[2]

=============================================================================
