---------------------------- MODULE MCMsgRouting ----------------------------
(***************************************************************************)
(* A cluster of servers with plain subscribers and two queue groups.       *)
(***************************************************************************)
EXTENDS MsgRouting

CONSTANTS A, B, C, x1, x2, w1, w2, v1, q1, q2

MCGroup == [x \in Subs |-> CASE x \in {w1, w2} -> q1
                             [] x = v1 -> q2
                             [] OTHER -> Plain]

MCAllHomes == [Subs -> Srv]

\* Every placement, up to a renaming of the servers.
MCHomes ==
    {f \in [Subs -> Srv] : /\ f[x1] = A
                           /\ f[w1] \in {A, B}
                           /\ f[w2] = C => f[w1] = B
                           /\ f[v1] = C => B \in {f[w1], f[w2]}}

=============================================================================
