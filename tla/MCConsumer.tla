----------------------------- MODULE MCConsumer -----------------------------
(***************************************************************************)
(* Consumers of a stream of two messages, one published after the start.   *)
(***************************************************************************)
EXTENDS Consumer

Conf(clustered, push, all, wq, maxp, n, props, f, kinds) ==
    [clustered |-> clustered, push |-> push, all |-> all, wq |-> wq, maxdc |-> 2,
     maxp |-> maxp, n |-> n, props |-> props, f |-> f, kinds |-> kinds]

C == TRUE
R1 == FALSE
Push == TRUE
Pull == FALSE
All == TRUE
Explicit == FALSE
WorkQueue == TRUE
Limits == FALSE

MCConfigs ==
    { Conf(C, Push, Explicit, Limits, 2, 2, 2, 1,
           {"remove", "purge", "fail", "delay", "progress"}),
      Conf(C, Push, Explicit, Limits, 2, 2, 1, 2, {"leader"}),
      Conf(C, Push, All, WorkQueue, 0, 1, 1, 3, {"leader", "remove"}),
      Conf(C, Pull, All, WorkQueue, 0, 2, 1, 1, {"leader"}),
      Conf(C, Push, Explicit, Limits, 0, 1, 2, 1, {"reset"}),
      Conf(R1, Pull, Explicit, WorkQueue, 1, 2, 0, 1, {"restart", "crash"}),
      Conf(R1, Pull, Explicit, WorkQueue, 0, 2, 0, 1, {"purge", "fail", "remove"}),
      Conf(R1, Pull, All, WorkQueue, 0, 2, 0, 1, {"remove", "progress"}),
      Conf(R1, Push, Explicit, Limits, 0, 2, 0, 1, {"reset"}) }

\* One consumer whose deliveries may fail.
FailConfigs == { Conf(R1, Push, Explicit, Limits, 0, 1, 0, 1, {"fail"}) }
=============================================================================
