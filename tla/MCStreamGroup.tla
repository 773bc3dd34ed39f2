---------------------------- MODULE MCStreamGroup ----------------------------
\* Instances of StreamGroup for TLC.
EXTENDS StreamGroup, TLC

CONSTANTS r1, r2

MCReplica == {r1, r2}
Symmetry == Permutations(MCReplica)

Msg(s, id) == [s |-> s, id |-> id, els |-> -1, elss |-> -1, es |-> s, elm |-> 0]

\* Message ids, retried by their publishers, and changes of leader.
Retries == [pubs |-> {Msg(1, 1), Msg(1, 2)}, batches |-> {},
            removals |-> {}, maxmsgs |-> 0, len |-> 6, f |-> 2, kinds |-> {"leader"}]

\* A batch that is cut short by a change of leader, and messages around it.
CutShort == [pubs |-> {Msg(1, 1)}, batches |-> {<<Msg(2, 3), Msg(1, 4)>>},
             removals |-> {}, maxmsgs |-> 0, len |-> 7, f |-> 2, kinds |-> {"leader"}]

\* Messages with expectations, one of them about another subject, and a limit.
Expecting == [pubs |-> {Msg(1, 0), [Msg(1, 0) EXCEPT !.elss = 1],
                        [Msg(2, 0) EXCEPT !.elss = 1, !.es = 1],
                        [Msg(2, 0) EXCEPT !.els = 1]},
              batches |-> {<<Msg(2, 0), [Msg(2, 0) EXCEPT !.elss = 0, !.es = 1]>>},
              removals |-> {}, maxmsgs |-> 3, len |-> 6, f |-> 1, kinds |-> {"leader"}]

\* Crashes of followers with batches cut short and whole.
Crashes == [pubs |-> {Msg(1, 1)}, batches |-> {<<Msg(1, 0), Msg(2, 0)>>},
            removals |-> {}, maxmsgs |-> 0, len |-> 5, f |-> 2, kinds |-> {"leader", "crash"}]

\* A follower so far behind that it gets a snapshot.
Behind == [pubs |-> {}, batches |-> {<<Msg(1, 1), Msg(2, 0)>>},
           removals |-> {}, maxmsgs |-> 0, len |-> 5, f |-> 2, kinds |-> {"leader", "catchup"}]

\* A message that expects the id of the last one.
ExpectedId == [pubs |-> {Msg(1, 1), [Msg(1, 2) EXCEPT !.elm = 1]}, batches |-> {},
               removals |-> {}, maxmsgs |-> 0, len |-> 5, f |-> 1, kinds |-> {"leader", "crash"}]

Delete(seq) == [op |-> "delete", seq |-> seq]
Purge(s, seq, keep) == [op |-> "purge", s |-> s, seq |-> seq, keep |-> keep]

\* Purges that are applied again after a crash, with a limit on the messages.
Removals == [pubs |-> {Msg(2, 0)}, batches |-> {},
             removals |-> {Purge(0, 0, 0)}, maxmsgs |-> 2, len |-> 5, f |-> 1, kinds |-> {"crash"}]

\* Purges by subject, and a follower that gets a snapshot after them.
Subjects == [pubs |-> {Msg(2, 0)}, batches |-> {<<Msg(1, 0), Msg(2, 0)>>},
             removals |-> {Purge(2, 0, 0)}, maxmsgs |-> 0, len |-> 5, f |-> 1, kinds |-> {"catchup"}]

\* Purges down to a number, between the messages of batches.
Keeping == [pubs |-> {Msg(1, 0)}, batches |-> {<<Msg(1, 0), Msg(2, 0)>>},
            removals |-> {Purge(0, 0, 1), Purge(0, 2, 0)}, maxmsgs |-> 0, len |-> 5, f |-> 1, kinds |-> {"leader"}]

\* An id that comes again after its message was deleted.
RemovedIds == [pubs |-> {Msg(1, 1)}, batches |-> {},
               removals |-> {Delete(1)}, maxmsgs |-> 0, len |-> 5, f |-> 1, kinds |-> {"leader", "crash"}]

MCConfigs == {Retries, CutShort, Expecting, Crashes, Behind, ExpectedId,
              Removals, Subjects, Keeping, RemovedIds}

=============================================================================
