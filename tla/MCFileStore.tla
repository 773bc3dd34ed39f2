----------------------------- MODULE MCFileStore -----------------------------
\* Instances of FileStore for TLC.
EXTENDS FileStore

Left(store, skip, remove, erase, compact, purge, sync, index, crash, update) ==
    [store |-> store, skip |-> skip, remove |-> remove, erase |-> erase, compact |-> compact,
     purge |-> purge, sync |-> sync, index |-> index, crash |-> crash,
     update |-> update]

Instance(blocksize, maxmsgs, ops) == [blocksize |-> blocksize, maxmsgs |-> maxmsgs, left |-> ops]

\* Small blocks, so that a few messages and tombstones fill several of them; in
\* each instance the operations that are to meet in one behaviour.
MCConfigs == {
    Instance(2, 0, Left(4, 0, 3, 0, 0, 0, 0, 1, 1, 0)),
    Instance(2, 0, Left(4, 0, 2, 0, 0, 0, 0, 1, 2, 0)),
    Instance(2, 0, Left(4, 1, 2, 0, 0, 0, 0, 1, 1, 0)),
    Instance(3, 0, Left(5, 0, 2, 0, 0, 0, 1, 1, 1, 0)),
    Instance(3, 0, Left(4, 1, 2, 0, 0, 0, 1, 0, 1, 0)),
    Instance(2, 0, Left(4, 0, 0, 2, 0, 0, 0, 0, 1, 0)),
    Instance(2, 2, Left(5, 0, 1, 0, 0, 0, 0, 1, 2, 0)),
    Instance(3, 2, Left(5, 0, 1, 0, 0, 0, 1, 1, 1, 0)),
    Instance(2, 0, Left(4, 0, 1, 0, 1, 0, 0, 1, 1, 0)),
    Instance(3, 0, Left(4, 0, 1, 0, 1, 0, 0, 0, 1, 0)),
    Instance(2, 0, Left(3, 0, 1, 0, 0, 1, 0, 1, 2, 0)),
    Instance(2, 0, Left(5, 0, 1, 0, 0, 0, 0, 1, 1, 1)),
    Instance(1, 3, Left(5, 0, 2, 0, 0, 0, 0, 0, 1, 1))}

\* Removals alone, for the strict property.
MCRemoves == {Instance(2, 0, Left(4, 0, 3, 0, 0, 0, 0, 1, 1, 0))}

=============================================================================
