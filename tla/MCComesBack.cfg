SPECIFICATION Spec
CONSTANTS Configs <- MCRemoves
INVARIANTS NothingComesBackAtAll
CHECK_DEADLOCK FALSE
