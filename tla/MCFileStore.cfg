SPECIFICATION Spec
CONSTANTS Configs <- MCConfigs
INVARIANTS NothingLost NothingComesBack LastRemembered BlocksAgree
CHECK_DEADLOCK FALSE
