SPECIFICATION FairSpec
CONSTANTS
    Layout <- KvmLayout
    Kind <- KvmKind
    Parent <- KvmParent
    Config <- KvmConfig
    Failures <- FailureKinds
    MaxTerms = 2
INVARIANTS UndoInv NothingLeft
PROPERTIES ShownWhole AlwaysSettles ExitsWithFunction
CHECK_DEADLOCK FALSE
