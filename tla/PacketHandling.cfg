CONSTANTS
    c1 = c1
    c2 = c2
    d1 = d1
    d2 = d2
    Conn = {c1, c2}
    Device = {d1, d2}
    Target <- TwoTargets
    IdSpace = 3
    FirstId <- EqualIds
    QueryTries = 2
    MaxCommands = 3
    Programs <- FlashPrograms
    InboxSize = 1
SPECIFICATION FairSpec
INVARIANTS
    TypeOK
    AnswerIsOwn
    ExecutedOnce
    NoGap
    IInv
PROPERTIES
    NoEffectAfterAnswer
    CommandsEnd
    ImplementsCommandChannel
\* Every connection may be closed and every packet delivered.
CHECK_DEADLOCK FALSE
