\* A run of turns ends when all are answered: the environment is bounded.
CHECK_DEADLOCK FALSE
SPECIFICATION FairSpec
CONSTANTS
    u1 = u1
    u2 = u2
    q1 = q1
    f1 = f1
    Users = {u1, u2}
    Questions = {q1}
    Requests = {1, 2, 3}
    Owner <- MCOwner
    Asks <- MCAsks
    Streamable = {1, 2}
    Pages = {u1}
    Folders = {f1}
    FolderOf <- MCFolderOf
    NoTurn = NoTurn
    NoUser = NoUser
    MaxUpsets = 1
INVARIANTS
    OwnContext
    CorrectionAccounted
    AnswerAfterQuestion
    CountMatches
PROPERTIES
    StreamStored
