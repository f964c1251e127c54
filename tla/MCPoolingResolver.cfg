CONSTANTS
    Cands <- MCCands
    Problems <- MCProblems
    AvailIsas <- MCAvailIsas
    KeepHint = TRUE
SPECIFICATION Spec
INVARIANTS
    TypeOK
    WsReadAsWritten
    BwdFollowsFwd
