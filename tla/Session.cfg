CONSTANTS
    t1 = t1
    t2 = t2
    t3 = t3
    Threads <- MCThreads
    NoThread = NoThread
    MaxSends <- MCMaxSends
    WARN_SENDQUEUE_SIZE <- MCWarn
    KICK_SENDQUEUE_SIZE <- MCKick
    RioRoom <- MCRioRoom
SPECIFICATION FairSpec
INVARIANTS
    TypeOK
    OneSendAtATime
    NothingStranded
    StreamHasNoGap
    StillReceiving
    ReleaseIsFinal
PROPERTIES
    QueuedIsSent
    EndedIsReleased
\* A session that was released stays so.
CHECK_DEADLOCK FALSE
