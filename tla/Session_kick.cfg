CONSTANTS
    t1 = t1
    t2 = t2
    t3 = t3
    Threads <- MCTwoThreads
    NoThread = NoThread
    MaxSends <- MCMaxSends
    WARN_SENDQUEUE_SIZE <- MCWarn
    KICK_SENDQUEUE_SIZE <- MCKick
    RioRoom <- MCRioRoom
SPECIFICATION FairSpec
PROPERTIES
    KickedAtKickSize
\* A session that was released stays so.
CHECK_DEADLOCK FALSE
