\* The TCP client against a conforming server, with every way of cutting
\* the stream into recv() chunks, over a connection that may fail; the
\* end of a failed session under fairness of the socket and the timer.
CONSTANTS
    MaxUserCmds = 4
    MaxSrvMsgs = 4
    Conforming = TRUE
    ConnFaults = TRUE
SPECIFICATION FairSpec
INVARIANT TypeOK
INVARIANT ErrOnlyOnTimeout
INVARIANT TimerImpliesWaiting
INVARIANT SuccessOnlyAfterBye
PROPERTY FramedSpec
PROPERTY ConnectionFailureEnds
PROPERTY SessionSpec
