\* The TCP client against a server that may write any line, unknown
\* keywords included, and close the connection without a BYE; progress
\* of the reassembly loop under fairness of the socket and the timer.
CONSTANTS
    MaxUserCmds = 2
    MaxSrvMsgs = 3
    Conforming = FALSE
    ConnFaults = TRUE
SPECIFICATION FairSpec
INVARIANT FailureReported
PROPERTY FramedSpec
PROPERTY LinesEventuallyHandled
