\* A server that closes the connection without a BYE: recv() returns 0 and
\* the client exits with success.
CONSTANTS
    MaxUserCmds = 2
    MaxSrvMsgs = 3
    Conforming = FALSE
    ConnFaults = FALSE
SPECIFICATION Spec
INVARIANT SuccessOnlyAfterBye
