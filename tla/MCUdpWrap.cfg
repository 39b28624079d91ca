\* The UDP client at the edges: a one-bit message id, so that ids wrap
\* around and late CONFIRMs of earlier messages carry the current id, and
\* a server that may also send malformed datagrams.
CONSTANTS
    MaxRetrans = 1
    IdWidth = 1
    MaxSid = 2
    MaxUserCmds = 2
    MaxDeliveries = 5
    Conforming = FALSE
SPECIFICATION Spec
INVARIANT TimerImpliesWaiting
INVARIANT FailureReported
PROPERTY SessionSpec
