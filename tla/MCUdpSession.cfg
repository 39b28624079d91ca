\* Safety and progress of the UDP client against a lossy, duplicating,
\* reordering network, under weak fairness of the timer.
CONSTANTS
    MaxRetrans = 1
    IdWidth = 4
    MaxSid = 2
    MaxUserCmds = 2
    MaxDeliveries = 6
    Conforming = TRUE
SPECIFICATION FairSpec
INVARIANT TypeOK
INVARIANT DisplayedAtMostOnce
INVARIANT ByeAcknowledgedBeforeSuccess
INVARIANT OpenOnlyAfterPositiveAuth
PROPERTY ExpectedReplyAccepted
PROPERTY SessionSpec
INVARIANT TimerImpliesWaiting
PROPERTY ByeEventuallyEnds
PROPERTY RequestSettles
