\* A REPLY to an earlier request is taken while the current request is
\* still unconfirmed: the stop-and-wait discipline of section 4.7 breaks.
CONSTANTS
    MaxRetrans = 1
    IdWidth = 4
    MaxSid = 2
    MaxUserCmds = 3
    MaxDeliveries = 6
    Conforming = TRUE
SPECIFICATION FairSpec
PROPERTY StopAndWait
