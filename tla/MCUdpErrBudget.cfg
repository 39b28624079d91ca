\* An ERR inherits the retransmissions its predecessor already spent.
CONSTANTS
    MaxRetrans = 1
    IdWidth = 4
    MaxSid = 2
    MaxUserCmds = 2
    MaxDeliveries = 6
    Conforming = TRUE
SPECIFICATION Spec
INVARIANT FullBudgetBeforeGiveUp
