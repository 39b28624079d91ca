\* The REPLY to a JOIN whose CONFIRM was lost reaches the client in OPEN,
\* and the client answers it with an ERR.
CONSTANTS
    MaxRetrans = 1
    IdWidth = 4
    MaxSid = 2
    MaxUserCmds = 2
    MaxDeliveries = 6
    Conforming = TRUE
SPECIFICATION Spec
PROPERTY FreshReplyNotFatal
