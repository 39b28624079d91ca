\* After the message id wraps to 0 the reply check msgId - 1 = ref fails.
CONSTANTS
    MaxRetrans = 1
    IdWidth = 1
    MaxSid = 2
    MaxUserCmds = 2
    MaxDeliveries = 6
    Conforming = TRUE
SPECIFICATION Spec
PROPERTY ExpectedReplyAccepted
