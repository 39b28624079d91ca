\* A REPLY the client does not take is left unconfirmed, and in AUTH it
\* rebinds the server address all the same.
CONSTANTS
    MaxRetrans = 1
    IdWidth = 4
    MaxSid = 2
    MaxUserCmds = 2
    MaxDeliveries = 6
    Conforming = TRUE
SPECIFICATION Spec
PROPERTY UnmatchedReplyIgnored
