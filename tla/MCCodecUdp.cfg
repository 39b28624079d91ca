\* A UDP MSG or ERR with a long content is rejected by the receive bound.
CONSTANTS
    NameLens = {1, 2, 3, 20}
    ContentLens = {1, 59999, 60000}
SPECIFICATION Spec
INVARIANT UdpValidMsgReceived
