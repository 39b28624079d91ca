\* Every TCP line and every UDP datagram of the grammar, with names of
\* every length and contents at both ends of their range, passes the
\* length checks of the receive paths.
CONSTANTS
    NameLens = {1, 2, 3, 4, 5, 6, 7, 8, 9, 10, 11, 12, 13, 14, 15, 16, 17, 18, 19, 20}
    ContentLens = {1, 59999, 60000}
SPECIFICATION Spec
INVARIANT TcpValidLineAccepted
INVARIANT UdpValidLengthAccepted
