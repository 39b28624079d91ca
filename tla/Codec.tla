------------------------------- MODULE Codec -------------------------------
(***************************************************************************)
(* The size limits the two clients put on what they receive, against the   *)
(* lengths of the messages the grammar allows.  A server message is its    *)
(* kind and the lengths of its display name and content; its length on    *)
(* the wire follows from the encoding of each variant.  The variable msg   *)
(* ranges over the inputs and never changes: the properties are checked  *)
(* for every one of them.                                                  *)
(***************************************************************************)
EXTENDS Integers

CONSTANTS
    NameLens,     \* display name lengths to try, within 1 .. NameMax
    ContentLens   \* content lengths to try, within 1 .. ContentMax

\* Client::s_DISPLAY_NAME_MAX_LENGTH and s_MSG_CONTENT_MAX_LENGTH.
NameMax == 20
ContentMax == 60000

Kinds == {"MSG", "ERR", "REPLY", "BYE"}

VARIABLE msg

-----------------------------------------------------------------------------
(* UDP: type (1), id (2), then the fields, each ended by a zero byte.      *)

\* Udp_client::s_MAX_MSG_SIZE: header, result, ref id, content, terminator
\* (the layout of a REPLY).
UdpMaxMsgSize == 3 + 1 + 2 + ContentMax + 1

\* The length of a server message, in the layout build*Msg gives the same
\* types: MSG and ERR carry a name and a content, BYE a name; a REPLY
\* carries a result, a ref id and a content.
UdpLength(m) ==
    CASE m.kind \in {"MSG", "ERR"} -> 3 + m.d + 1 + m.c + 1
      [] m.kind = "REPLY"          -> 3 + 1 + 2 + m.c + 1
      [] m.kind = "BYE"            -> 3 + m.d + 1

\* isValidMsgMsgLength: header, then at least one byte and a terminator for
\* each field, at most a name and a content of the maximal lengths.
UdpMsgLengthValid(n) == n >= 3 + 1 + 1 + 1 + 1 /\ n <= 3 + NameMax + 1 + ContentMax + 1

\* Fault: the upper bound forgets the terminator of the content.
UdpErrLengthValidNoTerm(n) == n >= 3 + 1 + 1 + 1 + 1 /\ n <= 3 + NameMax + 1 + ContentMax

\* isValidErrMsgLength: the same bounds as for a MSG.
UdpErrLengthValid(n) == n >= 3 + 1 + 1 + 1 + 1 /\ n <= 3 + NameMax + 1 + ContentMax + 1

\* isValidByeMsgLength: header, a name of 1 to NameMax bytes, terminator.
UdpByeLengthValid(n) == n >= 3 + 1 + 1 /\ n <= 3 + NameMax + 1

\* isValidReplyMsgLength: header, result, ref id, a content of 1 to
\* ContentMax bytes and its terminator.
UdpReplyLengthValid(n) == n >= 3 + 1 + 2 + 1 + 1 /\ n <= 1 + 2 + 1 + 2 + ContentMax + 1

\* The length check isValid*Msg applies to a datagram of each type.
UdpLengthValid(m) ==
    CASE m.kind = "MSG"   -> UdpMsgLengthValid(UdpLength(m))
      [] m.kind = "ERR"   -> UdpErrLengthValid(UdpLength(m))
      [] m.kind = "REPLY" -> UdpReplyLengthValid(UdpLength(m))
      [] m.kind = "BYE"   -> UdpByeLengthValid(UdpLength(m))

\* processSocketEvent: recvfrom reads at most s_MAX_MSG_SIZE + 1 bytes,
\* and a datagram longer than s_MAX_MSG_SIZE is answered with an ERR.
UdpReceived(n) == n <= UdpMaxMsgSize

-----------------------------------------------------------------------------
(* TCP: keywords, single spaces, CRLF.                                     *)

\* Fault: the maximum forgets the two bytes of CRLF.
TcpMaxMsgSizeNoCrlf == 8 + 1 + NameMax + 4 + ContentMax

\* Tcp_client::s_MAX_MSG_SIZE: "MSG FROM", " ", name, " IS ", content, CRLF.
TcpMaxMsgSize == 8 + 1 + NameMax + 4 + ContentMax + 2

\* The length of a line of the grammars of getMsgMsgRegex, getErrMsgRegex,
\* getReplyMsgRegex (the longer "NOK" result) and getByeMsgRegex.
TcpLength(m) ==
    CASE m.kind \in {"MSG", "ERR"} -> 9 + m.d + 4 + m.c + 2
      [] m.kind = "REPLY"          -> 13 + m.c + 2
      [] m.kind = "BYE"            -> 9 + m.d + 2

\* processSocketEvent, on a complete line: longer than the maximum is fatal.
TcpLineAccepted(n) == ~(n > TcpMaxMsgSize)

\* processSocketEvent, on what is left without a terminator.
TcpRestKept(k) == ~(k >= TcpMaxMsgSize)

-----------------------------------------------------------------------------
Init == msg \in [kind : Kinds, d : NameLens, c : ContentLens]

Next == UNCHANGED msg

Spec == Init /\ [][Next]_msg

\* Every line the TCP grammar allows passes the length check of
\* processSocketEvent whole, and so does each of its unterminated
\* prefixes (at most all but the LF) while the rest is still in transit.
TcpValidLineAccepted ==
    /\ TcpLineAccepted(TcpLength(msg))
    /\ TcpRestKept(TcpLength(msg) - 1)

\* Spec sections 3 and 4.2: every datagram the UDP encoding allows, with
\* the shortest and the longest names and contents, passes the length
\* check of its type in processMessageFromServer (isValid*MsgLength).
UdpValidLengthAccepted == UdpLengthValid(msg)

\* Spec section 8: a content of exactly 60000 bytes is accepted.  Every
\* datagram the UDP encoding allows passes the size check of
\* processSocketEvent.
UdpValidMsgReceived == UdpReceived(UdpLength(msg))

=============================================================================
