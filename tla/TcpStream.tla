----------------------------- MODULE TcpStream -----------------------------
(***************************************************************************)
(* The TCP client with the byte stream of its socket: the server's lines   *)
(* reach the client in chunks of any size (one recv() each), and the loop  *)
(* of Tcp_client::processSocketEvent appends every chunk to                *)
(* m_msg_from_server, cuts off and handles each prefix ending in CRLF, and *)
(* keeps the rest for the next chunk.                                      *)
(*                                                                         *)
(* A line is three tokens: its text (which never contains CR; the          *)
(* grammars allow printable characters, space and LF only) and the two    *)
(* terminator bytes, so that a chunk can end inside a line, between its    *)
(* text and CR, or between CR and LF.  The wire is the concatenation of    *)
(* the lines the server wrote; recvd tokens of it have been read from the  *)
(* socket and consumed of them erased from the buffer.                     *)
(***************************************************************************)
EXTENDS TcpServer, SequencesExt, FiniteSets

VARIABLES
    recvd,      \* tokens read from the socket so far
    consumed    \* tokens erased from m_msg_from_server so far

vars == <<clientVars, serverVars, recvd, consumed>>

NoText == [type |-> "NONE", ok |-> FALSE, wf |-> FALSE]

\* A line on the wire: "<text>\r\n".
Line(m) == << [k |-> "TEXT", m |-> m], [k |-> "CR", m |-> NoText],
              [k |-> "LF", m |-> NoText] >>

Wire == FlattenSeq([i \in DOMAIN srvOut |-> Line(srvOut[i])])

\* m_msg_from_server.
Buffer == SubSeq(Wire, consumed + 1, recvd)

\* The positions at which s_END_OF_MESSAGE starts in a buffer.
CrlfAt(b) == {p \in 1 .. Len(b) - 1 : b[p].k = "CR" /\ b[p + 1].k = "LF"}

\* Fault: the search stops one byte short, so a terminator at the very end
\* of the buffer is not found until more data arrives.
HasLineNotLast == \E p \in CrlfAt(Buffer) : p < Len(Buffer) - 1

\* The condition of the while loop: find(s_END_OF_MESSAGE) != npos.
HasLine == CrlfAt(Buffer) # {}

\* Fault: the processed line is erased without its LF.
LineEndShort == Min(CrlfAt(Buffer))

\* find() returns the first terminator; the line, and what is erased,
\* ends s_BYTES_IN_END_OF_MESSAGE later.
LineEnd == Min(CrlfAt(Buffer)) + 1

\* getServerMsgType: the keyword at the start of the line, if any.
MsgType(line) == IF line[1].k = "TEXT" THEN line[1].m ELSE UnknownMsg

\* Fault: the length of a complete line is not checked.
LineTooLongUnchecked(line) == FALSE

\* The check of each complete line: single_msg.size() > s_MAX_MSG_SIZE.
LineTooLong(line) == MsgType(line).type = "LONG"

\* The check after the loop: m_msg_from_server.size() >= s_MAX_MSG_SIZE,
\* i.e. the unterminated rest holds the text of an over-long line.
RestTooLong ==
    \E p \in DOMAIN Buffer : Buffer[p].k = "TEXT" /\ Buffer[p].m.type = "LONG"

\* processSocketEvent has returned to the event loop: no complete line is
\* left in the buffer and the rest has passed its length check.
Returned == ~HasLine /\ ~RestTooLong

\* Fault: the buffer is extended by one byte more than recv() returned.
RecvPastEnd ==
    /\ exit = "RUNNING" /\ Returned /\ ~connErr
    /\ \E n \in 1 .. Len(Wire) - recvd : recvd' = recvd + n + 1
    /\ UNCHANGED <<clientVars, serverVars, consumed>>

\* recv() returns a chunk of what the server wrote.  The loop runs until no
\* complete line is left, so a chunk is read only then.
Recv ==
    /\ exit = "RUNNING" /\ Returned /\ ~connErr
    /\ \E n \in 1 .. Len(Wire) - recvd : recvd' = recvd + n
    /\ UNCHANGED <<clientVars, serverVars, consumed>>

\* One pass of the loop: the first complete line is checked, handled and
\* erased.  An over-long line, a BYE or an ERR ends the process, and the
\* rest of the buffer with it.
ProcessLine ==
    /\ exit = "RUNNING" /\ HasLine
    /\ LET line == SubSeq(Buffer, 1, LineEnd) IN
       \/ /\ LineTooLong(line)
          /\ SendErrMsgAndTerminate("TOO_LONG")
          /\ UNCHANGED consumed
       \/ /\ ~LineTooLong(line)
          /\ ProcessMessageFromServer(MsgType(line))
          /\ consumed' = consumed + LineEnd
    /\ UNCHANGED <<serverVars, recvd>>

\* The end of processSocketEvent: no complete line is left, and a rest of
\* s_MAX_MSG_SIZE bytes or more is reported with an ERR.
CheckRest ==
    /\ exit = "RUNNING" /\ ~HasLine /\ RestTooLong
    /\ SendErrMsgAndTerminate("TOO_LONG")
    /\ UNCHANGED <<serverVars, recvd, consumed>>

\* recv() returns 0: the server closed the connection and everything it
\* wrote has been read; processSocketEvent returns 0 (success).
PeerClosed ==
    /\ exit = "RUNNING" /\ Returned
    /\ srvClosed /\ ~connErr /\ recvd = Len(Wire)
    /\ exit' = "SUCCESS"
    /\ UNCHANGED <<state, waitReply, timer, stdinOn, toServer, userCmds,
                   serverVars, recvd, consumed>>

\* Fault: the return value of recv() is not checked for -1, and the
\* handler returns as if no data had come.
RecvFailsIgnored ==
    /\ exit = "RUNNING" /\ Returned /\ connErr
    /\ UNCHANGED vars

\* recv() returns -1 on the failed connection (the socket is readable with
\* EPOLLERR): sendErrMsgAndTerminate writes an ERR, if send() still can,
\* and the process exits with failure.  Lines still in m_msg_from_server
\* are not handled.
RecvFails ==
    /\ exit = "RUNNING" /\ Returned /\ connErr
    /\ SendErrMsgAndTerminate("RECV_FAILED")
    /\ UNCHANGED <<serverVars, recvd, consumed>>

\* After exit the process is gone; the server may still read and close.
Terminated ==
    /\ exit # "RUNNING"
    /\ UNCHANGED vars

Init == ClientInit /\ ServerInit /\ recvd = 0 /\ consumed = 0

\* Client::run serves one ready source per epoll_wait; while the socket
\* handler loops over buffered lines nothing else runs.
Next ==
    \/ /\ Returned
       /\ \/ \E t \in UserMsgTypes : UserCommand(t)
          \/ UserEof
          \/ SigInt
          \/ TimerFires
       /\ UNCHANGED <<serverVars, recvd, consumed>>
    \/ Recv
    \/ ProcessLine
    \/ CheckRest
    \/ PeerClosed
    \/ RecvFails
    \/ ServerNext /\ UNCHANGED <<clientVars, recvd, consumed>>
    \/ Terminated

Spec == Init /\ [][Next]_vars

\* What processSocketEvent does when epoll reports the socket: read a
\* chunk or fail, then handle the buffered lines and check the rest.  The
\* guards of these steps exclude one another.
SocketEvent == Recv \/ RecvFails \/ ProcessLine \/ CheckRest

\* The socket stays readable while unread bytes, a buffered line or an
\* error remain, and the armed timerfd stays readable; the level-triggered
\* epoll loop serves every ready descriptor in turn.  Nothing is assumed
\* of the user or the server.
Fairness ==
    /\ WF_vars(SocketEvent)
    /\ WF_vars(TimerFires /\ UNCHANGED <<serverVars, recvd, consumed>>)

FairSpec == Spec /\ Fairness

-----------------------------------------------------------------------------
TypeOK ==
    /\ ClientTypeOK
    /\ ServerTypeOK
    /\ recvd \in 0 .. Len(Wire)
    /\ consumed \in 0 .. recvd

\* The lines handled so far: one per terminator erased from the buffer.
HandledLines == Cardinality({i \in 1 .. consumed : Wire[i].k = "LF"})

Framed == INSTANCE TcpFramed WITH handled <- HandledLines

\* The reassembly loop of processSocketEvent (find, substr, erase) hands
\* every line the server wrote to processMessageFromServer whole, once
\* and in order, however recv() cuts the stream: TcpStream implements
\* TcpFramed.
FramedSpec == Framed!Spec

\* The session as ChatSession sees it: the REPLY awaited is the one to
\* the request that moved the client to its state, and the client has
\* said farewell once the last line it wrote is a BYE or an ERR.
Session == INSTANCE ChatSession
    WITH phase   <- state,
         pending <- IF waitReply THEN state ELSE "NONE",
         closing <- toServer # <<>> /\ Last(toServer).type \in {"BYE", "ERR"},
         result  <- exit

\* Spec sections 4.3 and 4.6: the TCP client keeps the session promises
\* of ChatSession: one request at a time and only as the FSM allows, the
\* phase a REPLY leads to, nothing new after a farewell, and one exit.
SessionSpec == Session!Spec

\* The session was closed by a BYE: the client wrote one, or the last
\* line it handled was the server's.
ByeExchanged ==
    \/ toServer # <<>> /\ Last(toServer).type = "BYE"
    \/ HandledLines > 0 /\ srvOut[HandledLines].type = "BYE"

\* Spec sections 4.8 and 6: exit code 0 means a clean termination, a BYE
\* of the user or of the server.  The process ends with success (the
\* return value 0 of processSocketEvent, or Exception{""} in main) only
\* after a BYE was written or handled.
SuccessOnlyAfterBye == exit = "SUCCESS" => ByeExchanged

\* Spec section 7: a malformed line, a line not allowed in the current
\* state and a reply timeout are reported to the peer with an ERR before
\* the process exits with failure; the only other failure is an ERR from
\* the peer.  Every failure exit follows an ERR the client wrote last, or
\* a well-formed ERR it handled last, unless the connection failed, in
\* which case send() may fail too.
FailureReported ==
    exit = "FAILURE" =>
        \/ connErr
        \/ toServer # <<>> /\ Last(toServer).type = "ERR"
        \/ /\ HandledLines > 0
           /\ srvOut[HandledLines].type = "ERR" /\ srvOut[HandledLines].wf

\* Every line the server writes is handled by processMessageFromServer,
\* unless the process ends first: no complete line is left in
\* m_msg_from_server waiting for more data.  As srvOut only grows, and by
\* at most MaxSrvMsgs lines, this is the same as: for every k, once the
\* server has written k lines, the client eventually handles k lines.
LinesEventuallyHandled ==
    []<>(HandledLines = Len(srvOut) \/ exit # "RUNNING")

\* Spec section 7: a transport I/O failure ends the process.  A failed
\* connection keeps the socket readable (EPOLLERR), so processSocketEvent
\* is called, recv() fails and the client exits, whatever the user does;
\* it never waits forever on a dead connection, nor with a complete line
\* still buffered.
ConnectionFailureEnds == connErr ~> exit # "RUNNING"

\* Against a server that keeps to the protocol, the client writes an ERR
\* only when the 5 s reply timer expires (processTimerEvent) or recv()
\* fails on a failed connection (processSocketEvent): the FSM of
\* processMessageFromServer accepts every line such a server can send in
\* the state the client is in when the line is handled.
ErrOnlyOnTimeout ==
    \A i \in DOMAIN toServer :
        toServer[i].type = "ERR" =>
            toServer[i].cause \in {"REPLY_TIMEOUT", "RECV_FAILED"}

\* The reply timer is armed only while a REPLY is awaited: the exception
\* of processTimerEvent ("timer event, but waiting_for_reply is false")
\* is never thrown.
TimerImpliesWaiting == timer => waitReply

=============================================================================
