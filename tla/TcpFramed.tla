----------------------------- MODULE TcpFramed -----------------------------
(***************************************************************************)
(* What the TCP client promises about the byte stream: every message the   *)
(* server writes is handled whole, once, and in the order written, and    *)
(* the end of the stream is seen only after all of them.  Here a message  *)
(* arrives in one piece; TcpStream shows that the reassembly loop of       *)
(* processSocketEvent implements this.                                     *)
(***************************************************************************)
EXTENDS TcpServer

VARIABLE
    handled     \* how many messages of srvOut the client has handled

vars == <<clientVars, serverVars, handled>>

\* The client handles the next message the server wrote.
Deliver ==
    /\ exit = "RUNNING"
    /\ handled < Len(srvOut) /\ srvOut[handled + 1].type # "LONG"
    /\ ProcessMessageFromServer(srvOut[handled + 1])
    /\ handled' = handled + 1
    /\ UNCHANGED serverVars

\* The next message is longer than s_MAX_MSG_SIZE: the client reports it
\* with an ERR and exits before handling it.
RejectLong ==
    /\ exit = "RUNNING"
    /\ handled < Len(srvOut) /\ srvOut[handled + 1].type = "LONG"
    /\ SendErrMsgAndTerminate("TOO_LONG")
    /\ UNCHANGED <<serverVars, handled>>

\* The whole stream has been read and the server has closed it: recv()
\* returns 0 and the process ends with success.
PeerClosed ==
    /\ exit = "RUNNING"
    /\ srvClosed /\ ~connErr /\ handled = Len(srvOut)
    /\ exit' = "SUCCESS"
    /\ UNCHANGED <<state, waitReply, timer, stdinOn, toServer, userCmds,
                   serverVars, handled>>

\* recv() fails on the failed connection: the client reports it with an
\* ERR (if that can still be sent) and exits with failure.
RecvFails ==
    /\ exit = "RUNNING" /\ connErr
    /\ SendErrMsgAndTerminate("RECV_FAILED")
    /\ UNCHANGED <<serverVars, handled>>

\* The user's and the timer's steps; the transport is not involved.
LocalNext ==
    \/ \E t \in UserMsgTypes : UserCommand(t)
    \/ UserEof
    \/ SigInt
    \/ TimerFires

Init == ClientInit /\ ServerInit /\ handled = 0

Next ==
    \/ LocalNext /\ UNCHANGED <<serverVars, handled>>
    \/ Deliver
    \/ RejectLong
    \/ PeerClosed
    \/ RecvFails
    \/ ServerNext /\ UNCHANGED <<clientVars, handled>>

Spec == Init /\ [][Next]_vars

=============================================================================
