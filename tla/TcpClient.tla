----------------------------- MODULE TcpClient -----------------------------
(***************************************************************************)
(* The TCP variant of the IPK25-CHAT client (src/tcp-client.cpp): its FSM, *)
(* the single 5 s reply timer, and the handlers of standard input, SIGINT, *)
(* the timer and one server message.  How server messages are cut out of   *)
(* the byte stream is left to the modules that extend this one: TcpFramed  *)
(* hands over whole messages, TcpStream reassembles them from chunks.      *)
(*                                                                         *)
(* A message is its type (and, for a REPLY, its result): display names,    *)
(* contents and secrets are abstracted away.  A server line is also        *)
(* well-formed or not (wf): whether it matches the regular expression of   *)
(* its type and its fields have valid lengths.                             *)
(***************************************************************************)
EXTENDS ChatFsm, Sequences

CONSTANTS
    MaxUserCmds,   \* number of commands the user types (bound)
    MaxSrvMsgs     \* number of messages the server writes (bound)

VARIABLES
    state,      \* m_current_state
    waitReply,  \* m_is_waiting_for_reply
    timer,      \* the timerfd is armed
    stdinOn,    \* stdin is registered in the epoll instance
    exit,       \* RUNNING, or how the process ended
    toServer,   \* the messages written to the socket, in order
    userCmds,   \* commands typed so far (bound)
    srvOut,     \* the messages the server has written, in order
    srvRead,    \* how many messages of toServer the server has read
    srvAuth,    \* the server has answered an AUTH positively
    srvClosed,  \* the server has closed the connection
    connErr     \* the connection has failed (reset): recv() and send() may fail

clientVars == <<state, waitReply, timer, stdinOn, exit, toServer, userCmds>>
serverVars == <<srvOut, srvRead, srvAuth, srvClosed, connErr>>

\* Why the client sends an ERR; the text itself is abstracted away.
Causes == {"NONE", "UNEXPECTED", "MALFORMED", "REPLY_TIMEOUT", "RECV_FAILED",
           "TOO_LONG"}

ClientMsgs == [type : {"AUTH", "JOIN", "MSG", "ERR", "BYE"}, cause : Causes]
ServerMsgs == [type : {"REPLY", "MSG", "ERR", "BYE", "UNKNOWN", "LONG"},
               ok : BOOLEAN, wf : BOOLEAN]

\* getServerMsgType found no known keyword at the start of the line
\* (M_UNKNOWN).  A line of type LONG is one whose text alone is at least
\* s_MAX_MSG_SIZE bytes, whatever its keyword: the length checks of
\* processSocketEvent reject it before it is classified.
UnknownMsg == [type |-> "UNKNOWN", ok |-> FALSE, wf |-> FALSE]

ClientMsg(t, cause) == [type |-> t, cause |-> cause]

-----------------------------------------------------------------------------
\* Fault: stopTimer leaves the timerfd armed.
StopTimerKeepArmed == timer' = timer

\* stopTimer: disarm the timerfd.
StopTimer == timer' = FALSE

\* Exception::isSigintOrEofReceived: an exception with no explanation is
\* the one thrown on SIGINT or end of input.
IsSigintOrEofReceived(explanation) == explanation = ""

\* The handler of main() for a client Exception: EXIT_SUCCESS for SIGINT
\* or end of input, EXIT_FAILURE (after the diagnostic) otherwise.
MainExit(e) == IF IsSigintOrEofReceived(e) THEN "SUCCESS" ELSE "FAILURE"

\* sendMsgToServer: on a failed connection send() may return -1, and the
\* exception "couldn't send ..." ends the process with failure before the
\* message is written and before the rest of the handler runs.  The FSM
\* state is left to the handler.
SendFails ==
    /\ connErr
    /\ exit' = MainExit("SEND_FAILED")
    /\ UNCHANGED <<waitReply, timer, stdinOn, toServer, userCmds>>

\* Fault: the exception is thrown before the ERR is written.
SendErrMsgAndTerminateSilently(cause) ==
    /\ exit' = MainExit(cause)
    /\ UNCHANGED <<state, waitReply, timer, stdinOn, toServer, userCmds>>

\* sendErrMsgAndTerminate: write an ERR and throw Exception{err_msg}.
SendErrMsgAndTerminate(cause) ==
    \/ /\ toServer' = Append(toServer, ClientMsg("ERR", cause))
       /\ exit' = MainExit(cause)
       /\ UNCHANGED <<state, waitReply, timer, stdinOn, userCmds>>
    \/ SendFails /\ UNCHANGED state

\* Fault: the JOIN case of processMessageFromServer forgets M_MSG.
ExpectedNoMsgInJoin == [START |-> {}, AUTH |-> {"REPLY"}, OPEN |-> {"MSG"},
                        JOIN |-> {"REPLY"}]

\* The types processMessageFromServer accepts in each state besides BYE
\* and ERR; any other type (M_UNKNOWN included) is a protocol error.
Expected == [START |-> {}, AUTH |-> {"REPLY"}, OPEN |-> {"MSG"},
             JOIN |-> {"REPLY", "MSG"}]

\* Fault: the return values of the BYE and ERR branches are swapped.
ServerFarewellExitSwapped == [BYE |-> "FAILURE", ERR |-> "SUCCESS"]

\* processMessageFromServer returns 0 after a BYE and 1 after an ERR, and
\* Client::run turns them into EXIT_SUCCESS and EXIT_FAILURE.
ServerFarewellExit == [BYE |-> "SUCCESS", ERR |-> "FAILURE"]

\* Fault: only a positive REPLY opens the channel, in JOIN as well.
StateAfterReplyOkOnly(m) == IF m.ok THEN "OPEN" ELSE state

\* Any REPLY in JOIN, and a positive one in AUTH, moves to OPEN.
StateAfterReply(m) == IF state = "JOIN" \/ m.ok THEN "OPEN" ELSE state

\* processServerReplyMsg: a REPLY nobody waits for is a protocol error, and
\* so is one that does not match getReplyMsgRegex.
ProcessServerReplyMsg(m) ==
    \/ /\ waitReply /\ m.wf
       /\ StopTimer
       /\ state' = StateAfterReply(m)
       /\ waitReply' = FALSE
       /\ stdinOn' = TRUE
       /\ UNCHANGED <<exit, toServer, userCmds>>
    \/ /\ waitReply /\ ~m.wf
       /\ SendErrMsgAndTerminate("MALFORMED")
    \/ /\ ~waitReply
       /\ SendErrMsgAndTerminate("UNEXPECTED")

\* processServerMsgMsg: a well-formed MSG is printed, a malformed one is a
\* protocol error.
ProcessServerMsgMsg(m) ==
    \/ m.wf /\ UNCHANGED clientVars
    \/ ~m.wf /\ SendErrMsgAndTerminate("MALFORMED")

\* processServerByeMsg and processServerErrMsg: a well-formed BYE or ERR
\* ends the process through the return value of processMessageFromServer,
\* a malformed one is a protocol error.
ProcessServerByeErrMsg(m) ==
    \/ /\ m.wf
       /\ exit' = ServerFarewellExit[m.type]
       /\ UNCHANGED <<state, waitReply, timer, stdinOn, toServer, userCmds>>
    \/ /\ ~m.wf
       /\ SendErrMsgAndTerminate("MALFORMED")

\* processMessageFromServer for one complete line.  processServerMsgMsg
\* only prints, so a MSG leaves the state alone.
ProcessMessageFromServer(m) ==
    \/ /\ m.type \in {"BYE", "ERR"}
       /\ ProcessServerByeErrMsg(m)
    \/ /\ m.type \notin {"BYE", "ERR"} \cup Expected[state]
       /\ SendErrMsgAndTerminate("UNEXPECTED")
    \/ /\ m.type = "MSG" /\ m.type \in Expected[state]
       /\ ProcessServerMsgMsg(m)
    \/ /\ m.type = "REPLY" /\ m.type \in Expected[state]
       /\ ProcessServerReplyMsg(m)

-----------------------------------------------------------------------------
(* Handlers of standard input, SIGINT and the timer.                       *)

\* After /auth and /join: remove stdin from the epoll instance, arm the
\* 5 s reply timer and wait for the REPLY.
AwaitReply(t) ==
    IF t \in {"AUTH", "JOIN"}
       THEN /\ stdinOn' = FALSE /\ timer' = TRUE /\ waitReply' = TRUE
       ELSE UNCHANGED <<stdinOn, timer, waitReply>>

\* processStdinEvent for a line that yields a message of type t.  /join
\* enters JOIN before the message is written (and so before a failed
\* send throws); /auth and /join suspend
\* stdin and arm the reply timer, a chat message does neither.
UserCommand(t) ==
    /\ exit = "RUNNING" /\ stdinOn
    /\ userCmds < MaxUserCmds
    /\ t \in MaySend[state]
    /\ \/ /\ toServer' = Append(toServer, ClientMsg(t, "NONE"))
          /\ userCmds' = userCmds + 1
          /\ state' = CASE t = "JOIN"                     -> "JOIN"
                        [] t = "AUTH" /\ state = "START" -> "AUTH"
                        [] OTHER                         -> state
          /\ AwaitReply(t)
          /\ UNCHANGED exit
       \/ SendFails /\ state' = IF t = "JOIN" THEN "JOIN" ELSE state

\* processStdinEvent on EPOLLHUP, and sigintHandler: write a BYE and throw
\* Exception{""}; nothing is awaited.  If the send fails, its exception
\* is the one main() sees.
SendByeAndQuit ==
    /\ exit = "RUNNING"
    /\ \/ /\ toServer' = Append(toServer, ClientMsg("BYE", "NONE"))
          /\ exit' = MainExit("")
          /\ UNCHANGED <<state, waitReply, timer, stdinOn, userCmds>>
       \/ SendFails /\ UNCHANGED state

UserEof == stdinOn /\ SendByeAndQuit

SigInt == SendByeAndQuit

\* processTimerEvent: the reply did not come in time.  The exception for a
\* timer event with no reply awaited is left out: the invariant
\* TimerImpliesWaiting shows that its guard never holds.
TimerFires ==
    /\ exit = "RUNNING" /\ timer /\ waitReply
    /\ SendErrMsgAndTerminate("REPLY_TIMEOUT")

ClientInit ==
    /\ state = "START"
    /\ waitReply = FALSE
    /\ timer = FALSE
    /\ stdinOn = TRUE
    /\ exit = "RUNNING"
    /\ toServer = <<>>
    /\ userCmds = 0

ClientTypeOK ==
    /\ state \in Phases
    /\ {waitReply, timer, stdinOn} \subseteq BOOLEAN
    /\ exit \in {"RUNNING", "SUCCESS", "FAILURE"}
    /\ toServer \in Seq(ClientMsgs)
    /\ userCmds \in 0 .. MaxUserCmds

=============================================================================
