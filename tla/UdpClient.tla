----------------------------- MODULE UdpClient -----------------------------
(***************************************************************************)
(* The UDP variant of the IPK25-CHAT client (src/udp-client.cpp): its FSM, *)
(* the reliability layer (message ids, a single outstanding message, timed *)
(* retransmission, duplicate suppression) and the handlers the event loop  *)
(* calls for the socket, standard input, the timer and SIGINT.             *)
(*                                                                         *)
(* The network is two sets of datagrams: cnet (client to server) and snet  *)
(* (server to client).  A datagram is never removed from its set, so it    *)
(* may be delivered any number of times, in any order, or never: UDP loss, *)
(* duplication and reordering.  The server side is in UdpSession.          *)
(*                                                                         *)
(* Data is abstracted away: names, secrets and contents are not modelled,  *)
(* an ERR the client builds carries only the cause of the error.           *)
(***************************************************************************)
EXTENDS ChatFsm

CONSTANTS
    MaxRetrans,    \* Args::getUdpMaxRetransCount (-r), default 3
    IdWidth,       \* width of m_msg_to_server_id; 16 in the code
    MaxSid,        \* number of messages the server sends (bound)
    MaxUserCmds,   \* number of commands the user types (bound)
    MaxDeliveries  \* number of datagrams the network delivers (bound)

ASSUME MaxRetrans \in Nat /\ IdWidth \in Nat \ {0}
ASSUME MaxSid \in Nat /\ MaxUserCmds \in Nat /\ MaxDeliveries \in Nat

IdMod == 2^IdWidth
ClientIds == 0 .. IdMod - 1
ServerIds == 0 .. MaxSid - 1

VARIABLES
    state,           \* m_current_state
    msgId,           \* m_msg_to_server_id
    msgToServer,     \* m_msg_to_server: the last message built
    waitConfirm,     \* m_is_waiting_for_confirm
    waitReply,       \* m_is_waiting_for_reply
    waitByeConfirm,  \* m_is_waiting_for_bye_confirm
    retrans,         \* m_allowed_retransmissions
    timer,           \* the timerfd is armed
    stdinOn,         \* stdin is registered in the epoll instance
    confirmed,       \* m_confirmed_server_messages
    serverMsg,       \* m_server_msg: the last datagram received
    exit,            \* RUNNING, or how the process ended
    cnet,            \* datagrams sent by the client
    snet,            \* datagrams sent by the server
    displayed,       \* per server id, how often it was printed (history)
    tx,              \* transmissions of msgToServer so far (history)
    userCmds,        \* commands typed so far (bound)
    stdinEof,        \* stdin has reached end of file
    sigint,          \* SIGINT has been delivered
    deliveries,      \* datagrams delivered to the client so far (bound)
    peer             \* *m_args.getServerAddrStructAddress(): where sends go

clientVars == <<state, msgId, msgToServer, waitConfirm, waitReply,
                waitByeConfirm, retrans, timer, stdinOn, confirmed, serverMsg,
                exit, displayed, tx, userCmds, stdinEof, sigint,
                deliveries, peer>>

\* The part of the client that belongs to the message being sent.
sendVars == <<state, msgId, msgToServer, waitConfirm, waitReply,
              waitByeConfirm, retrans, timer, stdinOn, tx>>

userVars == <<userCmds, stdinEof, sigint>>

envVars == <<userCmds, stdinEof, sigint, deliveries>>

Contents == {"NONE", "UNEXPECTED", "MALFORMED", "REPLY_TIMEOUT"}

ClientDatagrams == [type : MsgTypes, id : Nat, content : Contents]
ServerDatagrams == [type : MsgTypes, id : Nat, ok : BOOLEAN, ref : Nat,
                    wf : BOOLEAN]

\* m_msg_to_server before the first message is built (an empty string).
NoMsgToServer == [type |-> "NONE", id |-> 0, content |-> "NONE"]
NoServerMsg   == [type |-> "NONE", id |-> 0, ok |-> FALSE, ref |-> 0,
                  wf |-> FALSE]

\* The server address the client starts with (-s, -p), and the port the
\* server answers from once it has opened a session: every server
\* datagram comes from the session port.
Listen == "LISTEN"
SessionPort == "SESSION"

\* Printing an incoming line is recorded up to this many times.
MaxShown == 2

-----------------------------------------------------------------------------
(* Message ids and building.                                               *)

\* A message of type t with the given id (its payload is abstracted away).
Datagram(t, id, content) == [type |-> t, id |-> id, content |-> content]

\* ++m_msg_to_server_id on a uint16_t (wraps at 2^IdWidth).
NextId(id) == (id + 1) % IdMod

\* Fault: the REPLY is compared with the current id instead of the id of
\* the request (off by one).
ReplyMatchesOffByOne(m) == msgId = m.ref

\* The reply check of processServerReplyMsg: m_msg_to_server_id - 1 is
\* computed in int after promotion, so it is -1 when the id is 0.
ReplyMatches(m) == msgId - 1 = m.ref

\* Fault: a CONFIRM is taken whatever id it carries.
ConfirmMatchesAny(m) == TRUE

\* The CONFIRM check of processServerConfirmMsg.
ConfirmMatches(m) == m.id = msgId

\* Fault: stopTimer leaves the timerfd armed.
StopTimerKeepArmed == timer' = timer

\* stopTimer: disarm the timerfd.
StopTimer == timer' = FALSE

\* sendConfirmMsg: send a CONFIRM carrying the server's id and remember
\* the id in m_confirmed_server_messages.
SendConfirmMsg(sid) ==
    /\ cnet' = cnet \cup {Datagram("CONFIRM", sid, "NONE")}
    /\ confirmed' = confirmed \cup {sid}

\* Fault: the line is printed without looking at the confirmed ids.
OutputAlways(sid) ==
    displayed' = [displayed EXCEPT ![sid] = IF @ = MaxShown THEN @ ELSE @ + 1]

\* outputIncomingMsg / outputIncomingReply, skipped for an id already
\* confirmed (duplicate suppression).
OutputUnlessConfirmed(sid) ==
    displayed' = [displayed EXCEPT ![sid] =
                    IF sid \in confirmed \/ @ = MaxShown THEN @ ELSE @ + 1]

\* Fault: the ERR is built with the id of the message it interrupts.
SendErrMsgSameId(content) ==
    LET err == Datagram("ERR", msgId, content)
    IN  /\ msgToServer' = err
        /\ cnet' = cnet \cup {err}
        /\ tx' = 1
        /\ stdinOn' = FALSE
        /\ timer' = TRUE
        /\ waitConfirm' = TRUE
        /\ waitReply' = FALSE
        /\ UNCHANGED <<state, msgId, waitByeConfirm, retrans, confirmed, exit,
                       displayed>>

\* Fault: the ERR leaves m_is_waiting_for_reply set.
SendErrMsgKeepWaiting(content) ==
    LET err == Datagram("ERR", NextId(msgId), content)
    IN  /\ msgId' = NextId(msgId)
        /\ msgToServer' = err
        /\ cnet' = cnet \cup {err}
        /\ tx' = 1
        /\ stdinOn' = FALSE
        /\ timer' = TRUE
        /\ waitConfirm' = TRUE
        /\ UNCHANGED <<state, waitReply, waitByeConfirm, retrans, confirmed,
                       exit, displayed>>

\* sendErrMsg: build an ERR with a fresh id, send it once and wait for its
\* CONFIRM.  The retransmission budget and the bye flag are left alone.
SendErrMsg(content) ==
    LET err == Datagram("ERR", NextId(msgId), content)
    IN  /\ msgId' = NextId(msgId)
        /\ msgToServer' = err
        /\ cnet' = cnet \cup {err}
        /\ tx' = 1
        /\ stdinOn' = FALSE
        /\ timer' = TRUE
        /\ waitConfirm' = TRUE
        /\ waitReply' = FALSE
        /\ UNCHANGED <<state, waitByeConfirm, retrans, confirmed, exit,
                       displayed>>

\* Fault: the BYE is sent but the timer is not started.
SendByeMsgToServerNoTimer ==
    LET bye == Datagram("BYE", NextId(msgId), "NONE")
    IN  /\ msgId' = NextId(msgId)
        /\ msgToServer' = bye
        /\ cnet' = cnet \cup {bye}
        /\ tx' = 1
        /\ stdinOn' = FALSE
        /\ waitConfirm' = FALSE
        /\ waitReply' = FALSE
        /\ waitByeConfirm' = TRUE
        /\ retrans' = MaxRetrans
        /\ UNCHANGED <<state, timer, confirmed, serverMsg, exit, displayed>>

\* sendByeMsgToServer: build a BYE with a fresh id, send it and wait for
\* its CONFIRM with a fresh retransmission budget.
SendByeMsgToServer ==
    LET bye == Datagram("BYE", NextId(msgId), "NONE")
    IN  /\ msgId' = NextId(msgId)
        /\ msgToServer' = bye
        /\ cnet' = cnet \cup {bye}
        /\ tx' = 1
        /\ stdinOn' = FALSE
        /\ timer' = TRUE
        /\ waitConfirm' = FALSE
        /\ waitReply' = FALSE
        /\ waitByeConfirm' = TRUE
        /\ retrans' = MaxRetrans
        /\ UNCHANGED <<state, confirmed, serverMsg, exit, displayed>>

-----------------------------------------------------------------------------
(* Handlers of incoming datagrams.                                         *)

\* The types processMessageFromServer dispatches in each state; any other
\* type except BYE and ERR is answered with an ERR.
Expected == [START |-> {"CONFIRM"},
             AUTH  |-> {"CONFIRM", "REPLY", "PING"},
             OPEN  |-> {"CONFIRM", "MSG", "PING"},
             JOIN  |-> {"CONFIRM", "MSG", "PING", "REPLY"}]

ProcessServerByeMsg(m) ==
    /\ SendConfirmMsg(m.id)
    /\ exit' = "SUCCESS"
    /\ UNCHANGED <<sendVars, displayed>>

ProcessServerErrMsg(m) ==
    /\ SendConfirmMsg(m.id)
    /\ exit' = "FAILURE"
    /\ UNCHANGED <<sendVars, displayed>>

ProcessServerPingMsg(m) ==
    /\ SendConfirmMsg(m.id)
    /\ UNCHANGED <<sendVars, displayed, exit>>

ProcessServerMsgMsg(m) ==
    /\ OutputUnlessConfirmed(m.id)
    /\ SendConfirmMsg(m.id)
    /\ UNCHANGED <<sendVars, exit>>

\* Fault: every accepted REPLY opens the channel, negative ones included.
StateAfterReplyIgnoringResult(m) == "OPEN"

\* Any REPLY in JOIN, and a positive one in AUTH, moves to OPEN.
StateAfterReply(m) == IF state = "JOIN" \/ m.ok THEN "OPEN" ELSE state

\* A REPLY is taken only while a reply is awaited and its ref_id equals
\* m_msg_to_server_id - 1; any other REPLY is dropped without a CONFIRM.
ProcessServerReplyMsg(m) ==
    \/ /\ waitReply /\ ReplyMatches(m)
       /\ StopTimer
       /\ OutputUnlessConfirmed(m.id)
       /\ SendConfirmMsg(m.id)
       /\ state' = StateAfterReply(m)
       /\ waitReply' = FALSE
       /\ stdinOn' = TRUE
       /\ UNCHANGED <<msgId, msgToServer, waitConfirm, waitByeConfirm,
                      retrans, tx, exit>>
    \/ /\ ~(waitReply /\ ReplyMatches(m))
       /\ UNCHANGED <<sendVars, confirmed, cnet, displayed, exit>>

\* Fault: the 5 s reply timer is not started after the CONFIRM.
StartReplyTimerNot == timer' = FALSE

\* startTimer(s_MAX_REPLY_WAIT_TIME * 1000) once a request is confirmed.
StartReplyTimer == timer' = TRUE

\* The CONFIRM of the outstanding AUTH, MSG or JOIN (the switch on
\* m_current_state of processServerConfirmMsg).
ConfirmOutstanding ==
    \/ /\ state = "AUTH" /\ msgToServer.type = "AUTH"
       /\ waitConfirm' = FALSE /\ waitReply' = TRUE
       /\ retrans' = MaxRetrans
       /\ msgId' = NextId(msgId)
       /\ StartReplyTimer
       /\ UNCHANGED <<state, msgToServer, waitByeConfirm, stdinOn, tx>>
    \/ /\ state = "OPEN" /\ msgToServer.type = "MSG"
       /\ StopTimer
       /\ waitConfirm' = FALSE
       /\ retrans' = MaxRetrans
       /\ msgId' = NextId(msgId)
       /\ stdinOn' = TRUE
       /\ UNCHANGED <<state, msgToServer, waitReply, waitByeConfirm, tx>>
    \/ /\ state = "OPEN" /\ msgToServer.type = "JOIN"
       /\ waitConfirm' = FALSE /\ waitReply' = TRUE
       /\ retrans' = MaxRetrans
       /\ msgId' = NextId(msgId)
       /\ state' = "JOIN"
       /\ StartReplyTimer
       /\ UNCHANGED <<msgToServer, waitByeConfirm, stdinOn, tx>>
    \/ /\ ~(state = "AUTH" /\ msgToServer.type = "AUTH")
       /\ ~(state = "OPEN" /\ msgToServer.type \in {"MSG", "JOIN"})
       /\ UNCHANGED sendVars

\* A CONFIRM counts when its id equals m_msg_to_server_id; the type of the
\* last message built decides what it means.
ProcessServerConfirmMsg(m) ==
    \/ /\ ~ConfirmMatches(m)
       /\ UNCHANGED <<sendVars, confirmed, cnet, displayed, exit>>
    \/ /\ ConfirmMatches(m) /\ msgToServer.type = "BYE"
       /\ exit' = "SUCCESS"
       /\ UNCHANGED <<sendVars, confirmed, cnet, displayed>>
    \/ /\ ConfirmMatches(m) /\ msgToServer.type = "ERR"
       /\ exit' = "FAILURE"
       /\ UNCHANGED <<sendVars, confirmed, cnet, displayed>>
    \/ /\ ConfirmMatches(m) /\ msgToServer.type \notin {"BYE", "ERR"}
       /\ ConfirmOutstanding
       /\ UNCHANGED <<confirmed, cnet, displayed, exit>>

\* Fault: processServerErrMsg takes an ERR without isValidErrMsg.
ValidAnyErr(m) == m.wf \/ m.type = "ERR"

\* isValid*Msg (and the length checks of CONFIRM and PING): the length
\* bounds, the type byte and the grammar of the fields, abstracted to the
\* flag wf of a datagram.
Valid(m) == m.wf

\* processServerReplyMsg, for a valid REPLY in AUTH, before the reply is
\* matched: the source of the datagram becomes the server address for
\* every later send.
Rebind(m) ==
    IF m.type = "REPLY" /\ state = "AUTH" /\ Valid(m) THEN SessionPort ELSE peer

\* processSocketEvent: one datagram of snet is received and dispatched.
Receive(m) ==
    /\ exit = "RUNNING"
    /\ peer' = Rebind(m)
    /\ deliveries < MaxDeliveries
    /\ deliveries' = deliveries + 1
    /\ serverMsg' = m
    /\ UNCHANGED <<userVars, snet>>
    /\ \/ /\ m.type \notin {"BYE", "ERR"} \cup Expected[state]
          /\ SendErrMsg("UNEXPECTED")
       \/ /\ m.type \in {"BYE", "ERR"} \cup Expected[state] /\ ~Valid(m)
          /\ SendErrMsg("MALFORMED")
       \/ m.type = "BYE" /\ Valid(m) /\ ProcessServerByeMsg(m)
       \/ m.type = "ERR" /\ Valid(m) /\ ProcessServerErrMsg(m)
       \/ m.type \in Expected[state] /\ m.type = "CONFIRM" /\ Valid(m)
          /\ ProcessServerConfirmMsg(m)
       \/ m.type \in Expected[state] /\ m.type = "REPLY" /\ Valid(m)
          /\ ProcessServerReplyMsg(m)
       \/ m.type \in Expected[state] /\ m.type = "MSG" /\ Valid(m)
          /\ ProcessServerMsgMsg(m)
       \/ m.type \in Expected[state] /\ m.type = "PING" /\ Valid(m)
          /\ ProcessServerPingMsg(m)

-----------------------------------------------------------------------------
(* Handlers of standard input, the timer and SIGINT.                       *)

\* processStdinEvent for a line that yields a message of type t: build it
\* with the current id, send it, stop reading stdin, wait for its CONFIRM
\* (and for a REPLY after /auth and /join).
UserCommand(t) ==
    /\ exit = "RUNNING" /\ stdinOn /\ ~stdinEof
    /\ userCmds < MaxUserCmds
    /\ t \in MaySend[state]
    /\ LET d == Datagram(t, msgId, "NONE")
       IN  /\ msgToServer' = d
           /\ cnet' = cnet \cup {d}
    /\ tx' = 1
    /\ userCmds' = userCmds + 1
    /\ state' = IF t = "AUTH" /\ state = "START" THEN "AUTH" ELSE state
    /\ stdinOn' = FALSE
    /\ waitConfirm' = TRUE
    /\ waitReply' = (t \in {"AUTH", "JOIN"})
    /\ timer' = TRUE
    /\ UNCHANGED <<msgId, retrans, waitByeConfirm, confirmed, serverMsg, exit,
                   displayed, stdinEof, sigint, deliveries, snet, peer>>

\* processStdinEvent on EPOLLHUP: end of input sends BYE.
UserEof ==
    /\ exit = "RUNNING" /\ stdinOn
    /\ stdinEof' = TRUE
    /\ SendByeMsgToServer
    /\ UNCHANGED <<userCmds, sigint, deliveries, snet, peer>>

\* sigintHandler: Ctrl+C sends BYE (the user presses it once).
SigInt ==
    /\ exit = "RUNNING" /\ ~sigint
    /\ sigint' = TRUE
    /\ SendByeMsgToServer
    /\ UNCHANGED <<userCmds, stdinEof, deliveries, snet, peer>>

\* The retransmission budget is spent: an exception ends the process.
GiveUp ==
    /\ waitConfirm \/ waitByeConfirm
    /\ retrans = 0
    /\ exit' = "EXHAUSTED"
    /\ timer' = FALSE
    /\ UNCHANGED <<state, msgId, msgToServer, waitConfirm, waitReply,
                   waitByeConfirm, retrans, stdinOn, confirmed, cnet,
                   displayed, tx>>

\* Fault: the budget is not checked; the uint8_t counter wraps below 0.
RetransmitMsgUnguarded ==
    /\ waitConfirm \/ waitByeConfirm
    /\ cnet' = cnet \cup {msgToServer}
    /\ retrans' = (retrans + 255) % 256
    /\ tx' = tx + 1
    /\ UNCHANGED <<state, msgId, msgToServer, waitConfirm, waitReply,
                   waitByeConfirm, timer, stdinOn, confirmed, exit,
                   displayed>>

\* The last message built is sent again verbatim and the timer restarted.
RetransmitMsg ==
    /\ waitConfirm \/ waitByeConfirm
    /\ retrans > 0
    /\ cnet' = cnet \cup {msgToServer}
    /\ retrans' = retrans - 1
    /\ tx' = tx + 1
    /\ UNCHANGED <<state, msgId, msgToServer, waitConfirm, waitReply,
                   waitByeConfirm, timer, stdinOn, confirmed, exit,
                   displayed>>

\* processTimerEvent: the armed timer expires and is read.  Its last
\* branch (an exception when no flag is set) is left out: the invariant
\* TimerImpliesWaiting of UdpSession shows that its guard never holds.
TimerFires ==
    /\ exit = "RUNNING" /\ timer
    /\ UNCHANGED <<envVars, snet, serverMsg, peer>>
    /\ \/ GiveUp
       \/ RetransmitMsg
       \/ /\ ~waitConfirm /\ ~waitByeConfirm /\ waitReply
          /\ SendErrMsg("REPLY_TIMEOUT")

\* After exit the process is gone; the state no longer changes.
Terminated ==
    /\ exit # "RUNNING"
    /\ UNCHANGED <<clientVars, cnet, snet>>

ClientInit ==
    /\ state = "START"
    /\ msgId = 0
    /\ msgToServer = NoMsgToServer
    /\ waitConfirm = FALSE /\ waitReply = FALSE /\ waitByeConfirm = FALSE
    /\ retrans = MaxRetrans
    /\ timer = FALSE
    /\ stdinOn = TRUE
    /\ confirmed = {}
    /\ serverMsg = NoServerMsg
    /\ exit = "RUNNING"
    /\ cnet = {}
    /\ snet = {}
    /\ displayed = [s \in ServerIds |-> 0]
    /\ tx = 0
    /\ userCmds = 0 /\ stdinEof = FALSE /\ sigint = FALSE
    /\ deliveries = 0
    /\ peer = Listen

\* Client::run: one ready source is served per epoll_wait.
ClientNext ==
    \/ \E t \in UserMsgTypes : UserCommand(t)
    \/ UserEof
    \/ SigInt
    \/ TimerFires
    \/ \E m \in snet : Receive(m)
    \/ Terminated

-----------------------------------------------------------------------------
ClientTypeOK ==
    /\ state \in Phases
    /\ msgId \in ClientIds
    /\ msgToServer \in ClientDatagrams \cup {NoMsgToServer}
    /\ {waitConfirm, waitReply, waitByeConfirm, timer, stdinOn} \subseteq BOOLEAN
    /\ retrans \in 0 .. MaxRetrans
    /\ confirmed \subseteq ServerIds
    /\ serverMsg \in ServerDatagrams \cup {NoServerMsg}
    /\ exit \in {"RUNNING", "SUCCESS", "FAILURE", "EXHAUSTED"}
    /\ cnet \subseteq ClientDatagrams
    /\ snet \subseteq ServerDatagrams
    /\ displayed \in [ServerIds -> 0 .. MaxShown]
    /\ tx \in 0 .. MaxRetrans + 1
    /\ userCmds \in 0 .. MaxUserCmds
    /\ deliveries \in 0 .. MaxDeliveries
    /\ peer \in {Listen, SessionPort}

=============================================================================
