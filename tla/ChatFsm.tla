------------------------------ MODULE ChatFsm ------------------------------
(***************************************************************************)
(* Definitions shared by the TCP and UDP clients of IPK25-CHAT: the FSM    *)
(* states of include/fsm.h, the message types of protocol-msg-type.h and  *)
(* the send gate Client::canSendMessageType.                               *)
(***************************************************************************)
EXTENDS Integers, FiniteSets

\* FSM_state (include/fsm.h).
Phases == {"START", "AUTH", "OPEN", "JOIN"}

\* Protocol_msg_type (include/protocol-msg-type.h); M_UNKNOWN is the
\* result of a failed TCP classification.
MsgTypes == {"CONFIRM", "REPLY", "AUTH", "JOIN", "MSG", "PING", "ERR", "BYE"}

\* Client::canSendMessageType lives in client.cpp, which is not part of the
\* sources; the table is the one of the specification (section 4.3): what
\* the client may send in each state.
MaySend == [START |-> {"AUTH", "BYE", "ERR"},
            AUTH  |-> {"AUTH", "BYE", "ERR"},
            OPEN  |-> {"MSG", "JOIN", "BYE", "ERR"},
            JOIN  |-> {"BYE", "ERR"}]

\* The user commands that produce a message: /auth, /join and a plain line.
UserMsgTypes == {"AUTH", "JOIN", "MSG"}

=============================================================================
