---------------------------- MODULE ChatSession ----------------------------
(***************************************************************************)
(* What an IPK25-CHAT client promises about its session, whatever the     *)
(* transport (spec.md sections 4.3, 4.6, 4.7 and 4.8).  The session is in *)
(* one phase, has at most one request (AUTH or JOIN) whose REPLY it       *)
(* awaits, and once it has said farewell (BYE or ERR) it starts nothing   *)
(* new.  A REPLY settles the request: a positive one, or any one to a     *)
(* JOIN, opens the channel, a negative one to an AUTH keeps the client in *)
(* AUTH.  The process ends once, with success or failure, and then the    *)
(* session no longer changes.                                              *)
(*                                                                         *)
(* Chat messages, pings, retransmissions and confirmations are not steps  *)
(* of this specification.  TcpStream and UdpSession implement it.          *)
(***************************************************************************)
EXTENDS ChatFsm

VARIABLES
    phase,      \* the FSM state
    pending,    \* the request whose REPLY is awaited, or NONE
    closing,    \* a BYE or ERR of the client has been sent
    result      \* RUNNING, or the exit status: SUCCESS or FAILURE

vars == <<phase, pending, closing, result>>

Requests == {"AUTH", "JOIN"}

Running == result = "RUNNING" /\ ~closing

\* The user asks to authenticate or to join a channel; the FSM must allow
\* it, and no other request may be outstanding.  A JOIN moves the session
\* to JOIN when it is sent (TCP) or when it is confirmed (UDP).
Request(t) ==
    /\ Running /\ pending = "NONE"
    /\ t \in Requests \cap MaySend[phase]
    /\ pending' = t
    /\ phase' \in IF t = "AUTH" THEN {"AUTH"} ELSE {"OPEN", "JOIN"}
    /\ UNCHANGED <<closing, result>>

\* The JOIN still outstanding enters the JOIN phase.
Joined ==
    /\ Running /\ pending = "JOIN" /\ phase = "OPEN"
    /\ phase' = "JOIN"
    /\ UNCHANGED <<pending, closing, result>>

\* The REPLY to the outstanding request arrives.
Reply(ok) ==
    /\ Running
    /\ pending # "NONE" /\ phase = pending
    /\ pending' = "NONE"
    /\ phase' = IF phase = "JOIN" \/ ok THEN "OPEN" ELSE phase
    /\ UNCHANGED <<closing, result>>

\* The client says farewell (a BYE, or an ERR on a protocol error or a
\* reply timeout) and stops waiting for a REPLY.
Close ==
    /\ Running
    /\ closing' = TRUE
    /\ pending' = "NONE"
    /\ UNCHANGED <<phase, result>>

\* The process exits, possibly in the step that sends its farewell, and
\* possibly from a handler that has moved the FSM before it failed.
End ==
    /\ result = "RUNNING"
    /\ result' \in {"SUCCESS", "FAILURE"}
    /\ closing' \in {closing, TRUE}
    /\ phase' \in Phases
    /\ UNCHANGED pending

Init ==
    /\ phase = "START"
    /\ pending = "NONE"
    /\ closing = FALSE
    /\ result = "RUNNING"

Next ==
    \/ \E t \in Requests : Request(t)
    \/ Joined
    \/ \E ok \in BOOLEAN : Reply(ok)
    \/ Close
    \/ End

Spec == Init /\ [][Next]_vars

=============================================================================
