---------------------------- MODULE UdpSession ----------------------------
(***************************************************************************)
(* The UDP client of UdpClient composed with a server that follows the     *)
(* IPK25-CHAT protocol, over a network that loses, duplicates and reorders *)
(* datagrams.  The server is the environment of the client: it is not part *)
(* of the repository and is written from the protocol of the specification *)
(* (sections 4.2, 4.3 and 4.7), as a well-behaved peer, so that whatever   *)
(* goes wrong in a run is the client's doing.                              *)
(***************************************************************************)
EXTENDS UdpClient

CONSTANT
    Conforming   \* FALSE: the server may also send malformed datagrams

ASSUME Conforming \in BOOLEAN

VARIABLE
    nextSid      \* the id of the next message the server sends

serverVars == <<nextSid>>
vars == <<clientVars, cnet, snet, serverVars>>

ServerMsg(t, ok, ref) ==
    [type |-> t, id |-> nextSid, ok |-> ok, ref |-> ref, wf |-> TRUE]

\* A datagram of cnet is one the server may receive: it acts on it any
\* number of times (duplicates) or never (loss).

\* The client has confirmed a positive REPLY to one of its AUTH messages:
\* from then on the server may send chat messages.
SrvAuthenticated ==
    \E r \in snet, a \in cnet, c \in cnet :
        /\ r.type = "REPLY" /\ r.ok
        /\ a.type = "AUTH" /\ a.id = r.ref
        /\ c.type = "CONFIRM" /\ c.id = r.id

SrvHasSession == \E a \in cnet : a.type = "AUTH"

\* Every datagram except a CONFIRM is confirmed, duplicates included.
SrvConfirm(d) ==
    /\ d.type # "CONFIRM"
    /\ snet' = snet \cup {[type |-> "CONFIRM", id |-> d.id, ok |-> FALSE,
                           ref |-> 0, wf |-> TRUE]}
    /\ UNCHANGED <<clientVars, cnet, serverVars>>

\* One REPLY per request id: a request carrying an id already answered is
\* taken for a duplicate and gets no new REPLY.
SrvReply(d, ok) ==
    /\ d.type \in {"AUTH", "JOIN"}
    /\ ~\E r \in snet : r.type = "REPLY" /\ r.ref = d.id
    /\ nextSid < MaxSid
    /\ snet' = snet \cup {ServerMsg("REPLY", ok, d.id)}
    /\ nextSid' = nextSid + 1
    /\ UNCHANGED <<clientVars, cnet>>

\* A chat message, a ping, a farewell or an error from the server.
SrvSend(t) ==
    /\ nextSid < MaxSid
    /\ IF t = "MSG" THEN SrvAuthenticated ELSE SrvHasSession
    /\ snet' = snet \cup {ServerMsg(t, FALSE, 0)}
    /\ nextSid' = nextSid + 1
    /\ UNCHANGED <<clientVars, cnet>>

\* A server that breaks the protocol: a datagram that fails the client's
\* validation (a wrong length, a bad result byte, a field outside its
\* grammar), numbered like any other ...
SrvMalformed(t) ==
    /\ ~Conforming /\ SrvHasSession
    /\ nextSid < MaxSid
    /\ snet' = snet \cup {[ServerMsg(t, FALSE, 0) EXCEPT !.wf = FALSE]}
    /\ nextSid' = nextSid + 1
    /\ UNCHANGED <<clientVars, cnet>>

\* ... or a malformed CONFIRM of a datagram of the client.
SrvMalformedConfirm(d) ==
    /\ ~Conforming
    /\ snet' = snet \cup {[type |-> "CONFIRM", id |-> d.id, ok |-> FALSE,
                           ref |-> 0, wf |-> FALSE]}
    /\ UNCHANGED <<clientVars, cnet, serverVars>>

ServerNext ==
    \/ \E t \in {"REPLY", "MSG", "PING", "BYE", "ERR"} : SrvMalformed(t)
    \/ \E d \in cnet : SrvMalformedConfirm(d)
    \/ \E d \in cnet : SrvConfirm(d)
    \/ \E d \in cnet, ok \in BOOLEAN : SrvReply(d, ok)
    \/ \E t \in {"MSG", "PING", "BYE", "ERR"} : SrvSend(t)

Init ==
    /\ ClientInit
    /\ nextSid = 0

Next ==
    \/ ClientNext /\ UNCHANGED serverVars
    \/ ServerNext

Spec == Init /\ [][Next]_vars

\* The timerfd fires once armed, and the loop serves it (epoll keeps every
\* ready descriptor in turn); nothing is assumed of the network or the user.
FairSpec == Spec /\ WF_vars(TimerFires /\ UNCHANGED serverVars)

-----------------------------------------------------------------------------
TypeOK ==
    /\ ClientTypeOK
    /\ nextSid \in 0 .. MaxSid

\* A step in which the client received a datagram (processSocketEvent).
Delivery == deliveries' = deliveries + 1

\* Duplicate suppression (isValidMsgMsg, processServerReplyMsg): however
\* often the network delivers a MSG or REPLY, its line is printed at most
\* once.
DisplayedAtMostOnce == \A s \in ServerIds : displayed[s] <= 1

\* processServerConfirmMsg ends the process successfully only on the
\* CONFIRM of the BYE it sent last, and processServerByeMsg only on the
\* server's BYE: an exit with success means the farewell was exchanged.
ByeAcknowledgedBeforeSuccess ==
    exit = "SUCCESS" =>
        \/ serverMsg.type = "BYE"
        \/ /\ msgToServer.type = "BYE"
           /\ \E c \in snet : c.type = "CONFIRM" /\ c.id = msgToServer.id

\* The client is in OPEN or JOIN only after the server has answered one of
\* the client's AUTH messages positively (processServerReplyMsg together
\* with the FSM dispatch of processMessageFromServer).
OpenOnlyAfterPositiveAuth ==
    state \in {"OPEN", "JOIN"} =>
        \E r \in snet, a \in cnet :
            /\ r.type = "REPLY" /\ r.ok
            /\ a.type = "AUTH" /\ a.id = r.ref

\* processServerReplyMsg: when the CONFIRM of the request has come and a
\* REPLY to that request arrives, it is taken and the wait ends.
ExpectedReplyAccepted ==
    [][ /\ Delivery
        /\ waitReply /\ ~waitConfirm
        /\ state \in {"AUTH", "JOIN"}
        /\ serverMsg'.type = "REPLY"
        /\ serverMsg'.ref = msgToServer.id
        => ~waitReply' ]_vars

\* The timer is armed only while the client waits for a CONFIRM, a REPLY
\* or the CONFIRM of its BYE: every handler that clears the last flag also
\* stops the timer, so the exception at the end of processTimerEvent
\* ("timer event, but ... are false") is never thrown.
TimerImpliesWaiting ==
    timer => waitConfirm \/ waitReply \/ waitByeConfirm

\* Spec section 7: a malformed datagram or one not allowed in the current
\* state is reported to the peer with an ERR, and the process exits with
\* failure once that ERR is confirmed; the only other failure is a valid
\* ERR from the peer (processServerErrMsg).  A failure exit follows the
\* CONFIRM of the client's ERR or a well-formed ERR from the server.
FailureReported ==
    exit = "FAILURE" =>
        \/ /\ msgToServer.type = "ERR"
           /\ \E c \in snet : c.type = "CONFIRM" /\ c.wf /\ c.id = msgToServer.id
        \/ serverMsg.type = "ERR" /\ serverMsg.wf

\* The session as ChatSession sees it: a REPLY is awaited for the AUTH or
\* JOIN built last, the client has said farewell once the last message it
\* built is a BYE or an ERR, and running out of retransmissions is a
\* failure exit (EXIT_FAILURE).
Session == INSTANCE ChatSession
    WITH phase   <- state,
         pending <- IF waitReply THEN msgToServer.type ELSE "NONE",
         closing <- msgToServer.type \in {"BYE", "ERR"},
         result  <- IF exit = "EXHAUSTED" THEN "FAILURE" ELSE exit

\* Spec sections 4.3 and 4.7: over a network that loses, duplicates and
\* reorders datagrams, the UDP client keeps the session promises of
\* ChatSession: one request at a time and only as the FSM allows, the
\* phase a REPLY leads to, nothing new after a farewell, and one exit.
SessionSpec == Session!Spec

\* After a BYE (Ctrl+C or end of input) the process always ends: the BYE
\* is confirmed, or its retransmissions run out (processTimerEvent).
ByeEventuallyEnds == waitByeConfirm ~> exit # "RUNNING"

\* After /auth or /join stdin stays suspended until the REPLY is taken; the
\* wait always ends: the REPLY comes, or the request is never confirmed
\* and its retransmissions run out, or the 5 s reply timer started by
\* processServerConfirmMsg expires and the client reports the timeout.
RequestSettles == waitReply ~> (~waitReply \/ exit # "RUNNING")

\* The reliability engine as UdpStopAndWait sees it: the message in flight
\* is the last one built, in flight while a CONFIRM (of it or of the BYE)
\* is awaited; the messages sent are the datagrams of cnet but CONFIRMs;
\* the acknowledgements are the well-formed CONFIRMs of snet.
SW == INSTANCE UdpStopAndWait
    WITH out      <- msgToServer,
         inflight <- waitConfirm \/ waitByeConfirm,
         sent     <- {d \in cnet : d.type # "CONFIRM"},
         acks     <- {c.id : c \in {d \in snet : d.type = "CONFIRM" /\ d.wf}},
         tries    <- tx,
         ended    <- exit # "RUNNING",
         NoMsg    <- NoMsgToServer

-----------------------------------------------------------------------------
(* Statements of the specification that the code does not meet.           *)

\* Sections 3, 4.7 and 5: the client sends one message at a time under a
\* fresh id, retransmits it until its CONFIRM comes, and starts a new one
\* only once it is confirmed (unless it says farewell); no message is ever
\* left unconfirmed with its retransmission timer stopped.
StopAndWait == SW!StopAndWait

\* Section 4.7: a REPLY whose ref does not match the outstanding request,
\* or one received when no reply is expected, is ignored beyond its
\* CONFIRM obligation.  A REPLY that processServerReplyMsg does not take
\* is confirmed, and the server address the client sends to stays as it
\* was (the peer is rebound only on the first accepted REPLY).
UnmatchedReplyIgnored ==
    [][ /\ Delivery
        /\ serverMsg'.type = "REPLY"
        /\ state \in {"AUTH", "JOIN"}
        /\ ~(waitReply /\ ~waitReply')
        => /\ serverMsg'.id \in confirmed'
           /\ peer' = peer ]_vars

\* Section 4.7: every REPLY is either taken as the answer to the
\* outstanding request or ignored beyond its CONFIRM.  A well-formed REPLY
\* that the client has not confirmed before (not a duplicate) never makes
\* it report a protocol error; in particular the REPLY to a JOIN whose
\* CONFIRM was lost, which finds the client still in OPEN.
FreshReplyNotFatal ==
    [][ /\ Delivery
        /\ serverMsg'.type = "REPLY" /\ serverMsg'.wf
        /\ serverMsg'.id \notin confirmed
        => msgToServer' = msgToServer ]_vars

\* Sections 3 and 4.7: every outgoing message has its own retransmission
\* budget; the client gives up on a message only after sending it
\* 1 + MaxRetrans times.
FullBudgetBeforeGiveUp == exit = "EXHAUSTED" => tx = MaxRetrans + 1

=============================================================================
