----------------------------- MODULE TcpServer -----------------------------
(***************************************************************************)
(* A server that follows the TCP variant of IPK25-CHAT (spec.md sections  *)
(* 4.1 and 4.6), the environment of TcpClient.  It reads the client's     *)
(* messages in order, answers every AUTH and JOIN with one REPLY, sends    *)
(* chat messages only to an authenticated client, and may end the session *)
(* with a BYE or an ERR at any time; after that it closes the connection. *)
(* Everything it writes goes to srvOut, in order: how the bytes reach the  *)
(* client is up to the transport modules.                                  *)
(***************************************************************************)
EXTENDS TcpClient

CONSTANTS
    Conforming, \* FALSE: the server may also write any line and close silently
    ConnFaults  \* TRUE: the connection may fail (be reset) at any time

ASSUME Conforming \in BOOLEAN /\ ConnFaults \in BOOLEAN

CanWrite == ~srvClosed /\ Len(srvOut) < MaxSrvMsgs

\* A line of the given type and result; a conforming server writes only
\* well-formed lines.
SrvLine(t, ok, wf) == [type |-> t, ok |-> ok, wf |-> wf]

SrvWrite(t, ok) == srvOut' = Append(srvOut, SrvLine(t, ok, TRUE))

\* The lines a server that breaks the protocol may write besides its
\* farewell: a REPLY, MSG, BYE or ERR that does not match its grammar, a
\* keyword the client does not know, a line longer than the client's
\* maximum, and well-formed REPLY and MSG lines
\* at any time.
RogueLines ==
    { SrvLine("REPLY", TRUE, TRUE), SrvLine("REPLY", FALSE, TRUE),
      SrvLine("MSG", FALSE, TRUE), UnknownMsg, SrvLine("LONG", FALSE, FALSE) }
    \cup { SrvLine(t, FALSE, FALSE) : t \in {"REPLY", "MSG", "BYE", "ERR"} }

\* The server reads the next client message: a request gets its REPLY, a
\* farewell or an error makes it close the connection.
SrvRead ==
    /\ ~srvClosed
    /\ srvRead < Len(toServer)
    /\ srvRead' = srvRead + 1
    /\ UNCHANGED connErr
    /\ LET c == toServer[srvRead + 1] IN
       \/ /\ c.type \in {"AUTH", "JOIN"} /\ CanWrite
          /\ \E ok \in BOOLEAN :
                /\ SrvWrite("REPLY", ok)
                /\ srvAuth' = (srvAuth \/ (c.type = "AUTH" /\ ok))
          /\ UNCHANGED srvClosed
       \/ /\ c.type = "MSG"
          /\ UNCHANGED <<srvOut, srvAuth, srvClosed>>
       \/ /\ c.type \in {"BYE", "ERR"}
          /\ srvClosed' = TRUE
          /\ UNCHANGED <<srvOut, srvAuth>>

\* A chat message to an authenticated client.
SrvMsg ==
    /\ CanWrite /\ srvAuth
    /\ SrvWrite("MSG", FALSE)
    /\ UNCHANGED <<srvRead, srvAuth, srvClosed, connErr>>

\* The server ends the session on its own.
SrvEnd(t) ==
    /\ CanWrite
    /\ SrvWrite(t, FALSE)
    /\ srvClosed' = TRUE
    /\ UNCHANGED <<srvRead, srvAuth, connErr>>

\* A server that breaks the protocol: any such line at any time.
SrvRogueWrite(l) ==
    /\ ~Conforming /\ CanWrite
    /\ srvOut' = Append(srvOut, l)
    /\ UNCHANGED <<srvRead, srvAuth, srvClosed, connErr>>

\* ... or it closes the connection without a BYE.
SrvRogueClose ==
    /\ ~Conforming /\ ~srvClosed
    /\ srvClosed' = TRUE
    /\ UNCHANGED <<srvOut, srvRead, srvAuth, connErr>>

\* The connection fails: the peer or the network resets it.  The server
\* reads nothing more, and the client's recv() and send() may fail.
ConnReset ==
    /\ ConnFaults /\ ~connErr
    /\ connErr' = TRUE
    /\ srvClosed' = TRUE
    /\ UNCHANGED <<srvOut, srvRead, srvAuth>>

ServerNext ==
    \/ SrvRead
    \/ SrvMsg
    \/ \E t \in {"BYE", "ERR"} : SrvEnd(t)
    \/ \E l \in RogueLines : SrvRogueWrite(l)
    \/ SrvRogueClose
    \/ ConnReset

ServerInit ==
    /\ srvOut = <<>>
    /\ srvRead = 0
    /\ srvAuth = FALSE
    /\ srvClosed = FALSE
    /\ connErr = FALSE

ServerTypeOK ==
    /\ srvOut \in Seq(ServerMsgs)
    /\ srvRead \in 0 .. Len(toServer)
    /\ {srvAuth, srvClosed, connErr} \subseteq BOOLEAN

=============================================================================
