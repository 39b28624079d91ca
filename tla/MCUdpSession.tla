--------------------------- MODULE MCUdpSession ---------------------------
(* Model-checking instance of UdpSession: small bounds on the server's     *)
(* messages, the user's commands and the retransmission budget.            *)
EXTENDS UdpSession

\* Every reachable run stays within MaxSid server messages and at most
\* MaxUserCmds commands, so the state space is finite.
=============================================================================
