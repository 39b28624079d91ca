--------------------------- MODULE UdpStopAndWait ---------------------------
(***************************************************************************)
(* The reliability engine of an IPK25-CHAT client over UDP as spec.md     *)
(* promises it (sections 3 and 4.7, and the "single in-flight" ordering    *)
(* guarantee of section 5): stop-and-wait.  At most one message is in     *)
(* flight; every message gets an id no earlier message had; the message in *)
(* flight is sent again verbatim, at most MaxRetrans times, until the      *)
(* CONFIRM carrying its id arrives; a farewell (BYE or ERR) may replace    *)
(* the message in flight, nothing else may.  The message in flight stops   *)
(* being in flight only when it is confirmed or the process ends, and one  *)
(* of the two always happens.                                              *)
(*                                                                         *)
(* Messages are records with at least a type and an id.  The CONFIRMs the  *)
(* peer sends are the set acks of confirmed ids.  UdpSession implements    *)
(* this specification.                                                     *)
(***************************************************************************)
EXTENDS Naturals

CONSTANTS
    MaxRetrans,  \* retransmissions allowed per message
    NoMsg        \* the message in flight before the first one is sent

VARIABLES
    out,       \* the message sent last
    inflight,  \* out awaits its CONFIRM
    sent,      \* every message sent so far
    acks,      \* the ids the peer has confirmed
    tries,     \* how often out has been put on the wire
    ended      \* the process has exited

vars == <<out, inflight, sent, acks, tries, ended>>

Farewells == {"BYE", "ERR"}

UsedIds == {m.id : m \in sent}

\* A new message is sent: its id is fresh, and it may take the place of an
\* unconfirmed one only if it is a farewell.
Submit ==
    /\ ~ended
    /\ ~inflight \/ out'.type \in Farewells
    /\ out'.id \notin UsedIds
    /\ sent' = sent \cup {out'}
    /\ inflight' = TRUE
    /\ tries' = 1
    /\ UNCHANGED <<acks, ended>>

\* The message in flight is sent again, within its budget.
Resend ==
    /\ ~ended /\ inflight
    /\ tries <= MaxRetrans
    /\ tries' = tries + 1
    /\ UNCHANGED <<out, inflight, sent, acks, ended>>

\* The CONFIRM of the message in flight has come: it is delivered.
Delivered ==
    /\ ~ended /\ inflight
    /\ out.id \in acks
    /\ inflight' = FALSE
    /\ UNCHANGED <<out, sent, acks, tries, ended>>

\* The peer confirms a message it has received.
Ack(i) ==
    /\ i \in UsedIds
    /\ acks' = acks \cup {i}
    /\ UNCHANGED <<out, inflight, sent, tries, ended>>

\* The process exits (a confirmed farewell, the server's farewell, or the
\* budget spent).
End ==
    /\ ~ended
    /\ ended' = TRUE
    /\ UNCHANGED <<out, inflight, sent, acks, tries>>

Init ==
    /\ out = NoMsg
    /\ inflight = FALSE
    /\ sent = {}
    /\ acks = {}
    /\ tries = 0
    /\ ended = FALSE

Next ==
    \/ Submit
    \/ Resend
    \/ Delivered
    \/ \E i \in UsedIds : Ack(i)
    \/ End

Spec == Init /\ [][Next]_vars

\* Section 4.7, steps 3 and 4: a message in flight is retransmitted until
\* it is confirmed or the budget is spent; it is never left waiting.
Settles == inflight ~> (~inflight \/ ended)

\* Stop-and-wait: the safety of Spec and the progress of Settles.
StopAndWait == Spec /\ Settles

=============================================================================
