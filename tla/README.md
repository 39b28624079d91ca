# TLA+ models of the IPK25-CHAT client

This directory holds TLA+ models of the IPK25-CHAT client in `src/`, and the
TLC configurations that check them. The client has a TCP variant
(`tcp-client.cpp`) and a UDP variant (`udp-client.cpp`). Both share a base
class (`client.h`). `PROJECT.json` lists the components, the runs, the
mutants, the map from every definition to the source lines it models, the
findings and the hazards.

## The system

* **FSM** (`fsm.h`): the states START, AUTH, OPEN and JOIN. The send gate
  `canSendMessageType` says which user message each state allows.
* **Event loop** (`Client::run`, in `client.cpp`): one `epoll_wait` returns
  one ready source (`s_MAX_EPOLL_EVENT_NUMBER = 1`). The sources are the
  socket, stdin, a timerfd and SIGINT. Each handler runs to completion.
  Nothing else is concurrent: the only interleaving is the order in which
  the loop serves the sources, against what the network and the server do.
* **UDP client**: a reliability layer over datagrams.
  * There is at most one outgoing message (`m_msg_to_server`) with id
    `m_msg_to_server_id` (a uint16_t).
  * It is retransmitted on the timer until a CONFIRM with its id arrives, at
    most `-r` times.
  * Every server MSG, REPLY and PING is confirmed. Duplicates are suppressed
    by the bitset `m_confirmed_server_messages`.
  * A REPLY is accepted when its ref equals `m_msg_to_server_id - 1`.
  * A BYE waits for its CONFIRM.
* **TCP client**: CRLF-framed text lines over a stream.
  * `processSocketEvent` appends each `recv()` chunk to `m_msg_from_server`
    and handles every complete line.
  * `/auth` and `/join` arm a 5 s reply timer and suspend stdin.
  * A BYE is fire-and-forget.
* **Codecs, argument parsing, printing**: pure functions of bytes and strings.

`client.cpp` is not in the repository. Its parts that the handlers call are
modelled from `spec.md` and marked `spec_modelled` in the map:
`canSendMessageType` (`MaySend`), `stopTimer`, and the loop (`ClientNext`,
`TcpStream!Next`).

## Modules

| Module | Models |
|---|---|
| `ChatFsm` | FSM states, message types, the send gate `MaySend`. |
| `ChatSession` | The abstract session both clients promise (spec sections 4.3 to 4.8), shown to be implemented by `UdpSession` and `TcpStream`. |
| `UdpStopAndWait` | The stop-and-wait reliability engine of spec section 4.7, which `UdpSession` is checked against. |
| `UdpClient` | `Udp_client` (details below). |
| `UdpSession` | `UdpClient` composed with a conforming UDP server, plus the properties. |
| `TcpClient` | `Tcp_client` handlers, independent of the transport. |
| `TcpServer` | A TCP server environment, conforming or (`Conforming = FALSE`) not. |
| `TcpFramed` | The abstract TCP transport: whole lines, one per step, in order. |
| `TcpStream` | The reassembly loop of `processSocketEvent`, over chunks of any size, shown to refine `TcpFramed`. |
| `Codec` | The size limits of both clients' receive paths (`s_MAX_MSG_SIZE`, the checks of `processSocketEvent` and the UDP `isValid*MsgLength` per type) against the lengths the grammar allows. |
| `MCUdpSession` | The model-checking root of the UDP runs. |

### UdpClient

The variables are the members of `Udp_client`: `state`, `msgId`,
`msgToServer`, the three wait flags, `retrans`, `confirmed` and `serverMsg`.
Three more variables stand for the timerfd (`timer`), the stdin
registration (`stdinOn`) and the process outcome (`exit`).

The network is two sets of datagrams, `cnet` and `snet`. A datagram is never
removed, so every delivery may be lost, duplicated or reordered.

The actions are:

* `Receive(m)`: `processSocketEvent` and `processMessageFromServer`, with
  one disjunct per handler.
* `UserCommand(t)` and `UserEof`: `processStdinEvent`.
* `SigInt`: `sigintHandler`.
* `TimerFires`: `processTimerEvent`. Its disjuncts are retransmit, give up
  (the exception, `exit = "EXHAUSTED"`), and reply timeout (an ERR).
* `peer` is the server address in `Args` that every send goes to. It
  starts as `Listen` (`-s`, `-p`). `Receive` sets it with `Rebind`: a
  REPLY received in AUTH sets it to `SessionPort`, the port the server
  answers from, before the REPLY's ref is checked.
* `Terminated`: the stuttering of a process that has ended.

Every handler includes the calls it makes: `sendErrMsg`,
`sendByeMsgToServer`, `sendConfirmMsg` and the timer calls. History
variables record facts for the properties: `displayed` (prints per server
id) and `tx` (sends of the current message).

### UdpSession

With `Conforming = FALSE` the server may also send a datagram of any type
that fails the client's validation (`SrvMalformed`, `SrvMalformedConfirm`).
The client sees this as the flag `wf` of the datagram, through `Valid`.

The server acts on any datagram in `cnet`. It confirms every non-CONFIRM
datagram. It answers each AUTH or JOIN id once, positively or negatively. It
sends a MSG only after the client has confirmed a positive REPLY to an AUTH.
It may send PING, BYE or ERR once a session exists.

### TcpClient, TcpFramed and TcpStream

`TcpClient` has the same handler split as `UdpClient`. `/join` enters JOIN
before the message is written, as in the code. A server line is only its
type and, for a REPLY, its result.

A server line is also well-formed or not (`wf`), which stands for the
`regex_match` and length checks of each `processServer*Msg`. With
`Conforming = FALSE`, `TcpServer` writes malformed lines of every type
(`RogueLines`).

With `ConnFaults = TRUE` the connection may also be reset (`ConnReset`,
variable `connErr`). After that, `recv()` fails (`RecvFails`: an ERR
through `sendErrMsgAndTerminate`), and every `send()` may fail
(`SendFails`: the exception of `sendMsgToServer` ends the handler where it
stands, so a failed `/join` leaves the FSM in JOIN).

`TcpStream` represents the stream as tokens. A line is its text, CR and LF,
so a chunk can end at any point that matters. `recvd` counts the tokens
read and `consumed` the tokens erased. `Recv` is a `recv()` of 1 to all of
the remaining tokens. `ProcessLine` is one pass of the while loop, with the check of the line's
length (`LineTooLong`). `CheckRest` is the check after the loop of the
unterminated rest (`RestTooLong`). A line of type LONG stands for one whose
text alone reaches `s_MAX_MSG_SIZE`; the byte boundary itself is checked in
`Codec`. `TcpFramed!RejectLong` is the abstract step for both checks.

While the buffer holds a complete line, no other source is served, as in the
code.

`TcpClient` also models how the process ends. `ServerFarewellExit` holds the
return values 0 and 1 of `processMessageFromServer` for BYE and ERR.
`MainExit` and `IsSigintOrEofReceived` hold the catch of `main()`: an
`Exception` with no text (SIGINT or end of input) exits with success, any
other with failure. The refinement mapping to `TcpFramed` is
`handled <- HandledLines`, the number of terminators erased.

### ChatSession

The transport-independent promise of a client: one phase, at most one
request (AUTH or JOIN) awaiting its REPLY, nothing new after the client's
own BYE or ERR, and one exit. Its steps are `Request`, `Joined` (UDP
enters JOIN when the JOIN is confirmed, TCP when it is sent), `Reply`,
`Close` and `End`. Both refinement mappings take `phase <- state` and
`result <- exit`. `EXHAUSTED` counts as a failure.

* For UDP, `pending` is the type of the last message built while
  `m_is_waiting_for_reply` is set. `closing` holds once that message is a
  BYE or an ERR.
* For TCP, `pending` is the state while a reply is awaited. `closing`
  holds once the last line written is a BYE or an ERR.

Chat messages, pings, confirmations and retransmissions are stuttering
steps of `ChatSession`.

### UdpStopAndWait

`UdpStopAndWait` is the reliability engine as spec sections 3, 4.7 and 5
describe it: stop-and-wait.

* At most one message is in flight, and every message has a fresh id.
* The message in flight is resent, at most `MaxRetrans` times, until a
  CONFIRM with its id arrives.
* A new message may replace an unconfirmed one only if it is a farewell
  (BYE or ERR).
* `Settles` says that a message in flight is always confirmed, or the
  process ends.

`UdpSession` maps onto it as follows:

| Abstract | UdpSession |
|---|---|
| `out` | `msgToServer` |
| `inflight` | `waitConfirm \/ waitByeConfirm` |
| `sent` | the non-CONFIRM datagrams of `cnet` |
| `acks` | the ids of well-formed CONFIRMs in `snet` |
| `tries` | `tx` |
| `ended` | `exit # "RUNNING"` |

`UdpSession` does not implement `UdpStopAndWait`; the `udp_stale_reply`
run shows why. The abstraction is therefore checked only in that
violation run. Every other step of the client maps onto it: user commands
while idle, farewells, retransmissions, CONFIRMs and exits.

## Runs

| Run | Checks | Result |
|---|---|---|
| `udp_safety` | TypeOK, DisplayedAtMostOnce, ByeAcknowledgedBeforeSuccess, OpenOnlyAfterPositiveAuth, ExpectedReplyAccepted, TimerImpliesWaiting, SessionSpec; ByeEventuallyEnds, RequestSettles under `FairSpec` | pass, 403k states |
| `udp_edge` | TimerImpliesWaiting, FailureReported, SessionSpec with a 1-bit id and a server that sends malformed datagrams | pass, 2.9M states |
| `udp_stale_reply` | StopAndWait (UdpSession refines UdpStopAndWait, safety and `Settles`) under `FairSpec`, three user commands | violation, 10 steps |
| `udp_unmatched_reply` | UnmatchedReplyIgnored | violation |
| `udp_reply_in_open` | FreshReplyNotFatal | violation, 9 states |
| `udp_err_budget` | FullBudgetBeforeGiveUp | violation |
| `udp_id_wrap_reply` | ExpectedReplyAccepted with a 1-bit id | violation |
| `tcp_stream` | TypeOK, ErrOnlyOnTimeout, TimerImpliesWaiting, SuccessOnlyAfterBye, FramedSpec, SessionSpec; ConnectionFailureEnds under `FairSpec`, over a connection that may be reset | pass, 36k states |
| `tcp_peer_close` | SuccessOnlyAfterBye against a non-conforming server | violation |
| `codec_lengths` | TcpValidLineAccepted: every valid TCP line and its unterminated prefixes pass the length checks. UdpValidLengthAccepted: every valid UDP MSG, ERR, REPLY and BYE passes the length check of its type (`isValid*MsgLength`) | pass, 240 inputs |
| `codec_udp_max_msg` | UdpValidMsgReceived | violation |
| `tcp_rogue_server` | FailureReported, FramedSpec; LinesEventuallyHandled under `FairSpec`, against a non-conforming server (over-long lines included) over a connection that may be reset | pass, 277k states |

What the passing runs show:

* **Duplicates and retransmission (UDP).** A MSG or REPLY is printed at
  most once however often it is delivered.
* **Clean exit (UDP).** The process exits with success only after the BYE
  exchange.
* **Authentication (UDP).** OPEN and JOIN are reached only after a positive
  REPLY to an AUTH.
* **Expected reply (UDP).** A REPLY to the outstanding request, received
  after its CONFIRM, is always taken.
* **Timer (both variants).** The timer is armed only while something is
  awaited, so the exceptions at the end of both `processTimerEvent`s are
  dead code. The models leave those branches out for that reason.
* **Shutdown (UDP).** Every BYE ends the process under fairness of the
  timer alone.
* **Waiting for a REPLY (UDP).** The wait after `/auth` or `/join` always
  ends, because `processServerConfirmMsg` starts the 5 s reply timer.
  Stdin is suspended during that wait, so without the timer the user
  could be stuck forever.
* **Reassembly (TCP).** The loop delivers every line whole, once and in
  order, however `recv()` cuts the stream. An over-long line never reaches
  `processMessageFromServer`, whether it comes whole (the per-line check)
  or in pieces (the check of the rest).
* **Session (both variants).** Both clients implement `ChatSession`: one
  request at a time and only as the FSM allows, a REPLY moves the phase as
  spec section 4.3 says, nothing new after a farewell, one exit. For UDP
  this holds even with a 1-bit id and malformed datagrams.
* **Failed connection (TCP).** A reset connection always ends the
  process. The socket stays readable with the error, so `recv()` fails
  and the client exits with failure, whatever the user does.
* **Errors and exit (TCP).** Against a conforming server, the client
  reports a protocol error only on reply timeout or a failed `recv()`. It exits with success
  only after a BYE was written or handled.
* **Progress of the reassembly loop (TCP).** Every line the server writes
  is handled, unless the process ends first. This holds even against a
  non-conforming server. No complete line is left in the buffer waiting
  for bytes that may never come.

The edge run exists because only a wrapped id lets a late CONFIRM of an
older message meet a state in which it matches nothing. That is the
fall-through of the switch in `processServerConfirmMsg`. The edge run and
the rogue-server run also let the server break the protocol. A conforming
server never reaches the client's error branches for malformed and
out-of-turn messages, or a close without a BYE.

* **Failure exits (both variants).** Every failure is reported as spec
  section 7 asks, even against a server that sends malformed messages.
  The client either wrote an ERR (confirmed, on UDP) or received a
  well-formed ERR. On TCP the connection may also have failed, and then
  the ERR itself may not be sendable. A malformed BYE or ERR is never taken for a real one.

### Findings

The violation runs and their findings are in `PROJECT.json`:

* A duplicate of an earlier negative REPLY is accepted for a retried AUTH
  (`udp-client.cpp:575`) while the CONFIRM of that AUTH is still awaited.
  `stopTimer` disarms the timer of the unconfirmed AUTH, and stdin is
  enabled again. The user's next `/auth` goes out under the id of the
  unconfirmed AUTH. A server that has seen that id drops it as a
  duplicate. The trace breaks the safety part of `UdpStopAndWait`: a new
  message is sent while one is in flight, under an id already used.
  Nothing retransmits the unconfirmed AUTH until the user types again.
  That is the code's reading of `Settles`, but this trace does not show
  it.
* The two messages of that trace are one record in the model, because
  datagrams carry no payload. No property therefore claims that
  different messages never share an id: the second `/auth` may carry
  other credentials, and the code sends it under a reused id.
* A REPLY that fails the match gets no CONFIRM, contrary to spec section
  4.7. In AUTH, such a REPLY also rebinds the server address
  (`udp-client.cpp:571`). The spec rebinds only on the first accepted
  REPLY. One 3-step trace shows both: a REPLY that overtakes the CONFIRM
  of its AUTH.
* When the TCP server closes the connection without a BYE, `recv()`
  returns 0 and the client exits with success (`tcp-client.cpp:189`).
  Spec section 4.5 says a hang-up is fatal. Section 6 reserves exit code 0
  for a clean termination.
* In OPEN, every REPLY draws an ERR and ends the session
  (`udp-client.cpp:84`). The client enters JOIN only when the CONFIRM of
  its JOIN arrives. A single lost CONFIRM therefore turns the server's
  REPLY to `/join` into a fatal protocol error; no datagram needs to be
  duplicated. A duplicate of the REPLY that opened the session takes the
  same branch.
* `sendErrMsg` does not refill the retransmission budget
  (`udp-client.cpp:248`).
* After the uint16_t id wraps to 0, `m_msg_to_server_id - 1` is -1 in int,
  and the REPLY to request 65535 is never accepted.
* The UDP `s_MAX_MSG_SIZE` (60007) is sized for a REPLY, not for a MSG or
  ERR. Those are up to 60025 bytes. A MSG with 60000 bytes of content and a
  display name of 3 or more characters is rejected as too long
  (`udp-client.h:47`, `udp-client.cpp:137`).

## Bounds

The UDP runs use these bounds:

* `MaxRetrans = 1`: one retransmission, then exhaustion.
* `IdWidth = 4`: no wrap. The edge and id-wrap runs use 1.
* `MaxSid = 2`: server messages.
* `MaxUserCmds = 2`, and 3 in `udp_stale_reply`. The third command is the one that reuses the id of the unconfirmed AUTH.
* `MaxDeliveries = 6`, and 5 in the edge run. Malformed CONFIRMs of every
  client datagram make that run the largest.

These are enough for each scenario a property is about. Examples are a
retried AUTH after a negative REPLY, a JOIN after OPEN, a duplicate
delivered after the state changed, and a retransmission before a CONFIRM.
Each violation is found within 11 steps.

The codec runs try every display-name length (1 to 20) and contents of 1,
59999 and 60000 bytes. These are the ends of each range, where the
comparisons can go wrong.

The TCP runs use `MaxUserCmds = 4` and `MaxSrvMsgs = 4` against a
conforming server, and 2 and 3 against the rogue server. Its nine kinds of
line make the larger run too big. Three lines are nine tokens, and every
way of cutting them into chunks is explored. Both runs let the connection
be reset once (`ConnFaults = TRUE`), at any point. The peer-close run
leaves resets out.

## Fairness

`UdpSession!FairSpec` assumes only weak fairness of `TimerFires`.
`TcpStream!FairSpec` assumes weak fairness of `TimerFires` and of
`SocketEvent`. `SocketEvent` is what `processSocketEvent` does: `Recv`,
`RecvFails`, `ProcessLine` or `CheckRest`. Their guards exclude one
another.

The reasons are these. An armed timerfd stays readable. A socket with
unread bytes or a pending error stays readable. The handler loops over
buffered lines and checks the rest without returning. The
level-triggered epoll loop serves every ready descriptor in turn.

Nothing is assumed of the network, the server or the user.

## Not modelled

* **Byte-level encoders and decoders, and regular expressions.** `Codec`
  models only the lengths.
* **UDP `recvfrom`/`sendto` failures.** The socket is not connected, so
  `recvfrom` does not report ICMP errors. A failed `sendto` throws, ending
  the process with failure, as on TCP. An over-long datagram takes the
  malformed path (`sendErrMsg`), whose cause text is not modelled.
* **Two TCP differences from the spec that no run checks.** After a
  failed `recv()`, the client still tries to write an ERR
  (`tcp-client.cpp:184`), where spec section 7 asks for no further traffic.
  A BYE on SIGINT or end of input that cannot be sent ends the process
  with failure (`tcp-client.cpp:296`), where section 4.8 asks for success.
  Both are listed as hazards.
* **Where each UDP datagram goes.** The address is recorded in `peer`, but
  the one server receives at both addresses, so a rebind changes no
  delivery. A datagram from a third party is not modelled.
* **SIGINT arriving inside a handler.** `client.h:283` says the SIGINT
  callback is used with `signal()`. `Client::run` and the handler
  installation are not in the repository. Spec section 5 says the handler
  only sets a flag that the loop acts on, so `SigInt` is a step between
  two handlers. This is listed as a hazard.
* **The return value of `Client::run`.** `main.cpp:41` returns
  `client->run()`, and `client.h:42-44` documents `run()` as "true on
  success". Read literally, a success would exit with code 1. The body of
  `run()` is not in the repository. The models follow the documentation
  of `processSocketEvent` (`client.h:219`, `udp-client.h:128`): 0 means
  `EXIT_SUCCESS`. The exit codes in `SuccessOnlyAfterBye` and
  `ByeAcknowledgedBeforeSuccess` rest on that reading.
* **Argument parsing and printing.** `args.cpp` is not in the
  repository. The parsed values are constants of the models.

## Plan for later work

1. `sendto` failures in `UdpClient`. Every send of the client would get a
   failing branch that ends the process, and `FailureReported` would have
   to admit that exit.
2. A `ChatSession` variable counting requests, so that a second request
   while one is outstanding is a visible step rather than a stutter. The
   code never reaches that case except through the stale REPLY of
   `udp_stale_reply`, and there the abstract step is a REPLY followed by a
   new request.
