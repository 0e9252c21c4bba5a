# Verification of the embedded communication testbed

TLA+ models of the TCP and the UDP programs of this repository, TLC
configurations that check them on small instances, and TLAPS proofs of their
safety properties and refinements for every value of the constants.

All paths below are relative to the repository. `PROJECT.json` maps every
definition to the lines it models.

## 1. The system

| Component | Source | State it keeps | Operations |
|---|---|---|---|
| TCP sender | `tcp/sender.cpp` | current descriptor, DATA attempt, heartbeat number, connect attempt, `completed_responses`, the bytes of a response read so far | connect with retry, send DATA and heartbeats, wait for the matching response, resend DATA, reconnect once per heartbeat |
| TCP fault injector | `fault_injector/tcp_proxy.cpp` | the pair of descriptors it relays, the events of the last `poll`, fault mode and whether the fault was applied, an ACK held back | accept, connect to the receiver, relay both directions, drop / delay an ACK, corrupt DATA, disconnect on a heartbeat |
| TCP receiver | `tcp/receiver.cpp` | accepted descriptor, `processed_sequences` (life of the process) | accept, process DATA once, answer DATA and heartbeats, survive EOF of a connection, end on any other error |
| UDP sender | `udp/sender.cpp` | the sequences of its mode and the current one, attempt, `completed_sequences` | send, wait for the matching ACK, resend, give up |
| UDP receiver | `udp/receiver.cpp` | mode, `processed_sequences`, `expected_sequence`, `unique_received`, `ack_dropped` | receive, process once, report gaps, answer, drop the first ACK, exit when the mode says so |
| Packet codec, CRC-32 | `protocol/` | none | encode, decode, length and checksum checks |
| Verification suite | `reliability_verification/` | none of the protocol's | starts the programs and compares what they print |

The programs share no memory. The TCP sender and receiver talk through the
fault injector over two TCP connections per session; `poll`, `recv`, `send`,
`close` and the listeners' backlogs are their only interaction. The UDP sender
and receiver exchange datagrams directly. Every program has one thread; all the
concurrency is between processes and the kernel.

### What is hard here

- **Deadlines race answers.** A response may arrive, wholly or in part, at any
  moment around the 1000 ms deadline; it is then late, a duplicate, or the
  beginning of a frame whose rest is still on the way.
- **Stale answers.** After a retry there are two ACKs for one DATA. The sender
  must skip the second, over reconnects and, with UDP, in the send order 1, 3, 2.
- **Connections come and go in the middle of an exchange.** Closing a socket
  with unread data resets the peer; writing to a reset connection raises
  `SIGPIPE`, which no program handles; `connect` succeeds although no process
  ever accepts.
- **The relay acts on old events.** `relay_connection` handles the events of its
  last `poll` while both peers go on.
- **Receiver memory dies with the process**, while senders and late datagrams
  go on.

The full list, each entry with its line and the properties that cover it, is
`hazards` in `PROJECT.json`.

## 2. Modules

| Module | Models | Variables |
|---|---|---|
| `TcpNet` | loopback TCP as the programs observe it (external) | `sock`, `backlog`, `listening` |
| `TcpSender` | `tcp/sender.cpp` | `sender_pc`, `phase`, `fd`, `connect_attempt`, `attempt`, `heartbeat_sequence`, `completed_responses`, `partial`, `sender_error` |
| `TcpProxy` | `fault_injector/tcp_proxy.cpp` | `proxy_pc`, `fault_mode`, `fault_applied`, `conn`, `revents`, `delayed`, `faults` |
| `TcpReceiver` | `tcp/receiver.cpp` | `receiver_pc`, `client_fd`, `reply`, `processed_sequences`, `starts`, `delivered`, `heard` |
| `TcpSystem` | the three programs together, and the properties | |
| `RequestSession` | what the TCP testbed promises (abstract) | `executed`, `served`, `answered`, `status` |
| `TcpScenarios` | the documented fault scenarios on a quick machine | |
| `UdpNet` | the UDP network (external) | `net`, `duplicated` |
| `UdpSender`, `UdpReceiver` | `udp/sender.cpp`, `udp/receiver.cpp` | as named in the code |
| `UdpSystem` | both programs together, and the properties | |
| `UdpScenarios` | the documented UDP tests on a quick machine | `lost`, `lost_acks` and those of `UdpSystem` |
| `ReliableTransfer` | what the UDP programs promise (abstract) | `plan`, `taken`, `confirmed`, `outcome` |
| `TcpService` | `tcp/receiver.cpp` with any number of clients of any kind | `client`, `requests`, `answers`, `offenders` and the receiver's |
| `ResponseWait` | `wait_for_response`, `receive_packet`, `recv_exact` of the TCP sender against the clock | `now`, `lag`, `pc`, `deadline`, `remaining`, `poll_until`, `part`, `size`, `total_received`, `frame_bytes`, `read`, `whole`, `arrived` |
| `Framing` | packets on a byte stream that splits anywhere: `send_all`, `recv_exact`, `send_packet`, `receive_packet`, `send_corrupted_packet` | `writer`, `outgoing`, `stream`, `reader`, `header`, `payload`, `sent`, `received` |
| `PacketChannel` | what a TCP stream of packets promises (abstract) | as named there |
| `Crc32` | `protocol/crc32.cpp`, bit for bit | |
| `Codec` | `protocol/codec.cpp`, `packet.hpp`, byte for byte | |
| `CrcDetection` | the CRC loop of both ends side by side, one byte changed, and the division that defines CRC-32 | `position`, `damaged`, `sent_crc`, `received_crc`, `message` |
| `Datagram` | one datagram from `encode_packet` over a network that damages it to `receive_packet` of the UDP programs | `packet`, `datagram`, `damage` |
| `MCTcp`, `MCUdp`, `MCService`, `MCFraming`, `MCDatagram`, `MCCrc` | constants and bounds for TLC | |
| `TcpNetProofs`, `TcpSystemProofs`, `TcpServiceProofs`, `UdpProofs`, `ResponseWaitProofs`, `CodecProofs`, `DatagramProofs`, `FramingProofs` | proofs | |

How they fit together, from the bits up: `Codec` extends `Crc32` and says which
bytes are a packet. `Framing` shows that a TCP connection used through
`recv_exact` and `send_all` is a channel of packets, so `TcpNet` may carry
frames; `Datagram` does the same for UDP, so `UdpNet` may carry packets and
damage is loss. `TcpSender`, `TcpProxy` and `TcpReceiver` are composed in
`TcpSystem`. `ResponseWait` opens the one step of `TcpSender` that waits for a
response and puts it against a clock, and `TcpService` puts the same
`TcpReceiver` in front of clients that the repository's sender is not.

`XxxSystem` extends its component modules; a component step leaves the other
components' variables unchanged and shares only those of the network.

### How a model corresponds to its program

A program is sequential, so its state is the point it has reached (`*_pc`) and
its variables. One action is the code between two calls into the kernel whose
outcome other processes can change: one `connect`, one `send_packet`, one
reading of a response with everything the code then does before its next call.
Conditions and early returns are guards; an exception is followed to its
handler (`Fail`, `ConnectionLost`, `Teardown`, `ReceiverExit`), including the
`close` calls there and those of the kernel when a process ends.

Two parts deserve a note.

- *Reading a response.* `recv_exact` may take some of a frame and wait for the
  rest. `SenderReadPart` takes the first bytes of a frame and leaves a
  `Fragment` in the socket; `SenderTimeout` then shuts the connection down, as
  the code does for a partial response. The number of bytes does not matter to
  anything, only whether the reader is inside a frame.
- *The relay loop.* `ProxyPoll` stores the events of both sockets;
  `RelayFromSender`, `RelayFromReceiver` and `RelayHangup` are the three
  branches of one turn and use these stored events, while the sockets go on
  changing. Where the code says `continue`, the action goes straight to `poll`.

A frame is a type, a sequence number and whether the CRC still fits. A decoder
accepts a frame unless its CRC is wrong or it begins inside a frame. That the
programs' `decode_packet` does so is what `Codec` and its properties are about.

In `Crc32` and `Codec` a word of n bits is the set of the positions of its one
bits: exclusive or is the symmetric difference, and a shift moves positions and
drops those that leave the width. So the width is kept, and the proofs are about
sets and not about numbers. Type, sequence number and payload length are such
words; every check of `get_payload_length` and `decode_packet` is a conjunct of
`HasLength` or `Accepts`, in the order of the code.

In `ResponseWait` the clock ticks in half milliseconds, because `poll` counts
whole ones and rounding is where such loops go wrong. A process that can run does
so within `MaxLag` ticks; each place of the loop where time can pass (before the
loop's test, before the remaining time is computed, between that and `poll`, in
`poll`, before `recv`, after a frame) is a value of `pc`.

In `TcpService` a client connects, sends any frame, reads, shuts its write side
down and closes in any order. A client stands for the fault injector, for the
verification suite's own test clients and for any other program on the port.

`delivered`, `heard`, `faults` and `reported`, and in the other modules those
marked so, are history variables: the code
prints what they record and no guard reads them.

### What is assumed of the kernel

`TcpNet` and `UdpNet` stand for code outside the repository. They say, from how
the programs use it:

- a TCP connection is established when a process listens, and waits in the
  backlog whether or not it is ever accepted;
- an open connection keeps order and loses nothing; a frame may arrive in two
  parts;
- closing a descriptor with unread data, or ending with connections in the
  backlog, resets the peer; otherwise the peer gets a FIN. Data sent to a closed
  peer is lost and comes back as a reset;
- data that arrived before a reset can still be read; a `send` after the reset
  fails with `EPIPE` and `SIGPIPE` if the FIN had come first, and with
  `ECONNRESET` otherwise;
- a datagram arrives whole, late, out of order, more than once or never.
  The UDP sockets are not connected, so a closed port gives no error.

Control packets (SYN, FIN, RST) take effect at once; data is visible at once.
What the delay of data between two kernels would add, the sender's deadlines
already give: they may pass at any moment, before or after the data is there.

## 3. Runs

| Run | Checks | Distinct states |
|---|---|---|
| `tcp_safety` | nine invariants and `ImplementsSession`, every fault mode | 585,326 |
| `tcp_liveness` | `SenderTerminates`, `ConnectionsReleased` | 490,016 |
| `tcp_scenarios` | `EndsAsDocumented` | 403 |
| `tcp_reconnect` | `ListenerSurvivesReconnect`: violated, see section 6 | |
| `udp` | five invariants, `SenderTerminates`, `ImplementsTransfer`, every mode | 520,638 |
| `udp_scenarios` | `EndsAsDocumented`, `RetriesOnlyForLoss` | 2,263 |
| `service` | `OnceForAllClients`, `AnswersInOrder`, `EndsOnlyProvoked`, `ServedInTurn`, `EveryRequestAnswered` | 256,903 |
| `wait` | `EndsByDeadline`, `GivesUpInTime`, `RetriesAtBoundary`, `WaitEnds` | 91,526 |
| `framing` | `InStep`, `ImplementsChannel`, `PacketsArrive`, `ReaderEnds` | 9,541 |
| `datagram` | `RoundTrip`, `TakesOnlyEncodings`, `DamageIsFound` | 64,226 |
| `datagram_size` | `SizeMismatchIsAnError`: violated, see section 6 | |
| `crc` | `DamageShows`, `MatchesDivision` | 20,481 |

**TCP safety.** `ResponsesAreHonest`: wherever an ACK is, its DATA was
processed. `ProcessedOnce`: retries and reconnects process DATA once per
receiver process. `DeliveredIntact`: corrupted DATA never reaches the
application. `NoProtocolError`: no late or repeated response makes the sender
give up. `AtFrameBoundary`: a request is only sent on a stream whose responses
were read to a frame boundary. `OneRequestAtATime`: a heartbeat goes out only
when everything before it was answered. `OneFault`: the fault is injected once
per process, not per connection. `NoDescriptorLeak`: an open end is the one
being worked on or waits in a backlog.

**TCP refinement.** `RequestSession` knows only that requests are executed,
served and answered in order. Every step of the three programs is one of its
steps or invisible to it. The mapping reads `answered` off the sender's phase,
`executed` off `delivered` and `served` off `heard`.

**TCP liveness.** The sender always ends, and afterwards every connection is
closed at both ends: neither the relay nor the receiver hangs on to one. The
receiver may be killed and started again, and corrupted DATA may end it while the
relay still forwards to it, up to the `SIGPIPE` that ends the relay as well.

**Scenarios.** `QuickSpec` lets a deadline pass only when the other processes
have nothing left to do. Under it each `--fault` mode must end with the outcome
`docs/phase-3.md` and `reliability_verification/common/runner.py` record:
number of attempts, number of connections, DATA processed once or not at all. And
no connection is reset: the logs of `regression-summary.json` have "peer
disconnected" wherever a program finds a connection closed, after corrupted DATA
too, because the receiver has read the whole bad packet before it ends.

**UDP.** `AcksAreHonest`, `ProcessedOnce` as above. `NoSequenceMismatch`: a
late, repeated or overtaken ACK never ends the sender. `GapsReported`: the
receiver reports exactly the sequences that came while an earlier one was
missing; it relates `expected_sequence` to the whole order of arrival.
`ImplementsTransfer`: the pair implements an in-order transfer of the plan.

**UDP scenarios.** The tests of `docs/phase-4.md` section 7 with a quick machine
and a network that may lose up to three datagrams and copy one. As long as there
are retries for the losses, the receiver's own drop included, everything is
processed once and in order and both programs end well. One loss is different,
as `candidate05.py` observed for one mode and the run shows for all: the ACK after
which the receiver exits is sent once, and without it the sender uses up its
retries and fails although all was processed. `RetriesOnlyForLoss`: no retry
without a loss.

**The receiver as a service.** Two clients at a time, repeated DATA, a heartbeat
with the same number, a packet that is no request, a receiver that is killed and
started again. `OnceForAllClients`: duplicates are suppressed over connections,
not within one. `AnswersInOrder`: what a client has read, what is on its way and
what is about to be sent are together exactly the answers to the requests taken
so far. `EndsOnlyProvoked`: the receiver ends only while it serves a client that
sent something else than requests or left answers behind; a client that leaves
between its requests, or that is one of several, never ends it. `ServedInTurn`
and `EveryRequestAnswered`: no client is forgotten in the backlog, and every
request is answered or its connection visibly ends.

**The wait.** `EndsByDeadline`: stale responses, interrupted polls and bytes
that trickle in never renew the deadline; the bound is the timeout, half a
millisecond of rounding and four delays of the process. `GivesUpInTime`: no
attempt is given up early, which rounding down would do. `RetriesAtBoundary`: the
caller may use the stream again only if the bytes read are whole frames, also
when the time is over between a header and its payload. `WaitEnds`: also with
signals at every poll and readiness without data.

**The byte stream.** `InStep`: what the reader holds, what the kernel holds and
what the writer holds are the encodings of the packets still to come, byte for
byte. `ImplementsChannel`: so packets arrive whole, once, in order, or the reader
ends. `PacketsArrive`: the reader never needs a byte no packet has, also for an
empty payload. `ReaderEnds`: an end of file inside a header or payload ends it.

**Codec and CRC.** `RoundTrip`: what `encode_packet` makes is received as it was,
and exactly what it refuses is refused. `TakesOnlyEncodings`: whatever bytes
come, what is taken for a packet is the encoding of that packet. `DamageIsFound`:
one changed byte, bytes cut off or one added are refused, with the exception
behind finding 2 and one restriction: if the payload is larger than the limit,
which `encode_packet` never produces, the length in the header must be as it was.
A smaller one makes the buffer's end the packet's end, and the checksum then
covers fewer bytes than its author's. The run contains a packet of seven bytes
that has the checksum of its first three; without the restriction it is
accepted as those three. `DamageShows`: one changed byte changes the checksum of a
message of any length. `MatchesDivision`: the loop computes CRC-32, defined as the
remainder of a polynomial division and not by another loop.

### Bounds

- *Limits of the programs.* `MaxRetries = 3`, `HeartbeatCount = 3`,
  `MaxReconnectAttempts = 3` are the programs' own values, so for them there is
  no bound in `tcp_safety`, `tcp_scenarios` and `udp_scenarios`. `tcp_liveness` has
  two heartbeats: one that reconnects and one after it; a third waits the same
  way. `tcp_reconnect` needs one. `MaxConn = HeartbeatCount + 1`
  is what the sender can need, which `TypeOK` checks and `TypeCorrect` proves.
  `udp` uses two retries, so that three ACKs of one DATA can be under way: a
  second attempt is what brings a second ACK, a third repeats the situation. All
  of its properties but `SenderTerminates` are proved for any number.
- `MaxStarts` bounds receiver processes. Two show a restart at every moment,
  with the memory of the first gone; a third meets the same situations as the
  second. The scenarios use one: nobody restarts the receiver in them.
- `MaxDuplicated = 1` bounds copies made by the network. With the retries, up
  to four copies of one DATA exist. Loss, delay and reordering have no bound: a
  datagram in the bag may be taken at any time or never.
- `udp_scenarios`: `MaxLost = 3`, as many as there are retries; with the ACK that
  the receiver itself drops that is one more than can be made up for.
  `RetriesOnlyForLoss` is proved for any number.
- `service`: `MaxConn = 2`, `MaxRequests = 2`, `MaxStarts = 2`. Two clients give
  one that is served and one that waits, or leaves; two requests give one being
  answered and one behind it, which is what makes a client that leaves end the
  receiver. The proofs have no bound.
- `wait`: `timeout_ms = 3`, a header of two bytes, payloads of 0, 1 and 3 bytes,
  `MaxBytes = 7`, `MaxLag = 2`. A header can be cut, a payload can be cut, two
  frames fit, and the deadline can pass at each place. The proofs have no bound.
- `framing`: headers have their real 16 bytes; two packets, one without payload
  and one whose payload looks like the start of a header, `kMaxPayloadSize = 2`.
  Two packets show every way bytes of one could be taken for the other's.
  `FramingProofs` has any packets, any number of them and the limits of
  `datagram`.
- `datagram`: `kMaxPayloadSize = 3`, payloads of 0 to 4 bytes, so that the limit
  and one byte more occur, the packet of seven bytes named above, and two changes
  of one datagram, to one of four byte values. TLC evaluates a recursion per byte
  and cannot do 1024 of them; `DatagramProofs` is for every limit up to 1024, every
  packet and every change.
- `crc`: messages of up to five bytes over four byte values; the proofs have
  neither bound.
- `FaultModes` is the set of all arguments the fault injector accepts; the mode
  is chosen in the initial state.

Runs set `CHECK_DEADLOCK FALSE` because the system really stops: the sender
ends, and the servers wait for a connection or a datagram that never comes.

### Fairness

`Fairness` of `TcpSystem` is weak fairness of each process: the operating
system runs a process that can make a step, and `ProxyRun`, `ReceiverRun` and
`SenderStep` contain what a running process does. Starting and killing
processes is an operator's choice and is not fair. A deadline is a step of the
sender, because every wait in the code has a timeout. `FairSpec` of `UdpSystem`
has weak fairness of the sender alone: no datagram need arrive. `QuickSpec` has
weak fairness of its next-state relation, because it describes one test run in
which all processes are started. `QuickSpec` of `UdpScenarios` has it
of the programs' steps `QuickStep` only: nothing need be lost or copied.

`FairServiceSpec` has weak fairness of the running receiver and of each client's
`ClientShut`. The second is an assumption the property needs: the receiver's
`recv` has no deadline, so it serves the next client only if every client stops
sending at some time. Connecting, sending, reading and closing are not fair.
`FairWaitSpec` has weak fairness of the process and of the clock; bytes,
signals and spurious readiness come or do not. `FramingSpec` has weak fairness of
`SendSome` and `Read`: a process inside `send_all` or `recv_exact` goes on; sending
a packet and closing are the caller's choice.

### Mutants

Each property has a faulty variant in the module it is about
(`RetriesLeft_OneMore`, `Stale_ByOrder`, `BothEnds_FrontOnly`, ...). A
variant is never part of the specification; put in the place of the definition
it is named after, it must make the property fail.

## 4. Proofs

`tlapm` proves these for every value of the constants that satisfies the named
assumptions next to the constants (`MaxConnAssumption`, `SenderAssumption`,
`ProxyAssumption`, `ReceiverAssumption`, `ServiceAssumption`, `WaitAssumption`,
`UdpNetAssumption`, `UdpSenderAssumption`, `UdpReceiverAssumption`,
`CodecAssumption`, `DatagramAssumption`, `AlphabetAssumption`). They bound little:
limits are naturals, an attempt limit is positive, the model has as many
connection identifiers as the sender can use, and a payload limit is at most
1024, the code's.

| Theorem | Module | Property |
|---|---|---|
| `TypeCorrect` | `TcpSystemProofs` | `TypeOK` |
| `ProcessesOnce` | `TcpSystemProofs` | `ProcessedOnce` |
| `InjectsOneFault` | `TcpSystemProofs` | `OneFault` |
| `HonestResponses` | `TcpSystemProofs` | `ResponsesAreHonest` |
| `IntactDeliveries` | `TcpSystemProofs` | `DeliveredIntact` |
| `OneRequest` | `TcpSystemProofs` | `OneRequestAtATime` |
| `DescriptorsKept` | `TcpSystemProofs` | `NoDescriptorLeak` |
| `NoUnexpectedResponse` | `TcpSystemProofs` | `NoProtocolError` |
| `SendsAtFrameBoundary` | `TcpSystemProofs` | `AtFrameBoundary` |
| `SessionImplemented` | `TcpSystemProofs` | `ImplementsSession` |
| `AnswersEachInOrder` | `TcpServiceProofs` | `AnswersInOrder` |
| `OnlyProvokedEnds` | `TcpServiceProofs` | `EndsOnlyProvoked` |
| `OncePerProcess` | `TcpServiceProofs` | `OnceForAllClients` |
| `DeadlineHolds` | `ResponseWaitProofs` | `EndsByDeadline` |
| `GivenUpInTime` | `ResponseWaitProofs` | `GivesUpInTime` |
| `RetriedAtBoundary` | `ResponseWaitProofs` | `RetriesAtBoundary` |
| `TypeCorrect` | `UdpProofs` | `TypeOK` |
| `HonestAcks` | `UdpProofs` | `AcksAreHonest` |
| `ProcessesOnce` | `UdpProofs` | `ProcessedOnce` |
| `AcksMatch` | `UdpProofs` | `NoSequenceMismatch` |
| `ReportsGaps` | `UdpProofs` | `GapsReported` |
| `TransferImplemented` | `UdpProofs` | `ImplementsTransfer` |
| `RetriesAnswerLosses` | `UdpProofs` | `RetriesOnlyForLoss` |
| `LossesCostRetries` | `UdpProofs` | `EndedAsDocumented` |
| `DetectsDamage` | `CodecProofs` | `DamageShows` |
| `LoopDivides` | `CodecProofs` | `MatchesDivision` |
| `RoundTrips` | `DatagramProofs` | `RoundTrip` |
| `TakesOnlyWhatIsEncoded` | `DatagramProofs` | `TakesOnlyEncodings` |
| `OneDamageIsFound` | `DatagramProofs` | `DamageIsFound` |
| `ReaderKeepsItsPlace` | `FramingProofs` | `InStep` |
| `StreamIsChannel` | `FramingProofs` | `ImplementsChannel` |

How the arguments go:

- **Sockets** (`TcpNetProofs`). Whatever set F of frames the sockets hold, each
  operation of `TcpNet` keeps them in F if what is put in belongs to F. F is a
  parameter, so one set of lemmas serves typing (`Frame`) and soundness.
- **Types** (`TypeInv`). `TypeOK` is not inductive: that the sender never needs
  more than `MaxConn` connections follows from `ConnectionBudget`, which ties
  the number of connections used to the heartbeat being worked on.
- **Processed once** (`OnceInv`). What the current process delivered is in its
  `processed_sequences`, and no delivery is of a later process.
- **One fault** (`FaultInv`). `faults` is 1 exactly when `fault_applied` is set,
  and an ACK is only held back while it is not.
- **Soundness** (`SoundInv`). A frame is sound when it is a request the sender
  was entitled to send or a response to a request that was taken in. All
  sockets, and every variable that holds a frame, contain sound frames only, and
  what makes a frame sound never becomes false (`SoundStays`). The flow lemmas
  (`SenderFlow`, `ProxyFlow`, `ReceiverFlow`) show that a step puts into the
  sockets only frames that were there, the sender's request, or the receiver's
  reply. Three properties follow at once, because each needs the others: an
  answered heartbeat permits the next one, a delivered DATA permits its ACK.
- **Descriptors** (`LeakInv`). `NoDescriptorLeak` is not inductive: it needs
  that a process in a place without a connection has no end of one open, which
  the error paths must establish.
- **The stream of responses** (`StreamInv`). Each end carries only frames of its
  direction, responses towards the sender; a torn sequence, the rest of a frame
  and what is behind it, is at the sender's end only while it waits. With it,
  whatever the sender reads is a response, and by `SoundInv` one to a request it
  sent, so it is expected or already matched.
- **The session** (`SessionInv`, with `TypeInv`, `SoundInv`, `StreamInv` and
  `OnceInv`). The initial state maps to the abstract one; each action of a
  program maps to an abstract step or a stutter. The one hard case is a response
  that matches: that its request was served is `SoundInv`, that it was not counted
  before is `SessionInv`.
- **UDP**. `BaseOK` is the typing the arguments need. `HonestInv` adds to
  `AcksAreHonest` the ACK about to be sent and the sequences a process
  remembers. `MatchInv` says that only sequences the sender has come to are in
  the system and that all of them but the current one are completed, so an ACK
  that is not the expected one is known to be stale. `GapInv` says that
  `expected_sequence` is the least sequence not processed by this process and
  that what was processed is in `delivered`. The refinement puts `HonestInv`
  (an ACK confirms what was taken), `OnceInv` (a process takes once) and
  `MatchInv` together.
- **The service**. `PlaceInv`: each open connection is the one being served or
  waits in the backlog exactly once. `RequestInv`: what is unread is the end of
  what was sent. `AnswerInv` is `AnswersInOrder` element by element, the form that
  a step of one end preserves. `OffenceInv` is the heart of `EndsOnlyProvoked`:
  for a client that is no offender the connection is never reset while anything
  remains to be read or answered, and the end of the stream is found first.
- **The wait** (`WaitInv`). `OnTime` bounds `now` for each place of the loop,
  with the rounding and the delays used up so far; `Accounted` says that what was read
  is whole frames and the `frame_bytes` of the one in hand, over the end of a
  header too.
- **CRC** (`CrcInv`). The bitwise step is injective in the register for a given
  byte, and in the byte for a given register. So the two registers differ from
  the changed byte on, whatever follows, and no induction over the message is
  needed: the invariant carries it along.
- **Recursion over data** (`NumbersOf`). `Register`, `Remainder` and the bytes of a
  sequence of packets are recursive functions over messages of any length. The
  library's induction theorems take an operator, which the provers cannot
  instantiate; so induction is stated about a set of naturals that holds 0 and
  with each number the next, and proved from the least number outside of it
  (`WFMin`). With it each recursion is shown to have a value (`LoopRuns`,
  `DivisionRuns`, `WireLoopRuns`) and to unfold step by step (`RegisterRuns`,
  `RemainderRuns`, `WireUnfolds`).
- **CRC-32** (`LoopDivides`). The register, its bits turned round and put below the
  exponent d, together with the terms of the message below d, is the remainder
  that the division has at d. One turn of the inner loop is one step of the
  division (`TurnDivides`: the code's polynomial is the generator turned round,
  without its highest term); a byte goes in as its eight terms (`ByteDivides`,
  `TermsSplit`).
- **Codec** (`DatagramInv`). `encode_packet` and the readers are inverse field by
  field (words against their bytes in network order), so a datagram that passes
  every check of `decode_packet` is rebuilt by encoding what it returned.
- **Damage** (`OneDamageIsFound`). A datagram that is taken is the encoding of the
  packet it gives. Two encodings of packets with one length cannot differ in one
  byte (`EncodingsFarApart`): a byte before the checksum or after it changes the
  checksum by `OneByteShows`, so a second byte differs. With the length that
  arrived, a datagram cut off or lengthened has the wrong size.
- **The byte stream** (`FramingInv`). `Place`: what header and payload buffer, kernel
  and writer hold, joined, are the bytes of the packets from the upcoming one on,
  or, once the writer has closed, a beginning of them. `Buffers`: the payload
  buffer is filled after the header and no further than the header's length.
  `Unsent` and `CutOff`: only the last packet can be unfinished or cut off. The
  hard step is the end of a header: the length that the reader takes from it must
  be that of the packet that was sent (`HeaderTells`).
- **Retries** (`QuickInv`). Each time the current sequence was sent, a datagram or
  an ACK for it is still pending, or was lost, or was dropped by the receiver
  itself (`QuickCount`); a deadline passes only when nothing is pending.
- **How the UDP tests end** (`EndInv`, next to `QuickInv`). What was processed is a
  beginning of the order, and all of it once the receiver has exited (`InOrder`);
  the sequences below the expected one are processed and that one is not (`Gaps`);
  a sender that failed saw as many losses as attempts, or the receiver had exited
  and an ACK of the last sequence was lost (`Ending`). `EndedAsDocumented` is what
  `EndsAsDocumented` says of a sender that has ended, without saying that it ends;
  no run of its own checks it.

### Model-checked only

- Liveness under fairness: `SenderTerminates` (both), `ConnectionsReleased`,
  `ServedInTurn`, `EveryRequestAnswered`, `WaitEnds`, `PacketsArrive`,
  `ReaderEnds`, and both `EndsAsDocumented`: that the tests end at all. They,
  and `ENABLED`, are out of the prover's reach. The TCP scenarios are defined with
  `ENABLED`, so the whole of their `EndsAsDocumented` is left to TLC.

Every other property that a passing run checks is a theorem.

## 5. What is not modelled

- *Numbers wrong in a way no program produces*, in `TcpSystem` and `UdpSystem`
  (another magic number, a length that disagrees). `Codec`, `Datagram` and
  `Framing` have them, and show that they end as a refused packet.
- *Failing system calls* for reasons outside the protocol: no descriptors, no
  memory, a listen backlog that is full. Partial reads and writes are in
  `Framing`; `EINTR` and readiness without data are in `ResponseWait`.
- *A `recvfrom` that blocks after `poll`* (`udp/sender.cpp:110`): it needs a
  datagram that the kernel drops between the two, which the loopback interface,
  where the programs run, does not do.
- *Bytes of a frame that never becomes whole* in `TcpService`: by `Framing` the
  receiver finds only the end of the stream there.
- *Null pointers* given to the codec, which no caller passes.
- *The TCP fault injector with foreign clients.* The relay is driven by
  `tcp/sender.cpp`, which sends one request at a time.
- *A second fault injector process.* It is started once; an exit by `SIGPIPE`
  is modelled.
- *The test harness and evidence tools* under `reliability_verification/`: they
  start programs and format output. Their expectations are used in
  `TcpScenarios` and `UdpScenarios`.

## 6. Findings

**1.** `ListenerSurvivesReconnect` (run `tcp_reconnect`). `docs/phase-2.md:689`
says that the receiver keeps its listening socket and closes only the connected
one, so that a sender that gave up its connection after a heartbeat can connect
again. In the code that holds for an end of file only. If the heartbeat's answer
is on the way when the deadline passes, the sender closes and reconnects, the
fault injector closes its side towards the receiver with the answer unread, the
receiver gets a reset instead of an end of file, and `recv` failing with
`ECONNRESET` ends the process (`tcp/receiver.cpp:83`), listener included. The
trace needs no injected fault. `EndsOnlyProvoked` says the rest: this is the only
way, besides a packet that is no request, that a client can end the receiver.

**2.** `SizeMismatchIsAnError` (run `datagram_size`). `docs/phase-4.md:256` says
that a datagram whose size is not the one its header gives is an error.
`receive_packet` of the UDP programs (`udp/receiver.cpp:46`, `udp/sender.cpp:57`)
reads into a buffer of exactly the largest packet without `MSG_TRUNC`. The kernel
cuts a longer datagram to the buffer, and when its header announces the largest
payload, the check of the size passes. The trace is a packet with a payload of the
largest size and one byte behind it, received as that packet. `TakesOnlyEncodings` shows
that this is the only such case: a datagram that fits the buffer is refused unless
its size is right.

## 7. Plan

Done, in this order: the TCP exchange, its abstract specification and proofs; the
UDP pair in the same way; the codec and the CRC; the byte stream; the receiver as
a service; the wait against the clock; and the theorems of all of them.

What remains:

1. For TCP, how a scenario ended once the sender has, as `LossesCostRetries` says for
   UDP.
2. A proof that one turn of `ResponseWait` is one of the outcomes that `TcpSender`
   allows, so that the two are tied by a refinement and not by the README.
3. Clock values for the reconnect delay and the 700 ms of the delayed ACK, so that
   the scenarios follow from the numbers and not from a quick machine.
4. The relay with clients that do not wait for their answers.
