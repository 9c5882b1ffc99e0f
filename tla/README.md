# A TLA+ model of sockperf

sockperf measures latency and throughput of sockets: a client sends numbered
messages, a server answers every n-th of them, and the client reports the
distribution of the times in between.  These modules model the parts of it
whose correctness depends on orders of events: the cutting of byte streams into
messages, the client from its first connection to its report with two threads
and a table of times, the server's threads and tables of connections, the six
I/O handlers that choose what is read next, replies sent in pieces and the gap
detection, and the way from a command line and its files to the sockets and
settings those loops work with.

Line numbers are of `src/src/` unless a path is given.

## 1. Inventory

| Component | State | Operations | Talks to |
|---|---|---|---|
| Options (`sockperf.cpp`, `aopt.cpp`, `defs.h`) | `s_user_params`, `MAX_PAYLOAD_SIZE`, `MPS_MAX` | one function per mode, `parse_common_opt`, `parse_client_opt` | bring-up reads the result |
| Bring-up and feed file (`sockperf.cpp`) | `g_fds_array` with its ring `next_fd`, `s_fd_min/max/num`, `fd_socket_map`, sizes and limits of `Message` and `PacketTimes` | `bringup`, `set_sockets_from_feedfile`, `fds_array_is_valid`, `do_test` | hands ring and settings to client or server |
| Message parser (`message_parser.h`, `input_handlers.h`, `message.h`) | per connection `SocketRecvData` and its buffer; one `Message` per thread | `receive_pending_data`, `process_buffer`, `process_chunk` | calls `handle_message` of client or server |
| Client loops (`client.h`, `client.cpp`, `switches.h`, `packet.h`) | `PacketTimes`, request header, counters, `g_b_exit`, interval timer, `m_receiverTid` | `initBeforeLoop`, `doSendThenReceiveLoop`, `doSendLoop`, `doPlayback`, receiver thread, signal handler | server by messages; statistics by `PacketTimes` |
| Client statistics (`client.cpp`) | `pLat` and the counters of the report | `client_statistics` | reads the table the receiver may still write |
| Server (`server.cpp`, `server.h`) | `g_fds_array`, `active_fd_list/count`, `thread_pid_array`, `g_b_exit` | `server_select_per_thread`, `doLoop`, `server_accept`, `close_ifd`, joining the threads | clients, other threads through `g_fds_array` and the kernel's descriptors |
| I/O handlers (`iohandlers.h`, `iohandlers.cpp`) | `m_look_start/end`, the set, poll array or kernel object of descriptors, `m_max_events` | `prepareNetwork`, `waitArrival`, `analyzeArrival`, `update` | the loops of client and server |
| Server replies and gap detection (`server.h`, `common.h`, `switches.h`, `server.cpp`) | what is left to send of a reply; a session per client address | `handle_message`, `msg_sendto`, `execute`, `check_gaps` | called by the parser; closes through `close_ifd` |
| Playback file (`playback.cpp`) | the vector of times and sizes | `readFile`, `parsePlaybackData` | options call it, the client sends along it |
| TLS, clock, addresses, option scanner, OS layer, VMA/XLIO redirection, logging | | | see section 7 |

What is hard here, and what would make it wrong (the list with its lines is in
`PROJECT.json` under `hazards`):

- *Cuts of a stream.*  A read may end inside a header.  The header is converted
  to host order where it lies, once.  All connections of a thread share one
  parser and one message object.
- *Two threads of the client* share the request header, the table of times and
  an exit flag, without a lock; the receiver is not joined before the report.
- *Sends that are taken back.*  A non-blocking send that would block undoes its
  sequence number and its entry of the table.
- *Lost replies.*  Ping-pong waits for each reply; timers are what ends a test.
- *Several connections of a client*, of which a late one fails, or none of which
  is there yet when a non-blocking `connect` returns.
- *Replies in pieces.*  A non-blocking send may take part of a reply; the rest
  must follow before anything else, whoever closes or interrupts meanwhile.
- *The end of the server's threads.*  A signal sent once, to threads that may be
  just about to wait.
- *Handlers that scan.*  Descriptors of accepted connections lie below and above
  those of the sockets, and come and go during the scan.
- *Descriptors are reused* by the kernel as soon as they are closed, while
  another thread still holds tables indexed by them.
- *Messages lost, duplicated, reordered*, and clients that are started again at
  the same address, in front of the gap detection.
- *Options* of five modes that combine to settings, sizes and limits which the
  loops take for granted.

## 2. Plan

1. `MessageStream`, `MessageParser` and the proofs about them: the one piece of
   code every mode and both sides go through.  *Done.*
2. `Client` and `ClientStatistics`: how a latency is measured and how it is
   reported, with `initBeforeLoop` and several sockets.  *Done.*
3. `Server`: connections, threads, their creation and their end, the reply that
   meets a closed connection.  *Done.*
4. `ServerMessages` with `CalcGaps`: replies piece by piece, gaps.  *Done.*
5. `IoHandlers` against `Multiplexer`.  *Done, without socketxtreme.*
6. `Options` and `Bringup`: what the other modules assume of their settings,
   feed file, memberships and playback file.  *Done.*
7. Left to model: the throughput mode, which sends without recording;
   `cleanup()`; `IoSocketxtreme`, whose rings belong to the VMA and XLIO
   libraries; the scanner of the options' text.
8. Proofs: every safety invariant of the runs and both refinements are proved for
   all values of the constants (section 6).  Left: the type invariant of
   `Bringup`, and liveness, which is out of the prover's reach.

Worth stating abstractly: the message stream and the multiplexer (both done); a
request/response service with at most one recorded reply per request, which
`Client` should implement.

## 3. Modules

| Module | Models | Used by |
|---|---|---|
| `MessageStream` | abstract: a connection delivers the messages sent, in order, once | `MessageParser` refines it |
| `MessageParser` | `MessageParser<>` with both accumulation strategies and its input handlers | `MCMessageParser`, `MessageParserProofs` |
| `Client` | the loops of the client, its receiver, timer, signals, `PacketTimes` | `MCClient`, `ClientProofs` |
| `ClientStatistics` | `client_statistics` over every table of times | `MCClientStatistics`, `ClientStatisticsProofs` |
| `Server` | server threads and connection tables | `MCServer`, `ServerProofs` |
| `Multiplexer` | abstract: a round visits what is registered and ready, once | `IoHandlers` refines it |
| `IoHandlers` | the handlers under `doLoop` | `MCIoHandlers`, `IoHandlersProofs` |
| `CalcGaps` | `SwitchOnCalcGaps` | `ServerMessages` |
| `ServerMessages` | `handle_message` and `msg_sendto` of the server, composed with `CalcGaps` | `MCServerMessages`, `ServerMessagesProofs` |
| `Options` | command line and playback file to `s_user_params` | `Bringup` |
| `Bringup` | `bringup`, feed file, memberships, ring of sockets, limits | `MCBringup`, `BringupProofs` |

The `MC` modules only give constants their values; a `...Proofs` module holds the
inductive invariant, lemmas and theorems about its component, checked by TLAPS.

### MessageParser

A byte is its position in the stream, a memory cell holds a byte and the byte
order it is in; so "the header is whole, in place and converted once" can be
said without modelling contents.  `ReceivePendingData` is a read of any size the
kernel or the library may return; `ProcessChunk` has one disjunct for each of the
numbered cases of `process_chunk`; `HandleAccepts` and `HandleRefuses` are the
call of `handle_message` and what follows it; `Return` is the end of
`process_buffer`, where a message left over is started.  `Strategy` chooses
between `InPlaceAccumulation` (recvfrom: the pending message stays where it is,
and the next read goes behind it) and `BufferAccumulation` (zero-copy and
socketxtreme: packets owned by the library, the pending message is copied).

### Client

`pc` is the main thread.  `initBeforeLoop` comes first: `ConnectSocket`, or
`StartConnect` and `ConnectCheck` where sockets do not block, for one socket of
the ring after the other; then `Warmup`, `StartReceiver` and `StartTimer`.  Any of
it may fail and end the client.  The loop follows: `StartBurst`, `StampRequest` (number and send time are
stored), `SetHeaderToNetwork`, `SendTo`, `SetHeaderToHost` (back to host order, or
the send is taken back), `EndBurst`, then in ping-pong `ReceiveDone` and the
observation of a number based test.  `rpc` is the code that receives: a thread of
its own in under-load and playback, the main thread in ping-pong.  Every step of
a thread that another may see in between is an action; the swapped request
header is visible between two of them.  `replies` holds what the servers
answered: a datagram may be lost, duplicated and reordered, a stream may not.
A wait is two steps: `EnterWait` looks at `g_b_exit`, and then the thread is blocked
until something arrives (`Receive`) or a signal interrupts it (`Signal`).  A signal
that comes between the two only sets the flag; a thread whose multiplexer has a
`--timeout` comes back by itself (`WaitTimeout`, `limitedWait`), and one in
`recvfrom()` does not.  Time is a clock that advances with each reading.  The
interval timer is armed or off: when it expires is up to the model, and it expires
once.

### ClientStatistics

The table of times is any table the client can leave: send times in order up to
the last request, replies after their requests, some missing.  `RecordLate` is
the receiver, which may record one more reply while the report is computed.
`sendCount` may lie beyond the table's last block, where asking for its send time
ends the program (`Begin`).
One action per way through the loop of `client_statistics`.

### Server

The kernel's side (descriptors, backlogs, unread messages) and the server's side
(`g_fds_array`, `active_fd_list`, the set waited for) are separate variables.  A
round of `doLoop` takes the ready descriptors one by one; `Accept` and `Install`,
and `CloseIfd` and `FreeIfd`, are two steps each, because between `accept()` and
the table, and between `close()` and the table, other threads run.  `accept()`
returns any free descriptor, so closed ones come back at once.  `FreeIfd` goes
through the record of its number: when another thread has reused and freed that
number in the meantime there is none, and the server crashes (`Freed`).
`ReplyShutdown` and `CloseAgain` are a reply that meets a connection shut down:
`handle_message` closes it, and its caller closes it a second time.

`mpc` and `mi` are the main thread of a server with `--threads-num`: it creates
the threads one by one (`CreateThread`, `StoreTid`), sleeps until a signal wakes
it, signals each thread and joins it.  A thread looks at `g_b_exit` in `EnterWait`
and waits in `WaitArrival`: a signal in between is lost, and only a limited wait
(`select_timeout`) looks again.  `sameTid` says whether what `gettid()` returns is
ever equal to a `pthread_t`, which differs between systems.

### IoHandlers

One thread under `doLoop`: a `Wait...` action for each `waitArrival`, then `Skip`
or a visit (`Receive`, `ReadAgain`, `Accept`, `CloseIfd`) for each index of
`m_look_start .. m_look_end - 1`, and an `Update...` action for each `update`.
What the handler keeps (`interest`, `mp_poll_fd_arr`, the range of `IoRecvfromMUX`)
and what the kernel returned (`m_readfds`, `events`) are separate from the connections the
server knows (`active_fd_list`); that they are brought together in time is the
question.  The order in which `IoPoll::update` appends the connections is any order,
which covers that of the code.  `Remaining`, what the rest of a scan will visit, is the refinement
mapping to `Multiplexer`.

### ServerMessages and CalcGaps

One client, one server thread.  `Receive` is the call of `handle_message`; each of
its returns is an action (`Refuse`, `HandleWarmup`, `DontReply`, `HandleRequest`,
`ExecuteGaps`).  `SendSome` is one system call of `msg_sendto` and takes
any number of bytes there is room for; `SendSkipped`, `SendInterrupted`, `SendShutdown` and
`SendError` are its other ends.  `wire` is the stream of reply bytes as the client
will read it.  `CalcGaps` holds `execute()` for the two kinds of messages; the
network and the restarts of clients are the environment.  `first` and `inOrder`
are kept for the properties only.

### Options and Bringup

A command line is a mode and a function from options to values; a number is
what `strtol` makes of the text.  Every conflict and limit the functions check is
in the `...Refused` operators.  Options that no decision depends on are one
option of each table, accepted or refused.  `Bringup` continues with the values:
one action for what may become of a line of the feed file (refused, skipped as a
duplicate, joined to a socket of its port, given a socket, failed), the end of
the file, the checks and the sizes.  The list `memberships_addr` is kept apart
from the groups the kernel has joined (`KernelJoins`), which refuses a group a
second time and more groups than its limit.  A playback file is a sequence of
lines: comments, lines that do not parse, and items whose time or size may be
refused.  Numbers keep their 32 bits where products
are formed; the width is a constant (`UINT32_MAX`), scaled down for TLC.

## 4. Runs

Each row: what is asked, and why the bounds are large enough for it.

| Run | Question | Bounds |
|---|---|---|
| `ParserInPlace` | In the socket's own buffer: messages are delivered as sent, nothing is read outside the buffer, the asserts hold, `MessageStream` is implemented, and no complete message waits. | Header 3, buffer 2 x 6, 13 bytes sent in lengths 3, 4, 7 (the largest accepted) and 8 (too large): cuts inside the header and the body, several messages per read, and a message across two reads all occur. |
| `ParserBuffer` | `MessageStream` is implemented for packets of the library and two connections that share the parser. | Header 2, packets of up to 5 bytes, 8 bytes per connection: each may have a message pending while the other is processed. |
| `ClientTest` | Nothing is sent before all sockets are connected, times in the table belong together, the table is dense, ping-pong stays in lockstep, a number based test sees its target, and tests end. | Nine settings: under-load in bursts with skips, two multicast servers, bursts over two connections made without blocking, timed bursts with skips and a limited wait, number based over a stream (one at a time, in bursts, with skips and a limited wait) and over datagrams, playback with skips. Up to 6 messages, 2 skips, 1 duplicate: a skip may hit the first, a middle or the last message of a burst, and the second connection may fail. |
| `ClientNoLimit` | *violated*, see 5. | |
| `ClientByteOrder` | *violated*, see 5. | |
| `Statistics` | Nothing is written beyond the array, the duration does not wrap around, each round trip time is reported at its place and the others are counted, and the report is reached. | Every table of times up to 4 with up to 5 requests answered, in a timed test, a number based one and a playback, with replies recorded late and last messages beyond the table. |
| `ServerServes` | The tables agree between rounds, `update()`'s asserts hold, threads do not share a descriptor, one thread closes a descriptor once, the main thread ends last; everything sent is read, everyone waiting is accepted or refused, threads end. | Two listening sockets, 2 connection descriptors, 3 connections of a single thread with and without TLS, 2 of two threads with TLS and with threads that find themselves: descriptors run out and are reused. |
| `ServerReuse` | *violated*, see 5. | |
| `ServerMessages` | Replies on the wire are whole and in order; each number that did not come in order is counted once; no gap without a loss; a send ends. | Replies of 3 bytes and room for 4, so that the second is cut; 4 messages, 1 duplicate, 1 restart; eight settings of stream, ordered and unordered networks, unicast and multicast, with skips, with replies to every message or some, and without replies. |
| `IoHandlers` | A round visits what was ready, once, and nothing closed; scans find a record for what they visit, count what is left and stay in their arrays; what is ready is visited in the end. | All six handlers; 1 to 3 sockets with one free descriptor below and one above them, so that connections lie on both sides and descriptors are reused within a round. |
| `Bringup` | The ring visits each socket once, no endpoint has two sockets, the list of memberships is not overrun, settings are sound, messages fit buffers, the table holds the test. | Command lines of all modes, with values below, at and above each limit; all feed files of up to 3 lines of 7 kinds, of 4 lines of 4 groups with room for 2 memberships, and one of 5 that exceeds `max_fds_num`; all playback files of up to 3 lines of 7 kinds. |
| `FeedFile` | *violated*, see 5. | |

Symmetry is not used: the sets that would allow it have one or two members.
`CHECK_DEADLOCK FALSE` is set where the program ends (tests that are over, a
server told to exit, streams that were closed).

Fairness.  *Parser*: the thread that received bytes processes them (weak), and
its multiplexer returns to a connection that has something to read (strong: the
connection may be closed to it while it serves another).  *Client*: both
threads run, which includes the end of a limited wait, and an armed timer expires
(weak); a stream delivers what is sent (strong: the thread may be between two
waits); nothing is assumed of datagrams, of the peer or of the user.  *Server*: every
thread and the main thread run, which includes the end of a limited wait (weak);
nothing is assumed of clients, and none of a wait without limit.  *Handlers*: the
thread runs (weak).  *ServerMessages*: the thread runs, and a client that is
connected reads (weak); without the latter `msg_sendto` may repeat its send for
ever.

Every property of a passing run has a mutant, an operator marked `Mutant` in the
module that changes the code's behaviour in a plausible way (a dropped reset, an
off-by-one, a count taken twice); with it TLC finds the property violated.

## 5. Where code and claims part

Four runs show the code doing what a comment, an assert or the manual excludes:

- `ClientNoLimit`: the time limit of a number based test is truncated to whole
  seconds; below one second the timer is disarmed instead, and a lost reply is
  waited for without limit (`client.cpp:92`).
- `ClientByteOrder`: the receiver thread compares a reply with the request's
  sequence number, which the sender has in network byte order between the swap
  and the swap back; the assert of `getSequenceCounter()` fails (`client.h:250`).
- `ServerReuse`: a thread closes a descriptor before it clears its record;
  another accepts the same number in between, and its record is the one cleared
  (`server.h:243`).
- `FeedFile`: the search for duplicates compares addresses without the protocol
  and accepts any socket of the line's protocol and port as evidence; after
  `T:a:5` and `U:b:5`, the line `U:a:5` gets no socket (`sockperf.cpp:3320`).

Seen while modelling, and left out of the properties by name instead of a run:

- A number based ping-pong over a stream with `--tcp-skip-blocking-send` waits for
  the reply to every message of its burst, the skipped ones included
  (`client.h:374`).  Before the end of the warm-up no timer is armed: it waits for
  ever.  `Ends` asks for the end of a number based test only if all messages are
  sent and answered (`AllAnswered`) or the user interrupts; the setting is in the run.
- The timer and Ctrl-C are one signal each (`client.cpp:64`).  A ping-pong client
  that gets it between its look at `g_b_exit` (`client.h:375`) and a wait without
  limit goes on waiting if a reply was lost or skipped.  The `recvfrom` handlers have
  no limited wait whatever `--timeout` says; `Ends` and, for the server, `ThreadsEnd`
  ask for a limited wait, or, in `Ends`, for replies to everything.
- Of two replies in the wrong order the report calls the one that came early, of the
  later request, out of order, and not the late one (`client.cpp:505`).  Replies to
  three requests received at times 10, 5 and 6 are two out of order, although one
  reply was late.  `ReportCorrect` takes this reading (`Overtakes`), and says of any
  reading only that the count is zero if and only if all came in order.
- A number based test counts one observation for each burst, while its table is made
  for one message for each (`sockperf.cpp:3742`): `-n 60000000 -b 2` ends with
  "exceeded".  `TableHoldsTest` is about bursts of one.
- `client_statistics` asks for the send time of the last message, which ends the
  program when that message lies beyond the table (`client.cpp:438`;
  `StatisticsPrinted` excludes it).
- A playback with a reply out of order fills its table; the statistics ask for
  the entry after the last and the program exits without a report
  (`client.cpp:474`; `StatisticsPrinted` excludes playback).
- After a failed TLS handshake the refusal reads a record it has given away
  (`server.cpp:332`; the action `RefuseTls` ends the server).
- The start-up timer stores milliseconds in `tv_usec` (`client.cpp:62`), and
  `tls_init` overwrites the error of a failed `os_daemonize`
  (`sockperf.cpp:3590`).
- `--recv_looping_num` other than 1 has no effect (`sockperf.cpp:2075`).
- `MPS_MAX_PP * burst_size` wraps around in 32 bits (`sockperf.cpp:1068`;
  `TableHoldsTest` excludes such bursts).
- `IoRecvfromMUX` also looks at accepted connections, whose record has no
  `active_fd_list` (`server.cpp:268`); the assert on it in `analyzeArrival`
  (`iohandlers.h:155`) fails in a debug build and is without effect in others.
  `ScanSafe` leaves it out.
- `IoSelect` sets descriptors in a fixed `fd_set` without a check
  (`iohandlers.h:184`, `195`); `ScanSafe` is about the arrays of poll and epoll.
- After `ServerReuse`, the thread whose record was cleared goes through a null
  pointer when it closes its connection (`server.h:247`; `Freed`).
- `sock_set_multicast_v6` overwrites the result of an unsupported `--tx-mc-if`
  (`sockperf.cpp:2938`), and `prepare_socket` shadows that of
  `register_recv_callback`: both failures go unnoticed.
- A line that repeats a group already *joined* is not taken for a duplicate, and
  the kernel's refusal to join it again ends the program (`sockperf.cpp:3308`).
- `memberships_addr` has no check of its limit (`sockperf.cpp:3357`).  Where the
  kernel's own limit does not stop it first (lines with several sources, a group
  that joins a unicast socket, IPv6, a throughput client) it is overrun;
  `MembershipsFit` excludes these lines.
- A server that does not reply returns from a pong request before the gap detection
  (`server.h:342`).  With `reply_every` above 1 the next message finds the pong
  request's number missing, and `--dont-reply` reports it as dropped; with 1 no
  message reaches the gap detection.  `NoFalseGap` excepts exactly these numbers.
- `msg_sendto` repeats a send without a look at `g_b_exit` while the peer does not
  read (`common.h:146`).
- With `--timeout -1` a signal between the look at `g_b_exit` and the wait is
  lost, and the main thread joins for ever (`server.cpp:596`; `ThreadsEnd` is
  about limited waits).
- No option table contains the option for the number of servers a client works
  with, so it is always 1; bridge mode cannot be reached either.

## 6. Proofs

Seven modules, one per component, hold 36 theorems; `PROJECT.json` lists each with
the property it states.  All are of the form `Spec => []P`, but for the two
refinements.  No property is inductive as it stands; each module states `IInv`, a
conjunction of named parts with a comment each, proves `Init => IInv`, `IInv /\
[Next]_vars => IInv'` with a lemma per action, and `IInv => P`.  Each `IInv` was first
model-checked on the run of its component.

### MessageParserProofs

`MessageParserProofs` holds for every size of header, buffer and packet, every
set of connections and of message lengths, and both strategies:

| Theorem | States |
|---|---|
| `Invariance` | `IInv` is an invariant |
| `TypeCorrect` | types; no byte count becomes negative |
| `DeliversInOrder` | the handler gets the messages sent, in order, once, whole |
| `ClosesForAReason` | a connection is closed as invalid only in front of a message that is too large |
| `AssertsHold` | the asserts of `InPlaceAccumulation` hold |
| `StaysInBuffer` | nothing is read or copied outside the buffer |
| `Refinement` | the parser implements `MessageStream` |

Assumptions: `SizeAssumption` (a header has a size, the buffer's half holds a
header, and a message may be at most one byte larger than `MAX_PAYLOAD_SIZE`,
which is how `bringup` sets `ms_maxSize` without an API),
`StrategyAssumption`, and `LengthsAssumption` (a peer sends no message shorter
than a header, as sockperf's own check of `-m` guarantees).

None of the properties is inductive: they speak of what was delivered, and what
will be delivered depends on what lies in memory.  `IInv` adds where each byte
is.  For a connection not being processed (`IdleInv`), the first `cur_offset`
bytes of its next message lie at `cur_addr`, in network order while the header
is incomplete and with the header in host order after (`PendingInv`), and
`cur_size` is what is missing, or keeps the next read in the first half of the
buffer.  For the connection being processed, the rest of the chunk continues the
stream where the pending bytes end, in network order (`RestInv`, `LoopInv`); when
the handler is called, the message object points at a complete message with its
header in host order (`HandleInv`).  The second half of the buffer is needed
because an incomplete message may begin anywhere in the first; `PendingInv`'s
`Home(c) < MAX_PAYLOAD_SIZE` is what bounds it.

The proof has one lemma per action (`HeaderIncompleteStep`,
`MessageCompleteStep`, ...), each under the frame lemmas for the connections an
action does not touch; `Positions`, `LengthRead` and `ChunkBytes` are the facts
about streams and memory they share.

### ClientProofs

For every number of sockets and servers, every burst, table and `reply_every`, any
number of skipped sends and duplicated replies, in all modes: `TypeCorrect`,
`SendsOnlyConnected`, `NoNegativeLatency` (`RxAfterTx`), `TableComplete`
(`TxTable`), `BurstsInLockstep`, `TargetObserved`.

What has to be added to the properties: every reply under way answers a request
whose time is in the table (`ReplyInv`), although a later send may be taken back;
the table is filled up to the last number, except in the two steps in which a number
is given or taken back (`TableInv`); and over a stream the replies, the receive
counter and the entries of the table count the same messages (`InOrder`, `BurstInv`,
`CountInv`).  Where a signal finds the waiting thread makes no difference to these.

### ClientStatisticsProofs

For tables of every size: `TypeCorrect`, `NoOverrun` (`ArrayBound`), `DurationValid`,
`CountsRight` (`ReportCorrect`), `ReportReached` (`StatisticsPrinted`).  The loop
has counted the blocks of the measured interval that it has passed (`CountInv`), and
what ends the loop at one block would end it at every later one.  That each round
trip time lies at its place is carried along with the counts (`HasRoundTrip`), and
that there is none out of order if and only if all replies came in order is a fact
about `Overtakes` (`OrderIs`).  A reply recorded
during the loop makes `g_receiveCount` exceed the array's size for good, so that the
bound is the loop's own test and not the count.

### ServerProofs

For every number of threads, listening sockets and descriptors: `TypeCorrect`,
`UpdatesSound` (`UpdateAsserts`), `TablesConsistent` (`TablesAgree`),
`NoSharedDescriptor`, `NeverClosedTwice` (`ClosedOnce`), `MainReturnsLast`.  The
shares `find_min_max_fds` deals out are disjoint and a list is changed by the thread
that has its socket only (`OwnInv`, `PlaceInv`).  A connection is live when it is on a
list and not closed yet; live connections are open and of one socket, and what the
kernel hands out is not live (`LiveInv`).  Records, which all threads write, follow
the lists only so far (`RecordInv`): that is what the run `ServerReuse` shows.

### ServerMessagesProofs

For every size of a reply, room in the buffer and number of messages: `TypeCorrect`,
`RepliesWhole` (`ReplyStream`), `DropsCountedOnce` (`DropsCounted` of `CalcGaps`),
`NoGapInvented` (`NoFalseGap`).  That no gap is invented needs the order of the
network: the message in hand is the oldest (`OrderInv`), what was sent after a pending
message is pending too (`SuffixInv`), and every number sent is pending, passed or
forgotten as a pong request (`CoverInv`).

### IoHandlersProofs

For every range of sockets, every set of free descriptors and all six handlers:
`ScansAreSafe` (`ScanSafe`) and the refinement `HandlersMultiplex`
(`Multiplexes`).  What a handler keeps agrees with the connections only while
`do_update` is not set (`HandlerInv`); a scan goes on with what is old.  It is right
because the indices still to come lead to different descriptors, all of which have a
record (`ScanInv`): only the descriptor being visited is closed, and one that is
accepted in its place is not among those to come.  `IoRecvfrom` needs one more fact:
its connection lies in the first place of the list, the only one `analyzeArrival`
looks at (`ListInv`), because it does not visit a listening socket that has one.

### BringupProofs

For every set of command lines, feed files and playback files and every value of the
limits: `RingComplete` (`RingCovers`), `EndpointsUnique` (`NoDuplicateSockets`),
`MembershipsBounded` (`MembershipsFit`), `SettingsReach` (`SettingsSound`),
`BuffersSuffice` (`MessageFits`), `TableSuffices` (`TableHoldsTest`: timed tests, and
number based ones without bursts).  `OptionsInv`
keeps from stage to stage what the tables of the mode allow and what each function
refused.  `SocketsInv` knows the sockets by number: nothing is closed during
bring-up, so the kernel's lowest free number is the next one and the ring follows the
numbers.  `RingVisits` is about the recursive function `Walk`: its definition is
satisfied by the walk along the numbers, and two functions that satisfy it are equal
by the least number at which they would differ.

### Assumptions

| Assumption | Why the code justifies it |
|---|---|
| `SizeAssumption`, `StrategyAssumption`, `LengthsAssumption` | above |
| `SettingsAssumption` of `Client` | the options refuse the rest (`SettingsSound`); `servers` are addresses other than the markers `"self"` and `"none"`, and there is one unless the group is multicast |
| `StatisticsAssumption` | a number based test is a ping-pong, whose `reply_every` is 1, and has a table larger than its warm-up and its target, whatever the burst (`sockperf.cpp:3742`); the cooldown is a constant above 0 (`defs.h:177`) |
| `ServerAssumption`, `HandlerAssumption`, `BringupAssumption` | nothing is closed before the loops, so sockets are consecutive; descriptor 0 is the standard input; `max_fds_num` exceeds what can be opened |
| `MessagesAssumption` | a connection belongs to one start of a client, so a stream sees no restart |
| `LimitsAssumption` | the order of the constants in `defs.h` and `playback.h:38` |
| `CommandLinesAssumption` | a numeric option is what `strtol` returns, an integer |

### What the proofs changed

- Descriptor 0 would be taken for "nothing arrived" in `doLoop`; `Server` now says
  that its sockets are above the standard input, as the other modules do.
- `Reversed`, a sequence number read in the wrong byte order, is now a number whose
  block lies beyond the table for every `reply_every`, as in the code's 64 bits.
- `server_addr` is compared with its family: an IPv4 and an IPv6 endpoint of the same
  name are not duplicates.
- The poll array is no longer sorted, which the code does not do.

### Only model-checked

- Liveness under fairness (`Delivery`, `Ends`, `WaitLimited`, `Served`,
  `ThreadsEnd`, `SendEnds`, `Visited`): not covered by the prover.
- The type invariants of `IoHandlers` and `Bringup` beyond what their `IInv` states:
  in `Bringup` it would need the length of what `SelectSeq` leaves of a file, which is
  an induction over data.
- The violated properties of section 5.

## 7. Not modelled

- Ticks and clocks: floating point calibration against hardware counters.
- Percentiles, deviation, histogram, output text: arithmetic over the array that
  `ClientStatistics` fills.
- TLS beyond success and failure of a handshake: records belong to OpenSSL.
- Address resolution; the system layer and the VMA/XLIO redirection, which are
  wrappers without decisions.
- `IoSocketxtreme` and the zero-copy calls themselves: their rings and packets are
  the library's.  What the parser does with such packets is in `MessageParser`.
- Socket options: of `prepare_socket` the multicast joins are modelled, the rest
  succeeds or fails as a whole.
- The throughput mode's loop: it sends and records nothing.  Its options and
  sockets are in `Options` and `Bringup`.
- `cleanup()`, which runs when nothing else does; the scanning of the options'
  text, which is string processing: `Options` starts from the options found.
- Pacing of messages and dummy sends: they change when, not what, is sent.
- Concurrent access to the map of gap sessions by several server threads is
  undefined behaviour as a whole; `ServerMessages` has one thread.
