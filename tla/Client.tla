------------------------------- MODULE Client -------------------------------
(***************************************************************************)
(* The sockperf client (client.h, client.cpp, packet.h, the pong modes of  *)
(* switches.h): a sender that stamps and sends numbered requests, a        *)
(* receiver that matches the replies with them, and the table of send and  *)
(* receive times, PacketTimes, from which the latencies are computed.      *)
(* Before that, initBeforeLoop() binds and connects the sockets, warms up, *)
(* starts the receiver thread and arms the timer.                          *)
(*                                                                         *)
(* In "ping-pong" mode the main thread sends a burst and then receives the *)
(* replies itself; in "under-load" and "playback" mode a second thread     *)
(* receives while the main thread sends.  Both share, without a lock, the  *)
(* header of the request m_pMsgRequest, PacketTimes and the flag g_b_exit. *)
(*                                                                         *)
(* A time is a reading of a clock that advances with every reading; 0 is   *)
(* TicksTime::TICKS0, "never".                                             *)
(***************************************************************************)
EXTENDS Integers, FiniteSets, Sequences

CONSTANTS Settings,     \* what s_user_params and the environment may be
          MaxSkips,     \* bound: sends skipped
          MaxCopies     \* bound: duplicated replies

\* A setting is one the program can be started with: see proc_mode_ping_pong()
\* and its siblings, and bringup().
ASSUME SettingsAssumption ==
    \A s \in Settings :
        /\ s.mode \in {"ping-pong", "under-load", "playback"}
        /\ s.measurement \in {"TIME_BASED", "NUMBER_BASED"}
        /\ s.measurement = "NUMBER_BASED" => s.mode = "ping-pong"
        /\ s.mode = "ping-pong" => s.reply_every = 1
        /\ s.network \in {"stream", "datagram"}
        /\ s.multicast \in BOOLEAN /\ s.nonblocked \in BOOLEAN
        /\ s.multicast => s.network = "datagram"
        /\ s.sockets \in Nat \ {0} /\ s.is_blocked \in BOOLEAN /\ s.limitedWait \in BOOLEAN
        /\ s.sockets > 1 /\ s.network = "stream" => s.mode = "ping-pong"
        /\ s.reply_every \in Nat \ {0} /\ s.burst_size \in Nat \ {0}
        /\ s.maxSequenceNo \in Nat /\ s.waitingCaps \subseteq Nat
        /\ s.warmup_num \in Nat /\ s.number_test_target \in Nat /\ s.cooldown_num \in Nat
        /\ s.servers \cap {"self", "none"} = {}
        /\ ~s.multicast => \E a \in s.servers : s.servers = {a}

ASSUME BoundsAssumption == MaxSkips \in Nat /\ MaxCopies \in Nat

VARIABLES
    s_user_params,  \* the setting of this run
    seq, order,     \* the header of m_pMsgRequest: sequence number, byte order
    tx, rx,         \* PacketTimes: send and receive time, by block
    dup,            \* PacketTimes: duplicates
    g_receiveCount, g_skipCount, g_b_exit,
    clock,
    timer,          \* the interval timer: "off" or "armed"
    fd, connected,  \* initBeforeLoop(): the socket at hand, those bound and connected
    m_receiverTid,  \* the receiver thread has been created
    pc, i, ret,     \* the main thread: where it is, its loop counter, and what
                    \* msg_sendto() returned
    seqNo, counterValid, prevRxTime,  \* locals of doSendThenReceiveLoop()
    rpc, reply,     \* the receiving code: where it is, and the reply at hand
    replies,        \* replies the servers sent that may still arrive
    copies          \* duplicates delivered so far

header == <<seq, order>>
initVars == <<fd, connected, m_receiverTid>>
times == <<tx, rx, dup, g_receiveCount, clock>>
loopVars == <<seqNo, counterValid, prevRxTime>>
receiver == <<rpc, reply>>
network == <<replies, copies>>
vars == <<s_user_params, seq, order, tx, rx, dup, g_receiveCount, g_skipCount, g_b_exit, clock, timer,
          fd, connected, m_receiverTid, pc, i, ret, seqNo, counterValid, prevRxTime, rpc, reply, replies, copies>>

-----------------------------------------------------------------------------
Mode == s_user_params.mode                \* "ping-pong", "under-load" or "playback"
Measurement == s_user_params.measurement  \* -n gives "NUMBER_BASED"
Network == s_user_params.network  \* "stream": reliable, in order; "datagram": neither
Servers == s_user_params.servers  \* the addresses replies come from
Multicast == s_user_params.multicast
reply_every == s_user_params.reply_every
burst_size == s_user_params.burst_size
maxSequenceNo == s_user_params.maxSequenceNo  \* the table holds the requests up to this one
warmup_num == s_user_params.warmup_num
number_test_target == s_user_params.number_test_target
cooldown_num == s_user_params.cooldown_num
WaitingCaps == s_user_params.waitingCaps  \* seconds set_client_expiration_timer() may compute
Sockets == 1 .. s_user_params.sockets     \* in the order of their descriptors
is_blocked == s_user_params.is_blocked
NonBlocked == s_user_params.nonblocked    \* is_nonblocked_send: a send may be skipped

\* A wait for replies ends after a while without one: select(), poll() and
\* epoll_wait() with a --timeout, and recvfrom() on a non-blocking socket.  The
\* default, recvfrom() on a blocking socket, waits as long as it takes.
LimitedWait == s_user_params.limitedWait

\* PacketTimes::seq2index(): one block for every pong request.
Block(s) == s \div reply_every

Blocks == 0 .. Block(maxSequenceNo)

\* The pong modes: PongModeAlways for reply_every = 1, PongModeNormal else.
Pong(s) == s % reply_every = 0

\* The sequence number m_pMsgRequest->getSequenceCounter() returns.  While the
\* header is in network byte order that is the number with its bytes reversed,
\* larger than any sequence number in use: those that get no reply may go
\* beyond maxSequenceNo, up to the next one that does.
Reversed == maxSequenceNo + reply_every
SequenceCounter == IF order = "host" THEN seq ELSE Reversed

\* exit(): both threads are gone.  The reason stays in pc.
Errors == {"failed", "exceeded", "unexpected", "closed", "timeout"}
Running == pc \notin Errors \cup {"done"}

NoReply == [seq |-> 0, from |-> "none"]

\* Who the client hears from after request s: the servers answer a pong request,
\* and multicast loops every message back to the client itself.
Senders(s) == (IF Pong(s) THEN Servers ELSE {}) \cup (IF Multicast THEN {"self"} ELSE {})

Init ==
    /\ s_user_params \in Settings
    /\ seq = 0 /\ order = "host"
    /\ tx = [b \in Blocks |-> 0]
    /\ rx = [b \in Blocks |-> 0]
    /\ dup = 0
    /\ g_receiveCount = 0 /\ g_skipCount = 0 /\ g_b_exit = FALSE
    /\ clock = 0
    /\ timer = "off"
    /\ fd = 1 /\ connected = {} /\ m_receiverTid = FALSE
    /\ pc = "init" /\ i = 0 /\ ret = "none"
    /\ seqNo = 0 /\ counterValid = 0 /\ prevRxTime = 0
    /\ rpc = "wait" /\ reply = NoReply
    /\ replies = {} /\ copies = 0

-----------------------------------------------------------------------------
(***************************************************************************)
(* The main thread.  doHandler() calls initBeforeLoop(), which returns as  *)
(* if it had succeeded when the user has interrupted it, for the loop then *)
(* ends at once.  When it fails the program ends without a report.         *)
(***************************************************************************)
InitBeforeLoop ==
    /\ pc = "init"
    /\ pc' = IF g_b_exit THEN "loop" ELSE "connect"
    /\ UNCHANGED <<header, times, g_skipCount, g_b_exit, timer, initVars, i, ret, loopVars, receiver, network>>

\* A socket is bound if the client has an address to bind to, a stream is
\* connected, TLS established and the rate limited.
ConnectSocket ==
    /\ pc = "connect" /\ fd \in Sockets
    /\ connected' = connected \cup {fd}
    /\ fd' = fd + 1
    /\ UNCHANGED <<header, times, g_skipCount, g_b_exit, timer, m_receiverTid, pc, i, ret, loopVars, receiver,
                   network>>

\* connect() of a non-blocking stream is under way.
StartConnect ==
    /\ pc = "connect" /\ fd \in Sockets
    /\ Network = "stream" /\ ~is_blocked
    /\ pc' = "connecting"
    /\ UNCHANGED <<header, times, g_skipCount, g_b_exit, timer, initVars, i, ret, loopVars, receiver, network>>

\* Mutant: the loop over the sockets goes on after a connection has failed.
ConnectCheckGoesOn(ok) ==
    /\ pc = "connecting"
    /\ connected' = IF ok THEN connected \cup {fd} ELSE connected
    /\ fd' = fd + 1 /\ pc' = "connect"
    /\ UNCHANGED <<header, times, g_skipCount, g_b_exit, timer, m_receiverTid, i, ret, loopVars, receiver,
                   network>>

\* _connect_check(): the connection is there in time, or it is not.
ConnectCheck(ok) ==
    /\ pc = "connecting"
    /\ IF ok THEN connected' = connected \cup {fd} /\ fd' = fd + 1 /\ pc' = "connect"
             ELSE pc' = "failed" /\ UNCHANGED <<connected, fd>>
    /\ UNCHANGED <<header, times, g_skipCount, g_b_exit, timer, m_receiverTid, i, ret, loopVars, receiver,
                   network>>

SocketsReady ==
    /\ pc = "connect" /\ fd \notin Sockets
    /\ pc' = IF g_b_exit THEN "loop" ELSE "warmup"
    /\ UNCHANGED <<header, times, g_skipCount, g_b_exit, timer, initVars, i, ret, loopVars, receiver, network>>

\* prepareNetwork() and warmup(): multicast sockets send messages with the
\* number 0, which no server answers and the client itself hears.
Warmup ==
    /\ pc = "warmup"
    /\ replies' = IF Multicast THEN {[seq |-> 0, from |-> "self"]} ELSE {}
    /\ pc' = IF g_b_exit THEN "loop" ELSE "receiver"
    /\ UNCHANGED <<header, times, g_skipCount, g_b_exit, timer, initVars, i, ret, loopVars, receiver, copies>>

StartReceiver ==
    /\ pc = "receiver"
    /\ m_receiverTid' = (Mode # "ping-pong")
    /\ pc' = "timer"
    /\ UNCHANGED <<header, times, g_skipCount, g_b_exit, timer, fd, connected, i, ret, loopVars, receiver,
                   network>>

Timed == Measurement = "TIME_BASED" /\ Mode # "playback"

StartTimer ==
    /\ pc = "timer"
    /\ timer' = IF Timed THEN "armed" ELSE "off"
    /\ pc' = "loop"
    /\ UNCHANGED <<header, times, g_skipCount, g_b_exit, initVars, i, ret, loopVars, receiver, network>>

\* A bind, connection, rate, the preparation of the network, a warm-up message,
\* an affinity, the thread or the timer fails.  A thread that was created is
\* not stopped.
InitFails ==
    /\ \/ pc = "connect" /\ fd \in Sockets
       \/ pc \in {"warmup", "receiver"}
       \/ pc = "timer" /\ (m_receiverTid \/ Timed)
    /\ pc' = "failed"
    /\ UNCHANGED <<header, times, g_skipCount, g_b_exit, timer, initVars, i, ret, loopVars, receiver, network>>

\* The head of doSendThenReceiveLoop() and doSendLoop().  doPlayback() is one
\* burst that goes through the whole vector.
StartBurst ==
    /\ pc = "loop" /\ ~g_b_exit
    /\ i' = 0
    /\ pc' = "burst"
    /\ UNCHANGED <<header, times, g_skipCount, g_b_exit, timer, initVars, ret, loopVars, receiver, network>>

BurstLength == IF Mode = "playback" THEN maxSequenceNo ELSE burst_size

\* client_send_packet() up to setTxTime(): a pong request is stamped before it
\* is sent.  A sequence number the table has no place for ends the program.
StampRequest ==
    /\ pc = "burst" /\ i < BurstLength /\ ~g_b_exit
    /\ seq' = seq + 1
    /\ IF Pong(seq') /\ seq' > maxSequenceNo
       THEN pc' = "exceeded" /\ UNCHANGED <<tx, clock>>
       ELSE /\ pc' = "stamped"
            /\ clock' = IF Pong(seq') THEN clock + 1 ELSE clock
            /\ tx' = IF Pong(seq') THEN [tx EXCEPT ![Block(seq')] = clock'] ELSE tx
    /\ UNCHANGED <<order, rx, dup, g_receiveCount, g_skipCount, g_b_exit, timer, initVars, i, ret,
                   loopVars, receiver, network>>

SetHeaderToNetwork ==
    /\ pc = "stamped"
    /\ order' = "net"
    /\ pc' = "sending"
    /\ UNCHANGED <<seq, times, g_skipCount, g_b_exit, timer, initVars, i, ret, loopVars, receiver, network>>

\* Mutant: a message that did go out is reported as skipped.
SendToUnreported(r) ==
    /\ pc = "sending"
    /\ r = "skipped" => NonBlocked /\ g_skipCount < MaxSkips
    /\ r = "failed" => g_b_exit \/ Network = "datagram"
    /\ ret' = r
    /\ replies' = IF r # "failed"
                  THEN replies \cup {[seq |-> seq, from |-> a] : a \in Senders(seq)} ELSE replies
    /\ pc' = "sent"
    /\ UNCHANGED <<header, times, g_skipCount, g_b_exit, timer, initVars, i, loopVars, receiver, copies>>

\* ::msg_sendto() returns: the message went out whole; or nothing of it did,
\* because a non-blocking send would block, because of an error or a signal
\* while the program is exiting, or because a datagram socket reports its peer
\* gone.
SendTo(r) ==
    /\ pc = "sending"
    /\ r = "skipped" => NonBlocked /\ g_skipCount < MaxSkips
    /\ r = "failed" => g_b_exit \/ Network = "datagram"
    /\ ret' = r
    /\ replies' = IF r = "sent"
                  THEN replies \cup {[seq |-> seq, from |-> a] : a \in Senders(seq)} ELSE replies
    /\ pc' = "sent"
    /\ UNCHANGED <<header, times, g_skipCount, g_b_exit, timer, initVars, i, loopVars, receiver, copies>>

\* Any other error ends the program, as does a connection closed by the peer.
SendError ==
    /\ pc = "sending"
    /\ g_b_exit => Network = "stream"
    /\ g_b_exit' = TRUE
    /\ pc' = "closed"
    /\ UNCHANGED <<header, times, g_skipCount, timer, initVars, i, ret, loopVars, receiver, network>>

\* Mutant: the number is taken back before its send time is cleared.
SetHeaderToHostSwapped ==
    /\ pc = "sent"
    /\ order' = "host"
    /\ IF ret = "skipped"
       THEN /\ seq' = seq - 1
            /\ tx' = IF Pong(seq') THEN [tx EXCEPT ![Block(seq')] = 0] ELSE tx
            /\ g_skipCount' = g_skipCount + 1
       ELSE UNCHANGED <<tx, g_skipCount, seq>>
    /\ i' = i + 1
    /\ pc' = "burst"
    /\ UNCHANGED <<rx, dup, g_receiveCount, clock, g_b_exit, timer, initVars, ret, loopVars, receiver, network>>

\* The rest of the pong mode's msg_sendto() and of client_send_packet(): a
\* request that was skipped is forgotten, and its number used again.
SetHeaderToHost ==
    /\ pc = "sent"
    /\ order' = "host"
    /\ IF ret = "skipped"
       THEN /\ tx' = IF Pong(seq) THEN [tx EXCEPT ![Block(seq)] = 0] ELSE tx
            /\ g_skipCount' = g_skipCount + 1
            /\ seq' = seq - 1
       ELSE UNCHANGED <<tx, g_skipCount, seq>>
    /\ i' = i + 1
    /\ pc' = "burst"
    /\ UNCHANGED <<rx, dup, g_receiveCount, clock, g_b_exit, timer, initVars, ret, loopVars, receiver, network>>

\* The burst is over: ping-pong receives, playback sets g_b_exit.
EndBurst ==
    /\ pc = "burst"
    /\ i = BurstLength \/ g_b_exit
    /\ g_b_exit' = (g_b_exit \/ Mode = "playback")
    /\ i' = 0
    /\ pc' = IF Mode = "ping-pong" THEN "receive" ELSE "loop"
    /\ UNCHANGED <<header, times, g_skipCount, timer, initVars, ret, loopVars, receiver, network>>

\* Mutant: any reply ends the burst.
ReceiveDoneFirst ==
    /\ pc = "receive" /\ rpc = "wait"
    /\ i > 0 \/ g_b_exit
    /\ pc' = IF Measurement = "NUMBER_BASED" THEN "validate" ELSE "loop"
    /\ UNCHANGED <<header, times, g_skipCount, g_b_exit, timer, initVars, i, ret, loopVars, receiver, network>>

\* client_receive_burst() has what it waits for, or the test is over.
ReceiveDone ==
    /\ pc = "receive" /\ rpc = "wait"
    /\ i >= burst_size \/ g_b_exit
    /\ pc' = IF Measurement = "NUMBER_BASED" THEN "validate" ELSE "loop"
    /\ UNCHANGED <<header, times, g_skipCount, g_b_exit, timer, initVars, i, ret, loopVars, receiver, network>>

(***************************************************************************)
(* The body of the number based loop: the next packet is looked at, if one *)
(* was recorded, and counted if it is a valid observation.                 *)
(***************************************************************************)
\* Mutant: warm-up and cool-down are forgotten.
stopCountingEarly == number_test_target

stopCounting == warmup_num + number_test_target + cooldown_num

Observation(s) == s \in Blocks /\ tx[s] # 0 /\ rx[s] # 0 /\ tx[s] >= tx[1] /\ rx[s] >= prevRxTime

NothingRecorded ==
    /\ pc = "validate" /\ g_receiveCount = seqNo
    /\ pc' = "loop"
    /\ UNCHANGED <<header, times, g_skipCount, g_b_exit, timer, initVars, i, ret, loopVars, receiver, network>>

SkipObservation ==
    /\ pc = "validate" /\ g_receiveCount # seqNo
    /\ ~Observation(seqNo + 1)
    /\ seqNo' = seqNo + 1
    /\ pc' = "loop"
    /\ UNCHANGED <<header, times, g_skipCount, g_b_exit, timer, initVars, i, ret, counterValid,
                   prevRxTime, receiver, network>>

\* Mutant: the timer waits for one packet too many.
TimerAfterLate(n, cap) ==
    IF n = stopCounting THEN "off"
    ELSE IF n = warmup_num + 1 THEN (IF cap > 0 THEN "armed" ELSE "off")
    ELSE timer

\* After the warm-up the expiration timer is set to a number of whole seconds,
\* where 0 means that it stays off; after the last packet it is disarmed.
TimerAfter(n, cap) ==
    IF n = stopCounting THEN "off"
    ELSE IF n = warmup_num THEN (IF cap > 0 THEN "armed" ELSE "off")
    ELSE timer

CountObservation(cap) ==
    /\ pc = "validate" /\ g_receiveCount # seqNo
    /\ Observation(seqNo + 1)
    /\ seqNo' = seqNo + 1
    /\ prevRxTime' = rx[seqNo + 1]
    /\ counterValid' = counterValid + 1
    /\ timer' = TimerAfter(counterValid', cap)
    /\ g_b_exit' = (g_b_exit \/ counterValid' = stopCounting)
    /\ pc' = "loop"
    /\ UNCHANGED <<header, times, g_skipCount, initVars, i, ret, receiver, network>>

LeaveLoop ==
    /\ pc = "loop" /\ g_b_exit
    /\ pc' = "cleanup"
    /\ UNCHANGED <<header, times, g_skipCount, g_b_exit, timer, initVars, i, ret, loopVars, receiver, network>>

\* cleanupAfterLoop(): the statistics are printed (ClientStatistics), whether
\* the receiver thread has stopped or not.
Cleanup ==
    /\ pc = "cleanup"
    /\ pc' = "done"
    /\ UNCHANGED <<header, times, g_skipCount, g_b_exit, timer, initVars, i, ret, loopVars, receiver, network>>

-----------------------------------------------------------------------------
(***************************************************************************)
(* client_receive(): run by the receiver thread, or by the main thread in  *)
(* client_receive_burst().                                                 *)
(***************************************************************************)
Receiving == IF Mode = "ping-pong" THEN pc = "receive" /\ i < burst_size ELSE m_receiverTid

\* A reply arrives.  Over datagrams in any order, and perhaps again later.
Arrives(m) ==
    /\ m \in replies
    /\ Network = "stream" => \A o \in replies : m.seq <= o.seq

\* A look at g_b_exit, and on to waitArrival() and recvfrom().
EnterWait ==
    /\ rpc = "wait" /\ Receiving /\ ~g_b_exit
    /\ rpc' = "blocked"
    /\ UNCHANGED <<header, times, g_skipCount, g_b_exit, timer, initVars, pc, i, ret, loopVars, reply, network>>

\* Mutant: a wait that timed out is begun again without a look at g_b_exit.
WaitTimeoutAgain ==
    /\ rpc = "blocked" /\ LimitedWait
    /\ UNCHANGED vars

WaitTimeout ==
    /\ rpc = "blocked" /\ LimitedWait
    /\ rpc' = "wait"
    /\ UNCHANGED <<header, times, g_skipCount, g_b_exit, timer, initVars, pc, i, ret, loopVars, reply, network>>

Receive(m) ==
    /\ rpc = "blocked"
    /\ Arrives(m)
    /\ \/ replies' = replies \ {m} /\ UNCHANGED copies
       \/ /\ Network = "datagram" /\ copies < MaxCopies
          /\ copies' = copies + 1 /\ UNCHANGED replies
    /\ reply' = m
    /\ rpc' = "handle"
    /\ UNCHANGED <<header, times, g_skipCount, g_b_exit, timer, initVars, pc, i, ret, loopVars>>

\* The server closes the connection, which ends the program.
PeerCloses ==
    /\ rpc = "blocked"
    /\ Network = "stream"
    /\ g_b_exit' = TRUE
    /\ pc' = "closed"
    /\ UNCHANGED <<header, times, g_skipCount, timer, initVars, i, ret, loopVars, receiver, network>>

\* handle_message(): the reply must not be ahead of the request; it is dropped
\* when the test is over, and when it is no reply but a client's message.
CheckReply ==
    /\ rpc = "handle"
    /\ IF reply.seq > SequenceCounter
       THEN pc' = "unexpected" /\ UNCHANGED rpc
       ELSE /\ rpc' = IF g_b_exit \/ reply.from = "self" THEN "wait" ELSE "record"
            /\ UNCHANGED pc
    /\ UNCHANGED <<header, times, g_skipCount, g_b_exit, timer, initVars, i, ret, loopVars, reply, network>>

\* The rest of handle_message(), with setRxTime(): the first reply to a request
\* is recorded, any further one is a duplicate.  No option sets
\* client_work_with_srv_num, so client_get_server_id() is always 0: the replies
\* of several multicast servers go to the same place of the table.
RecordReply ==
    LET b == Block(reply.seq)
    IN /\ rpc = "record"
       /\ clock' = clock + 1
       /\ IF rx[b] = 0
          THEN /\ rx' = [rx EXCEPT ![b] = clock']
               /\ g_receiveCount' = g_receiveCount + 1
               /\ UNCHANGED dup
          ELSE /\ dup' = IF g_b_exit THEN dup ELSE dup + 1
               /\ UNCHANGED <<rx, g_receiveCount>>
       /\ i' = IF Mode = "ping-pong" THEN i + 1 ELSE i
       /\ rpc' = "wait"
       /\ reply' = NoReply
       /\ UNCHANGED <<header, tx, g_skipCount, g_b_exit, timer, initVars, pc, ret, loopVars, network>>

-----------------------------------------------------------------------------
\* A signal makes a blocked system call return, unless it came just before the
\* call, after the look at g_b_exit, or to the other thread.
Signal ==
    /\ g_b_exit' = TRUE
    /\ rpc' \in (IF rpc = "blocked" THEN {"blocked", "wait"} ELSE {rpc})

\* client_sig_handler(): the timer, which in a number based test is an error.
\* It comes once, for its it_interval is 0.
TimerExpires ==
    /\ timer = "armed"
    /\ timer' = "off"
    /\ Signal
    /\ pc' = IF ~g_b_exit /\ Measurement = "NUMBER_BASED" THEN "timeout" ELSE pc
    /\ UNCHANGED <<header, times, g_skipCount, initVars, i, ret, loopVars, reply, network>>

\* client_sig_handler(): the user.
Interrupt ==
    /\ ~g_b_exit
    /\ Signal
    /\ UNCHANGED <<header, times, g_skipCount, timer, initVars, pc, i, ret, loopVars, reply, network>>

-----------------------------------------------------------------------------
Initialize ==
    \/ InitBeforeLoop \/ ConnectSocket \/ StartConnect \/ (\E ok \in BOOLEAN : ConnectCheck(ok))
    \/ SocketsReady \/ Warmup \/ StartReceiver \/ StartTimer \/ InitFails

Main ==
    \/ Initialize \/ StartBurst \/ StampRequest \/ SetHeaderToNetwork
    \/ \E r \in {"sent", "skipped", "failed"} : SendTo(r)
    \/ SendError \/ SetHeaderToHost \/ EndBurst \/ ReceiveDone
    \/ NothingRecorded \/ SkipObservation \/ (\E cap \in WaitingCaps : CountObservation(cap))
    \/ LeaveLoop \/ Cleanup

Handle == CheckReply \/ RecordReply

Wait == EnterWait \/ WaitTimeout

Deliver == \E m \in replies : Receive(m)

Next ==
    /\ Running
    /\ Main \/ PeerCloses \/ Wait \/ Deliver \/ Handle \/ TimerExpires \/ Interrupt
    /\ UNCHANGED s_user_params

Spec == Init /\ [][Next]_vars

\* Threads run, and an armed timer expires.  A stream delivers what was sent, and
\* keeps it until a receive takes it: the thread may be between two waits when it
\* arrives, hence the strong fairness.  Nothing makes the user interrupt, nor a
\* datagram arrive.
FairSpec ==
    /\ Spec
    /\ WF_vars(Running /\ Main /\ UNCHANGED s_user_params)
    /\ WF_vars(Running /\ (Wait \/ Handle) /\ UNCHANGED s_user_params)
    /\ WF_vars(Running /\ TimerExpires /\ UNCHANGED s_user_params)
    /\ SF_vars(Running /\ Network = "stream" /\ Deliver /\ UNCHANGED s_user_params)

-----------------------------------------------------------------------------
\* The variables have their types; in particular a sequence number taken back
\* by a skipped send never becomes negative.
TypeOK ==
    /\ s_user_params \in Settings
    /\ seq \in Nat /\ order \in {"host", "net"}
    /\ tx \in [Blocks -> Nat] /\ rx \in [Blocks -> Nat] /\ dup \in Nat
    /\ g_receiveCount \in Nat /\ g_skipCount \in Nat /\ g_b_exit \in BOOLEAN /\ clock \in Nat
    /\ timer \in {"off", "armed"}
    /\ fd \in Nat /\ connected \subseteq Sockets /\ m_receiverTid \in BOOLEAN
    /\ pc \in {"init", "connect", "connecting", "warmup", "receiver", "timer",
               "loop", "burst", "stamped", "sending", "sent", "receive", "validate",
               "cleanup", "done"} \cup Errors
    /\ i \in Nat /\ ret \in {"none", "sent", "skipped", "failed"}
    /\ seqNo \in Nat /\ counterValid \in Nat /\ prevRxTime \in Nat
    /\ rpc \in {"wait", "blocked", "handle", "record"}
    /\ reply \in [seq : Nat, from : Servers \cup {"self", "none"}]
    /\ replies \subseteq [seq : Nat, from : Servers \cup {"self"}] /\ copies \in Nat

\* No message is sent before every socket has been bound and connected,
\* whenever the user interrupts and whichever connection fails or is late.
SendsConnected == pc \in {"stamped", "sending", "sent"} => connected = Sockets

\* A reply is never recorded for a request without a send time, nor with a
\* receive time before it: no latency is negative or measured from 0.  Nor does
\* a reply look as if it were ahead of the requests, which ends the test with
\* "Sequence Number received was higher than expected".
RxAfterTx ==
    /\ pc # "unexpected"
    /\ \A b \in Blocks : rx[b] # 0 => tx[b] # 0 /\ tx[b] < rx[b]

\* Between two sends the table has a send time for exactly the pong requests
\* up to the current sequence number, in sending order, whatever was skipped:
\* client_statistics() stops at the first request without one.
TxTable ==
    pc \in {"loop", "burst", "receive", "validate", "cleanup", "done"} =>
        /\ \A b \in Blocks : tx[b] # 0 <=> b > 0 /\ b * reply_every <= seq
        /\ \A b, c \in Blocks : b < c /\ tx[c] # 0 => tx[b] < tx[c]

\* In ping-pong over a stream, when a burst ends every request so far has its
\* reply, and no reply is left to disturb the next burst.
Lockstep ==
    Mode = "ping-pong" /\ Network = "stream" /\ pc \in {"loop", "validate"} /\ ~g_b_exit =>
        /\ replies = {}
        /\ \A b \in Blocks : tx[b] # 0 => rx[b] # 0

\* getSequenceCounter() asserts that the number does not exceed the limit:
\* it must not be read while the header is in network byte order.
SequenceAssert == rpc = "handle" => SequenceCounter <= maxSequenceNo

\* A number based test over a stream that ends by itself has observed
\* number_test_target packets between warm-up and cool-down.
TargetReached ==
    counterValid = stopCounting /\ Network = "stream" =>
        \A b \in (warmup_num + 1) .. (warmup_num + number_test_target) :
            /\ rx[b] # 0
            /\ b > 1 => rx[b - 1] < rx[b]

\* Every request of a burst goes out and its reply comes: a burst of datagrams
\* may lose one, and so may a burst in which a send may be skipped.
AllAnswered == Network = "stream" /\ ~NonBlocked

\* What makes a test end: its timer, its vector, the last packet of a number based
\* test in which all are answered, or the user.  A ping-pong client must then
\* come out of its wait: the one signal may come between the look at g_b_exit and
\* the wait, so that the wait must be limited, or else every request answered.
MustEnd ==
    /\ Mode = "ping-pong" => LimitedWait \/ AllAnswered
    /\ g_b_exit \/ (Measurement = "NUMBER_BASED" => AllAnswered)

\* The test ends whenever something makes it end, whatever is lost and skipped and
\* whenever the signal comes.
Ends == MustEnd ~> ~Running

\* Once the warm-up has given the sample, the wait for the packets of a number
\* based test is limited: the test ends, or else the user has interrupted it.
WaitLimited == counterValid >= warmup_num ~> ~Running \/ g_b_exit
=============================================================================
