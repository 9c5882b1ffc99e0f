---------------------------- MODULE ClientProofs ----------------------------
(***************************************************************************)
(* Proofs about Client for every setting: any number of sockets and of     *)
(* servers, any burst, table and reply_every, any number of skipped sends  *)
(* and duplicated replies, in all three modes.                             *)
(*                                                                         *)
(* The invariant has a part for each piece of shared state: which sockets  *)
(* are connected, what the table of send times holds, which replies can    *)
(* be on their way, and, for ping-pong over a stream, how the replies,     *)
(* the burst counter and the table stay in step.                           *)
(***************************************************************************)
EXTENDS Client, TLAPS

-----------------------------------------------------------------------------
(* Division by reply_every: PacketTimes::seq2index() and the pong modes. *)

\* A number is its quotient, times the divisor, and its remainder.
LEMMA DivMod == ASSUME NEW s \in Nat, NEW r \in Nat \ {0}
  PROVE s \div r \in Nat /\ s % r \in 0 .. (r-1) /\ s = r * (s \div r) + (s % r)
  OBVIOUS

\* The quotient counts the multiples of the divisor up to the number.
LEMMA DivLe == ASSUME NEW s \in Nat, NEW r \in Nat \ {0}, NEW b \in Nat
  PROVE b * r <= s <=> b <= s \div r
  BY DivMod

\* A number between two successive multiples has the lower one's quotient.
LEMMA DivUnique == ASSUME NEW s \in Nat, NEW r \in Nat \ {0}, NEW q \in Nat, q * r <= s, s < (q + 1) * r
  PROVE s \div r = q
  <1>1. q <= s \div r BY DivLe
  <1>2. ~(q + 1 <= s \div r) BY DivLe
  <1>3. QED BY <1>1, <1>2, DivMod

\* The quotient grows exactly at the multiples of the divisor.
LEMMA DivNext == ASSUME NEW s \in Nat, NEW r \in Nat \ {0}
  PROVE (s+1) \div r = IF (s+1) % r = 0 THEN s \div r + 1 ELSE s \div r
  <1> DEFINE q == (s+1) \div r  m == (s+1) % r
  <1>0. s + 1 \in Nat OBVIOUS
  <1>1. q \in Nat /\ m \in 0 .. (r-1) /\ s + 1 = r * q + m BY ONLY <1>0, r \in Nat \ {0}, DivMod
  <1>2. CASE m # 0
    <2>1. q * r <= s  BY <1>1, <1>2
    <2>2. s < (q + 1) * r BY <1>1, <1>2
    <2>3. s \div r = q BY <2>1, <2>2, <1>1, DivUnique
    <2>4. QED BY <2>3, <1>2
  <1>3. CASE m = 0
    <2>0. q # 0 BY <1>1, <1>3
    <2>1. q - 1 \in Nat BY <2>0, <1>1
    <2>2. (q - 1) * r <= s BY <1>1, <1>3
    <2>3. s < ((q - 1) + 1) * r BY <1>1, <1>3
    <2>4. s \div r = q - 1 BY <2>1, <2>2, <2>3, DivUnique
    <2>5. QED BY <2>4, <1>3, <1>1
  <1>4. QED BY <1>2, <1>3

\* The quotient is monotonic.
LEMMA DivMono == ASSUME NEW s \in Nat, NEW u \in Nat, NEW r \in Nat \ {0}, s <= u
  PROVE s \div r <= u \div r
  <1>1. s \div r \in Nat BY DivMod
  <1>2. (s \div r) * r <= s BY <1>1, DivLe
  <1>3. (s \div r) * r <= u BY <1>1, <1>2, DivMod
  <1>4. QED BY <1>1, <1>3, DivLe

\* A number whose quotient is not larger is less than a divisor larger.
LEMMA DivBelow == ASSUME NEW s \in Nat, NEW u \in Nat, NEW r \in Nat \ {0}, s \div r <= u \div r
  PROVE s < u + r
  <1>1. s \div r \in Nat /\ s % r \in 0 .. (r-1) /\ s = r * (s \div r) + (s % r) BY DivMod
  <1>2. (s \div r) * r <= u BY <1>1, DivLe
  <1>4. QED BY <1>1, <1>2

\* A positive multiple of the divisor has a positive quotient.
LEMMA DivPos == ASSUME NEW s \in Nat, NEW r \in Nat \ {0}, s % r = 0, s > 0
  PROVE s \div r > 0
  BY DivMod

\* Nothing is lost with the divisor 1.
LEMMA DivOne == ASSUME NEW s \in Nat PROVE s \div 1 = s /\ s % 1 = 0
  BY DivMod

-----------------------------------------------------------------------------
(* The invariant. *)

\* exit() has not been called.
Alive == pc \notin Errors

\* The main thread is in initBeforeLoop(), or in client_send_packet().
Starting == {"init", "connect", "connecting", "warmup", "receiver", "timer"}
Sending == {"stamped", "sending", "sent"}

\* The last request that went out; one that is stamped has not yet, and one that
\* was skipped never did.
LastSent ==
    IF pc \in {"stamped", "sending"} \/ (pc = "sent" /\ ret = "skipped") THEN seq - 1 ELSE seq

\* The sockets are connected one after the other, and the loop is entered with all
\* of them or not to send at all.
ConnInv ==
    /\ pc = "init" => fd = 1 /\ connected = {}
    /\ pc \in {"connect", "connecting"} =>
         fd \in 1 .. (s_user_params.sockets + 1) /\ connected = 1 .. (fd - 1)
    /\ pc = "connecting" => fd \in Sockets
    /\ pc \in {"warmup", "receiver", "timer", "burst", "receive", "validate"} \cup Sending =>
         connected = Sockets
    /\ pc = "loop" => connected = Sockets \/ g_b_exit

\* The table has a send time for every pong request up to the current number, the
\* current one included while it is being sent, in sending order and in the past.
TableInv ==
    Alive =>
      /\ pc \in Sending => seq > 0
      /\ pc \in Starting => seq = 0
      /\ Block(seq) <= Block(maxSequenceNo)
      /\ \A b \in Blocks : tx[b] # 0 <=> b > 0 /\ b <= Block(seq)
      /\ \A b, c \in Blocks : b < c /\ tx[c] # 0 => tx[b] < tx[c]
      /\ \A b \in Blocks : tx[b] <= clock /\ rx[b] <= clock

\* What can be heard: a request that went out, from a server if it is one to be
\* answered, from the client itself over multicast.
Heard(m) ==
    /\ m.seq <= LastSent
    /\ IF m.from = "self" THEN Multicast ELSE Pong(m.seq) /\ m.seq > 0

\* A reply is at hand.
AtHand == rpc \in {"handle", "record"}

\* What is on its way or at hand can be heard, and what was recorded was sent.
ReplyInv ==
    /\ \A b \in Blocks : rx[b] # 0 => tx[b] # 0 /\ tx[b] < rx[b]
    /\ pc # "unexpected"
    /\ Alive => /\ \A b \in Blocks : rx[b] # 0 => b <= Block(LastSent)
                /\ \A m \in replies : Heard(m)
                /\ AtHand => Heard(reply)
                /\ rpc = "record" => reply.from # "self"

\* Ping-pong over a stream.
PingStream == Mode = "ping-pong" /\ Network = "stream"

\* Its replies are recorded without a gap, in order of time.
InOrder ==
    PingStream =>
      /\ g_receiveCount <= maxSequenceNo
      /\ \A b \in Blocks : rx[b] # 0 <=> b \in 1 .. g_receiveCount
      /\ \A b, c \in 1 .. g_receiveCount : b < c => rx[b] < rx[c]

\* The first request whose reply has not arrived.
Unanswered == IF AtHand THEN g_receiveCount + 2 ELSE g_receiveCount + 1

\* Its replies are one for each request that is not answered; sends minus replies
\* never exceed the burst counter while sending, and the two make up the burst
\* while receiving.  A wait is begun before the test is over, and what it can
\* receive does not change when the test is over meanwhile.
BurstInv ==
    PingStream /\ Alive =>
      /\ g_receiveCount <= LastSent
      /\ rpc # "wait" => pc = "receive"
      /\ AtHand => reply.seq = g_receiveCount + 1
      /\ ~g_b_exit \/ rpc = "blocked" => {m.seq : m \in replies} = Unanswered .. LastSent
      /\ pc \in {"loop", "validate"} /\ ~g_b_exit => g_receiveCount = LastSent
      /\ pc \in Sending => i < burst_size
      /\ pc \in {"burst"} \cup Sending =>
           /\ i <= burst_size
           /\ LastSent - g_receiveCount <= IF pc = "sent" /\ ret # "skipped" THEN i + 1 ELSE i
      /\ pc = "receive" => i + (LastSent - g_receiveCount) <= burst_size

\* The number based loop is not ahead of the replies.
CountInv ==
    /\ counterValid <= seqNo /\ seqNo <= g_receiveCount
    /\ pc = "validate" => Measurement = "NUMBER_BASED"
    /\ counterValid > 0 => Mode = "ping-pong"
-----------------------------------------------------------------------------
(* The setting, and the blocks of the table. *)

\* What the setting of a run is, by SettingsAssumption.
LEMMA SettingFacts ==
    ASSUME s_user_params \in Settings
    PROVE  /\ Mode \in {"ping-pong", "under-load", "playback"}
           /\ Measurement = "NUMBER_BASED" => Mode = "ping-pong"
           /\ Mode = "ping-pong" => reply_every = 1
           /\ Multicast \in BOOLEAN /\ (Multicast => Network = "datagram")
           /\ Network \in {"stream", "datagram"}
           /\ s_user_params.sockets \in Nat \ {0}
           /\ reply_every \in Nat \ {0} /\ burst_size \in Nat \ {0}
           /\ maxSequenceNo \in Nat /\ warmup_num \in Nat /\ number_test_target \in Nat
           /\ cooldown_num \in Nat
           /\ Servers \cap {"self", "none"} = {}
           /\ ~Multicast => \E a \in Servers : Servers = {a}
  BY SettingsAssumption DEF Mode, Measurement, Multicast, Network, reply_every, burst_size,
     maxSequenceNo, warmup_num, number_test_target, cooldown_num, Servers

\* The parameters depend on the setting only.
LEMMA SettingKept ==
    ASSUME s_user_params' = s_user_params
    PROVE  /\ Mode' = Mode /\ Measurement' = Measurement /\ Network' = Network
           /\ Servers' = Servers /\ Multicast' = Multicast
           /\ reply_every' = reply_every /\ burst_size' = burst_size
           /\ maxSequenceNo' = maxSequenceNo /\ Sockets' = Sockets
           /\ Blocks' = Blocks /\ stopCounting' = stopCounting
  BY DEF Mode, Measurement, Multicast, Network, reply_every, burst_size, Sockets, Blocks, Block,
     maxSequenceNo, warmup_num, number_test_target, cooldown_num, Servers, stopCounting

\* Block and Pong in terms of the lemmas above.
LEMMA BlockFacts ==
    ASSUME s_user_params \in Settings
    PROVE  /\ \A s \in Nat : Block(s) \in Nat
           /\ \A s \in Nat : Block(s + 1) = IF Pong(s + 1) THEN Block(s) + 1 ELSE Block(s)
           /\ \A s, u \in Nat : s <= u => Block(s) <= Block(u)
           /\ \A s, u \in Nat : Block(s) <= Block(u) => s < u + reply_every
           /\ \A s \in Nat : Pong(s) /\ s > 0 => Block(s) > 0
           /\ \A s, b \in Nat : b * reply_every <= s <=> b <= Block(s)
           /\ reply_every = 1 => \A s \in Nat : Block(s) = s /\ Pong(s)
  <1>0. reply_every \in Nat \ {0}
    BY SettingFacts
  <1>1. \A s \in Nat : Block(s) \in Nat
    BY <1>0, DivMod DEF Block
  <1>2. \A s \in Nat : Block(s + 1) = IF Pong(s + 1) THEN Block(s) + 1 ELSE Block(s)
    BY <1>0, DivNext DEF Block, Pong
  <1>3. \A s, u \in Nat : s <= u => Block(s) <= Block(u)
    BY <1>0, DivMono DEF Block
  <1>4. \A s, u \in Nat : Block(s) <= Block(u) => s < u + reply_every
    BY <1>0, DivBelow DEF Block
  <1>5. \A s \in Nat : Pong(s) /\ s > 0 => Block(s) > 0
    BY <1>0, DivPos DEF Block, Pong
  <1>6. \A s, b \in Nat : b * reply_every <= s <=> b <= Block(s)
    BY <1>0, DivLe DEF Block
  <1>7. reply_every = 1 => \A s \in Nat : Block(s) = s /\ Pong(s)
    BY DivOne DEF Block, Pong
  <1>8. QED BY <1>1, <1>2, <1>3, <1>4, <1>5, <1>6, <1>7

\* Block and Pong depend on the setting only, which never changes.
LEMMA BlockKept ==
    ASSUME s_user_params' = s_user_params
    PROVE  /\ Block(seq)' = Block(seq')
           /\ Block(maxSequenceNo)' = Block(maxSequenceNo)
           /\ Block(LastSent)' = Block(LastSent')
  BY SettingKept DEF Block

-----------------------------------------------------------------------------
(* The steps. *)

\* Every step keeps the types; ConnInv gives the sockets their range, TableInv keeps
\* the number that is taken back from becoming negative.
LEMMA TypeStep ==
    ASSUME TypeOK, ConnInv, TableInv, Next
    PROVE  TypeOK'
  <1> USE SettingFacts, SettingKept DEF TypeOK, Errors,
           header, times, loopVars, receiver, network, initVars
  <1>0. s_user_params' = s_user_params /\ Running
    BY DEF Next, Running
  <1>1. CASE InitBeforeLoop
    BY <1>0, <1>1 DEF InitBeforeLoop
  <1>2. CASE ConnectSocket
    BY <1>0, <1>2 DEF ConnectSocket, ConnInv
  <1>3. CASE StartConnect
    BY <1>0, <1>3 DEF StartConnect
  <1>4. ASSUME NEW ok \in BOOLEAN, ConnectCheck(ok)
        PROVE  TypeOK'
    <2>1. CASE ok
      BY <1>0, <1>4, <2>1 DEF ConnectCheck, ConnInv
    <2>2. CASE ~ok
      BY <1>0, <1>4, <2>2 DEF ConnectCheck, ConnInv
    <2>3. QED BY <2>1, <2>2
  <1>5. CASE SocketsReady
    BY <1>0, <1>5 DEF SocketsReady
  <1>6. CASE Warmup
    BY <1>0, <1>6 DEF Warmup
  <1>7. CASE StartReceiver
    BY <1>0, <1>7 DEF StartReceiver
  <1>8. CASE StartTimer
    BY <1>0, <1>8 DEF StartTimer, Timed
  <1>9. CASE InitFails
    BY <1>0, <1>9 DEF InitFails
  <1>10. CASE StartBurst
    BY <1>0, <1>10 DEF StartBurst
  <1>11. CASE StampRequest
    BY <1>0, <1>11 DEF StampRequest
  <1>12. CASE SetHeaderToNetwork
    BY <1>0, <1>12 DEF SetHeaderToNetwork
  <1>13. ASSUME NEW r \in {"sent", "skipped", "failed"}, SendTo(r)
        PROVE  TypeOK'
    BY <1>0, <1>13 DEF SendTo, Senders
  <1>14. CASE SendError
    BY <1>0, <1>14 DEF SendError
  <1>15. CASE SetHeaderToHost
    BY <1>0, <1>15 DEF SetHeaderToHost, TableInv, Alive, Sending
  <1>16. CASE EndBurst
    BY <1>0, <1>16 DEF EndBurst
  <1>17. CASE ReceiveDone
    BY <1>0, <1>17 DEF ReceiveDone
  <1>18. CASE NothingRecorded
    BY <1>0, <1>18 DEF NothingRecorded
  <1>19. CASE SkipObservation
    BY <1>0, <1>19 DEF SkipObservation
  <1>20. ASSUME NEW cap \in WaitingCaps, CountObservation(cap)
        PROVE  TypeOK'
    BY <1>0, <1>20 DEF CountObservation, Observation, TimerAfter
  <1>21. CASE LeaveLoop
    BY <1>0, <1>21 DEF LeaveLoop
  <1>22. CASE Cleanup
    BY <1>0, <1>22 DEF Cleanup
  <1>23. CASE PeerCloses
    BY <1>0, <1>23 DEF PeerCloses
  <1>24. ASSUME NEW m \in replies, Receive(m)
        PROVE  TypeOK'
    BY <1>0, <1>24 DEF Receive
  <1>25. CASE CheckReply
    BY <1>0, <1>25 DEF CheckReply
  <1>26. CASE RecordReply
    BY <1>0, <1>26 DEF RecordReply, NoReply
  <1>27. CASE TimerExpires
    BY <1>0, <1>27 DEF TimerExpires, Signal
  <1>28. CASE Interrupt
    BY <1>0, <1>28 DEF Interrupt, Signal
  <1>29. CASE Wait
    BY <1>0, <1>29 DEF Wait, EnterWait, WaitTimeout
  <1>30. QED
    BY <1>1, <1>2, <1>3, <1>4, <1>5, <1>6, <1>7, <1>8, <1>9, <1>10, <1>11, <1>12, <1>13,
       <1>14, <1>15, <1>16, <1>17, <1>18, <1>19, <1>20, <1>21, <1>22, <1>23, <1>24,
       <1>25, <1>26, <1>27, <1>28, <1>29
       DEF Next, Main, Initialize, Handle, Deliver

\* Every step of initBeforeLoop() and of the loops keeps the account of the sockets.
LEMMA ConnStep ==
    ASSUME TypeOK, ConnInv, Next
    PROVE  ConnInv'
  <1> USE SettingFacts, SettingKept DEF ConnInv, TypeOK, Sending, Errors, Sockets,
           header, times, loopVars, receiver, network, initVars
  <1>0. s_user_params' = s_user_params /\ Running
    BY DEF Next, Running
  <1>1. CASE InitBeforeLoop
    BY <1>0, <1>1 DEF InitBeforeLoop
  <1>2. CASE ConnectSocket
    BY <1>0, <1>2 DEF ConnectSocket
  <1>3. CASE StartConnect
    BY <1>0, <1>3 DEF StartConnect
  <1>4. ASSUME NEW ok \in BOOLEAN, ConnectCheck(ok)
        PROVE  ConnInv'
    <2>1. CASE ok
      <3>1. connected' = connected \cup {fd} /\ fd' = fd + 1 /\ pc = "connecting" /\ pc' = "connect"
        BY <1>4, <2>1 DEF ConnectCheck
      <3>2. QED BY <1>0, <3>1
    <2>2. CASE ~ok
      BY <1>0, <1>4, <2>2 DEF ConnectCheck
    <2>3. QED BY <2>1, <2>2
  <1>5. CASE SocketsReady
    BY <1>0, <1>5 DEF SocketsReady
  <1>6. CASE Warmup
    BY <1>0, <1>6 DEF Warmup
  <1>7. CASE StartReceiver
    BY <1>0, <1>7 DEF StartReceiver
  <1>8. CASE StartTimer
    BY <1>0, <1>8 DEF StartTimer
  <1>9. CASE InitFails
    BY <1>0, <1>9 DEF InitFails
  <1>10. CASE StartBurst
    BY <1>0, <1>10 DEF StartBurst
  <1>11. CASE StampRequest
    BY <1>0, <1>11 DEF StampRequest
  <1>12. CASE SetHeaderToNetwork
    BY <1>0, <1>12 DEF SetHeaderToNetwork
  <1>13. ASSUME NEW r \in {"sent", "skipped", "failed"}, SendTo(r)
        PROVE  ConnInv'
    BY <1>0, <1>13 DEF SendTo
  <1>14. CASE SendError
    BY <1>0, <1>14 DEF SendError
  <1>15. CASE SetHeaderToHost
    BY <1>0, <1>15 DEF SetHeaderToHost
  <1>16. CASE EndBurst
    BY <1>0, <1>16 DEF EndBurst
  <1>17. CASE ReceiveDone
    BY <1>0, <1>17 DEF ReceiveDone
  <1>18. CASE NothingRecorded
    BY <1>0, <1>18 DEF NothingRecorded
  <1>19. CASE SkipObservation
    BY <1>0, <1>19 DEF SkipObservation
  <1>20. ASSUME NEW cap \in WaitingCaps, CountObservation(cap)
        PROVE  ConnInv'
    BY <1>0, <1>20 DEF CountObservation
  <1>21. CASE LeaveLoop
    BY <1>0, <1>21 DEF LeaveLoop
  <1>22. CASE Cleanup
    BY <1>0, <1>22 DEF Cleanup
  <1>23. CASE PeerCloses
    BY <1>0, <1>23 DEF PeerCloses
  <1>24. ASSUME NEW m \in replies, Receive(m)
        PROVE  ConnInv'
    BY <1>0, <1>24 DEF Receive
  <1>25. CASE CheckReply
    BY <1>0, <1>25 DEF CheckReply
  <1>26. CASE RecordReply
    BY <1>0, <1>26 DEF RecordReply
  <1>27. CASE TimerExpires
    BY <1>0, <1>27 DEF TimerExpires, Signal
  <1>28. CASE Interrupt
    BY <1>0, <1>28 DEF Interrupt, Signal
  <1>29. CASE Wait
    BY <1>0, <1>29 DEF Wait, EnterWait, WaitTimeout
  <1>30. QED
    BY <1>1, <1>2, <1>3, <1>4, <1>5, <1>6, <1>7, <1>8, <1>9, <1>10, <1>11, <1>12, <1>13,
       <1>14, <1>15, <1>16, <1>17, <1>18, <1>19, <1>20, <1>21, <1>22, <1>23, <1>24,
       <1>25, <1>26, <1>27, <1>28, <1>29
       DEF Next, Main, Initialize, Handle, Deliver

\* Only client_send_packet(), the rest of msg_sendto() and setRxTime() write to the
\* table.
LEMMA TableStep ==
    ASSUME TypeOK, TypeOK', TableInv, Next
    PROVE  TableInv'
  <1>0. s_user_params' = s_user_params /\ pc \notin Errors
    BY DEF Next, Running
  <1>1. /\ seq \in Nat /\ seq' \in Nat /\ clock \in Nat /\ maxSequenceNo \in Nat
        /\ tx \in [Blocks -> Nat] /\ rx \in [Blocks -> Nat]
    BY SettingFacts DEF TypeOK
  <1>2. /\ \A s \in Nat : Block(s) \in Nat
        /\ \A s \in Nat : Block(s + 1) = IF Pong(s + 1) THEN Block(s) + 1 ELSE Block(s)
        /\ \A s, u \in Nat : s <= u => Block(s) <= Block(u)
    BY BlockFacts DEF TypeOK
  <1>3. Blocks' = Blocks /\ Block(seq)' = Block(seq') /\ Block(maxSequenceNo)' = Block(maxSequenceNo)
    BY <1>0, SettingKept, BlockKept
  <1>4. /\ pc \in Sending => seq > 0
        /\ pc \in Starting => seq = 0
        /\ Block(seq) <= Block(maxSequenceNo)
        /\ \A b \in Blocks : tx[b] # 0 <=> b > 0 /\ b <= Block(seq)
        /\ \A b, c \in Blocks : b < c /\ tx[c] # 0 => tx[b] < tx[c]
        /\ \A b \in Blocks : tx[b] <= clock /\ rx[b] <= clock
    BY <1>0 DEF TableInv, Alive
  <1>5. \A b \in Blocks : b \in Nat /\ tx[b] \in Nat /\ rx[b] \in Nat
    BY <1>1 DEF Blocks
  <1>6. ASSUME /\ pc' \notin Errors => /\ pc' \in Sending => pc \in Sending
                                       /\ pc' \in Starting => pc \in Starting
               /\ UNCHANGED <<seq, tx, rx, clock>>
        PROVE  TableInv'
    BY <1>3, <1>4, <1>6 DEF TableInv, Alive
  <1>7. CASE StampRequest
    <2>1. seq' = seq + 1 /\ rx' = rx
      BY <1>7 DEF StampRequest, times
    <2>2. CASE ~Pong(seq')
      <3>1. pc' = "stamped" /\ tx' = tx /\ clock' = clock
        BY <1>7, <2>2 DEF StampRequest
      <3>2. Block(seq') = Block(seq)
        BY <2>1, <2>2, <1>1, <1>2
      <3>3. QED BY <1>1, <1>3, <1>4, <2>1, <3>1, <3>2 DEF TableInv, Sending, Starting
    <2>3. CASE Pong(seq') /\ seq' > maxSequenceNo
      BY <1>7, <2>3 DEF StampRequest, TableInv, Alive, Errors
    <2>4. CASE Pong(seq') /\ ~(seq' > maxSequenceNo)
      <3>1. pc' = "stamped" /\ clock' = clock + 1 /\ tx' = [tx EXCEPT ![Block(seq')] = clock + 1]
        BY <1>7, <2>4 DEF StampRequest
      <3>2. Block(seq') = Block(seq) + 1 /\ Block(seq') <= Block(maxSequenceNo) /\ Block(seq) \in Nat
        BY <1>1, <1>2, <2>1, <2>4
      <3>3. \A b \in Blocks : tx'[b] = IF b = Block(seq') THEN clock + 1 ELSE tx[b]
        BY <1>1, <3>1
      <3>4. \A b \in Blocks : tx'[b] # 0 <=> b > 0 /\ b <= Block(seq')
        BY <1>1, <1>4, <1>5, <3>2, <3>3
      <3>5. \A b, c \in Blocks : b < c /\ tx'[c] # 0 => tx'[b] < tx'[c]
        <4>1. SUFFICES ASSUME NEW b \in Blocks, NEW c \in Blocks, b < c, tx'[c] # 0
                       PROVE  tx'[b] < tx'[c]
          OBVIOUS
        <4>2. b # Block(seq')
          BY <4>1, <1>5, <3>2, <3>4
        <4>3. tx'[b] = tx[b] /\ tx[b] <= clock
          BY <4>2, <3>3, <1>4
        <4>4. QED BY <1>1, <1>4, <1>5, <4>1, <4>3, <3>3
      <3>6. \A b \in Blocks : tx'[b] <= clock' /\ rx'[b] <= clock'
        BY <1>1, <1>4, <1>5, <2>1, <3>1, <3>3
      <3>7. QED BY <1>1, <1>3, <2>1, <3>1, <3>2, <3>4, <3>5, <3>6 DEF TableInv, Sending, Starting
    <2>5. QED BY <2>2, <2>3, <2>4
  <1>8. CASE SetHeaderToHost
    <2>0. pc = "sent" /\ pc' = "burst" /\ rx' = rx /\ clock' = clock
      BY <1>8 DEF SetHeaderToHost
    <2>1. CASE ret # "skipped"
      BY <1>6, <1>8, <2>0, <2>1 DEF SetHeaderToHost, Sending, Starting
    <2>2. CASE ret = "skipped"
      <3>1. seq' = seq - 1 /\ seq = seq' + 1
        BY <1>1, <1>8, <2>2 DEF SetHeaderToHost
      <3>2. CASE ~Pong(seq)
        <4>1. tx' = tx
          BY <1>8, <2>2, <3>2 DEF SetHeaderToHost
        <4>2. Block(seq') = Block(seq)
          BY <3>1, <3>2, <1>1, <1>2
        <4>3. QED BY <1>3, <1>4, <2>0, <4>1, <4>2 DEF TableInv, Sending, Starting
      <3>3. CASE Pong(seq)
        <4>1. tx' = [tx EXCEPT ![Block(seq)] = 0]
          BY <1>8, <2>2, <3>3 DEF SetHeaderToHost
        <4>2. Block(seq) = Block(seq') + 1 /\ Block(seq') \in Nat
          BY <1>1, <1>2, <3>1, <3>3
        <4>3. \A b \in Blocks : tx'[b] = IF b = Block(seq) THEN 0 ELSE tx[b]
          BY <1>1, <4>1
        <4>4. \A b \in Blocks : tx'[b] # 0 <=> b > 0 /\ b <= Block(seq')
          BY <1>4, <1>5, <4>2, <4>3
        <4>5. \A b, c \in Blocks : b < c /\ tx'[c] # 0 => tx'[b] < tx'[c]
          BY <1>4, <1>5, <4>2, <4>3, <4>4
        <4>6. \A b \in Blocks : tx'[b] <= clock' /\ rx'[b] <= clock'
          BY <1>1, <1>4, <1>5, <2>0, <4>3
        <4>7. Block(seq') <= Block(maxSequenceNo)
          BY <1>1, <1>2, <1>4, <4>2
        <4>8. QED BY <1>3, <2>0, <4>4, <4>5, <4>6, <4>7 DEF TableInv, Sending, Starting
      <3>4. QED BY <3>2, <3>3
    <2>3. QED BY <2>1, <2>2
  <1>9. CASE RecordReply
    <2>1. UNCHANGED <<seq, tx, pc>> /\ clock' = clock + 1
      BY <1>9 DEF RecordReply, header
    <2>2. \A b \in Blocks : rx'[b] = rx[b] \/ rx'[b] = clock'
      <3>1. rx' = rx \/ rx' = [rx EXCEPT ![Block(reply.seq)] = clock']
        BY <1>9 DEF RecordReply
      <3>2. QED BY <1>1, <3>1
    <2>3. \A b \in Blocks : tx'[b] <= clock' /\ rx'[b] <= clock'
      BY <1>1, <1>4, <1>5, <2>1, <2>2
    <2>4. QED BY <1>3, <1>4, <2>1, <2>3 DEF TableInv, Alive
  <1>10. CASE CheckReply
    <2>1. (pc' = pc \/ pc' = "unexpected") /\ UNCHANGED <<seq, tx, rx, clock>>
      BY <1>10 DEF CheckReply, header, times
    <2>2. QED BY <1>6, <2>1 DEF Errors
  <1>11. ASSUME Main \/ PeerCloses \/ Wait \/ Deliver \/ TimerExpires \/ Interrupt,
                ~StampRequest, ~SetHeaderToHost
         PROVE  TableInv'
    <2>1. CASE InitBeforeLoop
      BY <1>0, <1>6, <2>1 DEF InitBeforeLoop, header, times, Sending, Starting, Errors
    <2>2. CASE ConnectSocket
      BY <1>0, <1>6, <2>2 DEF ConnectSocket, header, times, Sending, Starting, Errors
    <2>3. CASE StartConnect
      BY <1>0, <1>6, <2>3 DEF StartConnect, header, times, Sending, Starting, Errors
    <2>4. ASSUME NEW ok \in BOOLEAN, ConnectCheck(ok)
          PROVE  TableInv'
      BY <1>0, <1>6, <2>4 DEF ConnectCheck, header, times, Sending, Starting, Errors
    <2>5. CASE SocketsReady
      BY <1>0, <1>6, <2>5 DEF SocketsReady, header, times, Sending, Starting, Errors
    <2>6. CASE Warmup
      BY <1>0, <1>6, <2>6 DEF Warmup, header, times, Sending, Starting, Errors
    <2>7. CASE StartReceiver
      BY <1>0, <1>6, <2>7 DEF StartReceiver, header, times, Sending, Starting, Errors
    <2>8. CASE StartTimer
      BY <1>0, <1>6, <2>8 DEF StartTimer, header, times, Sending, Starting, Errors
    <2>9. CASE InitFails
      BY <1>0, <1>6, <2>9 DEF InitFails, header, times, Sending, Starting, Errors
    <2>10. CASE StartBurst
      BY <1>0, <1>6, <2>10 DEF StartBurst, header, times, Sending, Starting, Errors
    <2>11. CASE SetHeaderToNetwork
      BY <1>0, <1>6, <2>11 DEF SetHeaderToNetwork, header, times, Sending, Starting, Errors
    <2>12. ASSUME NEW r \in {"sent", "skipped", "failed"}, SendTo(r)
          PROVE  TableInv'
      BY <1>0, <1>6, <2>12 DEF SendTo, header, times, Sending, Starting, Errors
    <2>13. CASE SendError
      BY <1>0, <1>6, <2>13 DEF SendError, header, times, Sending, Starting, Errors
    <2>14. CASE EndBurst
      BY <1>0, <1>6, <2>14 DEF EndBurst, header, times, Sending, Starting, Errors
    <2>15. CASE ReceiveDone
      BY <1>0, <1>6, <2>15 DEF ReceiveDone, header, times, Sending, Starting, Errors
    <2>16. CASE NothingRecorded
      BY <1>0, <1>6, <2>16 DEF NothingRecorded, header, times, Sending, Starting, Errors
    <2>17. CASE SkipObservation
      BY <1>0, <1>6, <2>17 DEF SkipObservation, header, times, Sending, Starting, Errors
    <2>18. ASSUME NEW cap \in WaitingCaps, CountObservation(cap)
          PROVE  TableInv'
      BY <1>0, <1>6, <2>18 DEF CountObservation, header, times, Sending, Starting, Errors
    <2>19. CASE LeaveLoop
      BY <1>0, <1>6, <2>19 DEF LeaveLoop, header, times, Sending, Starting, Errors
    <2>20. CASE Cleanup
      BY <1>0, <1>6, <2>20 DEF Cleanup, header, times, Sending, Starting, Errors
    <2>21. CASE PeerCloses
      BY <1>0, <1>6, <2>21 DEF PeerCloses, header, times, Sending, Starting, Errors
    <2>22. ASSUME NEW m \in replies, Receive(m)
          PROVE  TableInv'
      BY <1>0, <1>6, <2>22 DEF Receive, header, times, Sending, Starting, Errors
    <2>23. CASE TimerExpires
      BY <1>0, <1>6, <2>23 DEF TimerExpires, Signal, header, times, Sending, Starting, Errors
    <2>24. CASE Interrupt
      BY <1>0, <1>6, <2>24 DEF Interrupt, Signal, header, times, Sending, Starting, Errors
    <2>25. CASE Wait
      BY <1>0, <1>6, <2>25 DEF Wait, EnterWait, WaitTimeout, header, times, Sending, Starting, Errors
    <2>26. QED
      BY <1>11, <2>1, <2>2, <2>3, <2>4, <2>5, <2>6, <2>7, <2>8, <2>9, <2>10, <2>11, <2>12, <2>13,
       <2>14, <2>15, <2>16, <2>17, <2>18, <2>19, <2>20, <2>21, <2>22, <2>23, <2>24, <2>25
         DEF Main, Initialize, Deliver
  <1>12. QED
    BY <1>7, <1>8, <1>9, <1>10, <1>11 DEF Next, Handle

\* A request counts as sent when msg_sendto() has not skipped it, and no step takes
\* that back.
LEMMA LastSentStep ==
    ASSUME TypeOK, TypeOK', TableInv, Next, pc' \notin Errors
    PROVE  /\ LastSent \in Nat /\ LastSent' \in Nat /\ LastSent <= seq
           /\ IF pc = "sending" /\ pc' = "sent" /\ ret' # "skipped"
              THEN LastSent' = LastSent + 1 /\ LastSent' = seq ELSE LastSent' = LastSent
  <1>0. pc \notin Errors
    BY DEF Next, Running
  <1>1. seq \in Nat /\ seq' \in Nat /\ (pc \in Sending => seq > 0)
    BY <1>0 DEF TypeOK, TableInv, Alive
  <1>2. LastSent \in Nat /\ LastSent <= seq
    BY <1>1 DEF LastSent, Sending
  <1>3. ASSUME pc \notin Sending, pc' \notin Sending, seq' = seq
        PROVE  LastSent' = LastSent
    BY <1>3 DEF LastSent, Sending
  <1>4. ASSUME pc' = pc, seq' = seq, ret' = ret
        PROVE  LastSent' = LastSent
    BY <1>4 DEF LastSent, Sending
  <1>5. CASE StampRequest
    BY <1>1, <1>2, <1>5 DEF StampRequest, LastSent, Errors
  <1>6. CASE SetHeaderToNetwork
    BY <1>1, <1>2, <1>6 DEF SetHeaderToNetwork, LastSent
  <1>7. ASSUME NEW r \in {"sent", "skipped", "failed"}, SendTo(r)
        PROVE  IF pc = "sending" /\ pc' = "sent" /\ ret' # "skipped"
               THEN LastSent' = LastSent + 1 /\ LastSent' = seq ELSE LastSent' = LastSent
    BY <1>1, <1>7 DEF SendTo, LastSent, header
  <1>8. CASE SetHeaderToHost
    <2>1. pc = "sent" /\ pc' = "burst" /\ seq' = IF ret = "skipped" THEN seq - 1 ELSE seq
      BY <1>8 DEF SetHeaderToHost
    <2>2. QED BY <1>1, <2>1 DEF LastSent
  <1>9. ASSUME /\ Main \/ PeerCloses \/ Wait \/ Deliver \/ Handle \/ TimerExpires \/ Interrupt
               /\ ~StampRequest /\ ~SetHeaderToNetwork /\ ~SetHeaderToHost
               /\ \A r \in {"sent", "skipped", "failed"} : ~SendTo(r)
        PROVE  LastSent' = LastSent /\ ~(pc = "sending" /\ pc' = "sent" /\ ret' # "skipped")
    <2>1. CASE InitBeforeLoop
      BY <1>3, <1>4, <2>1 DEF InitBeforeLoop, header, Sending, Errors
    <2>2. CASE ConnectSocket
      BY <1>3, <1>4, <2>2 DEF ConnectSocket, header, Sending, Errors
    <2>3. CASE StartConnect
      BY <1>3, <1>4, <2>3 DEF StartConnect, header, Sending, Errors
    <2>4. ASSUME NEW ok \in BOOLEAN, ConnectCheck(ok)
          PROVE  LastSent' = LastSent /\ ~(pc = "sending" /\ pc' = "sent" /\ ret' # "skipped")
      BY <1>3, <1>4, <2>4 DEF ConnectCheck, header, Sending, Errors
    <2>5. CASE SocketsReady
      BY <1>3, <1>4, <2>5 DEF SocketsReady, header, Sending, Errors
    <2>6. CASE Warmup
      BY <1>3, <1>4, <2>6 DEF Warmup, header, Sending, Errors
    <2>7. CASE StartReceiver
      BY <1>3, <1>4, <2>7 DEF StartReceiver, header, Sending, Errors
    <2>8. CASE StartTimer
      BY <1>3, <1>4, <2>8 DEF StartTimer, header, Sending, Errors
    <2>9. CASE InitFails
      BY <1>3, <1>4, <2>9 DEF InitFails, header, Sending, Errors
    <2>10. CASE StartBurst
      BY <1>3, <1>4, <2>10 DEF StartBurst, header, Sending, Errors
    <2>11. CASE SendError
      BY <1>3, <1>4, <2>11 DEF SendError, header, Sending, Errors
    <2>12. CASE EndBurst
      BY <1>3, <1>4, <2>12 DEF EndBurst, header, Sending, Errors
    <2>13. CASE ReceiveDone
      BY <1>3, <1>4, <2>13 DEF ReceiveDone, header, Sending, Errors
    <2>14. CASE NothingRecorded
      BY <1>3, <1>4, <2>14 DEF NothingRecorded, header, Sending, Errors
    <2>15. CASE SkipObservation
      BY <1>3, <1>4, <2>15 DEF SkipObservation, header, Sending, Errors
    <2>16. ASSUME NEW cap \in WaitingCaps, CountObservation(cap)
          PROVE  LastSent' = LastSent /\ ~(pc = "sending" /\ pc' = "sent" /\ ret' # "skipped")
      BY <1>3, <1>4, <2>16 DEF CountObservation, header, Sending, Errors
    <2>17. CASE LeaveLoop
      BY <1>3, <1>4, <2>17 DEF LeaveLoop, header, Sending, Errors
    <2>18. CASE Cleanup
      BY <1>3, <1>4, <2>18 DEF Cleanup, header, Sending, Errors
    <2>19. CASE PeerCloses
      BY <1>3, <1>4, <2>19 DEF PeerCloses, header, Sending, Errors
    <2>20. ASSUME NEW m \in replies, Receive(m)
          PROVE  LastSent' = LastSent /\ ~(pc = "sending" /\ pc' = "sent" /\ ret' # "skipped")
      BY <1>3, <1>4, <2>20 DEF Receive, header, Sending, Errors
    <2>21. CASE RecordReply
      BY <1>3, <1>4, <2>21 DEF RecordReply, header, Sending, Errors
    <2>22. CASE TimerExpires
      BY <1>3, <1>4, <2>22 DEF TimerExpires, Signal, header, Sending, Errors
    <2>23. CASE Interrupt
      BY <1>3, <1>4, <2>23 DEF Interrupt, Signal, header, Sending, Errors
    <2>24. CASE CheckReply
      <3>1. pc' = pc /\ seq' = seq /\ ret' = ret
        BY <2>24 DEF CheckReply, header, Errors
      <3>2. QED BY <1>4, <3>1
    <2>25. CASE Wait
      BY <1>3, <1>4, <2>25 DEF Wait, EnterWait, WaitTimeout, header, Sending, Errors
    <2>26. QED
      BY <1>9, <2>1, <2>2, <2>3, <2>4, <2>5, <2>6, <2>7, <2>8, <2>9, <2>10, <2>11, <2>12, <2>13,
       <2>14, <2>15, <2>16, <2>17, <2>18, <2>19, <2>20, <2>21, <2>22, <2>23, <2>24, <2>25
         DEF Main, Initialize, Deliver, Handle
  <1>10. LastSent' \in Nat /\ IF pc = "sending" /\ pc' = "sent" /\ ret' # "skipped"
                             THEN LastSent' = LastSent + 1 /\ LastSent' = seq ELSE LastSent' = LastSent
    <2>1. CASE StampRequest \/ SetHeaderToNetwork \/ SetHeaderToHost
      BY <1>2, <1>5, <1>6, <1>8, <2>1 DEF StampRequest, SetHeaderToNetwork, SetHeaderToHost
    <2>2. CASE \E r \in {"sent", "skipped", "failed"} : SendTo(r)
      BY <1>1, <1>2, <1>7, <2>2
    <2>3. QED BY <1>2, <1>9, <2>1, <2>2 DEF Next
  <1>11. QED BY <1>2, <1>10

\* No step of either thread makes a reply look ahead of the requests, or records one
\* without a send time.
LEMMA ReplyStep ==
    ASSUME TypeOK, TypeOK', TableInv, ReplyInv, Next
    PROVE  ReplyInv'
  <1> DEFINE Ok(m) == /\ m.seq <= LastSent'
                      /\ IF m.from = "self" THEN Multicast ELSE Pong(m.seq) /\ m.seq > 0
             Goal == /\ \A b \in Blocks : rx'[b] # 0 => tx'[b] # 0 /\ tx'[b] < rx'[b]
                     /\ pc' # "unexpected"
                     /\ pc' \notin Errors => /\ \A b \in Blocks : rx'[b] # 0 => b <= Block(LastSent')
                                             /\ \A m \in replies' : Ok(m)
                                             /\ AtHand' => Ok(reply')
                                             /\ rpc' = "record" => reply'.from # "self"
  <1>0. s_user_params' = s_user_params /\ pc \notin Errors
    BY DEF Next, Running
  <1>1. SUFFICES Goal
    BY <1>0, SettingKept, BlockKept DEF ReplyInv, Alive, AtHand, Errors, Heard, Pong
  <1>2. /\ seq \in Nat /\ clock \in Nat /\ maxSequenceNo \in Nat
        /\ tx \in [Blocks -> Nat] /\ rx \in [Blocks -> Nat]
        /\ \A m \in replies \cup {reply} : m.seq \in Nat
    BY SettingFacts DEF TypeOK
  <1>3. /\ \A s \in Nat : Block(s) \in Nat
        /\ \A s \in Nat : Block(s + 1) = IF Pong(s + 1) THEN Block(s) + 1 ELSE Block(s)
        /\ \A s, u \in Nat : s <= u => Block(s) <= Block(u)
        /\ \A s, u \in Nat : Block(s) <= Block(u) => s < u + reply_every
        /\ \A s \in Nat : Pong(s) /\ s > 0 => Block(s) > 0
    BY BlockFacts DEF TypeOK
  <1>4. /\ pc \in Sending => seq > 0
        /\ Block(seq) <= Block(maxSequenceNo)
        /\ \A b \in Blocks : tx[b] # 0 <=> b > 0 /\ b <= Block(seq)
        /\ \A b \in Blocks : tx[b] <= clock
    BY <1>0 DEF TableInv, Alive
  <1>5. /\ \A b \in Blocks : rx[b] # 0 => tx[b] # 0 /\ tx[b] < rx[b]
        /\ \A b \in Blocks : rx[b] # 0 => b <= Block(LastSent)
        /\ \A m \in replies : Heard(m)
        /\ AtHand => Heard(reply)
        /\ rpc = "record" => reply.from # "self"
    BY <1>0 DEF ReplyInv, Alive
  <1>6. \A b \in Blocks : b \in Nat /\ tx[b] \in Nat /\ rx[b] \in Nat
    BY <1>2 DEF Blocks
  <1>7. LastSent \in Nat /\ LastSent <= seq
    BY <1>2, <1>4 DEF LastSent, Sending
  <1>8. pc' \notin Errors => LastSent' \in Nat /\ LastSent <= LastSent' /\ Block(LastSent) <= Block(LastSent')
    BY <1>3, <1>7, LastSentStep
  <1>9. pc' \notin Errors => \A m \in replies \cup {reply} : Heard(m) => Ok(m)
    BY <1>2, <1>7, <1>8 DEF Heard
  <1>10. ASSUME /\ UNCHANGED <<tx, rx>> /\ pc' # "unexpected"
                /\ replies' \subseteq replies /\ rpc' \in {rpc, "wait", "blocked"} /\ reply' = reply
         PROVE  Goal
    <2>1. pc' \notin Errors => \A b \in Blocks : rx[b] # 0 => b <= Block(LastSent')
      BY <1>3, <1>5, <1>6, <1>7, <1>8
    <2>2. (AtHand' => AtHand) /\ (rpc' = "record" => rpc = "record")
      BY <1>10 DEF AtHand
    <2>3. QED BY <1>5, <1>9, <1>10, <2>1, <2>2
  <1>11. CASE Warmup
    <2>1. UNCHANGED <<tx, rx, rpc, reply>> /\ pc' \notin Errors
      BY <1>11 DEF Warmup, times, receiver, Errors
    <2>2. \A m \in replies' : Ok(m)
      <3>1. replies' = IF Multicast THEN {[seq |-> 0, from |-> "self"]} ELSE {}
        BY <1>11 DEF Warmup
      <3>2. QED BY <3>1, <2>1, <1>8
    <2>3. \A b \in Blocks : rx[b] # 0 => b <= Block(LastSent')
      BY <1>3, <1>5, <1>6, <1>7, <1>8, <2>1
    <2>4. QED BY <1>5, <1>9, <2>1, <2>2, <2>3 DEF Errors, AtHand
  <1>12. CASE StampRequest
    <2>1. seq' = seq + 1 /\ pc = "burst" /\ UNCHANGED <<rx, rpc, reply, replies>>
          /\ pc' \in {"stamped", "exceeded"}
      BY <1>12 DEF StampRequest, receiver, network
    <2>2. tx' = tx \/ (Block(seq') = Block(seq) + 1 /\ tx' = [tx EXCEPT ![Block(seq')] = clock'])
      BY <1>12, <1>2, <1>3 DEF StampRequest
    <2>3. \A b \in Blocks : rx[b] # 0 => b <= Block(seq)
      BY <1>5, <2>1 DEF LastSent
    <2>4. \A b \in Blocks : rx[b] # 0 => tx'[b] = tx[b]
      BY <1>2, <1>3, <1>6, <2>2, <2>3
    <2>5. pc' \notin Errors => \A b \in Blocks : rx[b] # 0 => b <= Block(LastSent')
      BY <1>3, <1>5, <1>6, <1>7, <1>8
    <2>6. QED BY <1>5, <1>9, <2>1, <2>4, <2>5 DEF AtHand
  <1>13. ASSUME NEW r \in {"sent", "skipped", "failed"}, SendTo(r)
         PROVE  Goal
    <2>1. /\ pc = "sending" /\ pc' = "sent" /\ ret' = r /\ UNCHANGED <<tx, rx, rpc, reply>>
          /\ replies' = IF r = "sent" THEN replies \cup {[seq |-> seq, from |-> a] : a \in Senders(seq)}
                                      ELSE replies
      BY <1>13 DEF SendTo, times, receiver
    <2>2. pc' \notin Errors
      BY <2>1 DEF Errors
    <2>3. \A m \in replies' : Ok(m)
      <3>1. CASE r # "sent"
        BY <1>5, <1>9, <2>1, <2>2, <3>1
      <3>2. CASE r = "sent"
        <4>1. LastSent' = seq
          BY <2>1, <2>2, <3>2, LastSentStep
        <4>2. ASSUME NEW a \in Senders(seq)
              PROVE  Ok([seq |-> seq, from |-> a])
          <5>1. a = "self" => Multicast
            BY SettingFacts DEF Senders, TypeOK
          <5>2. a # "self" => Pong(seq)
            BY DEF Senders
          <5>3. QED BY <4>1, <5>1, <5>2, <1>2, <1>4, <2>1 DEF Sending
        <4>3. QED BY <1>5, <1>9, <2>1, <2>2, <3>2, <4>2
      <3>3. QED BY <3>1, <3>2
    <2>4. \A b \in Blocks : rx[b] # 0 => b <= Block(LastSent')
      BY <1>3, <1>5, <1>6, <1>7, <1>8, <2>2
    <2>5. QED BY <1>5, <1>9, <2>1, <2>2, <2>3, <2>4 DEF AtHand
  <1>14. CASE SetHeaderToHost
    <2>1. pc = "sent" /\ pc' = "burst" /\ UNCHANGED <<rx, rpc, reply, replies>>
      BY <1>14 DEF SetHeaderToHost, receiver, network
    <2>2. \A b \in Blocks : rx[b] # 0 => tx'[b] = tx[b]
      <3>1. CASE ret = "skipped" /\ Pong(seq)
        <4>1. tx' = [tx EXCEPT ![Block(seq)] = 0]
          BY <1>14, <3>1 DEF SetHeaderToHost
        <4>2. LastSent = seq - 1 /\ seq - 1 \in Nat /\ (seq - 1) + 1 = seq
          BY <1>2, <1>4, <2>1, <3>1 DEF LastSent, Sending
        <4>3. Block(seq) = Block(LastSent) + 1 /\ Block(LastSent) \in Nat
          BY <1>3, <3>1, <4>2
        <4>4. QED BY <1>2, <1>5, <1>6, <4>1, <4>3
      <3>2. CASE ~(ret = "skipped" /\ Pong(seq))
        BY <1>14, <3>2 DEF SetHeaderToHost
      <3>3. QED BY <3>1, <3>2
    <2>3. pc' \notin Errors
      BY <2>1 DEF Errors
    <2>4. \A b \in Blocks : rx[b] # 0 => b <= Block(LastSent')
      BY <1>3, <1>5, <1>6, <1>7, <1>8, <2>3
    <2>5. QED BY <1>5, <1>9, <2>1, <2>2, <2>3, <2>4 DEF AtHand
  <1>15. ASSUME NEW m \in replies, Receive(m)
         PROVE  Goal
    <2>1. UNCHANGED <<tx, rx, pc>> /\ reply' = m /\ rpc' = "handle" /\ replies' \subseteq replies
      BY <1>15 DEF Receive, times
    <2>2. \A b \in Blocks : rx[b] # 0 => b <= Block(LastSent')
      BY <1>0, <1>3, <1>5, <1>6, <1>7, <1>8, <2>1
    <2>3. QED BY <1>0, <1>5, <1>9, <2>1, <2>2 DEF Errors
  <1>16. CASE CheckReply
    <2>1. rpc = "handle" /\ UNCHANGED <<tx, rx, reply, replies>>
      BY <1>16 DEF CheckReply, times, network
    <2>2. reply.seq <= SequenceCounter
      <3>1. reply.seq <= LastSent /\ reply.seq \in Nat
        BY <1>2, <1>5, <2>1 DEF Heard, AtHand
      <3>2. seq < maxSequenceNo + reply_every /\ reply_every \in Nat
        BY <1>2, <1>3, <1>4, SettingFacts DEF TypeOK
      <3>3. QED BY <1>2, <1>7, <3>1, <3>2 DEF SequenceCounter, Reversed
    <2>3. ~(reply.seq > SequenceCounter)
      BY <1>2, <2>2, SettingFacts DEF SequenceCounter, Reversed, TypeOK
    <2>4. pc' = pc /\ (rpc' = "record" => reply.from # "self")
      BY <1>16, <2>3 DEF CheckReply
    <2>5. \A b \in Blocks : rx[b] # 0 => b <= Block(LastSent')
      BY <1>0, <1>3, <1>5, <1>6, <1>7, <1>8, <2>4
    <2>6. QED BY <1>0, <1>5, <1>9, <2>1, <2>4, <2>5 DEF Errors, AtHand
  <1>17. CASE RecordReply
    <2> DEFINE b == Block(reply.seq)
    <2>1. rpc = "record" /\ rpc' = "wait" /\ UNCHANGED <<tx, pc, replies>>
      BY <1>17 DEF RecordReply, network
    <2>2. rx' = rx \/ rx' = [rx EXCEPT ![b] = clock + 1]
      BY <1>17 DEF RecordReply
    <2>3. /\ reply.seq \in Nat /\ reply.seq <= LastSent
          /\ Pong(reply.seq) /\ reply.seq > 0
      BY <1>2, <1>5, <2>1 DEF Heard, AtHand
    <2>4. b \in Nat /\ b > 0 /\ b <= Block(LastSent) /\ Block(LastSent) <= Block(seq)
      BY <1>2, <1>3, <1>7, <2>3
    <2>5. b \in Blocks /\ tx[b] # 0 /\ tx[b] <= clock
      <3>1. b <= Block(maxSequenceNo)
        BY <1>2, <1>3, <1>4, <1>7, <2>4
      <3>2. b \in Blocks
        BY <1>2, <1>3, <2>4, <3>1 DEF Blocks
      <3>3. b <= Block(seq)
        BY <1>2, <1>3, <1>7, <2>4
      <3>4. QED BY <1>4, <2>4, <3>2, <3>3
    <2> HIDE DEF b
    <2>6. \A c \in Blocks : rx'[c] = rx[c] \/ (c = b /\ rx'[c] = clock + 1)
      BY <1>2, <2>2
    <2>7. \A c \in Blocks : rx'[c] # 0 => tx[c] # 0 /\ tx[c] < rx'[c] /\ c <= Block(LastSent)
      <3>1. tx[b] < clock + 1
        BY <1>2, <1>6, <2>5
      <3>2. QED BY <1>5, <2>4, <2>5, <2>6, <3>1
    <2>8. \A c \in Blocks : rx'[c] # 0 => c <= Block(LastSent')
      BY <1>0, <1>3, <1>6, <1>7, <1>8, <2>1, <2>7
    <2>9. QED BY <1>0, <1>5, <1>9, <2>1, <2>7, <2>8 DEF Errors, AtHand
  <1>18. ASSUME /\ Main \/ PeerCloses \/ Wait \/ TimerExpires \/ Interrupt
                /\ ~StampRequest /\ ~SetHeaderToHost /\ ~Warmup
                /\ \A r \in {"sent", "skipped", "failed"} : ~SendTo(r)
         PROVE  Goal
    <2> HIDE DEF Goal
    <2>1. CASE InitBeforeLoop
      BY <1>0, <1>10, <2>1 DEF InitBeforeLoop, times, receiver, network, Errors
    <2>2. CASE ConnectSocket
      BY <1>0, <1>10, <2>2 DEF ConnectSocket, times, receiver, network, Errors
    <2>3. CASE StartConnect
      BY <1>0, <1>10, <2>3 DEF StartConnect, times, receiver, network, Errors
    <2>4. ASSUME NEW ok \in BOOLEAN, ConnectCheck(ok)
          PROVE  Goal
      BY <1>0, <1>10, <2>4 DEF ConnectCheck, times, receiver, network, Errors
    <2>5. CASE SocketsReady
      BY <1>0, <1>10, <2>5 DEF SocketsReady, times, receiver, network, Errors
    <2>6. CASE StartReceiver
      BY <1>0, <1>10, <2>6 DEF StartReceiver, times, receiver, network, Errors
    <2>7. CASE StartTimer
      BY <1>0, <1>10, <2>7 DEF StartTimer, times, receiver, network, Errors
    <2>8. CASE InitFails
      BY <1>0, <1>10, <2>8 DEF InitFails, times, receiver, network, Errors
    <2>9. CASE StartBurst
      BY <1>0, <1>10, <2>9 DEF StartBurst, times, receiver, network, Errors
    <2>10. CASE SetHeaderToNetwork
      BY <1>0, <1>10, <2>10 DEF SetHeaderToNetwork, times, receiver, network, Errors
    <2>11. CASE SendError
      BY <1>0, <1>10, <2>11 DEF SendError, times, receiver, network, Errors
    <2>12. CASE EndBurst
      BY <1>0, <1>10, <2>12 DEF EndBurst, times, receiver, network, Errors
    <2>13. CASE ReceiveDone
      BY <1>0, <1>10, <2>13 DEF ReceiveDone, times, receiver, network, Errors
    <2>14. CASE NothingRecorded
      BY <1>0, <1>10, <2>14 DEF NothingRecorded, times, receiver, network, Errors
    <2>15. CASE SkipObservation
      BY <1>0, <1>10, <2>15 DEF SkipObservation, times, receiver, network, Errors
    <2>16. ASSUME NEW cap \in WaitingCaps, CountObservation(cap)
          PROVE  Goal
      BY <1>0, <1>10, <2>16 DEF CountObservation, times, receiver, network, Errors
    <2>17. CASE LeaveLoop
      BY <1>0, <1>10, <2>17 DEF LeaveLoop, times, receiver, network, Errors
    <2>18. CASE Cleanup
      BY <1>0, <1>10, <2>18 DEF Cleanup, times, receiver, network, Errors
    <2>19. CASE PeerCloses
      BY <1>0, <1>10, <2>19 DEF PeerCloses, times, receiver, network, Errors
    <2>20. CASE TimerExpires
      BY <1>0, <1>10, <2>20 DEF TimerExpires, Signal, times, network, Errors
    <2>21. CASE Interrupt
      BY <1>0, <1>10, <2>21 DEF Interrupt, Signal, times, network, Errors
    <2>22. CASE Wait
      BY <1>0, <1>10, <2>22 DEF Wait, EnterWait, WaitTimeout, times, network, Errors
    <2>23. QED
      BY <1>18, <2>1, <2>2, <2>3, <2>4, <2>5, <2>6, <2>7, <2>8, <2>9, <2>10, <2>11, <2>12, <2>13,
       <2>14, <2>15, <2>16, <2>17, <2>18, <2>19, <2>20, <2>21, <2>22
         DEF Main, Initialize
  <1>19. QED
    BY <1>11, <1>12, <1>13, <1>14, <1>15, <1>16, <1>17, <1>18 DEF Next, Handle, Deliver

\* Over a stream replies are recorded in the order of the requests.
LEMMA InOrderStep ==
    ASSUME TypeOK, TypeOK', TableInv, ReplyInv, InOrder, BurstInv, Next
    PROVE  InOrder'
  <1>0. s_user_params' = s_user_params /\ pc \notin Errors
    BY DEF Next, Running
  <1>1. SUFFICES ASSUME PingStream
                 PROVE  /\ g_receiveCount' <= maxSequenceNo
                        /\ \A b \in Blocks : rx'[b] # 0 <=> b \in 1 .. g_receiveCount'
                        /\ \A b, c \in 1 .. g_receiveCount' : b < c => rx'[b] < rx'[c]
    BY <1>0, SettingKept DEF InOrder, PingStream
  <1>2. /\ g_receiveCount <= maxSequenceNo
        /\ \A b \in Blocks : rx[b] # 0 <=> b \in 1 .. g_receiveCount
        /\ \A b, c \in 1 .. g_receiveCount : b < c => rx[b] < rx[c]
    BY <1>1 DEF InOrder
  <1>3. ASSUME UNCHANGED <<rx, g_receiveCount>>
        PROVE  /\ g_receiveCount' <= maxSequenceNo
               /\ \A b \in Blocks : rx'[b] # 0 <=> b \in 1 .. g_receiveCount'
               /\ \A b, c \in 1 .. g_receiveCount' : b < c => rx'[b] < rx'[c]
    BY <1>2, <1>3
  <1>4. CASE RecordReply
    <2>1. /\ seq \in Nat /\ clock \in Nat /\ maxSequenceNo \in Nat /\ g_receiveCount \in Nat
          /\ rx \in [Blocks -> Nat] /\ reply.seq \in Nat
          /\ reply_every = 1
      BY <1>1, SettingFacts DEF TypeOK, PingStream
    <2>2. \A s \in Nat : Block(s) = s
      BY <2>1, BlockFacts DEF TypeOK
    <2>3. Blocks = 0 .. maxSequenceNo
      BY <2>1, <2>2 DEF Blocks
    <2>4. seq <= maxSequenceNo /\ (pc \in Sending => seq > 0) /\ \A b \in Blocks : rx[b] <= clock
      BY <1>0, <2>1, <2>2 DEF TableInv, Alive
    <2>5. reply.seq = g_receiveCount + 1 /\ reply.seq <= LastSent
      BY <1>0, <1>1, <1>4 DEF RecordReply, BurstInv, ReplyInv, Alive, AtHand, Heard
    <2>6. reply.seq <= maxSequenceNo
      BY <2>1, <2>4, <2>5 DEF LastSent, Sending
    <2>7. g_receiveCount + 1 \in Blocks /\ Block(reply.seq) = g_receiveCount + 1
      BY <2>1, <2>2, <2>3, <2>5, <2>6
    <2>8. rx[g_receiveCount + 1] = 0
      BY <1>2, <2>1, <2>7
    <2>9. g_receiveCount' = g_receiveCount + 1 /\ rx' = [rx EXCEPT ![g_receiveCount + 1] = clock + 1]
      BY <1>4, <2>7, <2>8 DEF RecordReply
    <2>10. \A b \in Blocks : rx'[b] = IF b = g_receiveCount + 1 THEN clock + 1 ELSE rx[b]
      BY <2>1, <2>9
    <2>11. \A b \in 1 .. g_receiveCount' : b \in Blocks
      BY <2>1, <2>3, <2>5, <2>6, <2>9
    <2>12. \A b \in Blocks : rx[b] \in Nat /\ b \in Nat
      BY <2>1, <2>3
    <2>13. \A b \in Blocks : rx'[b] # 0 <=> b \in 1 .. g_receiveCount'
      BY <1>2, <2>1, <2>9, <2>10, <2>12
    <2>14. \A b, c \in 1 .. g_receiveCount' : b < c => rx'[b] < rx'[c]
      <3>1. SUFFICES ASSUME NEW b \in 1 .. g_receiveCount', NEW c \in 1 .. g_receiveCount', b < c
                     PROVE  rx'[b] < rx'[c]
        OBVIOUS
      <3>2. b \in 1 .. g_receiveCount /\ rx'[b] = rx[b] /\ rx[b] <= clock /\ rx[b] \in Nat
        BY <3>1, <2>1, <2>4, <2>9, <2>10, <2>11, <2>12
      <3>3. CASE c = g_receiveCount + 1
        BY <3>2, <3>3, <2>1, <2>10, <2>11
      <3>4. CASE c # g_receiveCount + 1
        <4>1. c \in 1 .. g_receiveCount /\ rx'[c] = rx[c]
          BY <3>1, <3>4, <2>1, <2>9, <2>10, <2>11
        <4>2. QED BY <1>2, <3>1, <3>2, <4>1
      <3>5. QED BY <3>3, <3>4
    <2>15. QED BY <2>1, <2>5, <2>6, <2>9, <2>13, <2>14
  <1>5. CASE StampRequest \/ SetHeaderToHost \/ CheckReply
    BY <1>3, <1>5 DEF StampRequest, SetHeaderToHost, CheckReply, times
  <1>6. ASSUME Main \/ PeerCloses \/ Wait \/ Deliver \/ TimerExpires \/ Interrupt,
               ~StampRequest, ~SetHeaderToHost
        PROVE  UNCHANGED <<rx, g_receiveCount>>
    BY <1>6 DEF Main, Deliver, Initialize, times, InitBeforeLoop, ConnectSocket, StartConnect, ConnectCheck, SocketsReady, Warmup,
       StartReceiver, StartTimer, InitFails, StartBurst, SetHeaderToNetwork, SendTo,
       SendError, EndBurst, ReceiveDone, NothingRecorded, SkipObservation, CountObservation,
       LeaveLoop, Cleanup, PeerCloses, Receive, TimerExpires, Interrupt, Wait, EnterWait, WaitTimeout
  <1>7. QED BY <1>3, <1>4, <1>5, <1>6 DEF Next, Handle

\* The burst of ping-pong mode over a stream receives what it sent.
LEMMA BurstStep ==
    ASSUME TypeOK, TypeOK', TableInv, ReplyInv, BurstInv, InOrder, Next
    PROVE  BurstInv'
  <1> DEFINE rc == g_receiveCount
             Goal == /\ rc' <= LastSent'
                     /\ rpc' # "wait" => pc' = "receive"
                     /\ AtHand' => reply'.seq = rc' + 1
                     /\ ~g_b_exit' \/ rpc' = "blocked" => {m.seq : m \in replies'} = Unanswered' .. LastSent'
                     /\ pc' \in {"loop", "validate"} /\ ~g_b_exit' => rc' = LastSent'
                     /\ pc' \in Sending => i' < burst_size
                     /\ pc' \in {"burst"} \cup Sending =>
                          /\ i' <= burst_size
                          /\ LastSent' - rc' <= IF pc' = "sent" /\ ret' # "skipped" THEN i' + 1 ELSE i'
                     /\ pc' = "receive" => i' + (LastSent' - rc') <= burst_size
  <1>0. s_user_params' = s_user_params /\ pc \notin Errors
    BY DEF Next, Running
  <1>1. SUFFICES ASSUME PingStream, pc' \notin Errors
                 PROVE  Goal
    BY <1>0, SettingKept DEF BurstInv, Alive, AtHand, PingStream
  <1>2. /\ rc <= LastSent
        /\ rpc # "wait" => pc = "receive"
        /\ AtHand => reply.seq = rc + 1
        /\ ~g_b_exit \/ rpc = "blocked" => {m.seq : m \in replies} = Unanswered .. LastSent
        /\ pc \in {"loop", "validate"} /\ ~g_b_exit => rc = LastSent
        /\ pc \in Sending => i < burst_size
        /\ pc \in {"burst"} \cup Sending =>
             /\ i <= burst_size
             /\ LastSent - rc <= IF pc = "sent" /\ ret # "skipped" THEN i + 1 ELSE i
        /\ pc = "receive" => i + (LastSent - rc) <= burst_size
    BY <1>0, <1>1 DEF BurstInv, Alive
  <1>3. /\ seq \in Nat /\ rc \in Nat /\ i \in Nat /\ burst_size \in Nat
        /\ g_b_exit \in BOOLEAN /\ g_b_exit' \in BOOLEAN
        /\ Mode = "ping-pong" /\ Network = "stream" /\ ~Multicast /\ reply_every = 1
        /\ \E a \in Servers : Servers = {a}
        /\ replies \subseteq [seq : Nat, from : Servers \cup {"self"}]
    BY <1>1, SettingFacts DEF TypeOK, PingStream
  <1>4. LastSent \in Nat /\ LastSent' \in Nat /\ LastSent <= seq
        /\ IF pc = "sending" /\ pc' = "sent" /\ ret' # "skipped"
           THEN LastSent' = LastSent + 1 /\ LastSent' = seq ELSE LastSent' = LastSent
    BY <1>1, LastSentStep
  <1>5. pc \in Starting => seq = 0 /\ LastSent = 0 /\ rc = 0
    BY <1>0, <1>2, <1>3, <1>4 DEF TableInv, Alive
  <1>6. UNCHANGED <<rpc, g_receiveCount>> => Unanswered' = Unanswered /\ AtHand' = AtHand
    BY DEF Unanswered, AtHand
  \* Every step but those that follow leaves the replies alone.
  <1>7. ASSUME UNCHANGED <<g_receiveCount, rpc, reply, replies>>, g_b_exit => g_b_exit',
               ~(pc = "sending" /\ pc' = "sent"),
               rpc # "wait" => pc' = "receive",
               pc' \in {"loop", "validate"} /\ ~g_b_exit' => g_receiveCount = LastSent,
               pc' \in Sending => i' < burst_size,
               pc' \in {"burst"} \cup Sending =>
                  /\ i' <= burst_size
                  /\ LastSent - g_receiveCount <= IF pc' = "sent" /\ ret' # "skipped" THEN i' + 1 ELSE i',
               pc' = "receive" => i' + (LastSent - g_receiveCount) <= burst_size
        PROVE  Goal
    BY <1>2, <1>4, <1>6, <1>7
  <1>8. ASSUME UNCHANGED <<g_receiveCount, rpc, reply, replies>>, g_b_exit' = g_b_exit,
               pc \in Starting, pc' \in Starting \cup {"loop"}
        PROVE  Goal
    <2>1. rpc = "wait"
      BY <1>2, <1>8 DEF Starting
    <2>2. QED BY <1>5, <1>7, <1>8, <2>1 DEF Starting, Sending
  <1>9. CASE Initialize /\ ~Warmup
    <2> HIDE DEF Goal
    <2>1. CASE InitBeforeLoop
      BY <1>1, <1>8, <2>1 DEF InitBeforeLoop, times, receiver, network, Starting, Errors
    <2>2. CASE ConnectSocket
      BY <1>1, <1>8, <2>2 DEF ConnectSocket, times, receiver, network, Starting, Errors
    <2>3. CASE StartConnect
      BY <1>1, <1>8, <2>3 DEF StartConnect, times, receiver, network, Starting, Errors
    <2>4. ASSUME NEW ok \in BOOLEAN, ConnectCheck(ok)
          PROVE  Goal
      BY <1>1, <1>8, <2>4 DEF ConnectCheck, times, receiver, network, Starting, Errors
    <2>5. CASE SocketsReady
      BY <1>1, <1>8, <2>5 DEF SocketsReady, times, receiver, network, Starting, Errors
    <2>6. CASE StartReceiver
      BY <1>1, <1>8, <2>6 DEF StartReceiver, times, receiver, network, Starting, Errors
    <2>7. CASE StartTimer
      BY <1>1, <1>8, <2>7 DEF StartTimer, times, receiver, network, Starting, Errors
    <2>8. CASE InitFails
      BY <1>1, <1>8, <2>8 DEF InitFails, times, receiver, network, Starting, Errors
    <2>9. QED
      BY <1>9, <2>1, <2>2, <2>3, <2>4, <2>5, <2>6, <2>7, <2>8 DEF Initialize
  <1>10. CASE Warmup
    <2>1. UNCHANGED <<g_receiveCount, rpc, reply, g_b_exit>> /\ pc = "warmup" /\ pc' \in {"loop", "receiver"}
      BY <1>10 DEF Warmup, times, receiver
    <2>2. replies' = {}
      BY <1>3, <1>10 DEF Warmup
    <2>3. LastSent = 0 /\ LastSent' = 0 /\ rc = 0 /\ rpc = "wait"
      BY <1>2, <1>4, <1>5, <2>1 DEF Starting
    <2>4. {m.seq : m \in replies'} = Unanswered' .. LastSent'
      BY <2>1, <2>2, <2>3 DEF Unanswered, AtHand
    <2>5. QED BY <2>1, <2>3, <2>4 DEF Sending, AtHand
  <1>11. CASE StartBurst
    <2>1. /\ UNCHANGED <<g_receiveCount, rpc, reply, replies, g_b_exit>> /\ ~g_b_exit
          /\ pc = "loop" /\ pc' = "burst" /\ i' = 0
      BY <1>11 DEF StartBurst, times, receiver, network
    <2>2. QED BY <1>2, <1>3, <1>4, <1>7, <2>1 DEF Sending
  <1>12. CASE StampRequest
    <2>1. /\ UNCHANGED <<g_receiveCount, rpc, reply, replies, g_b_exit, i>> /\ i < burst_size
          /\ pc = "burst" /\ pc' = "stamped"
      BY <1>1, <1>3, <1>12 DEF StampRequest, receiver, network, Errors, BurstLength
    <2>2. QED BY <1>2, <1>3, <1>4, <1>7, <2>1 DEF Sending
  <1>13. CASE SetHeaderToNetwork
    <2>1. /\ UNCHANGED <<g_receiveCount, rpc, reply, replies, g_b_exit, i>>
          /\ pc = "stamped" /\ pc' = "sending"
      BY <1>13 DEF SetHeaderToNetwork, times, receiver, network
    <2>2. QED BY <1>2, <1>3, <1>4, <1>7, <2>1 DEF Sending
  <1>14. ASSUME NEW r \in {"sent", "skipped", "failed"}, SendTo(r)
         PROVE  Goal
    <2>1. /\ UNCHANGED <<g_receiveCount, rpc, reply, g_b_exit, i>>
          /\ pc = "sending" /\ pc' = "sent" /\ ret' = r
          /\ r = "failed" => g_b_exit
          /\ replies' = IF r = "sent" THEN replies \cup {[seq |-> seq, from |-> a] : a \in Senders(seq)}
                                      ELSE replies
      BY <1>3, <1>14 DEF SendTo, times, receiver
    <2>2. /\ rpc = "wait" /\ Unanswered' = Unanswered /\ Unanswered = rc + 1
          /\ ~AtHand' /\ rpc' # "blocked"
      BY <1>2, <2>1 DEF Unanswered, AtHand
    <2>3. ~g_b_exit' => {m.seq : m \in replies'} = Unanswered' .. LastSent'
      <3>1. CASE r = "sent" /\ ~g_b_exit
        <4>1. PICK a \in Servers : Servers = {a}
          BY <1>3
        <4>2. Senders(seq) = {a}
          BY <1>3, <4>1, BlockFacts DEF Senders, TypeOK
        <4>3. replies' = replies \cup {[seq |-> seq, from |-> a]}
          BY <2>1, <3>1, <4>2
        <4>4. {m.seq : m \in replies'} = {m.seq : m \in replies} \cup {seq}
          <5> DEFINE new == [seq |-> seq, from |-> a]
          <5>1. new.seq = seq
            OBVIOUS
          <5>2. replies' = replies \cup {new}
            BY <4>3
          <5> HIDE DEF new
          <5>3. QED BY <5>1, <5>2
        <4>5. {m.seq : m \in replies} = (rc + 1) .. LastSent /\ LastSent' = LastSent + 1 /\ LastSent' = seq
          BY <1>2, <1>4, <2>1, <2>2, <3>1
        <4>6. ((rc + 1) .. LastSent) \cup {LastSent + 1} = (rc + 1) .. (LastSent + 1)
          BY <1>2, <1>3, <1>4
        <4>7. QED BY <2>2, <4>4, <4>5, <4>6
      <3>2. CASE r = "skipped"
        BY <1>2, <1>4, <2>1, <2>2, <3>2
      <3>3. QED BY <2>1, <3>1, <3>2
    <2>4. QED BY <1>2, <1>3, <1>4, <2>1, <2>2, <2>3 DEF Sending
  <1>15. CASE SetHeaderToHost
    <2>1. /\ UNCHANGED <<g_receiveCount, rpc, reply, replies, g_b_exit>>
          /\ pc = "sent" /\ pc' = "burst" /\ i' = i + 1
      BY <1>15 DEF SetHeaderToHost, receiver, network
    <2>2. QED BY <1>2, <1>3, <1>4, <1>7, <2>1 DEF Sending
  <1>16. CASE EndBurst
    <2>1. /\ UNCHANGED <<g_receiveCount, rpc, reply, replies>>
          /\ g_b_exit' = g_b_exit
          /\ pc = "burst" /\ pc' = "receive" /\ i' = 0
      BY <1>3, <1>16 DEF EndBurst, times, receiver, network
    <2>2. QED BY <1>2, <1>3, <1>4, <1>7, <2>1 DEF Sending
  <1>17. CASE ReceiveDone
    <2>1. /\ UNCHANGED <<g_receiveCount, rpc, reply, replies, g_b_exit>> /\ rpc = "wait"
          /\ i >= burst_size \/ g_b_exit
          /\ pc = "receive" /\ pc' \in {"validate", "loop"}
      BY <1>17 DEF ReceiveDone, times, receiver, network
    <2>2. ~g_b_exit => rc = LastSent
      BY <1>2, <1>3, <1>4, <2>1
    <2>3. QED BY <1>7, <2>1, <2>2 DEF Sending
  <1>18. CASE NothingRecorded \/ SkipObservation \/ \E cap \in WaitingCaps : CountObservation(cap)
    <2>1. /\ UNCHANGED <<g_receiveCount, rpc, reply, replies>> /\ (g_b_exit => g_b_exit')
          /\ pc = "validate" /\ pc' = "loop"
      <3>1. CASE NothingRecorded
        BY <3>1 DEF NothingRecorded, times, receiver, network
      <3>2. CASE SkipObservation
        BY <3>2 DEF SkipObservation, times, receiver, network
      <3>3. ASSUME NEW cap \in WaitingCaps, CountObservation(cap)
            PROVE  /\ UNCHANGED <<g_receiveCount, rpc, reply, replies>> /\ (g_b_exit => g_b_exit')
                   /\ pc = "validate" /\ pc' = "loop"
        BY <3>3 DEF CountObservation, times, receiver, network
      <3>4. QED BY <1>18, <3>1, <3>2, <3>3
    <2>2. rpc = "wait" /\ (~g_b_exit' => rc = LastSent)
      BY <1>2, <1>3, <2>1
    <2>3. QED BY <1>7, <2>1, <2>2 DEF Sending
  <1>19. CASE LeaveLoop \/ Cleanup
    <2>1. /\ UNCHANGED <<g_receiveCount, rpc, reply, replies, g_b_exit>>
          /\ pc \in {"loop", "cleanup"} /\ pc' \in {"cleanup", "done"}
      BY <1>19 DEF LeaveLoop, Cleanup, times, receiver, network
    <2>2. QED BY <1>2, <1>7, <2>1 DEF Sending
  <1>20. CASE SendError \/ PeerCloses
    BY <1>1, <1>20 DEF SendError, PeerCloses, Errors
  <1>21. ASSUME NEW m \in replies, Receive(m)
         PROVE  Goal
    <2>1. /\ UNCHANGED <<g_receiveCount, g_b_exit, pc, i, ret>>
          /\ rpc = "blocked" /\ rpc' = "handle" /\ reply' = m /\ replies' = replies \ {m}
          /\ pc = "receive"
          /\ \A o \in replies : m.seq <= o.seq
      BY <1>2, <1>3, <1>21 DEF Receive, Arrives, times
    <2>2. {o.seq : o \in replies} = (rc + 1) .. LastSent /\ Unanswered' = rc + 2
      BY <1>2, <2>1 DEF Unanswered, AtHand
    <2>3. m.seq = rc + 1 /\ rc + 1 <= LastSent
      <3>1. m.seq \in (rc + 1) .. LastSent
        BY <2>2
      <3>2. rc + 1 \in (rc + 1) .. LastSent
        BY <1>3, <1>4, <3>1
      <3>3. PICK o \in replies : o.seq = rc + 1
        BY <2>2, <3>2
      <3>4. QED BY <1>3, <1>4, <2>1, <3>1, <3>3
    <2>4. \A o \in replies : o.seq = m.seq => o = m
      <3>1. \A o \in replies : o.from # "self"
        BY <1>0, <1>3 DEF ReplyInv, Alive, Heard
      <3>2. \A o \in replies : o.from = m.from
        BY <1>3, <3>1
      <3>3. QED BY <1>3, <3>2
    <2>5. {o.seq : o \in replies'} = (rc + 2) .. LastSent
      <3>1. {o.seq : o \in replies'} = {o.seq : o \in replies} \ {m.seq}
        BY <2>1, <2>4
      <3>2. QED BY <1>3, <1>4, <2>2, <2>3, <3>1
    <2>6. QED BY <1>2, <1>3, <1>4, <2>1, <2>2, <2>3, <2>5 DEF Sending
  <1>22. CASE CheckReply
    <2>1. /\ UNCHANGED <<g_receiveCount, g_b_exit, pc, i, ret, reply, replies>>
          /\ rpc = "handle" /\ rpc' = IF g_b_exit \/ reply.from = "self" THEN "wait" ELSE "record"
      BY <1>1, <1>22 DEF CheckReply, times, network, Errors
    <2>2. ~g_b_exit => rpc' = "record" /\ Unanswered' = Unanswered
      <3>1. reply.from # "self"
        BY <1>0, <1>3, <2>1 DEF ReplyInv, Alive, AtHand, Heard
      <3>2. QED BY <2>1, <3>1 DEF Unanswered, AtHand
    <2>3. AtHand /\ rpc' # "blocked"
      BY <2>1 DEF AtHand
    <2>4. QED BY <1>2, <1>3, <1>4, <2>1, <2>2, <2>3 DEF Sending
  <1>23. CASE RecordReply
    <2>1. /\ UNCHANGED <<g_b_exit, pc, ret, replies>>
          /\ rpc = "record" /\ rpc' = "wait" /\ pc = "receive" /\ i' = i + 1
          /\ reply.seq = rc + 1 /\ reply.seq <= LastSent
      BY <1>0, <1>2, <1>3, <1>23 DEF RecordReply, network, ReplyInv, Alive, AtHand, Heard
    <2>2. rc' = rc + 1
      <3>1. Block(reply.seq) = rc + 1
        BY <1>3, <2>1, BlockFacts DEF TypeOK
      <3>2. rc + 1 \in Blocks
        <4>1. seq <= maxSequenceNo /\ maxSequenceNo \in Nat /\ Blocks = 0 .. maxSequenceNo
          BY <1>0, <1>3, BlockFacts, SettingFacts DEF TableInv, Alive, Blocks, TypeOK
        <4>2. QED BY <1>3, <1>4, <2>1, <4>1
      <3>3. rx[rc + 1] = 0
        BY <1>1, <1>3, <3>2 DEF InOrder
      <3>4. QED BY <1>23, <3>1, <3>3 DEF RecordReply
    <2>3. Unanswered' = Unanswered /\ ~AtHand'
      BY <1>3, <2>1, <2>2 DEF Unanswered, AtHand
    <2>4. QED BY <1>2, <1>3, <1>4, <2>1, <2>2, <2>3 DEF Sending
  \* The wait begins before the test is over, and ends with nothing received.
  <1>24. ASSUME UNCHANGED <<g_receiveCount, reply, replies, pc, i, ret>>, g_b_exit => g_b_exit',
                \/ rpc' = "wait"
                \/ rpc' = rpc
                \/ rpc' = "blocked" /\ pc = "receive" /\ ~g_b_exit,
                rpc' # rpc => ~AtHand
         PROVE  Goal
    <2>1. Unanswered' = Unanswered /\ (AtHand' => AtHand)
      BY <1>24 DEF Unanswered, AtHand
    <2>2. QED BY <1>2, <1>3, <1>4, <1>24, <2>1 DEF Sending
  <1>25. CASE TimerExpires \/ Interrupt
    <2>1. /\ UNCHANGED <<g_receiveCount, reply, replies, pc, i, ret>> /\ g_b_exit'
          /\ rpc' = rpc \/ (rpc = "blocked" /\ rpc' = "wait")
      BY <1>1, <1>25 DEF TimerExpires, Interrupt, Signal, times, network, Errors
    <2>2. rpc' # rpc => ~AtHand
      BY <2>1 DEF AtHand
    <2> HIDE DEF Goal
    <2>3. QED BY <1>24, <2>1, <2>2
  <1>26. CASE Wait
    <2>1. /\ UNCHANGED <<g_receiveCount, reply, replies, pc, i, ret, g_b_exit>>
          /\ rpc \in {"wait", "blocked"}
          /\ rpc' = "wait" \/ (rpc' = "blocked" /\ pc = "receive" /\ ~g_b_exit)
      BY <1>3, <1>26 DEF Wait, EnterWait, WaitTimeout, Receiving, times, network
    <2>2. ~AtHand
      BY <2>1 DEF AtHand
    <2> HIDE DEF Goal
    <2>3. QED BY <1>24, <2>1, <2>2
  <1>27. QED
    <2> HIDE DEF Goal
    <2>1. QED
      BY <1>9, <1>10, <1>11, <1>12, <1>13, <1>14, <1>15, <1>16, <1>17, <1>18, <1>19, <1>20, <1>21, <1>22,
         <1>23, <1>25, <1>26 DEF Next, Main, Handle, Deliver

\* The number based loop looks only at packets that were recorded.
LEMMA CountStep ==
    ASSUME TypeOK, TypeOK', CountInv, Next
    PROVE  CountInv'
  <1>0. s_user_params' = s_user_params
    BY DEF Next
  <1>1. /\ counterValid \in Nat /\ seqNo \in Nat /\ g_receiveCount \in Nat
        /\ counterValid <= seqNo /\ seqNo <= g_receiveCount
        /\ pc = "validate" => Measurement = "NUMBER_BASED"
        /\ counterValid > 0 => Mode = "ping-pong"
    BY DEF CountInv, TypeOK
  <1>2. Mode' = Mode /\ Measurement' = Measurement /\ (Measurement = "NUMBER_BASED" => Mode = "ping-pong")
    BY <1>0, SettingKept, SettingFacts DEF TypeOK
  <1>3. ASSUME UNCHANGED <<counterValid, seqNo>>, g_receiveCount' \in {g_receiveCount, g_receiveCount + 1},
               pc' = "validate" => pc = "validate" \/ Measurement = "NUMBER_BASED"
        PROVE  CountInv'
    BY <1>1, <1>2, <1>3 DEF CountInv
  <1>4. CASE SkipObservation
    <2>1. /\ g_receiveCount # seqNo /\ UNCHANGED <<counterValid, g_receiveCount>>
          /\ seqNo' = seqNo + 1 /\ pc' = "loop"
      BY <1>4 DEF SkipObservation, times
    <2>2. QED BY <1>1, <1>2, <2>1 DEF CountInv
  <1>5. ASSUME NEW cap \in WaitingCaps, CountObservation(cap)
        PROVE  CountInv'
    <2>1. /\ g_receiveCount # seqNo /\ g_receiveCount' = g_receiveCount /\ pc = "validate"
          /\ seqNo' = seqNo + 1 /\ counterValid' = counterValid + 1 /\ pc' = "loop"
      BY <1>5 DEF CountObservation, times
    <2>2. QED BY <1>1, <1>2, <2>1 DEF CountInv
  <1>6. CASE RecordReply
    BY <1>3, <1>6 DEF RecordReply, loopVars
  <1>7. CASE CheckReply
    <2>1. UNCHANGED <<counterValid, seqNo, g_receiveCount>> /\ (pc' = pc \/ pc' = "unexpected")
      BY <1>7 DEF CheckReply, times, loopVars
    <2>2. QED BY <1>1, <1>3, <2>1
  <1>8. ASSUME Main \/ PeerCloses \/ Wait \/ Deliver \/ TimerExpires \/ Interrupt,
               ~SkipObservation, \A cap \in WaitingCaps : ~CountObservation(cap)
        PROVE  CountInv'
    <2>1. CASE InitBeforeLoop
      BY <1>1, <1>3, <2>1 DEF InitBeforeLoop, times, loopVars
    <2>2. CASE ConnectSocket
      BY <1>1, <1>3, <2>2 DEF ConnectSocket, times, loopVars
    <2>3. CASE StartConnect
      BY <1>1, <1>3, <2>3 DEF StartConnect, times, loopVars
    <2>4. ASSUME NEW ok \in BOOLEAN, ConnectCheck(ok)
          PROVE  CountInv'
      BY <1>1, <1>3, <2>4 DEF ConnectCheck, times, loopVars
    <2>5. CASE SocketsReady
      BY <1>1, <1>3, <2>5 DEF SocketsReady, times, loopVars
    <2>6. CASE Warmup
      BY <1>1, <1>3, <2>6 DEF Warmup, times, loopVars
    <2>7. CASE StartReceiver
      BY <1>1, <1>3, <2>7 DEF StartReceiver, times, loopVars
    <2>8. CASE StartTimer
      BY <1>1, <1>3, <2>8 DEF StartTimer, times, loopVars
    <2>9. CASE InitFails
      BY <1>1, <1>3, <2>9 DEF InitFails, times, loopVars
    <2>10. CASE StartBurst
      BY <1>1, <1>3, <2>10 DEF StartBurst, times, loopVars
    <2>11. CASE StampRequest
      BY <1>1, <1>3, <2>11 DEF StampRequest, times, loopVars
    <2>12. CASE SetHeaderToNetwork
      BY <1>1, <1>3, <2>12 DEF SetHeaderToNetwork, times, loopVars
    <2>13. ASSUME NEW r \in {"sent", "skipped", "failed"}, SendTo(r)
          PROVE  CountInv'
      BY <1>1, <1>3, <2>13 DEF SendTo, times, loopVars
    <2>14. CASE SendError
      BY <1>1, <1>3, <2>14 DEF SendError, times, loopVars
    <2>15. CASE SetHeaderToHost
      BY <1>1, <1>3, <2>15 DEF SetHeaderToHost, times, loopVars
    <2>16. CASE EndBurst
      BY <1>1, <1>3, <2>16 DEF EndBurst, times, loopVars
    <2>17. CASE ReceiveDone
      BY <1>1, <1>3, <2>17 DEF ReceiveDone, times, loopVars
    <2>18. CASE NothingRecorded
      BY <1>1, <1>3, <2>18 DEF NothingRecorded, times, loopVars
    <2>19. CASE LeaveLoop
      BY <1>1, <1>3, <2>19 DEF LeaveLoop, times, loopVars
    <2>20. CASE Cleanup
      BY <1>1, <1>3, <2>20 DEF Cleanup, times, loopVars
    <2>21. CASE PeerCloses
      BY <1>1, <1>3, <2>21 DEF PeerCloses, times, loopVars
    <2>22. ASSUME NEW m \in replies, Receive(m)
          PROVE  CountInv'
      BY <1>1, <1>3, <2>22 DEF Receive, times, loopVars
    <2>23. CASE TimerExpires
      BY <1>1, <1>3, <2>23 DEF TimerExpires, times, loopVars
    <2>24. CASE Interrupt
      BY <1>1, <1>3, <2>24 DEF Interrupt, times, loopVars
    <2>25. CASE Wait
      BY <1>1, <1>3, <2>25 DEF Wait, EnterWait, WaitTimeout, times, loopVars
    <2>26. QED
      BY <1>8, <2>1, <2>2, <2>3, <2>4, <2>5, <2>6, <2>7, <2>8, <2>9, <2>10, <2>11, <2>12, <2>13,
       <2>14, <2>15, <2>16, <2>17, <2>18, <2>19, <2>20, <2>21, <2>22, <2>23, <2>24, <2>25
         DEF Main, Initialize, Deliver
  <1>9. QED
    BY <1>4, <1>5, <1>6, <1>7, <1>8 DEF Next, Handle

-----------------------------------------------------------------------------
\* The inductive invariant.
Inv == TypeOK /\ ConnInv /\ TableInv /\ ReplyInv /\ InOrder /\ BurstInv /\ CountInv

\* The invariant holds initially and every step keeps it.
LEMMA Inductive == Spec => []Inv
  <1>1. Init => Inv
    <2>1. SUFFICES ASSUME Init PROVE Inv
      OBVIOUS
    <2>2. s_user_params \in Settings
      BY <2>1 DEF Init
    <2>3. /\ \A s \in Nat : Block(s) \in Nat
          /\ \A s, u \in Nat : s <= u => Block(s) <= Block(u)
          /\ reply_every = 1 => \A s \in Nat : Block(s) = s
      BY <2>2, BlockFacts
    <2>4. TypeOK
      BY <2>1, <2>2 DEF Init, TypeOK, NoReply
    <2>5. ConnInv
      BY <2>1 DEF Init, ConnInv, Sending
    <2>6. TableInv
      <3>1. maxSequenceNo \in Nat
        BY <2>2, SettingFacts
      <3>2. Block(0) <= Block(maxSequenceNo)
        BY <2>3, <3>1
      <3>3. Block(0) = 0
        <4>1. Block(0) \in Nat /\ 0 * reply_every = 0
          BY <2>2, <2>3, SettingFacts
        <4>2. QED BY <2>2, SettingFacts, DivMod DEF Block
      <3>4. \A b \in Blocks : b \in Nat /\ tx[b] = 0 /\ rx[b] = 0
        BY <2>1, <2>3, <3>1 DEF Init, Blocks
      <3>5. QED BY <2>1, <3>2, <3>3, <3>4 DEF Init, TableInv, Sending, Starting
    <2>7. ReplyInv
      BY <2>1 DEF Init, ReplyInv, AtHand
    <2>8. InOrder
      BY <2>1, <2>2, SettingFacts DEF Init, InOrder
    <2>9. BurstInv
      BY <2>1 DEF Init, BurstInv, Sending, LastSent, Unanswered, AtHand
    <2>10. CountInv
      BY <2>1 DEF Init, CountInv
    <2>11. QED BY <2>4, <2>5, <2>6, <2>7, <2>8, <2>9, <2>10 DEF Inv
  <1>2. Inv /\ [Next]_vars => Inv'
    <2>1. SUFFICES ASSUME Inv, [Next]_vars PROVE Inv'
      OBVIOUS
    <2>2. CASE Next
      <3>1. TypeOK'
        BY <2>1, <2>2, TypeStep DEF Inv
      <3>2. ConnInv' /\ TableInv' /\ ReplyInv' /\ InOrder' /\ BurstInv' /\ CountInv'
        BY <2>1, <2>2, <3>1, ConnStep, TableStep, ReplyStep, InOrderStep, BurstStep, CountStep DEF Inv
      <3>3. QED BY <3>1, <3>2 DEF Inv
    <2>3. CASE UNCHANGED vars
      <3>1. /\ UNCHANGED <<s_user_params, seq, order, tx, rx, dup, g_receiveCount, g_skipCount, g_b_exit>>
            /\ UNCHANGED <<clock, timer, fd, connected, m_receiverTid, pc, i, ret, seqNo, counterValid>>
            /\ UNCHANGED <<prevRxTime, rpc, reply, replies, copies>>
        BY <2>3 DEF vars
      <3>2. /\ Mode' = Mode /\ Network' = Network /\ Servers' = Servers /\ Multicast' = Multicast
            /\ Measurement' = Measurement /\ Sockets' = Sockets /\ Blocks' = Blocks
            /\ maxSequenceNo' = maxSequenceNo /\ reply_every' = reply_every /\ burst_size' = burst_size
            /\ LastSent' = LastSent /\ Unanswered' = Unanswered /\ AtHand' = AtHand
        BY <3>1, SettingKept DEF LastSent, Unanswered, AtHand
      <3>3. TypeOK'
        BY <2>1, <3>1, <3>2 DEF Inv, TypeOK
      <3>4. ConnInv'
        BY <2>1, <3>1, <3>2 DEF Inv, ConnInv
      <3>5. TableInv'
        BY <2>1, <3>1, <3>2 DEF Inv, TableInv, Block, Alive
      <3>6. ReplyInv'
        BY <2>1, <3>1, <3>2 DEF Inv, ReplyInv, Block, Alive, Heard, Pong
      <3>7. InOrder'
        BY <2>1, <3>1, <3>2 DEF Inv, InOrder, PingStream
      <3>8. BurstInv'
        BY <2>1, <3>1, <3>2 DEF Inv, BurstInv, PingStream, Alive
      <3>9. CountInv'
        BY <2>1, <3>1, <3>2 DEF Inv, CountInv
      <3>10. QED BY <3>3, <3>4, <3>5, <3>6, <3>7, <3>8, <3>9 DEF Inv
    <2>4. QED BY <2>1, <2>2, <2>3
  <1>3. QED
    BY <1>1, <1>2, PTL DEF Spec

-----------------------------------------------------------------------------
(* The theorems. *)

\* Every variable of the client keeps its type; in particular a sequence number that
\* client_send_packet() takes back never becomes negative, and no socket beyond the
\* set is connected.
THEOREM TypeCorrect == Spec => []TypeOK
  <1>1. Inv => TypeOK
    BY DEF Inv
  <1>2. QED BY <1>1, Inductive, PTL

\* No message is sent before every socket has been bound and connected, whatever
\* fails, is late or is interrupted in initBeforeLoop().
THEOREM SendsOnlyConnected == Spec => []SendsConnected
  <1>1. Inv => SendsConnected
    BY DEF Inv, ConnInv, Sending, SendsConnected
  <1>2. QED BY <1>1, Inductive, PTL

\* No reply is recorded without a send time or before it, and none looks ahead of the
\* requests, although the receiver reads the header while the sender changes its byte
\* order and the table without a lock.
THEOREM NoNegativeLatency == Spec => []RxAfterTx
  <1>1. Inv => RxAfterTx
    BY DEF Inv, ReplyInv, RxAfterTx
  <1>2. QED BY <1>1, Inductive, PTL

\* Between two sends the table has a send time for exactly the pong requests so far,
\* in sending order, whatever was skipped.
THEOREM TableComplete == Spec => []TxTable
  <1>1. Inv => TxTable
    <2>1. SUFFICES ASSUME Inv, pc \in {"loop", "burst", "receive", "validate", "cleanup", "done"}
                   PROVE  /\ \A b \in Blocks : tx[b] # 0 <=> b > 0 /\ b * reply_every <= seq
                          /\ \A b, c \in Blocks : b < c /\ tx[c] # 0 => tx[b] < tx[c]
      BY DEF TxTable
    <2>2. /\ \A b \in Blocks : tx[b] # 0 <=> b > 0 /\ b <= Block(seq)
          /\ \A b, c \in Blocks : b < c /\ tx[c] # 0 => tx[b] < tx[c]
      BY <2>1 DEF Inv, TableInv, Alive, Errors
    <2>3. \A b \in Blocks : b * reply_every <= seq <=> b <= Block(seq)
      <3>1. maxSequenceNo \in Nat /\ seq \in Nat /\ s_user_params \in Settings
        BY <2>1, SettingFacts DEF Inv, TypeOK
      <3>2. Block(maxSequenceNo) \in Nat
        BY <3>1, BlockFacts
      <3>3. \A b \in Blocks : b \in Nat
        BY <3>2 DEF Blocks
      <3>4. QED BY <3>1, <3>3, BlockFacts
    <2>4. QED BY <2>2, <2>3
  <1>2. QED BY <1>1, Inductive, PTL

\* In ping-pong over a stream every burst ends with all its replies and nothing left
\* for the next one.
THEOREM BurstsInLockstep == Spec => []Lockstep
  <1>1. Inv => Lockstep
    <2>1. SUFFICES ASSUME Inv, PingStream, pc \in {"loop", "validate"}, ~g_b_exit
                   PROVE  replies = {} /\ \A b \in Blocks : tx[b] # 0 => rx[b] # 0
      BY DEF Lockstep, PingStream
    <2>2. /\ g_receiveCount = LastSent /\ LastSent = seq /\ rpc = "wait"
          /\ {m.seq : m \in replies} = Unanswered .. LastSent
      BY <2>1 DEF Inv, BurstInv, Alive, Errors, LastSent
    <2>3. seq \in Nat /\ reply_every = 1 /\ maxSequenceNo \in Nat /\ s_user_params \in Settings
      BY <2>1, SettingFacts DEF Inv, TypeOK, PingStream
    <2>4. Block(seq) = seq /\ Blocks = 0 .. maxSequenceNo
      BY <2>3, BlockFacts DEF Blocks
    <2>5. replies = {}
      <3>1. Unanswered = seq + 1
        BY <2>2 DEF Unanswered, AtHand
      <3>2. (seq + 1) .. seq = {}
        BY <2>3
      <3>3. {m.seq : m \in replies} = {}
        BY <2>2, <3>1, <3>2
      <3>4. QED BY <3>3
    <2>6. \A b \in Blocks : tx[b] # 0 => b > 0 /\ b <= seq
      BY <2>1, <2>4 DEF Inv, TableInv, Alive, Errors
    <2>7. \A b \in Blocks : tx[b] # 0 => rx[b] # 0
      BY <2>1, <2>2, <2>3, <2>4, <2>6 DEF Inv, InOrder
    <2>8. QED BY <2>5, <2>7
  <1>2. QED BY <1>1, Inductive, PTL

\* A number based test over a stream that ends by itself has observed its target, in
\* the order of the requests.
THEOREM TargetObserved == Spec => []TargetReached
  <1>1. Inv => TargetReached
    <2>1. SUFFICES ASSUME Inv, counterValid = stopCounting, Network = "stream",
                          NEW b \in (warmup_num + 1) .. (warmup_num + number_test_target)
                   PROVE  rx[b] # 0 /\ (b > 1 => rx[b - 1] < rx[b])
      BY DEF TargetReached
    <2>2. /\ warmup_num \in Nat /\ number_test_target \in Nat /\ cooldown_num \in Nat
          /\ maxSequenceNo \in Nat /\ g_receiveCount \in Nat /\ counterValid \in Nat /\ seqNo \in Nat
          /\ s_user_params \in Settings
      BY <2>1, SettingFacts DEF Inv, TypeOK
    <2>3. counterValid > 0 /\ counterValid <= g_receiveCount /\ Mode = "ping-pong"
      BY <2>1, <2>2 DEF Inv, CountInv, stopCounting
    <2>4. b \in 1 .. g_receiveCount
      BY <2>1, <2>2, <2>3 DEF stopCounting
    <2>5. PingStream /\ reply_every = 1
      BY <2>1, <2>2, <2>3, SettingFacts DEF PingStream
    <2>6. /\ g_receiveCount <= maxSequenceNo
          /\ \A c \in Blocks : rx[c] # 0 <=> c \in 1 .. g_receiveCount
          /\ \A c, d \in 1 .. g_receiveCount : c < d => rx[c] < rx[d]
      BY <2>1, <2>5 DEF Inv, InOrder
    <2>7. b \in Blocks
      BY <2>2, <2>4, <2>5, <2>6, BlockFacts DEF Blocks
    <2>8. b > 1 => b - 1 \in 1 .. g_receiveCount /\ b - 1 < b
      BY <2>2, <2>4
    <2>9. QED BY <2>4, <2>6, <2>7, <2>8
  <1>2. QED BY <1>1, Inductive, PTL
=============================================================================
