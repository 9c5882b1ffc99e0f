-------------------------- MODULE ClientStatistics --------------------------
(***************************************************************************)
(* client_statistics() (client.cpp): the pass over PacketTimes that turns  *)
(* the send and receive times of one server into observations and counts   *)
(* dropped and out-of-order messages.                                      *)
(*                                                                         *)
(* cleanupAfterLoop() does not wait for the receiver thread, which may     *)
(* still be recording the reply it was handling when the test ended:       *)
(* `late' is the request of that reply.  The tables are those the module   *)
(* Client leaves behind (its invariants TxTable and RxAfterTx).            *)
(***************************************************************************)
EXTENDS Integers, Sequences, FiniteSets

CONSTANTS Settings,   \* what s_user_params may be
          Others,     \* numbers of replies recorded for other servers
          MaxTime     \* bound: the clock

\* Warm-up and cool-down are in clock units.  Only a ping-pong test is number
\* based; it answers every request, and its table has room for more requests
\* than warm-up and test need (sockperf.cpp:3742).
ASSUME StatisticsAssumption ==
    /\ \A s \in Settings :
          /\ s.measurement \in {"TIME_BASED", "NUMBER_BASED"}
          /\ s.playback \in BOOLEAN
          /\ s.reply_every \in Nat \ {0} /\ s.maxSequenceNo \in Nat
          /\ s.warmup \in Nat /\ s.cooldown \in Nat \ {0}
          /\ s.warmup_num \in Nat /\ s.number_test_target \in Nat
          /\ s.measurement = "NUMBER_BASED" =>
                /\ ~s.playback /\ s.reply_every = 1
                /\ s.warmup_num + s.number_test_target < s.maxSequenceNo
    /\ Others \subseteq Nat /\ MaxTime \in Nat

VARIABLES
    s_user_params,   \* the setting of this run
    tx, rx,          \* PacketTimes, the column of this server
    sendCount,       \* the number of the last message sent
    g_receiveCount,  \* replies recorded, of all servers
    late,            \* the block of the reply still being recorded, or 0
    pc,
    SIZE,            \* g_receiveCount when the statistics started
    k,               \* the block looked at
    pLat,            \* round trip times of the observations; counter is its length
    dropped, ooo,    \* ArrivalErrors
    startValidTime, endValidTime, startValidSeqNo, endValidSeqNo, prevRxTime

tables == <<s_user_params, tx, rx, sendCount, g_receiveCount, late>>
valid == <<startValidTime, endValidTime, startValidSeqNo, endValidSeqNo>>
vars == <<s_user_params, tx, rx, sendCount, g_receiveCount, late, pc, SIZE, k, pLat, dropped, ooo,
          startValidTime, endValidTime, startValidSeqNo, endValidSeqNo, prevRxTime>>

-----------------------------------------------------------------------------
Measurement == s_user_params.measurement
Playback == s_user_params.playback
reply_every == s_user_params.reply_every
maxSequenceNo == s_user_params.maxSequenceNo  \* the table holds the requests up to this one
TEST_START_WARMUP == s_user_params.warmup
TEST_END_COOLDOWN == s_user_params.cooldown
warmup_num == s_user_params.warmup_num
number_test_target == s_user_params.number_test_target

Blocks == 1 .. (maxSequenceNo \div reply_every)
Time == 0 .. MaxTime

\* The tables a test leaves: the first requests have send times, in order; a
\* reply is not before its request; the late reply is one of a request sent.
TxTables == {t \in [Blocks -> Time] :
                \A b, c \in Blocks : b < c /\ t[c] # 0 => t[b] # 0 /\ t[b] <= t[c]}

RxTables(t) == {r \in [Blocks -> Time] : \A b \in Blocks : r[b] # 0 => t[b] # 0 /\ t[b] <= r[b]}

Sent(t) == {b \in Blocks : t[b] # 0}
Received(r) == {b \in Blocks : r[b] # 0}

\* The last pong request: the block of the last message sent, which need not be one.
Last == CHOOSE b \in Sent(tx) : \A c \in Sent(tx) : c <= b

Init ==
    /\ s_user_params \in Settings
    /\ tx \in TxTables
    /\ Sent(tx) # {}
    /\ sendCount \in Last * reply_every .. (Last + 1) * reply_every - 1
    /\ rx \in RxTables(tx)
    /\ \E o \in Others : g_receiveCount = Cardinality(Received(rx)) + o
    /\ late \in Sent(tx) \cup {0}
    /\ pc = "begin"
    /\ SIZE = 0 /\ k = 0 /\ pLat = <<>> /\ dropped = 0 /\ ooo = 0
    /\ startValidTime = 0 /\ endValidTime = 0
    /\ startValidSeqNo = 0 /\ endValidSeqNo = 0
    /\ prevRxTime = 0

-----------------------------------------------------------------------------
\* The receiver thread finishes handle_message(): setRxTime().
RecordLate ==
    /\ late # 0
    /\ IF rx[late] = 0
       THEN /\ rx' = [rx EXCEPT ![late] = MaxTime]
            /\ g_receiveCount' = g_receiveCount + 1
       ELSE UNCHANGED <<rx, g_receiveCount>>
    /\ late' = 0
    /\ UNCHANGED <<s_user_params, tx, sendCount, pc, SIZE, k, pLat, dropped, ooo, valid, prevRxTime>>

\* The interval of send times that count.  Blocks of time at both ends of the
\* test do not, unless it is a playback or a number based test.
Trimmed == Measurement = "TIME_BASED" /\ ~Playback
testStart == tx[1] + (IF Trimmed THEN TEST_START_WARMUP ELSE 0)
testEnd == tx[Last] - (IF Trimmed THEN TEST_END_COOLDOWN ELSE 0)

startSearchHere == 1 + (IF Measurement = "NUMBER_BASED" THEN warmup_num ELSE 0)

\* Asking for the send time of the last message ends the program when the table
\* has no such message.
Begin ==
    /\ pc = "begin"
    /\ SIZE' = g_receiveCount
    /\ k' = startSearchHere
    /\ pc' = IF g_receiveCount = 0 THEN "nothing"
             ELSE IF sendCount > maxSequenceNo THEN "exceeded"
             ELSE IF testEnd < testStart THEN "nothing"
             ELSE "search"
    /\ UNCHANGED <<tables, pLat, dropped, ooo, valid, prevRxTime>>

\* Mutant: the shared count is read again in every iteration.
SearchingShared == pc = "search" /\ Len(pLat) < g_receiveCount

\* The head of the loop, and PacketTimes::seq2index(), which ends the program
\* when the table has no such request.
Searching == pc = "search" /\ Len(pLat) < SIZE
InTable == k * reply_every <= maxSequenceNo

Exceeded ==
    /\ Searching /\ ~InTable
    /\ pc' = "exceeded"
    /\ UNCHANGED <<tables, SIZE, k, pLat, dropped, ooo, valid, prevRxTime>>

\* Mutant: the number of packets asked for does not end the loop.
BeyondTimeOnly(b) == tx[b] > testEnd \/ tx[b] = 0

\* The two breaks, and the end of the loop.
Beyond(b) ==
    \/ tx[b] > testEnd \/ tx[b] = 0
    \/ Measurement = "NUMBER_BASED" /\ b * reply_every >= startSearchHere + number_test_target

EndSearch ==
    /\ pc = "search"
    /\ Len(pLat) < SIZE => InTable /\ Beyond(k)
    /\ pc' = "done"
    /\ UNCHANGED <<tables, SIZE, k, pLat, dropped, ooo, valid, prevRxTime>>

\* A message of the warm-up.
SkipEarly ==
    /\ Searching /\ InTable /\ ~Beyond(k)
    /\ tx[k] < testStart
    /\ k' = k + 1
    /\ UNCHANGED <<tables, pc, SIZE, pLat, dropped, ooo, valid, prevRxTime>>

\* Mutant: the start of the valid interval moves with every message.
InspectRestart ==
    /\ Searching /\ InTable /\ ~Beyond(k)
    /\ tx[k] >= testStart
    /\ k' = k + 1
    /\ startValidSeqNo' = k * reply_every
    /\ startValidTime' = tx[k]
    /\ UNCHANGED <<tables, pc, SIZE>>

Inspect ==
    /\ Searching /\ InTable /\ ~Beyond(k)
    /\ tx[k] >= testStart
    /\ k' = k + 1
    /\ startValidSeqNo' = IF startValidSeqNo = 0 THEN k * reply_every ELSE startValidSeqNo
    /\ startValidTime' = IF startValidSeqNo = 0 THEN tx[k] ELSE startValidTime
    /\ UNCHANGED <<tables, pc, SIZE>>

CountDropped ==
    /\ Inspect
    /\ rx[k] = 0
    /\ dropped' = dropped + 1
    /\ endValidSeqNo' = IF endValidTime < tx[k] THEN k * reply_every ELSE endValidSeqNo
    /\ endValidTime' = IF endValidTime < tx[k] THEN tx[k] ELSE endValidTime
    /\ UNCHANGED <<pLat, ooo, prevRxTime>>

\* Mutant: a late reply becomes the one to compare with.
CountOutOfOrderMoves ==
    /\ Inspect
    /\ rx[k] # 0 /\ rx[k] < prevRxTime
    /\ ooo' = ooo + 1
    /\ prevRxTime' = rx[k]
    /\ UNCHANGED <<pLat, dropped, endValidTime, endValidSeqNo>>

CountOutOfOrder ==
    /\ Inspect
    /\ rx[k] # 0 /\ rx[k] < prevRxTime
    /\ ooo' = ooo + 1
    /\ UNCHANGED <<pLat, dropped, endValidTime, endValidSeqNo, prevRxTime>>

Observe ==
    /\ Inspect
    /\ rx[k] # 0 /\ rx[k] >= prevRxTime
    /\ endValidSeqNo' = k * reply_every
    /\ endValidTime' = rx[k]
    /\ pLat' = Append(pLat, rx[k] - tx[k])
    /\ prevRxTime' = rx[k]
    /\ UNCHANGED <<dropped, ooo>>

Next ==
    \/ RecordLate
    \/ Begin \/ Exceeded \/ EndSearch
    \/ SkipEarly \/ CountDropped \/ CountOutOfOrder \/ Observe

Spec == Init /\ [][Next]_vars

-----------------------------------------------------------------------------
\* The variables have their types.
TypeOK ==
    /\ s_user_params \in Settings
    /\ tx \in [Blocks -> Time] /\ rx \in [Blocks -> Time]
    /\ sendCount \in Nat /\ g_receiveCount \in Nat /\ late \in Blocks \cup {0}
    /\ pc \in {"begin", "search", "done", "nothing", "exceeded"}
    /\ SIZE \in Nat /\ k \in Nat
    /\ pLat \in Seq(Int) /\ dropped \in Nat /\ ooo \in Nat
    /\ startValidTime \in Time /\ endValidTime \in Time /\ prevRxTime \in Time
    /\ startValidSeqNo \in Nat /\ endValidSeqNo \in Nat

\* pLat has SIZE elements, and a reply recorded while the loop runs does not
\* make it write more.
ArrayBound == Len(pLat) <= SIZE

\* The valid duration and the number of messages sent in it, both unsigned
\* differences in the report, do not wrap around.
ValidDuration ==
    pc = "done" /\ pLat # <<>> =>
        startValidTime <= endValidTime /\ startValidSeqNo <= endValidSeqNo

\* The messages of the measured interval, by what became of them.  Of two replies
\* that came in the wrong order the report calls the earlier one out of order, that
\* of the later request; the reply it overtook is observed.
Window == {b \in Blocks : b >= startSearchHere /\ ~Beyond(b) /\ tx[b] >= testStart}
Overtakes(b) == \E c \in Window : c < b /\ rx[c] > rx[b]
Observed == {b \in Window : rx[b] # 0 /\ ~Overtakes(b)}
OutOfOrder == {b \in Window : rx[b] # 0 /\ Overtakes(b)}
Dropped == {b \in Window : rx[b] = 0}
RepliesInOrder == \A b, c \in Window : b < c /\ rx[b] # 0 /\ rx[c] # 0 => rx[b] <= rx[c]

\* The report is right: of every reply of the interval that overtakes none, pLat has
\* the round trip time of that very request, in the order of the requests, and of no
\* other; the replies counted as out of order are the ones that overtake another, so
\* that the count is zero if and only if all replies came in order; and the messages
\* counted as dropped are those without a reply.  Messages after the last reply are
\* not looked at when every reply recorded has been observed.
ReportCorrect ==
    pc = "done" /\ late = 0 /\ g_receiveCount = SIZE =>
        /\ Len(pLat) = Cardinality(Observed)
        /\ \A b \in Observed : pLat[1 + Cardinality({c \in Observed : c < b})] = rx[b] - tx[b]
        /\ ooo = Cardinality(OutOfOrder)
        /\ ooo = 0 <=> RepliesInOrder
        /\ dropped = Cardinality({b \in Dropped :
                         Len(pLat) = SIZE => \E c \in Observed : c > b})

\* The statistics of a finished test are printed, although the loop has no
\* bound of its own: a request without a send time, or the number of packets,
\* stops it before the end of the table.  Playback fills its table and has
\* neither; and a test whose last messages, no pong requests, went beyond the
\* table ends here.
StatisticsPrinted == ~Playback /\ sendCount <= maxSequenceNo => pc # "exceeded"
=============================================================================
