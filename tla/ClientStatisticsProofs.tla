----------------------- MODULE ClientStatisticsProofs -----------------------
(***************************************************************************)
(* Proofs about client_statistics(), for tables of every size and every    *)
(* table of times a test can leave behind.                                 *)
(*                                                                         *)
(* The argument: what ends the loop at a block would end it at every later *)
(* one (BeyondMono), so that the blocks seen are those of the measured     *)
(* interval below k (CountInv).  prevRxTime is the latest reply among      *)
(* them, hence comparing with it decides whether a reply overtakes another *)
(* (ClassIs).  A loop that stops because pLat is full has seen every reply *)
(* recorded: they are as many as the array has elements (ReportIs).  A     *)
(* reply recorded meanwhile makes g_receiveCount exceed SIZE for good.     *)
(***************************************************************************)
EXTENDS ClientStatistics, FiniteSetTheorems, NaturalsInduction, WellFoundedInduction, TLAPS

-----------------------------------------------------------------------------
(* The inductive invariant. *)

\* The tables stay those of a test while the last reply is recorded, and there is no
\* more in them than was counted.
TableInv ==
    /\ tx \in TxTables /\ Sent(tx) # {} /\ rx \in RxTables(tx) /\ late \in Sent(tx) \cup {0}
    /\ Cardinality(Received(rx)) <= g_receiveCount
    /\ SIZE <= g_receiveCount

\* Where the loop is.  Unless the test is a playback the table has the block it asks for.
PlaceInv ==
    /\ pc = "begin" =>
         SIZE = 0 /\ pLat = <<>> /\ dropped = 0 /\ ooo = 0 /\ startValidSeqNo = 0 /\ prevRxTime = 0
    /\ pc \in {"search", "done"} => SIZE > 0 /\ k >= startSearchHere
    /\ pc = "search" /\ ~Playback => k \in Blocks

\* Where the valid interval starts, and that it does not end before.
IntervalInv ==
    /\ startValidSeqNo = 0 => pLat = <<>>
    /\ startValidSeqNo # 0 =>
         \E j \in Sent(tx) : j < k /\ startValidSeqNo = j * reply_every /\ startValidTime = tx[j]
    /\ pLat # <<>> => startValidTime <= endValidTime /\ startValidSeqNo <= endValidSeqNo

\* The blocks before block n.
Below(S, n) == {b \in S : b < n}

\* The round trip time of a block is where it belongs.
HasRoundTrip(b) ==
    /\ 1 + Cardinality(Below(Observed, b)) \in 1 .. Len(pLat)
    /\ pLat[1 + Cardinality(Below(Observed, b))] = rx[b] - tx[b]

\* The counts and the round trip times are right for the blocks seen so far, unless a
\* reply was recorded after the loop started; prevRxTime is the latest reply among them.
CountInv ==
    pc \in {"search", "done"} /\ g_receiveCount = SIZE =>
        /\ Len(pLat) = Cardinality(Below(Observed, k))
        /\ \A b \in Below(Observed, k) : HasRoundTrip(b)
        /\ ooo = Cardinality(Below(OutOfOrder, k))
        /\ dropped = Cardinality(Below(Dropped, k))
        /\ \A c \in Below(Window, k) : rx[c] <= prevRxTime
        /\ prevRxTime # 0 => \E c \in Below(Window, k) : rx[c] = prevRxTime
        /\ Len(pLat) = SIZE => k - 1 \in Observed
        /\ pc = "done" /\ Len(pLat) < SIZE => \A b \in Window : b < k

\* The inductive invariant.
IInv == TypeOK /\ TableInv /\ PlaceInv /\ ArrayBound /\ IntervalInv /\ CountInv /\ StatisticsPrinted

-----------------------------------------------------------------------------
(* Settings and tables. *)

\* A setting is one the program can have.
LEMMA SettingFacts ==
    ASSUME s_user_params \in Settings
    PROVE  /\ Measurement \in {"TIME_BASED", "NUMBER_BASED"} /\ Playback \in BOOLEAN
           /\ reply_every \in Nat \ {0} /\ maxSequenceNo \in Nat
           /\ TEST_START_WARMUP \in Nat /\ TEST_END_COOLDOWN \in Nat \ {0}
           /\ warmup_num \in Nat /\ number_test_target \in Nat
           /\ Measurement = "NUMBER_BASED" =>
                ~Playback /\ reply_every = 1 /\ warmup_num + number_test_target < maxSequenceNo
           /\ startSearchHere \in Nat \ {0}
  BY StatisticsAssumption DEF Measurement, Playback, reply_every, maxSequenceNo, TEST_START_WARMUP,
     TEST_END_COOLDOWN, warmup_num, number_test_target, startSearchHere

\* What a setting says stays as it is while the setting does.
LEMMA SettingKept ==
    ASSUME s_user_params' = s_user_params
    PROVE  /\ Measurement' = Measurement /\ Playback' = Playback /\ reply_every' = reply_every
           /\ maxSequenceNo' = maxSequenceNo /\ TEST_START_WARMUP' = TEST_START_WARMUP
           /\ TEST_END_COOLDOWN' = TEST_END_COOLDOWN /\ warmup_num' = warmup_num
           /\ number_test_target' = number_test_target /\ startSearchHere' = startSearchHere
           /\ Blocks' = Blocks
  BY DEF Measurement, Playback, reply_every, maxSequenceNo, TEST_START_WARMUP,
     TEST_END_COOLDOWN, warmup_num, number_test_target, startSearchHere, Blocks

\* No step changes the setting, the send times or what was sent.
LEMMA SettingStep ==
    ASSUME Next
    PROVE  s_user_params' = s_user_params /\ tx' = tx /\ sendCount' = sendCount
  BY DEF Next, tables, RecordLate, Begin, Exceeded, EndSearch, SkipEarly, Inspect, CountDropped,
     CountOutOfOrder, Observe

\* Division.
LEMMA DivMod ==
    ASSUME NEW s \in Nat, NEW r \in Nat \ {0}
    PROVE  s \div r \in Nat /\ s % r \in 0 .. (r - 1) /\ s = r * (s \div r) + (s % r)
  OBVIOUS

\* A block is in the table if its request is.
LEMMA BlockIs ==
    ASSUME s_user_params \in Settings
    PROVE  /\ Blocks \subseteq Nat \ {0} /\ IsFiniteSet(Blocks)
           /\ \A b \in Nat : b \in Blocks <=> b > 0 /\ b * reply_every <= maxSequenceNo
  <1>1. reply_every \in Nat \ {0} /\ maxSequenceNo \in Nat
    BY SettingFacts
  <1> DEFINE N == maxSequenceNo \div reply_every
  <1>2. N \in Nat
    BY <1>1, DivMod
  <1>3. \A b \in Nat : b <= N <=> b * reply_every <= maxSequenceNo
    BY <1>1, DivMod
  <1>4. Blocks = 1 .. N
    BY DEF Blocks
  <1> HIDE DEF N
  <1>5. IsFiniteSet(1 .. N)
    BY <1>2, FS_Interval
  <1>6. QED BY <1>2, <1>3, <1>4, <1>5

\* Products keep the order.
LEMMA Times ==
    ASSUME NEW a \in Nat, NEW b \in Nat, NEW r \in Nat \ {0}, a <= b
    PROVE  /\ a * r \in Nat /\ b * r \in Nat /\ a * r <= b * r
           /\ a > 0 => a * r # 0
  OBVIOUS

\* The last request sent.
LEMMA LastIs ==
    ASSUME s_user_params \in Settings, Sent(tx) # {}
    PROVE  Last \in Sent(tx) /\ \A c \in Sent(tx) : c <= Last
  <1>1. Sent(tx) \subseteq Nat \ {0}
    BY BlockIs DEF Sent
  <1> DEFINE S == Sent(tx)
             U == {d \in Nat : \A c \in S : c <= d}
             R == OpToRel(<, Nat)
  <1>2. IsWellFoundedOn(R, Nat)
    BY NatLessThanWellFounded
  <1>3. \A x, y \in Nat : <<y, x>> \in R <=> y < x
    BY DEF OpToRel
  <1>4. U # {}
    <2>1. maxSequenceNo \div reply_every \in Nat
      BY SettingFacts, DivMod
    <2>2. \A c \in S : c <= maxSequenceNo \div reply_every
      BY <2>1 DEF Sent, Blocks
    <2>3. QED BY <2>1, <2>2
  <1> HIDE DEF R
  <1>5. U \subseteq Nat
    OBVIOUS
  <1>6. PICK x \in U : \A y \in U : ~(<<y, x>> \in R)
    <2> HIDE DEF U
    <2>1. QED BY <1>2, <1>4, <1>5, WFMin
  <1>7. \A y \in U : ~(y < x)
    <2> HIDE DEF U
    <2>1. QED BY <1>3, <1>5, <1>6, Zenon
  <1>8. x \in Nat /\ \A c \in S : c <= x
    BY <1>6
  <1>9. x \in S
    <2>1. SUFFICES ASSUME x \notin S PROVE FALSE
      OBVIOUS
    <2>2. PICK c \in S : TRUE
      OBVIOUS
    <2>3. x - 1 \in Nat
      BY <1>1, <1>8, <2>1, <2>2
    <2>4. \A d \in S : d <= x - 1
      BY <1>1, <1>8, <2>1
    <2>5. x - 1 \in U
      BY <2>3, <2>4
    <2>6. QED BY <1>7, <1>8, <2>5
  <1>10. QED BY <1>8, <1>9 DEF Last

\* The block the loop looks at.
LEMMA LookIs ==
    ASSUME TypeOK, PlaceInv, Searching, InTable, ~Beyond(k)
    PROVE  /\ k \in Blocks /\ k \in Nat /\ k > 0 /\ k * reply_every \in Nat /\ k * reply_every # 0
           /\ tx[k] \in Nat /\ rx[k] \in Nat /\ tx[k] \in Time /\ rx[k] \in Time /\ k \in Sent(tx)
           /\ k >= startSearchHere
  <1>1. /\ k \in Nat /\ k >= startSearchHere /\ startSearchHere \in Nat \ {0}
        /\ k * reply_every <= maxSequenceNo /\ reply_every \in Nat \ {0}
    BY SettingFacts DEF TypeOK, PlaceInv, Searching, InTable
  <1>2. k \in Blocks /\ k > 0
    BY <1>1, BlockIs DEF TypeOK
  <1>3. tx[k] \in Time /\ rx[k] \in Time
    BY <1>2 DEF TypeOK
  <1>4. tx[k] \in Nat /\ rx[k] \in Nat
    BY <1>3, StatisticsAssumption DEF Time
  <1>5. tx[k] # 0
    BY DEF Beyond
  <1>6. k * reply_every \in Nat /\ k * reply_every # 0
    BY <1>1, <1>2, Times
  <1>7. QED BY <1>1, <1>2, <1>3, <1>4, <1>5, <1>6 DEF Sent

\* Every step keeps the types.
LEMMA TypeStep ==
    ASSUME TypeOK, PlaceInv, Next
    PROVE  TypeOK'
  <1>0. s_user_params' = s_user_params /\ tx' = tx /\ sendCount' = sendCount /\ Blocks' = Blocks
    BY SettingStep, SettingKept
  <1>a. /\ MaxTime \in Nat /\ MaxTime \in Time /\ startSearchHere \in Nat /\ reply_every \in Nat \ {0}
        /\ Blocks \subseteq Nat
    BY StatisticsAssumption, SettingFacts, BlockIs DEF TypeOK, Time
  <1>1. CASE RecordLate
    BY <1>0, <1>a, <1>1 DEF RecordLate, TypeOK, tables, valid
  <1>2. CASE Begin
    BY <1>0, <1>a, <1>2 DEF Begin, TypeOK, tables, valid
  <1>3. CASE Exceeded
    BY <1>0, <1>a, <1>3 DEF Exceeded, TypeOK, tables, valid
  <1>4. CASE EndSearch
    BY <1>0, <1>a, <1>4 DEF EndSearch, TypeOK, tables, valid
  <1>5. CASE SkipEarly
    BY <1>0, <1>a, <1>5 DEF SkipEarly, TypeOK, tables, valid
  <1>6. CASE CountDropped
    <2>1. Inspect
      BY <1>6 DEF CountDropped
    <2>2. /\ k \in Nat /\ k * reply_every \in Nat /\ tx[k] \in Time /\ rx[k] \in Time
          /\ tx[k] \in Nat /\ rx[k] \in Nat
      BY <2>1, LookIs DEF Inspect
    <2>3. /\ startValidSeqNo' \in Nat /\ startValidTime' \in Time /\ k' \in Nat
          /\ UNCHANGED <<g_receiveCount, rx, late, pc, SIZE>>
      BY <2>1, <2>2 DEF Inspect, TypeOK, tables
    <2>4. QED BY <1>0, <2>2, <2>3, <1>6 DEF CountDropped, TypeOK
  <1>7. CASE CountOutOfOrder
    <2>1. Inspect
      BY <1>7 DEF CountOutOfOrder
    <2>2. /\ k \in Nat /\ k * reply_every \in Nat /\ tx[k] \in Time /\ rx[k] \in Time
          /\ tx[k] \in Nat /\ rx[k] \in Nat
      BY <2>1, LookIs DEF Inspect
    <2>3. /\ startValidSeqNo' \in Nat /\ startValidTime' \in Time /\ k' \in Nat
          /\ UNCHANGED <<g_receiveCount, rx, late, pc, SIZE>>
      BY <2>1, <2>2 DEF Inspect, TypeOK, tables
    <2>4. QED BY <1>0, <2>2, <2>3, <1>7 DEF CountOutOfOrder, TypeOK
  <1>8. CASE Observe
    <2>1. Inspect
      BY <1>8 DEF Observe
    <2>2. /\ k \in Nat /\ k * reply_every \in Nat /\ tx[k] \in Time /\ rx[k] \in Time
          /\ tx[k] \in Nat /\ rx[k] \in Nat
      BY <2>1, LookIs DEF Inspect
    <2>3. /\ startValidSeqNo' \in Nat /\ startValidTime' \in Time /\ k' \in Nat
          /\ UNCHANGED <<g_receiveCount, rx, late, pc, SIZE>>
      BY <2>1, <2>2 DEF Inspect, TypeOK, tables
    <2>4. pLat' \in Seq(Int)
      <3>1. rx[k] - tx[k] \in Int /\ pLat \in Seq(Int)
        BY <2>2 DEF TypeOK
      <3>2. QED BY <3>1, <1>8 DEF Observe
    <2>5. QED BY <1>0, <2>2, <2>3, <2>4, <1>8 DEF Observe, TypeOK
  <1>9. QED
    BY <1>1, <1>2, <1>3, <1>4, <1>5, <1>6, <1>7, <1>8 DEF Next

\* The tables: what RecordLate writes is a reply of a request sent, and counted.
LEMMA TableStep ==
    ASSUME TypeOK, TableInv, PlaceInv, Next
    PROVE  TableInv'
  <1>0. s_user_params' = s_user_params /\ tx' = tx /\ Blocks' = Blocks
    BY SettingStep, SettingKept
  <1>a. TxTables' = TxTables /\ Sent(tx)' = Sent(tx) /\ \A t : RxTables(t)' = RxTables(t) /\ Sent(tx) \subseteq Blocks
    BY <1>0 DEF TxTables, Sent, RxTables
  <1>b. RxTables(tx)' = RxTables(tx)
    BY <1>0 DEF RxTables
  <1>c. /\ g_receiveCount \in Nat /\ SIZE \in Nat /\ IsFiniteSet(Blocks) /\ Blocks \subseteq Nat \ {0}
        /\ MaxTime \in Nat
    BY BlockIs, StatisticsAssumption DEF TypeOK
  <1>d. IsFiniteSet(Received(rx)) /\ Cardinality(Received(rx)) \in Nat
    <2>1. Received(rx) \subseteq Blocks
      BY DEF Received
    <2>2. IsFiniteSet(Received(rx))
      BY <1>c, <2>1, FS_Subset
    <2>3. QED BY <2>2, FS_CardinalityType
  <1>f. ASSUME rx' = rx, g_receiveCount' = g_receiveCount, late' \in {0, late}, SIZE' \in {SIZE, g_receiveCount}
        PROVE  TableInv'
    <2>1. Received(rx)' = Received(rx)
      BY <1>0, <1>f DEF Received
    <2>2. SIZE' <= g_receiveCount'
      BY <1>c, <1>f DEF TableInv
    <2>3. QED BY <1>0, <1>a, <1>b, <1>f, <2>1, <2>2 DEF TableInv
  <1>1. CASE RecordLate
    <2>1. CASE rx[late] # 0
      BY <1>1, <1>f, <2>1 DEF RecordLate
    <2>2. CASE rx[late] = 0
      <3>1. /\ rx' = [rx EXCEPT ![late] = MaxTime] /\ g_receiveCount' = g_receiveCount + 1
            /\ late' = 0 /\ SIZE' = SIZE /\ late # 0
        BY <1>1, <2>2 DEF RecordLate
      <3>2. late \in Blocks /\ late \in Sent(tx) /\ tx[late] # 0
        BY <1>a, <3>1 DEF TableInv, Sent
      <3>3. rx' \in [Blocks -> Time] /\ rx'[late] = MaxTime /\ \A b \in Blocks : b # late => rx'[b] = rx[b]
        BY <1>c, <3>1, <3>2 DEF TypeOK, Time
      <3>4. rx' \in RxTables(tx)
        <4>1. tx[late] <= MaxTime
          BY <1>c, <3>2 DEF TypeOK, Time
        <4>2. \A b \in Blocks : rx[b] # 0 => tx[b] # 0 /\ tx[b] <= rx[b]
          BY DEF TableInv, RxTables
        <4>3. QED BY <3>2, <3>3, <4>1, <4>2 DEF RxTables
      <3>5. Cardinality(Received(rx)') <= g_receiveCount'
        <4>1. Received(rx)' \subseteq Received(rx) \cup {late}
          BY <1>0, <3>3 DEF Received
        <4>2. late \notin Received(rx)
          BY <2>2 DEF Received
        <4>3. IsFiniteSet(Received(rx) \cup {late})
          BY <1>d, FS_AddElement
        <4>4. Cardinality(Received(rx) \cup {late}) = Cardinality(Received(rx)) + 1
          BY <1>d, <4>2, FS_AddElement
        <4>5. Cardinality(Received(rx)') <= Cardinality(Received(rx) \cup {late})
          BY <4>1, <4>3, FS_Subset
        <4>6. IsFiniteSet(Received(rx)')
          BY <4>1, <4>3, FS_Subset
        <4>7. Cardinality(Received(rx)') \in Nat
          BY <4>6, FS_CardinalityType
        <4>8. QED BY <1>c, <1>d, <3>1, <4>4, <4>5, <4>7 DEF TableInv
      <3>6. QED BY <1>0, <1>a, <1>b, <1>c, <3>1, <3>4, <3>5 DEF TableInv
    <2>3. QED BY <2>1, <2>2
  <1>2. CASE ~RecordLate
    <2>1. rx' = rx /\ g_receiveCount' = g_receiveCount /\ late' = late /\ SIZE' \in {SIZE, g_receiveCount}
      BY <1>2 DEF Next, tables, Begin, Exceeded, EndSearch, SkipEarly, Inspect, CountDropped,
         CountOutOfOrder, Observe
    <2>2. QED BY <1>f, <2>1
  <1>3. QED BY <1>1, <1>2

\* The interval of send times stays as it is.
LEMMA IntervalKept ==
    ASSUME s_user_params' = s_user_params, tx' = tx
    PROVE  /\ Last' = Last /\ testStart' = testStart /\ testEnd' = testEnd
           /\ \A b : Beyond(b)' = Beyond(b)
           /\ Window' = Window
  <1>1. /\ Measurement' = Measurement /\ Playback' = Playback /\ reply_every' = reply_every
        /\ TEST_START_WARMUP' = TEST_START_WARMUP /\ TEST_END_COOLDOWN' = TEST_END_COOLDOWN
        /\ number_test_target' = number_test_target /\ startSearchHere' = startSearchHere
        /\ Blocks' = Blocks
    BY SettingKept
  <1>2. Sent(tx)' = Sent(tx)
    BY <1>1 DEF Sent
  <1>3. Last' = Last
    BY <1>2 DEF Last
  <1>4. Trimmed' = Trimmed
    BY <1>1 DEF Trimmed
  <1>5. testStart' = testStart /\ testEnd' = testEnd
    BY <1>1, <1>3, <1>4 DEF testStart, testEnd
  <1>6. \A b : Beyond(b)' = Beyond(b)
    BY <1>1, <1>5 DEF Beyond
  <1>7. Window' = Window
    BY <1>1, <1>5, <1>6 DEF Window
  <1>8. QED BY <1>3, <1>5, <1>6, <1>7

\* A request was sent, so there is a first one.
LEMMA FirstBlock ==
    ASSUME TypeOK, TableInv
    PROVE  1 \in Blocks
  <1>1. Last \in Blocks
    BY LastIs DEF TypeOK, TableInv, Sent
  <1>2. Last \in Nat \ {0} /\ Last * reply_every <= maxSequenceNo /\ reply_every \in Nat \ {0}
        /\ maxSequenceNo \in Nat
    BY <1>1, BlockIs, SettingFacts DEF TypeOK
  <1>3. 1 * reply_every <= Last * reply_every /\ Last * reply_every \in Nat
    BY <1>2, Times
  <1>4. 1 * reply_every <= maxSequenceNo /\ 1 \in Nat
    BY <1>2, <1>3
  <1>5. QED BY <1>4, BlockIs DEF TypeOK

\* Ends of the interval are times.
LEMMA EndsType ==
    ASSUME TypeOK, TableInv
    PROVE  /\ testStart \in Int /\ testEnd \in Int /\ Last \in Sent(tx) /\ Last \in Blocks
           /\ \A c \in Sent(tx) : c <= Last
           /\ \A b \in Blocks : tx[b] \in Nat /\ rx[b] \in Nat
  <1>1. \A b \in Blocks : tx[b] \in Nat /\ rx[b] \in Nat
    BY StatisticsAssumption DEF TypeOK, Time
  <1>2. Last \in Sent(tx) /\ Last \in Blocks /\ \A c \in Sent(tx) : c <= Last
    BY LastIs DEF TypeOK, TableInv, Sent
  <1>3. 1 \in Blocks
    BY FirstBlock
  <1>4. QED BY <1>1, <1>2, <1>3, SettingFacts DEF TypeOK, testStart, testEnd

\* What ends the loop at one block would end it at every later one.
LEMMA BeyondMono ==
    ASSUME TypeOK, TableInv, NEW b \in Blocks, NEW c \in Blocks, b <= c, Beyond(b)
    PROVE  Beyond(c)
  <1>1. /\ tx[b] \in Nat /\ tx[c] \in Nat /\ testEnd \in Int /\ b \in Nat /\ c \in Nat
        /\ reply_every \in Nat \ {0} /\ startSearchHere \in Nat /\ number_test_target \in Nat
    BY EndsType, BlockIs, SettingFacts DEF TypeOK
  <1>2. b < c /\ tx[c] # 0 => tx[b] # 0 /\ tx[b] <= tx[c]
    BY DEF TableInv, TxTables
  <1>3. b * reply_every <= c * reply_every /\ b * reply_every \in Nat /\ c * reply_every \in Nat
    BY <1>1, Times
  <1>4. CASE tx[b] > testEnd \/ tx[b] = 0
    BY <1>1, <1>2, <1>4 DEF Beyond
  <1>5. CASE Measurement = "NUMBER_BASED" /\ b * reply_every >= startSearchHere + number_test_target
    <2>1. c * reply_every >= startSearchHere + number_test_target
      BY <1>1, <1>3, <1>5
    <2>2. QED BY <1>5, <2>1 DEF Beyond
  <1>6. QED BY <1>4, <1>5 DEF Beyond

\* Unless the test is a playback, the loop does not leave the table.
LEMMA NextInTable ==
    ASSUME TypeOK, TableInv, ~Playback, k \in Blocks, ~Beyond(k)
    PROVE  k + 1 \in Blocks
  <1>1. /\ k \in Nat /\ k > 0 /\ reply_every \in Nat \ {0} /\ maxSequenceNo \in Nat
        /\ warmup_num \in Nat /\ number_test_target \in Nat /\ TEST_END_COOLDOWN \in Nat \ {0}
        /\ Measurement \in {"TIME_BASED", "NUMBER_BASED"}
    BY SettingFacts, BlockIs DEF TypeOK
  <1>2. CASE Measurement = "NUMBER_BASED"
    <2>1. reply_every = 1 /\ warmup_num + number_test_target < maxSequenceNo
          /\ startSearchHere = 1 + warmup_num
      BY <1>2, SettingFacts DEF TypeOK, startSearchHere
    <2>2. ~(k * 1 >= 1 + warmup_num + number_test_target)
      BY <1>2, <2>1 DEF Beyond
    <2>3. (k + 1) * 1 <= maxSequenceNo
      BY <1>1, <2>1, <2>2
    <2>4. QED BY <1>1, <2>1, <2>3, BlockIs DEF TypeOK
  <1>3. CASE Measurement = "TIME_BASED"
    <2>1. testEnd = tx[Last] - TEST_END_COOLDOWN /\ tx[Last] \in Nat /\ Last \in Blocks
          /\ k <= Last
      <3>1. k \in Sent(tx)
        BY DEF Beyond, Sent
      <3>2. QED BY <1>3, <3>1, EndsType DEF testEnd, Trimmed
    <2>2. k # Last
      BY <1>1, <2>1 DEF Beyond
    <2>3. Last \in Nat /\ k + 1 <= Last /\ k + 1 \in Nat
      BY <1>1, <2>1, <2>2, BlockIs DEF TypeOK
    <2>4. Last * reply_every <= maxSequenceNo
      BY <2>1, <2>3, BlockIs DEF TypeOK
    <2>5. (k + 1) * reply_every <= Last * reply_every /\ (k + 1) * reply_every \in Nat
          /\ Last * reply_every \in Nat
      BY <1>1, <2>3, Times
    <2>6. (k + 1) * reply_every <= maxSequenceNo
      BY <1>1, <2>4, <2>5
    <2>7. QED BY <1>1, <2>3, <2>6, BlockIs DEF TypeOK
  <1>4. QED BY <1>1, <1>2, <1>3

-----------------------------------------------------------------------------
(* The loop. *)

\* A block is skipped, dropped, out of order or observed; the loop goes on to the next.
Looks == Searching /\ InTable /\ ~Beyond(k) /\ k' = k + 1 /\ UNCHANGED <<tables, pc, SIZE>>

\* Which actions look at a block.
LEMMA LooksIs ==
    /\ SkipEarly => Looks /\ UNCHANGED <<pLat, dropped, ooo, valid, prevRxTime>> /\ tx[k] < testStart
    /\ Inspect => Looks /\ tx[k] >= testStart
    /\ CountDropped \/ CountOutOfOrder \/ Observe => Inspect
  BY DEF SkipEarly, Inspect, Looks, CountDropped, CountOutOfOrder, Observe

\* Every step is of one of these kinds.
LEMMA StepKinds ==
    ASSUME Next
    PROVE  \/ RecordLate \/ Begin \/ Exceeded \/ EndSearch
           \/ Looks /\ (SkipEarly \/ CountDropped \/ CountOutOfOrder \/ Observe)
  BY LooksIs DEF Next

\* Every step keeps the place in the loop.
LEMMA PlaceStep ==
    ASSUME TypeOK, TableInv, PlaceInv, Next
    PROVE  PlaceInv'
  <1>0. /\ s_user_params' = s_user_params /\ startSearchHere' = startSearchHere /\ Playback' = Playback
        /\ Blocks' = Blocks
    BY SettingStep, SettingKept
  <1>a. k \in Nat /\ startSearchHere \in Nat \ {0} /\ g_receiveCount \in Nat
    BY SettingFacts DEF TypeOK
  <1>1. CASE RecordLate
    BY <1>0, <1>1 DEF RecordLate, PlaceInv, valid
  <1>2. CASE Begin
    <2>1. pc' # "begin" /\ pc' # "done" /\ k' = startSearchHere
      BY <1>2 DEF Begin
    <2>2. pc' = "search" => SIZE' > 0
      BY <1>2, <1>a DEF Begin
    <2>3. ~Playback => startSearchHere \in Blocks
      <3>1. CASE Measurement = "NUMBER_BASED"
        <4>1. /\ reply_every = 1 /\ startSearchHere = 1 + warmup_num /\ maxSequenceNo \in Nat
              /\ warmup_num \in Nat /\ number_test_target \in Nat
              /\ warmup_num + number_test_target < maxSequenceNo
          BY <3>1, SettingFacts DEF TypeOK, startSearchHere
        <4>2. startSearchHere * reply_every <= maxSequenceNo
          BY <4>1
        <4>3. QED BY <1>a, <4>2, BlockIs DEF TypeOK
      <3>2. CASE Measurement # "NUMBER_BASED"
        <4>1. startSearchHere = 1
          BY <3>2 DEF startSearchHere
        <4>2. 1 \in Blocks
          BY FirstBlock
        <4>3. QED BY <4>1, <4>2
      <3>3. QED BY <3>1, <3>2
    <2>4. QED BY <1>0, <1>a, <2>1, <2>2, <2>3 DEF PlaceInv
  <1>3. CASE Exceeded
    BY <1>0, <1>3 DEF Exceeded, PlaceInv, Searching
  <1>4. CASE EndSearch
    BY <1>0, <1>4 DEF EndSearch, PlaceInv
  <1>5. CASE Looks
    <2>1. pc = "search" /\ pc' = pc /\ SIZE' = SIZE /\ k' = k + 1 /\ ~Beyond(k)
      BY <1>5 DEF Looks, Searching
    <2>2. SIZE > 0 /\ k >= startSearchHere /\ (~Playback => k \in Blocks)
      BY <2>1 DEF PlaceInv
    <2>3. ~Playback => k + 1 \in Blocks
      BY <2>1, <2>2, NextInTable
    <2>4. QED BY <1>0, <1>a, <2>1, <2>2, <2>3 DEF PlaceInv
  <1>6. QED BY StepKinds, <1>1, <1>2, <1>3, <1>4, <1>5

\* No step ends the program, unless the test is a playback.
LEMMA PrintedStep ==
    ASSUME TypeOK, PlaceInv, StatisticsPrinted, Next
    PROVE  StatisticsPrinted'
  <1>0. Playback' = Playback /\ maxSequenceNo' = maxSequenceNo /\ sendCount' = sendCount
    BY SettingStep, SettingKept
  <1>1. CASE Exceeded
    <2>1. pc = "search" /\ ~(k * reply_every <= maxSequenceNo)
      BY <1>1 DEF Exceeded, Searching, InTable
    <2>2. ~Playback => k \in Blocks /\ k \in Nat
      BY <2>1 DEF PlaceInv, TypeOK
    <2>3. QED BY <1>0, <2>1, <2>2, BlockIs DEF TypeOK, StatisticsPrinted
  <1>2. CASE Begin
    <2>1. pc' = "exceeded" => sendCount > maxSequenceNo
      BY <1>2 DEF Begin
    <2>2. sendCount \in Nat /\ maxSequenceNo \in Nat
      BY SettingFacts DEF TypeOK
    <2>3. QED BY <1>0, <2>1, <2>2 DEF StatisticsPrinted
  <1>3. CASE ~Exceeded /\ ~Begin
    <2>1. pc' = "exceeded" => pc = "exceeded"
      BY <1>3 DEF Next, RecordLate, EndSearch, SkipEarly, Inspect, CountDropped,
         CountOutOfOrder, Observe
    <2>2. QED BY <1>0, <2>1 DEF StatisticsPrinted
  <1>4. QED BY <1>1, <1>2, <1>3

\* Every step keeps within the array.
LEMMA ArrayStep ==
    ASSUME TypeOK, PlaceInv, ArrayBound, Next
    PROVE  ArrayBound'
  <1>0. Len(pLat) \in Nat /\ SIZE \in Nat /\ g_receiveCount \in Nat
    BY DEF TypeOK
  <1>a. ASSUME pLat' = pLat, SIZE' = SIZE PROVE ArrayBound'
    BY <1>a DEF ArrayBound
  <1>1. CASE RecordLate
    BY <1>a, <1>1 DEF RecordLate
  <1>2. CASE Begin
    <2>1. pLat' = <<>> /\ SIZE' = g_receiveCount
      BY <1>2 DEF Begin, PlaceInv
    <2>2. Len(pLat') = 0
      BY <2>1
    <2>3. QED BY <1>0, <2>1, <2>2 DEF ArrayBound
  <1>3. CASE Exceeded
    BY <1>a, <1>3 DEF Exceeded
  <1>4. CASE EndSearch
    BY <1>a, <1>4 DEF EndSearch
  <1>5. CASE SkipEarly
    BY <1>a, <1>5 DEF SkipEarly
  <1>6. CASE CountDropped
    BY <1>a, <1>6 DEF CountDropped, Inspect
  <1>7. CASE CountOutOfOrder
    BY <1>a, <1>7 DEF CountOutOfOrder, Inspect
  <1>8. CASE Observe
    <2>1. Len(pLat) < SIZE /\ SIZE' = SIZE /\ pLat' = Append(pLat, rx[k] - tx[k])
      BY <1>8 DEF Observe, Inspect, Searching
    <2>2. Len(pLat') = Len(pLat) + 1
      <3>1. pLat \in Seq(Int)
        BY DEF TypeOK
      <3>2. QED BY <2>1, <3>1
    <2>3. QED BY <1>0, <2>1, <2>2 DEF ArrayBound
  <1>9. QED BY <1>1, <1>2, <1>3, <1>4, <1>5, <1>6, <1>7, <1>8 DEF Next

\* Every step keeps the valid interval.
LEMMA IntervalStep ==
    ASSUME TypeOK, TableInv, PlaceInv, IntervalInv, Next
    PROVE  IntervalInv'
  <1>0. /\ s_user_params' = s_user_params /\ tx' = tx /\ reply_every' = reply_every /\ Blocks' = Blocks
        /\ reply_every \in Nat \ {0}
    BY SettingStep, SettingKept, SettingFacts DEF TypeOK
  <1>a. Sent(tx)' = Sent(tx)
    BY <1>0 DEF Sent
  <1>b. k \in Nat /\ startValidSeqNo \in Nat /\ \A b \in Sent(tx) : b \in Nat /\ tx[b] \in Nat
    BY BlockIs, EndsType DEF TypeOK, Sent
  <1>t. startValidTime \in Nat /\ endValidTime \in Nat /\ endValidSeqNo \in Nat
    BY StatisticsAssumption DEF TypeOK, Time
  <1>c. ASSUME UNCHANGED <<valid, pLat>>, k' \in Nat, startValidSeqNo # 0 => k' >= k PROVE IntervalInv'
    <2>1. \A j \in Sent(tx) : j < k /\ startValidSeqNo # 0 => j < k'
      BY <1>b, <1>c
    <2>2. QED BY <1>0, <1>a, <1>c, <2>1 DEF IntervalInv, valid
  <1>1. CASE RecordLate
    BY <1>b, <1>c, <1>1 DEF RecordLate
  <1>2. CASE Begin
    BY <1>c, <1>2, SettingFacts DEF Begin, PlaceInv, TypeOK
  <1>3. CASE Exceeded
    BY <1>b, <1>c, <1>3 DEF Exceeded
  <1>4. CASE EndSearch
    BY <1>b, <1>c, <1>4 DEF EndSearch
  <1>5. CASE SkipEarly
    BY <1>b, <1>c, <1>5 DEF SkipEarly
  <1>d. ASSUME Inspect
        PROVE  /\ startValidSeqNo' # 0 /\ k' = k + 1 /\ k \in Sent(tx) /\ tx[k] \in Nat
               /\ startValidSeqNo' \in Nat /\ startValidTime' \in Nat /\ k * reply_every \in Nat
               /\ startValidTime' <= tx[k] /\ startValidSeqNo' <= k * reply_every
               /\ \E j \in Sent(tx) : j < k' /\ startValidSeqNo' = j * reply_every /\ startValidTime' = tx[j]
               /\ startValidSeqNo # 0 => UNCHANGED <<startValidSeqNo, startValidTime>>
    <2>1. /\ k \in Nat /\ k > 0 /\ k * reply_every \in Nat /\ k * reply_every # 0 /\ k \in Sent(tx)
          /\ tx[k] \in Nat /\ k \in Blocks /\ tx[k] # 0
      BY <1>d, LookIs DEF Inspect, Sent
    <2>2. k' = k + 1
      BY <1>d DEF Inspect
    <2>3. CASE startValidSeqNo = 0
      <3>1. startValidSeqNo' = k * reply_every /\ startValidTime' = tx[k]
        BY <1>d, <2>3 DEF Inspect
      <3>2. QED BY <2>1, <2>2, <2>3, <3>1
    <2>4. CASE startValidSeqNo # 0
      <3>1. startValidSeqNo' = startValidSeqNo /\ startValidTime' = startValidTime
        BY <1>d, <2>4 DEF Inspect
      <3>2. PICK j \in Sent(tx) : j < k /\ startValidSeqNo = j * reply_every /\ startValidTime = tx[j]
        BY <2>4 DEF IntervalInv
      <3>3. j \in Nat /\ j \in Blocks /\ tx[j] \in Nat
        BY <1>b DEF Sent
      <3>4. tx[j] <= tx[k]
        BY <2>1, <3>2, <3>3 DEF TableInv, TxTables
      <3>5. j * reply_every <= k * reply_every
        BY <1>0, <2>1, <3>2, <3>3, Times
      <3>6. j < k'
        BY <2>1, <2>2, <3>2, <3>3
      <3>7. QED BY <1>b, <1>t, <2>1, <2>2, <2>4, <3>1, <3>2, <3>4, <3>5, <3>6
    <2>5. QED BY <2>3, <2>4
  <1>e. ASSUME Inspect, pLat' # <<>> => startValidTime' <= endValidTime' /\ startValidSeqNo' <= endValidSeqNo'
        PROVE  IntervalInv'
    BY <1>0, <1>a, <1>d, <1>e DEF IntervalInv
  <1>6. CASE CountDropped
    <2>1. /\ Inspect /\ pLat' = pLat
          /\ endValidSeqNo' = IF endValidTime < tx[k] THEN k * reply_every ELSE endValidSeqNo
          /\ endValidTime' = IF endValidTime < tx[k] THEN tx[k] ELSE endValidTime
      BY <1>6 DEF CountDropped
    <2>2. ASSUME pLat # <<>> PROVE startValidTime' <= endValidTime' /\ startValidSeqNo' <= endValidSeqNo'
      <3>1. startValidSeqNo # 0 /\ startValidTime <= endValidTime /\ startValidSeqNo <= endValidSeqNo
        BY <2>2 DEF IntervalInv
      <3>2. startValidSeqNo' = startValidSeqNo /\ startValidTime' = startValidTime
        BY <1>d, <2>1, <3>1
      <3>3. QED BY <1>d, <2>1, <3>1, <3>2
    <2>3. QED BY <1>e, <2>1, <2>2
  <1>7. CASE CountOutOfOrder
    <2>1. Inspect /\ UNCHANGED <<pLat, endValidTime, endValidSeqNo>>
      BY <1>7 DEF CountOutOfOrder
    <2>2. ASSUME pLat # <<>> PROVE startValidTime' <= endValidTime' /\ startValidSeqNo' <= endValidSeqNo'
      <3>1. startValidSeqNo # 0 /\ startValidTime <= endValidTime /\ startValidSeqNo <= endValidSeqNo
        BY <2>2 DEF IntervalInv
      <3>2. startValidSeqNo' = startValidSeqNo /\ startValidTime' = startValidTime
        BY <1>d, <2>1, <3>1
      <3>3. QED BY <2>1, <3>1, <3>2
    <2>3. QED BY <1>e, <2>1, <2>2
  <1>8. CASE Observe
    <2>1. Inspect /\ endValidSeqNo' = k * reply_every /\ endValidTime' = rx[k] /\ rx[k] # 0
      BY <1>8 DEF Observe
    <2>2. tx[k] <= rx[k] /\ rx[k] \in Nat
      <3>1. k \in Blocks
        BY <1>d, <2>1 DEF Sent
      <3>2. QED BY <2>1, <3>1, EndsType DEF TableInv, RxTables
    <2>3. QED BY <1>d, <1>e, <2>1, <2>2
  <1>9. QED BY <1>1, <1>2, <1>3, <1>4, <1>5, <1>6, <1>7, <1>8 DEF Next

-----------------------------------------------------------------------------
(* The counts. *)

\* The classes of messages stay as they are while the tables do.
LEMMA ClassesKept ==
    ASSUME s_user_params' = s_user_params, tx' = tx, rx' = rx
    PROVE  Window' = Window /\ Observed' = Observed /\ OutOfOrder' = OutOfOrder /\ Dropped' = Dropped
  <1>1. Window' = Window
    BY IntervalKept
  <1>2. \A b : Overtakes(b)' = Overtakes(b)
    BY <1>1 DEF Overtakes
  <1>3. QED BY <1>1, <1>2 DEF Observed, OutOfOrder, Dropped

\* They are finite sets of blocks, each message of the interval in one.
LEMMA ClassesAre ==
    ASSUME TypeOK
    PROVE  /\ Window \subseteq Blocks /\ IsFiniteSet(Blocks) /\ Blocks \subseteq Nat
           /\ Observed \subseteq Window /\ OutOfOrder \subseteq Window /\ Dropped \subseteq Window
           /\ \A b \in Window : b >= startSearchHere
  BY BlockIs DEF TypeOK, Window, Observed, OutOfOrder, Dropped

\* One more block.
LEMMA BelowNext ==
    ASSUME NEW S, IsFiniteSet(S), S \subseteq Nat, NEW n \in Nat
    PROVE  /\ IsFiniteSet(Below(S, n)) /\ Cardinality(Below(S, n)) \in Nat
           /\ n \in S => Cardinality(Below(S, n + 1)) = Cardinality(Below(S, n)) + 1
           /\ n \notin S => Below(S, n + 1) = Below(S, n)
  <1>0. n < n + 1 /\ ~(n < n) /\ \A b \in S : b < n + 1 <=> b < n \/ b = n
    OBVIOUS
  <1>1. IsFiniteSet(Below(S, n))
    <2>1. Below(S, n) \subseteq S
      BY DEF Below
    <2>2. QED BY <2>1, FS_Subset
  <1>2. Cardinality(Below(S, n)) \in Nat
    BY <1>1, FS_CardinalityType
  <1>3. ASSUME n \in S PROVE Cardinality(Below(S, n + 1)) = Cardinality(Below(S, n)) + 1
    <2>1. Below(S, n + 1) = Below(S, n) \cup {n} /\ n \notin Below(S, n)
      BY <1>0, <1>3 DEF Below
    <2>2. QED BY <1>1, <2>1, FS_AddElement
  <1>4. ASSUME n \notin S PROVE Below(S, n + 1) = Below(S, n)
    BY <1>0, <1>4 DEF Below
  <1>5. QED BY <1>1, <1>2, <1>3, <1>4

\* The class of the block looked at: prevRxTime decides whether its reply overtakes.
LEMMA ClassIs ==
    ASSUME TypeOK, TableInv, PlaceInv, CountInv, Inspect, g_receiveCount = SIZE
    PROVE  /\ k \in Window
           /\ k \in Dropped <=> rx[k] = 0
           /\ k \in OutOfOrder <=> rx[k] # 0 /\ rx[k] < prevRxTime
           /\ k \in Observed <=> rx[k] # 0 /\ rx[k] >= prevRxTime
  <1>1. /\ k \in Blocks /\ k \in Nat /\ rx[k] \in Nat /\ k >= startSearchHere /\ ~Beyond(k)
        /\ tx[k] >= testStart /\ pc = "search"
    BY LookIs DEF Inspect, Searching
  <1>2. k \in Window
    BY <1>1 DEF Window
  <1>3. prevRxTime \in Nat /\ \A c \in Window : c \in Nat /\ rx[c] \in Nat
    BY StatisticsAssumption, EndsType, ClassesAre DEF TypeOK, Time
  <1>4. /\ \A c \in Window : c < k => rx[c] <= prevRxTime
        /\ prevRxTime # 0 => \E c \in Window : c < k /\ rx[c] = prevRxTime
    BY <1>1 DEF CountInv, Below
  <1>5. Overtakes(k) <=> rx[k] < prevRxTime
    <2>1. ASSUME Overtakes(k) PROVE rx[k] < prevRxTime
      BY <1>1, <1>3, <1>4, <2>1 DEF Overtakes
    <2>2. ASSUME rx[k] < prevRxTime PROVE Overtakes(k)
      BY <1>1, <1>3, <1>4, <2>2 DEF Overtakes
    <2>3. QED BY <2>1, <2>2
  <1>6. QED BY <1>1, <1>2, <1>3, <1>5 DEF Dropped, OutOfOrder, Observed

\* Every step keeps the counts.
LEMMA CountStep ==
    ASSUME TypeOK, TableInv, PlaceInv, ArrayBound, CountInv, Next
    PROVE  CountInv'
  <1>0. s_user_params' = s_user_params /\ tx' = tx /\ Blocks' = Blocks
    BY SettingStep, SettingKept
  <1>a. /\ k \in Nat /\ g_receiveCount \in Nat /\ SIZE \in Nat /\ Len(pLat) \in Nat
        /\ dropped \in Nat /\ ooo \in Nat /\ prevRxTime \in Nat
    BY StatisticsAssumption DEF TypeOK, Time
  <1>b. /\ IsFiniteSet(Observed) /\ Observed \subseteq Nat
        /\ IsFiniteSet(OutOfOrder) /\ OutOfOrder \subseteq Nat
        /\ IsFiniteSet(Dropped) /\ Dropped \subseteq Nat
        /\ IsFiniteSet(Window) /\ Window \subseteq Nat
    <2>1. \A S : S \subseteq Window => S \subseteq Blocks /\ S \subseteq Nat
      BY ClassesAre
    <2>2. \A S : S \subseteq Window => IsFiniteSet(S)
      BY <2>1, ClassesAre, FS_Subset
    <2>3. QED BY <2>1, <2>2, ClassesAre
  <1>c. ASSUME rx' = rx
        PROVE  Window' = Window /\ Observed' = Observed /\ OutOfOrder' = OutOfOrder /\ Dropped' = Dropped
    BY <1>0, <1>c, ClassesKept
  <1>d. ASSUME UNCHANGED <<rx, g_receiveCount, SIZE, k, pLat, dropped, ooo, prevRxTime>>, pc' = pc
        PROVE  CountInv'
    <2>1. \A b : HasRoundTrip(b)' = HasRoundTrip(b)
      BY <1>0, <1>c, <1>d DEF HasRoundTrip, Below
    <2>2. QED BY <1>c, <1>d, <2>1 DEF CountInv, Below
  <1>1. CASE RecordLate
    <2>1. CASE rx[late] # 0
      BY <1>d, <1>1, <2>1 DEF RecordLate
    <2>2. CASE rx[late] = 0
      <3>1. g_receiveCount' = g_receiveCount + 1 /\ SIZE' = SIZE
        BY <1>1, <2>2 DEF RecordLate
      <3>2. g_receiveCount' # SIZE'
        BY <1>a, <3>1 DEF TableInv
      <3>3. QED BY <3>2 DEF CountInv
    <2>3. QED BY <2>1, <2>2
  <1>2. CASE Begin
    <2>1. /\ rx' = rx /\ k' = startSearchHere /\ pLat' = <<>> /\ dropped' = 0 /\ ooo' = 0
          /\ prevRxTime' = 0 /\ SIZE' = g_receiveCount /\ pc' \in {"nothing", "search", "exceeded"}
          /\ pc' = "search" => SIZE' # 0
      BY <1>2 DEF Begin, tables, PlaceInv
    <2>2. \A S : S \subseteq Window => Below(S, k') = {}
      <3>1. startSearchHere \in Nat /\ \A b \in Window : b \in Nat /\ b >= startSearchHere
        BY <1>b, SettingFacts, ClassesAre DEF TypeOK
      <3>2. QED BY <2>1, <3>1 DEF Below
    <2>3. /\ Below(Observed', k') = {} /\ Below(OutOfOrder', k') = {} /\ Below(Dropped', k') = {}
          /\ Below(Window', k') = {}
      BY <1>c, <2>1, <2>2, ClassesAre
    <2>4. Cardinality({}) = 0 /\ Len(pLat') = 0
      BY <2>1, FS_EmptySet
    <2>5. pc' = "search" => Len(pLat') # SIZE'
      BY <2>1, <2>4
    <2>6. pc' # "done"
      BY <2>1
    <2>7. QED BY <2>1, <2>3, <2>4, <2>5, <2>6 DEF CountInv
  <1>3. CASE Exceeded
    BY <1>3 DEF Exceeded, CountInv
  <1>4. CASE EndSearch
    <2>1. /\ UNCHANGED <<rx, g_receiveCount, SIZE, k, pLat, dropped, ooo, prevRxTime>>
          /\ pc = "search" /\ pc' = "done" /\ (Len(pLat) < SIZE => InTable /\ Beyond(k))
      BY <1>4 DEF EndSearch, tables
    <2>2. Len(pLat) < SIZE => \A b \in Window : b < k
      <3>1. SUFFICES ASSUME Len(pLat) < SIZE, NEW b \in Window, k <= b PROVE FALSE
        BY <1>a, <1>b
      <3>2. k \in Blocks
        <4>1. k > 0 /\ k * reply_every <= maxSequenceNo
          <5>1. k >= startSearchHere /\ startSearchHere \in Nat \ {0}
            BY <2>1, SettingFacts DEF PlaceInv, TypeOK
          <5>2. QED BY <1>a, <2>1, <3>1, <5>1 DEF InTable
        <4>2. QED BY <1>a, <4>1, BlockIs DEF TypeOK
      <3>3. b \in Blocks /\ ~Beyond(b)
        BY DEF Window
      <3>4. QED BY <2>1, <3>1, <3>2, <3>3, BeyondMono
    <2>3. \A b : HasRoundTrip(b)' = HasRoundTrip(b)
      BY <1>0, <1>c, <2>1 DEF HasRoundTrip, Below
    <2>4. QED BY <1>c, <2>1, <2>2, <2>3 DEF CountInv, Below
  <1>5. CASE Looks /\ (SkipEarly \/ CountDropped \/ CountOutOfOrder \/ Observe)
    <2>1. /\ UNCHANGED <<rx, g_receiveCount, SIZE>> /\ pc = "search" /\ pc' = pc /\ k' = k + 1
          /\ Len(pLat) < SIZE
      BY <1>5 DEF Looks, Searching, tables
    <2>2. SUFFICES ASSUME g_receiveCount = SIZE
                   PROVE  /\ Len(pLat') = Cardinality(Below(Observed, k + 1))
                          /\ \A b \in Below(Observed, k + 1) : HasRoundTrip(b)'
                          /\ ooo' = Cardinality(Below(OutOfOrder, k + 1))
                          /\ dropped' = Cardinality(Below(Dropped, k + 1))
                          /\ \A c \in Below(Window, k + 1) : rx[c] <= prevRxTime'
                          /\ prevRxTime' # 0 => \E c \in Below(Window, k + 1) : rx[c] = prevRxTime'
                          /\ Len(pLat') = SIZE => k \in Observed
      <3>1. (k + 1) - 1 = k /\ pc' # "done"
        BY <1>a, <2>1
      <3>2. QED BY <1>c, <2>1, <2>2, <3>1 DEF CountInv
    <2>3. /\ Len(pLat) = Cardinality(Below(Observed, k))
          /\ \A b \in Below(Observed, k) : HasRoundTrip(b)
          /\ ooo = Cardinality(Below(OutOfOrder, k))
          /\ dropped = Cardinality(Below(Dropped, k))
          /\ \A c \in Below(Window, k) : rx[c] <= prevRxTime
          /\ prevRxTime # 0 => \E c \in Below(Window, k) : rx[c] = prevRxTime
      BY <2>1, <2>2 DEF CountInv
    <2>4. /\ k \in Observed => Cardinality(Below(Observed, k + 1)) = Cardinality(Below(Observed, k)) + 1
          /\ k \notin Observed => Below(Observed, k + 1) = Below(Observed, k)
          /\ k \in OutOfOrder => Cardinality(Below(OutOfOrder, k + 1)) = Cardinality(Below(OutOfOrder, k)) + 1
          /\ k \notin OutOfOrder => Below(OutOfOrder, k + 1) = Below(OutOfOrder, k)
          /\ k \in Dropped => Cardinality(Below(Dropped, k + 1)) = Cardinality(Below(Dropped, k)) + 1
          /\ k \notin Dropped => Below(Dropped, k + 1) = Below(Dropped, k)
      BY <1>a, <1>b, BelowNext
    <2>5. Below(Window, k) \subseteq Below(Window, k + 1)
          /\ Below(Window, k + 1) \subseteq Below(Window, k) \cup {k}
          /\ (k \notin Window => Below(Window, k + 1) = Below(Window, k))
          /\ (k \in Window => k \in Below(Window, k + 1))
      <3>1. k < k + 1 /\ \A b \in Window : b < k + 1 <=> b < k \/ b = k
        BY <1>a, <1>b
      <3>2. QED BY <3>1 DEF Below
    <2>a. \A n : Below(Observed, n)' = Below(Observed, n)
      BY <1>c, <2>1 DEF Below
    <2>b. pLat' = pLat => \A b : HasRoundTrip(b)' = HasRoundTrip(b)
      <3>1. SUFFICES ASSUME pLat' = pLat, NEW b PROVE HasRoundTrip(b)' = HasRoundTrip(b)
        OBVIOUS
      <3>2. QED BY <1>0, <2>1, <3>1, <1>c DEF HasRoundTrip, Below
    <2>6. CASE SkipEarly
      <3>1. UNCHANGED <<pLat, dropped, ooo, prevRxTime>> /\ tx[k] < testStart
        BY <2>6, LooksIs
      <3>2. k \notin Window
        <4>1. k \in Blocks => tx[k] \in Nat /\ testStart \in Int
          BY EndsType
        <4>2. QED BY <3>1, <4>1 DEF Window
      <3>3. k \notin Observed /\ k \notin OutOfOrder /\ k \notin Dropped
        BY <3>2, ClassesAre
      <3>4. ~(Len(pLat) = SIZE)
        BY <1>a, <2>1
      <3>5. QED BY <2>3, <2>4, <2>5, <2>b, <3>1, <3>2, <3>3, <3>4
    <2>7. CASE CountDropped
      <3>1. /\ Inspect /\ rx[k] = 0 /\ dropped' = dropped + 1 /\ UNCHANGED <<pLat, ooo, prevRxTime>>
        BY <2>7 DEF CountDropped
      <3>2. k \in Dropped /\ k \notin OutOfOrder /\ k \notin Observed
        BY <2>2, <3>1, ClassIs
      <3>3. ~(Len(pLat) = SIZE) /\ rx[k] <= prevRxTime
        BY <1>a, <2>1, <3>1
      <3>4. QED BY <2>3, <2>4, <2>5, <2>b, <3>1, <3>2, <3>3
    <2>8. CASE CountOutOfOrder
      <3>1. /\ Inspect /\ rx[k] # 0 /\ rx[k] < prevRxTime /\ ooo' = ooo + 1
            /\ UNCHANGED <<pLat, dropped, prevRxTime>>
        BY <2>8 DEF CountOutOfOrder
      <3>2. rx[k] \in Nat
        BY <3>1, LookIs DEF Inspect
      <3>3. k \in OutOfOrder /\ k \notin Dropped /\ k \notin Observed
        BY <1>a, <2>2, <3>1, <3>2, ClassIs
      <3>4. ~(Len(pLat) = SIZE) /\ rx[k] <= prevRxTime
        BY <1>a, <2>1, <3>1, <3>2
      <3>5. QED BY <2>3, <2>4, <2>5, <2>b, <3>1, <3>3, <3>4
    <2>9. CASE Observe
      <3>1. /\ Inspect /\ rx[k] # 0 /\ rx[k] >= prevRxTime /\ pLat' = Append(pLat, rx[k] - tx[k])
            /\ prevRxTime' = rx[k] /\ UNCHANGED <<dropped, ooo>>
        BY <2>9 DEF Observe
      <3>2. rx[k] \in Nat /\ \A c \in Window : rx[c] \in Nat
        BY <3>1, LookIs, EndsType, ClassesAre DEF Inspect
      <3>3. k \in Observed /\ k \notin Dropped /\ k \notin OutOfOrder /\ k \in Window
        BY <1>a, <2>2, <3>1, <3>2, ClassIs
      <3>4. Len(pLat') = Len(pLat) + 1
        <4>1. pLat \in Seq(Int)
          BY DEF TypeOK
        <4>2. QED BY <3>1, <4>1
      <3>5. \A c \in Below(Window, k + 1) : rx[c] <= rx[k]
        <4>1. \A c \in Below(Window, k) : rx[c] <= rx[k]
          <5>1. \A c \in Below(Window, k) : c \in Window
            BY DEF Below
          <5>2. QED BY <1>a, <2>3, <3>1, <3>2, <5>1
        <4>2. QED BY <2>5, <3>2, <4>1
      <3>6. ASSUME NEW b \in Below(Observed, k + 1) PROVE HasRoundTrip(b)'
        <4>1. PICK n : n = 1 + Cardinality(Below(Observed, b))
          OBVIOUS
        <4>2. HasRoundTrip(b)' <=> n \in 1 .. Len(pLat') /\ pLat'[n] = rx[b] - tx[b]
          BY <1>0, <1>c, <2>1, <4>1 DEF HasRoundTrip, Below
        <4>3. HasRoundTrip(b) <=> n \in 1 .. Len(pLat) /\ pLat[n] = rx[b] - tx[b]
          BY <4>1 DEF HasRoundTrip
        <4>4. pLat \in Seq(Int) /\ rx[k] - tx[k] \in Int
          BY <3>1, LookIs DEF Inspect, TypeOK
        <4>5. CASE b = k
          <5>1. n = Len(pLat) + 1
            BY <1>a, <2>3, <4>1, <4>5
          <5>2. pLat'[n] = rx[k] - tx[k]
            BY <3>1, <4>4, <5>1
          <5>3. QED BY <1>a, <3>4, <4>2, <4>5, <5>1, <5>2
        <4>6. CASE b # k
          <5>1. b \in Below(Observed, k)
            BY <1>a, <1>b, <4>6 DEF Below
          <5>2. n \in 1 .. Len(pLat) /\ pLat[n] = rx[b] - tx[b]
            BY <2>3, <4>3, <5>1
          <5>3. pLat'[n] = pLat[n]
            BY <3>1, <4>4, <5>2
          <5>4. QED BY <1>a, <3>4, <4>2, <5>2, <5>3
        <4>7. QED BY <4>5, <4>6
      <3>7. QED BY <2>3, <2>4, <2>5, <3>1, <3>3, <3>4, <3>5, <3>6
    <2>10. QED BY <1>5, <2>6, <2>7, <2>8, <2>9
  <1>6. QED BY StepKinds, <1>1, <1>2, <1>3, <1>4, <1>5

\* No reply overtakes another if and only if they came in order.
LEMMA OrderIs ==
    ASSUME TypeOK, TableInv
    PROVE  Cardinality(OutOfOrder) = 0 <=> RepliesInOrder
  <1>1. \A b \in Window : b \in Nat /\ rx[b] \in Nat
    BY EndsType, ClassesAre
  <1>2. OutOfOrder = {} <=> RepliesInOrder
    <2>1. ASSUME OutOfOrder = {}, NEW b \in Window, NEW c \in Window, b < c, rx[b] # 0, rx[c] # 0
          PROVE  rx[b] <= rx[c]
      <3>1. ~Overtakes(c)
        BY <2>1 DEF OutOfOrder
      <3>2. QED BY <1>1, <2>1, <3>1 DEF Overtakes
    <2>2. ASSUME RepliesInOrder, NEW b \in OutOfOrder PROVE FALSE
      <3>1. b \in Window /\ rx[b] # 0 /\ Overtakes(b)
        BY <2>2 DEF OutOfOrder
      <3>2. PICK c \in Window : c < b /\ rx[c] > rx[b]
        BY <3>1 DEF Overtakes
      <3>3. rx[c] # 0
        BY <1>1, <3>1, <3>2
      <3>4. rx[c] <= rx[b]
        BY <2>2, <3>1, <3>2, <3>3 DEF RepliesInOrder
      <3>5. QED BY <1>1, <3>1, <3>2, <3>4
    <2>3. OutOfOrder = {} => RepliesInOrder
      BY <2>1 DEF RepliesInOrder
    <2>4. QED BY <2>2, <2>3
  <1>3. IsFiniteSet(OutOfOrder)
    <2>1. OutOfOrder \subseteq Blocks /\ IsFiniteSet(Blocks)
      BY ClassesAre
    <2>2. QED BY <2>1, FS_Subset
  <1>4. Cardinality(OutOfOrder) = 0 <=> OutOfOrder = {}
    BY <1>3, FS_EmptySet
  <1>5. QED BY <1>2, <1>4

\* When the loop is done the counts of the blocks seen are those of all blocks.
LEMMA ReportIs ==
    ASSUME TypeOK, TableInv, ArrayBound, CountInv
    PROVE  ReportCorrect
  <1>0. SUFFICES ASSUME pc = "done", g_receiveCount = SIZE
                 PROVE  /\ Len(pLat) = Cardinality(Observed)
                        /\ \A b \in Observed : pLat[1 + Cardinality({c \in Observed : c < b})] = rx[b] - tx[b]
                        /\ ooo = Cardinality(OutOfOrder)
                        /\ dropped = Cardinality({b \in Dropped :
                                         Len(pLat) = SIZE => \E c \in Observed : c > b})
    BY OrderIs DEF ReportCorrect
  <1>1. pc = "done" /\ g_receiveCount = SIZE
    BY <1>0
  <1>a. \A b \in Below(Observed, k) :
             pLat[1 + Cardinality({c \in Observed : c < b})] = rx[b] - tx[b]
    BY <1>1 DEF CountInv, HasRoundTrip, Below
  <1>2. /\ Len(pLat) = Cardinality(Below(Observed, k))
        /\ ooo = Cardinality(Below(OutOfOrder, k))
        /\ dropped = Cardinality(Below(Dropped, k))
        /\ Len(pLat) = SIZE => k - 1 \in Observed
        /\ Len(pLat) < SIZE => \A b \in Window : b < k
    BY <1>1 DEF CountInv
  <1>3. /\ k \in Nat /\ SIZE \in Nat /\ Len(pLat) \in Nat /\ Len(pLat) <= SIZE
        /\ Observed \subseteq Window /\ OutOfOrder \subseteq Window /\ Dropped \subseteq Window
        /\ Window \subseteq Nat /\ Window \subseteq Blocks /\ IsFiniteSet(Blocks)
    BY ClassesAre DEF TypeOK, ArrayBound
  <1>4. CASE Len(pLat) < SIZE
    <2>1. Below(Observed, k) = Observed /\ Below(OutOfOrder, k) = OutOfOrder /\ Below(Dropped, k) = Dropped
      BY <1>2, <1>3, <1>4 DEF Below
    <2>2. {b \in Dropped : Len(pLat) = SIZE => \E c \in Observed : c > b} = Dropped
      BY <1>3, <1>4
    <2>3. QED BY <1>2, <1>a, <2>1, <2>2
  <1>5. CASE Len(pLat) = SIZE
    <2>1. Received(rx) \subseteq Blocks /\ Below(Observed, k) \subseteq Received(rx)
      BY <1>3 DEF Received, Below, Observed
    <2>2. IsFiniteSet(Received(rx))
      BY <1>3, <2>1, FS_Subset
    <2>3. /\ Cardinality(Below(Observed, k)) <= Cardinality(Received(rx))
          /\ Cardinality(Received(rx)) = Cardinality(Below(Observed, k)) =>
               Received(rx) = Below(Observed, k)
      BY <2>1, <2>2, FS_Subset
    <2>4. Cardinality(Received(rx)) \in Nat /\ Cardinality(Received(rx)) <= SIZE
      BY <1>1, <2>2, FS_CardinalityType DEF TableInv
    <2>5. Received(rx) = Below(Observed, k)
      BY <1>2, <1>3, <1>5, <2>3, <2>4
    <2>6. Observed \subseteq Received(rx) /\ OutOfOrder \subseteq Received(rx)
          /\ Observed \cap OutOfOrder = {}
      BY <1>3 DEF Received, Observed, OutOfOrder
    <2>7. Below(Observed, k) \subseteq Observed /\ Below(OutOfOrder, k) \subseteq OutOfOrder
      BY DEF Below
    <2>8. Observed = Below(Observed, k) /\ OutOfOrder = {} /\ Below(OutOfOrder, k) = {}
      BY <2>5, <2>6, <2>7
    <2>9. {b \in Dropped : Len(pLat) = SIZE => \E c \in Observed : c > b} = Below(Dropped, k)
      <3>1. ASSUME NEW b \in Dropped, NEW c \in Observed, c > b PROVE b < k
        <4>1. c \in Nat /\ c < k /\ b \in Nat
          BY <1>3, <2>8 DEF Below
        <4>2. QED BY <1>3, <3>1, <4>1
      <3>2. ASSUME NEW b \in Dropped, b < k PROVE k - 1 \in Observed /\ k - 1 > b
        <4>1. k - 1 \in Observed /\ b \notin Observed
          BY <1>2, <1>5 DEF Dropped, Observed
        <4>2. QED BY <1>3, <3>2, <4>1
      <3>3. QED BY <1>5, <3>1, <3>2 DEF Below
    <2>10. QED BY <1>2, <1>a, <2>8, <2>9
  <1>6. QED BY <1>3, <1>4, <1>5

-----------------------------------------------------------------------------
(* The invariant, and what follows from it. *)

\* The invariant holds initially.
LEMMA InitInv == Init => IInv
  <1>1. SUFFICES ASSUME Init PROVE IInv
    OBVIOUS
  <1>2. s_user_params \in Settings /\ pc = "begin" /\ pLat = <<>> /\ SIZE = 0 /\ Len(pLat) = 0
    BY <1>1 DEF Init
  <1>3. Blocks \subseteq Nat /\ IsFiniteSet(Blocks)
    BY <1>2, BlockIs
  <1>4. Cardinality(Received(rx)) \in Nat
    <2>1. Received(rx) \subseteq Blocks
      BY DEF Received
    <2>2. IsFiniteSet(Received(rx))
      BY <1>3, <2>1, FS_Subset
    <2>3. QED BY <2>2, FS_CardinalityType
  <1>5. g_receiveCount \in Nat /\ Cardinality(Received(rx)) <= g_receiveCount
    <2>1. PICK o \in Others : g_receiveCount = Cardinality(Received(rx)) + o
      BY <1>1 DEF Init
    <2>2. o \in Nat
      BY StatisticsAssumption
    <2>3. QED BY <1>4, <2>1, <2>2
  <1>6. TableInv
    BY <1>1, <1>2, <1>5 DEF Init, TableInv
  <1>7. TypeOK
    <2>1. tx \in [Blocks -> Time] /\ rx \in [Blocks -> Time] /\ late \in Blocks \cup {0}
      BY <1>1 DEF Init, TxTables, RxTables, Sent
    <2>2. 0 \in Time
      BY StatisticsAssumption DEF Time
    <2>3. sendCount \in Nat
      <3>1. Last \in Nat /\ Last > 0
        <4>1. Sent(tx) # {} /\ Sent(tx) \subseteq Blocks
          BY <1>1 DEF Init, Sent
        <4>2. Last \in Blocks
          BY <1>2, <4>1, LastIs
        <4>3. QED BY <1>2, <4>2, BlockIs
      <3>2. reply_every \in Nat \ {0}
        BY <1>2, SettingFacts
      <3>3. Last * reply_every \in Nat /\ (Last + 1) * reply_every \in Nat
        BY <3>1, <3>2, Times
      <3>4. sendCount \in Last * reply_every .. (Last + 1) * reply_every - 1
        BY <1>1 DEF Init
      <3>5. QED BY <3>3, <3>4
    <2>4. QED BY <1>1, <1>2, <1>5, <2>1, <2>2, <2>3 DEF Init, TypeOK
  <1>8. PlaceInv /\ ArrayBound /\ IntervalInv /\ CountInv /\ StatisticsPrinted
    BY <1>1, <1>2 DEF Init, PlaceInv, ArrayBound, IntervalInv, CountInv, StatisticsPrinted
  <1>9. QED BY <1>6, <1>7, <1>8 DEF IInv

\* Every step keeps the invariant.
LEMMA StepInv == IInv /\ [Next]_vars => IInv'
  <1>1. SUFFICES ASSUME IInv, [Next]_vars PROVE IInv'
    OBVIOUS
  <1>2. CASE Next
    BY <1>1, <1>2, TypeStep, TableStep, PlaceStep, ArrayStep, IntervalStep, CountStep,
       PrintedStep DEF IInv
  <1>3. CASE UNCHANGED vars
    <2>1. /\ UNCHANGED <<s_user_params, tx, rx, sendCount, g_receiveCount, late, pc, SIZE>>
          /\ UNCHANGED <<k, pLat, dropped, ooo>>
          /\ UNCHANGED <<startValidTime, endValidTime, startValidSeqNo, endValidSeqNo, prevRxTime>>
      BY <1>3 DEF vars
    <2>2. /\ Playback' = Playback /\ reply_every' = reply_every /\ startSearchHere' = startSearchHere
          /\ Blocks' = Blocks
      BY <2>1, SettingKept
    <2>3. Window' = Window /\ Observed' = Observed /\ OutOfOrder' = OutOfOrder /\ Dropped' = Dropped
      BY <2>1, ClassesKept
    <2>4. TypeOK'
      BY <1>1, <2>1, <2>2 DEF IInv, TypeOK
    <2>5. TableInv'
      BY <1>1, <2>1, <2>2 DEF IInv, TableInv, TxTables, RxTables, Sent, Received
    <2>6. PlaceInv' /\ ArrayBound' /\ StatisticsPrinted'
      BY <1>1, <2>1, <2>2, SettingKept DEF IInv, PlaceInv, ArrayBound, StatisticsPrinted
    <2>7. IntervalInv'
      BY <1>1, <2>1, <2>2 DEF IInv, IntervalInv, Sent
    <2>8. CountInv'
      <3>1. \A b : HasRoundTrip(b)' = HasRoundTrip(b)
        BY <2>1, <2>3 DEF HasRoundTrip, Below
      <3>2. QED BY <1>1, <2>1, <2>3, <3>1 DEF IInv, CountInv, Below
    <2>9. QED BY <2>4, <2>5, <2>6, <2>7, <2>8 DEF IInv
  <1>4. QED BY <1>1, <1>2, <1>3

\* The invariant holds in every reachable state.
LEMMA Inductive == Spec => []IInv
  BY InitInv, StepInv, PTL DEF Spec

\* The variables of client_statistics() have their types for tables of every size.
THEOREM TypeCorrect == Spec => []TypeOK
  <1>1. IInv => TypeOK
    BY DEF IInv
  <1>2. QED BY <1>1, Inductive, PTL

\* pLat, allocated for the replies counted when client_statistics() starts, is never
\* written beyond its end, whenever the receiver thread records its last reply.
THEOREM NoOverrun == Spec => []ArrayBound
  <1>1. IInv => ArrayBound
    BY DEF IInv
  <1>2. QED BY <1>1, Inductive, PTL

\* The unsigned differences client_statistics() prints as the valid duration do not wrap
\* around, for every table a test can leave behind.
THEOREM DurationValid == Spec => []ValidDuration
  <1>1. IInv => ValidDuration
    BY DEF IInv, IntervalInv, ValidDuration
  <1>2. QED BY <1>1, Inductive, PTL

\* The one pass of client_statistics() with the one time it remembers keeps the round trip
\* time of every reply of the measured interval that overtakes none, each at its place,
\* counts the replies that overtake another (none, if and only if the replies came in the
\* order of the requests) and the messages without a reply, for every table, warm-up,
\* cool-down and number of replies of other servers.
THEOREM CountsRight == Spec => []ReportCorrect
  <1>1. IInv => ReportCorrect
    BY ReportIs DEF IInv
  <1>2. QED BY <1>1, Inductive, PTL

\* The loop of client_statistics(), which has no bound of its own, never asks the table for
\* a request it does not have, unless the test is a playback or sent more than the table holds.
THEOREM ReportReached == Spec => []StatisticsPrinted
  <1>1. IInv => StatisticsPrinted
    BY DEF IInv
  <1>2. QED BY <1>1, Inductive, PTL
=============================================================================
