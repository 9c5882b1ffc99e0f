------------------------ MODULE MessageParserProofs ------------------------
(***************************************************************************)
(* Proofs about MessageParser for every number of connections, every       *)
(* header and buffer size, every message length and both accumulation      *)
(* strategies.                                                             *)
(***************************************************************************)
EXTENDS MessageParser, TLAPS

-----------------------------------------------------------------------------
(* Where the stream stands. *)

\* The end of the messages sent and of the messages delivered are positions
\* of the stream, and a position before the end belongs to a next message.
LEMMA Positions ==
    ASSUME TypeOK, SentInv, InOrderDelivery, NEW c \in Conns
    PROVE  /\ Base(c) \in Nat
           /\ End(sent[c]) \in Nat
           /\ Base(c) < End(sent[c]) => HasNext(c)
           /\ HasNext(c) => /\ NextLen(c) \in Nat
                            /\ NextLen(c) >= EFFECTIVE_SIZE
                            /\ sent[c][Len(delivered[c]) + 1].start = Base(c)
                            /\ Base(c) + NextLen(c) <= End(sent[c])
  <1>1. /\ sent[c] \in Seq(Message)
        /\ delivered[c] \in Seq(Message)
    BY DEF TypeOK
  <1>2. \A m \in Message : m.start \in Nat /\ m.len \in Nat /\ m.len >= EFFECTIVE_SIZE
    BY LengthsAssumption DEF Message
  <1>3. Len(sent[c]) \in Nat /\ Len(delivered[c]) \in Nat
    BY <1>1
  <1>4. \A k \in 1 .. Len(sent[c]) : sent[c][k] \in Message
    BY <1>1
  <1>5. \A k \in 1 .. Len(delivered[c]) : delivered[c][k] \in Message
    BY <1>1
  <1>6. End(sent[c]) \in Nat
    <2>1. CASE sent[c] = <<>>
      BY <2>1 DEF End
    <2>2. CASE sent[c] # <<>>
      <3>1. Len(sent[c]) \in 1 .. Len(sent[c])
        BY <1>1, <1>3, <2>2
      <3>2. QED BY <3>1, <1>4, <1>2, <2>2 DEF End
    <2>3. QED BY <2>1, <2>2
  <1>7. Base(c) = IF Len(delivered[c]) = 0 THEN 0
                  ELSE sent[c][Len(delivered[c])].start + sent[c][Len(delivered[c])].len
    <2>1. CASE delivered[c] = <<>>
      BY <2>1 DEF End, Base
    <2>2. CASE delivered[c] # <<>>
      <3>1. Len(delivered[c]) \in 1 .. Len(delivered[c]) /\ Len(delivered[c]) # 0
        BY <1>1, <1>3, <2>2
      <3>2. delivered[c][Len(delivered[c])] = sent[c][Len(delivered[c])]
        BY <3>1 DEF InOrderDelivery
      <3>3. QED BY <3>1, <3>2, <2>2 DEF End, Base
    <2>3. QED BY <2>1, <2>2
  <1>8. Len(delivered[c]) <= Len(sent[c])
    BY DEF InOrderDelivery
  <1>9. Base(c) \in Nat
    BY <1>7, <1>8, <1>3, <1>4, <1>2
  <1>10. ASSUME HasNext(c)
         PROVE  /\ NextLen(c) \in Nat
                /\ NextLen(c) >= EFFECTIVE_SIZE
                /\ sent[c][Len(delivered[c]) + 1].start = Base(c)
                /\ Base(c) + NextLen(c) <= End(sent[c])
    <2> DEFINE n == Len(delivered[c])
    <2>1. n + 1 \in 1 .. Len(sent[c]) /\ n \in Nat /\ sent[c] # <<>>
      BY <1>10, <1>3, <1>1 DEF HasNext
    <2>2. sent[c][n + 1] \in Message
      BY <2>1, <1>4
    <2>3. sent[c][n + 1].start = Base(c)
      <3>1. sent[c][n + 1].start = IF n + 1 = 1 THEN 0
                ELSE sent[c][(n + 1) - 1].start + sent[c][(n + 1) - 1].len
        BY <2>1 DEF SentInv
      <3>2. (n + 1) - 1 = n /\ (n + 1 = 1 <=> n = 0)
        BY <2>1
      <3>3. QED BY <3>1, <3>2, <1>7
    <2>4. NextLen(c) \in Nat /\ NextLen(c) >= EFFECTIVE_SIZE
      BY <2>2, <1>2 DEF NextLen
    <2>5. Base(c) + NextLen(c) <= End(sent[c])
      <3>1. End(sent[c]) = sent[c][Len(sent[c])].start + sent[c][Len(sent[c])].len
        BY <2>1 DEF End
      <3>2. CASE n + 1 = Len(sent[c])
        BY <3>1, <3>2, <2>3, <1>6, <1>9, <2>4 DEF NextLen
      <3>3. CASE n + 1 # Len(sent[c])
        <4>1. n + 1 < Len(sent[c]) /\ Len(sent[c]) \in 1 .. Len(sent[c])
          BY <3>3, <2>1, <1>3
        <4>2. sent[c][n + 1].start + sent[c][n + 1].len <= sent[c][Len(sent[c])].start
          BY <4>1, <2>1 DEF SentInv
        <4>3. sent[c][Len(sent[c])].len \in Nat /\ sent[c][Len(sent[c])].start \in Nat
          BY <4>1, <1>4, <1>2
        <4>4. sent[c][n + 1].len = NextLen(c)
          BY DEF NextLen
        <4> HIDE DEF n
        <4>5. QED BY <4>2, <4>3, <4>4, <3>1, <2>3, <2>4, <1>9, <1>6
      <3>4. QED BY <3>2, <3>3
    <2>6. QED BY <2>3, <2>4, <2>5
  <1>11. ASSUME ~HasNext(c) PROVE Base(c) = End(sent[c])
    <2>1. Len(delivered[c]) = Len(sent[c])
      BY <1>11, <1>8, <1>3 DEF HasNext
    <2>2. QED BY <2>1, <1>7, <1>1 DEF End
  <1>12. QED BY <1>6, <1>9, <1>10, <1>11

\* A header in memory, in host order, yields the length of the message.
LEMMA LengthRead ==
    ASSUME TypeOK, SentInv, InOrderDelivery, NEW c \in Conns, HasNext(c),
           NEW m, NEW o, NEW a \in Nat,
           Holds(m, a, Base(c), EFFECTIVE_SIZE),
           Ordered(o, a, "host", EFFECTIVE_SIZE)
    PROVE  LengthAt(m, o, c, a) = NextLen(c)
  <1>a. sent[c] \in Seq(Message) /\ delivered[c] \in Seq(Message)
    <2>1. sent \in [Conns -> Seq(Message)] /\ delivered \in [Conns -> Seq(Message)]
      BY DEF TypeOK
    <2>2. QED BY <2>1
  <1>b. Len(sent[c]) \in Nat /\ Len(delivered[c]) \in Nat
        /\ DOMAIN sent[c] = 1 .. Len(sent[c])
    BY <1>a
  <1>c. Len(delivered[c]) + 1 \in 1 .. Len(sent[c])
    BY <1>b DEF HasNext
  <1> DEFINE n == Len(delivered[c]) + 1
             H(k) == Holds(m, a, sent[c][k].start, EFFECTIVE_SIZE)
  <1>1. sent[c] \in Seq(Message) /\ Len(sent[c]) \in Nat /\ n \in Nat
    BY <1>a, <1>b
  <1>2. n \in 1 .. Len(sent[c]) /\ DOMAIN sent[c] = 1 .. Len(sent[c])
    BY <1>b, <1>c
  <1>3. H(n)
    BY Positions
  <1>4. ASSUME NEW k \in DOMAIN sent[c], H(k) PROVE sent[c][k].len = NextLen(c)
    <2>1. \A j \in 1 .. Len(sent[c]) : sent[c][j].start \in Nat /\ sent[c][j].len \in Nat
                                       /\ sent[c][j].len >= EFFECTIVE_SIZE
      <3>1. \A j \in 1 .. Len(sent[c]) : sent[c][j] \in Message
        BY <1>1
      <3>2. QED BY <3>1, LengthsAssumption DEF Message
    <2>2. a \in a .. (a + EFFECTIVE_SIZE - 1)
      BY SizeAssumption
    <2>3. m[a] = sent[c][k].start + (a - a) /\ m[a] = sent[c][n].start + (a - a)
      BY <1>4, <1>3, <2>2 DEF Holds
    <2>4. sent[c][k].start = sent[c][n].start
      <3>1. k \in 1 .. Len(sent[c])
        BY <1>2
      <3>2. sent[c][k].start \in Nat /\ sent[c][n].start \in Nat
        BY <3>1, <2>1, <1>2
      <3>3. a - a = 0
        OBVIOUS
      <3>4. QED BY <2>3, <3>2, <3>3
    <2>5. k = n
      <3>1. k \in 1 .. Len(sent[c])
        BY <1>2
      <3> HIDE DEF n
      <3>2. /\ k < n => sent[c][k].start + sent[c][k].len <= sent[c][n].start
            /\ n < k => sent[c][n].start + sent[c][n].len <= sent[c][k].start
        BY <3>1, <1>2 DEF SentInv
      <3> DEFINE lk == sent[c][k].len
                 ln == sent[c][n].len
                 s == sent[c][n].start
      <3>5. lk \in Nat /\ lk > 0 /\ ln \in Nat /\ ln > 0 /\ s \in Nat
        BY <3>1, <2>1, <1>2, SizeAssumption
      <3>6. (k < n => s + lk <= s) /\ (n < k => s + ln <= s)
        BY <3>2, <2>4
      <3> HIDE DEF lk, ln, s
      <3>3. ~(k < n) /\ ~(n < k)
        BY <3>5, <3>6
      <3>4. QED BY <3>1, <3>3, <1>1
    <2>6. QED BY <2>5 DEF NextLen
  <1>5. LengthAt(m, o, c, a) = sent[c][CHOOSE k \in DOMAIN sent[c] : H(k)].len
    BY <1>2, <1>3 DEF LengthAt
  <1>6. (CHOOSE k \in DOMAIN sent[c] : H(k)) \in DOMAIN sent[c]
        /\ H(CHOOSE k \in DOMAIN sent[c] : H(k))
    BY <1>2, <1>3
  <1> HIDE DEF H
  <1>7. QED BY <1>4, <1>5, <1>6

-----------------------------------------------------------------------------
(* One iteration of the loop of process_buffer(). *)

\* The sizes as integers, for the steps that only do arithmetic.
LEMMA Sizes ==
    /\ EFFECTIVE_SIZE \in Nat /\ EFFECTIVE_SIZE >= 1
    /\ MAX_PAYLOAD_SIZE \in Nat /\ MAX_PAYLOAD_SIZE >= EFFECTIVE_SIZE
    /\ ms_maxSize \in Nat /\ ms_maxSize >= MAX_PAYLOAD_SIZE /\ ms_maxSize <= MAX_PAYLOAD_SIZE + 1
    /\ PacketSize \in Nat /\ PacketSize >= 1
    /\ BufSize \in Nat /\ BufSize = MAX_PAYLOAD_SIZE + MAX_PAYLOAD_SIZE
    /\ PACKET = BufSize
  BY SizeAssumption DEF BufSize, PACKET

\* The state of the connection whose chunk is processed, as plain numbers.
LEMMA LocalTypes ==
    ASSUME TypeOK
    PROVE  /\ conn \in Conns
           /\ buf \in Nat /\ len \in Nat /\ offset \in Nat
           /\ cur_addr[conn] \in Nat /\ cur_offset[conn] \in Nat /\ cur_size[conn] \in Int
           /\ rcvd[conn] \in Nat
           /\ mem[conn] \in [Addr -> Nat \cup {Unwritten}]
           /\ order[conn] \in [Addr -> {"net", "host"}]
           /\ direct \in {"direct", "accumulate"}
  BY DEF TypeOK

\* What a chunk holds once accumulate_more() is done: a non-empty part of the
\* rest, joined to the pending bytes of the message at cur_addr.
LEMMA ChunkBytes ==
    ASSUME IInv, InLoop
    PROVE  /\ ChunkLen \in Nat /\ ChunkLen >= 1 /\ ChunkLen <= len
           /\ direct = "direct" \/ Strategy = "InPlace" =>
                 /\ ChunkLen = len
                 /\ buf + offset = cur_addr[conn] + cur_offset[conn]
           /\ direct = "accumulate" => ChunkLen <= cur_size[conn] /\ cur_offset[conn] > 0
           /\ direct = "accumulate" /\ Strategy = "Buffer" => cur_addr[conn] = 0
           /\ direct = "direct" => cur_offset[conn] = 0 /\ offset = 0 /\ cur_addr[conn] = buf
           /\ ChunkMem \in [Addr -> Nat \cup {Unwritten}]
           /\ Accumulated(order[conn]) \in [Addr -> {"net", "host"}]
           /\ cur_addr[conn] + cur_offset[conn] + ChunkLen <= BufSize + PacketSize
           /\ Strategy = "InPlace" \/ direct = "accumulate" =>
                 cur_addr[conn] + cur_offset[conn] + ChunkLen <= BufSize
           /\ Holds(ChunkMem, cur_addr[conn], Base(conn), cur_offset[conn] + ChunkLen)
           /\ Holds(ChunkMem, buf + offset, Base(conn) + cur_offset[conn], len)
           /\ Ordered(Accumulated(order[conn]), buf + offset, "net", len)
           /\ cur_offset[conn] < EFFECTIVE_SIZE =>
                 Ordered(Accumulated(order[conn]), cur_addr[conn], "net",
                         cur_offset[conn] + ChunkLen)
           /\ cur_offset[conn] >= EFFECTIVE_SIZE =>
                 Ordered(Accumulated(order[conn]), cur_addr[conn], "host", EFFECTIVE_SIZE)
  <1> DEFINE c == conn
  <1>1. TypeOK /\ LoopInv /\ len > 0
    BY DEF IInv, InLoop
  <1>2. Base(c) \in Nat
    BY Positions, LocalTypes DEF IInv
  <1>3. RestInv(cur_offset[c])
    BY <1>1 DEF LoopInv
  <1>4. CASE direct = "direct"
    <2>1. cur_offset[c] = 0 /\ offset = 0 /\ cur_addr[c] = buf /\ ChunkLen = len
      BY <1>1, <1>4, LocalTypes DEF LoopInv, RestInv, ChunkLen
    <2>2. ChunkMem = mem[c] /\ Accumulated(order[c]) = order[c]
      BY <1>4 DEF ChunkMem, Accumulated
    <2>3. buf + len <= BufSize + PacketSize /\ (Strategy = "InPlace" => buf + len <= BufSize)
      BY <2>1, <1>1, <1>3, LocalTypes, Sizes, StrategyAssumption DEF LoopInv, RestInv
    <2>4. /\ Holds(mem[c], buf + offset, Base(c) + cur_offset[c], len)
          /\ Ordered(order[c], buf + offset, "net", len)
      BY <1>3 DEF RestInv
    <2>5. buf + offset = buf /\ Base(c) + cur_offset[c] = Base(c) /\ cur_offset[c] + len = len
      BY <2>1, <1>2, LocalTypes, <1>1
    <2>6. QED BY <2>1, <2>2, <2>3, <2>4, <2>5, <1>1, <1>4, LocalTypes, Sizes
  <1>5. CASE direct = "accumulate" /\ Strategy = "InPlace"
    <2>1. cur_offset[c] > 0
      BY <1>1, <1>5, LocalTypes DEF LoopInv
    <2>2. PendingInv(c) /\ buf + offset = cur_addr[c] + cur_offset[c] /\ len <= cur_size[c]
      BY <2>1, <1>1, <1>5 DEF LoopInv
    <2>3. ChunkLen = len
      BY <2>2, <1>5, <1>1, LocalTypes DEF ChunkLen, Min2
    <2>4. ChunkMem = mem[c] /\ Accumulated(order[c]) = order[c]
      BY <1>5 DEF ChunkMem, Accumulated
    <2>5. cur_addr[c] + cur_offset[c] + len <= BufSize
      <3>1. Home(c) = cur_addr[c]
        BY <1>5 DEF Home
      <3>2. CASE cur_offset[c] < EFFECTIVE_SIZE
        BY <3>1, <3>2, <2>2, LocalTypes, <1>1, Sizes DEF PendingInv
      <3>3. CASE ~(cur_offset[c] < EFFECTIVE_SIZE)
        <4>1. NextLen(c) \in Nat
          BY <2>2, <3>3, Positions, LocalTypes, <1>1 DEF PendingInv, IInv
        <4>2. /\ NextLen(c) <= ms_maxSize
              /\ cur_size[c] = NextLen(c) - cur_offset[c]
              /\ cur_addr[c] < MAX_PAYLOAD_SIZE
          BY <2>2, <3>3, <3>1 DEF PendingInv
        <4> HIDE DEF c
        <4>3. QED BY <4>1, <4>2, <2>2, <1>1, LocalTypes, Sizes DEF c
      <3>4. QED BY <3>2, <3>3
    <2>6. /\ Holds(mem[c], cur_addr[c] + cur_offset[c], Base(c) + cur_offset[c], len)
          /\ Ordered(order[c], cur_addr[c] + cur_offset[c], "net", len)
          /\ Holds(mem[c], cur_addr[c], Base(c), cur_offset[c])
      BY <1>3, <2>2 DEF RestInv, PendingInv
    <2>7. Holds(mem[c], cur_addr[c], Base(c), cur_offset[c] + len)
      BY <2>6, <1>2, <1>1, LocalTypes DEF Holds
    <2>8. cur_offset[c] < EFFECTIVE_SIZE =>
             Ordered(order[c], cur_addr[c], "net", cur_offset[c] + len)
      <3>1. cur_offset[c] < EFFECTIVE_SIZE => Ordered(order[c], cur_addr[c], "net", cur_offset[c])
        BY <2>2 DEF PendingInv
      <3>2. QED BY <3>1, <2>6, <1>1, LocalTypes DEF Ordered
    <2>9. cur_offset[c] >= EFFECTIVE_SIZE => Ordered(order[c], cur_addr[c], "host", EFFECTIVE_SIZE)
      BY <2>2, LocalTypes, <1>1, Sizes DEF PendingInv
    <2>10. QED
      BY <2>1, <2>2, <2>3, <2>4, <2>5, <2>6, <2>7, <2>8, <2>9, <1>1, <1>5, LocalTypes, Sizes
  <1>6. CASE direct = "accumulate" /\ Strategy = "Buffer"
    <2>1. cur_offset[c] > 0
      BY <1>1, <1>6, LocalTypes DEF LoopInv
    <2>2. PendingInv(c) /\ cur_addr[c] = 0 /\ cur_size[c] > 0
      BY <2>1, <1>1, <1>6 DEF LoopInv, PendingInv
    <2>3. /\ ChunkLen \in Nat /\ ChunkLen >= 1 /\ ChunkLen <= len /\ ChunkLen <= cur_size[c]
      BY <2>2, <1>6, <1>1, LocalTypes DEF ChunkLen, Min2
    <2>4. /\ ChunkMem = Moved(mem[c], cur_offset[c], buf + offset, ChunkLen)
          /\ Accumulated(order[c]) = Moved(order[c], cur_offset[c], buf + offset, ChunkLen)
      <3>1. cur_addr[c] + cur_offset[c] = cur_offset[c]
        BY <2>2, LocalTypes, <1>1
      <3>2. QED BY <3>1, <1>6 DEF ChunkMem, Accumulated
    <2>5. cur_offset[c] + ChunkLen <= BufSize
      <3>1. Home(c) = 0
        BY <1>6 DEF Home
      <3>2. CASE cur_offset[c] < EFFECTIVE_SIZE
        BY <3>1, <3>2, <2>2, <2>3, LocalTypes, <1>1, Sizes DEF PendingInv
      <3>3. CASE ~(cur_offset[c] < EFFECTIVE_SIZE)
        <4>1. NextLen(c) \in Nat
          BY <2>2, <3>3, Positions, LocalTypes, <1>1 DEF PendingInv, IInv
        <4>2. /\ NextLen(c) <= ms_maxSize
              /\ cur_size[c] = NextLen(c) - cur_offset[c]
          BY <2>2, <3>3, <3>1 DEF PendingInv
        <4>3. QED BY <4>1, <4>2, <2>3, <1>1, LocalTypes, Sizes
      <3>4. QED BY <3>2, <3>3
    <2>6. /\ buf + offset >= PACKET /\ buf + offset + len <= PACKET + PacketSize
          /\ Holds(mem[c], buf + offset, Base(c) + cur_offset[c], len)
          /\ Ordered(order[c], buf + offset, "net", len)
      BY <1>3, <1>6, <1>1, LocalTypes, Sizes DEF RestInv
    <2>7. \A x \in Int : /\ x >= 0 /\ x < BufSize + PacketSize => x \in Addr
      BY Sizes DEF Addr
    <2>8. ChunkMem \in [Addr -> Nat \cup {Unwritten}]
      <3>1. \A x \in Addr : /\ x \in Int
                            /\ x >= cur_offset[c] /\ x < cur_offset[c] + ChunkLen =>
                                  (buf + offset) + (x - cur_offset[c]) \in Addr
        BY <2>3, <2>6, <1>1, LocalTypes, Sizes DEF Addr
      <3>2. mem[c] \in [Addr -> Nat \cup {Unwritten}]
        BY LocalTypes, <1>1
      <3>3. QED BY <3>1, <3>2, <2>4 DEF Moved
    <2>9. Accumulated(order[c]) \in [Addr -> {"net", "host"}]
      <3>1. \A x \in Addr : /\ x \in Int
                            /\ x >= cur_offset[c] /\ x < cur_offset[c] + ChunkLen =>
                                  (buf + offset) + (x - cur_offset[c]) \in Addr
        BY <2>3, <2>6, <1>1, LocalTypes, Sizes DEF Addr
      <3>2. order[c] \in [Addr -> {"net", "host"}]
        BY LocalTypes, <1>1
      <3>3. QED BY <3>1, <3>2, <2>4 DEF Moved
    <2>10. Holds(ChunkMem, 0, Base(c), cur_offset[c] + ChunkLen)
      <3>1. Holds(mem[c], 0, Base(c), cur_offset[c])
        BY <2>2 DEF PendingInv
      <3>2. SUFFICES ASSUME NEW x \in 0 .. (0 + (cur_offset[c] + ChunkLen) - 1)
                     PROVE  ChunkMem[x] = Base(c) + (x - 0)
        BY DEF Holds
      <3>3. x \in Addr /\ x \in Int
        BY <2>5, <2>3, <2>7, LocalTypes, <1>1, Sizes
      <3>4. CASE x < cur_offset[c]
        <4>1. ChunkMem[x] = mem[c][x]
          BY <3>3, <3>4, <2>4, LocalTypes, <1>1 DEF Moved
        <4>2. QED BY <4>1, <3>1, <3>4, <3>3, LocalTypes, <1>1 DEF Holds
      <3>5. CASE x >= cur_offset[c]
        <4>1. ChunkMem[x] = mem[c][(buf + offset) + (x - cur_offset[c])]
          BY <3>3, <3>5, <2>4, <2>3, LocalTypes, <1>1 DEF Moved
        <4>2. (buf + offset) + (x - cur_offset[c])
                 \in (buf + offset) .. ((buf + offset) + len - 1)
          BY <3>3, <3>5, <2>3, LocalTypes, <1>1
        <4>3. QED BY <4>1, <4>2, <2>6, <3>3, <1>2, LocalTypes, <1>1 DEF Holds
      <3>6. QED BY <3>3, <3>4, <3>5, LocalTypes, <1>1
    <2>11. Holds(ChunkMem, buf + offset, Base(c) + cur_offset[c], len)
      <3>1. SUFFICES ASSUME NEW x \in (buf + offset) .. ((buf + offset) + len - 1)
                     PROVE  ChunkMem[x] = mem[c][x]
        BY <2>6 DEF Holds
      <3>2. x \in Addr /\ x >= cur_offset[c] + ChunkLen /\ x \in Int
        BY <2>5, <2>3, <2>6, <2>7, LocalTypes, <1>1, Sizes
      <3>3. QED BY <3>2, <2>4, <2>3, LocalTypes, <1>1 DEF Moved
    <2>12. Ordered(Accumulated(order[c]), buf + offset, "net", len)
      <3>1. SUFFICES ASSUME NEW x \in (buf + offset) .. ((buf + offset) + len - 1)
                     PROVE  Accumulated(order[c])[x] = order[c][x]
        BY <2>6 DEF Ordered
      <3>2. x \in Addr /\ x >= cur_offset[c] + ChunkLen /\ x \in Int
        BY <2>5, <2>3, <2>6, <2>7, LocalTypes, <1>1, Sizes
      <3>3. QED BY <3>2, <2>4, <2>3, LocalTypes, <1>1 DEF Moved
    <2>13. ASSUME cur_offset[c] < EFFECTIVE_SIZE
           PROVE  Ordered(Accumulated(order[c]), 0, "net", cur_offset[c] + ChunkLen)
      <3>1. Ordered(order[c], 0, "net", cur_offset[c])
        BY <2>2, <2>13 DEF PendingInv
      <3>2. SUFFICES ASSUME NEW x \in 0 .. (0 + (cur_offset[c] + ChunkLen) - 1)
                     PROVE  Accumulated(order[c])[x] = "net"
        BY DEF Ordered
      <3>3. x \in Addr /\ x \in Int
        BY <2>5, <2>3, <2>7, LocalTypes, <1>1, Sizes
      <3>4. CASE x < cur_offset[c]
        <4>1. Accumulated(order[c])[x] = order[c][x]
          BY <3>3, <3>4, <2>4, LocalTypes, <1>1 DEF Moved
        <4>2. QED BY <4>1, <3>1, <3>4, <3>3, LocalTypes, <1>1 DEF Ordered
      <3>5. CASE x >= cur_offset[c]
        <4>1. Accumulated(order[c])[x] = order[c][(buf + offset) + (x - cur_offset[c])]
          BY <3>3, <3>5, <2>4, <2>3, LocalTypes, <1>1 DEF Moved
        <4>2. (buf + offset) + (x - cur_offset[c])
                 \in (buf + offset) .. ((buf + offset) + len - 1)
          BY <3>3, <3>5, <2>3, LocalTypes, <1>1
        <4>3. QED BY <4>1, <4>2, <2>6 DEF Ordered
      <3>6. QED BY <3>3, <3>4, <3>5, LocalTypes, <1>1
    <2>14. ASSUME cur_offset[c] >= EFFECTIVE_SIZE
           PROVE  Ordered(Accumulated(order[c]), 0, "host", EFFECTIVE_SIZE)
      <3>1. Ordered(order[c], 0, "host", EFFECTIVE_SIZE)
        BY <2>2, <2>14, LocalTypes, <1>1, Sizes DEF PendingInv
      <3>2. SUFFICES ASSUME NEW x \in 0 .. (0 + EFFECTIVE_SIZE - 1)
                     PROVE  Accumulated(order[c])[x] = order[c][x]
        BY <3>1 DEF Ordered
      <3>3. x \in Addr /\ x \in Int /\ x < cur_offset[c]
        BY <2>14, <2>7, LocalTypes, <1>1, Sizes
      <3>4. QED BY <3>3, <2>4, LocalTypes, <1>1 DEF Moved
    <2>15. QED
      BY <2>1, <2>2, <2>3, <2>5, <2>8, <2>9, <2>10, <2>11, <2>12, <2>13, <2>14, <1>6, LocalTypes, <1>1, Sizes
  <1>7. QED BY <1>4, <1>5, <1>6, LocalTypes, <1>1, StrategyAssumption

\* With the header complete, its length is the length of the next message,
\* and the bytes behind the first EFFECTIVE_SIZE ones are still as received.
LEMMA HeaderReady ==
    ASSUME IInv, InLoop, HeaderArrives
    PROVE  /\ HasNext(conn)
           /\ ChunkLength = NextLen(conn)
           /\ ChunkOrder \in [Addr -> {"net", "host"}]
           /\ Holds(ChunkMem, cur_addr[conn], Base(conn), EFFECTIVE_SIZE)
           /\ Ordered(ChunkOrder, cur_addr[conn], "host", EFFECTIVE_SIZE)
           /\ \A k \in 0 .. len : cur_offset[conn] + k >= EFFECTIVE_SIZE =>
                 /\ Holds(ChunkMem, buf + (offset + k), Base(conn) + (cur_offset[conn] + k), len - k)
                 /\ Ordered(ChunkOrder, buf + (offset + k), "net", len - k)
  <1> DEFINE c == conn
             acc == Accumulated(order[c])
  <1>1. TypeOK /\ SentInv /\ InOrderDelivery /\ LoopInv /\ len > 0
    BY DEF IInv, InLoop
  <1>2. Base(c) \in Nat /\ End(sent[c]) \in Nat
    BY Positions, LocalTypes, <1>1
  <1>3. HasNext(c)
    <2>1. rcvd[c] = Base(c) + cur_offset[c] + len /\ rcvd[c] <= End(sent[c])
      BY <1>1 DEF LoopInv, RestInv
    <2>2. Base(c) < End(sent[c])
      BY <2>1, <1>1, <1>2, LocalTypes
    <2>3. QED BY <2>2, Positions, LocalTypes, <1>1
  <1>4. /\ ChunkLen \in Nat /\ ChunkLen <= len /\ cur_offset[c] + ChunkLen >= EFFECTIVE_SIZE
        /\ cur_addr[c] + cur_offset[c] + ChunkLen <= BufSize + PacketSize
    BY ChunkBytes DEF HeaderArrives
  <1>5. /\ acc \in [Addr -> {"net", "host"}]
        /\ ChunkOrder \in [Addr -> {"net", "host"}]
    <2>1. acc \in [Addr -> {"net", "host"}]
      BY ChunkBytes
    <2>2. QED BY <2>1 DEF ChunkOrder, Swapped
  <1>6. Holds(ChunkMem, cur_addr[c], Base(c), EFFECTIVE_SIZE)
    <2>1. Holds(ChunkMem, cur_addr[c], Base(c), cur_offset[c] + ChunkLen)
      BY ChunkBytes
    <2>2. QED BY <2>1, <1>4, LocalTypes, <1>1, Sizes DEF Holds
  <1>7. \A x \in Int : x >= 0 /\ x < BufSize + PacketSize => x \in Addr
    BY Sizes DEF Addr
  <1>8. Ordered(ChunkOrder, cur_addr[c], "host", EFFECTIVE_SIZE)
    <2>1. CASE cur_offset[c] >= EFFECTIVE_SIZE
      <3>1. ChunkOrder = acc
        BY <2>1, LocalTypes, <1>1, Sizes DEF ChunkOrder
      <3>2. QED BY <3>1, <2>1, ChunkBytes
    <2>2. CASE cur_offset[c] < EFFECTIVE_SIZE
      <3>1. ChunkOrder = Swapped(acc, cur_addr[c])
        BY <2>2 DEF ChunkOrder
      <3>2. Ordered(acc, cur_addr[c], "net", cur_offset[c] + ChunkLen)
        BY <2>2, ChunkBytes
      <3>3. SUFFICES ASSUME NEW x \in cur_addr[c] .. (cur_addr[c] + EFFECTIVE_SIZE - 1)
                     PROVE  ChunkOrder[x] = "host"
        BY DEF Ordered
      <3>4. x \in Addr /\ x >= cur_addr[c] /\ x < cur_addr[c] + EFFECTIVE_SIZE
        BY <1>4, <1>7, LocalTypes, <1>1, Sizes
      <3>5. acc[x] = "net"
        BY <3>2, <1>4, LocalTypes, <1>1, Sizes DEF Ordered
      <3> HIDE DEF acc
      <3>6. QED BY <3>1, <3>4, <3>5 DEF Swapped
    <2>3. QED BY <2>1, <2>2, LocalTypes, <1>1, Sizes
  <1>9. ChunkLength = NextLen(c)
    BY <1>1, <1>3, <1>6, <1>8, LengthRead, LocalTypes DEF ChunkLength
  <1>10. ASSUME NEW k \in 0 .. len, cur_offset[c] + k >= EFFECTIVE_SIZE
         PROVE  /\ Holds(ChunkMem, buf + (offset + k), Base(c) + (cur_offset[c] + k), len - k)
                /\ Ordered(ChunkOrder, buf + (offset + k), "net", len - k)
    <2>1. /\ Holds(ChunkMem, buf + offset, Base(c) + cur_offset[c], len)
          /\ Ordered(acc, buf + offset, "net", len)
      BY ChunkBytes
    <2>2. Holds(ChunkMem, buf + (offset + k), Base(c) + (cur_offset[c] + k), len - k)
      BY <2>1, <1>2, LocalTypes, <1>1 DEF Holds
    <2>3. Ordered(ChunkOrder, buf + (offset + k), "net", len - k)
      <3>1. SUFFICES ASSUME NEW x \in (buf + (offset + k)) .. (buf + (offset + k) + (len - k) - 1)
                     PROVE  ChunkOrder[x] = "net"
        BY DEF Ordered
      <3>2. acc[x] = "net"
        BY <2>1, LocalTypes, <1>1 DEF Ordered
      <3>3. x >= cur_addr[c] + EFFECTIVE_SIZE
        <4>1. CASE direct = "direct" \/ Strategy = "InPlace"
          <5>1. buf + offset = cur_addr[c] + cur_offset[c]
            BY <4>1, ChunkBytes
          <5>2. QED BY <5>1, <1>10, LocalTypes, <1>1, Sizes
        <4>2. CASE direct = "accumulate" /\ Strategy = "Buffer"
          <5>1. cur_addr[c] = 0 /\ buf >= BufSize
            BY <4>2, ChunkBytes, <1>1, Sizes DEF LoopInv, RestInv
          <5>2. QED BY <5>1, LocalTypes, <1>1, Sizes
        <4>3. QED BY <4>1, <4>2, LocalTypes, <1>1, StrategyAssumption
      <3>4. x \in Addr
        <4>1. buf + offset + len <= BufSize + PacketSize
          <5>1. CASE direct = "direct" \/ Strategy = "InPlace"
            BY <5>1, <1>4, ChunkBytes
          <5>2. CASE direct = "accumulate" /\ Strategy = "Buffer"
            BY <5>2, <1>1, Sizes DEF LoopInv, RestInv
          <5>3. QED BY <5>1, <5>2, LocalTypes, <1>1, StrategyAssumption
        <4>2. x \in Int /\ x >= 0 /\ x < buf + offset + len
          BY LocalTypes, <1>1
        <4>3. QED BY <4>1, <4>2, <1>7, LocalTypes, <1>1, Sizes
      <3> HIDE DEF acc
      <3>5. CASE HeaderArrives /\ cur_offset[c] < EFFECTIVE_SIZE
        <4>1. ChunkOrder[x] = acc[x]
          BY <3>3, <3>4, <3>5, LocalTypes, <1>1, Sizes DEF ChunkOrder, Swapped, acc
        <4>2. QED BY <4>1, <3>2
      <3>6. CASE ~(HeaderArrives /\ cur_offset[c] < EFFECTIVE_SIZE)
        BY <3>6, <3>2 DEF ChunkOrder, acc
      <3>7. QED BY <3>5, <3>6
    <2>4. QED BY <2>2, <2>3
  <1>11. QED BY <1>3, <1>5, <1>6, <1>8, <1>9, <1>10

\* What a step leaves alone stays as it was: a connection that the step does
\* not touch remains idle.
LEMMA IdleFrame ==
    ASSUME NEW d \in Conns, IdleInv(d), sent' = sent,
           delivered'[d] = delivered[d], rcvd'[d] = rcvd[d],
           mem'[d] = mem[d], order'[d] = order[d],
           cur_addr'[d] = cur_addr[d], cur_offset'[d] = cur_offset[d],
           cur_size'[d] = cur_size[d]
    PROVE  IdleInv(d)'
  BY DEF IdleInv, PendingInv, Base, HasNext, NextLen, Home, Holds, Ordered

-----------------------------------------------------------------------------
(* Every step preserves the invariant. *)

\* A step of process_chunk() changes neither the stream nor what the handler
\* got, nor any connection but the one being processed.
LEMMA ChunkFrame ==
    ASSUME IInv, InLoop,
           UNCHANGED <<sent, peer, rcvd, cur_addr, delivered, status, conn>>,
           \A d \in Conns : d # conn => /\ mem'[d] = mem[d] /\ order'[d] = order[d]
                                        /\ cur_offset'[d] = cur_offset[d]
                                        /\ cur_size'[d] = cur_size[d],
           pc' \in {"loop", "handle"}
    PROVE  /\ SentInv' /\ InOrderDelivery' /\ CloseReason'
           /\ \A d \in Conns : status'[d] = "open" /\ (pc' = "wait" \/ d # conn') => IdleInv(d)'
  <1>1. SentInv' /\ InOrderDelivery' /\ CloseReason'
    BY DEF IInv, SentInv, InOrderDelivery, CloseReason
  <1>2. ASSUME NEW d \in Conns, status'[d] = "open", pc' = "wait" \/ d # conn'
        PROVE  IdleInv(d)'
    <2>1. d # conn /\ IdleInv(d)
      BY <1>2 DEF IInv
    <2>2. QED BY <2>1, IdleFrame
  <1>3. QED BY <1>1, <1>2

\* The chunk leaves the header incomplete: the invariant is preserved.
LEMMA HeaderIncompleteStep ==
    ASSUME IInv, HeaderIncomplete
    PROVE  IInv'
  <1> DEFINE c == conn
             n == ChunkLen
  <1>1. /\ InLoop /\ ~HeaderArrives /\ Advance(n) /\ UNCHANGED <<msg, pc>>
        /\ cur_offset' = [cur_offset EXCEPT ![c] = @ + n]
        /\ cur_size' = [cur_size EXCEPT ![c] =
              IF @ - n < EFFECTIVE_SIZE THEN EFFECTIVE_SIZE - (cur_offset[c] + n) ELSE @ - n]
    BY DEF HeaderIncomplete
  <1>2. TypeOK /\ LoopInv /\ len > 0 /\ pc = "loop"
    BY <1>1 DEF IInv, InLoop
  <1>3. /\ n \in Nat /\ n >= 1 /\ n <= len
        /\ cur_offset[c] + n < EFFECTIVE_SIZE
    BY <1>1, ChunkBytes, LocalTypes, <1>2, Sizes DEF HeaderArrives
  <1>4. ChunkOrder = Accumulated(order[c])
    BY <1>1 DEF ChunkOrder
  <1>5. /\ mem' = [mem EXCEPT ![c] = ChunkMem]
        /\ order' = [order EXCEPT ![c] = Accumulated(order[c])]
        /\ len' = len - n /\ offset' = offset + n
        /\ UNCHANGED <<sent, peer, rcvd, cur_addr, delivered, status, conn, buf, direct, msg, pc>>
    BY <1>1, <1>4 DEF Advance, streamVars
  <1> HIDE DEF n
  <1>6. TypeOK'
    <2>1. ChunkMem \in [Addr -> Nat \cup {Unwritten}] /\ Accumulated(order[c]) \in [Addr -> {"net", "host"}]
      BY <1>1, ChunkBytes
    <2>2. /\ mem' \in [Conns -> [Addr -> Nat \cup {Unwritten}]]
          /\ order' \in [Conns -> [Addr -> {"net", "host"}]]
      BY <2>1, <1>5, <1>2 DEF TypeOK
    <2>3. cur_offset[c] + n \in Nat /\ len - n \in Nat /\ offset + n \in Nat
          /\ EFFECTIVE_SIZE - (cur_offset[c] + n) \in Int /\ cur_size[c] - n \in Int
      BY <1>3, LocalTypes, <1>2, Sizes
    <2>4. cur_offset' \in [Conns -> Nat] /\ cur_size' \in [Conns -> Int]
      BY <2>3, <1>1, <1>2 DEF TypeOK
    <2>5. QED BY <2>2, <2>3, <2>4, <1>5, <1>2 DEF TypeOK
  <1>7. /\ SentInv' /\ InOrderDelivery' /\ CloseReason'
        /\ \A d \in Conns : status'[d] = "open" /\ (pc' = "wait" \/ d # conn') => IdleInv(d)'
    <2>1. \A d \in Conns : d # conn => /\ mem'[d] = mem[d] /\ order'[d] = order[d]
                                         /\ cur_offset'[d] = cur_offset[d]
                                         /\ cur_size'[d] = cur_size[d]
      BY <1>1, <1>5, <1>2 DEF TypeOK
    <2>2. QED BY <2>1, <1>1, <1>5, <1>2, ChunkFrame
  <1>8. /\ mem'[c] = ChunkMem /\ order'[c] = Accumulated(order[c])
        /\ cur_offset'[c] = cur_offset[c] + n
        /\ cur_size'[c] = IF cur_size[c] - n < EFFECTIVE_SIZE
                          THEN EFFECTIVE_SIZE - (cur_offset[c] + n) ELSE cur_size[c] - n
        /\ cur_addr'[c] = cur_addr[c] /\ Base(c)' = Base(c) /\ Home(c)' = Home(c)
    BY <1>1, <1>5, <1>2 DEF TypeOK, Base, Home
  <1>9. Base(c) \in Nat
    BY Positions, LocalTypes, <1>2 DEF IInv
  <1>10. PendingInv(c)'
    <2>1. Holds(ChunkMem, cur_addr[c], Base(c), cur_offset[c] + n)
      BY <1>1, ChunkBytes DEF n
    <2>2. Ordered(Accumulated(order[c]), cur_addr[c], "net", cur_offset[c] + n)
      BY <1>1, <1>3, ChunkBytes, LocalTypes, <1>2, Sizes DEF n
    <2>3. /\ Home(c) < MAX_PAYLOAD_SIZE
          /\ \/ Home(c) + cur_offset[c] + cur_size[c] <= MAX_PAYLOAD_SIZE
             \/ cur_size[c] - n < EFFECTIVE_SIZE
      <3>1. CASE direct = "direct"
        <4>1. cur_offset[c] = 0 /\ cur_size[c] <= MAX_PAYLOAD_SIZE /\ cur_addr[c] = buf
          BY <3>1, <1>1, <1>2, ChunkBytes DEF LoopInv
        <4>2. CASE Strategy = "InPlace"
          <5>1. buf + cur_size[c] <= MAX_PAYLOAD_SIZE /\ len <= cur_size[c]
            BY <4>1, <4>2, <1>2 DEF LoopInv
          <5>2. QED BY <5>1, <4>1, <4>2, <1>3, LocalTypes, <1>2, Sizes DEF Home
        <4>3. CASE Strategy = "Buffer"
          BY <4>1, <4>3, <1>3, LocalTypes, <1>2, Sizes DEF Home
        <4>4. QED BY <4>2, <4>3, StrategyAssumption
      <3>2. CASE direct = "accumulate"
        <4>1. cur_offset[c] > 0
          BY <3>2, <1>1, ChunkBytes
        <4>2. PendingInv(c) /\ cur_offset[c] < EFFECTIVE_SIZE
          BY <4>1, <1>2, <1>3, LocalTypes, Sizes DEF LoopInv
        <4>3. /\ Home(c) < MAX_PAYLOAD_SIZE
              /\ \/ cur_size[c] = EFFECTIVE_SIZE - cur_offset[c]
                 \/ Home(c) + cur_offset[c] + cur_size[c] <= MAX_PAYLOAD_SIZE
          BY <4>2 DEF PendingInv
        <4>4. QED BY <4>1, <4>3, <1>3, LocalTypes, <1>2, Sizes
      <3>3. QED BY <3>1, <3>2, LocalTypes, <1>2
    <2>4. Home(c) \in Nat
      BY LocalTypes, <1>2 DEF Home
    <2>5. /\ cur_size'[c] > 0
          /\ \/ cur_size'[c] = EFFECTIVE_SIZE - cur_offset'[c]
             \/ Home(c) + cur_offset'[c] + cur_size'[c] <= MAX_PAYLOAD_SIZE
      BY <2>3, <2>4, <1>3, <1>8, LocalTypes, <1>2, Sizes
    <2>6. cur_offset'[c] < EFFECTIVE_SIZE
      BY <1>3, <1>8
    <2>7. conn' = c
      BY <1>5
    <2>8. QED BY <2>1, <2>2, <2>3, <2>5, <2>6, <2>7, <1>8 DEF PendingInv
  <1>11. LoopInv'
    <2>1. /\ conn' = c /\ direct' = direct /\ buf' = buf /\ rcvd'[c] = rcvd[c] /\ sent' = sent
          /\ status'[c] = status[c] /\ len' = len - n /\ offset' = offset + n
      BY <1>5
    <2>2. RestInv(cur_offset[c]) /\ status[c] = "open"
      BY <1>2 DEF LoopInv
    <2>3. RestInv(cur_offset[conn])'
      <3>1. /\ Holds(ChunkMem, buf + offset, Base(c) + cur_offset[c], len)
            /\ Ordered(Accumulated(order[c]), buf + offset, "net", len)
        BY <1>1, ChunkBytes
      <3>2. /\ Holds(ChunkMem, buf + (offset + n), Base(c) + (cur_offset[c] + n), len - n)
            /\ Ordered(Accumulated(order[c]), buf + (offset + n), "net", len - n)
        BY <3>1, <1>3, <1>9, LocalTypes, <1>2 DEF Holds, Ordered
      <3>3. rcvd[c] = Base(c) + (cur_offset[c] + n) + (len - n)
        BY <2>2, <1>3, <1>9, LocalTypes, <1>2 DEF RestInv
      <3>4. Strategy = "Buffer" => buf >= PACKET /\ buf + (offset + n) + (len - n) <= PACKET + PacketSize
        BY <2>2, <1>3, LocalTypes, <1>2, Sizes DEF RestInv
      <3>5. rcvd[c] <= End(sent[c]) /\ (direct = "direct" => cur_addr[c] = buf)
        BY <2>2 DEF RestInv
      <3>6. QED BY <3>2, <3>3, <3>4, <3>5, <2>1, <1>8 DEF RestInv
    <2>4. cur_offset'[c] > 0
      BY <1>3, <1>8, LocalTypes, <1>2
    <2>5. direct = "direct" => len - n = 0 /\ offset + n = cur_offset[c] + n
      BY <1>1, <1>3, ChunkBytes, LocalTypes, <1>2 DEF n
    <2>6. ASSUME direct = "accumulate", Strategy = "InPlace"
          PROVE  /\ buf + (offset + n) = cur_addr[c] + (cur_offset[c] + n)
                 /\ len - n <= cur_size'[c]
      <3>1. buf + offset = cur_addr[c] + cur_offset[c] /\ n = len
        BY <2>6, <1>1, ChunkBytes DEF n
      <3>2. cur_size'[c] > 0 /\ cur_size'[c] \in Int
        BY <1>10, <1>6, <2>1 DEF PendingInv, TypeOK
      <3>3. QED BY <3>1, <3>2, <1>3, LocalTypes, <1>2
    <2>7. direct = "accumulate" /\ Strategy = "Buffer" => cur_addr[c] = 0
      BY <1>1, ChunkBytes
    <2>8. QED BY <1>10, <2>1, <2>2, <2>3, <2>4, <2>5, <2>6, <2>7, <1>8 DEF LoopInv
  <1>12. QED BY <1>5, <1>6, <1>7, <1>11, <1>2 DEF IInv

\* What the three outcomes with a complete header have in common: k bytes of
\* the chunk are processed, so that m bytes of the next message are behind.
LEMMA AdvanceStep ==
    ASSUME IInv, InLoop, HeaderArrives, SetBuf,
           NEW CONSTANT k \in 1 .. len, Advance(k),
           NEW CONSTANT co \in Nat, cur_offset' = [cur_offset EXCEPT ![conn] = co],
           NEW CONSTANT cs \in Int, cur_size' = [cur_size EXCEPT ![conn] = cs],
           NEW CONSTANT m, m = cur_offset[conn] + k, m >= EFFECTIVE_SIZE,
           pc' \in {"loop", "handle"}
    PROVE  /\ TypeOK' /\ SentInv' /\ InOrderDelivery' /\ CloseReason'
           /\ \A d \in Conns : status'[d] = "open" /\ (pc' = "wait" \/ d # conn') => IdleInv(d)'
           /\ mem'[conn] = ChunkMem /\ order'[conn] = ChunkOrder
           /\ cur_offset'[conn] = co /\ cur_size'[conn] = cs
           /\ cur_addr'[conn] = cur_addr[conn]
           /\ conn' = conn /\ direct' = direct /\ buf' = buf
           /\ len' = len - k /\ offset' = offset + k
           /\ status'[conn] = "open"
           /\ Base(conn)' = Base(conn) /\ Home(conn)' = Home(conn)
           /\ HasNext(conn)' /\ NextLen(conn)' = NextLen(conn)
           /\ RestInv(m)'
  <1> DEFINE c == conn
  <1>1. TypeOK /\ LoopInv /\ len > 0 /\ pc = "loop"
    BY DEF IInv, InLoop
  <1>2. /\ mem' = [mem EXCEPT ![c] = ChunkMem]
        /\ order' = [order EXCEPT ![c] = ChunkOrder]
        /\ len' = len - k /\ offset' = offset + k
        /\ UNCHANGED <<sent, peer, rcvd, cur_addr, delivered, status, conn, buf, direct>>
        /\ msg' = [conn |-> c, addr |-> cur_addr[c]]
    BY DEF Advance, streamVars, SetBuf
  <1>3. TypeOK'
    <2>1. ChunkMem \in [Addr -> Nat \cup {Unwritten}] /\ ChunkOrder \in [Addr -> {"net", "host"}]
      BY ChunkBytes, HeaderReady
    <2>2. /\ mem' \in [Conns -> [Addr -> Nat \cup {Unwritten}]]
          /\ order' \in [Conns -> [Addr -> {"net", "host"}]]
      BY <2>1, <1>2, <1>1 DEF TypeOK
    <2>3. len - k \in Nat /\ offset + k \in Nat
      BY LocalTypes, <1>1
    <2>4. cur_offset' \in [Conns -> Nat] /\ cur_size' \in [Conns -> Int]
      BY <1>1 DEF TypeOK
    <2>5. msg' \in [conn : Conns, addr : Nat]
      BY <1>2, LocalTypes, <1>1
    <2>6. QED BY <2>2, <2>3, <2>4, <2>5, <1>2, <1>1 DEF TypeOK
  <1>4. /\ SentInv' /\ InOrderDelivery' /\ CloseReason'
        /\ \A d \in Conns : status'[d] = "open" /\ (pc' = "wait" \/ d # conn') => IdleInv(d)'
    <2>1. \A d \in Conns : d # conn => /\ mem'[d] = mem[d] /\ order'[d] = order[d]
                                       /\ cur_offset'[d] = cur_offset[d]
                                       /\ cur_size'[d] = cur_size[d]
      BY <1>2, <1>1 DEF TypeOK
    <2>2. QED BY <2>1, <1>2, ChunkFrame
  <1>5. /\ mem'[c] = ChunkMem /\ order'[c] = ChunkOrder
        /\ cur_offset'[c] = co /\ cur_size'[c] = cs
        /\ cur_addr'[c] = cur_addr[c]
    BY <1>1, <1>2 DEF TypeOK
  <1>6. status[c] = "open" /\ RestInv(cur_offset[c])
    BY <1>1 DEF LoopInv
  <1>7. /\ Base(conn)' = Base(conn) /\ Home(conn)' = Home(conn)
        /\ HasNext(conn)' /\ NextLen(conn)' = NextLen(conn)
    <2>1. HasNext(conn)
      BY HeaderReady
    <2>2. QED BY <2>1, <1>2 DEF Base, Home, HasNext, NextLen
  <1>8. RestInv(m)'
    <2>1. k \in 0 .. len /\ k \in Nat /\ m \in Nat
      BY LocalTypes, <1>1
    <2>2. /\ Holds(ChunkMem, buf + (offset + k), Base(c) + (cur_offset[c] + k), len - k)
          /\ Ordered(ChunkOrder, buf + (offset + k), "net", len - k)
      BY <2>1, HeaderReady
    <2>3. Base(c) \in Nat
      BY Positions, LocalTypes, <1>1 DEF IInv
    <2>4. rcvd[c] = Base(c) + m + (len - k)
      BY <1>6, <2>1, <2>3, LocalTypes, <1>1 DEF RestInv
    <2>5. Strategy = "Buffer" => buf >= PACKET /\ buf + (offset + k) + (len - k) <= PACKET + PacketSize
      BY <1>6, <2>1, LocalTypes, <1>1, Sizes DEF RestInv
    <2>6. rcvd[c] <= End(sent[c]) /\ (direct = "direct" => cur_addr[c] = buf)
      BY <1>6 DEF RestInv
    <2>7. QED BY <2>2, <2>4, <2>5, <2>6, <1>2, <1>5, <1>7 DEF RestInv
  <1>9. QED BY <1>2, <1>3, <1>4, <1>5, <1>6, <1>7, <1>8

\* The facts about the pending message that the next three steps start from.
LEMMA ArrivalFacts ==
    ASSUME IInv, InLoop, HeaderArrives
    PROVE  /\ TypeOK /\ LoopInv /\ len > 0
           /\ ChunkLen \in 1 .. len
           /\ cur_offset[conn] + ChunkLen >= EFFECTIVE_SIZE
           /\ Base(conn) \in Nat
           /\ HasNext(conn) /\ ChunkLength = NextLen(conn)
           /\ NextLen(conn) \in Nat /\ NextLen(conn) >= EFFECTIVE_SIZE
           /\ cur_offset[conn] > 0 => PendingInv(conn)
           /\ ChunkLength <= ms_maxSize => cur_offset[conn] < NextLen(conn)
  <1>1. TypeOK /\ SentInv /\ InOrderDelivery /\ LoopInv /\ len > 0
    BY DEF IInv, InLoop
  <1>2. ChunkLen \in 1 .. len /\ cur_offset[conn] + ChunkLen >= EFFECTIVE_SIZE
    BY ChunkBytes, LocalTypes, <1>1 DEF HeaderArrives
  <1>3. HasNext(conn) /\ ChunkLength = NextLen(conn)
    BY HeaderReady
  <1>4. Base(conn) \in Nat /\ NextLen(conn) \in Nat /\ NextLen(conn) >= EFFECTIVE_SIZE
    BY <1>1, <1>3, Positions, LocalTypes
  <1>5. cur_offset[conn] > 0 => PendingInv(conn)
    BY <1>1 DEF LoopInv
  <1>6. ASSUME ~(cur_offset[conn] < NextLen(conn)) PROVE FALSE
    <2>1. cur_offset[conn] > 0 /\ ~(cur_offset[conn] < EFFECTIVE_SIZE)
      BY <1>6, <1>4, LocalTypes, <1>1, Sizes
    <2>2. QED BY <2>1, <1>5, <1>6 DEF PendingInv
  <1>7. QED BY <1>1, <1>2, <1>3, <1>4, <1>5, <1>6

\* The chunk completes a header that announces too much.
LEMMA HeaderInvalidStep ==
    ASSUME IInv, HeaderInvalid
    PROVE  IInv'
  <1>1. /\ InLoop /\ HeaderArrives /\ SetBuf /\ Advance(ChunkLen)
        /\ ChunkLength > ms_maxSize /\ pc' = "handle"
        /\ cur_offset' = [cur_offset EXCEPT ![conn] = 0]
        /\ cur_size' = [cur_size EXCEPT ![conn] = MAX_PAYLOAD_SIZE]
    BY DEF HeaderInvalid
  <1>2. PICK k \in 1 .. len : k = ChunkLen
    BY <1>1, ArrivalFacts
  <1>3. PICK m \in Nat : m = cur_offset[conn] + k
    BY <1>1, <1>2, ArrivalFacts, LocalTypes
  <1>4. m >= EFFECTIVE_SIZE /\ Advance(k) /\ MAX_PAYLOAD_SIZE \in Int /\ 0 \in Nat
    BY <1>1, <1>2, <1>3, ArrivalFacts, Sizes
  <1>5. /\ TypeOK' /\ SentInv' /\ InOrderDelivery' /\ CloseReason'
        /\ \A d \in Conns : status'[d] = "open" /\ (pc' = "wait" \/ d # conn') => IdleInv(d)'
        /\ mem'[conn] = ChunkMem /\ order'[conn] = ChunkOrder
        /\ cur_offset'[conn] = 0 /\ cur_addr'[conn] = cur_addr[conn]
        /\ conn' = conn /\ status'[conn] = "open" /\ Base(conn)' = Base(conn)
        /\ HasNext(conn)' /\ NextLen(conn)' = NextLen(conn)
    BY <1>1, <1>3, <1>4, AdvanceStep
  <1>6. HandleInv'
    <2>1. ~(NextLen(conn)' <= ms_maxSize)
      BY <1>1, <1>5, ArrivalFacts, Sizes
    <2>2. msg' = [conn |-> conn, addr |-> cur_addr[conn]]
      BY <1>1 DEF SetBuf
    <2>3. /\ Holds(ChunkMem, cur_addr[conn], Base(conn), EFFECTIVE_SIZE)
          /\ Ordered(ChunkOrder, cur_addr[conn], "host", EFFECTIVE_SIZE)
      BY <1>1, HeaderReady
    <2>4. QED BY <2>1, <2>2, <2>3, <1>5 DEF HandleInv
  <1>7. QED BY <1>1, <1>5, <1>6 DEF IInv

\* The room for the next read never exceeds MAX_PAYLOAD_SIZE, the pending
\* message begins before MAX_PAYLOAD_SIZE, and in place a chunk that holds
\* more than the rest of the message ends there at the latest.
LEMMA RoomFacts ==
    ASSUME IInv, InLoop, HeaderArrives
    PROVE  /\ cur_size[conn] <= MAX_PAYLOAD_SIZE
           /\ Home(conn) \in Nat /\ Home(conn) < MAX_PAYLOAD_SIZE
           /\ Strategy = "InPlace" => len <= cur_size[conn]
           /\ Strategy = "InPlace" /\ cur_offset[conn] + ChunkLen > NextLen(conn) =>
                 cur_addr[conn] + cur_offset[conn] + cur_size[conn] <= MAX_PAYLOAD_SIZE
  <1> DEFINE c == conn
  <1>1. /\ TypeOK /\ LoopInv /\ len > 0
        /\ ChunkLen \in Nat /\ ChunkLen <= len /\ ChunkLen >= 1
        /\ NextLen(c) \in Nat /\ NextLen(c) >= EFFECTIVE_SIZE
    BY ArrivalFacts, ChunkBytes
  <1>2. CASE cur_offset[c] = 0
    <2>1. /\ direct = "direct" /\ cur_addr[c] = buf
          /\ cur_size[c] <= MAX_PAYLOAD_SIZE
          /\ Strategy = "InPlace" => buf + cur_size[c] <= MAX_PAYLOAD_SIZE /\ len <= cur_size[c]
      BY <1>1, <1>2 DEF LoopInv, RestInv
    <2>2. QED BY <2>1, <1>1, <1>2, LocalTypes, Sizes, StrategyAssumption DEF Home
  <1>3. CASE cur_offset[c] # 0
    <2>1. cur_offset[c] > 0 /\ PendingInv(c) /\ direct = "accumulate"
      <3>1. cur_offset[c] > 0
        BY <1>3, <1>1, LocalTypes
      <3>2. QED BY <3>1, <1>1, LocalTypes DEF LoopInv
    <2>2. ChunkLen <= cur_size[c] /\ (Strategy = "InPlace" => len <= cur_size[c])
      BY <2>1, <1>1, ChunkBytes DEF LoopInv
    <2>3. Home(c) \in Nat /\ Home(c) < MAX_PAYLOAD_SIZE /\ (Strategy = "InPlace" => Home(c) = cur_addr[c])
      BY <2>1, <1>1, LocalTypes DEF PendingInv, Home
    <2>4. CASE cur_offset[c] < EFFECTIVE_SIZE
      <3>1. \/ cur_size[c] = EFFECTIVE_SIZE - cur_offset[c]
            \/ Home(c) + cur_offset[c] + cur_size[c] <= MAX_PAYLOAD_SIZE
        BY <2>1, <2>4 DEF PendingInv
      <3>2. QED BY <3>1, <2>1, <2>2, <2>3, <1>1, LocalTypes, Sizes
    <2>5. CASE ~(cur_offset[c] < EFFECTIVE_SIZE)
      <3>1. cur_size[c] = NextLen(c) - cur_offset[c] /\ NextLen(c) <= ms_maxSize
        BY <2>1, <2>5 DEF PendingInv
      <3>2. QED BY <3>1, <2>1, <2>2, <2>3, <2>5, <1>1, LocalTypes, Sizes
    <2>6. QED BY <2>4, <2>5
  <1>4. QED BY <1>2, <1>3

\* The header is complete and the message is not.
LEMMA MessageIncompleteStep ==
    ASSUME IInv, MessageIncomplete
    PROVE  IInv'
  <1>1. /\ InLoop /\ HeaderArrives /\ SetBuf /\ Advance(ChunkLen)
        /\ ChunkLength <= ms_maxSize /\ cur_offset[conn] + ChunkLen < ChunkLength
        /\ UNCHANGED pc
        /\ cur_offset' = [cur_offset EXCEPT ![conn] = @ + ChunkLen]
        /\ cur_size' = [cur_size EXCEPT ![conn] =
              IF @ - ChunkLen < ms_maxSize
              THEN ChunkLength - (cur_offset[conn] + ChunkLen) ELSE @ - ChunkLen]
    BY DEF MessageIncomplete
  <1>2. PICK k \in 1 .. len : k = ChunkLen
    BY <1>1, ArrivalFacts
  <1>3. /\ TypeOK /\ LoopInv /\ pc' = "loop" /\ len > 0
        /\ NextLen(conn) \in Nat /\ ChunkLength = NextLen(conn)
    BY <1>1, ArrivalFacts DEF InLoop
  <1>4. PICK m \in Nat : m = cur_offset[conn] + k
    BY <1>2, <1>3, LocalTypes
  <1>5. PICK cs \in Int : cs = NextLen(conn) - m
    BY <1>3, <1>4
  <1>6. m >= EFFECTIVE_SIZE /\ Advance(k) /\ m < NextLen(conn) /\ NextLen(conn) <= ms_maxSize
    BY <1>1, <1>2, <1>3, <1>4, ArrivalFacts
  <1>7. /\ cur_offset' = [cur_offset EXCEPT ![conn] = m]
        /\ cur_size' = [cur_size EXCEPT ![conn] = cs]
    <2>1. cur_size[conn] - ChunkLen < ms_maxSize
      BY <1>1, <1>2, <1>3, RoomFacts, LocalTypes, Sizes
    <2>2. QED BY <2>1, <1>1, <1>2, <1>3, <1>4, <1>5
  <1>8. /\ TypeOK' /\ SentInv' /\ InOrderDelivery' /\ CloseReason'
        /\ \A d \in Conns : status'[d] = "open" /\ (pc' = "wait" \/ d # conn') => IdleInv(d)'
        /\ mem'[conn] = ChunkMem /\ order'[conn] = ChunkOrder
        /\ cur_offset'[conn] = m /\ cur_size'[conn] = cs /\ cur_addr'[conn] = cur_addr[conn]
        /\ conn' = conn /\ direct' = direct /\ buf' = buf
        /\ len' = len - k /\ offset' = offset + k
        /\ status'[conn] = "open" /\ Base(conn)' = Base(conn) /\ Home(conn)' = Home(conn)
        /\ HasNext(conn)' /\ NextLen(conn)' = NextLen(conn)
        /\ RestInv(m)'
    BY <1>1, <1>3, <1>4, <1>6, <1>7, AdvanceStep
  <1>9. PendingInv(conn)'
    <2>1. Holds(ChunkMem, cur_addr[conn], Base(conn), m)
      BY <1>1, <1>2, <1>4, ChunkBytes
    <2>2. Ordered(ChunkOrder, cur_addr[conn], "host", EFFECTIVE_SIZE)
      BY <1>1, HeaderReady
    <2>3. cs > 0 /\ ~(m < EFFECTIVE_SIZE)
      BY <1>3, <1>4, <1>5, <1>6, Sizes
    <2>4. Home(conn) < MAX_PAYLOAD_SIZE
      BY <1>1, RoomFacts
    <2>5. QED BY <2>1, <2>2, <2>3, <2>4, <1>5, <1>6, <1>8 DEF PendingInv
  <1>10. LoopInv'
    <2>1. m > 0 /\ cs > 0
      BY <1>4, <1>5, <1>6, <1>3, Sizes
    <2>2. direct = "direct" => len - k = 0 /\ offset + k = m
      BY <1>1, <1>2, <1>3, <1>4, ChunkBytes, LocalTypes
    <2>3. direct = "accumulate" /\ Strategy = "InPlace" =>
             buf + (offset + k) = cur_addr[conn] + m /\ len - k <= cs
      BY <1>1, <1>2, <1>3, <1>4, <2>1, ChunkBytes, LocalTypes
    <2>4. direct = "accumulate" /\ Strategy = "Buffer" => cur_addr[conn] = 0
      BY <1>1, ChunkBytes
    <2>5. RestInv(cur_offset[conn])'
      BY <1>8
    <2>6. QED BY <2>1, <2>2, <2>3, <2>4, <2>5, <1>8, <1>9 DEF LoopInv
  <1>11. QED BY <1>3, <1>8, <1>10 DEF IInv

\* The chunk completes the message.
LEMMA MessageCompleteStep ==
    ASSUME IInv, MessageComplete
    PROVE  IInv'
  <1>1. /\ InLoop /\ HeaderArrives /\ SetBuf /\ Advance(ChunkLength - cur_offset[conn])
        /\ ChunkLength <= ms_maxSize /\ cur_offset[conn] + ChunkLen >= ChunkLength
        /\ pc' = "handle"
        /\ cur_offset' = [cur_offset EXCEPT ![conn] = 0]
        /\ cur_size' = [cur_size EXCEPT ![conn] =
              IF ChunkLen - (ChunkLength - cur_offset[conn]) # 0
              THEN @ - (ChunkLength - cur_offset[conn]) ELSE MAX_PAYLOAD_SIZE]
    BY DEF MessageComplete
  <1>2. /\ TypeOK /\ LoopInv /\ len > 0
        /\ NextLen(conn) \in Nat /\ ChunkLength = NextLen(conn) /\ NextLen(conn) >= EFFECTIVE_SIZE
        /\ cur_offset[conn] < NextLen(conn)
        /\ ChunkLen \in Nat /\ ChunkLen <= len /\ ChunkLen >= 1
    BY <1>1, ArrivalFacts
  <1>3. PICK k \in 1 .. len : k = NextLen(conn) - cur_offset[conn]
    BY <1>1, <1>2, LocalTypes
  <1>4. PICK m \in Nat : m = NextLen(conn)
    BY <1>2
  <1>5. PICK cs \in Int : cs = IF ChunkLen - k # 0 THEN cur_size[conn] - k ELSE MAX_PAYLOAD_SIZE
    BY <1>2, LocalTypes, Sizes
  <1>6. Advance(k) /\ m = cur_offset[conn] + k /\ m >= EFFECTIVE_SIZE /\ 0 \in Nat /\ ChunkLen >= k
    BY <1>1, <1>2, <1>3, <1>4, LocalTypes
  <1>7. cur_size' = [cur_size EXCEPT ![conn] = cs]
    BY <1>1, <1>2, <1>3, <1>5
  <1>8. /\ TypeOK' /\ SentInv' /\ InOrderDelivery' /\ CloseReason'
        /\ \A d \in Conns : status'[d] = "open" /\ (pc' = "wait" \/ d # conn') => IdleInv(d)'
        /\ mem'[conn] = ChunkMem /\ order'[conn] = ChunkOrder
        /\ cur_offset'[conn] = 0 /\ cur_size'[conn] = cs /\ cur_addr'[conn] = cur_addr[conn]
        /\ conn' = conn /\ direct' = direct /\ buf' = buf
        /\ len' = len - k /\ offset' = offset + k
        /\ status'[conn] = "open" /\ Base(conn)' = Base(conn)
        /\ HasNext(conn)' /\ NextLen(conn)' = NextLen(conn)
        /\ RestInv(m)'
    BY <1>1, <1>6, <1>7, AdvanceStep
  <1>9. HandleInv'
    <2>1. msg' = [conn |-> conn, addr |-> cur_addr[conn]]
      BY <1>1 DEF SetBuf
    <2>2. /\ Holds(ChunkMem, cur_addr[conn], Base(conn), EFFECTIVE_SIZE)
          /\ Ordered(ChunkOrder, cur_addr[conn], "host", EFFECTIVE_SIZE)
      BY <1>1, HeaderReady
    <2>3. Holds(ChunkMem, cur_addr[conn], Base(conn), m)
      <3>1. Holds(ChunkMem, cur_addr[conn], Base(conn), cur_offset[conn] + ChunkLen)
        BY <1>1, ChunkBytes
      <3>2. m <= cur_offset[conn] + ChunkLen
        BY <1>1, <1>2, <1>4
      <3>3. QED BY <3>1, <3>2, <1>2, LocalTypes DEF Holds
    <2>4. cs <= MAX_PAYLOAD_SIZE /\ (len - k = 0 => cs = MAX_PAYLOAD_SIZE)
      BY <1>1, <1>2, <1>3, <1>5, <1>6, RoomFacts, LocalTypes, Sizes
    <2>5. direct = "direct" => offset + k = m
      BY <1>1, <1>3, <1>4, <1>2, ChunkBytes, LocalTypes
    <2>6. ASSUME Strategy = "InPlace"
          PROVE  /\ buf + (offset + k) = cur_addr[conn] + m
                 /\ len - k > 0 => /\ buf + (offset + k) + cs <= MAX_PAYLOAD_SIZE
                                   /\ len - k <= cs
      <3>1. ChunkLen = len /\ buf + offset = cur_addr[conn] + cur_offset[conn]
        BY <2>6, <1>1, ChunkBytes
      <3>2. buf + (offset + k) = cur_addr[conn] + m
        BY <3>1, <1>6, <1>2, LocalTypes
      <3>3. ASSUME len - k > 0
            PROVE  buf + (offset + k) + cs <= MAX_PAYLOAD_SIZE /\ len - k <= cs
        <4>1. cs = cur_size[conn] - k
          BY <3>1, <3>3, <1>5, <1>2
        <4>2. cur_offset[conn] + ChunkLen > NextLen(conn)
          BY <3>1, <3>3, <1>3, <1>2, LocalTypes
        <4>3. cur_addr[conn] + cur_offset[conn] + cur_size[conn] <= MAX_PAYLOAD_SIZE
              /\ len <= cur_size[conn]
          BY <2>6, <4>2, <1>1, RoomFacts
        <4>4. QED BY <4>1, <4>3, <3>1, <1>2, LocalTypes, Sizes
      <3>4. QED BY <3>2, <3>3
    <2>7. RestInv(NextLen(conn))'
      BY <1>8, <1>4
    <2>8. NextLen(conn)' = m
      BY <1>8, <1>4
    <2>9. QED BY <2>1, <2>2, <2>3, <2>4, <2>5, <2>6, <2>7, <2>8, <1>8 DEF HandleInv
  <1>10. QED BY <1>1, <1>8, <1>9 DEF IInv

\* The handler reads the length of the next message, and if that is valid the
\* next message itself.
LEMMA HandlerReads ==
    ASSUME IInv, pc = "handle"
    PROVE  /\ HandlerLength = NextLen(conn)
           /\ NextLen(conn) <= ms_maxSize => Seen = sent[conn][Len(delivered[conn]) + 1]
  <1> DEFINE n == Len(delivered[conn]) + 1
             I(k) == Intact(sent[conn][k])
  <1>1. TypeOK /\ SentInv /\ InOrderDelivery /\ HandleInv
    BY DEF IInv
  <1>2. /\ msg.conn = conn /\ msg.addr = cur_addr[conn] /\ HasNext(conn)
        /\ Holds(mem[conn], cur_addr[conn], Base(conn), EFFECTIVE_SIZE)
        /\ Ordered(order[conn], cur_addr[conn], "host", EFFECTIVE_SIZE)
        /\ NextLen(conn) <= ms_maxSize =>
              Holds(mem[conn], cur_addr[conn], Base(conn), NextLen(conn))
    BY <1>1 DEF HandleInv
  <1>3. HandlerLength = NextLen(conn)
    BY <1>1, <1>2, LengthRead, LocalTypes DEF HandlerLength
  <1>4. ASSUME NextLen(conn) <= ms_maxSize PROVE Seen = sent[conn][n]
    <2>1. /\ sent[conn] \in Seq(Message) /\ Len(sent[conn]) \in Nat /\ n \in Nat
          /\ DOMAIN sent[conn] = 1 .. Len(sent[conn])
      BY <1>1, LocalTypes DEF TypeOK
    <2>2. n \in DOMAIN sent[conn]
      BY <2>1, <1>2, LocalTypes, <1>1 DEF HasNext, TypeOK
    <2>3. sent[conn][n].start = Base(conn) /\ sent[conn][n].len = NextLen(conn)
      BY <1>1, <1>2, Positions, LocalTypes DEF NextLen
    <2>4. I(n)
      BY <2>3, <1>2, <1>4 DEF Intact
    <2>5. ASSUME NEW k \in DOMAIN sent[conn], I(k) PROVE sent[conn][k] = sent[conn][n]
      <3>1. \A j \in DOMAIN sent[conn] : sent[conn][j].start \in Nat /\ sent[conn][j].len \in Nat
                                         /\ sent[conn][j].len >= EFFECTIVE_SIZE
        <4>1. \A j \in DOMAIN sent[conn] : sent[conn][j] \in Message
          BY <2>1
        <4>2. QED BY <4>1, LengthsAssumption DEF Message
      <3> HIDE DEF n
      <3>2. /\ cur_addr[conn] \in cur_addr[conn] .. (cur_addr[conn] + sent[conn][k].len - 1)
            /\ cur_addr[conn] \in cur_addr[conn] .. (cur_addr[conn] + sent[conn][n].len - 1)
        BY <3>1, <2>2, LocalTypes, <1>1, Sizes
      <3>3. /\ Holds(mem[conn], cur_addr[conn], sent[conn][k].start, sent[conn][k].len)
            /\ Holds(mem[conn], cur_addr[conn], sent[conn][n].start, sent[conn][n].len)
        BY <2>4, <2>5, <1>2 DEF Intact
      <3>4. sent[conn][k].start = sent[conn][n].start
        BY <3>1, <3>2, <3>3, <2>2, LocalTypes, <1>1 DEF Holds
      <3> HIDE DEF n, I
      <3>5. /\ k < n => sent[conn][k].start + sent[conn][k].len <= sent[conn][n].start
            /\ n < k => sent[conn][n].start + sent[conn][n].len <= sent[conn][k].start
        BY <2>1, <2>2, <1>1, LocalTypes DEF SentInv
      <3>6. ~(k < n) /\ ~(n < k)
        BY <3>1, <3>4, <3>5, <2>2, Sizes
      <3>7. k = n
        BY <3>6, <2>1, <2>2
      <3>8. QED BY <3>7
    <2>6. Seen = sent[conn][CHOOSE k \in DOMAIN sent[conn] : I(k)]
      BY <2>2, <2>4 DEF Seen
    <2>7. (CHOOSE k \in DOMAIN sent[conn] : I(k)) \in DOMAIN sent[conn]
          /\ I(CHOOSE k \in DOMAIN sent[conn] : I(k))
      BY <2>2, <2>4
    <2> HIDE DEF n, I
    <2>8. QED BY <2>5, <2>6, <2>7
  <1>5. QED BY <1>3, <1>4

\* The handler accepts the message at hand, and the loop goes on after it.
LEMMA HandleAcceptsStep ==
    ASSUME IInv, HandleAccepts
    PROVE  IInv'
  <1> DEFINE nd == Len(delivered[conn])
             next == sent[conn][nd + 1]
  <1>1. /\ pc = "handle" /\ pc' = "loop" /\ HandlerLength <= ms_maxSize
        /\ delivered' = [delivered EXCEPT ![conn] = Append(@, Seen)]
        /\ buf' = buf + offset /\ offset' = 0 /\ direct' = "direct"
        /\ cur_addr' = [cur_addr EXCEPT ![conn] =
                           IF direct = "direct" THEN @ + offset ELSE buf + offset]
        /\ UNCHANGED <<sent, peer, rcvd, mem, order, cur_offset, cur_size, status, msg, conn, len>>
    BY DEF HandleAccepts, streamVars
  <1>2. TypeOK /\ SentInv /\ InOrderDelivery /\ CloseReason /\ HandleInv
    BY <1>1 DEF IInv
  <1>3. NextLen(conn) <= ms_maxSize /\ Seen = next
    BY <1>1, HandlerReads
  <1>4. /\ HasNext(conn) /\ NextLen(conn) \in Nat /\ Base(conn) \in Nat
        /\ next.start = Base(conn) /\ next.len = NextLen(conn)
    <2>1. HasNext(conn)
      BY <1>2 DEF HandleInv
    <2>2. QED BY <2>1, <1>2, Positions, LocalTypes DEF NextLen
  <1>5. /\ delivered[conn] \in Seq(Message) /\ sent[conn] \in Seq(Message)
        /\ nd \in Nat /\ Len(sent[conn]) \in Nat /\ nd + 1 <= Len(sent[conn]) /\ next \in Message
    <2>1. /\ delivered[conn] \in Seq(Message) /\ sent[conn] \in Seq(Message)
          /\ nd \in Nat /\ Len(sent[conn]) \in Nat
      BY <1>2, LocalTypes DEF TypeOK
    <2>2. nd + 1 <= Len(sent[conn])
      BY <2>1, <1>4 DEF HasNext
    <2>3. QED BY <2>1, <2>2
  <1>6. /\ delivered'[conn] = Append(delivered[conn], next)
        /\ delivered'[conn] \in Seq(Message)
        /\ Len(delivered'[conn]) = nd + 1
        /\ \A k \in 1 .. nd : delivered'[conn][k] = delivered[conn][k]
        /\ delivered'[conn][nd + 1] = next
        /\ \A d \in Conns : d # conn => delivered'[d] = delivered[d]
    <2>1. delivered'[conn] = Append(delivered[conn], next)
      BY <1>1, <1>2, <1>3, LocalTypes DEF TypeOK
    <2>2. \A d \in Conns : d # conn => delivered'[d] = delivered[d]
      BY <1>1, <1>2 DEF TypeOK
    <2> HIDE DEF next
    <2>3. QED BY <2>1, <2>2, <1>5
  <1> HIDE DEF next
  <1>7. InOrderDelivery'
    <2>1. SUFFICES ASSUME NEW d \in Conns
                   PROVE  /\ Len(delivered'[d]) <= Len(sent[d])
                          /\ \A k \in 1 .. Len(delivered'[d]) : delivered'[d][k] = sent[d][k]
      BY <1>1 DEF InOrderDelivery
    <2>2. CASE d # conn
      BY <2>2, <1>6, <1>2 DEF InOrderDelivery
    <2>3. CASE d = conn
      <3>1. \A k \in 1 .. nd : delivered'[conn][k] = sent[conn][k]
        BY <1>6, <1>2, LocalTypes DEF InOrderDelivery
      <3>2. delivered'[conn][nd + 1] = sent[conn][nd + 1]
        BY <1>6 DEF next
      <3>3. QED BY <3>1, <3>2, <2>3, <1>5, <1>6
    <2>4. QED BY <2>2, <2>3
  <1>8. TypeOK'
    <2>1. delivered' \in [Conns -> Seq(Message)]
      BY <1>1, <1>2, <1>3, <1>5 DEF TypeOK, next
    <2>2. cur_addr' \in [Conns -> Nat] /\ buf' \in Nat /\ offset' \in Nat
      BY <1>1, <1>2 DEF TypeOK
    <2>3. QED BY <2>1, <2>2, <1>1, <1>2 DEF TypeOK
  <1>9. SentInv'
    BY <1>1, <1>2 DEF SentInv
  <1>10. CloseReason'
    <2>1. status[conn] = "open"
      BY <1>2 DEF HandleInv
    <2>2. QED BY <2>1, <1>1, <1>2, <1>6 DEF CloseReason
  <1>11. ASSUME NEW d \in Conns, status'[d] = "open", pc' = "wait" \/ d # conn'
         PROVE  IdleInv(d)'
    <2>1. d # conn /\ IdleInv(d)
      BY <1>1, <1>11 DEF IInv
    <2>2. cur_addr'[d] = cur_addr[d]
      BY <2>1, <1>1, <1>2 DEF TypeOK
    <2>3. QED BY <2>1, <2>2, <1>1, <1>6, IdleFrame
  <1>12. LoopInv'
    <2>1. /\ RestInv(NextLen(conn)) /\ cur_offset[conn] = 0 /\ status[conn] = "open"
          /\ cur_size[conn] <= MAX_PAYLOAD_SIZE
          /\ len = 0 => cur_size[conn] = MAX_PAYLOAD_SIZE
          /\ Strategy = "InPlace" /\ len > 0 =>
                buf + offset + cur_size[conn] <= MAX_PAYLOAD_SIZE /\ len <= cur_size[conn]
      BY <1>2, <1>3 DEF HandleInv
    <2>2. cur_addr'[conn] = buf + offset
      BY <2>1, <1>1, <1>2, LocalTypes DEF RestInv, TypeOK
    <2>3. Base(conn)' = Base(conn) + NextLen(conn)
      <3>1. delivered'[conn] # <<>> /\ delivered'[conn][Len(delivered'[conn])] = next
        BY <1>5, <1>6
      <3>2. End(delivered'[conn]) = next.start + next.len
        BY <3>1 DEF End
      <3>3. QED BY <3>2, <1>1, <1>4 DEF Base
    <2>4. RestInv(0)'
      <3>1. rcvd[conn] = (Base(conn) + NextLen(conn)) + 0 + len
        BY <2>1, <1>4, LocalTypes, <1>2 DEF RestInv
      <3>2. /\ Holds(mem[conn], (buf + offset) + 0, (Base(conn) + NextLen(conn)) + 0, len)
            /\ Ordered(order[conn], (buf + offset) + 0, "net", len)
        <4>1. (buf + offset) + 0 = buf + offset
              /\ (Base(conn) + NextLen(conn)) + 0 = Base(conn) + NextLen(conn)
          BY <1>4, LocalTypes, <1>2
        <4>2. QED BY <4>1, <2>1 DEF RestInv
      <3>3. Strategy = "Buffer" => /\ buf + offset >= PACKET
                                   /\ (buf + offset) + 0 + len <= PACKET + PacketSize
        BY <2>1, LocalTypes, <1>2, Sizes DEF RestInv
      <3>4. rcvd[conn] <= End(sent[conn])
        BY <2>1 DEF RestInv
      <3>5. QED BY <3>1, <3>2, <3>3, <3>4, <2>2, <2>3, <1>1 DEF RestInv
    <2>5. cur_offset'[conn'] = 0
      BY <2>1, <1>1
    <2>6. QED BY <2>1, <2>4, <2>5, <1>1 DEF LoopInv
  <1>13. QED BY <1>1, <1>7, <1>8, <1>9, <1>10, <1>11, <1>12 DEF IInv

\* The handler refuses the message, and the connection is closed.
LEMMA HandleRefusesStep ==
    ASSUME IInv, HandleRefuses
    PROVE  IInv'
  <1>1. /\ pc = "handle" /\ pc' = "wait"
        /\ status' = [status EXCEPT ![conn] =
                         IF HandlerLength > ms_maxSize THEN "invalid" ELSE "stopped"]
        /\ UNCHANGED <<sent, peer, rcvd, mem, order, cur_addr, cur_offset, cur_size,
                       delivered, msg, conn, buf, len, offset, direct>>
    BY DEF HandleRefuses, streamVars, recvVars, callVars
  <1>2. TypeOK /\ SentInv /\ InOrderDelivery /\ CloseReason /\ HandleInv
    BY <1>1 DEF IInv
  <1>3. TypeOK' /\ SentInv' /\ InOrderDelivery'
    BY <1>1, <1>2 DEF TypeOK, SentInv, InOrderDelivery
  <1>4. CloseReason'
    <2>1. HandlerLength = NextLen(conn) /\ HasNext(conn)
      BY <1>1, <1>2, HandlerReads DEF HandleInv
    <2>2. QED BY <2>1, <1>1, <1>2 DEF CloseReason, HasNext, NextLen, TypeOK
  <1>5. ASSUME NEW d \in Conns, status'[d] = "open" PROVE IdleInv(d)'
    <2>1. d # conn /\ status[d] = "open"
      BY <1>1, <1>2, <1>5 DEF TypeOK
    <2>2. IdleInv(d)
      BY <2>1 DEF IInv
    <2>3. QED BY <2>2, <1>1, IdleFrame
  <1>6. QED BY <1>1, <1>3, <1>4, <1>5 DEF IInv

\* The connection of a call that returns with a message pending in the input
\* buffer of the library: start_accumulation() moves it to recv_data.buf.
LEMMA StartAccumulation ==
    ASSUME IInv, pc = "loop", len = 0, cur_offset[conn] > 0, direct = "direct",
           Strategy = "Buffer"
    PROVE  /\ cur_offset[conn] <= BufSize
           /\ Moved(mem[conn], 0, buf, cur_offset[conn]) \in [Addr -> Nat \cup {Unwritten}]
           /\ Moved(order[conn], 0, buf, cur_offset[conn]) \in [Addr -> {"net", "host"}]
           /\ Holds(Moved(mem[conn], 0, buf, cur_offset[conn]), 0, Base(conn), cur_offset[conn])
           /\ \A o, n : n \in Nat /\ n <= cur_offset[conn] /\ Ordered(order[conn], buf, o, n) =>
                 Ordered(Moved(order[conn], 0, buf, cur_offset[conn]), 0, o, n)
  <1>1. TypeOK /\ SentInv /\ InOrderDelivery /\ LoopInv
    BY DEF IInv
  <1>2. PendingInv(conn) /\ RestInv(cur_offset[conn]) /\ offset = cur_offset[conn]
    BY <1>1 DEF LoopInv
  <1>3. cur_addr[conn] = buf /\ buf >= BufSize /\ buf + cur_offset[conn] <= BufSize + PacketSize
    BY <1>1, <1>2, LocalTypes, Sizes DEF RestInv
  <1>4. cur_offset[conn] <= BufSize
    <2>1. CASE cur_offset[conn] < EFFECTIVE_SIZE
      BY <2>1, LocalTypes, <1>1, Sizes
    <2>2. CASE ~(cur_offset[conn] < EFFECTIVE_SIZE)
      <3>1. HasNext(conn) /\ NextLen(conn) <= ms_maxSize /\ cur_offset[conn] < NextLen(conn)
        BY <2>2, <1>2 DEF PendingInv
      <3>2. NextLen(conn) \in Nat
        BY <3>1, <1>1, Positions, LocalTypes
      <3>3. QED BY <3>1, <3>2, LocalTypes, <1>1, Sizes
    <2>3. QED BY <2>1, <2>2
  <1>5. \A x \in Addr : /\ x \in Int
                        /\ x >= 0 /\ x < 0 + cur_offset[conn] => buf + (x - 0) \in Addr
    BY <1>3, LocalTypes, <1>1, Sizes DEF Addr
  <1>6. /\ Moved(mem[conn], 0, buf, cur_offset[conn]) \in [Addr -> Nat \cup {Unwritten}]
        /\ Moved(order[conn], 0, buf, cur_offset[conn]) \in [Addr -> {"net", "host"}]
    <2>1. /\ mem[conn] \in [Addr -> Nat \cup {Unwritten}]
          /\ order[conn] \in [Addr -> {"net", "host"}]
      BY LocalTypes, <1>1
    <2>2. Moved(mem[conn], 0, buf, cur_offset[conn]) \in [Addr -> Nat \cup {Unwritten}]
      BY <2>1, <1>5 DEF Moved
    <2>3. Moved(order[conn], 0, buf, cur_offset[conn]) \in [Addr -> {"net", "host"}]
      BY <2>1, <1>5 DEF Moved
    <2>4. QED BY <2>2, <2>3
  <1>7. \A x \in 0 .. (cur_offset[conn] - 1) : x \in Addr /\ x \in Int
    BY <1>4, LocalTypes, <1>1, Sizes DEF Addr
  <1>8. Holds(Moved(mem[conn], 0, buf, cur_offset[conn]), 0, Base(conn), cur_offset[conn])
    <2>1. SUFFICES ASSUME NEW x \in 0 .. (0 + cur_offset[conn] - 1)
                   PROVE  Moved(mem[conn], 0, buf, cur_offset[conn])[x] = Base(conn) + (x - 0)
      BY DEF Holds
    <2>2. Moved(mem[conn], 0, buf, cur_offset[conn])[x] = mem[conn][buf + (x - 0)]
      BY <1>7, LocalTypes, <1>1 DEF Moved
    <2>3. buf + (x - 0) \in buf .. (buf + cur_offset[conn] - 1) /\ x \in Int
      BY LocalTypes, <1>1
    <2>4. Holds(mem[conn], buf, Base(conn), cur_offset[conn])
      BY <1>2, <1>3 DEF PendingInv
    <2>5. Base(conn) \in Nat
      BY <1>1, Positions, LocalTypes
    <2>6. QED BY <2>2, <2>3, <2>4, <2>5, LocalTypes, <1>1 DEF Holds
  <1>9. ASSUME NEW o, NEW n \in Nat, n <= cur_offset[conn], Ordered(order[conn], buf, o, n)
        PROVE  Ordered(Moved(order[conn], 0, buf, cur_offset[conn]), 0, o, n)
    <2>1. SUFFICES ASSUME NEW x \in 0 .. (0 + n - 1)
                   PROVE  Moved(order[conn], 0, buf, cur_offset[conn])[x] = o
      BY DEF Ordered
    <2>2. Moved(order[conn], 0, buf, cur_offset[conn])[x] = order[conn][buf + (x - 0)]
      BY <1>7, <1>9, LocalTypes, <1>1 DEF Moved
    <2>3. buf + (x - 0) \in buf .. (buf + n - 1)
      BY LocalTypes, <1>1
    <2>4. QED BY <2>2, <2>3, <1>9 DEF Ordered
  <1>10. QED BY <1>4, <1>6, <1>8, <1>9

\* process_buffer() returns, perhaps with a message pending.
LEMMA ReturnStep ==
    ASSUME IInv, Return
    PROVE  IInv'
  <1>1. /\ pc = "loop" /\ len = 0 /\ pc' = "wait"
        /\ mem' = [mem EXCEPT ![conn] = Started(@)]
        /\ order' = [order EXCEPT ![conn] = Started(@)]
        /\ cur_addr' = IF \/ cur_offset[conn] = 0 /\ Strategy = "InPlace"
                          \/ cur_offset[conn] # 0 /\ direct = "direct" /\ Strategy = "Buffer"
                       THEN [cur_addr EXCEPT ![conn] = 0] ELSE cur_addr
        /\ UNCHANGED <<sent, peer, rcvd, cur_offset, cur_size, delivered, status, msg,
                       conn, buf, len, offset, direct>>
    BY DEF Return, streamVars, callVars
  <1>2. TypeOK /\ SentInv /\ InOrderDelivery /\ CloseReason /\ LoopInv
    BY <1>1 DEF IInv
  <1>3. SentInv' /\ InOrderDelivery' /\ CloseReason'
    BY <1>1, <1>2 DEF SentInv, InOrderDelivery, CloseReason
  <1>4. cur_offset[conn] # 0 => cur_offset[conn] > 0
    BY LocalTypes, <1>2
  <1>5. TypeOK'
    <2>1. Started(mem[conn]) \in [Addr -> Nat \cup {Unwritten}]
          /\ Started(order[conn]) \in [Addr -> {"net", "host"}]
      BY <1>1, <1>2, <1>4, StartAccumulation, LocalTypes DEF Started
    <2>2. mem' \in [Conns -> [Addr -> Nat \cup {Unwritten}]]
          /\ order' \in [Conns -> [Addr -> {"net", "host"}]]
      BY <2>1, <1>1, <1>2 DEF TypeOK
    <2>3. cur_addr' \in [Conns -> Nat]
      BY <1>1, <1>2 DEF TypeOK
    <2>4. QED BY <2>2, <2>3, <1>1, <1>2 DEF TypeOK
  <1>6. \A d \in Conns : d # conn => /\ mem'[d] = mem[d] /\ order'[d] = order[d]
                                     /\ cur_addr'[d] = cur_addr[d]
    BY <1>1, <1>2 DEF TypeOK
  <1>7. ASSUME NEW d \in Conns, status'[d] = "open" PROVE IdleInv(d)'
    <2>1. CASE d # conn
      <3>1. IdleInv(d)
        BY <2>1, <1>1, <1>7 DEF IInv
      <3>2. QED BY <3>1, <2>1, <1>1, <1>6, IdleFrame
    <2>2. CASE d = conn
      <3>1. /\ mem'[d] = Started(mem[d]) /\ order'[d] = Started(order[d])
            /\ cur_addr'[d] = IF \/ cur_offset[conn] = 0 /\ Strategy = "InPlace"
                                 \/ cur_offset[conn] # 0 /\ direct = "direct" /\ Strategy = "Buffer"
                              THEN 0 ELSE cur_addr[d]
        BY <2>2, <1>1, <1>2 DEF TypeOK
      <3>2. /\ rcvd[d] = Base(d) + cur_offset[d] /\ rcvd[d] <= End(sent[d])
            /\ Base(d)' = Base(d) /\ HasNext(d)' = HasNext(d) /\ NextLen(d)' = NextLen(d)
        <4>1. Base(d) \in Nat
          BY <1>2, Positions
        <4>2. RestInv(cur_offset[conn])
          BY <1>2 DEF LoopInv
        <4>3. QED BY <4>1, <4>2, <2>2, <1>1, LocalTypes, <1>2
                DEF RestInv, Base, HasNext, NextLen
      <3>3. CASE cur_offset[d] = 0
        <4>1. cur_size[d] = MAX_PAYLOAD_SIZE
          BY <3>3, <2>2, <1>1, <1>2 DEF LoopInv
        <4>2. QED BY <4>1, <3>1, <3>2, <3>3, <2>2, <1>1 DEF IdleInv
      <3>4. CASE cur_offset[d] > 0
        <4>1. PendingInv(d)
          BY <3>4, <2>2, <1>2 DEF LoopInv
        <4>2. cur_offset[d] # 0
          BY <3>4, <2>2, LocalTypes, <1>2
        <4>3. CASE direct = "direct" /\ Strategy = "Buffer"
          <5>1. /\ mem'[d] = Moved(mem[d], 0, buf, cur_offset[d])
                /\ order'[d] = Moved(order[d], 0, buf, cur_offset[d])
                /\ cur_addr'[d] = 0 /\ Home(d)' = Home(d)
            BY <4>2, <4>3, <3>1, <2>2 DEF Started, Home
          <5>2. cur_addr[d] = buf
            BY <4>3, <2>2, <1>2 DEF LoopInv, RestInv
          <5>3. Holds(mem'[d], 0, Base(d), cur_offset[d])
            BY <5>1, <4>3, <3>4, <2>2, <1>1, StartAccumulation
          <5>4. \A o, n : n \in Nat /\ n <= cur_offset[d] /\ Ordered(order[d], cur_addr[d], o, n) =>
                   Ordered(order'[d], 0, o, n)
            BY <5>1, <5>2, <4>3, <3>4, <2>2, <1>1, StartAccumulation
          <5>5. cur_offset[d] \in Nat /\ EFFECTIVE_SIZE \in Nat
            BY <2>2, LocalTypes, <1>2, Sizes
          <5>6. IF cur_offset[d] < EFFECTIVE_SIZE
                THEN Ordered(order'[d], 0, "net", cur_offset[d])
                ELSE Ordered(order'[d], 0, "host", EFFECTIVE_SIZE)
            BY <5>4, <5>5, <4>1 DEF PendingInv
          <5>7. PendingInv(d)'
            BY <5>1, <5>3, <5>6, <4>1, <3>2, <1>1 DEF PendingInv
          <5>8. QED BY <5>1, <5>7, <4>2, <3>2, <1>1 DEF IdleInv
        <4>4. CASE ~(direct = "direct" /\ Strategy = "Buffer")
          <5>1. mem'[d] = mem[d] /\ order'[d] = order[d] /\ cur_addr'[d] = cur_addr[d]
                /\ Home(d)' = Home(d)
            BY <4>2, <4>4, <3>1, <2>2 DEF Started, Home
          <5>2. PendingInv(d)'
            BY <5>1, <4>1, <3>2, <1>1 DEF PendingInv
          <5>3. Strategy = "Buffer" => cur_addr[d] = 0
            BY <4>4, <3>4, <2>2, <1>2, LocalTypes DEF LoopInv
          <5>4. QED BY <5>1, <5>2, <5>3, <4>2, <3>2, <1>1 DEF IdleInv
        <4>5. QED BY <4>3, <4>4
      <3>5. QED BY <3>3, <3>4, <2>2, <1>4
    <2>3. QED BY <2>1, <2>2
  <1>8. QED BY <1>1, <1>3, <1>5, <1>7 DEF IInv

\* recvfrom() never gets more room than recv_data.buf has.
LEMMA ReadRoom ==
    ASSUME IInv, NEW c \in Conns, IdleInv(c), Strategy = "InPlace"
    PROVE  cur_addr[c] + cur_offset[c] + cur_size[c] <= BufSize
  <1>1. /\ cur_addr[c] \in Nat /\ cur_offset[c] \in Nat /\ cur_size[c] \in Int
        /\ TypeOK /\ SentInv /\ InOrderDelivery
    BY DEF IInv, TypeOK
  <1>2. CASE cur_offset[c] = 0
    <2>1. cur_addr[c] = 0 /\ cur_size[c] = MAX_PAYLOAD_SIZE
      BY <1>2 DEF IdleInv
    <2>2. QED BY <2>1, <1>2, Sizes
  <1>3. CASE cur_offset[c] > 0
    <2>1. PendingInv(c) /\ Home(c) = cur_addr[c] /\ Home(c) < MAX_PAYLOAD_SIZE
      BY <1>3 DEF IdleInv, PendingInv, Home
    <2>2. CASE cur_offset[c] < EFFECTIVE_SIZE
      BY <2>1, <2>2, <1>1, Sizes DEF PendingInv
    <2>3. CASE ~(cur_offset[c] < EFFECTIVE_SIZE)
      <3>1. HasNext(c) /\ NextLen(c) <= ms_maxSize /\ cur_size[c] = NextLen(c) - cur_offset[c]
        BY <2>1, <2>3 DEF PendingInv
      <3>2. NextLen(c) \in Nat
        BY <3>1, <1>1, Positions
      <3>3. QED BY <3>1, <3>2, <2>1, <1>1, Sizes
    <2>4. QED BY <2>2, <2>3
  <1>4. QED BY <1>1, <1>2, <1>3

\* Bytes are read and process_buffer() starts on them.
LEMMA ReceivePendingDataStep ==
    ASSUME IInv, NEW c \in Conns, NEW n \in 1 .. MaxBytes, ReceivePendingData(c, n)
    PROVE  IInv'
  <1> DEFINE ra == ReadAddr(c)
  <1>1. /\ pc = "wait" /\ pc' = "loop" /\ status[c] = "open"
        /\ n <= Available(c) /\ n <= ReadSize(c)
        /\ rcvd' = [rcvd EXCEPT ![c] = @ + n]
        /\ mem' = [mem EXCEPT ![c] =
              [a \in Addr |-> IF a >= ra /\ a < ra + n THEN rcvd[c] + (a - ra) ELSE @[a]]]
        /\ order' = [order EXCEPT ![c] =
              [a \in Addr |-> IF a >= ra /\ a < ra + n THEN "net" ELSE @[a]]]
        /\ conn' = c /\ buf' = ra /\ len' = n /\ offset' = 0
        /\ direct' = IF cur_offset[c] = 0 THEN "direct" ELSE "accumulate"
        /\ cur_addr' = IF cur_offset[c] = 0 THEN [cur_addr EXCEPT ![c] = ra] ELSE cur_addr
        /\ UNCHANGED <<sent, peer, cur_offset, cur_size, delivered, status, msg>>
    BY DEF ReceivePendingData, streamVars
  <1>2. TypeOK /\ SentInv /\ InOrderDelivery /\ CloseReason /\ IdleInv(c)
    BY <1>1 DEF IInv
  <1>3. /\ cur_addr[c] \in Nat /\ cur_offset[c] \in Nat /\ cur_size[c] \in Int /\ rcvd[c] \in Nat
        /\ mem[c] \in [Addr -> Nat \cup {Unwritten}] /\ order[c] \in [Addr -> {"net", "host"}]
        /\ n \in Nat /\ n >= 1 /\ Base(c) \in Nat /\ End(sent[c]) \in Nat
    <2>1. Base(c) \in Nat /\ End(sent[c]) \in Nat
      BY <1>2, Positions
    <2>2. n \in Nat /\ n >= 1
      BY SizeAssumption
    <2>3. QED BY <2>1, <2>2, <1>2 DEF TypeOK
  <1>4. /\ ra \in Nat /\ ra + n <= BufSize + PacketSize
        /\ Strategy = "InPlace" => /\ ra = cur_addr[c] + cur_offset[c] /\ n <= cur_size[c]
        /\ Strategy = "Buffer" => ra = PACKET /\ ra = BufSize
    <2>1. CASE Strategy = "InPlace"
      <3>1. cur_addr[c] + cur_offset[c] + cur_size[c] <= BufSize
        BY <2>1, <1>2, ReadRoom
      <3>2. QED BY <2>1, <3>1, <1>1, <1>3, Sizes DEF ReadAddr, ReadSize
    <2>2. CASE Strategy = "Buffer"
      BY <2>2, <1>1, <1>3, Sizes DEF ReadAddr, ReadSize
    <2>3. QED BY <2>1, <2>2, StrategyAssumption
  <1> HIDE DEF ra
  <1>5. \A x \in Int : x >= 0 /\ x < BufSize + PacketSize => x \in Addr
    BY Sizes DEF Addr
  <1>6. /\ mem'[c] = [a \in Addr |-> IF a >= ra /\ a < ra + n THEN rcvd[c] + (a - ra) ELSE mem[c][a]]
        /\ order'[c] = [a \in Addr |-> IF a >= ra /\ a < ra + n THEN "net" ELSE order[c][a]]
        /\ rcvd'[c] = rcvd[c] + n
        /\ cur_addr'[c] = IF cur_offset[c] = 0 THEN ra ELSE cur_addr[c]
        /\ \A d \in Conns : d # c => /\ mem'[d] = mem[d] /\ order'[d] = order[d]
                                     /\ rcvd'[d] = rcvd[d] /\ cur_addr'[d] = cur_addr[d]
    BY <1>1, <1>2 DEF TypeOK
  <1>7. TypeOK'
    <2>1. mem'[c] \in [Addr -> Nat \cup {Unwritten}] /\ order'[c] \in [Addr -> {"net", "host"}]
      <3>1. \A a \in Addr : a >= ra => rcvd[c] + (a - ra) \in Nat
        BY <1>3, <1>4, Sizes DEF Addr
      <3>2. QED BY <3>1, <1>3, <1>6
    <2>2. mem' \in [Conns -> [Addr -> Nat \cup {Unwritten}]]
          /\ order' \in [Conns -> [Addr -> {"net", "host"}]]
      <3>1. mem' = [mem EXCEPT ![c] = mem'[c]] /\ order' = [order EXCEPT ![c] = order'[c]]
        BY <1>1, <1>2 DEF TypeOK
      <3>2. QED BY <3>1, <2>1, <1>2 DEF TypeOK
    <2>3. rcvd' \in [Conns -> Nat] /\ cur_addr' \in [Conns -> Nat]
      <3>1. rcvd[c] + n \in Nat
        BY <1>3
      <3>2. rcvd' \in [Conns -> Nat]
        BY <3>1, <1>1, <1>2 DEF TypeOK
      <3>3. cur_addr' \in [Conns -> Nat]
        BY <1>1, <1>2, <1>4 DEF TypeOK
      <3>4. QED BY <3>2, <3>3
    <2>4. QED BY <2>2, <2>3, <1>1, <1>2, <1>3, <1>4 DEF TypeOK
  <1>8. SentInv' /\ InOrderDelivery'
    BY <1>1, <1>2 DEF SentInv, InOrderDelivery
  <1>9. CloseReason'
    <2>1. \A d \in Conns : status[d] # "open" => rcvd'[d] = rcvd[d]
      BY <1>1, <1>6
    <2>2. QED BY <2>1, <1>1, <1>2 DEF CloseReason
  <1>10. ASSUME NEW d \in Conns, status'[d] = "open", pc' = "wait" \/ d # conn'
         PROVE  IdleInv(d)'
    <2>1. d # c /\ IdleInv(d)
      BY <1>1, <1>10 DEF IInv
    <2>2. QED BY <2>1, <1>1, <1>6, IdleFrame
  <1>11. /\ Base(c)' = Base(c) /\ HasNext(c)' = HasNext(c) /\ NextLen(c)' = NextLen(c)
    BY <1>1 DEF Base, HasNext, NextLen
  <1>12. /\ rcvd[c] = Base(c) + cur_offset[c]
         /\ cur_offset[c] = 0 => /\ cur_size[c] = MAX_PAYLOAD_SIZE
                                 /\ Strategy = "InPlace" => cur_addr[c] = 0
         /\ cur_offset[c] > 0 => PendingInv(c) /\ (Strategy = "Buffer" => cur_addr[c] = 0)
    BY <1>2 DEF IdleInv
  <1>13. RestInv(cur_offset[conn])'
    <2>1. rcvd[c] + n = Base(c) + cur_offset[c] + n /\ rcvd[c] + n <= End(sent[c])
      BY <1>1, <1>3, <1>12 DEF Available
    <2>2. \A x \in (ra + 0) .. ((ra + 0) + n - 1) : x \in Addr /\ x \in Int /\ x >= ra /\ x < ra + n
      BY <1>3, <1>4, <1>5, Sizes
    <2>3. Holds(mem'[c], ra + 0, Base(c) + cur_offset[c], n)
      <3>1. SUFFICES ASSUME NEW x \in (ra + 0) .. ((ra + 0) + n - 1)
                     PROVE  mem'[c][x] = Base(c) + cur_offset[c] + (x - (ra + 0))
        BY DEF Holds
      <3>2. mem'[c][x] = rcvd[c] + (x - ra)
        BY <2>2, <1>6
      <3>3. QED BY <3>2, <2>2, <1>3, <1>4, <1>12
    <2>4. Ordered(order'[c], ra + 0, "net", n)
      BY <2>2, <1>6 DEF Ordered
    <2>5. Strategy = "Buffer" => ra >= PACKET /\ ra + 0 + n <= PACKET + PacketSize
      BY <1>3, <1>4, Sizes
    <2>6. direct' = "direct" => cur_addr'[c] = ra
      BY <1>1, <1>6
    <2>7. QED BY <2>1, <2>3, <2>4, <2>5, <2>6, <1>1, <1>6, <1>11 DEF RestInv
  <1>14. ASSUME cur_offset[c] > 0 PROVE PendingInv(c)'
    <2>1. cur_addr'[c] = cur_addr[c] /\ Home(c)' = Home(c) /\ PendingInv(c)
      BY <1>3, <1>6, <1>12, <1>14 DEF Home
    <2>2. cur_addr[c] + cur_offset[c] <= ra
      <3>1. CASE Strategy = "InPlace"
        BY <3>1, <1>3, <1>4
      <3>2. CASE Strategy = "Buffer"
        <4>1. cur_addr[c] = 0 /\ ra = BufSize
          BY <3>2, <1>4, <1>12, <1>14
        <4>2. CASE cur_offset[c] < EFFECTIVE_SIZE
          BY <4>1, <4>2, <1>3, Sizes
        <4>3. CASE ~(cur_offset[c] < EFFECTIVE_SIZE)
          <5>1. HasNext(c) /\ NextLen(c) <= ms_maxSize /\ cur_offset[c] < NextLen(c)
            BY <2>1, <4>3 DEF PendingInv
          <5>2. NextLen(c) \in Nat
            BY <5>1, <1>2, Positions
          <5>3. QED BY <5>1, <5>2, <4>1, <1>3, Sizes
        <4>4. QED BY <4>2, <4>3
      <3>3. QED BY <3>1, <3>2, StrategyAssumption
    <2>3. \A x \in cur_addr[c] .. (cur_addr[c] + cur_offset[c] - 1) :
             mem'[c][x] = mem[c][x] /\ order'[c][x] = order[c][x]
      <3>1. \A x \in cur_addr[c] .. (cur_addr[c] + cur_offset[c] - 1) : x \in Addr /\ ~(x >= ra)
        BY <2>2, <1>3, <1>4, <1>5, Sizes
      <3>2. QED BY <3>1, <1>6
    <2>4. Holds(mem'[c], cur_addr[c], Base(c), cur_offset[c])
      BY <2>1, <2>3 DEF PendingInv, Holds
    <2>5. IF cur_offset[c] < EFFECTIVE_SIZE
          THEN Ordered(order'[c], cur_addr[c], "net", cur_offset[c])
          ELSE Ordered(order'[c], cur_addr[c], "host", EFFECTIVE_SIZE)
      <3>1. CASE cur_offset[c] < EFFECTIVE_SIZE
        BY <2>1, <2>3, <3>1 DEF PendingInv, Ordered
      <3>2. CASE ~(cur_offset[c] < EFFECTIVE_SIZE)
        <4>1. Ordered(order[c], cur_addr[c], "host", EFFECTIVE_SIZE)
          BY <2>1, <3>2 DEF PendingInv
        <4>2. \A x \in cur_addr[c] .. (cur_addr[c] + EFFECTIVE_SIZE - 1) :
                 x \in cur_addr[c] .. (cur_addr[c] + cur_offset[c] - 1)
          BY <3>2, <1>3, Sizes
        <4>3. QED BY <4>1, <4>2, <2>3, <3>2 DEF Ordered
      <3>3. QED BY <3>1, <3>2
    <2>6. QED BY <2>1, <2>4, <2>5, <1>1, <1>11 DEF PendingInv
  <1>15. LoopInv'
    <2>1. CASE cur_offset[c] = 0
      <3>1. Strategy = "InPlace" => ra = 0
        BY <2>1, <1>4, <1>12
      <3>2. QED BY <2>1, <3>1, <1>1, <1>3, <1>4, <1>12, <1>13, Sizes DEF LoopInv
    <2>2. CASE cur_offset[c] > 0
      <3>1. cur_offset[c] # 0 /\ direct' = "accumulate" /\ cur_addr'[c] = cur_addr[c]
        BY <2>2, <1>1, <1>3, <1>6
      <3>2. Strategy = "InPlace" => ra + 0 = cur_addr[c] + cur_offset[c] /\ n <= cur_size[c]
        BY <1>3, <1>4
      <3>3. QED BY <2>2, <3>1, <3>2, <1>1, <1>12, <1>13, <1>14 DEF LoopInv
    <2>3. QED BY <2>1, <2>2, <1>3
  <1>16. QED BY <1>1, <1>7, <1>8, <1>9, <1>10, <1>15 DEF IInv

\* Closing a connection at the end of its stream, and the steps of the peer.
LEMMA ReceiveShutdownStep ==
    ASSUME IInv, NEW c \in Conns, ReceiveShutdown(c)
    PROVE  IInv'
  <1>1. /\ pc = "wait" /\ status[c] = "open"
        /\ ReadSize(c) > 0 => peer[c] = "fin" /\ Available(c) = 0
        /\ status' = [status EXCEPT ![c] = "shutdown"]
        /\ UNCHANGED <<sent, peer, rcvd, mem, order, cur_addr, cur_offset, cur_size,
                       delivered, msg, pc, conn, buf, len, offset, direct>>
    BY DEF ReceiveShutdown, streamVars, recvVars, callVars
  <1>2. TypeOK /\ SentInv /\ InOrderDelivery /\ CloseReason /\ IdleInv(c)
    BY <1>1 DEF IInv
  <1>3. TypeOK' /\ SentInv' /\ InOrderDelivery'
    BY <1>1, <1>2 DEF TypeOK, SentInv, InOrderDelivery
  <1>4. CloseReason'
    <2>1. ReadSize(c) > 0
      <3>1. CASE cur_offset[c] = 0
        BY <3>1, <1>2, Sizes DEF IdleInv, ReadSize
      <3>2. CASE cur_offset[c] > 0
        BY <3>2, <1>2, Sizes DEF IdleInv, PendingInv, ReadSize
      <3>3. cur_offset[c] \in Nat
        BY <1>2 DEF TypeOK
      <3>4. QED BY <3>1, <3>2, <3>3
    <2>2. rcvd[c] = End(sent[c])
      <3>1. End(sent[c]) \in Nat
        BY <1>2, Positions
      <3>2. rcvd[c] \in Nat
        BY <1>2 DEF TypeOK
      <3>3. QED BY <2>1, <3>1, <3>2, <1>1 DEF Available
    <2>3. QED BY <2>1, <2>2, <1>1, <1>2 DEF CloseReason, TypeOK
  <1>5. ASSUME NEW d \in Conns, status'[d] = "open" PROVE IdleInv(d)'
    <2>1. status[d] = "open"
      BY <1>1, <1>2, <1>5 DEF TypeOK
    <2>2. IdleInv(d)
      BY <2>1, <1>1 DEF IInv
    <2>3. QED BY <2>2, <1>1, IdleFrame
  <1>6. QED BY <1>1, <1>3, <1>4, <1>5 DEF IInv

\* The peer shuts the connection down.
LEMMA ShutdownStep ==
    ASSUME IInv, NEW c \in Conns, Shutdown(c)
    PROVE  IInv'
  <1>1. /\ peer[c] = "up" /\ peer' = [peer EXCEPT ![c] = "fin"]
        /\ UNCHANGED <<sent, rcvd, mem, order, cur_addr, cur_offset, cur_size,
                       delivered, status, msg, pc, conn, buf, len, offset, direct>>
    BY DEF Shutdown, recvVars, callVars
  <1>2. TypeOK /\ SentInv /\ InOrderDelivery /\ CloseReason
    BY DEF IInv
  <1>3. TypeOK' /\ SentInv' /\ InOrderDelivery' /\ CloseReason'
    <2>1. TypeOK'
      BY <1>1, <1>2 DEF TypeOK
    <2>2. SentInv' /\ InOrderDelivery'
      BY <1>1, <1>2 DEF SentInv, InOrderDelivery
    <2>3. \A d \in Conns : peer[d] = "fin" => peer'[d] = "fin"
      BY <1>1, <1>2 DEF TypeOK
    <2>4. CloseReason'
      BY <2>3, <1>1, <1>2 DEF CloseReason
    <2>5. QED BY <2>1, <2>2, <2>4
  <1>4. \A d \in Conns : status'[d] = "open" /\ (pc' = "wait" \/ d # conn') => IdleInv(d)'
    BY <1>1, IdleFrame DEF IInv
  <1>5. pc' = "loop" => LoopInv'
    BY <1>1 DEF IInv, LoopInv, RestInv, PendingInv, Base, HasNext, NextLen, Home
  <1>6. pc' = "handle" => HandleInv'
    BY <1>1 DEF IInv, HandleInv, RestInv, Base, HasNext, NextLen
  <1>7. QED BY <1>3, <1>4, <1>5, <1>6 DEF IInv

\* The peer writes a message: the stream grows at its end only.
LEMMA SendStep ==
    ASSUME IInv, NEW c \in Conns, NEW l \in Lengths, Send(c, l)
    PROVE  IInv'
  <1> DEFINE m == [start |-> End(sent[c]), len |-> l]
             n == Len(sent[c])
  <1>1. /\ peer[c] = "up"
        /\ sent' = [sent EXCEPT ![c] = Append(@, m)]
        /\ UNCHANGED <<peer, rcvd, mem, order, cur_addr, cur_offset, cur_size,
                       delivered, status, msg, pc, conn, buf, len, offset, direct>>
    BY DEF Send, recvVars, callVars
  <1>2. TypeOK /\ SentInv /\ InOrderDelivery /\ CloseReason
    BY DEF IInv
  <1>3. /\ End(sent[c]) \in Nat /\ l \in Nat /\ m \in Message
        /\ m.start = End(sent[c]) /\ m.len = l
    BY <1>2, Positions, LengthsAssumption DEF Message
  <1> HIDE DEF m
  <1>4. /\ \A d \in Conns : sent[d] \in Seq(Message) /\ delivered[d] \in Seq(Message)
        /\ sent'[c] = Append(sent[c], m)
        /\ \A d \in Conns : d # c => sent'[d] = sent[d]
    BY <1>1, <1>2 DEF TypeOK
  <1>5. /\ n \in Nat /\ Len(sent'[c]) = n + 1 /\ sent'[c] # <<>>
        /\ \A k \in 1 .. n : sent'[c][k] = sent[c][k]
        /\ sent'[c][n + 1] = m
    BY <1>4, <1>3
  <1>6. End(sent'[c]) = End(sent[c]) + l
    BY <1>3, <1>5 DEF End
  <1>7. TypeOK'
    <2>1. sent' \in [Conns -> Seq(Message)]
      BY <1>1, <1>2, <1>3 DEF TypeOK
    <2>2. QED BY <2>1, <1>1, <1>2 DEF TypeOK
  <1>8. ASSUME NEW d \in Conns
        PROVE  /\ Len(delivered[d]) \in Nat /\ Len(sent[d]) \in Nat
               /\ Len(sent[d]) <= Len(sent'[d]) /\ Len(sent'[d]) \in Nat
               /\ \A k \in 1 .. Len(sent[d]) : sent'[d][k] = sent[d][k]
               /\ End(sent[d]) \in Nat /\ End(sent'[d]) \in Nat
               /\ End(sent[d]) <= End(sent'[d])
               /\ Base(d)' = Base(d)
               /\ HasNext(d) => HasNext(d)' /\ NextLen(d)' = NextLen(d)
    <2>1. /\ Len(delivered[d]) \in Nat /\ Len(sent[d]) \in Nat
          /\ Len(sent[d]) <= Len(sent'[d]) /\ Len(sent'[d]) \in Nat
          /\ \A k \in 1 .. Len(sent[d]) : sent'[d][k] = sent[d][k]
      BY <1>4, <1>5
    <2>2. End(sent[d]) \in Nat
      BY <1>2, Positions
    <2>3. End(sent'[d]) \in Nat /\ End(sent[d]) <= End(sent'[d])
      <3>1. CASE d = c
        BY <3>1, <1>3, <1>6
      <3>2. CASE d # c
        BY <3>2, <2>2, <1>4
      <3>3. QED BY <3>1, <3>2
    <2>4. Base(d)' = Base(d)
      BY <1>1 DEF Base
    <2>5. ASSUME HasNext(d) PROVE HasNext(d)' /\ NextLen(d)' = NextLen(d)
      <3>1. Len(delivered[d]) + 1 \in 1 .. Len(sent[d])
        BY <2>1, <2>5 DEF HasNext
      <3>2. QED BY <3>1, <2>1, <1>1 DEF HasNext, NextLen
    <2>6. QED BY <2>1, <2>2, <2>3, <2>4, <2>5
  <1>9. SentInv'
    <2>1. SUFFICES ASSUME NEW d \in Conns
                   PROVE  /\ \A k \in 1 .. Len(sent'[d]) :
                                sent'[d][k].start = IF k = 1 THEN 0
                                    ELSE sent'[d][k - 1].start + sent'[d][k - 1].len
                          /\ \A j, k \in 1 .. Len(sent'[d]) :
                                j < k => sent'[d][j].start + sent'[d][j].len <= sent'[d][k].start
      BY DEF SentInv
    <2>2. CASE d # c
      BY <2>2, <1>2, <1>4 DEF SentInv
    <2>3. CASE d = c
      <3>1. \A k \in 1 .. n : sent[c][k].start \in Nat /\ sent[c][k].len \in Nat
        <4>1. \A k \in 1 .. n : sent[c][k] \in Message
          BY <1>4
        <4>2. QED BY <4>1, LengthsAssumption DEF Message
      <3>2. End(sent[c]) = IF n = 0 THEN 0 ELSE sent[c][n].start + sent[c][n].len
        BY <1>4 DEF End
      <3>3. /\ \A k \in 1 .. n : sent[c][k].start = IF k = 1 THEN 0
                                    ELSE sent[c][k - 1].start + sent[c][k - 1].len
            /\ \A j, k \in 1 .. n : j < k => sent[c][j].start + sent[c][j].len <= sent[c][k].start
        BY <1>2 DEF SentInv
      <3>4. \A j \in 1 .. n : sent[c][j].start + sent[c][j].len <= End(sent[c])
        <4>1. SUFFICES ASSUME NEW j \in 1 .. n
                       PROVE  sent[c][j].start + sent[c][j].len <= End(sent[c])
          OBVIOUS
        <4>2. n \in 1 .. n /\ n # 0
          BY <1>5
        <4>3. CASE j = n
          BY <4>2, <4>3, <3>1, <3>2
        <4>4. CASE j # n
          <5>1. sent[c][j].start + sent[c][j].len <= sent[c][n].start
            BY <4>2, <4>4, <3>3, <1>5
          <5>2. End(sent[c]) = sent[c][n].start + sent[c][n].len
            BY <4>2, <3>2
          <5> HIDE DEF n
          <5>3. QED BY <5>1, <5>2, <4>2, <3>1
        <4>5. QED BY <4>3, <4>4
      <3> HIDE DEF n
      <3>5. ASSUME NEW k \in 1 .. (n + 1)
            PROVE  sent'[c][k].start = IF k = 1 THEN 0
                       ELSE sent'[c][k - 1].start + sent'[c][k - 1].len
        <4>1. CASE k = n + 1
          <5>1. CASE n = 0
            BY <4>1, <5>1, <3>2, <1>3, <1>5
          <5>2. CASE n # 0
            <6>1. n \in 1 .. n /\ k - 1 = n /\ k # 1
              BY <4>1, <5>2, <1>5
            <6>2. sent'[c][n] = sent[c][n] /\ sent'[c][k] = m
              BY <6>1, <4>1, <1>5
            <6>3. QED BY <6>1, <6>2, <5>2, <3>2, <1>3
          <5>3. QED BY <5>1, <5>2
        <4>2. CASE k # n + 1
          <5>1. k \in 1 .. n /\ (k # 1 => k - 1 \in 1 .. n)
            BY <4>2, <1>5
          <5>2. sent'[c][k] = sent[c][k] /\ (k # 1 => sent'[c][k - 1] = sent[c][k - 1])
            BY <5>1, <1>5
          <5>3. QED BY <5>1, <5>2, <3>3
        <4>3. QED BY <4>1, <4>2
      <3>6. ASSUME NEW j \in 1 .. (n + 1), NEW k \in 1 .. (n + 1), j < k
            PROVE  sent'[c][j].start + sent'[c][j].len <= sent'[c][k].start
        <4>1. j \in 1 .. n /\ sent'[c][j] = sent[c][j]
          BY <3>6, <1>5
        <4>2. CASE k = n + 1
          BY <4>1, <4>2, <3>4, <1>3, <1>5
        <4>3. CASE k # n + 1
          <5>1. k \in 1 .. n /\ sent'[c][k] = sent[c][k]
            BY <4>3, <1>5
          <5>2. QED BY <4>1, <5>1, <3>3, <3>6
        <4>4. QED BY <4>2, <4>3
      <3>7. QED BY <3>5, <3>6, <2>3, <1>5
    <2>4. QED BY <2>2, <2>3
  <1>10. InOrderDelivery'
    <2>1. SUFFICES ASSUME NEW d \in Conns
                   PROVE  /\ Len(delivered[d]) <= Len(sent'[d])
                          /\ \A k \in 1 .. Len(delivered[d]) : delivered[d][k] = sent'[d][k]
      BY <1>1 DEF InOrderDelivery
    <2>2. /\ Len(delivered[d]) <= Len(sent[d])
          /\ \A k \in 1 .. Len(delivered[d]) : delivered[d][k] = sent[d][k]
      BY <1>2 DEF InOrderDelivery
    <2>3. QED BY <2>2, <1>8
  <1>11. CloseReason'
    <2>1. SUFFICES ASSUME NEW d \in Conns
                   PROVE  /\ status[d] = "invalid" =>
                                /\ Len(delivered[d]) < Len(sent'[d])
                                /\ sent'[d][Len(delivered[d]) + 1].len > ms_maxSize
                          /\ status[d] = "shutdown" => peer[d] = "fin" /\ rcvd[d] = End(sent'[d])
      BY <1>1 DEF CloseReason
    <2>2. /\ status[d] = "invalid" => HasNext(d) /\ NextLen(d) > ms_maxSize
          /\ status[d] = "shutdown" => peer[d] = "fin" /\ rcvd[d] = End(sent[d])
      BY <1>2 DEF CloseReason, HasNext, NextLen
    <2>3. HasNext(d) => Len(delivered[d]) < Len(sent'[d])
                        /\ sent'[d][Len(delivered[d]) + 1].len = NextLen(d)
      BY <1>1, <1>8 DEF HasNext, NextLen
    <2>4. peer[d] = "fin" => sent'[d] = sent[d]
      BY <1>1, <1>4
    <2>5. QED BY <2>2, <2>3, <2>4
  <1>12. ASSUME NEW d \in Conns, PendingInv(d) PROVE PendingInv(d)'
    BY <1>1, <1>8, <1>12 DEF PendingInv, Home
  <1>13. ASSUME NEW d \in Conns, IdleInv(d) PROVE IdleInv(d)'
    <2>1. rcvd[d] \in Nat
      BY <1>2 DEF TypeOK
    <2>2. QED BY <2>1, <1>1, <1>8, <1>12, <1>13 DEF IdleInv
  <1>14. ASSUME NEW k, RestInv(k) PROVE RestInv(k)'
    <2>1. rcvd[conn] \in Nat /\ conn \in Conns
      BY LocalTypes, <1>2
    <2>2. rcvd[conn] <= End(sent'[conn])
      BY <2>1, <1>8, <1>14 DEF RestInv
    <2>3. Base(conn)' = Base(conn)
      BY <1>1 DEF Base
    <2>4. QED BY <2>2, <2>3, <1>1, <1>14 DEF RestInv
  <1>15. pc' = "loop" => LoopInv'
    <2>1. SUFFICES ASSUME pc = "loop" PROVE LoopInv'
      BY <1>1
    <2>2. LoopInv /\ conn \in Conns
      BY <2>1, LocalTypes, <1>2 DEF IInv
    <2>3. RestInv(cur_offset[conn])'
      <3>1. PICK k : k = cur_offset[conn]
        OBVIOUS
      <3>2. RestInv(k)'
        BY <3>1, <2>2, <1>14 DEF LoopInv
      <3>3. QED BY <3>1, <3>2, <1>1
    <2>4. PendingInv(conn) => PendingInv(conn)'
      <3>1. PICK d \in Conns : d = conn
        BY <2>2
      <3>2. PendingInv(d) => PendingInv(d)'
        BY <1>12
      <3>3. QED BY <3>1, <3>2, <1>1
    <2>5. QED BY <2>2, <2>3, <2>4, <1>1 DEF LoopInv
  <1>16. pc' = "handle" => HandleInv'
    <2>1. SUFFICES ASSUME pc = "handle" PROVE HandleInv'
      BY <1>1
    <2>2. HandleInv /\ conn \in Conns
      BY <2>1, LocalTypes, <1>2 DEF IInv
    <2>3. HasNext(conn)' /\ NextLen(conn)' = NextLen(conn) /\ Base(conn)' = Base(conn)
      <3>1. PICK d \in Conns : d = conn
        BY <2>2
      <3>2. HasNext(d)' /\ NextLen(d)' = NextLen(d) /\ Base(d)' = Base(d)
        BY <3>1, <2>2, <1>8 DEF HandleInv
      <3>3. QED BY <3>1, <3>2, <1>1
    <2>4. NextLen(conn) <= ms_maxSize => RestInv(NextLen(conn))'
      <3>1. PICK k : k = NextLen(conn)
        OBVIOUS
      <3>2. NextLen(conn) <= ms_maxSize => RestInv(k)'
        BY <3>1, <2>2, <1>14 DEF HandleInv
      <3>3. QED BY <3>1, <3>2, <2>3
    <2>5. QED BY <2>2, <2>3, <2>4, <1>1 DEF HandleInv
  <1>17. \A d \in Conns : status'[d] = "open" /\ (pc' = "wait" \/ d # conn') => IdleInv(d)'
    BY <1>1, <1>13 DEF IInv
  <1>18. QED BY <1>7, <1>9, <1>10, <1>11, <1>15, <1>16, <1>17 DEF IInv

-----------------------------------------------------------------------------
(* The theorems. *)

\* The invariant holds initially.
LEMMA InitIInv == Init => IInv
  <1>1. SUFFICES ASSUME Init PROVE IInv
    OBVIOUS
  <1>2. /\ sent = [c \in Conns |-> <<>>] /\ delivered = [c \in Conns |-> <<>>]
        /\ peer = [c \in Conns |-> "up"] /\ rcvd = [c \in Conns |-> 0]
        /\ mem = [c \in Conns |-> [a \in Addr |-> Unwritten]]
        /\ order = [c \in Conns |-> [a \in Addr |-> "net"]]
        /\ cur_addr = [c \in Conns |-> 0] /\ cur_offset = [c \in Conns |-> 0]
        /\ cur_size = [c \in Conns |-> MAX_PAYLOAD_SIZE]
        /\ status = [c \in Conns |-> "open"] /\ pc = "wait" /\ conn \in Conns
        /\ msg = [conn |-> conn, addr |-> 0]
        /\ buf = 0 /\ len = 0 /\ offset = 0 /\ direct = "direct"
    BY <1>1 DEF Init
  <1>3. TypeOK
    <2>1. sent \in [Conns -> Seq(Message)] /\ delivered \in [Conns -> Seq(Message)]
      BY <1>2
    <2>2. /\ mem \in [Conns -> [Addr -> Nat \cup {Unwritten}]]
          /\ order \in [Conns -> [Addr -> {"net", "host"}]]
      BY <1>2
    <2>3. QED BY <2>1, <2>2, <1>2, Sizes DEF TypeOK
  <1>4. \A c \in Conns : sent[c] = <<>> /\ delivered[c] = <<>> /\ Len(sent[c]) = 0
                         /\ Len(delivered[c]) = 0 /\ End(sent[c]) = 0 /\ Base(c) = 0
    BY <1>2 DEF End, Base
  <1>5. SentInv /\ InOrderDelivery
    BY <1>4 DEF SentInv, InOrderDelivery
  <1>6. CloseReason
    BY <1>2 DEF CloseReason
  <1>7. ASSUME NEW c \in Conns PROVE IdleInv(c)
    <2>1. /\ rcvd[c] = 0 /\ cur_offset[c] = 0 /\ cur_addr[c] = 0
          /\ cur_size[c] = MAX_PAYLOAD_SIZE
      BY <1>2
    <2>2. QED BY <2>1, <1>4 DEF IdleInv
  <1>8. QED BY <1>2, <1>3, <1>5, <1>6, <1>7 DEF IInv

\* Every step of the parser and of the peers preserves the invariant.
LEMMA NextIInv == IInv /\ [Next]_vars => IInv'
  <1>1. SUFFICES ASSUME IInv, [Next]_vars PROVE IInv'
    OBVIOUS
  <1>2. CASE \E c \in Conns : Shutdown(c)
    BY <1>1, <1>2, ShutdownStep
  <1>3. CASE \E c \in Conns : \E l \in Lengths : Send(c, l)
    BY <1>1, <1>3, SendStep
  <1>4. CASE \E c \in Conns : ReceiveShutdown(c)
    BY <1>1, <1>4, ReceiveShutdownStep
  <1>5. CASE \E c \in Conns : \E n \in 1 .. MaxBytes : ReceivePendingData(c, n)
    BY <1>1, <1>5, ReceivePendingDataStep
  <1>6. CASE ProcessChunk
    BY <1>1, <1>6, HeaderIncompleteStep, HeaderInvalidStep, MessageIncompleteStep,
       MessageCompleteStep DEF ProcessChunk
  <1>7. CASE HandleAccepts
    BY <1>1, <1>7, HandleAcceptsStep
  <1>8. CASE HandleRefuses
    BY <1>1, <1>8, HandleRefusesStep
  <1>9. CASE Return
    BY <1>1, <1>9, ReturnStep
  <1>10. CASE UNCHANGED vars
    <2>1. UNCHANGED <<sent, peer, rcvd, mem, order, cur_addr, cur_offset, cur_size,
                      delivered, status, msg, pc, conn, buf, len, offset, direct>>
      BY <1>10 DEF vars
    <2>2. TypeOK' /\ SentInv' /\ InOrderDelivery' /\ CloseReason'
      BY <1>1, <2>1 DEF IInv, TypeOK, SentInv, InOrderDelivery, CloseReason
    <2>3. \A d \in Conns : status'[d] = "open" /\ (pc' = "wait" \/ d # conn') => IdleInv(d)'
      BY <1>1, <2>1, IdleFrame DEF IInv
    <2>4. pc' = "loop" => LoopInv'
      BY <1>1, <2>1 DEF IInv, LoopInv, RestInv, PendingInv, Base, HasNext, NextLen, Home
    <2>5. pc' = "handle" => HandleInv'
      BY <1>1, <2>1 DEF IInv, HandleInv, RestInv, Base, HasNext, NextLen
    <2>6. QED BY <2>2, <2>3, <2>4, <2>5 DEF IInv
  <1>11. QED BY <1>1, <1>2, <1>3, <1>4, <1>5, <1>6, <1>7, <1>8, <1>9, <1>10
              DEF Next, PeerStep, Receive, Process

\* The invariant of the parser holds in every reachable state.
THEOREM Invariance == Spec => []IInv
  BY InitIInv, NextIInv, PTL DEF Spec

\* Type correctness of the parser (message_parser.h, SocketRecvData).
THEOREM TypeCorrect == Spec => []TypeOK
  <1>1. IInv => TypeOK
    BY DEF IInv
  <1>2. QED BY <1>1, Invariance, PTL

\* process_buffer() gives the handler exactly the messages the peer sent, in
\* order, once each, whole and in host order, for every way of cutting the
\* stream, every buffer size and every number of connections on one parser.
THEOREM DeliversInOrder == Spec => []InOrderDelivery
  <1>1. IInv => InOrderDelivery
    BY DEF IInv
  <1>2. QED BY <1>1, Invariance, PTL

\* A connection is closed as invalid only in front of an oversized message,
\* and as shut down only at the end of what its peer sent: cur_size is never
\* 0 when recvfrom() is called.
THEOREM ClosesForAReason == Spec => []CloseReason
  <1>1. IInv => CloseReason
    BY DEF IInv
  <1>2. QED BY <1>1, Invariance, PTL

\* The asserts of InPlaceAccumulation never fire.
THEOREM AssertsHold == Spec => []InPlaceAsserts
  <1>1. IInv => InPlaceAsserts
    <2>1. SUFFICES ASSUME IInv, Strategy = "InPlace"
                   PROVE  /\ InLoop /\ direct = "accumulate" =>
                                cur_addr[conn] + cur_offset[conn] = buf + offset
                          /\ pc = "loop" /\ len = 0 /\ cur_offset[conn] # 0 /\ direct = "direct" =>
                                cur_addr[conn] = buf
      BY DEF InPlaceAsserts
    <2>2. InLoop /\ direct = "accumulate" => cur_addr[conn] + cur_offset[conn] = buf + offset
      BY <2>1, ChunkBytes
    <2>3. pc = "loop" /\ direct = "direct" => cur_addr[conn] = buf
      BY <2>1 DEF IInv, LoopInv, RestInv
    <2>4. QED BY <2>2, <2>3
  <1>2. QED BY <1>1, Invariance, PTL

\* Nothing is ever written outside recv_data.buf: 2 * MAX_PAYLOAD_SIZE bytes
\* are enough for both accumulation strategies.
THEOREM StaysInBuffer == Spec => []BufferBound
  <1>1. IInv => BufferBound
    <2>1. SUFFICES ASSUME IInv
                   PROVE  /\ Strategy = "InPlace" /\ pc = "wait" =>
                                \A c \in Conns : status[c] = "open" =>
                                    cur_addr[c] + cur_offset[c] + cur_size[c] <= BufSize
                          /\ Strategy = "Buffer" /\ InLoop /\ direct = "accumulate" =>
                                cur_addr[conn] + cur_offset[conn] + ChunkLen <= BufSize
                          /\ Strategy = "Buffer" /\ pc = "loop" /\ len = 0 /\ direct = "direct" =>
                                cur_offset[conn] <= BufSize
      BY DEF BufferBound
    <2>2. Strategy = "InPlace" /\ pc = "wait" =>
             \A c \in Conns : status[c] = "open" =>
                 cur_addr[c] + cur_offset[c] + cur_size[c] <= BufSize
      BY <2>1, ReadRoom DEF IInv
    <2>3. Strategy = "Buffer" /\ InLoop /\ direct = "accumulate" =>
             cur_addr[conn] + cur_offset[conn] + ChunkLen <= BufSize
      BY <2>1, ChunkBytes
    <2>4. Strategy = "Buffer" /\ pc = "loop" /\ len = 0 /\ direct = "direct" =>
             cur_offset[conn] <= BufSize
      <3>1. cur_offset[conn] \in Nat
        BY <2>1 DEF IInv, TypeOK
      <3>2. CASE cur_offset[conn] = 0
        BY <3>2, Sizes
      <3>3. CASE cur_offset[conn] > 0
        BY <3>3, <2>1, StartAccumulation
      <3>4. QED BY <3>1, <3>2, <3>3
    <2>5. QED BY <2>2, <2>3, <2>4
  <1>2. QED BY <1>1, Invariance, PTL

\* The parser implements the abstract message stream: every step delivers the
\* next message, rejects it, closes the connection, sends, or changes nothing
\* that the stream shows.
THEOREM Refinement == Spec => StreamSpec
  <1>1. Init => Stream!Init
    BY DEF Init, Stream!Init
  <1>2. IInv /\ [Next]_vars => [Stream!Next]_(Stream!vars)
    <2>1. SUFFICES ASSUME IInv, [Next]_vars PROVE Stream!Next \/ UNCHANGED Stream!vars
      OBVIOUS
    <2>2. TypeOK
      BY <2>1 DEF IInv
    <2>3. ASSUME NEW c \in Conns, NEW l \in Lengths, Send(c, l) PROVE Stream!Next
      <3>1. Stream!Send(c, l)
        BY <2>3 DEF Send, Stream!Send, End, Stream!End
      <3>2. QED BY <3>1 DEF Stream!Next
    <2>4. ASSUME NEW c \in Conns, Shutdown(c) PROVE UNCHANGED Stream!vars
      BY <2>4 DEF Shutdown, Stream!vars
    <2>5. ASSUME NEW c \in Conns, ReceiveShutdown(c) PROVE Stream!Next
      <3>1. Stream!Close(c, "shutdown")
        BY <2>5 DEF ReceiveShutdown, streamVars, Stream!Close
      <3>2. QED BY <3>1 DEF Stream!Next
    <2>6. ASSUME NEW c \in Conns, NEW n \in 1 .. MaxBytes, ReceivePendingData(c, n)
          PROVE  UNCHANGED Stream!vars
      BY <2>6 DEF ReceivePendingData, streamVars, Stream!vars
    <2>7. ASSUME ProcessChunk PROVE UNCHANGED Stream!vars
      BY <2>7 DEF ProcessChunk, HeaderIncomplete, HeaderInvalid, MessageIncomplete,
                  MessageComplete, Advance, streamVars, Stream!vars
    <2>8. ASSUME HandleAccepts PROVE Stream!Next
      <3>1. /\ conn \in Conns /\ pc = "handle" /\ NextLen(conn) <= ms_maxSize
            /\ Seen = sent[conn][Len(delivered[conn]) + 1]
        BY <2>1, <2>2, <2>8, HandlerReads DEF HandleAccepts, TypeOK
      <3>2. status[conn] = "open" /\ HasNext(conn)
        BY <2>1, <3>1 DEF IInv, HandleInv
      <3>3. Stream!Deliver(conn)
        BY <2>8, <3>1, <3>2 DEF HandleAccepts, streamVars, Stream!Deliver, Stream!Pending,
                                HasNext, NextLen
      <3>4. QED BY <3>1, <3>3 DEF Stream!Next
    <2>9. ASSUME HandleRefuses PROVE Stream!Next
      <3>1. conn \in Conns /\ pc = "handle" /\ HandlerLength = NextLen(conn)
        BY <2>1, <2>2, <2>9, HandlerReads DEF HandleRefuses, TypeOK
      <3>2. status[conn] = "open" /\ HasNext(conn)
        BY <2>1, <3>1 DEF IInv, HandleInv
      <3>3. CASE NextLen(conn) > ms_maxSize
        <4>1. Stream!Reject(conn)
          BY <2>9, <3>1, <3>2, <3>3 DEF HandleRefuses, streamVars, Stream!Reject,
                                        Stream!Pending, HasNext, NextLen
        <4>2. QED BY <3>1, <4>1 DEF Stream!Next
      <3>4. CASE ~(NextLen(conn) > ms_maxSize)
        <4>1. Stream!Close(conn, "stopped")
          BY <2>9, <3>1, <3>2, <3>4 DEF HandleRefuses, streamVars, Stream!Close
        <4>2. QED BY <3>1, <4>1 DEF Stream!Next
      <3>5. QED BY <3>3, <3>4
    <2>10. ASSUME Return PROVE UNCHANGED Stream!vars
      BY <2>10 DEF Return, streamVars, Stream!vars
    <2>11. ASSUME UNCHANGED vars PROVE UNCHANGED Stream!vars
      BY <2>11 DEF vars, Stream!vars
    <2>12. QED
      BY <2>1, <2>3, <2>4, <2>5, <2>6, <2>7, <2>8, <2>9, <2>10, <2>11
         DEF Next, PeerStep, Receive, Process
  <1>3. QED BY <1>1, <1>2, Invariance, PTL DEF Spec, StreamSpec, Stream!Spec
=============================================================================
