--------------------------- MODULE MessageParser ---------------------------
(***************************************************************************)
(* MessageParser<AccumulationStrategy> (message_parser.h) fed by the input *)
(* handlers (input_handlers.h): cutting the byte stream of a connection    *)
(* into messages.  One server (or client receiver) thread owns ONE parser  *)
(* and ONE reply object m_pMsgReply and serves all its connections with    *)
(* them; what belongs to a connection is its SocketRecvData and its        *)
(* buffer.                                                                 *)
(*                                                                         *)
(* A byte of a stream is its position in the stream.  A memory cell holds  *)
(* a byte, and, since headers are converted in place, the byte order it    *)
(* is in.  Addresses are offsets from recv_data.buf; the buffers that the  *)
(* zero-copy libraries own start at PACKET.                                *)
(***************************************************************************)
EXTENDS Integers, Sequences

CONSTANTS Conns,             \* connections served by one thread
          EFFECTIVE_SIZE,    \* bytes of a message header on the wire
          MAX_PAYLOAD_SIZE,  \* recv_data.max_size; recv_data.buf has twice as much
          ms_maxSize,        \* Message::getMaxSize()
          Strategy,          \* "InPlace" or "Buffer": the AccumulationStrategy
          PacketSize,        \* most bytes in one library-owned buffer
          Lengths,           \* lengths of the messages the peers send
          MaxBytes           \* bound: bytes a peer sends on one connection

ASSUME SizeAssumption ==
    /\ EFFECTIVE_SIZE \in Nat \ {0}
    /\ MAX_PAYLOAD_SIZE \in Nat
    /\ MAX_PAYLOAD_SIZE >= EFFECTIVE_SIZE
    /\ ms_maxSize \in MAX_PAYLOAD_SIZE .. (MAX_PAYLOAD_SIZE + 1)
    /\ PacketSize \in Nat \ {0}
    /\ MaxBytes \in Nat

ASSUME StrategyAssumption == Strategy \in {"InPlace", "Buffer"}

\* A sockperf peer never sends less than a header (MIN_PAYLOAD_SIZE).
ASSUME LengthsAssumption == Lengths \subseteq {l \in Nat : l >= EFFECTIVE_SIZE}

VARIABLES
    sent,        \* per connection: the messages sent, [start, len] each
    peer,        \* per connection: "up", or "fin" after an orderly shutdown
    rcvd,        \* per connection: bytes taken from the kernel or library
    mem, order,  \* per connection: bytes in memory and their byte order
    cur_addr, cur_offset, cur_size,     \* SocketRecvData
    delivered,   \* per connection: messages the handler accepted
    status,      \* per connection: "open" or why it was closed
    msg,         \* m_pMsgReply: the connection and address setBuf() gave it
    pc, conn, buf, len, offset, direct  \* process_buffer() and its locals

streamVars == <<sent, peer>>
recvVars == <<cur_addr, cur_offset, cur_size>>
callVars == <<conn, buf, len, offset, direct>>
vars == <<sent, peer, rcvd, mem, order, cur_addr, cur_offset, cur_size,
          delivered, status, msg, pc, conn, buf, len, offset, direct>>

-----------------------------------------------------------------------------
BufSize == 2 * MAX_PAYLOAD_SIZE
PACKET == BufSize
Addr == 0 .. (BufSize + PacketSize - 1)

\* No byte was written to the cell.
Unwritten == -1

Message == [start : Nat, len : Lengths]

\* The end of the last message of a sequence of messages.
End(s) == IF s = <<>> THEN 0 ELSE s[Len(s)].start + s[Len(s)].len

Available(c) == End(sent[c]) - rcvd[c]

Min2(a, b) == IF a < b THEN a ELSE b

\* f after n cells starting at src were copied to dst (std::memmove).
Moved(f, dst, src, n) ==
    [a \in Addr |-> IF a >= dst /\ a < dst + n THEN f[src + (a - dst)] ELSE f[a]]

\* f after ntoh() of the header at a: every header byte changes its order.
Swapped(f, h) ==
    [a \in Addr |-> IF a >= h /\ a < h + EFFECTIVE_SIZE
                    THEN (IF f[a] = "net" THEN "host" ELSE "net")
                    ELSE f[a]]

\* The n cells at a hold the bytes b, b+1, ... of the stream.
Holds(f, a, b, n) == \A x \in a .. (a + n - 1) : f[x] = b + (x - a)

\* The n cells at a are in byte order o.
Ordered(f, a, o, n) == \A x \in a .. (a + n - 1) : f[x] = o

\* getLength() of the header at a: what the peer put there if the cells hold
\* the header of a message in host order.  Anything else reads as a length
\* that isValidHeader() refuses.
LengthAt(m, o, c, a) ==
    IF /\ Ordered(o, a, "host", EFFECTIVE_SIZE)
       /\ \E k \in DOMAIN sent[c] : Holds(m, a, sent[c][k].start, EFFECTIVE_SIZE)
    THEN sent[c][CHOOSE k \in DOMAIN sent[c] :
                    Holds(m, a, sent[c][k].start, EFFECTIVE_SIZE)].len
    ELSE ms_maxSize + 1

-----------------------------------------------------------------------------
Init ==
    /\ sent = [c \in Conns |-> <<>>]
    /\ peer = [c \in Conns |-> "up"]
    /\ rcvd = [c \in Conns |-> 0]
    /\ mem = [c \in Conns |-> [a \in Addr |-> Unwritten]]
    /\ order = [c \in Conns |-> [a \in Addr |-> "net"]]
    /\ cur_addr = [c \in Conns |-> 0]
    /\ cur_offset = [c \in Conns |-> 0]
    /\ cur_size = [c \in Conns |-> MAX_PAYLOAD_SIZE]
    /\ delivered = [c \in Conns |-> <<>>]
    /\ status = [c \in Conns |-> "open"]
    /\ pc = "wait"
    /\ conn \in Conns
    /\ msg = [conn |-> conn, addr |-> 0]
    /\ buf = 0 /\ len = 0 /\ offset = 0 /\ direct = "direct"

(***************************************************************************)
(* The peer: it writes whole messages, header in network order, and may    *)
(* shut the connection down.                                               *)
(***************************************************************************)
Send(c, l) ==
    /\ peer[c] = "up"
    /\ End(sent[c]) + l <= MaxBytes
    /\ sent' = [sent EXCEPT ![c] = Append(@, [start |-> End(@), len |-> l])]
    /\ UNCHANGED <<peer, rcvd, mem, order, recvVars, delivered, status, msg, pc, callVars>>

Shutdown(c) ==
    /\ peer[c] = "up"
    /\ peer' = [peer EXCEPT ![c] = "fin"]
    /\ UNCHANGED <<sent, rcvd, mem, order, recvVars, delivered, status, msg, pc, callVars>>

(***************************************************************************)
(* receive_pending_data() followed by the entry of process_buffer(): n     *)
(* bytes arrive, at the end of the pending message for recvfrom(), in a    *)
(* buffer of its own for the zero-copy libraries.                          *)
(***************************************************************************)
\* Mutant: a read over the bytes already pending.
ReadAddrStart(c) == IF Strategy = "InPlace" THEN cur_addr[c] ELSE PACKET

ReadAddr(c) == IF Strategy = "InPlace" THEN cur_addr[c] + cur_offset[c] ELSE PACKET

\* Mutant: a read of max_size bytes whatever is pending.
ReadSizeMax(c) == IF Strategy = "InPlace" THEN MAX_PAYLOAD_SIZE ELSE PacketSize

ReadSize(c) == IF Strategy = "InPlace" THEN cur_size[c] ELSE PacketSize

ReceivePendingData(c, n) ==
    /\ pc = "wait" /\ status[c] = "open"
    /\ n <= Available(c) /\ n <= ReadSize(c)
    /\ rcvd' = [rcvd EXCEPT ![c] = @ + n]
    /\ mem' = [mem EXCEPT ![c] =
                  [a \in Addr |-> IF a >= ReadAddr(c) /\ a < ReadAddr(c) + n
                                  THEN rcvd[c] + (a - ReadAddr(c)) ELSE @[a]]]
    /\ order' = [order EXCEPT ![c] =
                  [a \in Addr |-> IF a >= ReadAddr(c) /\ a < ReadAddr(c) + n
                                  THEN "net" ELSE @[a]]]
    /\ conn' = c /\ buf' = ReadAddr(c) /\ len' = n /\ offset' = 0
    /\ direct' = IF cur_offset[c] = 0 THEN "direct" ELSE "accumulate"
    /\ cur_addr' = IF cur_offset[c] = 0 THEN [cur_addr EXCEPT ![c] = ReadAddr(c)] ELSE cur_addr
    /\ pc' = "loop"
    /\ UNCHANGED <<streamVars, cur_offset, cur_size, delivered, status, msg>>

\* The read returns 0, which it does at the end of the stream and for an
\* empty buffer: RET_SOCKET_SHUTDOWN, and the connection is closed.
ReceiveShutdown(c) ==
    /\ pc = "wait" /\ status[c] = "open"
    /\ ReadSize(c) > 0 => peer[c] = "fin" /\ Available(c) = 0
    /\ status' = [status EXCEPT ![c] = "shutdown"]
    /\ UNCHANGED <<streamVars, rcvd, mem, order, recvVars, delivered, msg, pc, callVars>>

-----------------------------------------------------------------------------
(***************************************************************************)
(* One iteration of the loop of process_buffer(): accumulate_more() when   *)
(* a message is being accumulated, then process_chunk(), one action for    *)
(* each of its outcomes.                                                   *)
(***************************************************************************)
\* Mutant: the bytes missing are taken for the bytes there.
ChunkLenMissing == IF direct = "direct" THEN len ELSE cur_size[conn]

ChunkLen == IF direct = "direct" THEN len ELSE Min2(cur_size[conn], len)

\* accumulate_more(): in place the bytes are where they belong already.
Accumulated(f) ==
    IF direct = "direct" \/ Strategy = "InPlace" THEN f
    ELSE Moved(f, cur_addr[conn] + cur_offset[conn], buf + offset, ChunkLen)

ChunkMem == Accumulated(mem[conn])

\* Mutant: one byte after the header is needed to read it.
HeaderArrivesLate == cur_offset[conn] + ChunkLen > EFFECTIVE_SIZE

HeaderArrives == cur_offset[conn] + ChunkLen >= EFFECTIVE_SIZE

\* Mutant: every chunk after the header converts it again.
ChunkOrderAgain ==
    IF HeaderArrives THEN Swapped(Accumulated(order[conn]), cur_addr[conn])
                     ELSE Accumulated(order[conn])

\* setHeaderToHost() by the chunk that completes the header, and only then.
ChunkOrder ==
    IF HeaderArrives /\ cur_offset[conn] < EFFECTIVE_SIZE
    THEN Swapped(Accumulated(order[conn]), cur_addr[conn])
    ELSE Accumulated(order[conn])

\* m_pMsgReply->getLength() after setBuf(cur_addr).
ChunkLength == LengthAt(ChunkMem, ChunkOrder, conn, cur_addr[conn])

Advance(nprocessed) ==
    /\ mem' = [mem EXCEPT ![conn] = ChunkMem]
    /\ order' = [order EXCEPT ![conn] = ChunkOrder]
    /\ len' = len - nprocessed
    /\ offset' = offset + nprocessed
    /\ UNCHANGED <<streamVars, rcvd, cur_addr, delivered, status, conn, buf, direct>>

InLoop == pc = "loop" /\ len > 0

\* Mutant: cur_size is not adjusted to what the header still needs.
HeaderIncompleteUnadjusted ==
    /\ InLoop /\ ~HeaderArrives
    /\ cur_offset' = [cur_offset EXCEPT ![conn] = @ + ChunkLen]
    /\ cur_size' = [cur_size EXCEPT ![conn] = @ - ChunkLen]
    /\ Advance(ChunkLen)
    /\ UNCHANGED <<msg, pc>>

\* (1) the header is not there yet
HeaderIncomplete ==
    /\ InLoop /\ ~HeaderArrives
    /\ cur_offset' = [cur_offset EXCEPT ![conn] = @ + ChunkLen]
    /\ cur_size' = [cur_size EXCEPT ![conn] =
                       IF @ - ChunkLen < EFFECTIVE_SIZE
                       THEN EFFECTIVE_SIZE - (cur_offset[conn] + ChunkLen)
                       ELSE @ - ChunkLen]
    /\ Advance(ChunkLen)
    /\ UNCHANGED <<msg, pc>>

\* Mutant: m_pMsgReply is left at the message before.
SetBufSkipped == msg' = msg

SetBuf == msg' = [conn |-> conn, addr |-> cur_addr[conn]]

\* (2) the header announces more than ms_maxSize
HeaderInvalid ==
    /\ InLoop /\ HeaderArrives
    /\ SetBuf
    /\ ChunkLength > ms_maxSize
    /\ cur_size' = [cur_size EXCEPT ![conn] = MAX_PAYLOAD_SIZE]
    /\ cur_offset' = [cur_offset EXCEPT ![conn] = 0]
    /\ Advance(ChunkLen)
    /\ pc' = "handle"

\* (3) the message is not complete
MessageIncomplete ==
    /\ InLoop /\ HeaderArrives
    /\ SetBuf
    /\ ChunkLength <= ms_maxSize
    /\ cur_offset[conn] + ChunkLen < ChunkLength
    /\ cur_offset' = [cur_offset EXCEPT ![conn] = @ + ChunkLen]
    /\ cur_size' = [cur_size EXCEPT ![conn] =
                       IF @ - ChunkLen < ms_maxSize
                       THEN ChunkLength - (cur_offset[conn] + ChunkLen)
                       ELSE @ - ChunkLen]
    /\ Advance(ChunkLen)
    /\ UNCHANGED pc

\* (5), (6) the message is complete
MessageComplete ==
    /\ InLoop /\ HeaderArrives
    /\ SetBuf
    /\ ChunkLength <= ms_maxSize
    /\ cur_offset[conn] + ChunkLen >= ChunkLength
    /\ LET nprocessed == ChunkLength - cur_offset[conn]
       IN /\ cur_size' = [cur_size EXCEPT ![conn] =
                             IF ChunkLen - nprocessed # 0 THEN @ - nprocessed
                                                          ELSE MAX_PAYLOAD_SIZE]
          /\ Advance(nprocessed)
    /\ cur_offset' = [cur_offset EXCEPT ![conn] = 0]
    /\ pc' = "handle"

ProcessChunk ==
    \/ HeaderIncomplete
    \/ HeaderInvalid
    \/ MessageIncomplete
    \/ MessageComplete

-----------------------------------------------------------------------------
(***************************************************************************)
(* callback.handle_message() and what process_buffer() does after it.  The *)
(* handler reads the message through m_pMsgReply.                          *)
(***************************************************************************)
Corrupt == [start |-> Unwritten, len |-> 0]

HandlerLength == LengthAt(mem[msg.conn], order[msg.conn], msg.conn, msg.addr)

Intact(m) ==
    /\ msg.conn = conn
    /\ Ordered(order[conn], msg.addr, "host", EFFECTIVE_SIZE)
    /\ Holds(mem[conn], msg.addr, m.start, m.len)

\* The message the handler finds behind m_pMsgReply.
Seen ==
    IF \E k \in DOMAIN sent[conn] : Intact(sent[conn][k])
    THEN sent[conn][CHOOSE k \in DOMAIN sent[conn] : Intact(sent[conn][k])]
    ELSE Corrupt

HandleAccepts ==
    /\ pc = "handle"
    /\ HandlerLength <= ms_maxSize
    /\ delivered' = [delivered EXCEPT ![conn] = Append(@, Seen)]
    /\ buf' = buf + offset
    /\ offset' = 0
    /\ cur_addr' = [cur_addr EXCEPT ![conn] =
                       IF direct = "direct" THEN @ + offset ELSE buf + offset]
    /\ direct' = "direct"
    /\ pc' = "loop"
    /\ UNCHANGED <<streamVars, rcvd, mem, order, cur_offset, cur_size, status, msg, conn, len>>

\* The handler returns false, process_buffer() returns at once and the caller
\* closes the connection: for an invalid header always, else when the program
\* is exiting or the reply meets a closed socket.
HandleRefuses ==
    /\ pc = "handle"
    /\ status' = [status EXCEPT ![conn] =
                     IF HandlerLength > ms_maxSize THEN "invalid" ELSE "stopped"]
    /\ pc' = "wait"
    /\ UNCHANGED <<streamVars, rcvd, mem, order, recvVars, delivered, msg, callVars>>

\* The end of process_buffer(): reset_read_buffer() or start_accumulation().
Started(f) ==
    IF cur_offset[conn] # 0 /\ direct = "direct" /\ Strategy = "Buffer"
    THEN Moved(f, 0, buf, cur_offset[conn]) ELSE f

Return ==
    /\ pc = "loop" /\ len = 0
    /\ mem' = [mem EXCEPT ![conn] = Started(@)]
    /\ order' = [order EXCEPT ![conn] = Started(@)]
    /\ cur_addr' =
          IF \/ cur_offset[conn] = 0 /\ Strategy = "InPlace"
             \/ cur_offset[conn] # 0 /\ direct = "direct" /\ Strategy = "Buffer"
          THEN [cur_addr EXCEPT ![conn] = 0] ELSE cur_addr
    /\ pc' = "wait"
    /\ UNCHANGED <<streamVars, rcvd, cur_offset, cur_size, delivered, status, msg, callVars>>

-----------------------------------------------------------------------------
PeerStep == \E c \in Conns : Shutdown(c) \/ \E l \in Lengths : Send(c, l)

Receive(c) == ReceiveShutdown(c) \/ \E n \in 1 .. MaxBytes : ReceivePendingData(c, n)

Process == ProcessChunk \/ HandleAccepts \/ HandleRefuses \/ Return

Next == PeerStep \/ (\E c \in Conns : Receive(c)) \/ Process

\* The receiving thread keeps running, and its I/O multiplexing visits every
\* connection that has something to read.
Fairness ==
    /\ WF_vars(Process)
    /\ \A c \in Conns : SF_vars(Receive(c))

Spec == Init /\ [][Next]_vars
FairSpec == Spec /\ Fairness

-----------------------------------------------------------------------------
\* The variables have their types; in particular no count of bytes, of which
\* process_buffer() subtracts what it has processed, becomes negative.
TypeOK ==
    /\ sent \in [Conns -> Seq(Message)]
    /\ peer \in [Conns -> {"up", "fin"}]
    /\ rcvd \in [Conns -> Nat]
    /\ mem \in [Conns -> [Addr -> Nat \cup {Unwritten}]]
    /\ order \in [Conns -> [Addr -> {"net", "host"}]]
    /\ cur_addr \in [Conns -> Nat]
    /\ cur_offset \in [Conns -> Nat]
    /\ cur_size \in [Conns -> Int]
    /\ delivered \in [Conns -> Seq(Message)]
    /\ status \in [Conns -> {"open", "shutdown", "invalid", "stopped"}]
    /\ msg \in [conn : Conns, addr : Nat]
    /\ pc \in {"wait", "loop", "handle"}
    /\ conn \in Conns
    /\ buf \in Nat /\ len \in Nat /\ offset \in Nat
    /\ direct \in {"direct", "accumulate"}

\* Nothing is written outside recv_data.buf, which has 2 * MAX_PAYLOAD_SIZE
\* bytes: not by recvfrom(), which may store cur_size bytes at
\* cur_addr + cur_offset, nor by accumulate_more() and start_accumulation().
BufferBound ==
    /\ Strategy = "InPlace" /\ pc = "wait" =>
          \A c \in Conns : status[c] = "open" =>
              cur_addr[c] + cur_offset[c] + cur_size[c] <= BufSize
    /\ Strategy = "Buffer" /\ InLoop /\ direct = "accumulate" =>
          cur_addr[conn] + cur_offset[conn] + ChunkLen <= BufSize
    /\ Strategy = "Buffer" /\ pc = "loop" /\ len = 0 /\ direct = "direct" =>
          cur_offset[conn] <= BufSize

\* The asserts of InPlaceAccumulation: the bytes just read continue the
\* pending message where they are, and a message left pending begins at the
\* current end of the processed bytes.
InPlaceAsserts ==
    Strategy = "InPlace" =>
        /\ InLoop /\ direct = "accumulate" => cur_addr[conn] + cur_offset[conn] = buf + offset
        /\ pc = "loop" /\ len = 0 /\ cur_offset[conn] # 0 /\ direct = "direct" =>
              cur_addr[conn] = buf

\* The handler gets exactly the messages the peer sent: in order, each once,
\* whole, and with the header in host order, however the stream is cut.
InOrderDelivery ==
    \A c \in Conns :
        /\ Len(delivered[c]) <= Len(sent[c])
        /\ \A k \in 1 .. Len(delivered[c]) : delivered[c][k] = sent[c][k]

\* A connection is closed for a reason the peer gave: an invalid header only
\* where the peer sent a message larger than ms_maxSize, a shutdown only when
\* the peer shut the connection down and all it sent was read.
CloseReason ==
    \A c \in Conns :
        /\ status[c] = "invalid" =>
              /\ Len(delivered[c]) < Len(sent[c])
              /\ sent[c][Len(delivered[c]) + 1].len > ms_maxSize
        /\ status[c] = "shutdown" => peer[c] = "fin" /\ rcvd[c] = End(sent[c])

\* The parser implements the abstract message stream.
Stream == INSTANCE MessageStream WITH MaxLen <- ms_maxSize
StreamSpec == Stream!Spec

\* Every complete message reaches the handler unless the connection is closed
\* first: the parser never waits for bytes it does not need.
Delivery ==
    \A c \in Conns, k \in 1 .. MaxBytes :
        Len(sent[c]) >= k ~> (Len(delivered[c]) >= k \/ status[c] # "open")
-----------------------------------------------------------------------------
(***************************************************************************)
(* The inductive invariant behind the proofs (MessageParserProofs).        *)
(***************************************************************************)
\* Where the stream stands for the handler, and the message that comes next.
Base(c) == End(delivered[c])
HasNext(c) == Len(delivered[c]) < Len(sent[c])
NextLen(c) == sent[c][Len(delivered[c]) + 1].len

\* Messages follow one another without gap or overlap.
SentInv ==
    \A c \in Conns :
        /\ \A k \in 1 .. Len(sent[c]) :
              sent[c][k].start = IF k = 1 THEN 0
                                 ELSE sent[c][k - 1].start + sent[c][k - 1].len
        /\ \A j, k \in 1 .. Len(sent[c]) :
              j < k => sent[c][j].start + sent[c][j].len <= sent[c][k].start

\* Where a pending message lies once process_buffer() has returned.
Home(c) == IF Strategy = "Buffer" THEN 0 ELSE cur_addr[c]

\* cur_offset bytes of the next message are in memory at cur_addr.
PendingInv(c) ==
    /\ Holds(mem[c], cur_addr[c], Base(c), cur_offset[c])
    /\ cur_size[c] > 0
    /\ Home(c) < MAX_PAYLOAD_SIZE
    /\ IF cur_offset[c] < EFFECTIVE_SIZE
       THEN /\ Ordered(order[c], cur_addr[c], "net", cur_offset[c])
            /\ \/ cur_size[c] = EFFECTIVE_SIZE - cur_offset[c]
               \/ Home(c) + cur_offset[c] + cur_size[c] <= MAX_PAYLOAD_SIZE
       ELSE /\ Ordered(order[c], cur_addr[c], "host", EFFECTIVE_SIZE)
            /\ HasNext(c)
            /\ NextLen(c) <= ms_maxSize
            /\ cur_offset[c] < NextLen(c)
            /\ cur_size[c] = NextLen(c) - cur_offset[c]

\* A connection whose buffer is not being processed.
IdleInv(c) ==
    /\ rcvd[c] = Base(c) + cur_offset[c]
    /\ rcvd[c] <= End(sent[c])
    /\ cur_offset[c] = 0 =>
          /\ cur_size[c] = MAX_PAYLOAD_SIZE
          /\ Strategy = "InPlace" => cur_addr[c] = 0
    /\ cur_offset[c] > 0 =>
          /\ PendingInv(c)
          /\ Strategy = "Buffer" => cur_addr[c] = 0

\* The bytes of the chunk not processed yet: len bytes at buf + offset, the
\* next ones of the stream after the first n bytes of the next message.
RestInv(n) ==
    /\ rcvd[conn] = Base(conn) + n + len
    /\ rcvd[conn] <= End(sent[conn])
    /\ Holds(mem[conn], buf + offset, Base(conn) + n, len)
    /\ Ordered(order[conn], buf + offset, "net", len)
    /\ Strategy = "Buffer" => buf >= PACKET /\ buf + offset + len <= PACKET + PacketSize
    /\ direct = "direct" => cur_addr[conn] = buf

LoopInv ==
    /\ status[conn] = "open"
    /\ RestInv(cur_offset[conn])
    /\ cur_offset[conn] = 0 =>
          /\ direct = "direct" /\ offset = 0
          /\ cur_size[conn] <= MAX_PAYLOAD_SIZE
          /\ len = 0 => cur_size[conn] = MAX_PAYLOAD_SIZE
          /\ Strategy = "InPlace" /\ len > 0 =>
                buf + cur_size[conn] <= MAX_PAYLOAD_SIZE /\ len <= cur_size[conn]
    /\ cur_offset[conn] > 0 =>
          /\ PendingInv(conn)
          /\ direct = "direct" => len = 0 /\ offset = cur_offset[conn]
          /\ direct = "accumulate" /\ Strategy = "InPlace" =>
                /\ buf + offset = cur_addr[conn] + cur_offset[conn]
                /\ len <= cur_size[conn]
          /\ direct = "accumulate" /\ Strategy = "Buffer" => cur_addr[conn] = 0

HandleInv ==
    /\ status[conn] = "open"
    /\ cur_offset[conn] = 0
    /\ msg = [conn |-> conn, addr |-> cur_addr[conn]]
    /\ HasNext(conn)
    /\ Holds(mem[conn], cur_addr[conn], Base(conn), EFFECTIVE_SIZE)
    /\ Ordered(order[conn], cur_addr[conn], "host", EFFECTIVE_SIZE)
    /\ NextLen(conn) <= ms_maxSize =>
          /\ Holds(mem[conn], cur_addr[conn], Base(conn), NextLen(conn))
          /\ RestInv(NextLen(conn))
          /\ cur_size[conn] <= MAX_PAYLOAD_SIZE
          /\ len = 0 => cur_size[conn] = MAX_PAYLOAD_SIZE
          /\ direct = "direct" => offset = NextLen(conn)
          /\ Strategy = "InPlace" =>
                /\ buf + offset = cur_addr[conn] + NextLen(conn)
                /\ len > 0 => /\ buf + offset + cur_size[conn] <= MAX_PAYLOAD_SIZE
                              /\ len <= cur_size[conn]

\* The inductive invariant: the stream and what was delivered of it are right,
\* idle connections hold what they have received of their next message, and the
\* connection being processed is where process_buffer() should be.
IInv ==
    /\ TypeOK
    /\ SentInv
    /\ InOrderDelivery
    /\ CloseReason
    /\ \A c \in Conns : status[c] = "open" /\ (pc = "wait" \/ c # conn) => IdleInv(c)
    /\ pc = "loop" => LoopInv
    /\ pc = "handle" => HandleInv
=============================================================================
