------------------------ MODULE ServerMessagesProofs ------------------------
(***************************************************************************)
(* Proofs about handle_message(), msg_sendto() and the gap detection, for  *)
(* every setting, size of a reply, buffer and number of messages.          *)
(*                                                                         *)
(* The argument for the drops: execute() goes on to a higher number, and   *)
(* the numbers it leaves out join those that did not come in order         *)
(* (ExecuteGapsInv).  Where the network keeps the order, the message in    *)
(* hand is the oldest one pending (OrderInv) and everything sent after a   *)
(* pending message is pending (SuffixInv); so a number left out is neither *)
(* pending nor passed, which leaves the forgotten pong requests (CoverInv, *)
(* LeftOut).  A warm-up message that starts a new session comes while all  *)
(* the numbers of its client are pending.  For the replies: what the last  *)
(* byte on the wire belongs to decides what may follow it (WireInv).       *)
(***************************************************************************)
EXTENDS ServerMessages, FiniteSetTheorems, SequenceTheorems, TLAPS

-----------------------------------------------------------------------------
(* The inductive invariant. *)

\* Types of the session and of what the specification keeps with it.
GapsOK ==
    /\ session \in [seq_num : Int, total_drops : Nat, started : BOOLEAN]
    /\ first \in Nat /\ inOrder \subseteq Nat

\* The numbers of a session that came in order are those after its first number.
SessionInv ==
    /\ session = None => first = 0 /\ inOrder = {}
    /\ session # None => first <= session.seq_num /\ inOrder \subseteq (first + 1) .. session.seq_num

\* handle_message() is at work.
Busy == pc \in {"handle", "send", "gaps"}

\* The messages the server has not finished with: under way, or in handle_message().
Pending == net \cup (IF Busy THEN {msg} ELSE {})

\* The order the client sent them in.
Before(m, o) == m.run < o.run \/ (m.run = o.run /\ m.seq < o.seq)

\* Pending messages were sent by the starts of the client so far.  One that is answered or
\* reaches the gap detection is no warm-up message, nor one that is forgotten.
SentInv ==
    /\ run = 0 => last = MaxSeq
    /\ \A m \in Pending : m.run \in 1 .. run /\ (m.run = run => m.seq <= last)
    /\ pc \in {"send", "gaps"} => msg.seq > 0 /\ (Pong(msg.seq) => ~dont_reply)
    /\ pc = "send" => Pong(msg.seq)
    /\ Stream => run <= 1
    /\ Busy => open

\* A network that keeps the order hands over the oldest message.
Ordered == Network # "datagram"

\* Then the message in hand is older than every one under way.
OrderInv == Ordered /\ Busy => \A o \in net : Before(msg, o)

\* If it also loses nothing, everything sent after a pending message is pending.
SuffixInv ==
    Ordered /\ ~lost => \A w \in Pending :
        /\ \A m \in Pending : \A s \in 1 .. m.seq :
             ~Before(Packet(m.run, s), w) => Packet(m.run, s) \in Pending
        /\ \A s \in 1 .. last : ~Before(Packet(run, s), w) => Packet(run, s) \in Pending

\* The server has not stopped.
Alive == open /\ (~g_b_exit \/ pc \in {"send", "gaps"})

\* What a client has sent is pending, or the session has passed it, or it is a pong
\* request that is forgotten: number s of start r is accounted for.
Covered(r, s) == Packet(r, s) \in Pending \/ s <= session.seq_num \/ (dont_reply /\ Pong(s))

\* It is, for what the present client has sent and all that came before a pending message.
CoverInv ==
    Ordered /\ ~lost /\ Alive =>
        /\ \A m \in Pending : \A s \in 1 .. m.seq : Covered(m.run, s)
        /\ run > 0 => \A s \in 1 .. last : Covered(run, s)

\* The last byte sent over the stream.
LastByte == wire[Len(wire)]

\* It is of the reply in hand, or ends a reply; once a reply was cut nothing is sent again.
WireInv ==
    /\ pc = "send" => nbytes > 0
    /\ ~Stream \/ run = 0 => wire = <<>>
    /\ pc = "send" /\ nbytes < MessageBytes /\ Stream =>
         wire # <<>> /\ LastByte.of = msg /\ LastByte.at = MessageBytes - nbytes
    /\ pc = "send" /\ nbytes = MessageBytes /\ wire # <<>> =>
         LastByte.at = MessageBytes /\ LastByte.of.seq < msg.seq
    /\ wire # <<>> => \A m \in net : LastByte.of.seq < m.seq
    /\ wire # <<>> => LastByte.of.seq <= last
    /\ wire # <<>> /\ pc = "handle" => LastByte.of.seq < msg.seq
    /\ wire # <<>> /\ open /\ ~g_b_exit /\ pc # "send" => LastByte.at = MessageBytes

\* The inductive invariant.
IInv == /\ TypeOK /\ GapsOK /\ SessionInv /\ DropsCounted /\ SentInv /\ OrderInv /\ SuffixInv
        /\ CoverInv /\ NoFalseGap /\ WireInv /\ ReplyStream

-----------------------------------------------------------------------------
(* Settings and types. *)

\* A setting is one the program can have.
LEMMA SettingFacts ==
    ASSUME s_user_params \in Settings
    PROVE  /\ Network \in {"stream", "ordered", "datagram"} /\ Multicast \in BOOLEAN
           /\ Multicast => ~Stream
           /\ dont_reply \in BOOLEAN /\ nonblocked \in BOOLEAN
           /\ MaxRestarts \in Nat /\ (Stream => MaxRestarts = 0)
  BY MessagesAssumption DEF Network, Multicast, Stream, dont_reply, nonblocked, MaxRestarts

\* What a setting says stays as it is while the setting does.
LEMMA SettingKept ==
    ASSUME s_user_params' = s_user_params
    PROVE  /\ Network' = Network /\ Stream' = Stream /\ dont_reply' = dont_reply
           /\ Ordered' = Ordered /\ \A s : Pong(s)' = Pong(s)
  BY DEF Network, Stream, dont_reply, Ordered, Pong

\* No step changes the setting.
LEMMA SettingStep ==
    ASSUME Next
    PROVE  s_user_params' = s_user_params
  BY DEF Next, Handle, client, Start, ClientSend, ClientClose, ClientReads, Interrupt, Lose,
     Receive,
     PeerClosed, Refuse, HandleWarmup, DontReply, HandleRequest, ExecuteGaps, SendSome, SendSkipped,
     SendShutdown, SendInterrupted, SendError

\* Every step keeps the types.
LEMMA TypeStep ==
    ASSUME TypeOK, SentInv, Next
    PROVE  TypeOK'
  <1>0. s_user_params' = s_user_params
    BY SettingStep
  <1>a. /\ MessageBytes \in Nat \ {0} /\ Room \in Nat \ {0} /\ MaxSeq \in Nat
        /\ NoMessage \in [run : Nat, seq : Int]
    BY MessagesAssumption DEF NoMessage, Packet
  <1> DEFINE Byte == [of : [run : Nat, seq : Int], at : 1 .. MessageBytes]
  <1>1. CASE Start
    <2>1. run' \in Nat /\ last' \in 0 .. MaxSeq
      BY <1>a, <1>1 DEF Start, TypeOK
    <2>2. net' \subseteq [run : Nat, seq : Int]
      BY <2>1, <1>1 DEF Start, TypeOK, Packet
    <2>3. QED BY <1>0, <2>1, <2>2, <1>1 DEF Start, TypeOK
  <1>2. CASE ClientSend
    <2>1. last' \in 0 .. MaxSeq
      BY <1>a, <1>2 DEF ClientSend, TypeOK
    <2>2. net' \subseteq [run : Nat, seq : Int]
      BY <2>1, <1>2 DEF ClientSend, TypeOK, Packet
    <2>3. QED BY <1>0, <2>1, <2>2, <1>2 DEF ClientSend, TypeOK
  <1>3. CASE ClientClose
    BY <1>0, <1>a, <1>3 DEF ClientClose, TypeOK, client, network
  <1>4. CASE ClientReads
    BY <1>0, <1>a, <1>4 DEF ClientReads, TypeOK, client, network
  <1>5. CASE Interrupt
    BY <1>0, <1>a, <1>5 DEF Interrupt, TypeOK, client, network
  <1>6. ASSUME NEW m \in net, Lose(m)
        PROVE  TypeOK'
    BY <1>0, <1>a, <1>6 DEF Lose, TypeOK, client, network
  <1>7. ASSUME NEW m \in net, Receive(m)
        PROVE  TypeOK'
    BY <1>0, <1>a, <1>7 DEF Receive, TypeOK, client, network
  <1>8. CASE PeerClosed
    BY <1>0, <1>a, <1>8 DEF PeerClosed, TypeOK, client, network
  <1>9. CASE Refuse
    BY <1>0, <1>a, <1>9 DEF Refuse, Return, TypeOK, client, network
  <1>10. CASE HandleWarmup
    BY <1>0, <1>a, <1>10 DEF HandleWarmup, Return, TypeOK, client, network
  <1>11. CASE DontReply
    BY <1>0, <1>a, <1>11 DEF DontReply, Return, TypeOK, client, network
  <1>12. CASE HandleRequest
    BY <1>0, <1>a, <1>12 DEF HandleRequest, TypeOK, client, network
  <1>13. CASE ExecuteGaps
    BY <1>0, <1>a, <1>13 DEF ExecuteGaps, Return, TypeOK, client, network
  <1>14. ASSUME NEW n \in 1 .. MessageBytes, SendSome(n)
        PROVE  TypeOK'
    <2>1. nbytes \in 1 .. MessageBytes /\ n <= nbytes /\ n \in Nat /\ n > 0
      BY <1>a, <1>14 DEF SendSome, TypeOK
    <2>2. nbytes' \in 0 .. MessageBytes
      BY <1>a, <2>1, <1>14 DEF SendSome
    <2> DEFINE part == [k \in 1 .. n |-> [of |-> msg, at |-> MessageBytes - nbytes + k]]
    <2>3. part \in Seq(Byte)
      <3>1. \A k \in 1 .. n : [of |-> msg, at |-> MessageBytes - nbytes + k] \in Byte
        BY <1>a, <2>1 DEF TypeOK
      <3> HIDE DEF Byte
      <3>2. part \in [1 .. n -> Byte]
        BY <3>1
      <3>3. QED BY <2>1, <3>2
    <2>4. wire' \in Seq(Byte) /\ room' \in 0 .. Room
      <3>1. CASE Stream
        <4>1. wire' = wire \o part /\ room' = room - n /\ n <= room
          BY <3>1, <1>14 DEF SendSome
        <4>2. wire \in Seq(Byte)
          BY DEF TypeOK
        <4> HIDE DEF part, Byte
        <4>3. wire \o part \in Seq(Byte)
          BY <2>3, <4>2
        <4>4. QED BY <1>a, <2>1, <4>1, <4>3 DEF TypeOK
      <3>2. CASE ~Stream
        BY <3>2, <1>14 DEF SendSome, TypeOK
      <3>3. QED BY <3>1, <3>2
    <2>5. QED BY <1>0, <2>2, <2>4, <1>14 DEF SendSome, TypeOK, client, network
  <1>15. CASE SendSkipped
    BY <1>0, <1>a, <1>15 DEF SendSkipped, TypeOK, client, network
  <1>16. CASE SendShutdown
    <2>1. open' \in BOOLEAN /\ pc' = "idle" /\ msg' = NoMessage /\ nbytes' = 0
      BY <1>16 DEF SendShutdown, Return
    <2>2. UNCHANGED <<client, hup, network, wire, room, g_b_exit>>
      BY <1>16 DEF SendShutdown
    <2>3. QED BY <1>0, <1>a, <2>1, <2>2 DEF TypeOK, client, network
  <1>17. CASE SendInterrupted
    BY <1>0, <1>a, <1>17 DEF SendInterrupted, TypeOK, client, network
  <1>18. CASE SendError
    BY <1>0, <1>a, <1>18 DEF SendError, TypeOK, client, network
  <1>19. QED
    BY <1>1, <1>2, <1>3, <1>4, <1>5, <1>6, <1>7, <1>8, <1>9, <1>10, <1>11, <1>12, <1>13,
       <1>14, <1>15, <1>16, <1>17, <1>18 DEF Next, Handle

-----------------------------------------------------------------------------
(* The session of an address. *)

\* Session, count and numbers in order, by a step of the gap detection.
GapsInv == GapsOK /\ SessionInv /\ DropsCounted

\* A warm-up message keeps it.
LEMMA WarmupGaps ==
    ASSUME GapsInv, ExecuteWarmup
    PROVE  GapsInv'
  <1>1. CASE NewSession(TRUE)
    <2>1. session' = [seq_num |-> 0, total_drops |-> 0, started |-> FALSE] /\ first' = 0 /\ inOrder' = {}
      BY <1>1 DEF ExecuteWarmup, Session
    <2>2. ((first' + 1) .. session'.seq_num) \ inOrder' = {}
      BY <2>1
    <2>3. Cardinality(((first' + 1) .. session'.seq_num) \ inOrder') = 0
      BY <2>2, FS_EmptySet
    <2>4. DropsCounted'
      BY <2>1, <2>3 DEF DropsCounted
    <2>5. QED BY <2>1, <2>4 DEF GapsInv, GapsOK, SessionInv, None
  <1>2. CASE ~NewSession(TRUE)
    BY <1>2 DEF ExecuteWarmup, Session, GapsInv, GapsOK, SessionInv, DropsCounted
  <1>3. QED BY <1>1, <1>2

\* What execute() does: nothing but mark the session, start it, or go on to a higher number.
LEMMA ExecuteIs ==
    ASSUME GapsOK, NEW q \in Nat, q > 0, Execute(q)
    PROVE  /\ session = None =>
                /\ session' = [seq_num |-> q, total_drops |-> 0, started |-> TRUE]
                /\ first' = q /\ inOrder' = inOrder
           /\ session # None /\ q <= session.seq_num =>
                /\ session' = [seq_num |-> session.seq_num, started |-> TRUE,
                               total_drops |-> session.total_drops]
                /\ first' = first /\ inOrder' = inOrder
           /\ session # None /\ q > session.seq_num =>
                /\ session' = [seq_num |-> q, started |-> TRUE,
                               total_drops |-> session.total_drops + (q - (session.seq_num + 1))]
                /\ first' = first /\ inOrder' = inOrder \cup {q}
  <1>1. session.seq_num \in Int /\ session.total_drops \in Nat
    BY DEF GapsOK
  <1>2. CASE session = None
    <2>1. Session(q, FALSE) = [seq_num |-> q, total_drops |-> 0, started |-> FALSE]
      BY <1>2 DEF Session, NewSession
    <2>2. q < q + 1 /\ ~(q > q + 1) /\ ~(q > q) /\ 0 + 0 = 0
      OBVIOUS
    <2>3. CheckGaps([seq_num |-> q, total_drops |-> 0, started |-> FALSE], q)
            = [seq_num |-> q, total_drops |-> 0, started |-> TRUE]
      BY <2>2 DEF CheckGaps
    <2>4. session' = [seq_num |-> q, total_drops |-> 0, started |-> TRUE]
      BY <2>1, <2>3 DEF Execute
    <2>5. first' = q
      BY <1>2 DEF Execute, NewSession
    <2>6. inOrder' = inOrder
      <3>1. Session(q, FALSE).seq_num = q
        BY <1>2 DEF Session, NewSession
      <3>2. ~(q > Session(q, FALSE).seq_num)
        BY <2>2, <3>1
      <3>3. QED BY <3>2 DEF Execute
    <2>7. QED BY <1>2, <2>4, <2>5, <2>6
  <1>3. CASE session # None
    <2>1. Session(q, FALSE) = session /\ ~NewSession(FALSE)
      BY <1>3 DEF Session, NewSession
    <2>2. session' = CheckGaps(session, q) /\ first' = first
          /\ inOrder' = IF q > session.seq_num THEN inOrder \cup {q} ELSE inOrder
      BY <2>1 DEF Execute
    <2>3. CASE q <= session.seq_num
      <3>1. q < session.seq_num + 1 /\ ~(q > session.seq_num + 1)
        BY <1>1, <2>3
      <3>2. CheckGaps(session, q) = [seq_num |-> session.seq_num, started |-> TRUE,
                                     total_drops |-> session.total_drops + 0]
        BY <3>1 DEF CheckGaps
      <3>3. CheckGaps(session, q) = [seq_num |-> session.seq_num, started |-> TRUE,
                                     total_drops |-> session.total_drops]
        <4>1. session.total_drops + 0 = session.total_drops
          BY <1>1
        <4>2. QED BY <3>2, <4>1
      <3>4. QED BY <1>1, <1>3, <2>2, <2>3, <3>3
    <2>4. CASE q > session.seq_num
      <3>1. ~(q < session.seq_num + 1) /\ (~(q > session.seq_num + 1) => q - (session.seq_num + 1) = 0)
        BY <1>1, <2>4
      <3>2. CheckGaps(session, q) = [seq_num |-> q, started |-> TRUE,
               total_drops |-> session.total_drops + (q - (session.seq_num + 1))]
        BY <3>1 DEF CheckGaps
      <3>3. QED BY <1>1, <1>3, <2>2, <2>4, <3>2
    <2>5. QED BY <1>1, <1>3, <2>3, <2>4
  <1>4. QED BY <1>2, <1>3

\* Any other message keeps it: the numbers left out join those that did not come in order.
LEMMA ExecuteGapsInv ==
    ASSUME GapsInv, NEW q \in Nat, q > 0, Execute(q)
    PROVE  GapsInv'
  <1>0. GapsOK /\ SessionInv /\ DropsCounted
    BY DEF GapsInv
  <1>1. CASE session = None
    <2>1. /\ session' = [seq_num |-> q, total_drops |-> 0, started |-> TRUE]
          /\ first' = q /\ inOrder' = {}
      BY <1>0, <1>1, ExecuteIs DEF SessionInv
    <2>2. ((first' + 1) .. session'.seq_num) \ inOrder' = {}
      BY <2>1
    <2>3. Cardinality(((first' + 1) .. session'.seq_num) \ inOrder') = 0
      BY <2>2, FS_EmptySet
    <2>4. DropsCounted'
      BY <2>1, <2>3 DEF DropsCounted
    <2>5. GapsOK'
      BY <2>1 DEF GapsOK
    <2>6. session'.seq_num # -1
      BY <2>1
    <2>7. SessionInv'
      BY <2>1, <2>6 DEF SessionInv, None
    <2>8. QED BY <2>4, <2>5, <2>7 DEF GapsInv
  <1>2. CASE session # None /\ q <= session.seq_num
    <2>1. /\ session' = [seq_num |-> session.seq_num, started |-> TRUE,
                         total_drops |-> session.total_drops]
          /\ first' = first /\ inOrder' = inOrder
      BY <1>0, <1>2, ExecuteIs
    <2>2. /\ session'.seq_num = session.seq_num /\ session'.total_drops = session.total_drops
          /\ session' \in [seq_num : Int, total_drops : Nat, started : BOOLEAN]
      BY <1>0, <2>1 DEF GapsOK
    <2>3. DropsCounted'
      BY <1>0, <1>2, <2>1, <2>2 DEF DropsCounted
    <2>4. SessionInv'
      BY <1>0, <1>2, <2>1, <2>2 DEF SessionInv, GapsOK, None
    <2>5. QED BY <1>0, <2>1, <2>2, <2>3, <2>4 DEF GapsInv, GapsOK
  <1>3. CASE session # None /\ q > session.seq_num
    <2> DEFINE p == session.seq_num
    <2>1. /\ session' = [seq_num |-> q, started |-> TRUE,
                         total_drops |-> session.total_drops + (q - (p + 1))]
          /\ first' = first /\ inOrder' = inOrder \cup {q}
      BY <1>0, <1>3, ExecuteIs
    <2>2. /\ p \in Nat /\ first \in Nat /\ first <= p /\ inOrder \subseteq (first + 1) .. p /\ p < q
          /\ session.total_drops \in Nat /\ inOrder \subseteq Nat
      BY <1>0, <1>3 DEF SessionInv, GapsOK
    <2>3. session.total_drops = Cardinality(((first + 1) .. p) \ inOrder)
      BY <1>0, <1>3 DEF DropsCounted
    <2>4. GapsOK' /\ SessionInv'
      <3>1. session.total_drops + (q - (p + 1)) \in Nat
        BY <2>2
      <3>2. GapsOK'
        BY <2>1, <2>2, <3>1 DEF GapsOK
      <3>3. SessionInv'
        <4>1. session'.seq_num = q /\ q # -1
          BY <2>1
        <4>2. inOrder \cup {q} \subseteq (first + 1) .. q /\ first <= q
          BY <2>2
        <4>3. QED BY <2>1, <4>1, <4>2 DEF SessionInv, None
      <3>4. QED BY <3>2, <3>3
    <2> HIDE DEF p
    <2> DEFINE A == ((first + 1) .. p) \ inOrder
               B == (p + 1) .. (q - 1)
    <2>5. ((first + 1) .. q) \ (inOrder \cup {q}) = A \cup B
      BY <2>2
    <2>6. A \cap B = {}
      BY <2>2
    <2>7. IsFiniteSet(A) /\ Cardinality(A) \in Nat
      <3>1. IsFiniteSet((first + 1) .. p)
        BY <2>2, FS_Interval
      <3>2. IsFiniteSet(A)
        BY <3>1, FS_Subset
      <3>3. QED BY <3>2, FS_CardinalityType
    <2>8. IsFiniteSet(B) /\ Cardinality(B) = q - (p + 1)
      <3>1. IsFiniteSet(B)
            /\ Cardinality(B) = IF p + 1 > q - 1 THEN 0 ELSE (q - 1) - (p + 1) + 1
        <4>1. p + 1 \in Int /\ q - 1 \in Int
          BY <2>2
        <4>2. QED BY <4>1, FS_Interval
      <3> HIDE DEF B
      <3>2. QED BY <2>2, <3>1
    <2> HIDE DEF A, B
    <2>9. Cardinality(A \cup B) = Cardinality(A) + Cardinality(B)
      <3>1. Cardinality(A \cup B) = Cardinality(A) + Cardinality(B) - Cardinality(A \cap B)
        BY <2>7, <2>8, FS_Union
      <3>2. Cardinality(A \cap B) = 0
        BY <2>6, FS_EmptySet
      <3>3. Cardinality(B) \in Nat
        BY <2>8, FS_CardinalityType
      <3>4. QED BY <2>7, <3>1, <3>2, <3>3
    <2>10. DropsCounted'
      <3>1. session'.total_drops = Cardinality(A \cup B)
        BY <2>1, <2>3, <2>8, <2>9 DEF A
      <3>2. first' = first /\ session'.seq_num = q /\ inOrder' = inOrder \cup {q}
        BY <2>1
      <3>3. QED BY <2>5, <3>1, <3>2 DEF DropsCounted
    <2>11. QED BY <2>4, <2>10 DEF GapsInv
  <1>4. QED
    <2>1. session.seq_num \in Int
      BY <1>0 DEF GapsOK
    <2>2. QED BY <1>1, <1>2, <1>3, <2>1

\* Every step keeps the account of the session.
LEMMA GapsStep ==
    ASSUME TypeOK, SentInv, GapsInv, Next
    PROVE  GapsInv'
  <1>a. ASSUME UNCHANGED gaps PROVE GapsInv'
    BY <1>a DEF gaps, GapsInv, GapsOK, SessionInv, DropsCounted
  <1>1. CASE Start
    BY <1>a, <1>1 DEF Start
  <1>2. CASE ClientSend
    BY <1>a, <1>2 DEF ClientSend
  <1>3. CASE ClientClose
    BY <1>a, <1>3 DEF ClientClose
  <1>4. CASE ClientReads
    BY <1>a, <1>4 DEF ClientReads
  <1>5. CASE Interrupt
    BY <1>a, <1>5 DEF Interrupt
  <1>6. ASSUME NEW m \in net, Lose(m)
        PROVE  GapsInv'
    BY <1>a, <1>6 DEF Lose
  <1>7. ASSUME NEW m \in net, Receive(m)
        PROVE  GapsInv'
    BY <1>a, <1>7 DEF Receive
  <1>8. CASE PeerClosed
    BY <1>a, <1>8 DEF PeerClosed
  <1>9. CASE Refuse
    BY <1>a, <1>9 DEF Refuse
  <1>10. CASE HandleWarmup
    BY <1>10, WarmupGaps DEF HandleWarmup
  <1>11. CASE DontReply
    BY <1>a, <1>11 DEF DontReply
  <1>12. CASE HandleRequest
    BY <1>a, <1>12 DEF HandleRequest
  <1>13. CASE ExecuteGaps
    <2>1. msg.seq \in Nat /\ msg.seq > 0
      BY <1>13 DEF ExecuteGaps, SentInv, TypeOK
    <2>2. QED BY <2>1, <1>13, ExecuteGapsInv DEF ExecuteGaps
  <1>14. ASSUME NEW n \in 1 .. MessageBytes, SendSome(n)
        PROVE  GapsInv'
    BY <1>a, <1>14 DEF SendSome
  <1>15. CASE SendSkipped
    BY <1>a, <1>15 DEF SendSkipped
  <1>16. CASE SendShutdown
    BY <1>a, <1>16 DEF SendShutdown
  <1>17. CASE SendInterrupted
    BY <1>a, <1>17 DEF SendInterrupted
  <1>18. CASE SendError
    BY <1>a, <1>18 DEF SendError
  <1>19. QED
    BY <1>1, <1>2, <1>3, <1>4, <1>5, <1>6, <1>7, <1>8, <1>9, <1>10, <1>11, <1>12, <1>13,
       <1>14, <1>15, <1>16, <1>17, <1>18 DEF Next, Handle

-----------------------------------------------------------------------------
(* What is pending. *)

\* A step goes on with the message in hand, or ends with it, or is one of four.
Quiet == net' = net /\ run' = run /\ last' = last /\ lost' = lost
\* handle_message() keeps its message.
Continues == Quiet /\ (Busy' <=> Busy) /\ (Busy => msg' = msg)
\* handle_message() ends.
Finishes == Quiet /\ Busy /\ ~Busy'

\* Every step is of one of these kinds.
LEMMA Kinds ==
    ASSUME TypeOK, Next
    PROVE  \/ Start \/ ClientSend \/ (\E m \in net : Lose(m) \/ Receive(m))
           \/ Continues \/ Finishes
  <1> DEFINE Goal == \/ Start \/ ClientSend \/ (\E m \in net : Lose(m) \/ Receive(m))
                     \/ Continues \/ Finishes
  <1> SUFFICES Goal
    OBVIOUS
  <1>1. CASE Start
    BY <1>1
  <1>2. CASE ClientSend
    BY <1>2
  <1>3. CASE ClientClose
    <2>1. Continues
      BY <1>3 DEF ClientClose, Continues, Finishes, Quiet, Busy, client, network
    <2>2. QED BY <2>1
  <1>4. CASE ClientReads
    <2>1. Continues
      BY <1>4 DEF ClientReads, Continues, Finishes, Quiet, Busy, client, network
    <2>2. QED BY <2>1
  <1>5. CASE Interrupt
    <2>1. Continues
      BY <1>5 DEF Interrupt, Continues, Finishes, Quiet, Busy, client, network
    <2>2. QED BY <2>1
  <1>6. ASSUME NEW m \in net, Lose(m)
        PROVE  Goal
    BY <1>6
  <1>7. ASSUME NEW m \in net, Receive(m)
        PROVE  Goal
    BY <1>7
  <1>8. CASE PeerClosed
    <2>1. Continues
      BY <1>8 DEF PeerClosed, Continues, Finishes, Quiet, Busy, client, network
    <2>2. QED BY <2>1
  <1>9. CASE Refuse
    <2>1. Finishes
      BY <1>9 DEF Refuse, Return, Continues, Finishes, Quiet, Busy, client, network
    <2>2. QED BY <2>1
  <1>10. CASE HandleWarmup
    <2>1. Finishes
      BY <1>10 DEF HandleWarmup, Return, Continues, Finishes, Quiet, Busy, client, network
    <2>2. QED BY <2>1
  <1>11. CASE DontReply
    <2>1. Finishes
      BY <1>11 DEF DontReply, Return, Continues, Finishes, Quiet, Busy, client, network
    <2>2. QED BY <2>1
  <1>12. CASE HandleRequest
    <2>1. Continues
      BY <1>12 DEF HandleRequest, Continues, Finishes, Quiet, Busy, client, network
    <2>2. QED BY <2>1
  <1>13. CASE ExecuteGaps
    <2>1. Finishes
      BY <1>13 DEF ExecuteGaps, Return, Continues, Finishes, Quiet, Busy, client, network
    <2>2. QED BY <2>1
  <1>14. ASSUME NEW n \in 1 .. MessageBytes, SendSome(n)
        PROVE  Goal
    <2>1. Continues
      BY <1>14 DEF SendSome, Continues, Finishes, Quiet, Busy, client, network
    <2>2. QED BY <2>1
  <1>15. CASE SendSkipped
    <2>1. Continues
      BY <1>15 DEF SendSkipped, Continues, Finishes, Quiet, Busy, client, network
    <2>2. QED BY <2>1
  <1>16. CASE SendShutdown
    <2>1. Finishes
      BY <1>16 DEF SendShutdown, Return, Continues, Finishes, Quiet, Busy, client, network
    <2>2. QED BY <2>1
  <1>17. CASE SendInterrupted
    <2>1. Continues
      BY <1>17 DEF SendInterrupted, Continues, Finishes, Quiet, Busy, client, network
    <2>2. QED BY <2>1
  <1>18. CASE SendError
    <2>1. CASE g_b_exit
      BY <2>1, <1>18 DEF SendError, Continues, Finishes, Quiet, Busy, client, network
    <2>2. CASE ~g_b_exit
      BY <2>2, <1>18 DEF SendError, Continues, Finishes, Quiet, Busy, client, network
    <2>3. QED BY <2>1, <2>2
  <1>19. QED
    BY <1>1, <1>2, <1>3, <1>4, <1>5, <1>6, <1>7, <1>8, <1>9, <1>10, <1>11, <1>12, <1>13,
       <1>14, <1>15, <1>16, <1>17, <1>18 DEF Next, Handle

\* What that means for the pending messages.
LEMMA PendingIs ==
    /\ Continues => Pending' = Pending
    /\ Finishes => Pending' = net /\ Pending = net \cup {msg}
    /\ \A m \in net : Receive(m) => Pending = net /\ Pending' = net /\ Busy' /\ msg' = m
    /\ Start => Pending' = Pending \cup (IF Multicast THEN {Packet(run', -1), Packet(run', 0)} ELSE {})
    /\ ClientSend => Pending' = Pending \cup {Packet(run, last + 1)}
    /\ \A m \in net : Lose(m) => Pending' \subseteq Pending
  <1>1. Continues => Pending' = Pending
    BY DEF Continues, Quiet, Pending
  <1>2. Finishes => Pending' = net /\ Pending = net \cup {msg}
    BY DEF Finishes, Quiet, Pending
  <1>3. ASSUME NEW m \in net, Receive(m)
        PROVE  Pending = net /\ Pending' = net /\ Busy' /\ msg' = m
    <2>1. pc = "idle" /\ pc' = "handle" /\ msg' = m /\ (net' = net \/ net' = net \ {m})
      BY <1>3 DEF Receive
    <2>2. Pending = net
      BY <2>1 DEF Pending, Busy
    <2>3. Pending' = net' \cup {m}
      BY <2>1 DEF Pending, Busy
    <2>4. QED BY <2>1, <2>2, <2>3 DEF Busy
  <1>4. Start => Pending' = Pending \cup (IF Multicast THEN {Packet(run', -1), Packet(run', 0)} ELSE {})
    BY DEF Start, Pending, Busy
  <1>5. ClientSend => Pending' = Pending \cup {Packet(run, last + 1)}
    BY DEF ClientSend, Pending, Busy
  <1>6. \A m \in net : Lose(m) => Pending' \subseteq Pending
    BY DEF Lose, Pending, Busy
  <1>7. QED BY <1>1, <1>2, <1>3, <1>4, <1>5, <1>6

\* Pending messages have a start and a number.
LEMMA PendingType ==
    ASSUME TypeOK
    PROVE  /\ Pending \subseteq [run : Nat, seq : Int]
           /\ \A m \in Pending : m.run \in Nat /\ m.seq \in Int /\ m = Packet(m.run, m.seq)
  <1>1. Pending \subseteq [run : Nat, seq : Int]
    BY DEF TypeOK, Pending
  <1>2. \A m \in [run : Nat, seq : Int] : m.run \in Nat /\ m.seq \in Int /\ m = Packet(m.run, m.seq)
    BY DEF Packet
  <1>3. QED BY <1>1, <1>2

\* Who sent what is pending.
SendersOK == /\ run = 0 => last = MaxSeq
             /\ \A m \in Pending : m.run \in 1 .. run /\ (m.run = run => m.seq <= last)

\* Every step keeps that.
LEMMA SendersStep ==
    ASSUME TypeOK, SendersOK, Next
    PROVE  SendersOK'
  <1>0. /\ run \in Nat /\ last \in Nat /\ last <= MaxSeq /\ MaxSeq \in Nat
        /\ \A m \in Pending : m.run \in Nat /\ m.seq \in Int
    BY PendingType, MessagesAssumption DEF TypeOK
  <1>1. CASE Start
    <2>1. run' = run + 1 /\ last' = 0
      BY <1>1 DEF Start
    <2>2. ASSUME NEW m \in Pending' PROVE m.run \in 1 .. run' /\ (m.run = run' => m.seq <= last')
      <3>1. m \in Pending \/ m = Packet(run', -1) \/ m = Packet(run', 0)
        BY <1>1, PendingIs
      <3>2. CASE m \in Pending
        BY <1>0, <2>1, <3>2 DEF SendersOK
      <3>3. CASE m = Packet(run', -1) \/ m = Packet(run', 0)
        BY <1>0, <2>1, <3>3 DEF Packet
      <3>4. QED BY <3>1, <3>2, <3>3
    <2>3. QED BY <1>0, <2>1, <2>2 DEF SendersOK
  <1>2. CASE ClientSend
    <2>1. run' = run /\ last' = last + 1 /\ last < MaxSeq
      BY <1>2 DEF ClientSend
    <2>2. run # 0
      BY <1>0, <2>1 DEF SendersOK
    <2>3. ASSUME NEW m \in Pending' PROVE m.run \in 1 .. run' /\ (m.run = run' => m.seq <= last')
      <3>1. m \in Pending \/ m = Packet(run, last + 1)
        BY <1>2, PendingIs
      <3>2. CASE m \in Pending
        BY <1>0, <2>1, <3>2 DEF SendersOK
      <3>3. CASE m = Packet(run, last + 1)
        BY <1>0, <2>1, <2>2, <3>3 DEF Packet
      <3>4. QED BY <3>1, <3>2, <3>3
    <2>4. QED BY <1>0, <2>1, <2>2, <2>3 DEF SendersOK
  <1>3. ASSUME run' = run, last' = last, Pending' \subseteq Pending PROVE SendersOK'
    BY <1>3 DEF SendersOK
  <1>4. ASSUME NEW m \in net, Lose(m) PROVE SendersOK'
    <2>1. run' = run /\ last' = last
      BY <1>4 DEF Lose, client
    <2>2. QED BY <1>3, <1>4, <2>1, PendingIs
  <1>5. ASSUME NEW m \in net, Receive(m) PROVE SendersOK'
    <2>1. run' = run /\ last' = last
      BY <1>5 DEF Receive, client
    <2>2. QED BY <1>3, <1>5, <2>1, PendingIs
  <1>6. CASE Continues
    <2>1. run' = run /\ last' = last
      BY <1>6 DEF Continues, Quiet
    <2>2. QED BY <1>3, <1>6, <2>1, PendingIs
  <1>7. CASE Finishes
    <2>1. run' = run /\ last' = last
      BY <1>7 DEF Finishes, Quiet
    <2>2. QED BY <1>3, <1>7, <2>1, PendingIs
  <1>8. QED BY Kinds, <1>1, <1>2, <1>4, <1>5, <1>6, <1>7

\* The message in hand.
HandOK ==
    /\ pc \in {"send", "gaps"} => msg.seq > 0 /\ (Pong(msg.seq) => ~dont_reply)
    /\ pc = "send" => Pong(msg.seq)
    /\ Stream => run <= 1
    /\ Busy => open

\* Every step keeps that.
LEMMA HandStep ==
    ASSUME TypeOK, HandOK, Next
    PROVE  HandOK'
  <1>0. /\ s_user_params' = s_user_params /\ Stream' = Stream /\ dont_reply' = dont_reply
        /\ \A s : Pong(s)' = Pong(s)
    BY SettingStep, SettingKept
  <1>a. /\ run \in Nat /\ msg.seq \in Int /\ msg.run \in Nat /\ open \in BOOLEAN
        /\ (Stream => MaxRestarts = 0) /\ MaxRestarts \in Nat
    BY SettingFacts DEF TypeOK
  <1>p. \A s : s = msg.seq /\ msg' = msg => (Pong(msg.seq)' <=> Pong(msg.seq))
    BY <1>0 DEF Pong
  <1>1. CASE Start
    BY <1>0, <1>a, <1>p, <1>1 DEF Start, HandOK, Busy, client, Warmup
  <1>2. CASE ClientSend
    BY <1>0, <1>a, <1>p, <1>2 DEF ClientSend, HandOK, Busy, client, Warmup
  <1>3. CASE ClientClose
    BY <1>0, <1>a, <1>p, <1>3 DEF ClientClose, HandOK, Busy, client, Warmup
  <1>4. CASE ClientReads
    BY <1>0, <1>a, <1>p, <1>4 DEF ClientReads, HandOK, Busy, client, Warmup
  <1>5. CASE Interrupt
    BY <1>0, <1>a, <1>p, <1>5 DEF Interrupt, HandOK, Busy, client, Warmup
  <1>6. ASSUME NEW m \in net, Lose(m)
        PROVE  HandOK'
    BY <1>0, <1>a, <1>p, <1>6 DEF Lose, HandOK, Busy, client, Warmup
  <1>7. ASSUME NEW m \in net, Receive(m)
        PROVE  HandOK'
    BY <1>0, <1>a, <1>p, <1>7 DEF Receive, HandOK, Busy, client, Warmup
  <1>8. CASE PeerClosed
    BY <1>0, <1>a, <1>p, <1>8 DEF PeerClosed, HandOK, Busy, client, Warmup
  <1>9. CASE Refuse
    BY <1>0, <1>a, <1>p, <1>9 DEF Refuse, Return, HandOK, Busy, client, Warmup
  <1>10. CASE HandleWarmup
    BY <1>0, <1>a, <1>p, <1>10 DEF HandleWarmup, Return, HandOK, Busy, client, Warmup
  <1>11. CASE DontReply
    BY <1>0, <1>a, <1>p, <1>11 DEF DontReply, Return, HandOK, Busy, client, Warmup
  <1>12. CASE HandleRequest
    BY <1>0, <1>a, <1>p, <1>12 DEF HandleRequest, HandOK, Busy, client, Warmup
  <1>13. CASE ExecuteGaps
    BY <1>0, <1>a, <1>p, <1>13 DEF ExecuteGaps, Return, HandOK, Busy, client, Warmup
  <1>14. ASSUME NEW n \in 1 .. MessageBytes, SendSome(n)
        PROVE  HandOK'
    BY <1>0, <1>a, <1>p, <1>14 DEF SendSome, HandOK, Busy, client, Warmup
  <1>15. CASE SendSkipped
    BY <1>0, <1>a, <1>p, <1>15 DEF SendSkipped, HandOK, Busy, client, Warmup
  <1>16. CASE SendShutdown
    BY <1>0, <1>a, <1>p, <1>16 DEF SendShutdown, Return, HandOK, Busy, client, Warmup
  <1>17. CASE SendInterrupted
    BY <1>0, <1>a, <1>p, <1>17 DEF SendInterrupted, HandOK, Busy, client, Warmup
  <1>18. CASE SendError
    BY <1>0, <1>a, <1>p, <1>18 DEF SendError, HandOK, Busy, client, Warmup
  <1>19. QED
    BY <1>1, <1>2, <1>3, <1>4, <1>5, <1>6, <1>7, <1>8, <1>9, <1>10, <1>11, <1>12, <1>13,
       <1>14, <1>15, <1>16, <1>17, <1>18 DEF Next, Handle

\* The two make SentInv.
LEMMA SentParts == SentInv <=> SendersOK /\ HandOK
  BY DEF SentInv, SendersOK, HandOK

\* The oldest message is in hand.
LEMMA OrderStep ==
    ASSUME TypeOK, SentInv, OrderInv, Next
    PROVE  OrderInv'
  <1>0. Ordered' = Ordered
    BY SettingStep, SettingKept
  <1>a. /\ run \in Nat /\ last \in Nat /\ net \subseteq [run : Nat, seq : Int]
        /\ \A m \in Pending : m.run \in Nat /\ m.seq \in Int
        /\ \A m \in Pending : m.run \in 1 .. run /\ (m.run = run => m.seq <= last)
    BY PendingType DEF TypeOK, SentInv
  <1>b. Busy => msg \in Pending
    BY DEF Pending
  <1>1. CASE Start
    <2>1. /\ run' = run + 1 /\ (Busy' <=> Busy) /\ msg' = msg
          /\ net' \subseteq net \cup {Packet(run + 1, -1), Packet(run + 1, 0)}
      BY <1>1 DEF Start, Busy
    <2>2. SUFFICES ASSUME Ordered, Busy, NEW o \in net' PROVE Before(msg, o)
      BY <1>0, <2>1 DEF OrderInv, Before
    <2>3. CASE o \in net
      BY <2>2, <2>3 DEF OrderInv
    <2>4. CASE o = Packet(run + 1, -1) \/ o = Packet(run + 1, 0)
      BY <1>a, <1>b, <2>2, <2>4 DEF Before, Packet
    <2>5. QED BY <2>1, <2>3, <2>4
  <1>2. CASE ClientSend
    <2>1. /\ run' = run /\ (Busy' <=> Busy) /\ msg' = msg
          /\ net' = net \cup {Packet(run, last + 1)}
      BY <1>2 DEF ClientSend, Busy
    <2>2. SUFFICES ASSUME Ordered, Busy, NEW o \in net' PROVE Before(msg, o)
      BY <1>0, <2>1 DEF OrderInv, Before
    <2>3. CASE o \in net
      BY <2>2, <2>3 DEF OrderInv
    <2>4. CASE o = Packet(run, last + 1)
      BY <1>a, <1>b, <2>2, <2>4 DEF Before, Packet
    <2>5. QED BY <2>1, <2>3, <2>4
  <1>3. ASSUME NEW m \in net, Lose(m) PROVE OrderInv'
    <2>1. (Busy' <=> Busy) /\ msg' = msg /\ net' \subseteq net
      BY <1>3 DEF Lose, Busy
    <2>2. QED BY <1>0, <2>1 DEF OrderInv, Before
  <1>4. ASSUME NEW m \in net, Receive(m) PROVE OrderInv'
    <2>1. SUFFICES ASSUME Ordered, NEW o \in net' PROVE Before(m, o)
      BY <1>0, <1>4 DEF OrderInv, Before, Receive
    <2>2. net' = net \ {m} /\ (m.run < o.run \/ (m.run = o.run /\ m.seq <= o.seq))
      BY <1>4, <2>1 DEF Receive, Ordered
    <2>3. m # o /\ m \in [run : Nat, seq : Int] /\ o \in [run : Nat, seq : Int]
      BY <1>a, <2>1, <2>2
    <2>4. m.run # o.run \/ m.seq # o.seq
      BY <2>3
    <2>5. m.seq \in Int /\ o.seq \in Int
      BY <2>3
    <2>6. QED BY <2>2, <2>4, <2>5 DEF Before
  <1>5. CASE Continues
    BY <1>0, <1>5 DEF Continues, Quiet, OrderInv, Before
  <1>6. CASE Finishes
    BY <1>6 DEF Finishes, OrderInv
  <1>7. QED BY Kinds, <1>1, <1>2, <1>3, <1>4, <1>5, <1>6

\* Order of starts and numbers.
LEMMA BeforeTrans ==
    ASSUME NEW a \in [run : Nat, seq : Int], NEW b \in [run : Nat, seq : Int],
           NEW c \in [run : Nat, seq : Int], Before(a, b), ~Before(c, b)
    PROVE  c # a
  BY DEF Before

\* Everything sent after a pending message is pending.
After(w, r, n) == \A s \in 1 .. n : ~Before(Packet(r, s), w) => Packet(r, s) \in Pending

\* SuffixInv in these terms.
LEMMA SuffixIs ==
    SuffixInv <=> (Ordered /\ ~lost => \A w \in Pending : /\ \A m \in Pending : After(w, m.run, m.seq)
                                                        /\ After(w, run, last))
  BY DEF SuffixInv, After

\* Every step keeps that: what is finished is older than what is pending.
LEMMA SuffixStep ==
    ASSUME TypeOK, SentInv, OrderInv, SuffixInv, Next
    PROVE  SuffixInv'
  <1>0. Ordered' = Ordered
    BY SettingStep, SettingKept
  <1>a. /\ run \in Nat /\ last \in Nat /\ Pending \subseteq [run : Nat, seq : Int]
        /\ \A m \in Pending : m.run \in Nat /\ m.seq \in Int
        /\ \A m \in Pending : m.run \in 1 .. run /\ (m.run = run => m.seq <= last)
    BY PendingType DEF TypeOK, SentInv
  <1>b. ASSUME Ordered, ~lost PROVE \A w \in Pending : /\ \A m \in Pending : After(w, m.run, m.seq)
                                                     /\ After(w, run, last)
    BY <1>b, SuffixIs
  <1>c. ASSUME run' = run, last' = last, lost' = lost, Pending' = Pending PROVE SuffixInv'
    BY <1>0, <1>c DEF SuffixInv, Before, Packet
  <1>1. CASE Start
    <2>1. run' = run + 1 /\ last' = 0 /\ lost' = lost
      BY <1>1 DEF Start
    <2>2. \A m \in Pending' : m \in Pending \/ (m.run = run + 1 /\ m.seq <= 0)
      BY <1>1, <2>1, PendingIs DEF Packet
    <2>3. Pending \subseteq Pending'
      BY <1>1, PendingIs
    <2>4. SUFFICES ASSUME Ordered, ~lost, NEW w \in Pending', NEW m \in Pending', NEW s \in 1 .. m.seq,
                          ~Before(Packet(m.run, s), w)
                   PROVE  Packet(m.run, s) \in Pending'
      <3>1. 1 .. last' = {}
        BY <2>1
      <3>2. QED BY <1>0, <2>1, <3>1 DEF SuffixInv, Before, Packet
    <2>5. m \in Pending /\ m.run \in Nat /\ m.seq \in Int
      <3>1. m.seq \in Int
        BY <1>1, <1>a, <2>1, PendingIs DEF Packet
      <3>2. QED BY <1>a, <2>2, <2>4, <3>1
    <2>6. w \in Pending
      <3>1. w.run # run + 1
        BY <1>a, <2>4, <2>5 DEF Before, Packet
      <3>2. QED BY <2>2, <3>1
    <2>7. QED BY <1>b, <2>3, <2>4, <2>5, <2>6 DEF After
  <1>2. CASE ClientSend
    <2>1. run' = run /\ last' = last + 1 /\ lost' = lost
      BY <1>2 DEF ClientSend
    <2> DEFINE new == Packet(run, last + 1)
    <2>2. Pending' = Pending \cup {new}
      BY <1>2, PendingIs
    <2>3. SUFFICES ASSUME Ordered, ~lost, NEW w \in Pending', NEW r \in Nat, NEW s \in Nat, s > 0,
                          \/ \E m \in Pending : m.run = r /\ s <= m.seq
                          \/ r = run /\ s <= last + 1,
                          ~Before(Packet(r, s), w)
                   PROVE  Packet(r, s) \in Pending'
      <3>1. ASSUME Ordered, ~lost, NEW w \in Pending'
            PROVE  /\ \A m \in Pending' : \A s \in 1 .. m.seq :
                        ~Before(Packet(m.run, s), w) => Packet(m.run, s) \in Pending'
                   /\ \A s \in 1 .. (last + 1) : ~Before(Packet(run, s), w) => Packet(run, s) \in Pending'
        <4>1. ASSUME NEW m \in Pending', NEW s \in 1 .. m.seq, ~Before(Packet(m.run, s), w)
              PROVE  Packet(m.run, s) \in Pending'
          <5>1. CASE m \in Pending
            <6>1. m.run \in Nat /\ m.seq \in Int
              BY <1>a, <5>1
            <6>2. s \in Nat /\ s > 0 /\ s <= m.seq
              BY <6>1
            <6>3. QED BY <2>3, <3>1, <4>1, <5>1, <6>1, <6>2
          <5>2. CASE m = new
            <6>1. m.run = run /\ m.seq = last + 1
              BY <5>2 DEF Packet
            <6>2. s \in Nat /\ s > 0 /\ s <= last + 1
              BY <1>a, <6>1
            <6>3. QED BY <1>a, <2>3, <3>1, <4>1, <6>1, <6>2
          <5>3. QED BY <2>2, <5>1, <5>2
        <4>2. ASSUME NEW s \in 1 .. (last + 1), ~Before(Packet(run, s), w)
              PROVE  Packet(run, s) \in Pending'
          <5>1. s \in Nat /\ s > 0 /\ s <= last + 1
            BY <1>a
          <5>2. QED BY <1>a, <2>3, <3>1, <4>2, <5>1
        <4>3. QED BY <4>1, <4>2
      <3>2. QED BY <1>0, <2>1, <3>1 DEF SuffixInv, Before, Packet
    <2>4. CASE r = run /\ s = last + 1
      BY <2>2, <2>4
    <2>5. CASE ~(r = run /\ s = last + 1)
      <3>1. (\E m \in Pending : m.run = r /\ s <= m.seq) \/ (r = run /\ s <= last)
        BY <1>a, <2>3, <2>5
      <3>2. r <= run /\ (r = run => s <= last)
        BY <1>a, <3>1
      <3>3. w # new
        BY <1>a, <2>3, <3>2 DEF Before, Packet
      <3>4. w \in Pending
        BY <2>2, <3>3
      <3>5. Packet(r, s) \in Pending
        <4>1. CASE \E m \in Pending : m.run = r /\ s <= m.seq
          <5>1. PICK m \in Pending : m.run = r /\ s <= m.seq
            BY <4>1
          <5>2. s \in 1 .. m.seq
            BY <1>a, <2>3, <5>1
          <5>3. QED BY <1>b, <2>3, <3>4, <5>1, <5>2 DEF After
        <4>2. CASE r = run /\ s <= last
          <5>1. s \in 1 .. last
            BY <1>a, <2>3, <4>2
          <5>2. QED BY <1>b, <2>3, <3>4, <4>2, <5>1 DEF After
        <4>3. QED BY <3>1, <4>1, <4>2
      <3>6. QED BY <2>2, <3>5
    <2>6. QED BY <2>4, <2>5
  <1>3. ASSUME NEW m \in net, Lose(m) PROVE SuffixInv'
    BY <1>3 DEF Lose, SuffixInv
  <1>4. ASSUME NEW m \in net, Receive(m) PROVE SuffixInv'
    <2>1. run' = run /\ last' = last /\ lost' = lost
      BY <1>4 DEF Receive, client
    <2>2. QED BY <1>4, <1>c, <2>1, PendingIs
  <1>5. CASE Continues
    BY <1>5, <1>c, PendingIs DEF Continues, Quiet
  <1>6. CASE Finishes
    <2>1. /\ run' = run /\ last' = last /\ lost' = lost /\ Pending' = net
          /\ Pending = net \cup {msg} /\ Busy
      BY <1>6, PendingIs DEF Finishes, Quiet
    <2>2. ASSUME Ordered, NEW w \in net, NEW p \in Pending, ~Before(p, w) PROVE p \in net
      <3>1. Before(msg, w)
        BY <2>1, <2>2 DEF OrderInv
      <3>2. p # msg
        BY <1>a, <2>1, <2>2, <3>1, BeforeTrans
      <3>3. QED BY <2>1, <3>2
    <2>3. ASSUME Ordered, ~lost, NEW w \in net
          PROVE  /\ \A m \in net : \A s \in 1 .. m.seq :
                      ~Before(Packet(m.run, s), w) => Packet(m.run, s) \in net
                 /\ \A s \in 1 .. last : ~Before(Packet(run, s), w) => Packet(run, s) \in net
      <3>1. \A m \in net : \A s \in 1 .. m.seq :
              ~Before(Packet(m.run, s), w) => Packet(m.run, s) \in net
        BY <1>b, <2>1, <2>2, <2>3 DEF After
      <3>2. \A s \in 1 .. last : ~Before(Packet(run, s), w) => Packet(run, s) \in net
        BY <1>b, <2>1, <2>2, <2>3 DEF After
      <3>3. QED BY <3>1, <3>2
    <2>4. QED BY <1>0, <2>1, <2>3 DEF SuffixInv, Before, Packet
  <1>7. QED BY Kinds, <1>1, <1>2, <1>3, <1>4, <1>5, <1>6

-----------------------------------------------------------------------------
(* No false gap. *)

\* A server that stopped stays stopped, and only three steps finish a message before.
LEMMA AliveStep ==
    ASSUME TypeOK, Next
    PROVE  /\ Alive' => Alive
           /\ Alive' /\ Finishes => HandleWarmup \/ DontReply \/ ExecuteGaps
           /\ HandleWarmup \/ ExecuteGaps \/ UNCHANGED gaps
  <1> DEFINE Goal == /\ Alive' => Alive
                     /\ Alive' /\ Finishes => HandleWarmup \/ DontReply \/ ExecuteGaps
                     /\ HandleWarmup \/ ExecuteGaps \/ UNCHANGED gaps
  <1> SUFFICES Goal
    OBVIOUS
  <1>1. CASE Start
    BY <1>1 DEF Start, Alive, Finishes, Busy
  <1>2. CASE ClientSend
    BY <1>2 DEF ClientSend, Alive, Finishes, Busy
  <1>3. CASE ClientClose
    BY <1>3 DEF ClientClose, Alive, Finishes, Busy
  <1>4. CASE ClientReads
    BY <1>4 DEF ClientReads, Alive, Finishes, Busy
  <1>5. CASE Interrupt
    BY <1>5 DEF Interrupt, Alive, Finishes, Busy
  <1>6. ASSUME NEW m \in net, Lose(m)
        PROVE  Goal
    BY <1>6 DEF Lose, Alive, Finishes, Busy
  <1>7. ASSUME NEW m \in net, Receive(m)
        PROVE  Goal
    BY <1>7 DEF Receive, Alive, Finishes, Busy
  <1>8. CASE PeerClosed
    BY <1>8 DEF PeerClosed, Alive, Finishes, Busy
  <1>9. CASE Refuse
    BY <1>9 DEF Refuse, Return, Alive, Finishes, Busy
  <1>10. CASE HandleWarmup
    BY <1>10 DEF HandleWarmup, Return, Alive, Finishes, Busy
  <1>11. CASE DontReply
    BY <1>11 DEF DontReply, Return, Alive, Finishes, Busy
  <1>12. CASE HandleRequest
    BY <1>12 DEF HandleRequest, Alive, Finishes, Busy
  <1>13. CASE ExecuteGaps
    BY <1>13 DEF ExecuteGaps, Return, Alive, Finishes, Busy
  <1>14. ASSUME NEW n \in 1 .. MessageBytes, SendSome(n)
        PROVE  Goal
    BY <1>14 DEF SendSome, Alive, Finishes, Busy
  <1>15. CASE SendSkipped
    BY <1>15 DEF SendSkipped, Alive, Finishes, Busy
  <1>16. CASE SendShutdown
    BY <1>16 DEF SendShutdown, Return, Alive, Finishes, Busy
  <1>17. CASE SendInterrupted
    BY <1>17 DEF SendInterrupted, Alive, Finishes, Busy
  <1>18. CASE SendError
    BY <1>18 DEF SendError, Alive, Finishes, Busy
  <1>19. QED
    BY <1>1, <1>2, <1>3, <1>4, <1>5, <1>6, <1>7, <1>8, <1>9, <1>10, <1>11, <1>12, <1>13,
       <1>14, <1>15, <1>16, <1>17, <1>18 DEF Next, Handle

\* Every step keeps every number accounted for: a new session starts when all numbers
\* of its client are still pending.
LEMMA CoverStep ==
    ASSUME TypeOK, GapsInv, SentInv, OrderInv, SuffixInv, CoverInv, Next
    PROVE  CoverInv'
  <1>0. Ordered' = Ordered /\ dont_reply' = dont_reply /\ \A s : Pong(s)' = Pong(s)
    BY SettingStep, SettingKept
  <1>a. /\ run \in Nat /\ last \in Nat /\ Pending \subseteq [run : Nat, seq : Int]
        /\ \A m \in Pending : m.run \in Nat /\ m.seq \in Int
        /\ \A m \in Pending : m.run \in 1 .. run /\ (m.run = run => m.seq <= last)
        /\ session.seq_num \in Int
    BY PendingType DEF TypeOK, SentInv, GapsInv, GapsOK
  <1>b. ASSUME Ordered, ~lost, Alive
        PROVE  /\ \A m \in Pending : \A s \in 1 .. m.seq : Covered(m.run, s)
               /\ run > 0 => \A s \in 1 .. last : Covered(run, s)
    BY <1>b DEF CoverInv
  <1>c. ASSUME UNCHANGED gaps, Pending \subseteq Pending', NEW r, NEW s, Covered(r, s)
        PROVE  Covered(r, s)'
    BY <1>0, <1>c DEF Covered, gaps, Packet
  <1>d. ASSUME run' = run, last' = last, lost' = lost, Pending' \subseteq Pending,
               \A r \in Nat, s \in Nat : Ordered /\ ~lost /\ Alive' /\ s > 0 /\ Covered(r, s)
                   /\ ((\E m \in Pending : m.run = r /\ s <= m.seq) \/ (r = run /\ s <= last))
                      => Covered(r, s)'
        PROVE  CoverInv'
    <2>1. SUFFICES ASSUME Ordered, ~lost, Alive'
                   PROVE  /\ \A m \in Pending' : \A s \in 1 .. m.seq : Covered(m.run, s)'
                          /\ run > 0 => \A s \in 1 .. last : Covered(run, s)'
      BY <1>0, <1>d DEF CoverInv, Covered, Packet
    <2>2. Alive
      BY <2>1, AliveStep
    <2>3. ASSUME NEW m \in Pending', NEW s \in 1 .. m.seq PROVE Covered(m.run, s)'
      <3>1. m \in Pending /\ m.run \in Nat /\ m.seq \in Int
        BY <1>a, <1>d
      <3>2. s \in Nat /\ s > 0 /\ s <= m.seq
        BY <3>1
      <3>3. QED BY <1>b, <1>d, <2>1, <2>2, <3>1, <3>2
    <2>4. ASSUME run > 0, NEW s \in 1 .. last PROVE Covered(run, s)'
      <3>1. s \in Nat /\ s > 0 /\ s <= last
        BY <1>a
      <3>2. QED BY <1>a, <1>b, <1>d, <2>1, <2>2, <2>4, <3>1
    <2>5. QED BY <2>3, <2>4
  <1>1. CASE Start
    <2>1. run' = run + 1 /\ last' = 0 /\ lost' = lost /\ UNCHANGED gaps
      BY <1>1 DEF Start
    <2>2. \A m \in Pending' : m \in Pending \/ (m.run = run + 1 /\ m.seq \in {-1, 0})
      BY <1>1, <2>1, PendingIs DEF Packet
    <2>3. Pending \subseteq Pending'
      BY <1>1, PendingIs
    <2>4. SUFFICES ASSUME Ordered, ~lost, Alive', NEW m \in Pending', NEW s \in 1 .. m.seq
                   PROVE  Covered(m.run, s)'
      <3>1. 1 .. last' = {}
        BY <2>1
      <3>2. QED BY <1>0, <2>1, <3>1 DEF CoverInv, Covered, Packet
    <2>5. m \in Pending
      <3>1. m.seq \in {-1, 0} => 1 .. m.seq = {}
        OBVIOUS
      <3>2. QED BY <2>2, <2>4, <3>1
    <2>6. QED BY <1>b, <1>c, <2>1, <2>3, <2>4, <2>5, AliveStep
  <1>2. CASE ClientSend
    <2>1. run' = run /\ last' = last + 1 /\ lost' = lost /\ UNCHANGED gaps /\ last < MaxSeq
      BY <1>2 DEF ClientSend
    <2>2. Pending' = Pending \cup {Packet(run, last + 1)}
      BY <1>2, PendingIs
    <2>3. run > 0
      BY <1>a, <2>1, MessagesAssumption DEF SentInv
    <2>4. SUFFICES ASSUME Ordered, ~lost, Alive'
                   PROVE  /\ \A m \in Pending' : \A s \in 1 .. m.seq : Covered(m.run, s)'
                          /\ \A s \in 1 .. (last + 1) : Covered(run, s)'
      BY <1>0, <2>1 DEF CoverInv, Covered, Packet
    <2>5. Alive
      BY <2>4, AliveStep
    <2>6. ASSUME NEW s \in 1 .. (last + 1) PROVE Covered(run, s)'
      <3>1. CASE s = last + 1
        <4>1. Packet(run, s) \in Pending'
          BY <2>2, <3>1
        <4>2. QED BY <2>1, <4>1 DEF Covered, Packet
      <3>2. CASE s # last + 1
        <4>1. s \in 1 .. last
          BY <1>a, <3>2
        <4>2. QED BY <1>b, <1>c, <2>1, <2>2, <2>3, <2>4, <2>5, <4>1
      <3>3. QED BY <3>1, <3>2
    <2>7. ASSUME NEW m \in Pending', NEW s \in 1 .. m.seq PROVE Covered(m.run, s)'
      <3>1. CASE m \in Pending
        BY <1>b, <1>c, <2>1, <2>2, <2>4, <2>5, <3>1
      <3>2. CASE m = Packet(run, last + 1)
        <4>1. m.run = run' /\ m.seq = last + 1
          BY <2>1, <3>2 DEF Packet
        <4>2. Covered(run, s)'
          BY <2>6, <4>1
        <4>3. QED BY <4>1, <4>2 DEF Covered, Packet
      <3>3. QED BY <2>2, <3>1, <3>2
    <2>8. QED BY <2>6, <2>7
  <1>3. ASSUME NEW m \in net, Lose(m) PROVE CoverInv'
    BY <1>3 DEF Lose, CoverInv
  <1>4. ASSUME NEW m \in net, Receive(m) PROVE CoverInv'
    <2>1. run' = run /\ last' = last /\ lost' = lost /\ UNCHANGED gaps
      BY <1>4 DEF Receive, client
    <2>2. Pending' = Pending
      BY <1>4, PendingIs
    <2>3. QED BY <1>c, <1>d, <2>1, <2>2
  <1>5. CASE Continues
    <2>1. run' = run /\ last' = last /\ lost' = lost /\ Pending' = Pending
      BY <1>5, PendingIs DEF Continues, Quiet
    <2>2. UNCHANGED gaps
      <3>1. ~HandleWarmup /\ ~ExecuteGaps
        BY <1>5 DEF Continues, Busy, HandleWarmup, ExecuteGaps, Return
      <3>2. QED BY <3>1, AliveStep
    <2>3. QED BY <1>c, <1>d, <2>1, <2>2
  <1>6. CASE Finishes
    <2>1. /\ run' = run /\ last' = last /\ lost' = lost /\ Pending' = net
          /\ Pending = net \cup {msg} /\ Busy
      BY <1>6, PendingIs DEF Finishes, Quiet
    <2>2. SUFFICES ASSUME NEW r \in Nat, NEW s \in Nat, Ordered, ~lost, Alive', s > 0, Covered(r, s),
                          (\E m \in Pending : m.run = r /\ s <= m.seq) \/ (r = run /\ s <= last)
                   PROVE  Covered(r, s)'
      BY <1>d, <2>1
    <2>3. Packet(r, s) = msg => msg.seq = s /\ msg.run = r
      BY DEF Packet
    <2>4. Packet(r, s) \in net => Covered(r, s)'
      BY <2>1 DEF Covered, Packet
    <2>5. dont_reply /\ Pong(s) => Covered(r, s)'
      BY <1>0 DEF Covered
    <2>6. CASE DontReply
      <3>1. msg.seq = s => dont_reply /\ Pong(s)
        BY <2>6 DEF DontReply
      <3>2. session' = session
        BY <2>6 DEF DontReply, gaps
      <3>3. s <= session.seq_num => Covered(r, s)'
        BY <3>2 DEF Covered
      <3>4. QED BY <2>1, <2>2, <2>3, <2>4, <2>5, <3>1, <3>3 DEF Covered
    <2>7. CASE ExecuteGaps
      <3>1. msg.seq \in Nat /\ msg.seq > 0 /\ Execute(msg.seq)
        BY <2>1, <2>7 DEF ExecuteGaps, SentInv, TypeOK
      <3>2. session'.seq_num \in Int /\ msg.seq <= session'.seq_num /\ session.seq_num <= session'.seq_num
        <4>0. GapsOK
          BY DEF GapsInv
        <4>1. CASE session = None
          BY <1>a, <3>1, <4>0, <4>1, ExecuteIs DEF None
        <4>2. CASE session # None /\ msg.seq <= session.seq_num
          <5>1. session'.seq_num = session.seq_num
            BY <3>1, <4>0, <4>2, ExecuteIs
          <5>2. QED BY <1>a, <4>2, <5>1
        <4>3. CASE session # None /\ msg.seq > session.seq_num
          <5>1. session'.seq_num = msg.seq
            BY <3>1, <4>0, <4>3, ExecuteIs
          <5>2. QED BY <1>a, <3>1, <4>3, <5>1
        <4>4. QED BY <1>a, <3>1, <4>1, <4>2, <4>3
      <3>3. s <= session.seq_num \/ s = msg.seq => s <= session'.seq_num
        BY <1>a, <3>1, <3>2
      <3>4. s <= session'.seq_num => Covered(r, s)'
        BY DEF Covered
      <3>5. QED BY <2>1, <2>2, <2>3, <2>4, <2>5, <3>3, <3>4 DEF Covered
    <2>8. CASE HandleWarmup
      <3>1. msg.seq \in Int /\ msg.seq <= 0 /\ msg.run \in Nat /\ msg.run <= run /\ msg \in Pending
        BY <1>a, <2>1, <2>8 DEF HandleWarmup, Warmup
      <3>2. Packet(r, s) # msg
        BY <2>2, <2>3, <3>1
      <3>3. CASE ~NewSession(TRUE)
        <4>1. session' = session
          BY <2>8, <3>3 DEF HandleWarmup, ExecuteWarmup, Session
        <4>2. s <= session.seq_num => Covered(r, s)'
          BY <4>1 DEF Covered
        <4>3. QED BY <2>1, <2>2, <2>4, <2>5, <3>2, <4>2 DEF Covered
      <3>4. CASE NewSession(TRUE)
        <4>1. r >= msg.run
          <5>1. ASSUME NEW m \in Pending PROVE m.run >= msg.run
            <6>1. m = msg \/ Before(msg, m)
              BY <2>1, <2>2 DEF OrderInv
            <6>2. QED BY <1>a, <3>1, <6>1 DEF Before
          <5>2. QED BY <1>a, <2>2, <3>1, <5>1
        <4>2. ~Before(Packet(r, s), msg)
          BY <2>2, <3>1, <4>1 DEF Before, Packet
        <4>3. Packet(r, s) \in Pending
          <5>1. /\ \A m \in Pending : After(msg, m.run, m.seq)
                /\ After(msg, run, last)
            BY <2>2, <3>1, SuffixIs
          <5>2. CASE \E m \in Pending : m.run = r /\ s <= m.seq
            <6>1. PICK m \in Pending : m.run = r /\ s <= m.seq
              BY <5>2
            <6>2. s \in 1 .. m.seq
              BY <1>a, <2>2, <6>1
            <6>3. QED BY <4>2, <5>1, <6>1, <6>2 DEF After
          <5>3. CASE r = run /\ s <= last
            <6>1. s \in 1 .. last
              BY <1>a, <2>2, <5>3
            <6>2. QED BY <4>2, <5>1, <5>3, <6>1 DEF After
          <5>4. QED BY <2>2, <5>2, <5>3
        <4>4. QED BY <2>1, <2>4, <3>2, <4>3
      <3>5. QED BY <3>3, <3>4
    <2>9. QED BY <1>6, <2>2, <2>6, <2>7, <2>8, AliveStep
  <1>7. QED BY Kinds, <1>1, <1>2, <1>3, <1>4, <1>5, <1>6

\* A number between the last of the session and the message in hand is forgotten.
LEMMA LeftOut ==
    ASSUME TypeOK, SentInv, OrderInv, CoverInv, pc = "gaps", Ordered, ~lost,
           session.seq_num \in Nat, NEW s \in (session.seq_num + 1) .. (msg.seq - 1)
    PROVE  dont_reply /\ Pong(s)
  <1>1. msg.seq \in Int /\ msg.run \in Nat /\ Busy /\ msg \in Pending /\ open
    BY DEF TypeOK, Busy, Pending, SentInv
  <1>2. s \in 1 .. msg.seq /\ s # msg.seq /\ ~(s <= session.seq_num) /\ s < msg.seq
    BY <1>1
  <1>3. Covered(msg.run, s)
    BY <1>1, <1>2 DEF CoverInv, Alive
  <1>4. Packet(msg.run, s) \notin Pending
    <2>1. Packet(msg.run, s) # msg
      BY <1>2 DEF Packet
    <2>2. ASSUME Packet(msg.run, s) \in net PROVE FALSE
      <3>1. Before(msg, Packet(msg.run, s))
        BY <1>1, <2>2 DEF OrderInv
      <3>2. QED BY <1>1, <1>2, <3>1 DEF Before, Packet
    <2>3. QED BY <2>1, <2>2 DEF Pending
  <1>5. QED BY <1>2, <1>3, <1>4 DEF Covered

\* Every step keeps the drops the forgotten pong requests.
LEMMA FalseGapStep ==
    ASSUME TypeOK, GapsInv, SentInv, OrderInv, CoverInv, NoFalseGap, Next
    PROVE  NoFalseGap'
  <1>0. Ordered' = Ordered /\ dont_reply' = dont_reply /\ \A s : Pong(s)' = Pong(s)
    BY SettingStep, SettingKept
  <1>a. GapsOK /\ SessionInv /\ session.seq_num \in Int /\ first \in Nat
    BY DEF GapsInv, GapsOK
  <1> DEFINE D(s) == dont_reply /\ Pong(s)
             False(f, q) == {s \in (f + 1) .. q : D(s)}
  <1>b. \A f, q : {s \in (f + 1) .. q : dont_reply' /\ Pong(s)'} = False(f, q)
    BY <1>0
  <1>c. ASSUME Ordered, ~lost PROVE session.total_drops = Cardinality(False(first, session.seq_num))
    BY <1>c DEF NoFalseGap, Ordered
  <1>d. lost' => lost \/ \E m \in net : Lose(m)
    BY Kinds DEF Start, ClientSend, Receive, Continues, Finishes, Quiet
  <1>e. lost => lost'
    BY Kinds DEF Start, ClientSend, Receive, Continues, Finishes, Quiet, Lose
  <1>f. ASSUME Ordered /\ ~lost => session'.total_drops = Cardinality(False(first', session'.seq_num))
        PROVE  NoFalseGap'
    <2>1. NoFalseGap' <=> (Ordered /\ ~lost' =>
             session'.total_drops = Cardinality({s \in (first' + 1) .. session'.seq_num : dont_reply' /\ Pong(s)'}))
      BY <1>0 DEF NoFalseGap, Ordered
    <2> HIDE DEF False
    <2>2. QED BY <1>b, <1>e, <1>f, <2>1
  <1> HIDE DEF D
  <1>1. CASE UNCHANGED gaps
    <2>1. session' = session /\ first' = first
      BY <1>1 DEF gaps
    <2> HIDE DEF False
    <2>2. QED BY <1>c, <1>f, <2>1
  <1>2. CASE HandleWarmup
    <2>1. CASE NewSession(TRUE)
      <3>1. session' = [seq_num |-> 0, total_drops |-> 0, started |-> FALSE] /\ first' = 0
        BY <1>2, <2>1 DEF HandleWarmup, ExecuteWarmup, Session
      <3>2. False(first', session'.seq_num) = {}
        BY <3>1
      <3> HIDE DEF False
      <3>3. Cardinality(False(first', session'.seq_num)) = 0
        BY <3>2, FS_EmptySet
      <3>4. QED BY <1>f, <3>1, <3>3
    <2>2. CASE ~NewSession(TRUE)
      <3>1. session' = session /\ first' = first
        BY <1>2, <2>2 DEF HandleWarmup, ExecuteWarmup, Session
      <3> HIDE DEF False
      <3>2. QED BY <1>c, <1>f, <3>1
    <2>3. QED BY <2>1, <2>2
  <1>3. CASE ExecuteGaps
    <2> DEFINE q == msg.seq
    <2>1. pc = "gaps" /\ q \in Nat /\ q > 0 /\ Execute(q)
      BY <1>3 DEF ExecuteGaps, SentInv, TypeOK
    <2> HIDE DEF q
    <2>2. CASE session = None
      <3>1. session' = [seq_num |-> q, total_drops |-> 0, started |-> TRUE] /\ first' = q
        BY <1>a, <2>1, <2>2, ExecuteIs
      <3>2. False(first', session'.seq_num) = {}
        <4>1. (q + 1) .. q = {}
          BY <2>1
        <4>2. QED BY <3>1, <4>1
      <3> HIDE DEF False
      <3>3. Cardinality(False(first', session'.seq_num)) = 0
        BY <3>2, FS_EmptySet
      <3>4. QED BY <1>f, <3>1, <3>3
    <2>3. CASE session # None /\ q <= session.seq_num
      <3>1. /\ session'.seq_num = session.seq_num /\ session'.total_drops = session.total_drops
            /\ first' = first
        BY <1>a, <2>1, <2>3, ExecuteIs
      <3> HIDE DEF False
      <3>2. QED BY <1>c, <1>f, <3>1
    <2>4. CASE session # None /\ q > session.seq_num
      <3> DEFINE p == session.seq_num
      <3>1. /\ session'.seq_num = q /\ first' = first
            /\ session'.total_drops = session.total_drops + (q - (p + 1))
        BY <1>a, <2>1, <2>4, ExecuteIs
      <3>2. p \in Nat /\ first \in Nat /\ first <= p /\ p < q /\ q \in Nat
        BY <1>a, <2>1, <2>4 DEF SessionInv
      <3>3. SUFFICES ASSUME Ordered, ~lost
                     PROVE  session'.total_drops = Cardinality(False(first', session'.seq_num))
        <4> HIDE DEF False
        <4>1. QED BY <1>f, <3>3
      <3>4. \A s \in (p + 1) .. (q - 1) : D(s)
        BY <2>1, <3>2, <3>3, LeftOut DEF D, q
      <3>5. ~D(q)
        BY <2>1 DEF D, q, SentInv
      <3>6. session.total_drops = Cardinality(False(first, p))
        BY <1>c, <3>3
      <3> HIDE DEF p
      <3> DEFINE A == False(first, p)
                 B == (p + 1) .. (q - 1)
      <3>7. False(first, q) = A \cup B
        <4>1. ASSUME NEW s \in False(first, q) PROVE s \in A \cup B
          <5>1. s \in (first + 1) .. q /\ D(s) /\ s # q
            BY <3>5, <4>1
          <5>2. s \in (first + 1) .. p \/ s \in (p + 1) .. (q - 1)
            BY <3>2, <5>1
          <5>3. QED BY <5>1, <5>2
        <4>2. ASSUME NEW s \in A PROVE s \in False(first, q)
          <5>1. s \in (first + 1) .. p /\ D(s)
            BY <4>2
          <5>2. s \in (first + 1) .. q
            BY <3>2, <5>1
          <5>3. QED BY <5>1, <5>2
        <4>3. ASSUME NEW s \in B PROVE s \in False(first, q)
          <5>1. D(s)
            BY <3>4, <4>3
          <5>2. s \in (first + 1) .. q
            BY <3>2, <4>3
          <5>3. QED BY <5>1, <5>2
        <4>4. QED BY <4>1, <4>2, <4>3
      <3>8. A \cap B = {}
        BY <3>2
      <3>9. IsFiniteSet(A) /\ Cardinality(A) \in Nat
        <4>1. IsFiniteSet((first + 1) .. p)
          BY <3>2, FS_Interval
        <4>2. A \subseteq (first + 1) .. p
          OBVIOUS
        <4> HIDE DEF A
        <4>3. IsFiniteSet(A)
          BY <4>1, <4>2, FS_Subset
        <4>4. QED BY <4>3, FS_CardinalityType
      <3>10. IsFiniteSet(B) /\ Cardinality(B) = q - (p + 1)
        <4>1. p + 1 \in Int /\ q - 1 \in Int
          BY <3>2
        <4>2. IsFiniteSet(B)
              /\ Cardinality(B) = IF p + 1 > q - 1 THEN 0 ELSE (q - 1) - (p + 1) + 1
          BY <4>1, FS_Interval
        <4> HIDE DEF B
        <4>3. QED BY <3>2, <4>2
      <3> HIDE DEF A, B
      <3>11. Cardinality(A \cup B) = Cardinality(A) + Cardinality(B)
        <4>1. Cardinality(A \cup B) = Cardinality(A) + Cardinality(B) - Cardinality(A \cap B)
          BY <3>9, <3>10, FS_Union
        <4>2. Cardinality(A \cap B) = 0
          BY <3>8, FS_EmptySet
        <4>3. Cardinality(B) \in Nat
          BY <3>10, FS_CardinalityType
        <4>4. QED BY <3>9, <4>1, <4>2, <4>3
      <3>12. session'.total_drops = Cardinality(A \cup B)
        BY <3>1, <3>6, <3>10, <3>11 DEF A, p
      <3>13. False(first', session'.seq_num) = A \cup B
        BY <3>1, <3>7
      <3> HIDE DEF False
      <3>14. QED BY <3>12, <3>13
    <2>5. QED BY <1>a, <2>1, <2>2, <2>3, <2>4
  <1>4. QED BY AliveStep, <1>1, <1>2, <1>3

-----------------------------------------------------------------------------
(* The replies of a stream. *)

\* Over a stream there is one start of the client, without warm-up.
LEMMA OneStart ==
    ASSUME TypeOK, SentInv, OrderInv, Stream
    PROVE  /\ run \in {0, 1} /\ (Busy => run = 1) /\ ~Multicast /\ Ordered
           /\ Busy => msg.seq <= last /\ \A o \in net : msg.seq < o.seq
  <1>1. run \in {0, 1} /\ ~Multicast /\ Ordered
    BY SettingFacts DEF TypeOK, SentInv, Ordered, Stream
  <1>2. ASSUME Busy PROVE run = 1 /\ msg.seq <= last /\ \A o \in net : msg.seq < o.seq
    <2>1. \A m \in Pending : m.run = 1 /\ run = 1
      BY <1>1, PendingType DEF SentInv
    <2>2. msg \in Pending /\ net \subseteq Pending
      BY <1>2 DEF Pending
    <2>3. \A o \in net : Before(msg, o)
      BY <1>1, <1>2 DEF OrderInv
    <2>4. msg.seq <= last
      BY <2>1, <2>2 DEF SentInv
    <2>5. QED BY <2>1, <2>2, <2>3, <2>4 DEF Before
  <1>3. QED BY <1>1, <1>2

\* What sendto() adds to the bytes sent.
LEMMA SentBytes ==
    ASSUME TypeOK, NEW n \in 1 .. MessageBytes, SendSome(n), Stream
    PROVE  /\ Len(wire) \in Nat /\ Len(wire') = Len(wire) + n /\ wire' # <<>>
           /\ \A i \in 1 .. Len(wire) : wire'[i] = wire[i]
           /\ \A k \in 1 .. n : wire'[Len(wire) + k] = [of |-> msg, at |-> MessageBytes - nbytes + k]
  <1> DEFINE Byte == [of : [run : Nat, seq : Int], at : 1 .. MessageBytes]
             part == [k \in 1 .. n |-> [of |-> msg, at |-> MessageBytes - nbytes + k]]
  <1>1. /\ n \in Nat /\ n > 0 /\ nbytes \in 1 .. MessageBytes /\ n <= nbytes /\ MessageBytes \in Nat
        /\ wire' = wire \o part /\ wire \in Seq(Byte)
    <2>1. MessageBytes \in Nat /\ nbytes \in 0 .. MessageBytes /\ wire \in Seq(Byte)
      BY MessagesAssumption DEF TypeOK
    <2>2. n \in 1 .. nbytes /\ wire' = wire \o part
      BY DEF SendSome
    <2> HIDE DEF part, Byte
    <2>3. QED BY <2>1, <2>2
  <1>2. part \in Seq(Byte) /\ Len(part) = n
    <2>1. \A k \in 1 .. n : [of |-> msg, at |-> MessageBytes - nbytes + k] \in Byte
      BY <1>1 DEF TypeOK
    <2> HIDE DEF Byte
    <2>2. part \in [1 .. n -> Byte]
      BY <2>1
    <2> HIDE DEF part
    <2>3. QED BY <1>1, <2>2
  <1>3. \A k \in 1 .. n : part[k] = [of |-> msg, at |-> MessageBytes - nbytes + k]
    OBVIOUS
  <1> HIDE DEF Byte, part
  <1>4. /\ Len(wire \o part) = Len(wire) + n
        /\ \A i \in 1 .. Len(wire) : (wire \o part)[i] = wire[i]
        /\ \A k \in 1 .. n : (wire \o part)[Len(wire) + k] = part[k]
        /\ Len(wire) \in Nat
    BY <1>1, <1>2
  <1>5. wire' # <<>>
    BY <1>1, <1>4
  <1>6. QED BY <1>1, <1>3, <1>4, <1>5

\* Every step keeps what is known of the last byte.
LEMMA WireStep ==
    ASSUME TypeOK, SentInv, OrderInv, WireInv, Next
    PROVE  WireInv'
  <1>0. Stream' = Stream /\ MessageBytes \in Nat \ {0}
    BY SettingStep, SettingKept, MessagesAssumption
  <1>a. /\ run \in Nat /\ last \in Nat /\ msg.seq \in Int /\ nbytes \in 0 .. MessageBytes
        /\ \A m \in net : m.seq \in Int
        /\ open \in BOOLEAN /\ g_b_exit \in BOOLEAN
    BY <1>0, MessagesAssumption DEF TypeOK
  <1>b. wire # <<>> => LastByte.of.seq \in Int /\ LastByte.at \in Int
    <2> DEFINE Byte == [of : [run : Nat, seq : Int], at : 1 .. MessageBytes]
    <2>1. wire \in Seq(Byte)
      BY DEF TypeOK
    <2> HIDE DEF Byte
    <2>2. wire # <<>> => LastByte \in Byte
      BY <2>1 DEF LastByte
    <2>3. QED BY <1>0, <2>2 DEF Byte
  <1>c. wire' = wire => LastByte' = LastByte
    BY DEF LastByte
  <1>d. wire # <<>> => Stream /\ run = 1
    BY OneStart DEF WireInv
  <1>1. CASE Start
    <2>1. CASE ~Stream
      <3>1. wire = <<>>
        BY <2>1 DEF WireInv
      <3>2. QED BY <1>0, <1>a, <2>1, <3>1, <1>1 DEF Start, WireInv
    <2>2. CASE Stream
      <3>1. run = 0 /\ ~Busy
        BY <1>a, <2>2, <1>1, OneStart, SettingFacts DEF Start, TypeOK
      <3>2. wire = <<>> /\ pc \notin {"handle", "send", "gaps"}
        BY <3>1 DEF WireInv, Busy
      <3>3. QED BY <1>0, <1>a, <3>1, <3>2, <1>1 DEF Start, WireInv
    <2>3. QED BY <2>1, <2>2
  <1>2. CASE ClientSend
    <2>1. UNCHANGED <<run, wire, open, g_b_exit, pc, msg, nbytes>> /\ last' = last + 1
          /\ net' = net \cup {Packet(run, last + 1)}
      BY <1>2 DEF ClientSend
    <2>2. wire # <<>> => \A m \in net' : LastByte.of.seq < m.seq
      <3>1. wire # <<>> => LastByte.of.seq < last + 1
        BY <1>a, <1>b DEF WireInv
      <3>2. QED BY <2>1, <3>1 DEF WireInv, Packet
    <2>3. wire # <<>> => LastByte.of.seq <= last + 1
      BY <1>a, <1>b DEF WireInv
    <2>4. QED BY <1>0, <1>c, <2>1, <2>2, <2>3 DEF WireInv
  <1>3. CASE ClientClose
    BY <1>0, <1>a, <1>b, <1>c, <1>3 DEF ClientClose, WireInv, client, network
  <1>4. CASE ClientReads
    BY <1>0, <1>a, <1>b, <1>c, <1>4 DEF ClientReads, WireInv, client, network
  <1>5. CASE Interrupt
    BY <1>0, <1>a, <1>b, <1>c, <1>5 DEF Interrupt, WireInv, client, network
  <1>6. ASSUME NEW m \in net, Lose(m)
        PROVE  WireInv'
    BY <1>0, <1>a, <1>b, <1>c, <1>6 DEF Lose, WireInv, client, network
  <1>7. ASSUME NEW m \in net, Receive(m)
        PROVE  WireInv'
    BY <1>0, <1>a, <1>b, <1>c, <1>7 DEF Receive, WireInv, client, network
  <1>8. CASE PeerClosed
    BY <1>0, <1>a, <1>b, <1>c, <1>8 DEF PeerClosed, WireInv, client, network
  <1>9. CASE Refuse
    BY <1>0, <1>a, <1>b, <1>c, <1>9 DEF Refuse, Return, WireInv, client, network
  <1>10. CASE HandleWarmup
    BY <1>0, <1>a, <1>b, <1>c, <1>10 DEF HandleWarmup, Return, WireInv, client, network
  <1>11. CASE DontReply
    BY <1>0, <1>a, <1>b, <1>c, <1>11 DEF DontReply, Return, WireInv, client, network
  <1>12. CASE HandleRequest
    <2>1. /\ UNCHANGED <<run, last, net, wire, open, g_b_exit, msg>> /\ ~g_b_exit
          /\ pc = "handle" /\ pc' \in {"send", "gaps"}
          /\ pc' = "send" => nbytes' = MessageBytes
      BY <1>12 DEF HandleRequest, client, network
    <2>2. open
      BY <2>1 DEF SentInv, Busy
    <2>3. wire # <<>> => LastByte.of.seq < msg.seq /\ LastByte.at = MessageBytes
      BY <2>1, <2>2 DEF WireInv
    <2>4. QED BY <1>0, <1>c, <2>1, <2>3 DEF WireInv
  <1>13. CASE ExecuteGaps
    BY <1>0, <1>a, <1>b, <1>c, <1>13 DEF ExecuteGaps, Return, WireInv, client, network
  <1>14. ASSUME NEW n \in 1 .. MessageBytes, SendSome(n)
        PROVE  WireInv'
    <2>1. /\ pc = "send" /\ n \in 1 .. nbytes /\ nbytes' = nbytes - n
          /\ pc' = IF nbytes' = 0 THEN "gaps" ELSE "send"
          /\ UNCHANGED <<run, last, net, open, g_b_exit, msg>>
      BY <1>14 DEF SendSome, client, network
    <2>2. nbytes' \in Nat /\ nbytes' < MessageBytes /\ n \in Nat /\ n > 0
      BY <1>0, <1>a, <2>1
    <2>3. CASE ~Stream
      <3>1. wire = <<>> /\ wire' = wire /\ n = nbytes
        BY <2>3, <1>14 DEF WireInv, SendSome
      <3>2. pc' = "gaps"
        BY <1>a, <2>1, <3>1
      <3>3. QED BY <1>0, <2>1, <2>3, <3>1, <3>2 DEF WireInv
    <2>4. CASE Stream
      <3>1. run = 1 /\ msg.seq <= last /\ \A o \in net : msg.seq < o.seq
        BY <2>1, <2>4, OneStart DEF Busy
      <3>2. wire' # <<>> /\ LastByte' = [of |-> msg, at |-> MessageBytes - nbytes + n]
        BY <2>2, <2>4, <1>14, SentBytes DEF LastByte
      <3>3. LastByte'.of = msg /\ LastByte'.at = MessageBytes - nbytes'
        BY <1>0, <1>a, <2>1, <2>2, <3>2
      <3>4. pc' # "send" => LastByte'.at = MessageBytes
        BY <1>0, <2>1, <3>3
      <3>5. QED BY <1>0, <2>1, <2>2, <2>4, <3>1, <3>2, <3>3, <3>4 DEF WireInv
    <2>5. QED BY <2>3, <2>4
  <1>15. CASE SendSkipped
    BY <1>0, <1>a, <1>b, <1>c, <1>15 DEF SendSkipped, WireInv, client, network
  <1>16. CASE SendShutdown
    BY <1>0, <1>a, <1>b, <1>c, <1>16 DEF SendShutdown, Return, WireInv, client, network
  <1>17. CASE SendInterrupted
    BY <1>0, <1>a, <1>b, <1>c, <1>17 DEF SendInterrupted, WireInv, client, network
  <1>18. CASE SendError
    BY <1>0, <1>a, <1>b, <1>c, <1>18 DEF SendError, WireInv, client, network
  <1>19. QED
    BY <1>1, <1>2, <1>3, <1>4, <1>5, <1>6, <1>7, <1>8, <1>9, <1>10, <1>11, <1>12, <1>13,
       <1>14, <1>15, <1>16, <1>17, <1>18 DEF Next, Handle

\* Every step keeps the order of the bytes.
LEMMA StreamStep ==
    ASSUME TypeOK, SentInv, OrderInv, WireInv, ReplyStream, Next
    PROVE  ReplyStream'
  <1>0. s_user_params' = s_user_params /\ MessageBytes \in Nat \ {0} /\ \A s : Pong(s)' = Pong(s)
    BY SettingStep, SettingKept, MessagesAssumption
  <1>1. CASE wire' = wire
    BY <1>0, <1>1 DEF ReplyStream, Pong
  <1>2. CASE wire' # wire
    <2>1. PICK n \in 1 .. MessageBytes : SendSome(n)
      BY <1>2 DEF Next, Handle, Start, ClientSend, ClientClose, ClientReads, Interrupt, Lose,
         Receive,
         PeerClosed, Refuse, HandleWarmup, DontReply, HandleRequest, ExecuteGaps, SendSkipped,
         SendShutdown, SendInterrupted, SendError
    <2>2. Stream
      BY <1>2, <2>1 DEF SendSome
    <2>3. /\ pc = "send" /\ n \in Nat /\ nbytes \in 1 .. MessageBytes /\ n <= nbytes
          /\ msg.seq \in Int /\ msg.seq > 0 /\ Pong(msg.seq)
      BY <1>0, <2>1 DEF SendSome, TypeOK, SentInv
    <2> DEFINE L == Len(wire)
    <2>4. /\ L \in Nat /\ Len(wire') = L + n
          /\ \A i \in 1 .. L : wire'[i] = wire[i]
          /\ \A k \in 1 .. n : wire'[L + k] = [of |-> msg, at |-> MessageBytes - nbytes + k]
      BY <2>1, <2>2, SentBytes
    <2> DEFINE Follows(b, after) == \/ b.of = after.of /\ b.at = after.at + 1
                                    \/ b.of.seq > after.of.seq /\ b.at = 1 /\ after.at = MessageBytes
               start == [of |-> NoMessage, at |-> MessageBytes]
               Good(w, i) == Follows(w[i], IF i = 1 THEN start ELSE w[i - 1])
    <2>5. ReplyStream <=> \A i \in 1 .. Len(wire) : Pong(wire[i].of.seq) /\ Good(wire, i)
      BY DEF ReplyStream
    <2>6. ReplyStream' <=> \A i \in 1 .. Len(wire') : Pong(wire[i].of.seq)' /\ Good(wire', i)
      BY DEF ReplyStream
    <2>7. ASSUME NEW i \in 1 .. (L + n) PROVE Pong(wire[i].of.seq)' /\ Good(wire', i)
      <3>1. CASE i \in 1 .. L
        <4>1. wire'[i] = wire[i] /\ (i # 1 => wire'[i - 1] = wire[i - 1])
          BY <2>4, <3>1
        <4>2. Good(wire', i)
          BY <2>5, <3>1, <4>1
        <4>3. QED BY <1>0, <2>5, <3>1, <4>1, <4>2 DEF Pong
      <3>2. CASE i \notin 1 .. L
        <4> DEFINE k == i - L
        <4>1. k \in 1 .. n /\ i = L + k /\ i \in Nat
          BY <2>3, <2>4, <3>2
        <4>2. wire'[i] = [of |-> msg, at |-> MessageBytes - nbytes + k]
          BY <2>4, <4>1
        <4>3. wire'[i].of = msg /\ wire'[i].at = MessageBytes - nbytes + k
          BY <4>2
        <4>4. Pong(wire[i].of.seq)'
          BY <1>0, <2>3, <4>3 DEF Pong
        <4>5. CASE k # 1
          <5>1. k - 1 \in 1 .. n /\ i - 1 = L + (k - 1) /\ i # 1
            BY <2>3, <2>4, <4>1, <4>5
          <5>2. wire'[i - 1] = [of |-> msg, at |-> MessageBytes - nbytes + (k - 1)]
            BY <2>4, <5>1
          <5>3. wire'[i].at = wire'[i - 1].at + 1 /\ wire'[i].of = wire'[i - 1].of
            BY <1>0, <2>3, <4>1, <4>3, <5>2
          <5>4. QED BY <4>4, <5>1, <5>3
        <4>6. CASE k = 1 /\ wire = <<>>
          <5>1. L = 0 /\ i = 1
            BY <4>1, <4>6
          <5>2. nbytes = MessageBytes
            BY <1>0, <2>2, <2>3, <4>6 DEF WireInv
          <5>3. wire'[i].at = 1 /\ wire'[i].of.seq > start.of.seq /\ start.at = MessageBytes
            BY <1>0, <2>3, <4>3, <4>6, <5>2 DEF NoMessage, Packet
          <5>4. QED BY <4>4, <5>1, <5>3
        <4>7. CASE k = 1 /\ wire # <<>>
          <5>1. L \in 1 .. L /\ i = L + 1 /\ i # 1 /\ i - 1 = L
            <6>1. L # 0
              BY <4>7 DEF TypeOK
            <6>2. QED BY <2>4, <4>1, <4>7, <6>1
          <5>2. wire'[i - 1] = LastByte
            BY <2>4, <5>1 DEF LastByte
          <5>3. Follows(wire'[i], LastByte)
            <6>1. CASE nbytes < MessageBytes
              <7>1. LastByte.of = msg /\ LastByte.at = MessageBytes - nbytes
                BY <2>2, <2>3, <6>1 DEF WireInv
              <7>2. QED BY <1>0, <2>3, <4>3, <4>7, <7>1
            <6>2. CASE nbytes = MessageBytes
              <7>1. LastByte.at = MessageBytes /\ LastByte.of.seq < msg.seq
                BY <2>3, <4>7, <6>2 DEF WireInv
              <7>2. LastByte.of.seq \in Int
                <8> DEFINE Byte == [of : [run : Nat, seq : Int], at : 1 .. MessageBytes]
                <8>1. wire \in Seq(Byte)
                  BY DEF TypeOK
                <8> HIDE DEF Byte
                <8>2. LastByte \in Byte
                  BY <5>1, <8>1 DEF LastByte
                <8>3. QED BY <8>2 DEF Byte
              <7>3. wire'[i].at = 1 /\ wire'[i].of.seq > LastByte.of.seq
                BY <1>0, <2>3, <4>3, <4>7, <6>2, <7>1, <7>2
              <7>4. QED BY <7>1, <7>3
            <6>3. QED BY <1>0, <2>3, <6>1, <6>2
          <5>4. QED BY <4>4, <5>1, <5>2, <5>3
        <4>8. QED BY <4>5, <4>6, <4>7
      <3>3. QED BY <3>1, <3>2
    <2> HIDE DEF Good
    <2>8. QED BY <2>4, <2>6, <2>7
  <1>3. QED BY <1>1, <1>2

-----------------------------------------------------------------------------
(* The invariant, and what follows from it. *)

\* The invariant holds initially.
LEMMA InitInv == Init => IInv
  <1>1. SUFFICES ASSUME Init PROVE IInv
    OBVIOUS
  <1>2. ~Busy /\ Pending = {} /\ wire = <<>> /\ Len(wire) = 0
    BY <1>1 DEF Init, Busy, Pending
  <1>3. TypeOK
    <2>1. wire \in Seq([of : [run : Nat, seq : Int], at : 1 .. MessageBytes])
      BY <1>2
    <2>2. NoMessage \in [run : Nat, seq : Int]
      BY DEF NoMessage, Packet
    <2>3. room \in 0 .. Room /\ nbytes \in 0 .. MessageBytes /\ last \in 0 .. MaxSeq
      BY <1>1, MessagesAssumption DEF Init
    <2>4. QED BY <1>1, <2>1, <2>2, <2>3 DEF Init, TypeOK
  <1>4. GapsOK /\ SessionInv /\ DropsCounted
    BY <1>1 DEF Init, InitGaps, GapsOK, SessionInv, DropsCounted, None
  <1>5. SentInv /\ OrderInv /\ SuffixInv
    BY <1>1, <1>2 DEF Init, SentInv, OrderInv, SuffixInv
  <1>6. CoverInv
    BY <1>1, <1>2 DEF Init, CoverInv
  <1>7. NoFalseGap
    <2>1. session.total_drops = 0 /\ (first + 1) .. session.seq_num = {}
      BY <1>1 DEF Init, InitGaps, None
    <2>2. {s \in (first + 1) .. session.seq_num : dont_reply /\ Pong(s)} = {}
      BY <2>1
    <2>3. Cardinality({s \in (first + 1) .. session.seq_num : dont_reply /\ Pong(s)}) = 0
      BY <2>2, FS_EmptySet
    <2>4. QED BY <2>1, <2>3 DEF NoFalseGap
  <1>8. WireInv
    BY <1>1, <1>2 DEF Init, WireInv
  <1>9. ReplyStream
    BY <1>2 DEF ReplyStream
  <1>10. QED BY <1>3, <1>4, <1>5, <1>6, <1>7, <1>8, <1>9 DEF IInv

\* Every step keeps the invariant.
LEMMA StepInv == IInv /\ [Next]_vars => IInv'
  <1>1. SUFFICES ASSUME IInv, [Next]_vars PROVE IInv'
    OBVIOUS
  <1>2. CASE Next
    <2>1. /\ TypeOK /\ GapsInv /\ SentInv /\ OrderInv /\ SuffixInv /\ CoverInv /\ NoFalseGap
          /\ WireInv /\ ReplyStream
      BY <1>1 DEF IInv, GapsInv
    <2>2. TypeOK' /\ GapsInv'
      BY <1>2, <2>1, TypeStep, GapsStep
    <2>3. SendersOK' /\ HandOK'
      BY <1>2, <2>1, SentParts, SendersStep, HandStep
    <2>4. SentInv'
      BY <2>3 DEF SentInv, SendersOK, HandOK
    <2>5. OrderInv' /\ SuffixInv'
      BY <1>2, <2>1, OrderStep, SuffixStep
    <2>6. CoverInv' /\ NoFalseGap'
      BY <1>2, <2>1, CoverStep, FalseGapStep
    <2>7. WireInv' /\ ReplyStream'
      BY <1>2, <2>1, WireStep, StreamStep
    <2>8. QED BY <2>2, <2>4, <2>5, <2>6, <2>7 DEF IInv, GapsInv
  <1>3. CASE UNCHANGED vars
    <2>1. /\ UNCHANGED <<s_user_params, run, last, net, lost, wire, open, g_b_exit, pc, msg, nbytes>>
          /\ UNCHANGED <<hup, copies, room, session, first, inOrder>>
      BY <1>3 DEF vars
    <2>2. /\ Network' = Network /\ Stream' = Stream /\ dont_reply' = dont_reply
          /\ Ordered' = Ordered /\ \A s : Pong(s)' = Pong(s)
      BY <2>1, SettingKept
    <2>3. Busy' = Busy /\ Pending' = Pending /\ LastByte' = LastByte /\ Alive' = Alive
      BY <2>1 DEF Busy, Pending, LastByte, Alive
    <2>4. TypeOK' /\ GapsOK' /\ SessionInv' /\ DropsCounted'
      BY <1>1, <2>1 DEF IInv, TypeOK, GapsOK, SessionInv, DropsCounted
    <2>5. SentInv'
      BY <1>1, <2>1, <2>2, <2>3 DEF IInv, SentInv, Pong
    <2>6. OrderInv' /\ SuffixInv'
      BY <1>1, <2>1, <2>2, <2>3 DEF IInv, OrderInv, SuffixInv, Before, Packet
    <2>7. CoverInv'
      BY <1>1, <2>1, <2>2, <2>3 DEF IInv, CoverInv, Covered, Packet
    <2>8. NoFalseGap'
      BY <1>1, <2>1 DEF IInv, NoFalseGap, Network, dont_reply, Pong
    <2>9. WireInv'
      BY <1>1, <2>1, <2>2, <2>3 DEF IInv, WireInv
    <2>10. ReplyStream'
      BY <1>1, <2>1 DEF IInv, ReplyStream, Pong
    <2>11. QED BY <2>4, <2>5, <2>6, <2>7, <2>8, <2>9, <2>10 DEF IInv
  <1>4. QED BY <1>1, <1>2, <1>3

\* The invariant holds in every reachable state.
LEMMA Inductive == Spec => []IInv
  BY InitInv, StepInv, PTL DEF Spec

\* The variables of handle_message(), of msg_sendto() and of the gap detection's network
\* have their types for every setting and every bound.
THEOREM TypeCorrect == Spec => []TypeOK
  <1>1. IInv => TypeOK
    BY DEF IInv
  <1>2. QED BY <1>1, Inductive, PTL

\* For replies of every size, however msg_sendto() is cut into pieces, skipped, interrupted
\* or shut down: the client reads whole replies, to pong requests only and in their order.
THEOREM RepliesWhole == Spec => []ReplyStream
  <1>1. IInv => ReplyStream
    BY DEF IInv
  <1>2. QED BY <1>1, Inductive, PTL

\* "Total Dropped/OOO" of SwitchOnCalcGaps counts every number of the session that did not
\* come in order exactly once, for every number of messages, duplicates and restarts.
THEOREM DropsCountedOnce == Spec => []DropsCounted
  <1>1. IInv => DropsCounted
    BY DEF IInv
  <1>2. QED BY <1>1, Inductive, PTL

\* Where the network loses nothing and keeps the order no gap is reported but the pong
\* requests of a server that does not reply, for every number of restarts of the client.
THEOREM NoGapInvented == Spec => []NoFalseGap
  <1>1. IInv => NoFalseGap
    BY DEF IInv
  <1>2. QED BY <1>1, Inductive, PTL
=============================================================================
