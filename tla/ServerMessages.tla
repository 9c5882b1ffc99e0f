--------------------------- MODULE ServerMessages ---------------------------
(***************************************************************************)
(* What a server thread does with the messages of one client:              *)
(* Server::handle_message() (server.h), with the reply msg_sendto() sends  *)
(* piece by piece (common.h) and the gap detection (CalcGaps).             *)
(*                                                                         *)
(* Requests reach the server over a stream, over a network that loses but  *)
(* keeps the order, or over one that also reorders and duplicates.  Over   *)
(* datagrams a client may end and be started again at the same address,    *)
(* when its numbers start again at 1.  The parser in front of the handler  *)
(* is MessageParser, the tables a connection is in are those of Server.    *)
(***************************************************************************)
EXTENDS CalcGaps, Sequences

CONSTANTS Settings,      \* what s_user_params and the network may be
          MessageBytes,  \* bytes of a reply
          Room,          \* bytes the kernel keeps for a peer that does not read
          MaxSeq,        \* bound: messages of one client
          MaxCopies      \* bound: messages duplicated

ASSUME MessagesAssumption ==
    /\ \A s \in Settings :
          /\ s.network \in {"stream", "ordered", "datagram"}
          /\ s.multicast \in BOOLEAN /\ (s.multicast => s.network # "stream")
          /\ s.b_server_dont_reply \in BOOLEAN /\ s.is_nonblocked_send \in BOOLEAN
          /\ s.reply_every \in Nat \ {0}
          /\ s.maxRestarts \in Nat /\ (s.network = "stream" => s.maxRestarts = 0)
    /\ MessageBytes \in Nat \ {0} /\ Room \in Nat \ {0}
    /\ MaxSeq \in Nat /\ MaxCopies \in Nat

VARIABLES
    s_user_params,     \* the setting of this run
    run, last,         \* the client: its starts so far, the last number it sent
    hup,               \* the client has closed its connection
    net, copies,       \* messages under way to the server, and duplicates so far
    lost,              \* an ordered network has lost a message
    wire,              \* the bytes of replies the server sent over a stream, in order
    room,              \* bytes the kernel takes before the client reads
    open,              \* the connection, seen by the server
    g_b_exit,
    pc, msg, nbytes    \* handle_message(), the message, and what is left to send of its reply

client == <<s_user_params, run, last>>
network == <<net, copies, lost>>
vars == <<s_user_params, run, last, hup, net, copies, lost, wire, room, open, g_b_exit,
          pc, msg, nbytes, session, first, inOrder>>

-----------------------------------------------------------------------------
Network == s_user_params.network
Stream == Network = "stream"
Multicast == s_user_params.multicast    \* the client sends warm-up messages
dont_reply == s_user_params.b_server_dont_reply
nonblocked == s_user_params.is_nonblocked_send
MaxRestarts == s_user_params.maxRestarts \* bound: restarts of the client
Pong(seq) == seq % s_user_params.reply_every = 0

\* A message: the start of the client it belongs to, and its number.  The
\* two warm-up messages have the numbers -1 and 0.
Packet(r, s) == [run |-> r, seq |-> s]
NoMessage == Packet(0, 0)
Warmup(m) == m.seq <= 0

Init ==
    /\ s_user_params \in Settings
    /\ run = 0 /\ last = MaxSeq /\ hup = FALSE
    /\ net = {} /\ copies = 0 /\ lost = FALSE
    /\ wire = <<>> /\ room = Room /\ open = TRUE
    /\ g_b_exit = FALSE
    /\ pc = "idle" /\ msg = NoMessage /\ nbytes = 0
    /\ InitGaps

-----------------------------------------------------------------------------
(***************************************************************************)
(* The client, the network and the user.                                   *)
(***************************************************************************)
\* The client starts, and warms up if its socket is a multicast socket.
Start ==
    /\ run <= MaxRestarts
    /\ run' = run + 1
    /\ last' = 0
    /\ net' = IF Multicast THEN net \cup {Packet(run', -1), Packet(run', 0)} ELSE net
    /\ UNCHANGED <<s_user_params, hup, copies, lost, wire, room, open, g_b_exit, pc, msg,
                   nbytes, gaps>>

ClientSend ==
    /\ last < MaxSeq /\ ~hup /\ open
    /\ last' = last + 1
    /\ net' = net \cup {Packet(run, last')}
    /\ UNCHANGED <<s_user_params, run, hup, copies, lost, wire, room, open, g_b_exit, pc, msg,
                   nbytes, gaps>>

ClientClose ==
    /\ Stream /\ run > 0 /\ ~hup
    /\ hup' = TRUE
    /\ UNCHANGED <<client, network, wire, room, open, g_b_exit, pc, msg, nbytes, gaps>>

ClientReads ==
    /\ ~hup /\ room < Room
    /\ room' = Room
    /\ UNCHANGED <<client, hup, network, wire, open, g_b_exit, pc, msg, nbytes, gaps>>

\* Where messages overtake each other one that never arrives is lost anyway.
Lose(m) ==
    /\ m \in net /\ Network = "ordered"
    /\ net' = net \ {m}
    /\ lost' = TRUE
    /\ UNCHANGED <<client, hup, copies, wire, room, open, g_b_exit, pc, msg, nbytes, gaps>>

\* server_sig_handler()
Interrupt ==
    /\ ~g_b_exit
    /\ g_b_exit' = TRUE
    /\ UNCHANGED <<client, hup, network, wire, room, open, pc, msg, nbytes, gaps>>

-----------------------------------------------------------------------------
(***************************************************************************)
(* handle_message()                                                        *)
(***************************************************************************)
\* A message reaches the handler.
Receive(m) ==
    /\ pc = "idle" /\ open /\ m \in net
    /\ Network # "datagram" => \A o \in net : m.run < o.run \/ (m.run = o.run /\ m.seq <= o.seq)
    /\ \/ net' = net \ {m} /\ UNCHANGED copies
       \/ /\ Network = "datagram" /\ copies < MaxCopies
          /\ copies' = copies + 1 /\ UNCHANGED net
    /\ pc' = "handle" /\ msg' = m
    /\ UNCHANGED <<client, hup, lost, wire, room, open, g_b_exit, nbytes, gaps>>

\* The client has closed the connection, and all it sent is read.
PeerClosed ==
    /\ pc = "idle" /\ open /\ hup /\ net = {}
    /\ open' = FALSE
    /\ UNCHANGED <<client, hup, network, wire, room, g_b_exit, pc, msg, nbytes, gaps>>

Return == pc' = "idle" /\ msg' = NoMessage /\ nbytes' = 0

\* The program exits: the message is refused, and its connection closed.
Refuse ==
    /\ pc = "handle" /\ g_b_exit
    /\ open' = ~Stream
    /\ Return
    /\ UNCHANGED <<client, hup, network, wire, room, g_b_exit, gaps>>

HandleWarmup ==
    /\ pc = "handle" /\ ~g_b_exit /\ Warmup(msg)
    /\ ExecuteWarmup
    /\ Return
    /\ UNCHANGED <<client, hup, network, wire, room, open, g_b_exit>>

\* A pong request is forgotten by a server that does not reply, before the
\* gap detection has seen it.
DontReply ==
    /\ pc = "handle" /\ ~g_b_exit /\ ~Warmup(msg) /\ Pong(msg.seq) /\ dont_reply
    /\ Return
    /\ UNCHANGED <<client, hup, network, wire, room, open, g_b_exit, gaps>>

\* Mutant: the handler does not look at g_b_exit.
HandleRequestAlways ==
    /\ pc = "handle" /\ ~Warmup(msg) /\ (Pong(msg.seq) => ~dont_reply)
    /\ pc' = IF Pong(msg.seq) THEN "send" ELSE "gaps"
    /\ nbytes' = IF Pong(msg.seq) THEN MessageBytes ELSE 0
    /\ UNCHANGED <<client, hup, network, wire, room, open, g_b_exit, msg, gaps>>

HandleRequest ==
    /\ pc = "handle" /\ ~g_b_exit /\ ~Warmup(msg) /\ (Pong(msg.seq) => ~dont_reply)
    /\ pc' = IF Pong(msg.seq) THEN "send" ELSE "gaps"
    /\ nbytes' = IF Pong(msg.seq) THEN MessageBytes ELSE 0
    /\ UNCHANGED <<client, hup, network, wire, room, open, g_b_exit, msg, gaps>>

\* The end of handle_message(), whatever msg_sendto() returned short of a shut
\* down connection.
ExecuteGaps ==
    /\ pc = "gaps"
    /\ Execute(msg.seq)
    /\ Return
    /\ UNCHANGED <<client, hup, network, wire, room, open, g_b_exit>>

-----------------------------------------------------------------------------
(***************************************************************************)
(* msg_sendto(): one turn of its loop.                                     *)
(***************************************************************************)
\* sendto() would block.
Full == ~Stream \/ room = 0

\* sendto() takes n bytes, of a datagram all.
SendSome(n) ==
    /\ pc = "send" /\ n \in 1 .. nbytes
    /\ IF Stream
       THEN /\ n <= room /\ room' = room - n
            /\ wire' = wire \o [k \in 1 .. n |-> [of |-> msg, at |-> MessageBytes - nbytes + k]]
       ELSE n = nbytes /\ UNCHANGED <<room, wire>>
    /\ nbytes' = nbytes - n
    /\ pc' = IF nbytes' = 0 THEN "gaps" ELSE "send"
    /\ UNCHANGED <<client, hup, network, open, g_b_exit, msg, gaps>>

\* Mutant: a reply is skipped though a part of it is sent.
SendSkippedAnyway ==
    /\ pc = "send" /\ nonblocked /\ Full
    /\ pc' = "gaps" /\ nbytes' = 0
    /\ UNCHANGED <<client, hup, network, wire, room, open, g_b_exit, msg, gaps>>

\* EAGAIN: the reply is skipped if nothing of it is sent, and tried again else.
SendSkipped ==
    /\ pc = "send" /\ nonblocked /\ Full
    /\ nbytes = MessageBytes
    /\ pc' = "gaps" /\ nbytes' = 0
    /\ UNCHANGED <<client, hup, network, wire, room, open, g_b_exit, msg, gaps>>

\* EINTR, which ends the reply wherever it is.  A signal has set g_b_exit.
SendInterrupted ==
    /\ pc = "send" /\ ~nonblocked /\ Full
    /\ g_b_exit' = TRUE
    /\ pc' = "gaps" /\ nbytes' = 0
    /\ UNCHANGED <<client, hup, network, wire, room, open, msg, gaps>>

\* Mutant: the end of the connection is not noticed within a reply.
SendShutdownFirst ==
    /\ pc = "send" /\ hup /\ nbytes = MessageBytes
    /\ open' = FALSE
    /\ Return
    /\ UNCHANGED <<client, hup, network, wire, room, g_b_exit, gaps>>

\* EPIPE or ECONNRESET: handle_message() closes the connection and returns.
SendShutdown ==
    /\ pc = "send" /\ hup
    /\ open' = FALSE
    /\ Return
    /\ UNCHANGED <<client, hup, network, wire, room, g_b_exit, gaps>>

\* Any other error ends the program, unless it is exiting.
SendError ==
    /\ pc = "send"
    /\ pc' = IF g_b_exit THEN "gaps" ELSE "exit"
    /\ g_b_exit' = TRUE
    /\ nbytes' = 0
    /\ UNCHANGED <<client, hup, network, wire, room, open, msg, gaps>>

-----------------------------------------------------------------------------
Handle ==
    \/ PeerClosed \/ Refuse \/ HandleWarmup \/ DontReply \/ HandleRequest \/ ExecuteGaps
    \/ (\E n \in 1 .. MessageBytes : SendSome(n))
    \/ SendSkipped \/ SendShutdown

Next ==
    \/ Start \/ ClientSend \/ ClientClose \/ ClientReads \/ Interrupt
    \/ \E m \in net : Lose(m) \/ Receive(m)
    \/ Handle \/ SendInterrupted \/ SendError

Spec == Init /\ [][Next]_vars

\* The thread runs, and a client reads its replies while it is connected;
\* nothing makes a send fail.
FairSpec == Spec /\ WF_vars(Handle) /\ WF_vars(ClientReads)

-----------------------------------------------------------------------------
\* The variables have their types.
TypeOK ==
    /\ s_user_params \in Settings /\ run \in Nat /\ last \in 0 .. MaxSeq /\ hup \in BOOLEAN
    /\ net \subseteq [run : Nat, seq : Int] /\ copies \in Nat /\ lost \in BOOLEAN
    /\ wire \in Seq([of : [run : Nat, seq : Int], at : 1 .. MessageBytes])
    /\ room \in 0 .. Room /\ open \in BOOLEAN /\ g_b_exit \in BOOLEAN
    /\ pc \in {"idle", "handle", "send", "gaps", "exit"}
    /\ msg \in [run : Nat, seq : Int] /\ nbytes \in 0 .. MessageBytes

\* A client reads whole replies, in the order of its requests and to pong
\* requests only: whatever part of a reply the kernel took, whatever was
\* skipped, and however a signal cut a reply, no byte follows a cut reply.
ReplyStream ==
    \A i \in 1 .. Len(wire) :
        LET b == wire[i]
            after == IF i = 1 THEN [of |-> NoMessage, at |-> MessageBytes] ELSE wire[i - 1]
        IN /\ Pong(b.of.seq)
           /\ \/ b.of = after.of /\ b.at = after.at + 1
              \/ b.of.seq > after.of.seq /\ b.at = 1 /\ after.at = MessageBytes

\* No gap is reported to a client of which the network has lost nothing and
\* kept the order, when it is started again at the same address either.  The
\* exception are the pong requests of a server that does not reply, which are
\* all reported.
NoFalseGap ==
    Network # "datagram" /\ ~lost =>
        session.total_drops =
            Cardinality({s \in (first + 1) .. session.seq_num : dont_reply /\ Pong(s)})

\* msg_sendto() returns while clients read: it repeats until the kernel has
\* taken all of a reply, and the end of the connection ends that too.
SendEnds == pc = "send" ~> pc # "send"
=============================================================================
