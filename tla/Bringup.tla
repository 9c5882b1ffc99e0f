------------------------------ MODULE Bringup -------------------------------
(***************************************************************************)
(* bringup() and set_sockets_from_feedfile() (sockperf.cpp): the sockets,  *)
(* their records in g_fds_array, linked into a ring by next_fd, and the    *)
(* sizes and tables the loops work with, from the options of module        *)
(* Options.                                                                *)
(*                                                                         *)
(* A feed file is a sequence of lines; a line names a protocol, an address *)
(* and a port, says whether the address is multicast and which multicast   *)
(* source it names, if any, and may be invalid.  Addresses of a line of    *)
(* multicast that join an earlier socket are kept in its memberships; the  *)
(* groups and sources the kernel has joined for it are in its joined.      *)
(***************************************************************************)
EXTENDS Options, SequencesExt

CONSTANTS FirstFd,        \* the lowest descriptor free when the program starts
          max_fds_num,    \* size of g_fds_array
          IGMP_MAX_MEMBERSHIPS,   \* the kernel's limit, and the room for memberships
          ExtraApi,       \* built with the VMA or XLIO extra API
          PktsDescSize,   \* size of the API's packet descriptors
          WarmupSec,      \* (warmup_msec + cooldown_msec) / 1000, the same for fewer than 9000 sockets
          TEST_START_WARMUP_NUM, TEST_END_COOLDOWN_NUM

\* The descriptors 0, 1 and 2 are in use when the program starts.
ASSUME BringupAssumption ==
    /\ FirstFd \in Nat \ {0} /\ max_fds_num \in Nat /\ FirstFd + 1 < max_fds_num
    /\ IGMP_MAX_MEMBERSHIPS \in Nat \ {0}
    /\ ExtraApi \in BOOLEAN /\ PktsDescSize \in Nat /\ WarmupSec \in Nat
    /\ TEST_START_WARMUP_NUM \in Nat /\ TEST_END_COOLDOWN_NUM \in Nat

VARIABLES rc,             \* the reason the program ends, or "none"
          lines,          \* what is left of the feed file
          g_fds_array, s_fd_min, s_fd_max, s_fd_num,
          last_fd,        \* the socket opened last
          fd_socket_map,  \* socket by protocol, family and port
          ms_maxSize,     \* Message: bytes of a buffer
          maxSequenceNo   \* Message and PacketTimes

sockets == <<g_fds_array, s_fd_min, s_fd_max, s_fd_num, last_fd, fd_socket_map>>
vars == <<optionVars, rc, lines, sockets, ms_maxSize, maxSequenceNo>>

options == <<argv, s_user_params, MAX_PAYLOAD_SIZE, MPS_MAX>>

None == "none"     \* no multicast source
NULL == [next_fd |-> -1]
Fds == 0 .. (max_fds_num - 1)
Opened == {fd \in Fds : g_fds_array[fd] # NULL}

\* socket(): the lowest number that is free.  An open feed file has one, too.
NewFd ==
    LET free == ((FirstFd + IF pc = "feed" THEN 1 ELSE 0) .. max_fds_num) \ Opened
    IN CHOOSE fd \in free : \A o \in free : fd <= o

Init ==
    /\ InitOptions
    /\ rc = "none" /\ lines = <<>>
    /\ g_fds_array = [fd \in Fds |-> NULL]
    /\ s_fd_min = 0 /\ s_fd_max = 0 /\ s_fd_num = 0 /\ last_fd = 0
    /\ fd_socket_map = [d \in {} |-> 0]
    /\ ms_maxSize = 0 /\ maxSequenceNo = 0

\* bringup() fails: exit_with_log(), with cleanup().
Fail(reason) == pc' = "exit" /\ rc' = reason

-----------------------------------------------------------------------------
UsesApi ==
    \/ s_user_params.is_rxfiltercb \/ s_user_params.is_zcopyread
    \/ s_user_params.fd_handler_type = "SOCKETXTREME"

\* Mutant: the buffer has room for the configured message only.
MaxSizeOfMessage == s_user_params.msg_size + 1

\* A buffer holds the configured message, a received one, and the packet
\* descriptors of the API.
MaxSize ==
    Larger(Larger(s_user_params.msg_size + 1, IF UsesApi THEN PktsDescSize ELSE 0),
           MAX_PAYLOAD_SIZE)

\* The head of bringup(): an API that is used must be found, and tls_init()
\* succeed.  A failed os_daemonize() is forgotten: tls_init() overwrites rc.
SetupApi(get_api, tls_init) ==
    /\ pc = "bringup"
    /\ get_api => ExtraApi
    /\ ~tls_init => s_user_params.tls
    /\ IF (UsesApi /\ (~get_api \/ s_user_params.tls)) \/ ~tls_init
       THEN Fail("FATAL") /\ UNCHANGED <<lines, ms_maxSize>>
       ELSE /\ ms_maxSize' = MaxSize
            /\ lines' = ValueOr("f", <<>>)
            /\ pc' = IF Given("f") THEN "feed" ELSE "single"
            /\ UNCHANGED rc
    /\ UNCHANGED <<options, sockets, maxSequenceNo>>

\* bringup() without a feed file: one socket, which may fail in several ways.
SingleSocket ==
    /\ pc = "single"
    /\ g_fds_array' = [g_fds_array EXCEPT
            ![NewFd] = [server_addr |-> <<4, "addr", 0>>, sock_type |-> s_user_params.sock_type, family |-> 4,
                        is_multicast |-> FALSE, mc_source |-> None, memberships |-> <<>>, joined |-> {},
                        next_fd |-> NewFd]]
    /\ s_fd_min' = NewFd /\ s_fd_max' = NewFd /\ s_fd_num' = 1
    /\ pc' = "checks"
    /\ UNCHANGED <<options, rc, lines, last_fd, fd_socket_map, ms_maxSize, maxSequenceNo>>

SingleSocketFails ==
    /\ pc = "single"
    /\ Fail("SOCKET")
    /\ UNCHANGED <<options, lines, sockets, ms_maxSize, maxSequenceNo>>

-----------------------------------------------------------------------------
(***************************************************************************)
(* set_sockets_from_feedfile(): one action for what becomes of a line.     *)
(***************************************************************************)
ServerAddr(l) == <<l.family, l.addr, l.port>>
PortDescriptor(l) == <<l.sock_type, l.family, l.port>>
SocketOfPort(l) ==
    IF PortDescriptor(l) \in DOMAIN fd_socket_map THEN fd_socket_map[PortDescriptor(l)] ELSE 0

Line == pc = "feed" /\ lines # <<>>

\* A line that cannot be parsed or resolved, and the clients whose API needs
\* an address to bind datagram sockets to.
LineRefused(l) ==
    \/ ~l.valid
    \/ /\ ExtraApi /\ s_user_params.fd_handler_type = "SOCKETXTREME"
       /\ l.sock_type = "SOCK_DGRAM" /\ IsClient /\ ~s_user_params.client_addr

RefuseLine ==
    /\ Line /\ LineRefused(Head(lines))
    /\ Fail("INCORRECT")
    /\ UNCHANGED <<options, lines, sockets, ms_maxSize, maxSequenceNo>>

\* Connections of a client, and multicast with a source, may be repeated.
Repeatable(l) ==
    \/ IsClient /\ l.sock_type = "SOCK_STREAM"
    \/ l.is_multicast /\ l.mc_source # None

\* Mutant: repeated lines are not looked for.
IsExistNever(l) == FALSE

\* The same address and port, and some socket of the line's protocol and port.
IsExist(l) ==
    /\ ~Repeatable(l)
    /\ \E fd \in s_fd_min .. s_fd_max :
        /\ g_fds_array[fd] # NULL
        /\ g_fds_array[fd].server_addr = ServerAddr(l)
    /\ SocketOfPort(l) # 0

SkipLine ==
    /\ Line /\ ~LineRefused(Head(lines)) /\ IsExist(Head(lines))
    /\ lines' = Tail(lines)
    /\ UNCHANGED <<options, pc, rc, sockets, ms_maxSize, maxSequenceNo>>

Joins(l) == l.is_multicast /\ SocketOfPort(l) # 0

\* prepare_socket() joins the group of a multicast line, from its source only
\* if it has one.  A client that only sends joins nothing.
MemberOf(l) ==
    IF l.is_multicast /\ ~s_user_params.b_stream THEN {<<l.addr, l.mc_source>>} ELSE {}

Groups(joined) == {m[1] : m \in joined}

\* The kernel refuses to join a group twice unless every time from another
\* source, and to join more IPv4 groups than it allows.
KernelJoins(joined, l) ==
    \A m \in MemberOf(l) :
        /\ m \notin joined
        /\ m[1] \in Groups(joined) => m[2] # None /\ <<m[1], None>> \notin joined
        /\ m[1] \notin Groups(joined) /\ l.family = 4 => Cardinality(Groups(joined)) < IGMP_MAX_MEMBERSHIPS

\* Mutant: an address the kernel refuses to join is not an error.
JoinSocketIgnored ==
    LET l == Head(lines)
        fd == SocketOfPort(l)
        joined == g_fds_array[fd].joined
    IN /\ Line /\ ~LineRefused(l) /\ ~IsExist(l) /\ Joins(l)
       /\ g_fds_array' = [g_fds_array EXCEPT
                ![fd].memberships = Append(@, ServerAddr(l)),
                ![fd].joined = IF KernelJoins(joined, l) THEN @ \cup MemberOf(l) ELSE @]
       /\ lines' = Tail(lines)
       /\ UNCHANGED <<options, pc, rc, s_fd_min, s_fd_max, s_fd_num, last_fd, fd_socket_map,
                      ms_maxSize, maxSequenceNo>>

\* A multicast address of a known port joins the socket of that port.
JoinSocket ==
    LET l == Head(lines)
        fd == SocketOfPort(l)
    IN /\ Line /\ ~LineRefused(l) /\ ~IsExist(l) /\ Joins(l)
       /\ KernelJoins(g_fds_array[fd].joined, l)
       /\ g_fds_array' = [g_fds_array EXCEPT ![fd].memberships = Append(@, ServerAddr(l)),
                                             ![fd].joined = @ \cup MemberOf(l)]
       /\ lines' = Tail(lines)
       /\ UNCHANGED <<options, pc, rc, s_fd_min, s_fd_max, s_fd_num, last_fd, fd_socket_map,
                      ms_maxSize, maxSequenceNo>>

\* The record of a new socket, linked behind the one opened before it.
Linked(fd, l) ==
    [f \in Fds |->
        IF f = fd THEN [server_addr |-> ServerAddr(l), sock_type |-> l.sock_type,
                        family |-> l.family, is_multicast |-> l.is_multicast, mc_source |-> l.mc_source,
                        memberships |-> <<>>, joined |-> MemberOf(l), next_fd |-> 0]
        ELSE IF f = last_fd /\ s_fd_num > 0 THEN [g_fds_array[f] EXCEPT !.next_fd = fd]
        ELSE g_fds_array[f]]

Mapped(l, fd) ==
    [d \in DOMAIN fd_socket_map \cup {PortDescriptor(l)} |->
        IF d = PortDescriptor(l) THEN fd ELSE fd_socket_map[d]]

\* Mutant: the socket is linked behind the first one.
OpenSocketKeepsLast ==
    LET l == Head(lines)
        fd == NewFd
    IN /\ Line /\ ~LineRefused(l) /\ ~IsExist(l) /\ ~Joins(l)
       /\ fd < max_fds_num
       /\ g_fds_array' = Linked(fd, l)
       /\ fd_socket_map' = Mapped(l, fd)
       /\ s_fd_num' = s_fd_num + 1
       /\ s_fd_min' = IF s_fd_num = 0 THEN fd ELSE Smaller(s_fd_min, fd)
       /\ s_fd_max' = Larger(s_fd_max, fd)
       /\ last_fd' = IF s_fd_num = 0 THEN fd ELSE last_fd
       /\ lines' = Tail(lines)
       /\ UNCHANGED <<options, pc, rc, ms_maxSize, maxSequenceNo>>

OpenSocket ==
    LET l == Head(lines)
        fd == NewFd
    IN /\ Line /\ ~LineRefused(l) /\ ~IsExist(l) /\ ~Joins(l)
       /\ fd < max_fds_num
       /\ g_fds_array' = Linked(fd, l)
       /\ fd_socket_map' = Mapped(l, fd)
       /\ s_fd_num' = s_fd_num + 1
       /\ s_fd_min' = IF s_fd_num = 0 THEN fd ELSE Smaller(s_fd_min, fd)
       /\ s_fd_max' = Larger(s_fd_max, fd)
       /\ last_fd' = fd
       /\ lines' = Tail(lines)
       /\ UNCHANGED <<options, pc, rc, ms_maxSize, maxSequenceNo>>

\* socket(), prepare_socket() or an allocation fails for a line that needs it;
\* so does a descriptor g_fds_array has no place for.  A socket is counted, and
\* an address stored, before it is known to work.
LineFails ==
    LET l == Head(lines)
    IN /\ Line /\ ~LineRefused(l) /\ ~IsExist(l)
       /\ IF Joins(l)
          THEN /\ g_fds_array' \in
                    {g_fds_array,
                     [g_fds_array EXCEPT ![SocketOfPort(l)].memberships = Append(@, ServerAddr(l))]}
               /\ UNCHANGED s_fd_num
          ELSE s_fd_num' \in {s_fd_num, s_fd_num + 1} /\ UNCHANGED g_fds_array
       /\ Fail("SOCKET")
       /\ UNCHANGED <<options, lines, s_fd_min, s_fd_max, last_fd, fd_socket_map, ms_maxSize,
                      maxSequenceNo>>

\* The file cannot be opened, or not be read to its end.
FileFails ==
    /\ pc = "feed"
    /\ Fail("FATAL")
    /\ UNCHANGED <<options, lines, sockets, ms_maxSize, maxSequenceNo>>

\* The end of the file: the last socket is linked to the first.
EndOfFile ==
    /\ pc = "feed" /\ lines = <<>>
    /\ IF s_fd_num = 0
       THEN Fail("BAD_ARGUMENT") /\ UNCHANGED g_fds_array
       ELSE /\ g_fds_array' = [g_fds_array EXCEPT ![s_fd_max].next_fd = s_fd_min]
            /\ pc' = "checks" /\ UNCHANGED rc
    /\ UNCHANGED <<options, lines, s_fd_min, s_fd_max, s_fd_num, last_fd, fd_socket_map,
                   ms_maxSize, maxSequenceNo>>

-----------------------------------------------------------------------------
NextFd(fd) == IF fd \in Opened THEN g_fds_array[fd].next_fd ELSE -1

\* The socket after k steps from s_fd_min.
Walk ==
    LET walk[k \in 0 .. s_fd_num] == IF k = 0 THEN s_fd_min ELSE NextFd(walk[k - 1])
    IN walk

\* s_fd_max is reached from s_fd_min in s_fd_num - 1 steps, and leads back.
fds_array_is_valid ==
    /\ \A k \in 0 .. (s_fd_num - 2) : Walk[k] \in Opened /\ Walk[k] # s_fd_max
    /\ Walk[s_fd_num - 1] = s_fd_max
    /\ NextFd(s_fd_max) = s_fd_min

ThreadsRefusedLate == s_user_params.threads_num > s_fd_num \/ s_user_params.threads_num = 0
DummyRefused == s_user_params.dummy_mps # 0 /\ s_user_params.mps >= s_user_params.dummy_mps

\* The checks that follow the sockets.
Check ==
    /\ pc = "checks"
    /\ CASE ~fds_array_is_valid -> Fail("SANITY")
         [] fds_array_is_valid /\ (ThreadsRefusedLate \/ DummyRefused) ->
                Fail("BAD_ARGUMENT")
         [] OTHER -> pc' = "setup" /\ UNCHANGED rc
    /\ UNCHANGED <<options, lines, sockets, ms_maxSize, maxSequenceNo>>

UNLIMITED == -1    \* UINT64_MAX

Mps == IF s_user_params.mps = UINT32_MAX THEN MPS_MAX ELSE s_user_params.mps

\* _maxTestDuration, in seconds
MaxTestDuration == 1 + s_user_params.sec_test_duration + WarmupSec

\* The largest sequence number a test can use; ten times reply_every has 32 bits.
MaxSequenceNo ==
    IF s_user_params.mode = "MODE_SERVER" THEN UNLIMITED
    ELSE IF s_user_params.pPlaybackVector.loaded THEN Len(s_user_params.pPlaybackVector.sizes)
    ELSE IF s_user_params.measurement = "NUMBER_BASED"
         THEN TEST_START_WARMUP_NUM + MAX_PACKET_NUMBER + TEST_END_COOLDOWN_NUM
    ELSE MaxTestDuration * Mps + ((10 * s_user_params.reply_every) % (UINT32_MAX + 1))
            + s_user_params.burst_size

\* The end of bringup(); PacketTimes gets maxSequenceNo, too.
SetupData ==
    /\ pc = "setup"
    /\ s_user_params' = [s_user_params EXCEPT !.mps = Mps]
    /\ maxSequenceNo' = MaxSequenceNo
    /\ pc' = "do_test"
    /\ UNCHANGED <<argv, MAX_PAYLOAD_SIZE, MPS_MAX, rc, lines, sockets, ms_maxSize>>

Handlers == {"client_handler", "server_handler", "server_select_per_thread"}

DoTest ==
    /\ pc = "do_test"
    /\ pc' = CASE s_user_params.mode = "MODE_CLIENT" -> "client_handler"
               [] s_user_params.mode = "MODE_SERVER" /\ s_user_params.mthread_server ->
                      "server_select_per_thread"
               [] OTHER -> "server_handler"
    /\ UNCHANGED <<options, rc, lines, sockets, ms_maxSize, maxSequenceNo>>

-----------------------------------------------------------------------------
Next ==
    \/ Parse /\ UNCHANGED <<rc, lines, sockets, ms_maxSize, maxSequenceNo>>
    \/ \E get_api, tls_init \in BOOLEAN : SetupApi(get_api, tls_init)
    \/ SingleSocket \/ SingleSocketFails
    \/ RefuseLine \/ SkipLine \/ JoinSocket \/ OpenSocket \/ LineFails \/ FileFails
    \/ EndOfFile
    \/ Check \/ SetupData \/ DoTest

Spec == Init /\ [][Next]_vars

-----------------------------------------------------------------------------
\* The variables have their types; s_fd_min and s_fd_max are sockets once there
\* is one, so the code that starts from them never meets an empty record.
TypeOK ==
    /\ pc \in {"main", "common", "client", "self", "bringup", "feed", "single", "checks", "setup",
               "do_test", "exit"} \cup Handlers
    /\ MAX_PAYLOAD_SIZE \in MIN_PAYLOAD_SIZE .. MAX_TCP_SIZE /\ MPS_MAX \in 0 .. MPS_MAX_UL
    /\ rc = "none" => s_fd_num = Cardinality(Opened)
    /\ Opened # {} => s_fd_min \in Opened /\ s_fd_max \in Opened
    /\ \A d \in DOMAIN fd_socket_map : fd_socket_map[d] \in Opened
    /\ ms_maxSize \in Nat /\ maxSequenceNo \in Nat \cup {UNLIMITED}

\* The sanity check of bringup() never fails, and the ring along which client
\* and server go from socket to socket visits every socket, once.
RingCovers ==
    /\ rc # "SANITY"
    /\ pc \in Handlers =>
        /\ {Walk[k] : k \in 0 .. (s_fd_num - 1)} = Opened
        /\ Cardinality(Opened) = s_fd_num

\* No endpoint gets two sockets unless it may be repeated: the second could not
\* be bound, and a client would measure the endpoint twice.
NoDuplicateSockets ==
    \A f, g \in Opened :
        LET a == g_fds_array[f]
            b == g_fds_array[g]
        IN f # g /\ a.server_addr = b.server_addr /\ a.sock_type = b.sock_type =>
               Repeatable(a) \/ Repeatable(b)

\* The addresses that join a socket fit the list it has for them: the check is
\* the kernel's, after the address was stored.  That is enough for IPv4 groups
\* without sources on a socket opened for such a group, in a program that joins;
\* a group joined from several sources, one that joins a unicast socket, an IPv6
\* group and a client that joins nothing can exceed the list.
MembershipsFit ==
    \A fd \in Opened :
        LET r == g_fds_array[fd]
        IN /\ r.is_multicast /\ r.family = 4 /\ ~s_user_params.b_stream
           /\ \A m \in r.joined : m[2] = None
           => Len(r.memberships) <= IGMP_MAX_MEMBERSHIPS

\* What a handler starts with is what the loops are written for, whatever
\* options were combined: a number based test is a ping-pong at full speed, one
\* reply per request in ping-pong, no bursts with the data check or a playback,
\* recvfrom() without a multiplexer and streams for a single socket only, and
\* not more threads than sockets.
SettingsSound ==
    pc \in Handlers =>
        LET p == s_user_params
        IN /\ p.measurement = "NUMBER_BASED" => p.ping_pong /\ p.number_test_target > 0 /\ p.mps = MPS_MAX
           /\ p.ping_pong => p.reply_every = 1
           /\ (p.data_integrity \/ p.pPlaybackVector.loaded) => p.burst_size = 1
           /\ (p.fd_handler_type = "RECVFROM" \/ p.sock_type = "SOCK_STREAM") => s_fd_num = 1
           /\ p.fd_handler_type = "SOCKETXTREME" => ~p.is_blocked
           /\ p.threads_num \in 1 .. s_fd_num
           /\ p.threads_num > 1 => p.fd_handler_type # "RECVFROMMUX" /\ pc = "server_select_per_thread"

\* The sizes a client may give its messages: those of the file it plays back,
\* or what SwitchOnMsgSize chooses.
MinMsgSize == Larger(MIN_PAYLOAD_SIZE, s_user_params.msg_size - s_user_params.msg_size_range)
RangeMsgSize ==
    Smaller(MAX_PAYLOAD_SIZE, s_user_params.msg_size + s_user_params.msg_size_range) - MinMsgSize + 1
MsgSizes ==
    IF s_user_params.pPlaybackVector.loaded THEN Range(s_user_params.pPlaybackVector.sizes)
    ELSE IF s_user_params.msg_size_range = 0 THEN {s_user_params.msg_size}
    ELSE {Smaller(MAX_PAYLOAD_SIZE, MinMsgSize + r) : r \in 0 .. (RangeMsgSize - 1)}

\* Every message a client sends holds its header and fits its buffer, there is
\* always a size to choose, and what may be received fits a buffer as well.
MessageFits ==
    pc \in Handlers =>
        /\ MAX_PAYLOAD_SIZE <= ms_maxSize
        /\ pc = "client_handler" =>
              /\ MsgSizes # {} \/ s_user_params.pPlaybackVector.loaded
              /\ MsgSizes \subseteq MIN_PAYLOAD_SIZE .. ms_maxSize

\* Messages per second the options ask for, at most.
AskedRate ==
    IF ValueOr("mps", IF s_user_params.ping_pong THEN UINT32_MAX ELSE MPS_DEFAULT) # UINT32_MAX
    THEN ValueOr("mps", MPS_DEFAULT)
    ELSE IF s_user_params.ping_pong THEN Smaller(MPS_MAX_PP * s_user_params.burst_size, MPS_MAX_UL)
    ELSE MPS_MAX_UL

\* The table of a latency test has room for what the test sends at the rate its
\* options ask for, MPS_MAX taken for "as fast as it can"; that of a number based
\* test with one message at a time, for the requests it sends when all are
\* answered in order.  Three kinds of test are left out, since theirs may be too
\* small and the test end in PacketTimes::verifyError(): bursts for which
\* MPS_MAX_PP * burst_size leaves 32 bits; number based tests with bursts, which
\* count one observation for burst_size messages sent while sockperf.cpp:3742
\* takes no account of the burst; and playbacks (see StatisticsPrinted).
TableHoldsTest ==
    pc = "client_handler" /\ ~s_user_params.b_stream /\ ~s_user_params.pPlaybackVector.loaded
        /\ MPS_MAX_PP * s_user_params.burst_size <= UINT32_MAX =>
        IF s_user_params.measurement = "NUMBER_BASED"
        THEN s_user_params.burst_size = 1 =>
                maxSequenceNo >= TEST_START_WARMUP_NUM + s_user_params.number_test_target
                                   + TEST_END_COOLDOWN_NUM
        ELSE maxSequenceNo >= MaxTestDuration * AskedRate + s_user_params.burst_size

\* Every line of the feed file has a socket of its protocol that is bound to or
\* has joined its address.
EndpointsServed ==
    pc \in Handlers =>
        \A n \in 1 .. Len(ValueOr("f", <<>>)) :
            \E fd \in Opened :
                /\ g_fds_array[fd].sock_type = Value("f")[n].sock_type
                /\ ServerAddr(Value("f")[n]) \in
                      {g_fds_array[fd].server_addr} \cup Range(g_fds_array[fd].memberships)
=============================================================================
