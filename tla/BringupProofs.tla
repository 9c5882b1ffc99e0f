--------------------------- MODULE BringupProofs ---------------------------
(***************************************************************************)
(* Proofs of what modules Options and Bringup promise the loops of client  *)
(* and server: for every set of command lines and feed files, every size   *)
(* of the table of sockets and every value of the limits.                  *)
(*                                                                         *)
(* The options need no cleverness, but memory: what a handler finds in     *)
(* s_user_params depends on the mode, on what the tables of options allow  *)
(* in it and on what each function refused before.  OptionsInv keeps that  *)
(* from stage to stage.  The sockets need to be known by number: nothing   *)
(* is closed during bring-up, so that the kernel's lowest free number is   *)
(* always the next one, and the ring follows the numbers.                  *)
(***************************************************************************)
EXTENDS Bringup, FiniteSetTheorems, NaturalsInduction, WellFoundedInduction, TLAPS

Parsing == {"common", "client", "self"}
Prepared == {"checks", "setup", "do_test"} \cup Handlers
Configured == {"bringup", "feed", "single"} \cup Prepared

-----------------------------------------------------------------------------
(* The options. *)

\* The options given are those of the mode's tables.
ArgvInv ==
    /\ argv \in CommandLines
    /\ pc \in {"main", "exit"} \cup Parsing \cup Configured
    /\ DOMAIN s_user_params = DOMAIN Defaults
    /\ pc \in Parsing \cup Configured =>
        /\ argv.mode # "help"
        /\ DOMAIN argv.opts \subseteq
              CommonOptions \cup SelfOptions \cup (IF IsClient THEN ClientOptions ELSE {})

\* What the mode stored stays.
ModeInv ==
    pc \in Parsing \cup Configured =>
        /\ s_user_params.mode = IF IsClient THEN "MODE_CLIENT" ELSE "MODE_SERVER"
        /\ s_user_params.ping_pong <=> argv.mode = "ping-pong"
        /\ s_user_params.b_stream <=> argv.mode = "throughput"

DefaultRate == IF argv.mode \in {"ping-pong", "throughput"} THEN UINT32_MAX ELSE MPS_DEFAULT

\* Before its own options are read, a mode has its defaults.
FreshInv ==
    /\ pc = "main" => s_user_params = Defaults
    /\ pc \in {"main"} \cup Parsing =>
        /\ MAX_PAYLOAD_SIZE = DEFAULT_PAYLOAD_SIZE /\ MPS_MAX = MPS_MAX_UL
    /\ pc \in Parsing =>
        /\ s_user_params.measurement = "TIME_BASED"
        /\ s_user_params.mps = DefaultRate
        /\ s_user_params.reply_every \in Nat
        /\ s_user_params.ping_pong => s_user_params.reply_every = 1
        /\ s_user_params.msg_size = IF IsClient THEN MIN_PAYLOAD_SIZE ELSE DEFAULT_PAYLOAD_SIZE
        /\ s_user_params.msg_size_range = 0
        /\ s_user_params.sec_test_duration = 1
        /\ s_user_params.burst_size = 1
        /\ s_user_params.data_integrity = FALSE
        /\ s_user_params.pPlaybackVector = NoPlayback
        /\ s_user_params.threads_num = 1
    /\ pc = "common" =>
        s_user_params.fd_handler_type = "RECVFROM" /\ s_user_params.sock_type = "SOCK_DGRAM"

\* What parse_common_opt() guarantees.
CommonInv ==
    pc \in {"client", "self"} \cup Configured =>
        /\ s_user_params.fd_handler_type = "RECVFROM" => ~Given("f")
        /\ s_user_params.sock_type = "SOCK_STREAM" => ~Given("f")
        /\ s_user_params.fd_handler_type = "SOCKETXTREME" => ~s_user_params.is_blocked

\* What the function of the mode guarantees.
ValuesInv ==
    pc \in Configured =>
        /\ s_user_params.measurement = "NUMBER_BASED" =>
              argv.mode = "ping-pong" /\ s_user_params.number_test_target \in 1 .. MAX_PACKET_NUMBER
        /\ s_user_params.reply_every \in Nat
        /\ s_user_params.ping_pong => s_user_params.reply_every = 1
        /\ s_user_params.burst_size \in Nat \ {0}
        /\ s_user_params.data_integrity => s_user_params.burst_size = 1
        /\ s_user_params.pPlaybackVector.loaded <=> argv.mode = "playback"
        /\ argv.mode = "playback" => s_user_params.burst_size = 1
        /\ s_user_params.sec_test_duration \in Nat
        /\ s_user_params.threads_num \in Nat
        /\ s_user_params.threads_num > 1 =>
              /\ ~IsClient /\ s_user_params.mthread_server
              /\ s_user_params.fd_handler_type # "RECVFROMMUX"

\* The sizes of messages.
SizesInv ==
    pc \in Configured =>
        /\ MAX_PAYLOAD_SIZE \in Nat /\ MPS_MAX \in Nat /\ s_user_params.msg_size \in Nat
        /\ IsClient =>
              /\ s_user_params.msg_size \in MIN_PAYLOAD_SIZE .. MAX_PAYLOAD_SIZE
              /\ s_user_params.msg_size_range \in Nat
        /\ s_user_params.pPlaybackVector.loaded =>
              \A n \in DOMAIN s_user_params.pPlaybackVector.sizes :
                 s_user_params.pPlaybackVector.sizes[n] \in MIN_PAYLOAD_SIZE .. MAX_PAYLOAD_SIZE
        /\ pc # "bringup" =>
              /\ ms_maxSize \in Nat /\ MAX_PAYLOAD_SIZE <= ms_maxSize
              /\ s_user_params.msg_size <= ms_maxSize

\* The rate asked for, until SetupData replaces "max", and its limit.
RateInv ==
    pc \in Configured /\ IsClient =>
        /\ s_user_params.measurement = "NUMBER_BASED" => ~Given("mps")
        /\ pc \notin {"do_test"} \cup Handlers => s_user_params.mps = ValueOr("mps", DefaultRate)
        /\ MPS_MAX =
              IF argv.mode = "ping-pong" /\ ValueOr("mps", DefaultRate) = UINT32_MAX
              THEN Smaller((MPS_MAX_PP * s_user_params.burst_size) % (UINT32_MAX + 1), MPS_MAX_UL)
              ELSE MPS_MAX_UL

\* What SetupData stored, and the loop DoTest chose.
SetupInv ==
    /\ pc \in {"do_test"} \cup Handlers =>
        /\ s_user_params.measurement = "NUMBER_BASED" => s_user_params.mps = MPS_MAX
        /\ IsClient /\ ~s_user_params.b_stream =>
              maxSequenceNo >=
                  (IF s_user_params.pPlaybackVector.loaded THEN maxSequenceNo
                   ELSE IF s_user_params.measurement = "NUMBER_BASED"
                   THEN TEST_START_WARMUP_NUM + s_user_params.number_test_target
                          + TEST_END_COOLDOWN_NUM
                   ELSE MaxTestDuration *
                          (IF ValueOr("mps", DefaultRate) = UINT32_MAX THEN MPS_MAX
                           ELSE ValueOr("mps", DefaultRate)) + s_user_params.burst_size)
        /\ IsClient /\ s_user_params.pPlaybackVector.loaded =>
              maxSequenceNo = Len(s_user_params.pPlaybackVector.sizes)
    /\ pc = "client_handler" => IsClient
    /\ pc = "server_handler" => s_user_params.threads_num <= 1

OptionsInv ==
    /\ ArgvInv /\ ModeInv /\ FreshInv /\ CommonInv
    /\ ValuesInv /\ SizesInv /\ RateInv /\ SetupInv

-----------------------------------------------------------------------------
(* The sockets. *)

RecordFields == {"server_addr", "sock_type", "family", "is_multicast", "mc_source", "memberships",
                 "joined", "next_fd"}

\* The table, and the records in it.
TableInv ==
    /\ DOMAIN g_fds_array = Fds
    /\ \A f \in Opened :
        /\ DOMAIN g_fds_array[f] = RecordFields
        /\ g_fds_array[f].next_fd \in Nat
        /\ IsFiniteSet(g_fds_array[f].joined)

\* Sockets have consecutive numbers: from the first free one, or behind the
\* descriptor of the feed file.
PlaceInv ==
    /\ pc \in {"main", "bringup", "single"} \cup Parsing =>
        Opened = {} /\ s_fd_num = 0 /\ s_fd_max = 0 /\ fd_socket_map = [d \in {} |-> 0]
    /\ pc = "feed" =>
        /\ s_fd_num \in Nat
        /\ Opened = (FirstFd + 1) .. (FirstFd + s_fd_num)
        /\ s_fd_num = 0 => s_fd_max = 0
        /\ s_fd_num > 0 =>
              s_fd_min = FirstFd + 1 /\ s_fd_max = FirstFd + s_fd_num /\ last_fd = s_fd_max
        /\ \A f \in Opened : f # last_fd => g_fds_array[f].next_fd = f + 1
    /\ pc \in Prepared =>
        /\ s_fd_num \in Nat \ {0} /\ s_fd_min \in Nat /\ s_fd_max = s_fd_min + s_fd_num - 1
        /\ Opened = s_fd_min .. s_fd_max
        /\ \A f \in Opened :
              g_fds_array[f].next_fd = IF f = s_fd_max THEN s_fd_min ELSE f + 1

\* A single socket unless there is a feed file, and not more threads than
\* sockets after the checks.
NumberInv ==
    /\ pc = "feed" => Given("f")
    /\ pc = "single" => ~Given("f")
    /\ pc \in Prepared => Given("f") \/ s_fd_num = 1
    /\ pc \in {"setup", "do_test"} \cup Handlers => s_user_params.threads_num \in 1 .. s_fd_num
    /\ rc # "SANITY"

\* The map has the ports of all sockets, and sockets of those ports.
MapInv ==
    pc = "feed" =>
        /\ \A f \in Opened :
              /\ g_fds_array[f].server_addr[1] = g_fds_array[f].family
              /\ <<g_fds_array[f].sock_type, g_fds_array[f].family, g_fds_array[f].server_addr[3]>>
                    \in DOMAIN fd_socket_map
        /\ \A d \in DOMAIN fd_socket_map :
              fd_socket_map[d] \in Opened /\ g_fds_array[fd_socket_map[d]].family = d[2]

\* A socket with a group and no sources has joined as many groups as it has
\* addresses: its own, and one for each entry of the list.
Counted(r) == r.is_multicast /\ r.family = 4 /\ \A m \in r.joined : m[2] = None

JoinedInv ==
    ~s_user_params.b_stream =>
        \A f \in Opened :
            Counted(g_fds_array[f]) =>
                /\ g_fds_array[f].memberships \in Seq(Range(g_fds_array[f].memberships))
                /\ Len(g_fds_array[f].memberships) <= IGMP_MAX_MEMBERSHIPS
                /\ pc = "feed" =>
                      /\ Len(g_fds_array[f].memberships) < Cardinality(Groups(g_fds_array[f].joined))
                      /\ Cardinality(Groups(g_fds_array[f].joined)) <= IGMP_MAX_MEMBERSHIPS

SocketsInv == TableInv /\ PlaceInv /\ NumberInv /\ MapInv /\ NoDuplicateSockets /\ JoinedInv

IInv == OptionsInv /\ SocketsInv
-----------------------------------------------------------------------------
(* The options: fields of the parameters. *)

\* The fields of the parameters.
Fields == {"mode", "measurement", "ping_pong", "b_stream", "mps", "reply_every", "msg_size",
           "msg_size_range", "sec_test_duration", "number_test_target", "burst_size",
           "data_integrity", "fd_handler_type", "is_blocked", "max_looping_over_recv", "sock_type",
           "tls", "is_zcopyread", "is_rxfiltercb", "client_addr", "dummy_mps", "pPlaybackVector",
           "mthread_server", "threads_num", "dont_reply"}

LEMMA DefaultFields == DOMAIN Defaults = Fields
  BY DEF Defaults, Fields

\* Storing in one field leaves the others.
LEMMA Store ==
    ASSUME NEW p, NEW f \in Fields, NEW v, DOMAIN p = Fields
    PROVE  LET q == [p EXCEPT ![f] = v]
           IN DOMAIN q = Fields /\ q[f] = v /\ \A g \in Fields : g # f => q[g] = p[g]
  OBVIOUS

\* What the client modes store of their options.
LEMMA ClientValuesFields ==
    ASSUME DOMAIN s_user_params = Fields
    PROVE  /\ DOMAIN ClientValues = Fields
           /\ ClientValues.sec_test_duration = ValueOr("t", s_user_params.sec_test_duration)
           /\ ClientValues.burst_size = ValueOr("b", s_user_params.burst_size)
           /\ ClientValues.reply_every = ValueOr("reply-every", s_user_params.reply_every)
           /\ ClientValues.mps = ValueOr("mps", s_user_params.mps)
           /\ ClientValues.msg_size = ValueOr("m", s_user_params.msg_size)
           /\ ClientValues.msg_size_range = ValueOr("r", s_user_params.msg_size_range)
           /\ \A f \in {"mode", "measurement", "ping_pong", "b_stream", "number_test_target",
                        "data_integrity", "fd_handler_type", "is_blocked", "sock_type",
                        "pPlaybackVector", "mthread_server", "threads_num"} :
                 ClientValues[f] = s_user_params[f]
  BY DEF ClientValues, Fields


\* What a mode stores before it reads an option.
LEMMA ModeDefaultsFields ==
    ASSUME s_user_params = Defaults, MAX_PAYLOAD_SIZE = DEFAULT_PAYLOAD_SIZE,
           argv.mode \in {"under-load", "ping-pong", "throughput", "playback", "server"}
    PROVE  /\ DOMAIN ModeDefaults = Fields
           /\ ModeDefaults.mode = IF IsClient THEN "MODE_CLIENT" ELSE "MODE_SERVER"
           /\ ModeDefaults.ping_pong <=> argv.mode = "ping-pong"
           /\ ModeDefaults.b_stream <=> argv.mode = "throughput"
           /\ ModeDefaults.measurement = "TIME_BASED"
           /\ ModeDefaults.mps = DefaultRate
           /\ ModeDefaults.reply_every \in Nat
           /\ ModeDefaults.ping_pong => ModeDefaults.reply_every = 1
           /\ ModeDefaults.msg_size = IF IsClient THEN MIN_PAYLOAD_SIZE ELSE DEFAULT_PAYLOAD_SIZE
           /\ ModeDefaults.msg_size_range = 0
           /\ ModeDefaults.sec_test_duration = 1
           /\ ModeDefaults.burst_size = 1
           /\ ModeDefaults.data_integrity = FALSE
           /\ ModeDefaults.pPlaybackVector = NoPlayback
           /\ ModeDefaults.threads_num = 1
           /\ ModeDefaults.fd_handler_type = "RECVFROM" /\ ModeDefaults.sock_type = "SOCK_DGRAM"
  <1>1. CASE argv.mode = "under-load"
    BY <1>1, LimitsAssumption DEF ModeDefaults, Defaults, Fields, IsClient, DefaultRate
  <1>2. CASE argv.mode = "ping-pong"
    BY <1>2, LimitsAssumption DEF ModeDefaults, Defaults, Fields, IsClient, DefaultRate
  <1>3. CASE argv.mode = "throughput"
    BY <1>3, LimitsAssumption DEF ModeDefaults, Defaults, Fields, IsClient, DefaultRate
  <1>4. CASE argv.mode = "playback"
    BY <1>4, LimitsAssumption DEF ModeDefaults, Defaults, Fields, IsClient, DefaultRate
  <1>5. CASE argv.mode = "server"
    BY <1>5, LimitsAssumption DEF ModeDefaults, Defaults, Fields, IsClient, DefaultRate
  <1>6. QED BY <1>1, <1>2, <1>3, <1>4, <1>5

-----------------------------------------------------------------------------
(* The options: one step per function. *)

\* At the end of the program nothing is asked of the parameters.
LEMMA ExitOptions ==
    ASSUME OptionsInv, argv' = argv, s_user_params' = s_user_params, pc' = "exit"
    PROVE  OptionsInv'
  BY DEF OptionsInv, ArgvInv, ModeInv, FreshInv, CommonInv, ValuesInv, SizesInv, RateInv, SetupInv,
         Parsing, Prepared, Configured, Handlers

LEMMA SelectModeOptions ==
    ASSUME OptionsInv, SelectMode
    PROVE  OptionsInv'
  <1>1. CASE pc' = "exit"
    BY <1>1, ExitOptions, LimitsAssumption DEF SelectMode
  <1>2. CASE pc' # "exit"
    <2>1. /\ pc = "main" /\ pc' = "common" /\ argv' = argv /\ s_user_params' = ModeDefaults
          /\ argv.mode # "help"
          /\ DOMAIN argv.opts \subseteq
                CommonOptions \cup SelfOptions \cup (IF IsClient THEN ClientOptions ELSE {})
          /\ MAX_PAYLOAD_SIZE' = MAX_PAYLOAD_SIZE /\ MPS_MAX' = MPS_MAX
      BY <1>2 DEF SelectMode
    <2>2. /\ s_user_params = Defaults /\ argv \in CommandLines
          /\ MAX_PAYLOAD_SIZE = DEFAULT_PAYLOAD_SIZE /\ MPS_MAX = MPS_MAX_UL
      BY <2>1 DEF OptionsInv, ArgvInv, FreshInv
    <2>3. argv.mode \in {"under-load", "ping-pong", "throughput", "playback", "server"}
      BY <2>1, <2>2, CommandLinesAssumption
    <2>4. /\ IsClient' = IsClient /\ DefaultRate' = DefaultRate /\ SelfOptions' = SelfOptions
      BY <2>1 DEF IsClient, DefaultRate, SelfOptions
    <2>5. ArgvInv'
      BY <2>1, <2>2, <2>3, <2>4, ModeDefaultsFields, DefaultFields
      DEF ArgvInv, Parsing
    <2>6. ModeInv'
      BY <2>1, <2>2, <2>3, <2>4, ModeDefaultsFields DEF ModeInv
    <2>7. FreshInv'
      BY <2>1, <2>2, <2>3, <2>4, ModeDefaultsFields DEF FreshInv, Parsing
    <2>8. QED
      BY <2>1, <2>5, <2>6, <2>7 DEF OptionsInv, CommonInv, ValuesInv, SizesInv, RateInv, SetupInv,
         Configured, Prepared, Handlers
  <1>3. QED BY <1>1, <1>2

LEMMA ParseCommonOptions ==
    ASSUME OptionsInv, ParseCommonOpt
    PROVE  OptionsInv'
  <1>1. CASE CommonRefused
    BY <1>1, ExitOptions DEF ParseCommonOpt
  <1>2. CASE ~CommonRefused
    <2>1. /\ pc = "common" /\ pc' \in {"client", "self"} /\ argv' = argv
          /\ MAX_PAYLOAD_SIZE' = MAX_PAYLOAD_SIZE /\ MPS_MAX' = MPS_MAX
          /\ DOMAIN s_user_params = Fields
      BY <1>2, DefaultFields DEF ParseCommonOpt, OptionsInv, ArgvInv
    <2>2. /\ DOMAIN s_user_params' = Fields
          /\ \A f \in Fields \ {"fd_handler_type", "is_blocked", "sock_type", "tls", "is_zcopyread"} :
                s_user_params'[f] = s_user_params[f]
          /\ s_user_params'.fd_handler_type =
                ValueOr("F", IF Given("f") THEN "EPOLL" ELSE s_user_params.fd_handler_type)
          /\ ValueOr("F", "") = "SOCKETXTREME" => ~s_user_params'.is_blocked
          /\ s_user_params'.sock_type = IF Given("tcp") THEN "SOCK_STREAM" ELSE s_user_params.sock_type
      BY <1>2, <2>1 DEF ParseCommonOpt, Fields
    <2>3. IsClient' = IsClient /\ DefaultRate' = DefaultRate /\ SelfOptions' = SelfOptions
      BY <2>1 DEF IsClient, DefaultRate, SelfOptions
    <2>4. ArgvInv'
      BY <2>1, <2>2, <2>3, DefaultFields DEF OptionsInv, ArgvInv, Parsing
    <2>5. ModeInv'
      BY <2>1, <2>2, <2>3 DEF OptionsInv, ModeInv, Parsing, Fields
    <2>6. FreshInv'
      <3>1. pc \in Parsing /\ pc' \notin {"main", "common"}
        BY <2>1 DEF Parsing
      <3>2. \A f \in {"measurement", "mps", "reply_every", "ping_pong", "msg_size", "msg_size_range",
                      "sec_test_duration", "burst_size", "data_integrity", "pPlaybackVector",
                      "threads_num"} : s_user_params'[f] = s_user_params[f]
        BY <2>2 DEF Fields
      <3>3. QED BY <2>1, <2>3, <3>1, <3>2 DEF OptionsInv, FreshInv
    <2>7. CommonInv'
      <3>1. Given("f")' = Given("f")
        BY <2>1 DEF Given
      <3>2. s_user_params'.fd_handler_type = "RECVFROM" => ~Given("f")
        BY <1>2, <2>2 DEF CommonRefused, ValueOr
      <3>3. s_user_params'.sock_type = "SOCK_STREAM" => ~Given("f")
        BY <1>2, <2>1, <2>2 DEF CommonRefused, OptionsInv, FreshInv
      <3>4. s_user_params'.fd_handler_type = "SOCKETXTREME" => ~s_user_params'.is_blocked
        BY <2>1, <2>2 DEF OptionsInv, FreshInv, ValueOr
      <3>5. QED BY <3>1, <3>2, <3>3, <3>4 DEF CommonInv
    <2>8. QED
      BY <2>1, <2>4, <2>5, <2>6, <2>7 DEF OptionsInv, ValuesInv, SizesInv, RateInv, SetupInv,
         Configured, Prepared, Handlers
  <1>3. QED BY <1>1, <1>2

LEMMA ParseClientOptions ==
    ASSUME OptionsInv, ParseClientOpt
    PROVE  OptionsInv'
  <1>1. CASE ClientRefused
    BY <1>1, ExitOptions DEF ParseClientOpt
  <1>2. CASE ~ClientRefused
    <2>1. /\ pc = "client" /\ pc' = "self" /\ argv' = argv
          /\ MAX_PAYLOAD_SIZE' = MAX_PAYLOAD_SIZE /\ MPS_MAX' = MPS_MAX
          /\ DOMAIN s_user_params = Fields
      BY <1>2, DefaultFields DEF ParseClientOpt, OptionsInv, ArgvInv
    <2>2. /\ DOMAIN s_user_params' = Fields
          /\ \A f \in Fields \ {"dummy_mps"} : s_user_params'[f] = s_user_params[f]
      BY <1>2, <2>1 DEF ParseClientOpt, Fields
    <2>3. IsClient' = IsClient /\ DefaultRate' = DefaultRate /\ SelfOptions' = SelfOptions
      BY <2>1 DEF IsClient, DefaultRate, SelfOptions
    <2>4. ArgvInv'
      BY <2>1, <2>2, <2>3, DefaultFields DEF OptionsInv, ArgvInv, Parsing
    <2>5. ModeInv'
      BY <2>1, <2>2, <2>3 DEF OptionsInv, ModeInv, Parsing, Fields
    <2>6. FreshInv'
      <3>1. pc \in Parsing /\ pc' \notin {"main", "common"}
        BY <2>1 DEF Parsing
      <3>2. \A f \in {"measurement", "mps", "reply_every", "ping_pong", "msg_size", "msg_size_range",
                      "sec_test_duration", "burst_size", "data_integrity", "pPlaybackVector",
                      "threads_num"} : s_user_params'[f] = s_user_params[f]
        BY <2>2 DEF Fields
      <3>3. QED BY <2>1, <2>3, <3>1, <3>2 DEF OptionsInv, FreshInv
    <2>7. CommonInv'
      BY <2>1, <2>2 DEF OptionsInv, CommonInv, Fields, Given
    <2>8. QED
      BY <2>1, <2>4, <2>5, <2>6, <2>7 DEF OptionsInv, ValuesInv, SizesInv, RateInv, SetupInv,
         Configured, Prepared, Handlers
  <1>3. QED BY <1>1, <1>2


\* Which options a mode does not have.
LEMMA NotGiven ==
    ASSUME OptionsInv, pc = "self"
    PROVE  /\ \A x \in Numbers : Given(x) => Value(x) \in Int
           /\ argv.mode \in {"under-load", "ping-pong", "throughput", "playback", "server"}
           /\ argv.mode \in {"ping-pong", "throughput"} => ~Given("reply-every")
           /\ argv.mode = "playback" => \A x \in {"b", "mps", "m", "r", "t"} : ~Given(x)
  <1>1. /\ argv \in CommandLines /\ argv.mode # "help"
        /\ DOMAIN argv.opts \subseteq
              CommonOptions \cup SelfOptions \cup (IF IsClient THEN ClientOptions ELSE {})
    BY DEF OptionsInv, ArgvInv, Parsing
  <1>2. \A x \in Numbers : Given(x) => Value(x) \in Int
    BY <1>1, CommandLinesAssumption DEF Given, Value
  <1>3. argv.mode \in {"under-load", "ping-pong", "throughput", "playback", "server"}
    BY <1>1, CommandLinesAssumption
  <1>4. argv.mode = "ping-pong" => ~Given("reply-every")
    BY <1>1 DEF SelfOptions, PingPongOptions, CommonOptions, ClientOptions, Given, IsClient
  <1>5. argv.mode = "throughput" => ~Given("reply-every")
    BY <1>1 DEF SelfOptions, ThroughputOptions, CommonOptions, ClientOptions, Given, IsClient
  <1>6. argv.mode = "playback" => \A x \in {"b", "mps", "m", "r", "t"} : ~Given(x)
    BY <1>1 DEF SelfOptions, PlaybackOptions, CommonOptions, ClientOptions, Given, IsClient
  <1>7. QED BY <1>2, <1>3, <1>4, <1>5, <1>6

\* The parameters before the mode's own options are read.
LEMMA SelfFresh ==
    ASSUME OptionsInv, pc = "self"
    PROVE  /\ MAX_PAYLOAD_SIZE = DEFAULT_PAYLOAD_SIZE /\ MPS_MAX = MPS_MAX_UL
           /\ s_user_params.measurement = "TIME_BASED"
           /\ s_user_params.mps = DefaultRate
           /\ s_user_params.reply_every \in Nat
           /\ s_user_params.ping_pong => s_user_params.reply_every = 1
           /\ s_user_params.msg_size = IF IsClient THEN MIN_PAYLOAD_SIZE ELSE DEFAULT_PAYLOAD_SIZE
           /\ s_user_params.msg_size_range = 0
           /\ s_user_params.sec_test_duration = 1
           /\ s_user_params.burst_size = 1
           /\ s_user_params.data_integrity = FALSE
           /\ s_user_params.pPlaybackVector = NoPlayback
           /\ s_user_params.threads_num = 1
           /\ DOMAIN s_user_params = Fields
           /\ s_user_params.ping_pong <=> argv.mode = "ping-pong"
  BY DefaultFields DEF OptionsInv, FreshInv, ArgvInv, ModeInv, Parsing

\* Values of the client modes that are not refused.
LEMMA ClientValuesOK ==
    ASSUME OptionsInv, pc = "self", IsClient, ~ClientValuesRefused
    PROVE  /\ ClientValues.sec_test_duration \in Nat
           /\ ClientValues.burst_size \in Nat \ {0}
           /\ ~Given("b") => ClientValues.burst_size = 1
           /\ ClientValues.reply_every \in Nat
           /\ argv.mode = "ping-pong" => ClientValues.reply_every = 1
           /\ ClientValues.mps = ValueOr("mps", DefaultRate)
           /\ ValueOr("m", MAX_PAYLOAD_SIZE) \in Nat
           /\ ClientValues.msg_size \in MIN_PAYLOAD_SIZE .. ValueOr("m", MAX_PAYLOAD_SIZE)
           /\ ClientValues.msg_size_range \in Nat
  <1>1. /\ \A x \in Numbers : Given(x) => Value(x) \in Int
        /\ argv.mode \in {"ping-pong", "throughput"} => ~Given("reply-every")
    BY NotGiven
  <1>2. /\ MAX_PAYLOAD_SIZE = DEFAULT_PAYLOAD_SIZE
        /\ s_user_params.mps = DefaultRate
        /\ s_user_params.reply_every \in Nat
        /\ argv.mode = "ping-pong" => s_user_params.reply_every = 1
        /\ s_user_params.msg_size = MIN_PAYLOAD_SIZE
        /\ s_user_params.msg_size_range = 0
        /\ s_user_params.sec_test_duration = 1
        /\ s_user_params.burst_size = 1
        /\ DOMAIN s_user_params = Fields
    BY SelfFresh
  <1>3. /\ Given("t") => Value("t") \in 1 .. MAX_DURATION
        /\ Given("b") => ~(Value("b") < 1)
        /\ Given("reply-every") => Value("reply-every") \in 1 .. MAX_OPTION
        /\ Given("m") => SizeValid(Value("m"))
        /\ Given("r") => ~(Value("r") < 0)
    BY DEF ClientValuesRefused
  <1>4. ClientValues.sec_test_duration \in Nat
    BY <1>2, <1>3, ClientValuesFields, LimitsAssumption DEF ValueOr
  <1>5. ClientValues.burst_size \in Nat \ {0} /\ (~Given("b") => ClientValues.burst_size = 1)
    BY <1>1, <1>2, <1>3, ClientValuesFields DEF ValueOr, Numbers
  <1>6. ClientValues.reply_every \in Nat /\ (argv.mode = "ping-pong" => ClientValues.reply_every = 1)
    BY <1>1, <1>2, <1>3, ClientValuesFields, LimitsAssumption DEF ValueOr
  <1>7. ClientValues.mps = ValueOr("mps", DefaultRate)
    BY <1>2, ClientValuesFields
  <1>8. Given("m") => Value("m") \in Int /\ Value("m") >= MIN_PAYLOAD_SIZE
    BY <1>1, <1>3 DEF Numbers, SizeValid
  <1>9. /\ ValueOr("m", MAX_PAYLOAD_SIZE) \in Nat
        /\ ClientValues.msg_size \in MIN_PAYLOAD_SIZE .. ValueOr("m", MAX_PAYLOAD_SIZE)
    BY <1>2, <1>8, ClientValuesFields, LimitsAssumption DEF ValueOr
  <1>10. ClientValues.msg_size_range \in Nat
    BY <1>1, <1>2, <1>3, ClientValuesFields DEF ValueOr, Numbers
  <1>11. QED BY <1>4, <1>5, <1>6, <1>7, <1>9, <1>10

\* The end of a mode's function.
LEMMA ReadyOptions ==
    ASSUME OptionsInv, pc = "self", pc' = "bringup", argv' = argv,
           DOMAIN s_user_params' = Fields,
           \A f \in {"mode", "ping_pong", "b_stream", "fd_handler_type", "is_blocked", "sock_type"} :
               s_user_params'[f] = s_user_params[f],
           ValuesInv', SizesInv', RateInv'
    PROVE  OptionsInv'
  <1>1. ArgvInv'
    BY DefaultFields DEF OptionsInv, ArgvInv, Parsing, Configured, SelfOptions, IsClient
  <1>2. ModeInv'
    BY DEF OptionsInv, ModeInv, Parsing, Configured, IsClient
  <1>3. FreshInv'
    BY DEF FreshInv, Parsing
  <1>4. CommonInv'
    BY DEF OptionsInv, CommonInv, Configured, Given
  <1>5. SetupInv'
    BY DEF SetupInv, Handlers
  <1>6. QED BY <1>1, <1>2, <1>3, <1>4, <1>5 DEF OptionsInv

\* The modes without a file and without a number of messages.
LEMMA PlainClientOptions ==
    ASSUME OptionsInv, argv.mode \in {"under-load", "throughput"},
           Return(ClientValuesRefused \/ BindRefused, ClientValues,
                  ValueOr("m", MAX_PAYLOAD_SIZE), MPS_MAX)
    PROVE  OptionsInv'
  <1>1. CASE ClientValuesRefused \/ BindRefused
    BY <1>1, ExitOptions DEF Return
  <1>2. CASE ~(ClientValuesRefused \/ BindRefused)
    <2>1. /\ pc = "self" /\ pc' = "bringup" /\ argv' = argv /\ s_user_params' = ClientValues
          /\ MAX_PAYLOAD_SIZE' = ValueOr("m", MAX_PAYLOAD_SIZE) /\ MPS_MAX' = MPS_MAX
          /\ IsClient /\ IsClient' = IsClient /\ DefaultRate' = DefaultRate
          /\ ~ClientValuesRefused
      BY <1>2 DEF Return, IsClient, DefaultRate
    <2>2. /\ DOMAIN ClientValues = Fields
          /\ \A f \in {"mode", "measurement", "ping_pong", "b_stream", "number_test_target",
                       "data_integrity", "fd_handler_type", "is_blocked", "sock_type",
                       "pPlaybackVector", "mthread_server", "threads_num"} :
                ClientValues[f] = s_user_params[f]
      BY <2>1, ClientValuesFields, SelfFresh
    <2>3. ClientValues.measurement = "TIME_BASED" /\ ClientValues.data_integrity = FALSE
          /\ ClientValues.pPlaybackVector = NoPlayback /\ ClientValues.threads_num = 1
          /\ ~ClientValues.ping_pong
      BY <2>1, <2>2, SelfFresh
    <2>4. ValuesInv'
      BY <2>1, <2>3, ClientValuesOK DEF ValuesInv, NoPlayback
    <2>5. SizesInv'
      BY <2>1, <2>3, ClientValuesOK, SelfFresh, LimitsAssumption DEF SizesInv, NoPlayback
    <2>6. RateInv'
      <3>1. Given("mps")' = Given("mps") /\ ValueOr("mps", DefaultRate)' = ValueOr("mps", DefaultRate)
        BY <2>1 DEF Given, ValueOr, Value
      <3>2. QED BY <2>1, <2>3, <3>1, ClientValuesOK, SelfFresh DEF RateInv
    <2>7. QED BY <2>1, <2>2, <2>4, <2>5, <2>6, ReadyOptions
  <1>3. QED BY <1>1, <1>2


LEMMA PingPongOptionsStep ==
    ASSUME OptionsInv, ProcModePingPong
    PROVE  OptionsInv'
  <1> DEFINE refused == \/ ClientValuesRefused \/ BindRefused \/ NumberRefused
                        \/ Given("data-integrity") /\ Given("b")
  <1>1. CASE refused
    BY <1>1, ExitOptions DEF Return, ProcModePingPong
  <1>2. CASE ~refused
    <2>1. /\ pc = "self" /\ pc' = "bringup" /\ argv' = argv /\ s_user_params' = PingPongValues
          /\ MAX_PAYLOAD_SIZE' = ValueOr("m", MAX_PAYLOAD_SIZE) /\ MPS_MAX' = PingPongLimit
          /\ argv.mode = "ping-pong"
          /\ ~ClientValuesRefused /\ ~NumberRefused /\ ~(Given("data-integrity") /\ Given("b"))
      BY <1>2 DEF Return, ProcModePingPong
    <2>2. IsClient /\ IsClient' = IsClient /\ DefaultRate' = DefaultRate
      BY <2>1 DEF IsClient, DefaultRate
    <2>3. /\ DOMAIN ClientValues = Fields
          /\ \A f \in {"mode", "measurement", "ping_pong", "b_stream", "number_test_target",
                       "data_integrity", "fd_handler_type", "is_blocked", "sock_type",
                       "pPlaybackVector", "mthread_server", "threads_num"} :
                ClientValues[f] = s_user_params[f]
      BY <2>1, ClientValuesFields, SelfFresh
    <2>4. /\ DOMAIN PingPongValues = Fields
          /\ \A f \in Fields \ {"measurement", "number_test_target", "data_integrity"} :
                PingPongValues[f] = ClientValues[f]
          /\ PingPongValues.measurement = IF Given("n") THEN "NUMBER_BASED" ELSE ClientValues.measurement
          /\ PingPongValues.number_test_target = ValueOr("n", ClientValues.number_test_target)
          /\ PingPongValues.data_integrity => Given("data-integrity")
      BY <2>3 DEF PingPongValues, Fields
    <2>5. /\ ClientValues.measurement = "TIME_BASED" /\ ClientValues.data_integrity = FALSE
          /\ ClientValues.pPlaybackVector = NoPlayback /\ ClientValues.threads_num = 1
      BY <2>1, <2>3, SelfFresh
    <2>6. PingPongValues.measurement = "NUMBER_BASED" =>
             ~Given("mps") /\ PingPongValues.number_test_target \in 1 .. MAX_PACKET_NUMBER
      BY <2>1, <2>4, <2>5 DEF NumberRefused, ValueOr
    <2>7. \A f \in {"mps", "reply_every", "burst_size", "sec_test_duration", "msg_size",
                    "msg_size_range", "pPlaybackVector", "threads_num"} :
             PingPongValues[f] = ClientValues[f]
      BY <2>4 DEF Fields
    <2>8. ValuesInv'
      BY <2>1, <2>2, <2>4, <2>5, <2>6, <2>7, ClientValuesOK DEF ValuesInv, NoPlayback
    <2>9. PingPongLimit =
             IF ValueOr("mps", DefaultRate) = UINT32_MAX
             THEN Smaller((MPS_MAX_PP * PingPongValues.burst_size) % (UINT32_MAX + 1), MPS_MAX_UL)
             ELSE MPS_MAX_UL
      BY <2>1, <2>2, <2>7, ClientValuesOK, SelfFresh DEF PingPongLimit
    <2>10. PingPongLimit \in Nat
      <3>1. PingPongValues.burst_size \in Nat /\ MPS_MAX_PP \in Nat
        BY <2>1, <2>2, <2>7, ClientValuesOK, LimitsAssumption
      <3>2. MPS_MAX_PP * PingPongValues.burst_size \in Nat /\ UINT32_MAX + 1 \in Nat \ {0}
        BY <3>1, LimitsAssumption
      <3>3. (MPS_MAX_PP * PingPongValues.burst_size) % (UINT32_MAX + 1) \in Nat
        BY <3>2
      <3>4. QED BY <2>9, <3>3, LimitsAssumption DEF Smaller
    <2>11. SizesInv'
      BY <2>1, <2>2, <2>5, <2>7, <2>10, ClientValuesOK, LimitsAssumption DEF SizesInv, NoPlayback
    <2>12. RateInv'
      <3>1. Given("mps")' = Given("mps") /\ ValueOr("mps", DefaultRate)' = ValueOr("mps", DefaultRate)
        BY <2>1, <2>2 DEF Given, ValueOr, Value
      <3>2. QED BY <2>1, <2>2, <2>6, <2>7, <2>9, <3>1, ClientValuesOK DEF RateInv
    <2>13. \A f \in {"mode", "ping_pong", "b_stream", "fd_handler_type", "is_blocked", "sock_type"} :
              s_user_params'[f] = s_user_params[f]
      BY <2>1, <2>3, <2>4 DEF Fields
    <2>14. QED BY <2>1, <2>4, <2>8, <2>11, <2>12, <2>13, ReadyOptions
  <1>3. QED BY <1>1, <1>2

LEMMA PlaybackOptionsStep ==
    ASSUME OptionsInv, ProcModePlayback
    PROVE  OptionsInv'
  <1> DEFINE refused == ClientValuesRefused \/ ~Given("data-file") \/ PlaybackRefused
             values == [ClientValues EXCEPT !.pPlaybackVector = PlaybackVector]
  <1>1. CASE refused
    BY <1>1, ExitOptions DEF Return, ProcModePlayback
  <1>2. CASE ~refused
    <2>1. /\ pc = "self" /\ pc' = "bringup" /\ argv' = argv /\ s_user_params' = values
          /\ MAX_PAYLOAD_SIZE' = MAX_PAYLOAD_SIZE /\ MPS_MAX' = MPS_MAX
          /\ argv.mode = "playback" /\ ~ClientValuesRefused /\ ~PlaybackRefused
      BY <1>2 DEF Return, ProcModePlayback
    <2>2. IsClient /\ IsClient' = IsClient /\ DefaultRate' = DefaultRate
      BY <2>1 DEF IsClient, DefaultRate
    <2>3. /\ DOMAIN ClientValues = Fields
          /\ \A f \in {"mode", "measurement", "ping_pong", "b_stream", "number_test_target",
                       "data_integrity", "fd_handler_type", "is_blocked", "sock_type",
                       "mthread_server", "threads_num"} :
                ClientValues[f] = s_user_params[f]
      BY <2>1, ClientValuesFields, SelfFresh
    <2>4. /\ DOMAIN values = Fields /\ values.pPlaybackVector = PlaybackVector
          /\ \A f \in Fields \ {"pPlaybackVector"} : values[f] = ClientValues[f]
      BY <2>3 DEF Fields
    <2> HIDE DEF values
    <2>5. /\ ClientValues.measurement = "TIME_BASED" /\ ClientValues.data_integrity = FALSE
          /\ ClientValues.threads_num = 1 /\ ~ClientValues.ping_pong
      BY <2>1, <2>3, SelfFresh
    <2>6. \A f \in {"measurement", "ping_pong", "data_integrity", "mps", "reply_every", "burst_size",
                    "sec_test_duration", "msg_size", "msg_size_range", "threads_num"} :
             values[f] = ClientValues[f]
      BY <2>4 DEF Fields
    <2>7. /\ PlaybackVector.loaded
          /\ \A n \in DOMAIN PlaybackVector.sizes :
                PlaybackVector.sizes[n] \in MIN_PLAYBACK_SIZE .. MAX_PLAYBACK_SIZE
      BY <2>1 DEF PlaybackVector, PlaybackRefused, PlaybackItemValid
    <2>8. ~Given("b") /\ ~Given("mps") /\ ~Given("m")
      BY <2>1, NotGiven
    <2>9. ValuesInv'
      BY <2>1, <2>2, <2>4, <2>5, <2>6, <2>7, <2>8, ClientValuesOK DEF ValuesInv
    <2>10. ValueOr("m", MAX_PAYLOAD_SIZE) = MAX_PAYLOAD_SIZE
      BY <2>8 DEF ValueOr
    <2>11. SizesInv'
      <3>1. /\ MAX_PAYLOAD_SIZE \in Nat /\ MPS_MAX \in Nat
            /\ ClientValues.msg_size \in MIN_PAYLOAD_SIZE .. MAX_PAYLOAD_SIZE
            /\ ClientValues.msg_size_range \in Nat
        BY <2>1, <2>2, <2>10, ClientValuesOK, SelfFresh, LimitsAssumption
      <3>2. \A n \in DOMAIN PlaybackVector.sizes :
               PlaybackVector.sizes[n] \in MIN_PAYLOAD_SIZE .. MAX_PAYLOAD_SIZE
        BY <2>1, <2>7, SelfFresh, LimitsAssumption
      <3>3. QED BY <2>1, <2>4, <2>6, <3>1, <3>2, LimitsAssumption DEF SizesInv
    <2>12. RateInv'
      <3>1. Given("mps")' = Given("mps") /\ ValueOr("mps", DefaultRate)' = ValueOr("mps", DefaultRate)
        BY <2>1, <2>2 DEF Given, ValueOr, Value
      <3>2. QED BY <2>1, <2>2, <2>5, <2>6, <3>1, ClientValuesOK, SelfFresh DEF RateInv
    <2>13. \A f \in {"mode", "ping_pong", "b_stream", "fd_handler_type", "is_blocked", "sock_type"} :
              s_user_params'[f] = s_user_params[f]
      BY <2>1, <2>3, <2>4 DEF Fields
    <2>14. QED BY <2>1, <2>4, <2>9, <2>11, <2>12, <2>13, ReadyOptions
  <1>3. QED BY <1>1, <1>2

LEMMA ServerOptionsStep ==
    ASSUME OptionsInv, ProcModeServer
    PROVE  OptionsInv'
  <1> DEFINE refused == \/ ThreadsRefused
                        \/ Given("dont-reply") /\ Given("tcp")
                        \/ Given("m") /\ Value("m") > MAX_TCP_SIZE
                        \/ Given("other self") /\ ~Value("other self")
             values == [s_user_params EXCEPT !.mthread_server = Given("threads-num"),
                                             !.threads_num = ValueOr("threads-num", @),
                                             !.is_rxfiltercb = Given("rxfiltercb"),
                                             !.dont_reply = Given("dont-reply")]
  <1>1. CASE refused
    BY <1>1, ExitOptions DEF Return, ProcModeServer
  <1>2. CASE ~refused
    <2>1. /\ pc = "self" /\ pc' = "bringup" /\ argv' = argv /\ s_user_params' = values
          /\ MAX_PAYLOAD_SIZE' = Larger(MAX_PAYLOAD_SIZE, ValueOr("m", 0)) /\ MPS_MAX' = MPS_MAX
          /\ argv.mode = "server" /\ ~ThreadsRefused
      BY <1>2 DEF Return, ProcModeServer
    <2>2. ~IsClient /\ IsClient' = IsClient
      BY <2>1 DEF IsClient
    <2>3. /\ DOMAIN values = Fields
          /\ \A f \in Fields \ {"mthread_server", "threads_num", "is_rxfiltercb", "dont_reply"} :
                values[f] = s_user_params[f]
          /\ values.threads_num = ValueOr("threads-num", s_user_params.threads_num)
          /\ Given("threads-num") => values.mthread_server
      BY <2>1, SelfFresh DEF Fields
    <2> HIDE DEF values
    <2>4. \A f \in {"measurement", "ping_pong", "data_integrity", "reply_every", "burst_size",
                    "sec_test_duration", "msg_size", "pPlaybackVector", "fd_handler_type"} :
             values[f] = s_user_params[f]
      BY <2>3 DEF Fields
    <2>5. /\ Given("threads-num") => Value("threads-num") \in Int
          /\ Given("m") => Value("m") \in Int
      BY <2>1, NotGiven DEF Numbers
    <2>6. /\ values.threads_num \in Nat
          /\ values.threads_num > 1 =>
                values.mthread_server /\ values.fd_handler_type # "RECVFROMMUX"
      <3>1. CASE Given("threads-num")
        BY <2>1, <2>3, <2>4, <2>5, <3>1 DEF ThreadsRefused, ValueOr
      <3>2. CASE ~Given("threads-num")
        BY <2>1, <2>3, <3>2, SelfFresh DEF ValueOr
      <3>3. QED BY <3>1, <3>2
    <2>7. ValuesInv'
      BY <2>1, <2>2, <2>4, <2>6, SelfFresh DEF ValuesInv, NoPlayback
    <2>8. SizesInv'
      BY <2>1, <2>2, <2>4, <2>5, SelfFresh, LimitsAssumption
      DEF SizesInv, NoPlayback, Larger, ValueOr
    <2>9. RateInv'
      BY <2>2 DEF RateInv
    <2>10. \A f \in {"mode", "ping_pong", "b_stream", "fd_handler_type", "is_blocked", "sock_type"} :
              s_user_params'[f] = s_user_params[f]
      BY <2>1, <2>3 DEF Fields
    <2>11. QED BY <2>1, <2>3, <2>7, <2>8, <2>9, <2>10, ReadyOptions
  <1>3. QED BY <1>1, <1>2

\* Every function of the options keeps what is known of them.
LEMMA ParseOptions ==
    ASSUME OptionsInv, Parse
    PROVE  OptionsInv'
  <1>1. CASE ProcModeUnderLoad
    BY <1>1, PlainClientOptions DEF ProcModeUnderLoad
  <1>2. CASE ProcModeThroughput
    BY <1>2, PlainClientOptions DEF ProcModeThroughput
  <1>3. QED
    BY <1>1, <1>2, SelectModeOptions, ParseCommonOptions, ParseClientOptions, PingPongOptionsStep,
       PlaybackOptionsStep, ServerOptionsStep DEF Parse


-----------------------------------------------------------------------------
(* The options during bring-up. *)

\* Between the options and the sizes of the test nothing is stored in them.
LEMMA KeepOptions ==
    ASSUME OptionsInv, UNCHANGED <<options, ms_maxSize, maxSequenceNo>>,
           pc \in {"feed", "single", "checks"}, pc' \in {"feed", "single", "checks", "setup"}
    PROVE  OptionsInv'
  <1>1. /\ argv' = argv /\ s_user_params' = s_user_params /\ MAX_PAYLOAD_SIZE' = MAX_PAYLOAD_SIZE
        /\ MPS_MAX' = MPS_MAX /\ ms_maxSize' = ms_maxSize /\ maxSequenceNo' = maxSequenceNo
    BY DEF options
  <1>2. /\ pc \in Configured /\ pc \notin {"main", "bringup"} \cup Parsing
        /\ pc' \in Configured /\ pc' \notin {"main", "bringup", "do_test"} \cup Parsing \cup Handlers
        /\ pc \notin {"do_test"} \cup Handlers
    BY DEF Configured, Prepared, Parsing, Handlers
  <1>3. ArgvInv' /\ ModeInv' /\ FreshInv'
    BY <1>1, <1>2 DEF OptionsInv, ArgvInv, ModeInv, FreshInv, SelfOptions, IsClient
  <1>4. CommonInv' /\ ValuesInv'
    BY <1>1, <1>2 DEF OptionsInv, CommonInv, ValuesInv, Given, IsClient
  <1>5. SizesInv'
    BY <1>1, <1>2 DEF OptionsInv, SizesInv, IsClient
  <1>6. RateInv'
    BY <1>1, <1>2 DEF OptionsInv, RateInv, IsClient, DefaultRate, ValueOr, Value, Given
  <1>7. SetupInv'
    BY <1>2 DEF SetupInv, Handlers
  <1>8. QED BY <1>3, <1>4, <1>5, <1>6, <1>7 DEF OptionsInv

\* The buffers get a size at which the largest message fits.
LEMMA SetupApiOptions ==
    ASSUME OptionsInv, NEW get_api \in BOOLEAN, NEW tls_init \in BOOLEAN, SetupApi(get_api, tls_init)
    PROVE  OptionsInv'
  <1>1. CASE pc' = "exit"
    BY <1>1, ExitOptions DEF SetupApi, options
  <1>2. CASE pc' # "exit"
    <2>1. /\ pc = "bringup" /\ pc' \in {"feed", "single"} /\ ms_maxSize' = MaxSize
          /\ argv' = argv /\ s_user_params' = s_user_params /\ MAX_PAYLOAD_SIZE' = MAX_PAYLOAD_SIZE
          /\ MPS_MAX' = MPS_MAX
      BY <1>2 DEF SetupApi, Fail, options
    <2>2. /\ pc \in Configured /\ pc \notin {"main", "do_test"} \cup Parsing \cup Handlers
          /\ pc' \in Configured /\ pc' \notin {"main", "bringup", "do_test"} \cup Parsing \cup Handlers
      BY <2>1 DEF Configured, Prepared, Parsing, Handlers
    <2>3. ArgvInv' /\ ModeInv' /\ FreshInv'
      BY <2>1, <2>2 DEF OptionsInv, ArgvInv, ModeInv, FreshInv, SelfOptions, IsClient
    <2>4. CommonInv' /\ ValuesInv'
      BY <2>1, <2>2 DEF OptionsInv, CommonInv, ValuesInv, Given, IsClient
    <2>5. MAX_PAYLOAD_SIZE \in Nat /\ s_user_params.msg_size \in Nat
      BY <2>2 DEF OptionsInv, SizesInv
    <2>6. MaxSize \in Nat /\ MAX_PAYLOAD_SIZE <= MaxSize /\ s_user_params.msg_size <= MaxSize
      <3>1. CASE UsesApi
        BY <2>5, <3>1, BringupAssumption DEF MaxSize, Larger
      <3>2. CASE ~UsesApi
        BY <2>5, <3>2 DEF MaxSize, Larger
      <3>3. QED BY <3>1, <3>2
    <2>7. SizesInv'
      BY <2>1, <2>2, <2>6 DEF OptionsInv, SizesInv, IsClient
    <2>8. RateInv'
      BY <2>1, <2>2 DEF OptionsInv, RateInv, IsClient, DefaultRate, ValueOr, Value, Given
    <2>9. SetupInv'
      BY <2>2 DEF SetupInv, Handlers
    <2>10. QED BY <2>3, <2>4, <2>7, <2>8, <2>9 DEF OptionsInv
  <1>3. QED BY <1>1, <1>2

\* The table of a test is made for the rate asked for.
LEMMA SetupDataOptions ==
    ASSUME OptionsInv, SetupData
    PROVE  OptionsInv'
  <1>1. /\ pc = "setup" /\ pc' = "do_test" /\ argv' = argv /\ MAX_PAYLOAD_SIZE' = MAX_PAYLOAD_SIZE
        /\ MPS_MAX' = MPS_MAX /\ ms_maxSize' = ms_maxSize /\ maxSequenceNo' = MaxSequenceNo
        /\ DOMAIN s_user_params = Fields
        /\ s_user_params' = [s_user_params EXCEPT !.mps = Mps]
    BY DefaultFields DEF SetupData, OptionsInv, ArgvInv
  <1>2. /\ DOMAIN s_user_params' = Fields /\ s_user_params'.mps = Mps
        /\ \A f \in Fields \ {"mps"} : s_user_params'[f] = s_user_params[f]
    BY <1>1 DEF Fields
  <1>3. \A f \in {"mode", "measurement", "ping_pong", "b_stream", "number_test_target",
                  "data_integrity", "fd_handler_type", "is_blocked", "sock_type", "pPlaybackVector",
                  "mthread_server", "threads_num", "reply_every", "burst_size", "sec_test_duration",
                  "msg_size", "msg_size_range"} :
           s_user_params'[f] = s_user_params[f]
    BY <1>2 DEF Fields
  <1>4. /\ pc \in Configured /\ pc \notin {"main", "bringup", "do_test"} \cup Parsing \cup Handlers
        /\ pc' \in Configured /\ pc' \notin {"main", "bringup"} \cup Parsing \cup Handlers
    BY <1>1 DEF Configured, Prepared, Parsing, Handlers
  <1>5. /\ IsClient' = IsClient /\ DefaultRate' = DefaultRate /\ SelfOptions' = SelfOptions
        /\ Given("f")' = Given("f") /\ Given("mps")' = Given("mps")
        /\ ValueOr("mps", DefaultRate)' = ValueOr("mps", DefaultRate)
    BY <1>1 DEF IsClient, DefaultRate, SelfOptions, Given, ValueOr, Value
  <1>6. ArgvInv'
    BY <1>1, <1>2, <1>4, <1>5, DefaultFields DEF OptionsInv, ArgvInv
  <1>7. ModeInv'
    <2>1. /\ s_user_params'.mode = s_user_params.mode
          /\ s_user_params'.ping_pong = s_user_params.ping_pong
          /\ s_user_params'.b_stream = s_user_params.b_stream
      BY <1>3
    <2>2. argv' = argv
      BY <1>1
    <2>3. QED BY <1>4, <1>5, <2>1, <2>2 DEF OptionsInv, ModeInv
  <1>8. FreshInv'
    BY <1>1, <1>4 DEF FreshInv
  <1>9. CommonInv'
    BY <1>3, <1>4, <1>5 DEF OptionsInv, CommonInv
  <1>10. ValuesInv'
    BY <1>1, <1>3, <1>4, <1>5 DEF OptionsInv, ValuesInv
  <1>11. SizesInv'
    BY <1>1, <1>3, <1>4, <1>5 DEF OptionsInv, SizesInv
  <1>12. RateInv'
    BY <1>1, <1>3, <1>4, <1>5 DEF OptionsInv, RateInv
  <1>13. SetupInv'
    <2>1. s_user_params.measurement = "NUMBER_BASED" => Mps = MPS_MAX
      <3>1. SUFFICES ASSUME s_user_params.measurement = "NUMBER_BASED"
                     PROVE  Mps = MPS_MAX
        OBVIOUS
      <3>2. argv.mode = "ping-pong" /\ IsClient
        BY <1>4, <3>1 DEF OptionsInv, ValuesInv, IsClient
      <3>3. s_user_params.mps = ValueOr("mps", DefaultRate) /\ ~Given("mps")
        BY <1>4, <3>1, <3>2 DEF OptionsInv, RateInv
      <3>4. QED BY <3>2, <3>3 DEF ValueOr, DefaultRate, Mps
    <2>2. MaxTestDuration' = MaxTestDuration
      BY <1>3 DEF MaxTestDuration
    <2>3. SUFFICES ASSUME IsClient
                   PROVE  /\ ~s_user_params.b_stream =>
                              MaxSequenceNo >=
                                (IF s_user_params.pPlaybackVector.loaded THEN MaxSequenceNo
                                 ELSE IF s_user_params.measurement = "NUMBER_BASED"
                                 THEN TEST_START_WARMUP_NUM + s_user_params.number_test_target
                                        + TEST_END_COOLDOWN_NUM
                                 ELSE MaxTestDuration *
                                        (IF ValueOr("mps", DefaultRate) = UINT32_MAX THEN MPS_MAX
                                         ELSE ValueOr("mps", DefaultRate)) + s_user_params.burst_size)
                          /\ s_user_params.pPlaybackVector.loaded =>
                              MaxSequenceNo = Len(s_user_params.pPlaybackVector.sizes)
      BY <1>1, <1>2, <1>3, <1>4, <1>5, <2>1, <2>2 DEF SetupInv, Handlers
    <2>4. s_user_params.mode = "MODE_CLIENT"
      BY <1>4, <2>3 DEF OptionsInv, ModeInv
    <2>5. CASE s_user_params.pPlaybackVector.loaded
      BY <2>4, <2>5 DEF MaxSequenceNo
    <2>6. CASE /\ ~s_user_params.pPlaybackVector.loaded
               /\ s_user_params.measurement = "NUMBER_BASED"
      <3>1. s_user_params.number_test_target \in 1 .. MAX_PACKET_NUMBER
        BY <1>4, <2>6 DEF OptionsInv, ValuesInv
      <3>2. MaxSequenceNo = TEST_START_WARMUP_NUM + MAX_PACKET_NUMBER + TEST_END_COOLDOWN_NUM
        BY <2>4, <2>6 DEF MaxSequenceNo
      <3>3. /\ MAX_PACKET_NUMBER \in Nat /\ TEST_START_WARMUP_NUM \in Nat
            /\ TEST_END_COOLDOWN_NUM \in Nat
        BY LimitsAssumption, BringupAssumption
      <3>4. MaxSequenceNo >= TEST_START_WARMUP_NUM + s_user_params.number_test_target
                               + TEST_END_COOLDOWN_NUM
        BY <3>1, <3>2, <3>3
      <3>5. QED BY <2>6, <3>4
    <2>7. CASE /\ ~s_user_params.pPlaybackVector.loaded
               /\ s_user_params.measurement # "NUMBER_BASED"
      <3> DEFINE rate == IF ValueOr("mps", DefaultRate) = UINT32_MAX THEN MPS_MAX
                         ELSE ValueOr("mps", DefaultRate)
      <3>1. Mps = rate
        BY <1>4, <2>3 DEF OptionsInv, RateInv, Mps
      <3>2. MaxSequenceNo = MaxTestDuration * rate +
                             ((10 * s_user_params.reply_every) % (UINT32_MAX + 1))
                             + s_user_params.burst_size
        BY <2>4, <2>7, <3>1 DEF MaxSequenceNo
      <3>3. /\ s_user_params.reply_every \in Nat /\ s_user_params.burst_size \in Nat
            /\ s_user_params.sec_test_duration \in Nat
        BY <1>4 DEF OptionsInv, ValuesInv
      <3>4. (10 * s_user_params.reply_every) % (UINT32_MAX + 1) \in Nat
        <4>1. 10 * s_user_params.reply_every \in Nat /\ UINT32_MAX + 1 \in Nat \ {0}
          BY <3>3, LimitsAssumption
        <4>2. QED BY <4>1
      <3>5. rate \in Int
        <4>1. MPS_MAX \in Nat
          BY <1>4 DEF OptionsInv, SizesInv
        <4>2. Given("mps") => Value("mps") \in Int
          BY CommandLinesAssumption DEF OptionsInv, ArgvInv, Numbers, Given, Value
        <4>3. QED BY <4>1, <4>2, LimitsAssumption DEF ValueOr, DefaultRate
      <3>6. MaxTestDuration \in Nat
        BY <3>3, BringupAssumption DEF MaxTestDuration
      <3> HIDE DEF rate
      <3>7. MaxTestDuration * rate \in Int
        BY <3>5, <3>6
      <3>8. MaxSequenceNo >= MaxTestDuration * rate + s_user_params.burst_size
        BY <3>2, <3>3, <3>4, <3>7
      <3>9. QED BY <2>7, <3>8 DEF rate
    <2>8. QED BY <2>5, <2>6, <2>7
  <1>14. QED BY <1>6, <1>7, <1>8, <1>9, <1>10, <1>11, <1>12, <1>13 DEF OptionsInv

\* do_test() chooses the loop of the mode.
LEMMA DoTestOptions ==
    ASSUME OptionsInv, DoTest
    PROVE  OptionsInv'
  <1>1. /\ pc = "do_test" /\ pc' \in Handlers
        /\ argv' = argv /\ s_user_params' = s_user_params /\ MAX_PAYLOAD_SIZE' = MAX_PAYLOAD_SIZE
        /\ MPS_MAX' = MPS_MAX /\ ms_maxSize' = ms_maxSize /\ maxSequenceNo' = maxSequenceNo
    BY DEF DoTest, options, Handlers
  <1>2. /\ pc \in Configured /\ pc' \in Configured
        /\ pc' \notin {"main", "bringup"} \cup Parsing /\ pc' \in {"do_test"} \cup Handlers
        /\ pc \in {"do_test"} \cup Handlers
    BY <1>1 DEF Configured, Prepared, Parsing, Handlers
  <1>3. ArgvInv' /\ ModeInv' /\ FreshInv'
    BY <1>1, <1>2
       DEF OptionsInv, ArgvInv, ModeInv, FreshInv, SelfOptions, IsClient, Parsing, Handlers
  <1>4. CommonInv' /\ ValuesInv'
    BY <1>1, <1>2 DEF OptionsInv, CommonInv, ValuesInv, Given, IsClient
  <1>5. SizesInv'
    BY <1>1, <1>2 DEF OptionsInv, SizesInv, IsClient
  <1>6. RateInv'
    BY <1>1, <1>2 DEF OptionsInv, RateInv, IsClient, DefaultRate, ValueOr, Value, Given
  <1>7. SetupInv'
    <2>1. pc' = "client_handler" => IsClient
      BY <1>1, <1>2 DEF DoTest, OptionsInv, ModeInv
    <2>2. pc' = "server_handler" => s_user_params.threads_num <= 1
      <3>1. SUFFICES ASSUME pc' = "server_handler", s_user_params.threads_num > 1
                     PROVE  FALSE
        BY <1>2 DEF OptionsInv, ValuesInv
      <3>2. ~IsClient /\ s_user_params.mthread_server
        BY <1>2, <3>1 DEF OptionsInv, ValuesInv
      <3>3. s_user_params.mode = "MODE_SERVER"
        BY <1>2, <3>2 DEF OptionsInv, ModeInv
      <3>4. QED BY <3>1, <3>2, <3>3 DEF DoTest
    <2>3. QED
      BY <1>1, <1>2, <2>1, <2>2
         DEF OptionsInv, SetupInv, IsClient, DefaultRate, ValueOr, Value, Given,
         MaxTestDuration
  <1>8. QED BY <1>3, <1>4, <1>5, <1>6, <1>7 DEF OptionsInv

LEMMA InitOptionsInv ==
    ASSUME Init
    PROVE  OptionsInv
  BY DEF Init, InitOptions, OptionsInv, ArgvInv, ModeInv, FreshInv, CommonInv, ValuesInv, SizesInv,
     RateInv, SetupInv, Parsing, Configured, Prepared, Handlers

LEMMA StepOptionsInv ==
    ASSUME OptionsInv, [Next]_vars
    PROVE  OptionsInv'
  <1>1. CASE UNCHANGED vars
    <2>1. /\ argv' = argv /\ pc' = pc /\ s_user_params' = s_user_params
          /\ MAX_PAYLOAD_SIZE' = MAX_PAYLOAD_SIZE /\ MPS_MAX' = MPS_MAX
          /\ ms_maxSize' = ms_maxSize /\ maxSequenceNo' = maxSequenceNo
      BY <1>1 DEF vars, optionVars
    <2>2. ArgvInv' /\ ModeInv' /\ FreshInv'
      BY <2>1 DEF OptionsInv, ArgvInv, ModeInv, FreshInv, SelfOptions, IsClient, DefaultRate
    <2>3. CommonInv' /\ ValuesInv' /\ SizesInv'
      BY <2>1 DEF OptionsInv, CommonInv, ValuesInv, SizesInv, IsClient, Given
    <2>4. RateInv'
      BY <2>1 DEF OptionsInv, RateInv, IsClient, DefaultRate, ValueOr, Value, Given
    <2>5. SetupInv'
      BY <2>1 DEF OptionsInv, SetupInv, IsClient, DefaultRate, ValueOr, Value, Given,
         MaxTestDuration
    <2>6. QED BY <2>2, <2>3, <2>4, <2>5 DEF OptionsInv
  <1>2. CASE SingleSocket
    BY <1>2, KeepOptions DEF SingleSocket
  <1>3. CASE SingleSocketFails
    BY <1>3, ExitOptions DEF SingleSocketFails, Fail, options
  <1>4. CASE RefuseLine
    BY <1>4, ExitOptions DEF RefuseLine, Fail, options
  <1>5. CASE SkipLine
    BY <1>5, KeepOptions DEF SkipLine, Line
  <1>6. CASE JoinSocket
    BY <1>6, KeepOptions DEF JoinSocket, Line
  <1>7. CASE OpenSocket
    BY <1>7, KeepOptions DEF OpenSocket, Line
  <1>8. CASE LineFails
    BY <1>8, ExitOptions DEF LineFails, Fail, options
  <1>9. CASE FileFails
    BY <1>9, ExitOptions DEF FileFails, Fail, options
  <1>10. CASE EndOfFile
    <2>1. CASE s_fd_num = 0
      BY <1>10, <2>1, ExitOptions DEF EndOfFile, Fail, options
    <2>2. CASE s_fd_num # 0
      BY <1>10, <2>2, KeepOptions DEF EndOfFile
    <2>3. QED BY <2>1, <2>2
  <1>11. CASE Check
    <2>1. pc = "checks" /\ pc' \in {"exit", "setup"} /\ UNCHANGED <<options, ms_maxSize, maxSequenceNo>>
      BY <1>11 DEF Check, Fail
    <2>2. CASE pc' = "exit"
      BY <2>1, <2>2, ExitOptions DEF options
    <2>3. CASE pc' = "setup"
      BY <2>1, <2>3, KeepOptions
    <2>4. QED BY <2>1, <2>2, <2>3
  <1>12. QED
    BY <1>1, <1>2, <1>3, <1>4, <1>5, <1>6, <1>7, <1>8, <1>9, <1>10, <1>11, ParseOptions,
       SetupApiOptions, SetupDataOptions, DoTestOptions DEF Next


-----------------------------------------------------------------------------
(* The sockets: numbers and the ring. *)

\* A set of naturals that is not empty has a least element.
LEMMA Least ==
    ASSUME NEW S, S \subseteq Nat, S # {}
    PROVE  \E n \in S : \A m \in S : n <= m
  <1> DEFINE R == OpToRel(<, Nat)
  <1>1. IsWellFoundedOn(R, Nat)
    BY NatLessThanWellFounded
  <1>2. \A x, y \in Nat : <<y, x>> \in R <=> y < x
    BY DEF OpToRel
  <1> HIDE DEF R
  <1>3. PICK x \in S : \A y \in S : ~(<<y, x>> \in R)
    BY <1>1, WFMin
  <1>4. ASSUME NEW y \in S PROVE x <= y
    <2>1. x \in Nat /\ y \in Nat
      OBVIOUS
    <2>2. ~(y < x)
      BY <1>2, <1>3, <2>1, Zenon
    <2>3. QED BY <2>1, <2>2
  <1>5. QED BY <1>4

\* The links of consecutive sockets that form a ring.
Ring ==
    /\ s_fd_num \in Nat \ {0} /\ s_fd_min \in Nat /\ s_fd_max = s_fd_min + s_fd_num - 1
    /\ Opened = s_fd_min .. s_fd_max
    /\ \A f \in Opened : g_fds_array[f].next_fd = IF f = s_fd_max THEN s_fd_min ELSE f + 1

\* A walk along such a ring follows the numbers.
LEMMA WalkIs ==
    ASSUME Ring
    PROVE  \A k \in 0 .. (s_fd_num - 1) : Walk[k] = s_fd_min + k
  <1> DEFINE Body(w) == [k \in 0 .. s_fd_num |-> IF k = 0 THEN s_fd_min ELSE NextFd(w[k - 1])]
             W == [k \in 0 .. s_fd_num |-> IF k < s_fd_num THEN s_fd_min + k ELSE s_fd_min]
  <1>1. s_fd_num \in Nat \ {0} /\ s_fd_min \in Nat /\ s_fd_max = s_fd_min + s_fd_num - 1
        /\ Opened = s_fd_min .. s_fd_max
    BY DEF Ring
  <1>2. \A f \in Opened : NextFd(f) = IF f = s_fd_max THEN s_fd_min ELSE f + 1
    BY DEF Ring, NextFd
  <1>3. W = Body(W)
    <2>1. \A k \in 0 .. s_fd_num : k # 0 => W[k] = NextFd(W[k - 1])
      BY <1>1, <1>2
    <2>2. W[0] = s_fd_min
      BY <1>1
    <2>3. QED BY <2>1, <2>2
  <1>4. Walk = CHOOSE w : w = Body(w)
    BY DEF Walk
  <1> HIDE DEF W
  <1>5. Walk = Body(Walk)
    BY <1>3, <1>4
  <1>6. Walk[0] = s_fd_min
    BY <1>1, <1>5
  <1>7. \A k \in 0 .. s_fd_num : k # 0 => Walk[k] = NextFd(Walk[k - 1])
    BY <1>5
  <1> DEFINE Bad == {k \in 0 .. (s_fd_num - 1) : Walk[k] # s_fd_min + k}
  <1>8. SUFFICES ASSUME Bad # {} PROVE FALSE
    OBVIOUS
  <1>9. PICK k \in Bad : \A m \in Bad : k <= m
    <2>1. Bad \subseteq Nat
      BY <1>1
    <2> HIDE DEF Bad
    <2>2. QED BY <1>8, <2>1, Least
  <1>10. k \in 0 .. (s_fd_num - 1) /\ Walk[k] # s_fd_min + k /\ k # 0
    BY <1>1, <1>6, <1>9
  <1>11. k - 1 \in 0 .. (s_fd_num - 1) /\ k - 1 \notin Bad
    BY <1>1, <1>9, <1>10
  <1>12. Walk[k - 1] = s_fd_min + (k - 1)
    BY <1>11
  <1>13. s_fd_min + (k - 1) \in Opened /\ s_fd_min + (k - 1) # s_fd_max
    BY <1>1, <1>10
  <1>14. Walk[k] = s_fd_min + k
    BY <1>1, <1>2, <1>7, <1>10, <1>12, <1>13
  <1>15. QED BY <1>10, <1>14

\* It passes the sanity check of bringup().
LEMMA RingValid ==
    ASSUME Ring
    PROVE  fds_array_is_valid
  <1>1. s_fd_num \in Nat \ {0} /\ s_fd_min \in Nat /\ s_fd_max = s_fd_min + s_fd_num - 1
        /\ Opened = s_fd_min .. s_fd_max
    BY DEF Ring
  <1>2. \A k \in 0 .. (s_fd_num - 1) : Walk[k] = s_fd_min + k
    BY WalkIs
  <1>3. \A k \in 0 .. (s_fd_num - 2) : Walk[k] \in Opened /\ Walk[k] # s_fd_max
    BY <1>1, <1>2
  <1>4. Walk[s_fd_num - 1] = s_fd_max
    BY <1>1, <1>2
  <1>5. NextFd(s_fd_max) = s_fd_min
    BY <1>1 DEF Ring, NextFd
  <1>6. QED BY <1>3, <1>4, <1>5 DEF fds_array_is_valid

\* And it visits every socket once.
LEMMA RingVisits ==
    ASSUME Ring
    PROVE  /\ {Walk[k] : k \in 0 .. (s_fd_num - 1)} = Opened
           /\ Cardinality(Opened) = s_fd_num
  <1>1. s_fd_num \in Nat \ {0} /\ s_fd_min \in Nat /\ s_fd_max = s_fd_min + s_fd_num - 1
        /\ Opened = s_fd_min .. s_fd_max
    BY DEF Ring
  <1>2. \A k \in 0 .. (s_fd_num - 1) : Walk[k] = s_fd_min + k
    BY WalkIs
  <1>3. ASSUME NEW f \in Opened
        PROVE  \E k \in 0 .. (s_fd_num - 1) : Walk[k] = f
    <2>1. f - s_fd_min \in 0 .. (s_fd_num - 1)
      BY <1>1, <1>3
    <2>2. Walk[f - s_fd_min] = f
      BY <1>1, <1>2, <1>3, <2>1
    <2>3. QED BY <2>1, <2>2
  <1>4. \A k \in 0 .. (s_fd_num - 1) : Walk[k] \in Opened
    BY <1>1, <1>2
  <1>5. Cardinality(s_fd_min .. s_fd_max) = s_fd_max - s_fd_min + 1
    BY <1>1, FS_Interval
  <1>6. QED BY <1>1, <1>3, <1>4, <1>5

\* The number of the next socket, behind those opened.
LEMMA NewFdIs ==
    ASSUME NEW lo \in Nat, lo = FirstFd + (IF pc = "feed" THEN 1 ELSE 0),
           NEW n \in Nat, Opened = lo .. (lo + n - 1)
    PROVE  NewFd = lo + n /\ lo + n <= max_fds_num /\ lo + n \notin Opened
  <1> DEFINE free == (lo .. max_fds_num) \ Opened
  <1>1. FirstFd \in Nat /\ max_fds_num \in Nat /\ FirstFd + 1 < max_fds_num
    BY BringupAssumption
  <1>2. Opened \subseteq 0 .. (max_fds_num - 1)
    BY DEF Opened, Fds
  <1>3. lo + n <= max_fds_num
    <2>1. CASE n = 0
      BY <1>1, <2>1
    <2>2. CASE n # 0
      <3>1. lo + n - 1 \in Opened
        BY <2>2
      <3>2. QED BY <1>1, <1>2, <3>1
    <2>3. QED BY <2>1, <2>2
  <1>4. lo + n \in free /\ \A o \in free : lo + n <= o
    BY <1>1, <1>3
  <1>5. NewFd = CHOOSE fd \in free : \A o \in free : fd <= o
    BY DEF NewFd
  <1>6. free \subseteq Int
    BY <1>1
  <1> HIDE DEF free
  <1>7. NewFd \in free /\ \A o \in free : NewFd <= o
    BY <1>4, <1>5
  <1>8. NewFd = lo + n
    BY <1>4, <1>6, <1>7
  <1>9. QED BY <1>3, <1>4, <1>8 DEF free

-----------------------------------------------------------------------------
(* The sockets: memberships. *)

\* A sequence is one over its elements.
LEMMA OwnRange ==
    ASSUME NEW S, NEW s \in Seq(S)
    PROVE  s \in Seq(Range(s))
  BY DEF Range

LEMMA AppendRange ==
    ASSUME NEW s, NEW e, s \in Seq(Range(s))
    PROVE  Append(s, e) \in Seq(Range(Append(s, e))) /\ Len(Append(s, e)) = Len(s) + 1
           /\ Len(s) \in Nat
  <1>1. s \in Seq(Range(s) \cup {e})
    OBVIOUS
  <1>2. Append(s, e) \in Seq(Range(s) \cup {e}) /\ Len(Append(s, e)) = Len(s) + 1 /\ Len(s) \in Nat
    BY <1>1
  <1>3. QED BY <1>2, OwnRange

\* The groups of finitely many memberships.
LEMMA GroupsFinite ==
    ASSUME NEW joined, IsFiniteSet(joined)
    PROVE  IsFiniteSet(Groups(joined)) /\ Cardinality(Groups(joined)) \in Nat
  <1>1. IsFiniteSet(Groups(joined))
    <2> DEFINE f == [m \in joined |-> m[1]]
    <2>1. Groups(joined) = {f[m] : m \in joined}
      BY DEF Groups
    <2>2. f \in Surjection(joined, {f[m] : m \in joined})
      BY DEF Surjection
    <2>3. QED BY <2>1, <2>2, FS_Surjection
  <1>2. QED BY <1>1, FS_CardinalityType

\* Where no sources are involved the kernel joins a group it has not, and that
\* has room.
LEMMA JoinCounts ==
    ASSUME NEW joined, IsFiniteSet(joined), NEW l, l.is_multicast, l.family = 4,
           ~s_user_params.b_stream, KernelJoins(joined, l),
           \A m \in joined \cup MemberOf(l) : m[2] = None
    PROVE  /\ Cardinality(Groups(joined)) < IGMP_MAX_MEMBERSHIPS
           /\ Cardinality(Groups(joined \cup MemberOf(l))) = Cardinality(Groups(joined)) + 1
  <1> DEFINE m == <<l.addr, l.mc_source>>
  <1>1. MemberOf(l) = {m}
    BY DEF MemberOf
  <1>2. m[1] = l.addr /\ m[2] = None
    BY <1>1
  <1>3. l.addr \notin Groups(joined) /\ Cardinality(Groups(joined)) < IGMP_MAX_MEMBERSHIPS
    BY <1>1, <1>2 DEF KernelJoins
  <1>4. Groups(joined \cup MemberOf(l)) = Groups(joined) \cup {l.addr}
    BY <1>1, <1>2 DEF Groups
  <1>5. IsFiniteSet(Groups(joined))
    BY GroupsFinite
  <1>6. QED BY <1>3, <1>4, <1>5, FS_AddElement


-----------------------------------------------------------------------------
(* The sockets: one step per action. *)

\* The records that are told apart by an endpoint stay.
LEMMA EndpointsKept ==
    ASSUME NoDuplicateSockets, argv' = argv, Opened' = Opened,
           \A f \in Opened : \A x \in {"server_addr", "sock_type", "is_multicast", "mc_source"} :
               g_fds_array'[f][x] = g_fds_array[f][x]
    PROVE  NoDuplicateSockets'
  BY DEF NoDuplicateSockets, Repeatable, IsClient

\* Steps that end the program and leave the sockets.
LEMMA ExitSockets ==
    ASSUME SocketsInv, g_fds_array' = g_fds_array, argv' = argv, s_user_params' = s_user_params,
           pc' = "exit", rc' # "SANITY"
    PROVE  SocketsInv'
  <1>1. Opened' = Opened
    BY DEF Opened
  <1>2. TableInv'
    BY <1>1 DEF SocketsInv, TableInv
  <1>3. PlaceInv' /\ NumberInv' /\ MapInv'
    BY DEF PlaceInv, NumberInv, MapInv, Parsing, Prepared, Handlers
  <1>4. NoDuplicateSockets'
    BY <1>1, EndpointsKept DEF SocketsInv
  <1>5. JoinedInv'
    BY <1>1 DEF SocketsInv, JoinedInv, Counted
  <1>6. QED BY <1>2, <1>3, <1>4, <1>5 DEF SocketsInv

\* Steps before there are sockets.
LEMMA EarlySockets ==
    ASSUME SocketsInv, UNCHANGED sockets, pc \in {"main", "bringup"} \cup Parsing, rc' # "SANITY",
           pc' \in {"bringup", "feed", "single"} \cup Parsing,
           pc' = "feed" => Given("f")', pc' = "single" => ~Given("f")'
    PROVE  SocketsInv'
  <1>1. /\ g_fds_array' = g_fds_array /\ s_fd_max' = s_fd_max /\ s_fd_num' = s_fd_num
        /\ fd_socket_map' = fd_socket_map
    BY DEF sockets
  <1>2. Opened' = Opened
    BY <1>1 DEF Opened
  <1>3. Opened = {} /\ s_fd_num = 0 /\ s_fd_max = 0 /\ fd_socket_map = [d \in {} |-> 0]
    BY DEF SocketsInv, PlaceInv
  <1>4. TableInv'
    BY <1>1, <1>2, <1>3 DEF SocketsInv, TableInv
  <1>5. (FirstFd + 1) .. (FirstFd + 0) = {}
    BY BringupAssumption
  <1>6. PlaceInv'
    BY <1>1, <1>2, <1>3, <1>5 DEF PlaceInv, Prepared, Handlers, Parsing
  <1>7. NumberInv'
    BY <1>1, <1>2, <1>3 DEF NumberInv, Prepared, Handlers, Parsing
  <1>8. MapInv' /\ NoDuplicateSockets' /\ JoinedInv'
    BY <1>1, <1>2, <1>3 DEF MapInv, NoDuplicateSockets, JoinedInv
  <1>9. QED BY <1>4, <1>6, <1>7, <1>8 DEF SocketsInv

LEMMA ParseSockets ==
    ASSUME SocketsInv, Parse, UNCHANGED <<rc, lines, sockets, ms_maxSize, maxSequenceNo>>
    PROVE  SocketsInv'
  <1>1. /\ pc \in {"main"} \cup Parsing /\ pc' \in {"bringup", "exit"} \cup Parsing
        /\ argv' = argv /\ g_fds_array' = g_fds_array /\ rc' = rc
    BY DEF Parse, SelectMode, ParseCommonOpt, ParseClientOpt, ProcModeUnderLoad, ProcModePingPong,
       ProcModeThroughput, ProcModePlayback, ProcModeServer, Return, Parsing, sockets
  <1>2. rc' # "SANITY"
    BY <1>1 DEF SocketsInv, NumberInv
  <1>3. CASE pc' # "exit"
    BY <1>1, <1>2, <1>3, EarlySockets DEF Parsing
  <1>4. CASE pc' = "exit"
    <2>1. Opened' = {} /\ Opened = {}
      BY <1>1 DEF SocketsInv, PlaceInv, Opened
    <2>2. TableInv'
      BY <1>1, <2>1 DEF SocketsInv, TableInv
    <2>3. PlaceInv' /\ NumberInv' /\ MapInv'
      BY <1>2, <1>4 DEF PlaceInv, NumberInv, MapInv, Parsing, Prepared, Handlers
    <2>4. NoDuplicateSockets' /\ JoinedInv'
      BY <2>1 DEF NoDuplicateSockets, JoinedInv
    <2>5. QED BY <2>2, <2>3, <2>4 DEF SocketsInv
  <1>5. QED BY <1>3, <1>4

LEMMA SetupApiSockets ==
    ASSUME SocketsInv, NEW get_api \in BOOLEAN, NEW tls_init \in BOOLEAN, SetupApi(get_api, tls_init)
    PROVE  SocketsInv'
  <1>1. pc = "bringup" /\ argv' = argv /\ s_user_params' = s_user_params /\ UNCHANGED sockets
    BY DEF SetupApi, options
  <1>2. CASE Fail("FATAL")
    BY <1>1, <1>2, ExitSockets DEF Fail, sockets
  <1>3. CASE ~Fail("FATAL")
    <2>1. pc' = (IF Given("f") THEN "feed" ELSE "single") /\ rc' = rc
      BY <1>3 DEF SetupApi
    <2>2. rc' # "SANITY" /\ Given("f")' = Given("f")
      BY <1>1, <2>1 DEF SocketsInv, NumberInv, Given
    <2>3. QED BY <1>1, <2>1, <2>2, EarlySockets
  <1>4. QED BY <1>2, <1>3

LEMMA SingleSocketSockets ==
    ASSUME SocketsInv, SingleSocket
    PROVE  SocketsInv'
  <1> DEFINE r == [server_addr |-> <<4, "addr", 0>>, sock_type |-> s_user_params.sock_type,
                   family |-> 4, is_multicast |-> FALSE, mc_source |-> None, memberships |-> <<>>,
                   joined |-> {}, next_fd |-> FirstFd]
  <1>1. pc = "single" /\ Opened = {} /\ DOMAIN g_fds_array = Fds /\ ~Given("f") /\ rc # "SANITY"
    BY DEF SingleSocket, SocketsInv, PlaceInv, TableInv, NumberInv
  <1>2. FirstFd \in Nat \ {0} /\ FirstFd \in Fds
    BY BringupAssumption DEF Fds
  <1>3. NewFd = FirstFd
    <2>1. Opened = FirstFd .. (FirstFd + 0 - 1)
      BY <1>1, <1>2
    <2>2. NewFd = FirstFd + 0
      BY <1>1, <1>2, <2>1, NewFdIs
    <2>3. QED BY <1>2, <2>2
  <1>4. /\ g_fds_array' = [g_fds_array EXCEPT ![FirstFd] = r]
        /\ s_fd_min' = FirstFd /\ s_fd_max' = FirstFd /\ s_fd_num' = 1 /\ pc' = "checks"
        /\ argv' = argv /\ rc' = rc
    BY <1>3 DEF SingleSocket, options
  <1>5. /\ DOMAIN r = RecordFields /\ r.next_fd = FirstFd /\ r.joined = {} /\ ~r.is_multicast
        /\ r # NULL
    <2>1. r.next_fd = FirstFd /\ NULL.next_fd = -1
      BY DEF NULL
    <2>2. QED BY <1>2, <2>1 DEF RecordFields
  <1> HIDE DEF r
  <1>6. /\ DOMAIN g_fds_array' = Fds /\ g_fds_array'[FirstFd] = r
        /\ \A f \in Fds : f # FirstFd => g_fds_array'[f] = g_fds_array[f]
    BY <1>1, <1>2, <1>4
  <1>7. Opened' = {FirstFd}
    BY <1>1, <1>2, <1>5, <1>6 DEF Opened
  <1>8. TableInv'
    BY <1>2, <1>5, <1>6, <1>7, FS_EmptySet DEF TableInv
  <1>9. {FirstFd} = FirstFd .. FirstFd
    BY <1>2
  <1>10. PlaceInv'
    BY <1>2, <1>4, <1>5, <1>6, <1>7, <1>9 DEF PlaceInv, Parsing
  <1>11. NumberInv'
    BY <1>1, <1>4 DEF NumberInv, Handlers
  <1>12. MapInv'
    BY <1>4 DEF MapInv
  <1>13. NoDuplicateSockets'
    BY <1>7 DEF NoDuplicateSockets
  <1>14. JoinedInv'
    BY <1>5, <1>6, <1>7 DEF JoinedInv, Counted
  <1>15. QED BY <1>8, <1>10, <1>11, <1>12, <1>13, <1>14 DEF SocketsInv

\* What JoinSocket and LineFails do to a socket: an address more, and perhaps
\* memberships more.
LEMMA MemberSockets ==
    ASSUME SocketsInv, Line, argv' = argv, s_user_params' = s_user_params, rc' # "SANITY",
           s_fd_min' = s_fd_min, s_fd_max' = s_fd_max, s_fd_num' = s_fd_num, last_fd' = last_fd,
           fd_socket_map' = fd_socket_map, Joins(Head(lines)),
           NEW J, J \in {{}, MemberOf(Head(lines))},
           g_fds_array' = [g_fds_array EXCEPT
                ![SocketOfPort(Head(lines))].memberships = Append(@, ServerAddr(Head(lines))),
                ![SocketOfPort(Head(lines))].joined = @ \cup J],
           \/ pc' = "exit"
           \/ /\ pc' = "feed" /\ J = MemberOf(Head(lines))
              /\ KernelJoins(g_fds_array[SocketOfPort(Head(lines))].joined, Head(lines))
    PROVE  SocketsInv'
  <1> DEFINE l == Head(lines)
             fd == SocketOfPort(l)
             r == g_fds_array[fd]
             q == g_fds_array'[fd]
  <1>1. pc = "feed" /\ l.is_multicast /\ fd # 0
    BY DEF Line, Joins
  <1>2. PortDescriptor(l) \in DOMAIN fd_socket_map /\ fd = fd_socket_map[PortDescriptor(l)]
    BY <1>1 DEF SocketOfPort
  <1>3. fd \in Opened /\ r.family = l.family
    BY <1>1, <1>2 DEF SocketsInv, MapInv, PortDescriptor
  <1>4. /\ DOMAIN g_fds_array = Fds /\ fd \in Fds /\ DOMAIN r = RecordFields /\ r.next_fd \in Nat
        /\ IsFiniteSet(r.joined)
    BY <1>3 DEF SocketsInv, TableInv, Opened
  <1>5. /\ DOMAIN g_fds_array' = Fds
        /\ \A f \in Fds : f # fd => g_fds_array'[f] = g_fds_array[f]
        /\ q = [r EXCEPT !.memberships = Append(@, ServerAddr(l)), !.joined = @ \cup J]
    BY <1>4
  <1>6. /\ DOMAIN q = RecordFields
        /\ q.memberships = Append(r.memberships, ServerAddr(l)) /\ q.joined = r.joined \cup J
        /\ \A x \in RecordFields \ {"memberships", "joined"} : q[x] = r[x]
    BY <1>4, <1>5 DEF RecordFields
  <1>7. q.next_fd = r.next_fd /\ q.family = r.family /\ q.is_multicast = r.is_multicast
        /\ q.server_addr = r.server_addr /\ q.sock_type = r.sock_type /\ q.mc_source = r.mc_source
    BY <1>6 DEF RecordFields
  <1> HIDE DEF l, fd, r, q
  <1>8. q # NULL /\ r # NULL
    BY <1>3, <1>4, <1>7 DEF NULL, Opened, r
  <1>9. Opened' = Opened
    BY <1>3, <1>4, <1>5, <1>8 DEF Opened, q, r
  <1>10. \A f \in Opened : \A x \in {"server_addr", "sock_type", "is_multicast", "mc_source", "family",
                                     "next_fd"} :
            g_fds_array'[f][x] = g_fds_array[f][x]
    BY <1>5, <1>7 DEF Opened, q, r
  <1>11. IsFiniteSet(q.joined)
    <2>1. J = {} \/ \E m : J = {m}
      BY DEF MemberOf
    <2>2. IsFiniteSet(J)
      <3>1. CASE J = {}
        BY <3>1, FS_EmptySet
      <3>2. ASSUME NEW m, J = {m} PROVE IsFiniteSet(J)
        <4>1. IsFiniteSet({m})
          BY FS_Singleton
        <4>2. QED BY <3>2, <4>1
      <3>3. QED BY <2>1, <3>1, <3>2
    <2>3. IsFiniteSet(r.joined \cup J)
      BY <1>4, <2>2, FS_Union
    <2>4. QED BY <1>6, <2>3
  <1>12. TableInv'
    BY <1>4, <1>5, <1>6, <1>7, <1>9, <1>11 DEF SocketsInv, TableInv, Opened, q, r
  <1>13. PlaceInv'
    <2>1. CASE pc' = "exit"
      BY <2>1 DEF PlaceInv, Parsing, Prepared, Handlers
    <2>2. CASE pc' = "feed"
      BY <1>1, <1>9, <1>10, <2>2 DEF SocketsInv, PlaceInv, Parsing, Prepared, Handlers
    <2>3. QED BY <2>1, <2>2
  <1>14. NumberInv'
    BY <1>1 DEF SocketsInv, NumberInv, Prepared, Handlers, Given
  <1>15. MapInv'
    <2>1. \A f \in Opened : /\ g_fds_array'[f].server_addr = g_fds_array[f].server_addr
                            /\ g_fds_array'[f].sock_type = g_fds_array[f].sock_type
                            /\ g_fds_array'[f].family = g_fds_array[f].family
      BY <1>10
    <2>2. QED BY <1>1, <1>9, <2>1 DEF SocketsInv, MapInv
  <1>16. NoDuplicateSockets'
    BY <1>9, <1>10, EndpointsKept DEF SocketsInv
  <1>17. JoinedInv'
    <2>1. SUFFICES ASSUME ~s_user_params.b_stream, NEW f \in Opened, Counted(g_fds_array'[f])
                   PROVE  /\ g_fds_array'[f].memberships \in Seq(Range(g_fds_array'[f].memberships))
                          /\ Len(g_fds_array'[f].memberships) <= IGMP_MAX_MEMBERSHIPS
                          /\ pc' = "feed" =>
                              /\ Len(g_fds_array'[f].memberships) <
                                    Cardinality(Groups(g_fds_array'[f].joined))
                              /\ Cardinality(Groups(g_fds_array'[f].joined)) <= IGMP_MAX_MEMBERSHIPS
      BY <1>9 DEF JoinedInv
    <2>2. CASE f # fd
      <3>1. g_fds_array'[f] = g_fds_array[f]
        BY <1>5, <2>1, <2>2 DEF Opened
      <3>2. QED BY <1>1, <2>1, <3>1 DEF SocketsInv, JoinedInv
    <2>3. CASE f = fd
      <3>1. Counted(r) /\ r.is_multicast /\ r.family = 4 /\ \A m \in r.joined \cup J : m[2] = None
        BY <1>6, <1>7, <2>1, <2>3 DEF Counted, q
      <3>2. /\ r.memberships \in Seq(Range(r.memberships))
            /\ Len(r.memberships) < Cardinality(Groups(r.joined))
            /\ Cardinality(Groups(r.joined)) <= IGMP_MAX_MEMBERSHIPS
        BY <1>1, <1>3, <2>1, <3>1 DEF SocketsInv, JoinedInv, r
      <3>3. /\ q.memberships \in Seq(Range(q.memberships))
            /\ Len(q.memberships) = Len(r.memberships) + 1 /\ Len(r.memberships) \in Nat
        BY <1>6, <3>2, AppendRange
      <3>4. Cardinality(Groups(r.joined)) \in Nat /\ IGMP_MAX_MEMBERSHIPS \in Nat
        BY <1>4, GroupsFinite, BringupAssumption
      <3>5. Len(q.memberships) <= IGMP_MAX_MEMBERSHIPS
        BY <3>2, <3>3, <3>4
      <3>6. ASSUME pc' = "feed"
            PROVE  /\ Len(q.memberships) < Cardinality(Groups(q.joined))
                   /\ Cardinality(Groups(q.joined)) <= IGMP_MAX_MEMBERSHIPS
        <4>1. J = MemberOf(l) /\ KernelJoins(r.joined, l)
          BY <3>6 DEF l, fd, r
        <4>2. /\ Cardinality(Groups(r.joined)) < IGMP_MAX_MEMBERSHIPS
              /\ Cardinality(Groups(q.joined)) = Cardinality(Groups(r.joined)) + 1
          BY <1>1, <1>3, <1>4, <1>6, <2>1, <3>1, <4>1, JoinCounts
        <4>3. QED BY <3>2, <3>3, <3>4, <4>2
      <3>7. QED BY <2>3, <3>3, <3>5, <3>6 DEF q
    <2>4. QED BY <2>2, <2>3
  <1>18. QED BY <1>12, <1>13, <1>14, <1>15, <1>16, <1>17 DEF SocketsInv


LEMMA JoinSocketSockets ==
    ASSUME SocketsInv, JoinSocket
    PROVE  SocketsInv'
  <1>1. rc' # "SANITY"
    BY DEF JoinSocket, SocketsInv, NumberInv
  <1>2. pc' = "feed"
    BY DEF JoinSocket, Line
  <1>3. QED BY <1>1, <1>2, MemberSockets DEF JoinSocket, options

LEMMA LineFailsSockets ==
    ASSUME SocketsInv, LineFails
    PROVE  SocketsInv'
  <1> DEFINE l == Head(lines)
             fd == SocketOfPort(l)
  <1>1. /\ pc' = "exit" /\ rc' # "SANITY" /\ argv' = argv /\ s_user_params' = s_user_params /\ Line
        /\ s_fd_min' = s_fd_min /\ s_fd_max' = s_fd_max /\ last_fd' = last_fd
        /\ fd_socket_map' = fd_socket_map
    BY DEF LineFails, Fail, options
  <1>2. CASE g_fds_array' = g_fds_array
    BY <1>1, <1>2, ExitSockets
  <1>3. CASE g_fds_array' # g_fds_array
    <2>1. /\ Joins(l) /\ s_fd_num' = s_fd_num
          /\ g_fds_array' = [g_fds_array EXCEPT ![fd].memberships = Append(@, ServerAddr(l))]
      BY <1>3 DEF LineFails
    <2>2. fd \in Opened
      <3>1. pc = "feed" /\ fd # 0
        BY <1>1, <2>1 DEF Line, Joins
      <3>2. PortDescriptor(l) \in DOMAIN fd_socket_map /\ fd = fd_socket_map[PortDescriptor(l)]
        BY <3>1 DEF SocketOfPort
      <3>3. QED BY <3>1, <3>2 DEF SocketsInv, MapInv
    <2>3. DOMAIN g_fds_array = Fds /\ fd \in Fds /\ DOMAIN g_fds_array[fd] = RecordFields
      BY <2>2 DEF SocketsInv, TableInv, Opened
    <2>4. g_fds_array' = [g_fds_array EXCEPT ![fd].memberships = Append(@, ServerAddr(l)),
                                            ![fd].joined = @ \cup {}]
      <3> DEFINE r == g_fds_array[fd]
                 q == [r EXCEPT !.memberships = Append(@, ServerAddr(l))]
      <3>1. [q EXCEPT !.joined = @ \cup {}] = q
        BY <2>3 DEF RecordFields
      <3>2. g_fds_array' = [g_fds_array EXCEPT ![fd] = q]
        BY <2>1, <2>3
      <3>3. QED BY <2>3, <3>1, <3>2
    <2>5. QED BY <1>1, <2>1, <2>4, MemberSockets
  <1>4. QED BY <1>2, <1>3

\* A new socket: the next number, linked behind the last.
LEMMA OpenSocketSockets ==
    ASSUME SocketsInv, OpenSocket
    PROVE  SocketsInv'
  <1> DEFINE l == Head(lines)
             fd == FirstFd + 1 + s_fd_num
             r == [server_addr |-> ServerAddr(l), sock_type |-> l.sock_type, family |-> l.family,
                   is_multicast |-> l.is_multicast, mc_source |-> l.mc_source,
                   memberships |-> <<>>, joined |-> MemberOf(l), next_fd |-> 0]
  <1>1. /\ pc = "feed" /\ ~IsExist(l) /\ rc # "SANITY" /\ Given("f")
    BY DEF OpenSocket, Line, SocketsInv, NumberInv
  <1>2. /\ s_fd_num \in Nat /\ Opened = (FirstFd + 1) .. (FirstFd + s_fd_num)
        /\ s_fd_num = 0 => s_fd_max = 0
        /\ s_fd_num > 0 =>
              s_fd_min = FirstFd + 1 /\ s_fd_max = FirstFd + s_fd_num /\ last_fd = s_fd_max
        /\ \A f \in Opened : f # last_fd => g_fds_array[f].next_fd = f + 1
    BY <1>1 DEF SocketsInv, PlaceInv
  <1>3. /\ DOMAIN g_fds_array = Fds
        /\ \A f \in Opened : /\ DOMAIN g_fds_array[f] = RecordFields
                             /\ g_fds_array[f].next_fd \in Nat /\ IsFiniteSet(g_fds_array[f].joined)
    BY DEF SocketsInv, TableInv
  <1>4. FirstFd \in Nat \ {0} /\ max_fds_num \in Nat
    BY BringupAssumption
  <1>5. NewFd = fd /\ fd \notin Opened
    <2>1. FirstFd + 1 \in Nat /\ Opened = (FirstFd + 1) .. (FirstFd + 1 + s_fd_num - 1)
      BY <1>2, <1>4
    <2>2. QED BY <1>1, <1>2, <2>1, NewFdIs
  <1>6. /\ fd < max_fds_num /\ g_fds_array' = Linked(fd, l) /\ fd_socket_map' = Mapped(l, fd)
        /\ s_fd_num' = s_fd_num + 1
        /\ s_fd_min' = (IF s_fd_num = 0 THEN fd ELSE Smaller(s_fd_min, fd))
        /\ s_fd_max' = Larger(s_fd_max, fd) /\ last_fd' = fd
        /\ pc' = "feed" /\ argv' = argv /\ s_user_params' = s_user_params /\ rc' = rc
    BY <1>1, <1>5 DEF OpenSocket, options
  <1>7. fd \in Fds /\ fd \in Nat \ {0}
    BY <1>2, <1>4, <1>6 DEF Fds
  <1>8. /\ DOMAIN r = RecordFields /\ r.next_fd = 0 /\ r.joined = MemberOf(l) /\ r.memberships = <<>>
        /\ r.server_addr = ServerAddr(l) /\ r.sock_type = l.sock_type /\ r.family = l.family
        /\ r.is_multicast = l.is_multicast /\ r.mc_source = l.mc_source
    BY DEF RecordFields
  <1>9. /\ DOMAIN g_fds_array' = Fds /\ g_fds_array'[fd] = r
        /\ \A f \in Fds : f # fd =>
              g_fds_array'[f] = IF f = last_fd /\ s_fd_num > 0
                                THEN [g_fds_array[f] EXCEPT !.next_fd = fd] ELSE g_fds_array[f]
    BY <1>6, <1>7 DEF Linked
  <1> HIDE DEF l, r
  <1>10. \A f \in Opened :
            /\ f \in Fds /\ f # fd
            /\ DOMAIN g_fds_array'[f] = RecordFields
            /\ \A x \in RecordFields \ {"next_fd"} : g_fds_array'[f][x] = g_fds_array[f][x]
            /\ g_fds_array'[f].next_fd = f + 1
    <2>1. SUFFICES ASSUME NEW f \in Opened
                   PROVE  /\ f \in Fds /\ f # fd
                          /\ DOMAIN g_fds_array'[f] = RecordFields
                          /\ \A x \in RecordFields \ {"next_fd"} :
                                g_fds_array'[f][x] = g_fds_array[f][x]
                          /\ g_fds_array'[f].next_fd = f + 1
      OBVIOUS
    <2>2. f \in Fds /\ f # fd /\ s_fd_num > 0 /\ DOMAIN g_fds_array[f] = RecordFields
      BY <1>2, <1>3, <1>4, <1>5, <2>1 DEF Opened
    <2>3. CASE f = last_fd
      <3>1. g_fds_array'[f] = [g_fds_array[f] EXCEPT !.next_fd = fd]
        BY <1>9, <2>2, <2>3
      <3>2. fd = f + 1
        BY <1>2, <1>4, <2>2, <2>3
      <3>3. QED BY <2>2, <3>1, <3>2 DEF RecordFields
    <2>4. CASE f # last_fd
      <3>1. g_fds_array'[f] = g_fds_array[f]
        BY <1>9, <2>2, <2>4
      <3>2. g_fds_array[f].next_fd = f + 1
        BY <1>2, <2>1, <2>4
      <3>3. QED BY <2>2, <3>1, <3>2
    <2>5. QED BY <2>3, <2>4
  <1>11. \A f \in Opened :
            /\ g_fds_array'[f].server_addr = g_fds_array[f].server_addr
            /\ g_fds_array'[f].sock_type = g_fds_array[f].sock_type
            /\ g_fds_array'[f].family = g_fds_array[f].family
            /\ g_fds_array'[f].is_multicast = g_fds_array[f].is_multicast
            /\ g_fds_array'[f].mc_source = g_fds_array[f].mc_source
            /\ g_fds_array'[f].memberships = g_fds_array[f].memberships
            /\ g_fds_array'[f].joined = g_fds_array[f].joined
    BY <1>10 DEF RecordFields
  <1>12. Opened' = Opened \cup {fd}
    <2>1. NULL.next_fd = -1
      BY DEF NULL
    <2>2. g_fds_array'[fd] # NULL
      BY <1>8, <1>9, <2>1
    <2>3. \A f \in Opened : g_fds_array'[f] # NULL
      <3>1. \A f \in Opened : f \in Nat
        BY <1>2, <1>4
      <3>2. QED BY <1>10, <2>1, <3>1
    <2>4. \A f \in Fds : f \notin Opened /\ f # fd => g_fds_array'[f] = NULL
      <3>1. SUFFICES ASSUME NEW f \in Fds, f \notin Opened, f # fd
                     PROVE  g_fds_array'[f] = NULL
        OBVIOUS
      <3>2. g_fds_array[f] = NULL
        BY <3>1 DEF Opened
      <3>3. ~(f = last_fd /\ s_fd_num > 0)
        BY <1>2, <1>4, <3>1
      <3>4. QED BY <1>9, <3>1, <3>2, <3>3
    <2>5. QED BY <1>7, <1>10, <2>2, <2>3, <2>4 DEF Opened
  <1>13. IsFiniteSet(MemberOf(l))
    <2>1. MemberOf(l) = {} \/ MemberOf(l) = {<<l.addr, l.mc_source>>}
      BY DEF MemberOf
    <2>2. IsFiniteSet({}) /\ IsFiniteSet({<<l.addr, l.mc_source>>})
      BY FS_EmptySet, FS_Singleton
    <2>3. QED BY <2>1, <2>2
  <1>14. TableInv'
    <2>1. \A f \in Opened : f + 1 \in Nat
      BY <1>2, <1>4
    <2>2. ASSUME NEW f \in Opened \cup {fd}
          PROVE  /\ DOMAIN g_fds_array'[f] = RecordFields
                 /\ g_fds_array'[f].next_fd \in Nat
                 /\ IsFiniteSet(g_fds_array'[f].joined)
      <3>1. CASE f = fd
        BY <1>8, <1>9, <1>13, <3>1
      <3>2. CASE f \in Opened
        BY <1>3, <1>10, <1>11, <2>1, <3>2
      <3>3. QED BY <2>2, <3>1, <3>2
    <2>3. QED BY <1>9, <1>12, <2>2 DEF TableInv
  <1>15. PlaceInv'
    <2>1. Opened \cup {fd} = (FirstFd + 1) .. (FirstFd + (s_fd_num + 1))
      BY <1>2, <1>4
    <2>2. s_fd_min' = FirstFd + 1 /\ s_fd_max' = fd
      <3>1. CASE s_fd_num = 0
        BY <1>2, <1>4, <1>6, <3>1 DEF Larger
      <3>2. CASE s_fd_num # 0
        BY <1>2, <1>4, <1>6, <3>2 DEF Larger, Smaller
      <3>3. QED BY <3>1, <3>2
    <2>3. fd = FirstFd + (s_fd_num + 1)
      BY <1>2, <1>4
    <2>4. \A f \in Opened \cup {fd} : f # fd => g_fds_array'[f].next_fd = f + 1
      BY <1>10
    <2> HIDE DEF fd
    <2>5. QED
      BY <1>2, <1>6, <1>12, <2>1, <2>2, <2>3, <2>4 DEF PlaceInv, Parsing, Prepared, Handlers
  <1>16. NumberInv'
    BY <1>1, <1>6 DEF NumberInv, Prepared, Handlers, Given
  <1>17. /\ DOMAIN fd_socket_map' = DOMAIN fd_socket_map \cup {PortDescriptor(l)}
         /\ fd_socket_map'[PortDescriptor(l)] = fd
         /\ \A d \in DOMAIN fd_socket_map : d # PortDescriptor(l) => fd_socket_map'[d] = fd_socket_map[d]
    BY <1>6 DEF Mapped
  <1>18. ServerAddr(l)[1] = l.family /\ PortDescriptor(l) = <<l.sock_type, l.family, ServerAddr(l)[3]>>
         /\ PortDescriptor(l)[2] = l.family
    BY DEF ServerAddr, PortDescriptor
  <1>19. MapInv'
    <2>1. ASSUME NEW f \in Opened \cup {fd}
          PROVE  /\ g_fds_array'[f].server_addr[1] = g_fds_array'[f].family
                 /\ <<g_fds_array'[f].sock_type, g_fds_array'[f].family, g_fds_array'[f].server_addr[3]>>
                        \in DOMAIN fd_socket_map'
      <3>1. CASE f = fd
        BY <1>8, <1>9, <1>17, <1>18, <3>1
      <3>2. CASE f \in Opened
        BY <1>1, <1>11, <1>17, <3>2 DEF SocketsInv, MapInv
      <3>3. QED BY <2>1, <3>1, <3>2
    <2>2. ASSUME NEW d \in DOMAIN fd_socket_map'
          PROVE  /\ fd_socket_map'[d] \in Opened \cup {fd}
                 /\ g_fds_array'[fd_socket_map'[d]].family = d[2]
      <3>1. CASE d = PortDescriptor(l)
        BY <1>8, <1>9, <1>17, <1>18, <3>1
      <3>2. CASE d # PortDescriptor(l)
        <4>1. d \in DOMAIN fd_socket_map /\ fd_socket_map'[d] = fd_socket_map[d]
          BY <1>17, <2>2, <3>2
        <4>2. fd_socket_map[d] \in Opened /\ g_fds_array[fd_socket_map[d]].family = d[2]
          BY <1>1, <4>1 DEF SocketsInv, MapInv
        <4>3. QED BY <1>11, <4>1, <4>2
      <3>3. QED BY <3>1, <3>2
    <2>3. QED BY <1>12, <2>1, <2>2 DEF MapInv
  <1>20. ASSUME NEW f \in Opened, g_fds_array[f].server_addr = ServerAddr(l),
                g_fds_array[f].sock_type = l.sock_type
         PROVE  Repeatable(l)
    <2>1. SUFFICES ASSUME ~Repeatable(l) PROVE FALSE
      OBVIOUS
    <2>2. f \in s_fd_min .. s_fd_max /\ g_fds_array[f] # NULL
      <3>1. s_fd_num > 0
        BY <1>2, <1>4, <1>20
      <3>2. QED BY <1>2, <1>4, <1>20, <3>1 DEF Opened
    <2>3. SocketOfPort(l) = 0
      BY <1>1, <1>20, <2>1, <2>2 DEF IsExist
    <2>4. PortDescriptor(l) \in DOMAIN fd_socket_map
      <3>1. /\ g_fds_array[f].server_addr[1] = g_fds_array[f].family
            /\ <<g_fds_array[f].sock_type, g_fds_array[f].family, g_fds_array[f].server_addr[3]>>
                  \in DOMAIN fd_socket_map
        BY <1>1, <1>20 DEF SocketsInv, MapInv
      <3>2. QED BY <1>18, <1>20, <3>1
    <2>5. fd_socket_map[PortDescriptor(l)] \in Opened
      BY <1>1, <2>4 DEF SocketsInv, MapInv
    <2>6. QED BY <1>2, <1>4, <2>3, <2>4, <2>5 DEF SocketOfPort
  <1>21. NoDuplicateSockets'
    <2> DEFINE G == g_fds_array'
    <2>1. SUFFICES ASSUME NEW f \in Opened \cup {fd}, NEW g \in Opened \cup {fd}, f # g,
                          G[f].server_addr = G[g].server_addr, G[f].sock_type = G[g].sock_type
                   PROVE  Repeatable(G[f]) \/ Repeatable(G[g])
      <3>1. IsClient' = IsClient
        BY <1>6 DEF IsClient
      <3>2. QED BY <1>12, <3>1 DEF NoDuplicateSockets, Repeatable
    <2>2. \A h \in Opened : /\ G[h].server_addr = g_fds_array[h].server_addr
                            /\ G[h].sock_type = g_fds_array[h].sock_type
                            /\ Repeatable(G[h]) <=> Repeatable(g_fds_array[h])
      BY <1>11 DEF Repeatable
    <2>3. /\ G[fd].server_addr = ServerAddr(l) /\ G[fd].sock_type = l.sock_type
          /\ Repeatable(G[fd]) <=> Repeatable(l)
      BY <1>8, <1>9 DEF Repeatable
    <2> HIDE DEF G, fd
    <2>4. CASE f \in Opened /\ g \in Opened
      BY <2>1, <2>2, <2>4 DEF SocketsInv, NoDuplicateSockets
    <2>5. CASE f = fd /\ g \in Opened
      BY <1>20, <2>1, <2>2, <2>3, <2>5
    <2>6. CASE f \in Opened /\ g = fd
      BY <1>20, <2>1, <2>2, <2>3, <2>6
    <2>7. QED BY <2>1, <2>4, <2>5, <2>6
  <1>22. JoinedInv'
    <2>1. SUFFICES ASSUME ~s_user_params.b_stream, NEW f \in Opened \cup {fd}, Counted(g_fds_array'[f])
                   PROVE  /\ g_fds_array'[f].memberships \in Seq(Range(g_fds_array'[f].memberships))
                          /\ Len(g_fds_array'[f].memberships) <= IGMP_MAX_MEMBERSHIPS
                          /\ Len(g_fds_array'[f].memberships) <
                                Cardinality(Groups(g_fds_array'[f].joined))
                          /\ Cardinality(Groups(g_fds_array'[f].joined)) <= IGMP_MAX_MEMBERSHIPS
      BY <1>6, <1>12 DEF JoinedInv
    <2>2. CASE f \in Opened
      <3>1. Counted(g_fds_array[f])
        BY <1>11, <2>1, <2>2 DEF Counted
      <3>2. QED BY <1>1, <1>11, <2>1, <2>2, <3>1 DEF SocketsInv, JoinedInv
    <2>3. CASE f = fd
      <3>1. l.is_multicast
        BY <1>8, <1>9, <2>1, <2>3 DEF Counted
      <3>2. MemberOf(l) = {<<l.addr, l.mc_source>>}
        BY <2>1, <3>1 DEF MemberOf
      <3>3. Groups(MemberOf(l)) = {l.addr}
        BY <3>2 DEF Groups
      <3>4. Cardinality({l.addr}) = 1
        BY FS_Singleton
      <3>5. <<>> \in Seq(Range(<<>>)) /\ Len(<<>>) = 0
        BY OwnRange
      <3>6. g_fds_array'[f].memberships = <<>> /\ g_fds_array'[f].joined = MemberOf(l)
        BY <1>8, <1>9, <2>3
      <3>7. IGMP_MAX_MEMBERSHIPS \in Nat \ {0}
        BY BringupAssumption
      <3>8. /\ Len(g_fds_array'[f].memberships) = 0
            /\ g_fds_array'[f].memberships \in Seq(Range(g_fds_array'[f].memberships))
        <4>1. DEFINE m == g_fds_array'[f].memberships
        <4>2. m = <<>>
          BY <3>6
        <4>3. HIDE DEF m
        <4>4. Len(m) = 0 /\ m \in Seq(Range(m))
          BY <3>5, <4>2
        <4>5. QED BY <4>4 DEF m
      <3>9. Cardinality(Groups(g_fds_array'[f].joined)) = 1
        <4>1. DEFINE j == g_fds_array'[f].joined
        <4>2. j = MemberOf(l)
          BY <3>6
        <4>3. HIDE DEF j
        <4>4. Cardinality(Groups(j)) = 1
          BY <3>3, <3>4, <4>2
        <4>5. QED BY <4>4 DEF j
      <3>10. QED BY <3>7, <3>8, <3>9
    <2>4. QED BY <2>1, <2>2, <2>3
  <1>23. QED BY <1>14, <1>15, <1>16, <1>19, <1>21, <1>22 DEF SocketsInv

\* The end of the file closes the ring.
LEMMA EndOfFileSockets ==
    ASSUME SocketsInv, EndOfFile
    PROVE  SocketsInv'
  <1>1. /\ pc = "feed" /\ argv' = argv /\ s_user_params' = s_user_params /\ s_fd_min' = s_fd_min
        /\ s_fd_max' = s_fd_max /\ s_fd_num' = s_fd_num /\ rc # "SANITY" /\ Given("f")
    BY DEF EndOfFile, options, SocketsInv, NumberInv
  <1>2. CASE s_fd_num = 0
    BY <1>1, <1>2, ExitSockets DEF EndOfFile, Fail
  <1>3. CASE s_fd_num # 0
    <2>1. /\ s_fd_num \in Nat \ {0} /\ FirstFd \in Nat
          /\ Opened = (FirstFd + 1) .. (FirstFd + s_fd_num)
          /\ s_fd_min = FirstFd + 1 /\ s_fd_max = FirstFd + s_fd_num
          /\ \A f \in Opened : f # s_fd_max => g_fds_array[f].next_fd = f + 1
      <3>1. /\ s_fd_num \in Nat /\ Opened = (FirstFd + 1) .. (FirstFd + s_fd_num)
            /\ s_fd_num > 0 =>
                  s_fd_min = FirstFd + 1 /\ s_fd_max = FirstFd + s_fd_num /\ last_fd = s_fd_max
            /\ \A f \in Opened : f # last_fd => g_fds_array[f].next_fd = f + 1
        BY <1>1 DEF SocketsInv, PlaceInv
      <3>2. QED BY <1>3, <3>1, BringupAssumption
    <2>2. /\ g_fds_array' = [g_fds_array EXCEPT ![s_fd_max].next_fd = s_fd_min]
          /\ pc' = "checks" /\ rc' = rc
      BY <1>3 DEF EndOfFile
    <2>3. s_fd_max \in Opened /\ s_fd_min \in Nat /\ Opened = s_fd_min .. s_fd_max
          /\ s_fd_max = s_fd_min + s_fd_num - 1
      BY <2>1
    <2>4. /\ DOMAIN g_fds_array = Fds /\ s_fd_max \in Fds
          /\ \A f \in Opened :
                /\ DOMAIN g_fds_array[f] = RecordFields
                /\ g_fds_array[f].next_fd \in Nat /\ IsFiniteSet(g_fds_array[f].joined)
      BY <2>3 DEF SocketsInv, TableInv, Opened
    <2>5. /\ DOMAIN g_fds_array' = Fds
          /\ \A f \in Fds : f # s_fd_max => g_fds_array'[f] = g_fds_array[f]
          /\ g_fds_array'[s_fd_max] = [g_fds_array[s_fd_max] EXCEPT !.next_fd = s_fd_min]
      BY <2>2, <2>4
    <2>6. /\ DOMAIN g_fds_array'[s_fd_max] = RecordFields /\ g_fds_array'[s_fd_max].next_fd = s_fd_min
          /\ \A x \in RecordFields \ {"next_fd"} :
                g_fds_array'[s_fd_max][x] = g_fds_array[s_fd_max][x]
      BY <2>3, <2>4, <2>5 DEF RecordFields
    <2>7. Opened' = Opened
      <3>1. g_fds_array'[s_fd_max] # NULL /\ g_fds_array[s_fd_max] # NULL
        BY <2>3, <2>6 DEF NULL, Opened
      <3>2. QED BY <2>4, <2>5, <3>1 DEF Opened
    <2>8. \A f \in Opened : \A x \in RecordFields \ {"next_fd"} :
             g_fds_array'[f][x] = g_fds_array[f][x]
      BY <2>5, <2>6 DEF Opened
    <2>9. \A f \in Opened : DOMAIN g_fds_array'[f] = RecordFields
      BY <2>4, <2>5, <2>6 DEF Opened
    <2>10. \A f \in Opened : g_fds_array'[f].next_fd = IF f = s_fd_max THEN s_fd_min ELSE f + 1
      BY <2>1, <2>5, <2>6 DEF Opened
    <2>11. \A f \in Opened : g_fds_array'[f].next_fd \in Nat
      BY <2>1, <2>3, <2>10
    <2>12. \A f \in Opened : /\ g_fds_array'[f].joined = g_fds_array[f].joined
                             /\ g_fds_array'[f].memberships = g_fds_array[f].memberships
                             /\ g_fds_array'[f].is_multicast = g_fds_array[f].is_multicast
                             /\ g_fds_array'[f].family = g_fds_array[f].family
      BY <2>8 DEF RecordFields
    <2>13. TableInv'
      BY <2>4, <2>5, <2>7, <2>9, <2>11, <2>12 DEF TableInv
    <2>14. PlaceInv'
      BY <1>1, <2>1, <2>2, <2>3, <2>7, <2>10 DEF PlaceInv, Parsing
    <2>15. NumberInv'
      BY <1>1, <2>2 DEF NumberInv, Handlers, Given
    <2>16. MapInv'
      BY <2>2 DEF MapInv
    <2>17. NoDuplicateSockets'
      BY <1>1, <2>7, <2>8, EndpointsKept DEF SocketsInv, RecordFields
    <2>18. JoinedInv'
      BY <1>1, <2>2, <2>7, <2>12 DEF SocketsInv, JoinedInv, Counted
    <2>19. QED BY <2>13, <2>14, <2>15, <2>16, <2>17, <2>18 DEF SocketsInv
  <1>4. QED BY <1>2, <1>3

\* Steps after the sockets are ready.
LEMMA ReadySockets ==
    ASSUME SocketsInv, UNCHANGED sockets, argv' = argv, rc' # "SANITY",
           s_user_params'.b_stream = s_user_params.b_stream,
           pc \in Prepared, pc' \in Prepared,
           pc' \in {"setup", "do_test"} \cup Handlers => s_user_params'.threads_num \in 1 .. s_fd_num
    PROVE  SocketsInv'
  <1>1. /\ g_fds_array' = g_fds_array /\ s_fd_min' = s_fd_min /\ s_fd_max' = s_fd_max
        /\ s_fd_num' = s_fd_num
    BY DEF sockets
  <1>2. Opened' = Opened
    BY <1>1 DEF Opened
  <1>3. pc' \notin {"main", "bringup", "single", "feed"} \cup Parsing
    BY DEF Prepared, Handlers, Parsing
  <1>4. TableInv'
    BY <1>1, <1>2 DEF SocketsInv, TableInv
  <1>5. PlaceInv'
    BY <1>1, <1>2, <1>3 DEF SocketsInv, PlaceInv
  <1>6. NumberInv'
    BY <1>1, <1>3 DEF SocketsInv, NumberInv, Given
  <1>7. MapInv'
    BY <1>3 DEF MapInv
  <1>8. NoDuplicateSockets'
    BY <1>1, <1>2, EndpointsKept DEF SocketsInv
  <1>9. JoinedInv'
    BY <1>1, <1>2, <1>3 DEF SocketsInv, JoinedInv, Counted
  <1>10. QED BY <1>4, <1>5, <1>6, <1>7, <1>8, <1>9 DEF SocketsInv

LEMMA CheckSockets ==
    ASSUME OptionsInv, SocketsInv, Check
    PROVE  SocketsInv'
  <1>1. pc = "checks" /\ argv' = argv /\ s_user_params' = s_user_params /\ UNCHANGED sockets
        /\ rc # "SANITY" /\ g_fds_array' = g_fds_array
    BY DEF Check, options, sockets, SocketsInv, NumberInv
  <1>2. Ring
    BY <1>1 DEF SocketsInv, PlaceInv, Prepared, Ring
  <1>3. fds_array_is_valid
    BY <1>2, RingValid
  <1>4. CASE ThreadsRefusedLate \/ DummyRefused
    <2>1. Fail("BAD_ARGUMENT")
      BY <1>3, <1>4 DEF Check
    <2>2. QED BY <1>1, <2>1, ExitSockets DEF Fail
  <1>5. CASE ~(ThreadsRefusedLate \/ DummyRefused)
    <2>1. pc' = "setup" /\ rc' = rc
      BY <1>3, <1>5 DEF Check
    <2>2. s_user_params.threads_num \in Nat
      BY <1>1 DEF OptionsInv, ValuesInv, Configured, Prepared
    <2>3. s_user_params.threads_num \in 1 .. s_fd_num
      BY <1>2, <1>5, <2>2 DEF ThreadsRefusedLate, Ring
    <2>4. QED BY <1>1, <2>1, <2>3, ReadySockets DEF Prepared
  <1>6. QED BY <1>4, <1>5

LEMMA SetupDataSockets ==
    ASSUME OptionsInv, SocketsInv, SetupData
    PROVE  SocketsInv'
  <1>1. pc = "setup" /\ pc' = "do_test" /\ argv' = argv /\ UNCHANGED sockets /\ rc' = rc
        /\ DOMAIN s_user_params = Fields /\ s_user_params' = [s_user_params EXCEPT !.mps = Mps]
    BY DefaultFields DEF SetupData, OptionsInv, ArgvInv
  <1>2. /\ s_user_params'.b_stream = s_user_params.b_stream
        /\ s_user_params'.threads_num = s_user_params.threads_num
    BY <1>1 DEF Fields
  <1>3. s_user_params.threads_num \in 1 .. s_fd_num /\ rc # "SANITY"
    BY <1>1 DEF SocketsInv, NumberInv
  <1>4. QED BY <1>1, <1>2, <1>3, ReadySockets DEF Prepared

LEMMA DoTestSockets ==
    ASSUME SocketsInv, DoTest
    PROVE  SocketsInv'
  <1>1. pc = "do_test" /\ pc' \in Handlers /\ argv' = argv /\ UNCHANGED sockets /\ rc' = rc
        /\ s_user_params' = s_user_params
    BY DEF DoTest, options, Handlers
  <1>2. s_user_params.threads_num \in 1 .. s_fd_num /\ rc # "SANITY"
    BY <1>1 DEF SocketsInv, NumberInv
  <1>3. QED BY <1>1, <1>2, ReadySockets DEF Prepared

LEMMA InitSocketsInv ==
    ASSUME Init
    PROVE  SocketsInv
  <1>1. Opened = {}
    BY DEF Init, Opened
  <1>2. QED
    BY <1>1 DEF Init, InitOptions, SocketsInv, TableInv, PlaceInv, NumberInv, MapInv,
       NoDuplicateSockets, JoinedInv, Prepared, Handlers, Parsing

\* Steps that leave everything asked about the sockets.
LEMMA SameSockets ==
    ASSUME SocketsInv, UNCHANGED <<sockets, argv, pc, s_user_params, rc>>
    PROVE  SocketsInv'
  <1>1. /\ argv' = argv /\ pc' = pc /\ s_user_params' = s_user_params /\ rc' = rc
        /\ g_fds_array' = g_fds_array /\ s_fd_min' = s_fd_min /\ s_fd_max' = s_fd_max
        /\ s_fd_num' = s_fd_num /\ last_fd' = last_fd /\ fd_socket_map' = fd_socket_map
    BY DEF sockets
  <1>2. Opened' = Opened
    BY <1>1 DEF Opened
  <1>3. TableInv' /\ PlaceInv' /\ NumberInv' /\ MapInv'
    BY <1>1, <1>2 DEF SocketsInv, TableInv, PlaceInv, NumberInv, MapInv, Given
  <1>4. NoDuplicateSockets'
    BY <1>1, <1>2, EndpointsKept DEF SocketsInv
  <1>5. JoinedInv'
    BY <1>1, <1>2 DEF SocketsInv, JoinedInv, Counted
  <1>6. QED BY <1>3, <1>4, <1>5 DEF SocketsInv

LEMMA StepSocketsInv ==
    ASSUME OptionsInv, SocketsInv, [Next]_vars
    PROVE  SocketsInv'
  <1>1. CASE UNCHANGED vars
    BY <1>1, SameSockets DEF vars, optionVars
  <1>2. CASE SingleSocketFails
    BY <1>2, ExitSockets DEF SingleSocketFails, Fail, options, sockets
  <1>3. CASE RefuseLine
    BY <1>3, ExitSockets DEF RefuseLine, Fail, options, sockets
  <1>4. CASE SkipLine
    BY <1>4, SameSockets DEF SkipLine, options
  <1>5. CASE FileFails
    BY <1>5, ExitSockets DEF FileFails, Fail, options, sockets
  <1>6. QED
    BY <1>1, <1>2, <1>3, <1>4, <1>5, ParseSockets, SetupApiSockets, SingleSocketSockets,
       JoinSocketSockets, OpenSocketSockets, LineFailsSockets, EndOfFileSockets, CheckSockets,
       SetupDataSockets, DoTestSockets DEF Next


-----------------------------------------------------------------------------
(* The theorems. *)

LEMMA InvariantHolds == Spec => []IInv
  <1>1. Init => IInv
    BY InitOptionsInv, InitSocketsInv DEF IInv
  <1>2. IInv /\ [Next]_vars => IInv'
    BY StepOptionsInv, StepSocketsInv DEF IInv
  <1>3. QED BY <1>1, <1>2, PTL DEF Spec

\* Whatever the feed file says, fds_array_is_valid() succeeds, and the ring that
\* client and server follow visits every socket, once.
THEOREM RingComplete == Spec => []RingCovers
  <1>1. IInv => RingCovers
    <2>1. SUFFICES ASSUME IInv PROVE RingCovers
      OBVIOUS
    <2>2. rc # "SANITY"
      BY <2>1 DEF IInv, SocketsInv, NumberInv
    <2>3. ASSUME pc \in Handlers
          PROVE  /\ {Walk[k] : k \in 0 .. (s_fd_num - 1)} = Opened
                 /\ Cardinality(Opened) = s_fd_num
      <3>1. Ring
        BY <2>1, <2>3 DEF IInv, SocketsInv, PlaceInv, Prepared, Ring
      <3>2. QED BY <3>1, RingVisits
    <2>4. QED BY <2>2, <2>3 DEF RingCovers
  <1>2. QED BY <1>1, InvariantHolds, PTL

\* The search for duplicates of set_sockets_from_feedfile() gives no endpoint a
\* second socket unless it may be repeated.
THEOREM EndpointsUnique == Spec => []NoDuplicateSockets
  <1>1. IInv => NoDuplicateSockets
    BY DEF IInv, SocketsInv
  <1>2. QED BY <1>1, InvariantHolds, PTL

\* The list of the addresses that joined a socket of IPv4 groups is not overrun,
\* by the address that the kernel refuses neither.
THEOREM MembershipsBounded == Spec => []MembershipsFit
  <1>1. IInv => MembershipsFit
    BY DEF IInv, SocketsInv, JoinedInv, MembershipsFit, Counted
  <1>2. QED BY <1>1, InvariantHolds, PTL

\* No combination of options reaches a loop with settings it is not written for.
THEOREM SettingsReach == Spec => []SettingsSound
  <1>1. IInv => SettingsSound
    <2>1. SUFFICES ASSUME IInv, pc \in Handlers PROVE SettingsSound
      BY DEF SettingsSound
    <2>2. pc \in Configured /\ pc \in Prepared
      BY <2>1 DEF Configured, Prepared
    <2> DEFINE p == s_user_params
    <2>3. /\ p.measurement = "NUMBER_BASED" =>
                argv.mode = "ping-pong" /\ p.number_test_target \in 1 .. MAX_PACKET_NUMBER
          /\ p.ping_pong => p.reply_every = 1
          /\ p.data_integrity => p.burst_size = 1
          /\ p.pPlaybackVector.loaded => p.burst_size = 1
          /\ p.threads_num > 1 => ~IsClient /\ p.fd_handler_type # "RECVFROMMUX"
      BY <2>1, <2>2 DEF IInv, OptionsInv, ValuesInv
    <2>4. p.ping_pong <=> argv.mode = "ping-pong"
      BY <2>1, <2>2 DEF IInv, OptionsInv, ModeInv
    <2>5. /\ p.fd_handler_type = "RECVFROM" => ~Given("f")
          /\ p.sock_type = "SOCK_STREAM" => ~Given("f")
          /\ p.fd_handler_type = "SOCKETXTREME" => ~p.is_blocked
      BY <2>1, <2>2 DEF IInv, OptionsInv, CommonInv
    <2>6. /\ p.measurement = "NUMBER_BASED" => p.mps = MPS_MAX
          /\ pc = "client_handler" => IsClient
          /\ pc = "server_handler" => p.threads_num <= 1
      BY <2>1 DEF IInv, OptionsInv, SetupInv
    <2>7. (Given("f") \/ s_fd_num = 1) /\ p.threads_num \in 1 .. s_fd_num
      BY <2>1, <2>2 DEF IInv, SocketsInv, NumberInv
    <2>8. p.measurement = "NUMBER_BASED" => p.ping_pong /\ p.number_test_target > 0 /\ p.mps = MPS_MAX
      BY <2>3, <2>4, <2>6, LimitsAssumption
    <2>9. p.threads_num > 1 => pc = "server_select_per_thread"
      BY <2>1, <2>3, <2>6, <2>7 DEF Handlers
    <2>10. QED BY <2>3, <2>5, <2>7, <2>8, <2>9 DEF SettingsSound
  <1>2. QED BY <1>1, InvariantHolds, PTL

\* Every message a client may send holds its header and fits its buffer, and so
\* does what it may receive.
THEOREM BuffersSuffice == Spec => []MessageFits
  <1>1. IInv => MessageFits
    <2>1. SUFFICES ASSUME IInv, pc \in Handlers PROVE MessageFits
      BY DEF MessageFits
    <2>2. pc \in Configured /\ pc # "bringup"
      BY <2>1 DEF Configured, Prepared, Handlers
    <2> DEFINE p == s_user_params
    <2>3. /\ MAX_PAYLOAD_SIZE \in Nat /\ ms_maxSize \in Nat /\ MAX_PAYLOAD_SIZE <= ms_maxSize
          /\ p.msg_size <= ms_maxSize
          /\ IsClient => /\ p.msg_size \in MIN_PAYLOAD_SIZE .. MAX_PAYLOAD_SIZE
                         /\ p.msg_size_range \in Nat
          /\ p.pPlaybackVector.loaded =>
                \A n \in DOMAIN p.pPlaybackVector.sizes :
                   p.pPlaybackVector.sizes[n] \in MIN_PAYLOAD_SIZE .. MAX_PAYLOAD_SIZE
      BY <2>1, <2>2 DEF IInv, OptionsInv, SizesInv
    <2>4. MIN_PAYLOAD_SIZE \in Nat
      BY LimitsAssumption
    <2>5. ASSUME pc = "client_handler"
          PROVE  /\ MsgSizes # {} \/ p.pPlaybackVector.loaded
                 /\ MsgSizes \subseteq MIN_PAYLOAD_SIZE .. ms_maxSize
      <3>1. IsClient
        BY <2>1, <2>5 DEF IInv, OptionsInv, SetupInv
      <3>2. CASE p.pPlaybackVector.loaded
        <4>1. MsgSizes = Range(p.pPlaybackVector.sizes)
          BY <3>2 DEF MsgSizes
        <4>2. QED BY <2>3, <2>4, <3>2, <4>1 DEF Range
      <3>3. CASE ~p.pPlaybackVector.loaded /\ p.msg_size_range = 0
        <4>1. MsgSizes = {p.msg_size}
          BY <3>3 DEF MsgSizes
        <4>2. QED BY <2>3, <2>4, <3>1, <4>1
      <3>4. CASE ~p.pPlaybackVector.loaded /\ p.msg_size_range # 0
        <4>1. /\ MinMsgSize \in MIN_PAYLOAD_SIZE .. MAX_PAYLOAD_SIZE
              /\ RangeMsgSize \in Nat \ {0}
          BY <2>3, <2>4, <3>1 DEF MinMsgSize, RangeMsgSize, Larger, Smaller
        <4>2. MsgSizes = {Smaller(MAX_PAYLOAD_SIZE, MinMsgSize + r) : r \in 0 .. (RangeMsgSize - 1)}
          BY <3>4 DEF MsgSizes
        <4>3. 0 \in 0 .. (RangeMsgSize - 1)
          BY <4>1
        <4>4. \A r \in 0 .. (RangeMsgSize - 1) :
                 Smaller(MAX_PAYLOAD_SIZE, MinMsgSize + r) \in MIN_PAYLOAD_SIZE .. ms_maxSize
          BY <2>3, <2>4, <4>1 DEF Smaller
        <4>5. QED BY <4>2, <4>3, <4>4
      <3>5. QED BY <3>2, <3>3, <3>4
    <2>6. QED BY <2>3, <2>5 DEF MessageFits
  <1>2. QED BY <1>1, InvariantHolds, PTL

\* A number within 32 bits is not changed by the width.
LEMMA WithinWidth ==
    ASSUME NEW n \in Nat, NEW w \in Nat, n <= w
    PROVE  n % (w + 1) = n
  OBVIOUS

\* PacketTimes has room for what a timed latency test sends at the rate its options ask
\* for, and for the requests of a number based one without bursts.  Bursts that leave 32
\* bits, number based bursts and playbacks are not covered: TableHoldsTest says why.
THEOREM TableSuffices == Spec => []TableHoldsTest
  <1>1. IInv => TableHoldsTest
    <2> DEFINE p == s_user_params
    <2>1. SUFFICES ASSUME IInv, pc = "client_handler", ~p.b_stream,
                          ~p.pPlaybackVector.loaded, MPS_MAX_PP * p.burst_size <= UINT32_MAX
                   PROVE  TableHoldsTest
      BY DEF TableHoldsTest
    <2>2. pc \in Handlers /\ pc \in Configured /\ IsClient
      BY <2>1 DEF Handlers, Configured, Prepared, IInv, OptionsInv, SetupInv
    <2>3. CASE p.measurement = "NUMBER_BASED"
      <3>1. maxSequenceNo >= TEST_START_WARMUP_NUM + p.number_test_target + TEST_END_COOLDOWN_NUM
        BY <2>1, <2>2, <2>3 DEF IInv, OptionsInv, SetupInv
      <3>2. QED BY <2>3, <3>1 DEF TableHoldsTest
    <2>4. CASE p.measurement # "NUMBER_BASED"
      <3>1. maxSequenceNo >= MaxTestDuration *
               (IF ValueOr("mps", DefaultRate) = UINT32_MAX THEN MPS_MAX
                ELSE ValueOr("mps", DefaultRate)) + p.burst_size
        BY <2>1, <2>2, <2>4 DEF IInv, OptionsInv, SetupInv
      <3>2. /\ p.ping_pong <=> argv.mode = "ping-pong"
            /\ argv.mode # "throughput"
        BY <2>1, <2>2 DEF IInv, OptionsInv, ModeInv
      <3>3. p.burst_size \in Nat /\ MPS_MAX_PP \in Nat /\ UINT32_MAX \in Nat
        BY <2>1, <2>2, LimitsAssumption DEF IInv, OptionsInv, ValuesInv
      <3>4. (MPS_MAX_PP * p.burst_size) % (UINT32_MAX + 1) = MPS_MAX_PP * p.burst_size
        <4>1. MPS_MAX_PP * p.burst_size \in Nat
          BY <3>3
        <4>2. QED BY <2>1, <3>3, <4>1, WithinWidth
      <3>5. MPS_MAX = IF argv.mode = "ping-pong" /\ ValueOr("mps", DefaultRate) = UINT32_MAX
                      THEN Smaller(MPS_MAX_PP * p.burst_size, MPS_MAX_UL) ELSE MPS_MAX_UL
        BY <2>1, <2>2, <3>4 DEF IInv, OptionsInv, RateInv
      <3>6. ValueOr("mps", IF p.ping_pong THEN UINT32_MAX ELSE MPS_DEFAULT)
               = ValueOr("mps", DefaultRate)
        BY <3>2 DEF ValueOr, DefaultRate
      <3>7. MPS_DEFAULT # UINT32_MAX
        BY LimitsAssumption
      <3>8. AskedRate = IF ValueOr("mps", DefaultRate) = UINT32_MAX THEN MPS_MAX
                        ELSE ValueOr("mps", DefaultRate)
        BY <3>2, <3>5, <3>6, <3>7 DEF AskedRate, ValueOr, DefaultRate
      <3>9. QED BY <2>4, <3>1, <3>8 DEF TableHoldsTest
    <2>5. QED BY <2>3, <2>4
  <1>2. QED BY <1>1, InvariantHolds, PTL
=============================================================================
