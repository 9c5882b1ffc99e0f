------------------------------ MODULE Options -------------------------------
(***************************************************************************)
(* How the command line becomes s_user_params (sockperf.cpp): main() picks *)
(* the function of a mode, which stores its defaults and then reads the    *)
(* common options, the client's, and its own.  The first option refused    *)
(* ends the program with the help text.                                    *)
(*                                                                         *)
(* A command line is a mode and a function from the options given to their *)
(* values.  A number is what strtol() makes of the text, 0 for garbage;    *)
(* "max" as a rate is UINT32_MAX; an option that only stores a value, or   *)
(* refuses it, is TRUE or FALSE.  The options no decision depends on are   *)
(* one option of each table, "other".  The value of --data-file is what    *)
(* the file is: whether it can be read, and its lines, each a comment or a *)
(* time and a size if these can be parsed.                                 *)
(***************************************************************************)
EXTENDS Integers, Sequences, FiniteSets

CONSTANTS CommandLines,          \* the command lines the program is started with
          MIN_PAYLOAD_SIZE, DEFAULT_PAYLOAD_SIZE, MAX_TCP_SIZE,
          MAX_DURATION, MAX_PACKET_NUMBER,
          MAX_OPTION,            \* 1 << 30
          UINT32_MAX,
          MIN_PLAYBACK_SIZE, MAX_PLAYBACK_SIZE,   \* 14 and 64000
          MPS_DEFAULT, MPS_MAX_PP, MPS_MAX_UL, REPLY_EVERY_DEFAULT

ASSUME LimitsAssumption ==
    /\ {MIN_PAYLOAD_SIZE, MAX_DURATION, MAX_PACKET_NUMBER, MPS_DEFAULT, MPS_MAX_PP,
        REPLY_EVERY_DEFAULT} \subseteq Nat \ {0}
    /\ DEFAULT_PAYLOAD_SIZE \in Nat /\ MAX_TCP_SIZE \in Nat /\ MPS_MAX_UL \in Nat
    /\ MIN_PLAYBACK_SIZE \in Nat /\ MAX_PLAYBACK_SIZE \in Nat
    /\ MAX_OPTION \in Nat /\ UINT32_MAX \in Nat
    /\ MIN_PAYLOAD_SIZE < DEFAULT_PAYLOAD_SIZE /\ DEFAULT_PAYLOAD_SIZE < MAX_TCP_SIZE
    /\ MPS_MAX_PP < MPS_MAX_UL /\ MPS_MAX_UL < MAX_OPTION /\ MAX_OPTION < UINT32_MAX
    /\ MPS_DEFAULT < MPS_MAX_UL /\ REPLY_EVERY_DEFAULT <= MAX_OPTION
    /\ MIN_PAYLOAD_SIZE <= MIN_PLAYBACK_SIZE /\ MAX_PLAYBACK_SIZE <= DEFAULT_PAYLOAD_SIZE

\* The options whose value strtol() makes of the text.
Numbers == {"t", "n", "b", "reply-every", "mps", "m", "r", "threads-num", "dummy-send"}

ASSUME CommandLinesAssumption ==
    \A c \in CommandLines :
        /\ c.mode \in {"under-load", "ping-pong", "throughput", "playback", "server", "help"}
        /\ \A x \in Numbers : x \in DOMAIN c.opts => c.opts[x] \in Int

VARIABLES argv,
          pc,                \* the function at work
          s_user_params,
          MAX_PAYLOAD_SIZE, MPS_MAX   \* globals the options change

optionVars == <<argv, pc, s_user_params, MAX_PAYLOAD_SIZE, MPS_MAX>>

Given(x) == x \in DOMAIN argv.opts    \* aopt_check()
Value(x) == argv.opts[x]              \* aopt_value()
ValueOr(x, default) == IF Given(x) THEN Value(x) ELSE default
Larger(a, b) == IF a > b THEN a ELSE b
Smaller(a, b) == IF a < b THEN a ELSE b

\* The tables of descriptions: an option none of a mode's tables has is refused.
CommonOptions == {"h", "tcp", "i", "p", "f", "F", "nonblocked", "recv_looping_num", "zcopyread",
                  "load-vma", "tls", "other"}
ClientOptions == {"dummy-send", "tcp_nb_connect_timeout_ms", "other client"}
UnderLoadOptions == {"t", "client_port", "client_addr", "b", "reply-every", "mps", "m", "r", "other self"}
PingPongOptions == {"t", "n", "client_port", "client_addr", "b", "mps", "m", "r", "data-integrity",
                    "other self"}
ThroughputOptions == {"t", "client_port", "client_addr", "b", "mps", "m", "r"}
PlaybackOptions == {"reply-every", "data-file", "other self"}
ServerOptions == {"threads-num", "rxfiltercb", "dont-reply", "m", "other self"}

SelfOptions ==
    CASE argv.mode = "under-load" -> UnderLoadOptions
      [] argv.mode = "ping-pong"  -> PingPongOptions
      [] argv.mode = "throughput" -> ThroughputOptions
      [] argv.mode = "playback"   -> PlaybackOptions
      [] argv.mode = "server"     -> ServerOptions

IsClient == argv.mode # "server"

\* The sizes of the messages to play back, once a file is loaded.
NoPlayback == [loaded |-> FALSE, sizes |-> <<>>]

\* user_params_t() and set_defaults()
Defaults == [mode |-> "MODE_SERVER", measurement |-> "TIME_BASED", ping_pong |-> FALSE,
             b_stream |-> FALSE, mps |-> MPS_DEFAULT, reply_every |-> REPLY_EVERY_DEFAULT,
             msg_size |-> MIN_PAYLOAD_SIZE, msg_size_range |-> 0, sec_test_duration |-> 1,
             number_test_target |-> 0, burst_size |-> 1, data_integrity |-> FALSE,
             fd_handler_type |-> "RECVFROM", is_blocked |-> TRUE, max_looping_over_recv |-> 1,
             sock_type |-> "SOCK_DGRAM", tls |-> FALSE, is_zcopyread |-> FALSE,
             is_rxfiltercb |-> FALSE, client_addr |-> FALSE, dummy_mps |-> 0,
             pPlaybackVector |-> NoPlayback, mthread_server |-> FALSE, threads_num |-> 1,
             dont_reply |-> FALSE]

InitOptions ==
    /\ argv \in CommandLines
    /\ pc = "main"
    /\ s_user_params = Defaults
    /\ MAX_PAYLOAD_SIZE = DEFAULT_PAYLOAD_SIZE /\ MPS_MAX = MPS_MAX_UL

-----------------------------------------------------------------------------
\* What a mode stores before it reads an option.
ModeDefaults ==
    CASE argv.mode = "under-load" -> [s_user_params EXCEPT !.mode = "MODE_CLIENT"]
      [] argv.mode = "ping-pong" ->
            [s_user_params EXCEPT !.mode = "MODE_CLIENT", !.ping_pong = TRUE,
                                  !.mps = UINT32_MAX, !.reply_every = 1]
      [] argv.mode = "throughput" ->
            [s_user_params EXCEPT !.mode = "MODE_CLIENT", !.b_stream = TRUE,
                                  !.mps = UINT32_MAX, !.reply_every = MAX_OPTION]
      [] argv.mode = "playback" -> [s_user_params EXCEPT !.mode = "MODE_CLIENT"]
      [] argv.mode = "server" -> [s_user_params EXCEPT !.msg_size = MAX_PAYLOAD_SIZE]

\* main() finds the mode; an unknown option and -h end in the help text.
SelectMode ==
    /\ pc = "main"
    /\ IF \/ argv.mode = "help"
          \/ ~(DOMAIN argv.opts \subseteq
                 CommonOptions \cup SelfOptions \cup (IF IsClient THEN ClientOptions ELSE {}))
          \/ Given("h")
       THEN pc' = "exit" /\ UNCHANGED s_user_params
       ELSE pc' = "common" /\ s_user_params' = ModeDefaults
    /\ UNCHANGED <<argv, MAX_PAYLOAD_SIZE, MPS_MAX>>

\* parse_common_opt(): what it refuses, address resolution included.
CommonRefused ==
    \/ \E x \in {"i", "p", "load-vma", "other"} : Given(x) /\ ~Value(x)
    \/ Given("f") /\ (Given("i") \/ Given("p"))
    \/ Given("F") /\ ~Given("f")
    \/ Given("F") /\ Value("F") \notin {"EPOLL", "POLL", "SELECT", "RECVFROMMUX", "SOCKETXTREME"}
    \/ Given("recv_looping_num") /\ Value("recv_looping_num") # 1 /\ ~Given("nonblocked")
    \/ Given("tcp") /\ Given("f")
    \/ Given("tls") /\ Given("load-vma")

\* A number of loops other than 1 is checked and then forgotten.
ParseCommonOpt ==
    /\ pc = "common"
    /\ IF CommonRefused
       THEN pc' = "exit" /\ UNCHANGED s_user_params
       ELSE /\ pc' = IF IsClient THEN "client" ELSE "self"
            /\ s_user_params' =
                 [s_user_params EXCEPT
                    !.fd_handler_type = ValueOr("F", IF Given("f") THEN "EPOLL" ELSE @),
                    !.is_blocked = ~Given("nonblocked") /\ ValueOr("F", "") # "SOCKETXTREME",
                    !.sock_type = IF Given("tcp") THEN "SOCK_STREAM" ELSE @,
                    !.tls = Given("tls"),
                    !.is_zcopyread = Given("zcopyread")]
    /\ UNCHANGED <<argv, MAX_PAYLOAD_SIZE, MPS_MAX>>

ValidRate(v) == v \in 1 .. MAX_OPTION \/ v = UINT32_MAX

\* parse_client_opt()
ClientRefused ==
    \/ Given("other client") /\ ~Value("other client")
    \/ Given("dummy-send") /\ ~ValidRate(Value("dummy-send"))
    \/ /\ Given("tcp_nb_connect_timeout_ms")
       /\ \/ ~Given("f") /\ s_user_params.sock_type # "SOCK_STREAM"
          \/ Value("tcp_nb_connect_timeout_ms") < 0

ParseClientOpt ==
    /\ pc = "client"
    /\ IF ClientRefused
       THEN pc' = "exit" /\ UNCHANGED s_user_params
       ELSE /\ pc' = "self"
            /\ s_user_params' = [s_user_params EXCEPT !.dummy_mps = ValueOr("dummy-send", @)]
    /\ UNCHANGED <<argv, MAX_PAYLOAD_SIZE, MPS_MAX>>

-----------------------------------------------------------------------------
\* The options of the client modes, each refused by its own value.
SizeValid(v) ==
    v >= MIN_PAYLOAD_SIZE /\ v <= (IF Given("tcp") THEN MAX_TCP_SIZE ELSE MAX_PAYLOAD_SIZE)

ClientValuesRefused ==
    \/ Given("t") /\ Value("t") \notin 1 .. MAX_DURATION
    \/ Given("b") /\ Value("b") < 1
    \/ Given("reply-every") /\ Value("reply-every") \notin 1 .. MAX_OPTION
    \/ Given("mps") /\ ~ValidRate(Value("mps"))
    \/ Given("m") /\ ~SizeValid(Value("m"))
    \/ Given("r") /\ Value("r") < 0
    \/ Given("other self") /\ ~Value("other self")

\* parse_client_bind_info()
BindRefused ==
    \/ Given("client_port") /\ (Given("f") \/ ~Value("client_port"))
    \/ Given("client_addr") /\ ~Value("client_addr")

\* What the client modes store of the options they share.
ClientValues ==
    [s_user_params EXCEPT !.sec_test_duration = ValueOr("t", @),
                          !.burst_size = ValueOr("b", @),
                          !.reply_every = ValueOr("reply-every", @),
                          !.mps = ValueOr("mps", @),
                          !.msg_size = ValueOr("m", @),
                          !.msg_size_range = ValueOr("r", @),
                          !.client_addr = Given("client_addr")]

\* The end of a mode's function: an error ends in help, cleanup() and exit(0).
Return(refused, params, size, limit) ==
    /\ pc = "self"
    /\ IF refused
       THEN pc' = "exit" /\ UNCHANGED <<s_user_params, MAX_PAYLOAD_SIZE, MPS_MAX>>
       ELSE pc' = "bringup" /\ s_user_params' = params /\ MAX_PAYLOAD_SIZE' = size /\ MPS_MAX' = limit
    /\ UNCHANGED argv

ProcModeUnderLoad ==
    /\ argv.mode = "under-load"
    /\ Return(ClientValuesRefused \/ BindRefused,
              ClientValues, ValueOr("m", MAX_PAYLOAD_SIZE), MPS_MAX)

\* Mutant: -n and --mps together are accepted.
NumberRefusedTimeOnly ==
    Given("n") /\ (Given("t") \/ Value("n") \notin 1 .. MAX_PACKET_NUMBER)

NumberRefused ==
    Given("n") /\ (Given("t") \/ Given("mps") \/ Value("n") \notin 1 .. MAX_PACKET_NUMBER)

PingPongValues ==
    [ClientValues EXCEPT !.measurement = IF Given("n") THEN "NUMBER_BASED" ELSE @,
                         !.number_test_target = ValueOr("n", @),
                         !.data_integrity = Given("data-integrity")]

\* Mutant: the limit forgets that a whole burst is sent before replies are
\* awaited.
PingPongLimitOne == IF PingPongValues.mps = UINT32_MAX THEN MPS_MAX_PP ELSE MPS_MAX

\* The most messages per second the table must have room for, in 32 bits.
PingPongLimit ==
    IF PingPongValues.mps = UINT32_MAX
    THEN Smaller((MPS_MAX_PP * PingPongValues.burst_size) % (UINT32_MAX + 1), MPS_MAX_UL)
    ELSE MPS_MAX

ProcModePingPong ==
    /\ argv.mode = "ping-pong"
    /\ Return(\/ ClientValuesRefused \/ BindRefused \/ NumberRefused
              \/ Given("data-integrity") /\ Given("b"),
              PingPongValues, ValueOr("m", MAX_PAYLOAD_SIZE), PingPongLimit)

ProcModeThroughput ==
    /\ argv.mode = "throughput"
    /\ Return(ClientValuesRefused \/ BindRefused,
              ClientValues, ValueOr("m", MAX_PAYLOAD_SIZE), MPS_MAX)

PlaybackLines == SelectSeq(Value("data-file").lines, LAMBDA l : ~l.comment)

\* Mutant: only the lower bound of a size is checked.
PlaybackItemValidAnySize(prev_time, l) ==
    l.parses /\ prev_time < l.time /\ l.size >= MIN_PLAYBACK_SIZE

\* A line's time is later than the last one's, by a duration that is not 0.
PlaybackItemValid(prev_time, l) ==
    l.parses /\ prev_time < l.time /\ l.size \in MIN_PLAYBACK_SIZE .. MAX_PLAYBACK_SIZE

\* loadPlaybackData(): a bad line ends the program.
PlaybackRefused ==
    \/ ~Value("data-file").readable
    \/ \E n \in 1 .. Len(PlaybackLines) :
        ~PlaybackItemValid(IF n = 1 THEN 0 ELSE PlaybackLines[n - 1].time, PlaybackLines[n])

PlaybackVector ==
    [loaded |-> TRUE, sizes |-> [n \in 1 .. Len(PlaybackLines) |-> PlaybackLines[n].size]]

ProcModePlayback ==
    /\ argv.mode = "playback"
    /\ Return(ClientValuesRefused \/ ~Given("data-file") \/ PlaybackRefused,
              [ClientValues EXCEPT !.pPlaybackVector = PlaybackVector],
              MAX_PAYLOAD_SIZE, MPS_MAX)

ThreadsRefused ==
    /\ Given("threads-num")
    /\ ~Given("f") \/ Value("threads-num") <= 0 \/ s_user_params.fd_handler_type = "RECVFROMMUX"

ProcModeServer ==
    /\ argv.mode = "server"
    /\ Return(\/ ThreadsRefused
              \/ Given("dont-reply") /\ Given("tcp")
              \/ Given("m") /\ Value("m") > MAX_TCP_SIZE
              \/ Given("other self") /\ ~Value("other self"),
              [s_user_params EXCEPT !.mthread_server = Given("threads-num"),
                                    !.threads_num = ValueOr("threads-num", @),
                                    !.is_rxfiltercb = Given("rxfiltercb"),
                                    !.dont_reply = Given("dont-reply")],
              Larger(MAX_PAYLOAD_SIZE, ValueOr("m", 0)), MPS_MAX)

Parse ==
    \/ SelectMode \/ ParseCommonOpt \/ ParseClientOpt
    \/ ProcModeUnderLoad \/ ProcModePingPong \/ ProcModeThroughput \/ ProcModePlayback
    \/ ProcModeServer
=============================================================================
