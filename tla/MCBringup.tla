----------------------------- MODULE MCBringup ------------------------------
\* Command lines and feed files for TLC.
EXTENDS Bringup

\* The command lines of a mode with any of the options of values, each with any
\* of its values.
LinesOf(mode, values) ==
    LET With(x, choices) ==
            {c @@ d : c \in choices, d \in {<<>>} \cup {x :> v : v \in values[x]}}
    IN {[mode |-> mode, opts |-> c] : c \in FoldSet(With, {<<>>}, DOMAIN values)}

FeedLine(type, family, a, p, mc, src) ==
    [valid |-> TRUE, sock_type |-> type, family |-> family, addr |-> a, port |-> p,
     is_multicast |-> mc, mc_source |-> src]

U == "SOCK_DGRAM"
T == "SOCK_STREAM"
T_a5 == FeedLine(T, 4, "a", 5, FALSE, None)
U_a5 == FeedLine(U, 4, "a", 5, FALSE, None)
U_b5 == FeedLine(U, 4, "b", 5, FALSE, None)
M_a5 == FeedLine(U, 4, "ma", 5, TRUE, None)
M_b5 == FeedLine(U, 4, "mb", 5, TRUE, None)
M_c5 == FeedLine(U, 4, "mc", 5, TRUE, None)
M_d5 == FeedLine(U, 4, "md", 5, TRUE, None)
S_b5 == FeedLine(U, 4, "mb", 5, TRUE, "s")
V_b5 == FeedLine(U, 4, "mb", 5, TRUE, "v")
U_c6 == FeedLine(U, 6, "c", 5, FALSE, None)
Invalid == [U_a5 EXCEPT !.valid = FALSE]

FeedFiles ==
    {<<>>, <<Invalid>>, <<U_a5, Invalid>>, <<T_a5, U_b5, U_c6, M_a5, U_a5>>, <<S_b5, V_b5, S_b5>>}
      \cup [1 .. 4 -> {M_a5, M_b5, M_c5, M_d5}]
      \cup UNION {[1 .. n -> {T_a5, U_a5, U_b5, M_a5, M_b5, S_b5, U_c6}] : n \in 1 .. 3}

SomeFiles == {<<U_a5>>, <<U_a5, U_b5, M_a5>>}
Item(t, s) == [comment |-> FALSE, parses |-> TRUE, time |-> t, size |-> s]
Comment == [Item(0, 0) EXCEPT !.comment = TRUE]
Garbage == [Item(0, 0) EXCEPT !.parses = FALSE]
DataFiles ==
    {[readable |-> FALSE, lines |-> <<>>]}
      \cup {[readable |-> TRUE, lines |-> l] :
              l \in UNION {[1 .. n -> {Item(0, 3), Item(1, 2), Item(2, 1), Item(2, 3), Item(3, 5), Comment, Garbage}] :
                           n \in 0 .. 3}}
SomeData ==
    {[readable |-> FALSE, lines |-> <<>>], [readable |-> TRUE, lines |-> <<>>],
     [readable |-> TRUE, lines |-> <<Item(1, 2), Comment, Item(2, 3), Item(3, 2)>>]}

Multiplexers == {"EPOLL", "RECVFROMMUX", "SOCKETXTREME", "RECVFROM"}

AllCommandLines ==
    {[mode |-> "help", opts |-> <<>>]}
      \cup LinesOf("under-load",
              ("t" :> {0, 1, MAX_DURATION + 1}) @@ ("mps" :> {0, 2, MAX_OPTION + 1, UINT32_MAX})
                @@ ("b" :> {0, 2}) @@ ("reply-every" :> {0, 5, MAX_OPTION})
                @@ ("m" :> {1, 3, 6}) @@ ("r" :> {-1, 2, 9}))
      \cup LinesOf("ping-pong",
              ("n" :> {0, 2, MAX_PACKET_NUMBER + 1}) @@ ("t" :> {2})
                @@ ("mps" :> {2, UINT32_MAX}) @@ ("b" :> {1, 2, 700})
                @@ ("data-integrity" :> {TRUE}) @@ ("m" :> {4}) @@ ("r" :> {1})
                @@ ("other self" :> {FALSE}))
      \cup LinesOf("throughput",
              ("tcp" :> {TRUE}) @@ ("b" :> {3}) @@ ("mps" :> {2}) @@ ("m" :> {5, 7, 8})
                @@ ("client_port" :> {TRUE, FALSE}) @@ ("client_addr" :> {TRUE, FALSE})
                @@ ("n" :> {1}))
      \cup LinesOf("throughput", "f" :> FeedFiles)
      \cup LinesOf("playback",
              ("data-file" :> SomeData) @@ ("reply-every" :> {0, 3})
                @@ ("dummy-send" :> {0, 2, UINT32_MAX}) @@ ("m" :> {3})
                @@ ("tcp_nb_connect_timeout_ms" :> {-1, 5}) @@ ("tcp" :> {TRUE})
                @@ ("other client" :> {FALSE}))
      \cup LinesOf("playback", "data-file" :> DataFiles)
      \cup LinesOf("server",
              ("f" :> SomeFiles) @@ ("F" :> Multiplexers) @@ ("threads-num" :> {0, 1, 2, 3})
                @@ ("tls" :> {TRUE}) @@ ("rxfiltercb" :> {TRUE}) @@ ("m" :> {6, 8})
                @@ ("tcp" :> {TRUE}) @@ ("dont-reply" :> {TRUE}) @@ ("load-vma" :> {TRUE}))
      \cup LinesOf("server", ("f" :> FeedFiles) @@ ("i" :> {TRUE, FALSE}) @@ ("h" :> {TRUE}))
      \cup LinesOf("under-load",
              ("f" :> FeedFiles) @@ ("F" :> {"SOCKETXTREME"}) @@ ("client_addr" :> {TRUE}))
      \cup LinesOf("under-load",
              ("f" :> SomeFiles) @@ ("F" :> Multiplexers) @@ ("nonblocked" :> {TRUE})
                @@ ("recv_looping_num" :> {1, 3}) @@ ("zcopyread" :> {TRUE})
                @@ ("dummy-send" :> {UINT32_MAX}))

\* A server with a feed file.
ServerFiles == LinesOf("server", "f" :> FeedFiles)
=============================================================================
