------------------------------ MODULE MCClient ------------------------------
\* Instances of the client for TLC: the settings of the Client*.cfg files.
EXTENDS Client

\* One server answers every request of a test of six requests.
Default == [mode |-> "ping-pong", measurement |-> "TIME_BASED", network |-> "datagram",
            servers |-> {"s1"}, multicast |-> FALSE, reply_every |-> 1,
            burst_size |-> 1, maxSequenceNo |-> 6, warmup_num |-> 1,
            number_test_target |-> 2, cooldown_num |-> 1, waitingCaps |-> {1},
            nonblocked |-> FALSE, sockets |-> 1, is_blocked |-> TRUE, limitedWait |-> FALSE]

\* A sender and a receiver thread, and a sender that may skip.
UnderLoad == [Default EXCEPT !.mode = "under-load", !.reply_every = 2, !.burst_size = 2,
                             !.maxSequenceNo = 5, !.nonblocked = TRUE]

\* Two servers answer a multicast client, which also hears itself.
ServersAnswer ==
    [Default EXCEPT !.mode = "under-load", !.servers = {"s1", "s2"},
                    !.multicast = TRUE, !.maxSequenceNo = 2]

\* Two connections, made without blocking.
BurstsOverStream ==
    [Default EXCEPT !.network = "stream", !.burst_size = 2, !.sockets = 2, !.is_blocked = FALSE]
NumberOverStream ==
    [Default EXCEPT !.network = "stream", !.measurement = "NUMBER_BASED",
                    !.number_test_target = 3, !.waitingCaps = {0, 1}]
NumberOverDatagrams ==
    [Default EXCEPT !.measurement = "NUMBER_BASED", !.maxSequenceNo = 5, !.waitingCaps = {1, 2}]

\* -n counts one packet of every burst, so that three observations take six
\* requests; a burst with a skipped send waits for a reply that never comes.
NumberOfBursts ==
    [NumberOverStream EXCEPT !.burst_size = 2, !.number_test_target = 2, !.cooldown_num = 0]
NumberWithSkips ==
    [NumberOverStream EXCEPT !.number_test_target = 1, !.nonblocked = TRUE, !.limitedWait = TRUE,
                             !.waitingCaps = {1}]

\* Lost and skipped requests under a multiplexer with a --timeout.
BurstsTimed == [Default EXCEPT !.burst_size = 2, !.maxSequenceNo = 4, !.nonblocked = TRUE,
                               !.limitedWait = TRUE]
Playback == [Default EXCEPT !.mode = "playback", !.reply_every = 2, !.maxSequenceNo = 5,
                            !.nonblocked = TRUE]

TestSettings ==
    {UnderLoad, ServersAnswer, BurstsOverStream, BurstsTimed, NumberOverStream,
     NumberOfBursts, NumberWithSkips, NumberOverDatagrams, Playback}

\* An estimate below one second, and the settings of the other finding.
ShortTest == {[NumberOverDatagrams EXCEPT !.waitingCaps = {0}]}
TwoThreads == {[Default EXCEPT !.mode = "under-load", !.maxSequenceNo = 3]}
=============================================================================
