-------------------------- MODULE MCServerMessages --------------------------
\* The handler for TLC: see ServerMessages.cfg.
EXTENDS ServerMessages

Blocking == [network |-> "stream", multicast |-> FALSE, b_server_dont_reply |-> FALSE,
             is_nonblocked_send |-> FALSE, reply_every |-> 1, maxRestarts |-> 0]
NonBlocking == [Blocking EXCEPT !.is_nonblocked_send = TRUE]
Sparse == [NonBlocking EXCEPT !.reply_every = 2]
Datagrams == [Blocking EXCEPT !.network = "datagram", !.multicast = TRUE, !.reply_every = 3]
DatagramsAgain == [Datagrams EXCEPT !.multicast = FALSE, !.maxRestarts = 1]
InOrder == [Datagrams EXCEPT !.network = "ordered", !.maxRestarts = 1]
Unicast == [InOrder EXCEPT !.multicast = FALSE, !.is_nonblocked_send = TRUE]
Silent == [InOrder EXCEPT !.b_server_dont_reply = TRUE, !.reply_every = 2]

MessageSettings ==
    {Blocking, NonBlocking, Sparse, Datagrams, DatagramsAgain, InOrder, Unicast, Silent}
=============================================================================
