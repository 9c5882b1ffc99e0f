---------------------------- MODULE MCIoHandlers ----------------------------
\* The handlers for TLC: two listening sockets and a datagram socket, with
\* free descriptors below and above them.
EXTENDS IoHandlers

Three(h) == [handler |-> h, fd_min |-> 2, fd_max |-> 4, streams |-> {2, 3}, free |-> {1, 5},
             blocked |-> FALSE]

Two(h) == [Three(h) EXCEPT !.fd_max = 3, !.streams = {2}, !.free = {1, 4}]

One(h) == [Three(h) EXCEPT !.fd_max = 2, !.streams = {2}]

HandlerSettings ==
    {Three(h) : h \in {"RECVFROMMUX", "SELECT", "POLL"}} \cup
    {Two(h) : h \in {"EPOLL", "KQUEUE"}} \cup
    {One(h) : h \in {"RECVFROM", "RECVFROMMUX"}} \cup
    {[Three("RECVFROMMUX") EXCEPT !.blocked = TRUE]}
=============================================================================
