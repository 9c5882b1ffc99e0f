----------------------------- MODULE IoHandlers -----------------------------
(***************************************************************************)
(* The I/O handlers (iohandlers.h, iohandlers.cpp) under the loop that     *)
(* uses them (Server::doLoop() of server.cpp), for one thread.             *)
(*                                                                         *)
(* A round of doLoop() is waitArrival(), a scan of the indices look_start  *)
(* .. look_end - 1 with analyzeArrival(), which makes a descriptor or 0 of *)
(* an index, and update() when the round accepted or closed something.     *)
(* What an index is differs: a descriptor (RECVFROM, RECVFROMMUX, SELECT), *)
(* a place in the poll array, or a place in the list of events.            *)
(***************************************************************************)
EXTENDS Integers, Sequences, FiniteSets, SequencesExt

CONSTANTS max_fds_num,  \* descriptors are below, and arrays have so many places
          Settings      \* what the handler may be given

\* Nothing is closed before the loop, so that the sockets are consecutive;
\* IoRecvfrom is chosen for a single address, and 0 is the standard input.
ASSUME HandlerAssumption ==
    /\ max_fds_num \in Nat
    /\ \A s \in Settings :
          /\ s.handler \in {"RECVFROM", "RECVFROMMUX", "SELECT", "POLL", "EPOLL", "KQUEUE"}
          /\ s.fd_min \in Nat \ {0} /\ s.fd_max \in s.fd_min .. (max_fds_num - 1)
          /\ s.handler = "RECVFROM" => s.fd_min = s.fd_max
          /\ s.streams \subseteq s.fd_min .. s.fd_max
          /\ s.free \subseteq (1 .. (max_fds_num - 1)) \ (s.fd_min .. s.fd_max)
          /\ s.blocked \in BOOLEAN

VARIABLES
    s_user_params,                 \* the setting of this run
    readable,                      \* the kernel: descriptors with something to read
    active_fd_list,                \* per socket: its connections
    interest,                      \* m_save_fds, or the kernel's set of m_epfd or m_kqfd
    mp_poll_fd_arr,                \* the descriptors of the poll array
    m_max_events,
    m_fd_min_all, m_fd_max_all,    \* IoRecvfromMUX
    m_look_start, m_look_end,
    m_readfds,                     \* IoSelect: m_readfds, IoPoll: the descriptors with revents
    events,                        \* the list of events of IoEpoll, IoKqueue
    pc, numReady, ifd, actual_fd, do_update  \* doLoop()

handler_vars == <<interest, mp_poll_fd_arr, m_max_events, m_fd_min_all, m_fd_max_all,
                  m_look_start, m_look_end>>
loop_vars == <<m_readfds, events, pc, numReady, ifd, actual_fd, do_update>>
vars == <<s_user_params, readable, active_fd_list, interest, mp_poll_fd_arr, m_max_events,
          m_fd_min_all, m_fd_max_all, m_look_start, m_look_end, m_readfds, events, pc, numReady,
          ifd, actual_fd, do_update>>

-----------------------------------------------------------------------------
handler == s_user_params.handler
m_fd_min == s_user_params.fd_min
m_fd_max == s_user_params.fd_max
Sockets == m_fd_min .. m_fd_max
m_fd_num == Cardinality(Sockets)
Streams == s_user_params.streams        \* the listening sockets
Blocked == s_user_params.blocked        \* not --nonblocked

OneByOne == handler \in {"RECVFROM", "RECVFROMMUX"}
EventList == handler \in {"EPOLL", "KQUEUE"}

INVALID_SOCKET == -1
MAX_ACTIVE_FD_NUM == max_fds_num
Slots == 0 .. (MAX_ACTIVE_FD_NUM - 1)

Active(s) == {active_fd_list[s][i] : i \in Slots} \ {INVALID_SOCKET}
active_fd_count(f) == IF f \in Sockets THEN Cardinality(Active(f)) ELSE 0
Connections == UNION {Active(s) : s \in Sockets}

\* The descriptors with a record in g_fds_array.
Records == Sockets \cup Connections

Lowest(S) == CHOOSE f \in S : \A g \in S : f <= g
Highest(S) == CHOOSE f \in S : \A g \in S : g <= f

\* The constructors, and prepareNetwork().
Init ==
    /\ s_user_params \in Settings
    /\ readable = {}
    /\ active_fd_list = [s \in Sockets |-> [i \in Slots |-> INVALID_SOCKET]]
    /\ interest = IF handler \in {"SELECT", "EPOLL", "KQUEUE"} THEN Sockets ELSE {}
    /\ mp_poll_fd_arr = IF handler = "POLL" THEN [i \in 1 .. m_fd_num |-> m_fd_min + i - 1] ELSE <<>>
    /\ m_max_events = IF EventList THEN m_fd_num ELSE 0
    /\ m_fd_min_all = m_fd_min /\ m_fd_max_all = m_fd_max
    /\ m_look_start = CASE handler \in {"RECVFROM", "SELECT"} -> m_fd_min
                        [] handler = "RECVFROMMUX" ->
                             IF m_fd_num = 1 THEN m_fd_min ELSE m_fd_min - 1
                        [] OTHER -> 0
    /\ m_look_end = CASE handler = "RECVFROM" -> m_fd_min + 1
                      [] handler = "RECVFROMMUX" -> IF m_fd_num = 1 THEN m_fd_num + 1 ELSE m_fd_min
                      [] handler = "SELECT" -> m_fd_max + 1
                      [] handler = "POLL" -> m_fd_num
                      [] OTHER -> 0
    /\ m_readfds = {} /\ events = <<>>
    /\ pc = "wait" /\ numReady = 0 /\ ifd = 0 /\ actual_fd = 0 /\ do_update = FALSE

-----------------------------------------------------------------------------
(***************************************************************************)
(* waitArrival()                                                           *)
(***************************************************************************)
StartScan(n, from) ==
    /\ numReady' = n /\ ifd' = from
    /\ pc' = "scan"
    /\ UNCHANGED <<s_user_params, readable, active_fd_list, interest, mp_poll_fd_arr,
                   m_max_events, m_fd_min_all, m_fd_max_all, actual_fd, do_update>>

\* IoRecvfrom: there is one socket, and no question.
WaitRecvfrom ==
    /\ pc = "wait" /\ handler = "RECVFROM"
    /\ StartScan(m_fd_num, m_look_start)
    /\ UNCHANGED <<m_look_start, m_look_end, m_readfds, events>>

\* IoRecvfromMUX: the next descriptor around the range that has a record and
\* no connections.
Candidates ==
    {f \in m_fd_min_all .. m_fd_max_all : f \in Records /\ active_fd_count(f) = 0}

\* Mutant: a round begins with the first descriptor instead of the next.
NextLookFirst == Lowest(Candidates)

NextLook ==
    LET ahead == {f \in Candidates : f > m_look_start}
    IN IF ahead # {} THEN Lowest(ahead) ELSE Lowest(Candidates)

WaitRecvfromMUX ==
    /\ pc = "wait" /\ handler = "RECVFROMMUX"
    /\ Candidates # {}
    /\ m_look_start' = NextLook
    /\ m_look_end' = NextLook + 1
    /\ StartScan(1, NextLook)
    /\ UNCHANGED <<m_readfds, events>>

\* select(), poll(): what is readable among the descriptors asked for.
Asked ==
    IF handler = "SELECT" THEN {f \in interest : f < m_look_end}
    ELSE {mp_poll_fd_arr[i] : i \in 1 .. m_look_end}

WaitSelectPoll ==
    LET ready == Asked \cap readable
    IN /\ pc = "wait" /\ handler \in {"SELECT", "POLL"}
       /\ ready # {}
       /\ m_readfds' = ready
       /\ StartScan(Cardinality(ready), m_look_start)
       /\ UNCHANGED <<m_look_start, m_look_end, events>>

\* epoll_wait(), kevent(): a list of at most m_max_events events, in an order
\* of the kernel's.
WaitEvents ==
    LET ready == interest \cap readable
    IN /\ pc = "wait" /\ EventList
       /\ ready # {}
       /\ \E list \in SetToSeqs(ready) :
             LET n == IF Len(list) < m_max_events THEN Len(list) ELSE m_max_events
             IN /\ events' = SubSeq(list, 1, n)
                /\ m_look_end' = n
                /\ StartScan(n, m_look_start)
       /\ UNCHANGED <<m_look_start, m_readfds>>

\* select_timeout passes.
Timeout ==
    /\ pc = "wait" /\ ~OneByOne
    /\ m_look_end' = IF EventList THEN 0 ELSE m_look_end
    /\ UNCHANGED <<s_user_params, readable, active_fd_list, interest, mp_poll_fd_arr,
                   m_max_events, m_fd_min_all, m_fd_max_all, m_look_start, loop_vars>>

WaitArrival == WaitRecvfrom \/ WaitRecvfromMUX \/ WaitSelectPoll \/ WaitEvents

-----------------------------------------------------------------------------
(***************************************************************************)
(* The scan: analyzeArrival() and what the server does with a descriptor.  *)
(***************************************************************************)
\* As built without asserts: with them, the one on active_fd_list ends the
\* program when IoRecvfromMUX comes to a connection that was accepted.
analyzeArrival(i) ==
    CASE OneByOne ->
           IF active_fd_count(i) > 0 THEN active_fd_list[i][0] ELSE i
      [] handler = "SELECT" -> IF i \in m_readfds THEN i ELSE 0
      [] handler = "POLL" ->
           IF mp_poll_fd_arr[i + 1] \in m_readfds THEN mp_poll_fd_arr[i + 1] ELSE 0
      [] OTHER -> events[i + 1]

Scanning == pc = "scan" /\ numReady > 0 /\ ifd < m_look_end

Skip ==
    /\ Scanning /\ analyzeArrival(ifd) = 0
    /\ ifd' = ifd + 1
    /\ UNCHANGED <<s_user_params, readable, active_fd_list, handler_vars, m_readfds, events, pc,
                   numReady, actual_fd, do_update>>

\* One descriptor is served.
Serve(f) ==
    /\ Scanning /\ f = analyzeArrival(ifd) /\ f # 0
    /\ actual_fd' = f
    /\ numReady' = numReady - 1
    /\ ifd' = ifd + 1
    /\ UNCHANGED <<s_user_params, mp_poll_fd_arr, m_max_events, m_fd_min_all, m_fd_max_all,
                   m_look_start, m_look_end, m_readfds, events, pc>>

\* Some messages are read, all of them or not; accept() fails.
Receive(f) ==
    /\ Serve(f)
    /\ f \in readable
    /\ readable' \in {readable, readable \ {f}}
    /\ UNCHANGED <<active_fd_list, interest, do_update>>

\* Nothing to read from a socket that does not block.
ReadAgain(f) ==
    /\ Serve(f)
    /\ f \notin readable /\ ~Blocked
    /\ UNCHANGED <<readable, active_fd_list, interest, do_update>>

FreeFds == s_user_params.free \ Connections

FirstFree(s) == Lowest({i \in Slots : active_fd_list[s][i] = INVALID_SOCKET})

\* server_accept()
Accept(f) ==
    /\ Serve(f)
    /\ f \in Streams /\ f \in readable /\ FreeFds # {}
    /\ active_fd_count(f) < MAX_ACTIVE_FD_NUM - 1
    /\ active_fd_list' = [active_fd_list EXCEPT ![f][FirstFree(f)] = Lowest(FreeFds)]
    /\ readable' \in {readable, readable \ {f}}
    /\ do_update' = TRUE
    /\ UNCHANGED interest

\* close_ifd(); the kernel takes a closed descriptor off its set.
CloseIfd(f) ==
    /\ Serve(f)
    /\ f \in Connections /\ f \in readable
    /\ active_fd_list' = [s \in Sockets |-> [i \in Slots |->
                             IF active_fd_list[s][i] = f THEN INVALID_SOCKET
                             ELSE active_fd_list[s][i]]]
    /\ readable' = readable \ {f}
    /\ interest' = IF EventList THEN interest \ {f} ELSE interest
    /\ do_update' = TRUE

-----------------------------------------------------------------------------
(***************************************************************************)
(* update(): a pass over the sockets and their lists of connections.       *)
(***************************************************************************)
\* IoRecvfrom
UpdateRecvfrom == handler = "RECVFROM" /\ UNCHANGED handler_vars

\* Mutant: the range is left as it was.
UpdateMUXNoRange ==
    /\ handler = "RECVFROMMUX"
    /\ m_look_start' = IF m_look_start \notin Sockets THEN m_fd_max
                       ELSE IF m_look_start = m_fd_max THEN m_fd_min_all - 1 ELSE m_look_start
    /\ UNCHANGED <<interest, mp_poll_fd_arr, m_max_events, m_fd_min_all, m_fd_max_all, m_look_end>>

\* IoRecvfromMUX
UpdateMUX ==
    /\ handler = "RECVFROMMUX"
    /\ m_fd_min_all' = Lowest(Records)
    /\ m_fd_max_all' = Highest(Records)
    /\ m_look_start' = IF m_look_start \notin Sockets THEN m_fd_max
                       ELSE IF m_look_start = m_fd_max THEN m_fd_min_all' - 1 ELSE m_look_start
    /\ UNCHANGED <<interest, mp_poll_fd_arr, m_max_events, m_look_end>>

\* IoSelect
UpdateSelect ==
    /\ handler = "SELECT"
    /\ interest' = Records
    /\ m_look_start' = Lowest(Records)
    /\ m_look_end' = Highest(Records) + 1
    /\ UNCHANGED <<mp_poll_fd_arr, m_max_events, m_fd_min_all, m_fd_max_all>>

\* Mutant: an index beyond the connections is left in the range.
UpdatePollStale ==
    /\ handler = "POLL"
    /\ \E list \in SetToSeqs(Connections) :
          mp_poll_fd_arr' = SubSeq(mp_poll_fd_arr, 1, m_fd_num) \o list
    /\ m_look_start' = 0
    /\ UNCHANGED <<interest, m_max_events, m_fd_min_all, m_fd_max_all, m_look_end>>

\* IoPoll: the connections follow the sockets, in an order that does not matter
\* to the handler; what is behind is not asked for.
UpdatePoll ==
    /\ handler = "POLL"
    /\ \E list \in SetToSeqs(Connections) :
          mp_poll_fd_arr' = SubSeq(mp_poll_fd_arr, 1, m_fd_num) \o list
    /\ m_look_start' = 0
    /\ m_look_end' = m_fd_num + Cardinality(Connections)
    /\ UNCHANGED <<interest, m_max_events, m_fd_min_all, m_fd_max_all>>

\* Mutant: events are asked for as many as there are sockets.
UpdateEventsSockets ==
    /\ EventList
    /\ interest' = interest \cup Connections
    /\ m_max_events' = m_fd_num
    /\ m_look_start' = 0
    /\ m_look_end' = m_max_events'
    /\ UNCHANGED <<mp_poll_fd_arr, m_fd_min_all, m_fd_max_all>>

\* IoEpoll, IoKqueue: the kernel ignores what it is told again.
UpdateEvents ==
    /\ EventList
    /\ interest' = interest \cup Connections
    /\ m_max_events' = m_fd_num + Cardinality(Connections)
    /\ m_look_start' = 0
    /\ m_look_end' = m_max_events'
    /\ UNCHANGED <<mp_poll_fd_arr, m_fd_min_all, m_fd_max_all>>

Update == UpdateRecvfrom \/ UpdateMUX \/ UpdateSelect \/ UpdatePoll \/ UpdateEvents

\* What belongs to the round is not read again: it is reset.
EndRound ==
    /\ pc = "scan" /\ ~Scanning
    /\ IF do_update THEN Update ELSE UNCHANGED handler_vars
    /\ pc' = "wait"
    /\ m_readfds' = {} /\ events' = <<>> /\ numReady' = 0 /\ ifd' = 0 /\ actual_fd' = 0 /\ do_update' = FALSE
    /\ UNCHANGED <<s_user_params, readable, active_fd_list>>

-----------------------------------------------------------------------------
\* The kernel: a message, a connection or an end arrives.
Arrive(f) ==
    /\ f \in Records \ readable
    /\ readable' = readable \cup {f}
    /\ UNCHANGED <<s_user_params, active_fd_list, handler_vars, loop_vars>>

Fds == 1 .. (max_fds_num - 1)

Step ==
    \/ WaitArrival \/ Skip \/ EndRound
    \/ \E f \in Fds : Receive(f) \/ ReadAgain(f) \/ Accept(f) \/ CloseIfd(f)

Next == Step \/ Timeout \/ \E f \in Fds : Arrive(f)

Spec == Init /\ [][Next]_vars

\* The thread runs; nothing makes anyone send.
FairSpec == Spec /\ WF_vars(Step)

-----------------------------------------------------------------------------
\* What the rest of a scan will visit.
Remaining ==
    IF pc = "scan" THEN {analyzeArrival(i) : i \in ifd .. (m_look_end - 1)} \ {0} ELSE {}

\* Every handler implements Multiplexer: a round visits what was ready among
\* sockets and connections, once, whatever was accepted and closed before.
M == INSTANCE Multiplexer WITH
        oneByOne <- OneByOne,
        registered <- Records,
        todo <- Remaining

Multiplexes == M!Spec

\* A scan stays on its feet: what it visits has a record (server.cpp:204,
\* iohandlers.h:65, 150), numReady is what is left to visit, so that it is zero at
\* the end of the round (server.cpp:239), the arrays of poll() and of epoll_wait()
\* are not exceeded (iohandlers.h:290, 354, 369, 424, 441, 572), and the search of
\* IoRecvfromMUX::waitArrival(), which has no other end, finds a descriptor.  Three
\* checks of these files are no part of it: the assert on active_fd_list in
\* IoRecvfromMUX::analyzeArrival() (iohandlers.h:155), which fails for a connection
\* that server_accept() made; the size of IoSelect's fd_set (iohandlers.h:184,
\* 195), which does not grow with max_fds_num; and the slot index of update(),
\* which is UpdateAsserts of Server.
ScanSafe ==
    /\ Remaining \subseteq Records
    /\ pc = "scan" => numReady = Cardinality(Remaining)
    /\ m_max_events < max_fds_num /\ Len(mp_poll_fd_arr) <= max_fds_num
    /\ pc = "wait" /\ handler = "RECVFROMMUX" => Candidates # {}

\* A descriptor that has something to read is visited, or it is closed.  The
\* handlers that ask no system call need sockets that do not block, and leave
\* a listening socket alone while it has a connection.
Visited ==
    \A f \in Fds :
        (OneByOne => ~Blocked) /\ f \in readable \cap Records
            ~> (actual_fd = f \/ f \notin Records \/ (OneByOne /\ active_fd_count(f) > 0))
=============================================================================
