------------------------------- MODULE Server -------------------------------
(***************************************************************************)
(* The TCP server (server.cpp, server.h): each thread runs doLoop() for    *)
(* its share of the listening sockets and for the connections they accept. *)
(* With --threads-num the main thread creates them, sleeps until a signal, *)
(* and then signals and joins them one after the other.                    *)
(*                                                                         *)
(* A listening socket keeps its connections in active_fd_list, and a       *)
(* connection has a record in g_fds_array, an array indexed by descriptor  *)
(* that all threads share without a lock.  The kernel gives a new          *)
(* connection the lowest free descriptor, the moment after it was closed   *)
(* too.  What happens to the bytes of a connection is the subject of       *)
(* MessageParser and ServerMessages, and how a handler finds what is ready *)
(* that of IoHandlers; here a connection has a number of messages to read, *)
(* and a thread a set of descriptors it waits for.                         *)
(***************************************************************************)
EXTENDS Integers, FiniteSets

CONSTANTS s_fd_num,     \* number of listening sockets
          FirstFd,      \* the first listening socket; 0 and what is below are taken
          OpenMax,      \* RLIMIT_NOFILE, the soft limit
          max_fds_num,  \* RLIMIT_NOFILE, the hard limit
          Settings,     \* what s_user_params may be
          MaxConns,     \* bound: connections clients open, by the number of threads
          MaxSends      \* bound: messages clients send

\* bringup() and parse_common_opt() let no other settings pass.
ASSUME ServerAssumption ==
    /\ s_fd_num \in Nat \ {0}
    /\ FirstFd \in Nat \ {0} /\ OpenMax \in Nat /\ max_fds_num \in Nat
    /\ FirstFd + s_fd_num <= OpenMax /\ OpenMax <= max_fds_num
    /\ \A s \in Settings :
          /\ s.threads_num \in 1 .. s_fd_num
          /\ s.mthread_server \in BOOLEAN /\ (~s.mthread_server => s.threads_num = 1)
          /\ s.recv_looping_num \in Int \ {0} /\ s.tls \in BOOLEAN
          /\ s.select_timeout \in BOOLEAN /\ s.sameTid \in BOOLEAN
    /\ MaxConns \in [1 .. s_fd_num -> Nat] /\ MaxSends \in Nat

VARIABLES
    s_user_params,              \* the setting of this run
    open, backlog, inbox, hup,  \* the kernel: connections, and per descriptor what waits
    conns, sends,               \* connections opened and messages sent so far
    g_fds_array,                \* the next_fd of the record of a descriptor, or NULL
    active_fd_list, active_fd_count,
    g_b_exit,
    mpc, mi,                    \* the main thread: server_select_per_thread()
    thread_pid_array,           \* which threads it has entered
    own,                        \* per thread: the sockets it was given
    watched,                    \* per thread: the descriptors its IoHandler waits for
    pc, ready, cur, do_update,  \* per thread: doLoop()
    calls,                      \* per thread: calls of server_receive_then_send()
    other                       \* per thread: active_ifd, or the fd of close_ifd()

kernel == <<open, backlog, inbox, hup, conns, sends>>
tables == <<s_user_params, g_fds_array, active_fd_list, active_fd_count>>
main == <<mpc, mi, thread_pid_array, own>>
loop == <<watched, ready, cur, do_update, calls, other>>
vars == <<s_user_params, open, backlog, inbox, hup, conns, sends, g_fds_array, active_fd_list,
          active_fd_count, g_b_exit, mpc, mi, thread_pid_array, own, watched, pc, ready, cur, do_update, calls, other>>

-----------------------------------------------------------------------------
threads_num == s_user_params.threads_num
recv_looping_num == s_user_params.recv_looping_num  \* the option --recv_looping_num
TLS == s_user_params.tls                            \* DEFINED_TLS and the option --tls
mthread_server == s_user_params.mthread_server      \* the option --threads-num is given
select_timeout == s_user_params.select_timeout      \* a wait is limited: --timeout is not -1
\* os_getthread().tid is what os_thread_exec() stores: on BSD, not on Linux.
sameTid == s_user_params.sameTid

Threads == 1 .. threads_num
Listeners == FirstFd .. (FirstFd + s_fd_num - 1)
Fds == 0 .. (OpenMax - 1)
ConnFds == (FirstFd + s_fd_num) .. (OpenMax - 1)

NULL == -1
INVALID_SOCKET == -1

MAX_ACTIVE_FD_NUM == max_fds_num
Slots == 0 .. (MAX_ACTIVE_FD_NUM - 1)

Lowest(S) == CHOOSE f \in S : \A g \in S : f <= g
Highest(S) == CHOOSE f \in S : \A g \in S : g <= f

\* server_select_per_thread(): the sockets are divided among the threads; the
\* first threads take one more while some remain.
FdNum(t) == s_fd_num \div threads_num + (IF t <= s_fd_num % threads_num THEN 1 ELSE 0)

\* Mutant: the search for a thread's sockets begins with the last of the one before.
last_fdsShared(t) == IF t = 1 THEN 0 ELSE Highest(own[t - 1])

last_fds(t) == IF t = 1 THEN 0 ELSE Highest(own[t - 1]) + 1

\* find_min_max_fds(): the next records of g_fds_array.
NextSockets(t) ==
    {f \in Fds : /\ f >= last_fds(t) /\ g_fds_array[f] # NULL
                 /\ Cardinality({g \in last_fds(t) .. f : g_fds_array[g] # NULL}) <= FdNum(t)}

\* The option is stored only if it is 1, which it is by default.
max_looping_over_recv == IF recv_looping_num # 1 THEN 1 ELSE recv_looping_num

Active(l) == {active_fd_list[l][s] : s \in Slots} \ {INVALID_SOCKET}

Init ==
    /\ s_user_params \in Settings
    /\ open = {} /\ backlog = [l \in Listeners |-> 0]
    /\ inbox = [f \in ConnFds |-> 0] /\ hup = [f \in ConnFds |-> FALSE]
    /\ conns = 0 /\ sends = 0
    /\ g_fds_array = [f \in Fds |-> IF f \in Listeners THEN f ELSE NULL]
    /\ active_fd_list = [l \in Listeners |-> [s \in Slots |-> INVALID_SOCKET]]
    /\ active_fd_count = [l \in Listeners |-> 0]
    /\ g_b_exit = FALSE
    /\ mpc = (IF mthread_server THEN "create" ELSE "none") /\ mi = 1
    /\ thread_pid_array = [t \in Threads |-> FALSE]
    /\ own = [t \in Threads |-> IF mthread_server THEN {} ELSE Listeners]
    /\ watched = [t \in Threads |-> {}]
    /\ pc = [t \in Threads |-> IF mthread_server THEN "unborn" ELSE "new"]
    /\ ready = [t \in Threads |-> {}]
    /\ cur = [t \in Threads |-> NULL]
    /\ do_update = [t \in Threads |-> FALSE]
    /\ calls = [t \in Threads |-> 0]
    /\ other = [t \in Threads |-> NULL]

-----------------------------------------------------------------------------
(***************************************************************************)
(* The clients, and the kernel on their behalf.                            *)
(***************************************************************************)
Connect(l) ==
    /\ conns < MaxConns[threads_num] /\ \E t \in Threads : l \in watched[t]
    /\ conns' = conns + 1
    /\ backlog' = [backlog EXCEPT ![l] = @ + 1]
    /\ UNCHANGED <<open, inbox, hup, sends, tables, g_b_exit, main, pc, loop>>

ClientSend(f) ==
    /\ f \in open /\ ~hup[f] /\ sends < MaxSends
    /\ sends' = sends + 1
    /\ inbox' = [inbox EXCEPT ![f] = @ + 1]
    /\ UNCHANGED <<open, backlog, hup, conns, tables, g_b_exit, main, pc, loop>>

ClientClose(f) ==
    /\ f \in open /\ ~hup[f]
    /\ hup' = [hup EXCEPT ![f] = TRUE]
    /\ UNCHANGED <<open, backlog, inbox, conns, sends, tables, g_b_exit, main, pc, loop>>

\* close(): what waits on the connection is gone.
Close(f) ==
    /\ open' = open \ {f}
    /\ inbox' = [inbox EXCEPT ![f] = 0]
    /\ hup' = [hup EXCEPT ![f] = FALSE]

Readable(f) == IF f \in Listeners THEN backlog[f] > 0 ELSE inbox[f] > 0 \/ hup[f]

\* server_sig_handler() in thread t.  It interrupts a wait, but not one that is
\* about to begin: g_b_exit was looked at already.
Signalled(t) ==
    /\ g_b_exit' = TRUE
    /\ \/ UNCHANGED pc
       \/ t \in Threads /\ pc[t] = "wait" /\ pc' = [pc EXCEPT ![t] = "top"]

\* The user's signal goes to any one thread; 0 is a main thread of its own.
Interrupt(t) ==
    /\ ~g_b_exit
    /\ IF t = 0 THEN mthread_server ELSE pc[t] \notin {"unborn", "exit"}
    /\ Signalled(t)
    /\ UNCHANGED <<kernel, tables, main, loop>>

-----------------------------------------------------------------------------
(***************************************************************************)
(* The main thread: server_select_per_thread().                            *)
(***************************************************************************)
CreateThread ==
    /\ mpc = "create"
    /\ own' = [own EXCEPT ![mi] = NextSockets(mi)]
    /\ pc' = [pc EXCEPT ![mi] = "new"]
    /\ mpc' = "store"
    /\ UNCHANGED <<kernel, tables, g_b_exit, mi, thread_pid_array, loop>>

CreateFails ==
    /\ mpc = "create"
    /\ mpc' = "stop" /\ mi' = 1
    /\ UNCHANGED <<kernel, tables, g_b_exit, thread_pid_array, own, pc, loop>>

StoreTid ==
    /\ mpc = "store"
    /\ thread_pid_array' = [thread_pid_array EXCEPT ![mi] = TRUE]
    /\ mpc' = IF mi = threads_num THEN "sleep" ELSE "create"
    /\ mi' = IF mi = threads_num THEN mi ELSE mi + 1
    /\ UNCHANGED <<kernel, tables, g_b_exit, own, pc, loop>>

WakeUp ==
    /\ mpc = "sleep" /\ g_b_exit
    /\ mpc' = "stop" /\ mi' = 1
    /\ UNCHANGED <<kernel, tables, g_b_exit, thread_pid_array, own, pc, loop>>

NextThread ==
    /\ mpc' = IF mi = threads_num THEN "done" ELSE "stop"
    /\ mi' = IF mi = threads_num THEN mi ELSE mi + 1

\* os_thread_kill(), for a thread that is entered.
StopThread ==
    /\ mpc = "stop"
    /\ IF thread_pid_array[mi]
       THEN /\ IF pc[mi] = "exit" THEN UNCHANGED <<g_b_exit, pc>> ELSE Signalled(mi)
            /\ mpc' = "join" /\ UNCHANGED mi
       ELSE NextThread /\ UNCHANGED <<g_b_exit, pc>>
    /\ UNCHANGED <<kernel, tables, thread_pid_array, own, loop>>

\* Mutant: the main thread does not wait.
JoinThreadNot ==
    /\ mpc = "join"
    /\ NextThread
    /\ UNCHANGED <<kernel, tables, g_b_exit, thread_pid_array, own, pc, loop>>

JoinThread ==
    /\ mpc = "join" /\ pc[mi] = "exit"
    /\ NextThread
    /\ UNCHANGED <<kernel, tables, g_b_exit, thread_pid_array, own, pc, loop>>

-----------------------------------------------------------------------------
(***************************************************************************)
(* server_handler_for_multi_threaded() of thread t, with doHandler() and   *)
(* doLoop().                                                               *)
(***************************************************************************)
\* initBeforeLoop(): the sockets are bound and listen.
InitBeforeLoop(t) ==
    /\ pc[t] = "new"
    /\ watched' = [watched EXCEPT ![t] = own[t]]
    /\ pc' = [pc EXCEPT ![t] = "top"]
    /\ UNCHANGED <<kernel, tables, g_b_exit, main, ready, cur, do_update, calls, other>>

InitFails(t) ==
    /\ pc[t] = "new"
    /\ pc' = [pc EXCEPT ![t] = "end"]
    /\ UNCHANGED <<kernel, tables, g_b_exit, main, loop>>

\* A look at g_b_exit, and on to the wait.
EnterWait(t) ==
    /\ pc[t] = "top" /\ ~g_b_exit
    /\ pc' = [pc EXCEPT ![t] = "wait"]
    /\ UNCHANGED <<kernel, tables, g_b_exit, main, loop>>

\* Mutant: a wait that timed out is begun again without a look at g_b_exit.
TimeoutAgain(t) ==
    /\ pc[t] = "wait" /\ select_timeout
    /\ \A f \in watched[t] : ~Readable(f)
    /\ UNCHANGED vars

Timeout(t) ==
    /\ pc[t] = "wait" /\ select_timeout
    /\ \A f \in watched[t] : ~Readable(f)
    /\ pc' = [pc EXCEPT ![t] = "top"]
    /\ UNCHANGED <<kernel, tables, g_b_exit, main, loop>>

\* A wait that ends after g_b_exit was set does not look at what arrived.
WaitArrival(t) ==
    /\ pc[t] = "wait"
    /\ \E f \in watched[t] : Readable(f)
    /\ IF g_b_exit
       THEN UNCHANGED ready /\ pc' = [pc EXCEPT ![t] = "top"]
       ELSE /\ ready' = [ready EXCEPT ![t] = {f \in watched[t] : Readable(f)}]
            /\ pc' = [pc EXCEPT ![t] = "round"]
    /\ UNCHANGED <<kernel, tables, g_b_exit, main, watched, cur, do_update, calls, other>>

Leave(t) ==
    /\ pc[t] = "top" /\ g_b_exit
    /\ pc' = [pc EXCEPT ![t] = "end"]
    /\ UNCHANGED <<kernel, tables, g_b_exit, main, loop>>

\* The thread takes itself off thread_pid_array, if it finds itself there.
MarkExit(t) ==
    /\ pc[t] = "end"
    /\ thread_pid_array' = [thread_pid_array EXCEPT ![t] = @ /\ ~sameTid]
    /\ pc' = [pc EXCEPT ![t] = "exit"]
    /\ UNCHANGED <<kernel, tables, g_b_exit, mpc, mi, own, loop>>

\* The thread goes on to the next descriptor that is ready; what belonged to
\* the last one is not read again.
ToRound(t) ==
    /\ pc' = [pc EXCEPT ![t] = "round"]
    /\ cur' = [cur EXCEPT ![t] = NULL]
    /\ calls' = [calls EXCEPT ![t] = 0]
    /\ other' = [other EXCEPT ![t] = NULL]

\* One descriptor that is ready, in the order epoll_wait() returned them.
\* Without a record it is ignored, in a build without assertions.
NextReady(t, f) ==
    /\ pc[t] = "round" /\ f \in ready[t]
    /\ ready' = [ready EXCEPT ![t] = @ \ {f}]
    /\ IF g_fds_array[f] = NULL THEN UNCHANGED <<cur, pc>>
       ELSE /\ cur' = [cur EXCEPT ![t] = f]
            /\ pc' = [pc EXCEPT ![t] = IF f \in Listeners THEN "accept" ELSE "receive"]
    /\ UNCHANGED <<kernel, tables, g_b_exit, main, watched, do_update, calls, other>>

\* Mutant: new connections are not waited for.
UpdateIfClosed(t) ==
    /\ pc[t] = "round" /\ ready[t] = {}
    /\ watched' = [watched EXCEPT ![t] = @ \cap (own[t] \cup UNION {Active(l) : l \in own[t]})]
    /\ pc' = [pc EXCEPT ![t] = "top"]
    /\ do_update' = [do_update EXCEPT ![t] = FALSE]
    /\ UNCHANGED <<kernel, tables, g_b_exit, main, ready, cur, calls, other>>

\* Mutant: the listening sockets are forgotten.
UpdateActiveOnly(t) ==
    /\ pc[t] = "round" /\ ready[t] = {}
    /\ watched' = IF do_update[t]
                  THEN [watched EXCEPT ![t] = UNION {Active(l) : l \in own[t]}] ELSE watched
    /\ pc' = [pc EXCEPT ![t] = "top"]
    /\ do_update' = [do_update EXCEPT ![t] = FALSE]
    /\ UNCHANGED <<kernel, tables, g_b_exit, main, ready, cur, calls, other>>

\* The end of a round, with IoHandler::update().
Update(t) ==
    /\ pc[t] = "round" /\ ready[t] = {}
    /\ watched' = IF do_update[t]
                  THEN [watched EXCEPT ![t] = own[t] \cup UNION {Active(l) : l \in own[t]}]
                  ELSE watched
    /\ pc' = [pc EXCEPT ![t] = "top"]
    /\ do_update' = [do_update EXCEPT ![t] = FALSE]
    /\ UNCHANGED <<kernel, tables, g_b_exit, main, ready, cur, calls, other>>

-----------------------------------------------------------------------------
(***************************************************************************)
(* server_accept()                                                         *)
(***************************************************************************)
FreeFds == ConnFds \ open

Accept(t) ==
    /\ pc[t] = "accept"
    /\ backlog[cur[t]] > 0 /\ FreeFds # {}
    /\ LET f == Lowest(FreeFds)
       IN /\ open' = open \cup {f}
          /\ inbox' = [inbox EXCEPT ![f] = 0]
          /\ hup' = [hup EXCEPT ![f] = FALSE]
          /\ other' = [other EXCEPT ![t] = f]
    /\ backlog' = [backlog EXCEPT ![cur[t]] = @ - 1]
    /\ pc' = [pc EXCEPT ![t] = "install"]
    /\ UNCHANGED <<conns, sends, tables, g_b_exit, main, watched, ready, cur, do_update, calls>>

\* accept() fails for want of a descriptor.
AcceptFails(t) ==
    /\ pc[t] = "accept"
    /\ FreeFds = {}
    /\ ToRound(t)
    /\ UNCHANGED <<kernel, tables, g_b_exit, main, watched, ready, do_update>>

WithinLimits(t) ==
    other[t] < max_fds_num /\ active_fd_count[cur[t]] < MAX_ACTIVE_FD_NUM - 1

\* Mutant: the number of connections is taken for the next free slot.
FreeSlotByCount(l) == active_fd_count[l]

\* Mutant: the last free slot is used.
FreeSlotLast(l) == CHOOSE s \in Slots :
                      \A r \in Slots : active_fd_list[l][r] = INVALID_SOCKET => r <= s

\* The first free slot of active_fd_list.
FreeSlot(l) == Lowest({s \in Slots : active_fd_list[l][s] = INVALID_SOCKET})

\* The connection gets a slot and a record.
Enter(t) ==
    /\ active_fd_list' = [active_fd_list EXCEPT ![cur[t]][FreeSlot(cur[t])] = other[t]]
    /\ active_fd_count' = [active_fd_count EXCEPT ![cur[t]] = @ + 1]
    /\ g_fds_array' = [g_fds_array EXCEPT ![other[t]] = cur[t]]

Install(t) ==
    /\ pc[t] = "install" /\ WithinLimits(t)
    /\ Enter(t)
    /\ do_update' = [do_update EXCEPT ![t] = TRUE]
    /\ ToRound(t)
    /\ UNCHANGED <<s_user_params, kernel, g_b_exit, main, watched, ready>>

\* Mutant: the descriptor of a refused connection stays open.
RefuseLeaks(t) ==
    /\ pc[t] = "install"
    /\ ToRound(t)
    /\ UNCHANGED <<kernel, tables, g_b_exit, main, watched, ready, do_update>>

\* Beyond the limits, or prepare_socket() failed.
Refuse(t) ==
    /\ pc[t] = "install"
    /\ Close(other[t])
    /\ ToRound(t)
    /\ UNCHANGED <<backlog, conns, sends, tables, g_b_exit, main, watched, ready, do_update>>

\* tls_establish() failed: the record is released already, and the clean-up
\* reads it through the null pointer tmp.
RefuseTls(t) ==
    /\ pc[t] = "install" /\ WithinLimits(t)
    /\ TLS
    /\ Enter(t)
    /\ Close(other[t])
    /\ pc' = [pc EXCEPT ![t] = "crash"]
    /\ UNCHANGED <<s_user_params, backlog, conns, sends, g_b_exit, main, loop>>

-----------------------------------------------------------------------------
(***************************************************************************)
(* server_receive_then_send(), as often as max_looping_over_recv says.     *)
(***************************************************************************)
Looping(t) == pc[t] = "receive" /\ calls[t] # max_looping_over_recv /\ ~g_b_exit

Called(t) == calls' = [calls EXCEPT ![t] = @ + 1]

\* There is no record: "do update", and try again.
NoRecord(t) ==
    /\ Looping(t) /\ g_fds_array[cur[t]] = NULL
    /\ Called(t)
    /\ do_update' = [do_update EXCEPT ![t] = TRUE]
    /\ UNCHANGED <<kernel, tables, g_b_exit, main, watched, pc, ready, cur, other>>

\* Some messages are read, handled and answered.
HandleMessages(t, n) ==
    /\ Looping(t) /\ g_fds_array[cur[t]] # NULL
    /\ n \in 1 .. inbox[cur[t]]
    /\ Called(t)
    /\ inbox' = [inbox EXCEPT ![cur[t]] = @ - n]
    /\ UNCHANGED <<open, backlog, hup, conns, sends, tables, g_b_exit, main, watched, pc, ready,
                   cur, do_update, other>>

\* The peer has closed the connection, or the handler refuses a message.
\* close_ifd() starts: the connection is closed before it leaves the tables.
CloseIfd(t) ==
    LET l == g_fds_array[cur[t]]
    IN /\ Looping(t) /\ l # NULL
       /\ Readable(cur[t])
       /\ Called(t)
       /\ do_update' = [do_update EXCEPT ![t] = TRUE]
       /\ IF cur[t] \in Active(l)
          THEN /\ Close(cur[t])
               /\ other' = [other EXCEPT ![t] = l]
               /\ pc' = [pc EXCEPT ![t] = "closing"]
          ELSE UNCHANGED <<open, inbox, hup, other, pc>>
       /\ UNCHANGED <<backlog, conns, sends, tables, g_b_exit, main, watched, ready, cur>>

\* A reply meets a connection that was shut down: handle_message() calls
\* close_ifd() too.
ReplyShutdown(t) ==
    LET l == g_fds_array[cur[t]]
    IN /\ Looping(t) /\ l # NULL
       /\ inbox[cur[t]] > 0 /\ hup[cur[t]] /\ cur[t] \in Active(l)
       /\ Called(t)
       /\ Close(cur[t])
       /\ other' = [other EXCEPT ![t] = l]
       /\ pc' = [pc EXCEPT ![t] = "replying"]
       /\ UNCHANGED <<backlog, conns, sends, tables, g_b_exit, main, watched, ready,
                      cur, do_update>>

\* server_receive_then_send_impl() then calls close_ifd() for a record that is
\* gone; its memory still says which socket the connection was of.
CloseAgain(t) ==
    /\ pc[t] = "again"
    /\ do_update' = [do_update EXCEPT ![t] = TRUE]
    /\ IF cur[t] \in Active(other[t])
       THEN Close(cur[t]) /\ pc' = [pc EXCEPT ![t] = "closing"]
       ELSE pc' = [pc EXCEPT ![t] = "receive"] /\ UNCHANGED <<open, inbox, hup>>
    /\ UNCHANGED <<backlog, conns, sends, tables, g_b_exit, main, watched, ready, cur,
                   calls, other>>

\* Where close_ifd() returns to, unless another thread, given the same number
\* since close(), has closed it again: then the record read here is null.
Freed(t) ==
    IF g_fds_array[cur[t]] = NULL THEN "crash" ELSE IF pc[t] = "closing" THEN "receive" ELSE "again"

\* Mutant: the connection keeps its slot.
FreeIfdKeepsSlot(t) ==
    /\ pc[t] \in {"closing", "replying"}
    /\ g_fds_array' = [g_fds_array EXCEPT ![cur[t]] = NULL]
    /\ pc' = [pc EXCEPT ![t] = Freed(t)]
    /\ UNCHANGED <<s_user_params, kernel, active_fd_list, active_fd_count, g_b_exit, main, loop>>

\* The rest of close_ifd(): slot, count and record.
FreeIfd(t) ==
    /\ pc[t] \in {"closing", "replying"}
    /\ active_fd_count' = [active_fd_count EXCEPT ![other[t]] = @ - 1]
    /\ active_fd_list' = [active_fd_list EXCEPT ![other[t]] =
                             [s \in Slots |-> IF @[s] = cur[t] THEN INVALID_SOCKET ELSE @[s]]]
    /\ g_fds_array' = [g_fds_array EXCEPT ![cur[t]] = NULL]
    /\ pc' = [pc EXCEPT ![t] = Freed(t)]
    /\ UNCHANGED <<s_user_params, kernel, g_b_exit, main, loop>>

EndReceive(t) ==
    /\ pc[t] = "receive"
    /\ calls[t] = max_looping_over_recv \/ g_b_exit
    /\ ToRound(t)
    /\ UNCHANGED <<kernel, tables, g_b_exit, main, watched, ready, do_update>>

-----------------------------------------------------------------------------
Running == \A t \in Threads : pc[t] # "crash"

Step(t) ==
    \/ InitBeforeLoop(t) \/ InitFails(t) \/ EnterWait(t) \/ Timeout(t) \/ Leave(t) \/ MarkExit(t)
    \/ WaitArrival(t) \/ (\E f \in Fds : NextReady(t, f)) \/ Update(t)
    \/ Accept(t) \/ AcceptFails(t) \/ Install(t) \/ Refuse(t) \/ RefuseTls(t)
    \/ NoRecord(t) \/ (\E n \in 1 .. MaxSends : HandleMessages(t, n))
    \/ CloseIfd(t) \/ ReplyShutdown(t) \/ FreeIfd(t) \/ CloseAgain(t) \/ EndReceive(t)

MainStep ==
    CreateThread \/ CreateFails \/ StoreTid \/ WakeUp \/ StopThread \/ JoinThread

Environment ==
    \/ \E l \in Listeners : Connect(l)
    \/ \E f \in ConnFds : ClientSend(f) \/ ClientClose(f)
    \/ \E t \in {0} \cup Threads : Interrupt(t)

Next == Running /\ (Environment \/ MainStep \/ \E t \in Threads : Step(t))

Spec == Init /\ [][Next]_vars

\* Every thread keeps running and a limited wait ends; nothing makes clients
\* or the user act.
FairSpec ==
    /\ Spec
    /\ WF_vars(Running /\ MainStep)
    /\ \A t \in 1 .. s_fd_num : WF_vars(Running /\ t \in Threads /\ Step(t))

-----------------------------------------------------------------------------
\* The variables have their types; in particular no listening socket counts
\* less than no connection.
TypeOK ==
    /\ s_user_params \in Settings
    /\ open \subseteq ConnFds
    /\ backlog \in [Listeners -> Nat] /\ inbox \in [ConnFds -> Nat]
    /\ hup \in [ConnFds -> BOOLEAN] /\ conns \in 0 .. MaxConns[threads_num] /\ sends \in 0 .. MaxSends
    /\ g_fds_array \in [Fds -> Listeners \cup {NULL}]
    /\ active_fd_list \in [Listeners -> [Slots -> ConnFds \cup {INVALID_SOCKET}]]
    /\ active_fd_count \in [Listeners -> Nat]
    /\ g_b_exit \in BOOLEAN
    /\ watched \in [Threads -> SUBSET Fds] /\ ready \in [Threads -> SUBSET Fds]
    /\ mpc \in {"none", "create", "store", "sleep", "stop", "join", "done"} /\ mi \in Threads
    /\ thread_pid_array \in [Threads -> BOOLEAN] /\ own \in [Threads -> SUBSET Listeners]
    /\ pc \in [Threads -> {"unborn", "new", "top", "wait", "round", "accept", "install",
                           "receive", "closing", "replying", "again", "end", "exit", "crash"}]
    /\ cur \in [Threads -> Fds \cup {NULL}] /\ other \in [Threads -> Fds \cup {NULL}]
    /\ do_update \in [Threads -> BOOLEAN] /\ calls \in [Threads -> Nat]

\* update() sees every connection and nothing else: active_fd_count, by which
\* it knows when to stop, is the number of connections in active_fd_list.  Its
\* asserts hold: it never looks for a connection beyond the list, and
\* epoll_wait() is never asked for more events than its array holds.
UpdateAsserts ==
    /\ \A l \in Listeners :
        active_fd_count[l] = Cardinality({s \in Slots : active_fd_list[l][s] # INVALID_SOCKET})
    /\ \A t \in Threads : pc[t] = "round" =>
        /\ \A l \in own[t] : active_fd_list[l][MAX_ACTIVE_FD_NUM - 1] = INVALID_SOCKET
        /\ Cardinality(own[t] \cup UNION {Active(l) : l \in own[t]}) < max_fds_num

\* Between two rounds an open descriptor is a connection of one listening
\* socket, has the record that says so, and is waited for; and nothing else
\* has a record.  No descriptor leaks, and none is served after it was closed.
\* With a second thread, close_ifd() loses records: see ReadyFdValid.
TablesAgree ==
    threads_num = 1 /\ pc[1] \in {"top", "wait", "exit"} /\ watched[1] # {} =>
        /\ open = UNION {Active(l) : l \in Listeners}
        /\ \A f \in ConnFds, l \in Listeners : g_fds_array[f] = l <=> f \in Active(l)
        /\ watched[1] = own[1] \cup UNION {Active(l) : l \in own[1]}

\* Two threads that wait never wait for the same descriptor, whatever
\* descriptors were closed and reused: every arrival has one thread to serve it.
NotShared ==
    \A t, u \in Threads :
        t # u /\ {pc[t], pc[u]} \subseteq {"top", "wait"} => watched[t] \cap watched[u] = {}

\* doLoop() asserts that a descriptor that is ready has a record.
ReadyFdValid ==
    \A t \in Threads : \A f \in ready[t] : pc[t] = "round" => g_fds_array[f] # NULL

\* What a client sends to a server of one thread without TLS is read, or its
\* connection closed, and a connection that waits is accepted, refused, or has
\* no descriptor left, until the program is told to exit.
Alone == threads_num = 1 /\ ~TLS
Served ==
    /\ \A f \in ConnFds :
        Alone /\ inbox[f] > 0 /\ f \in open ~> (inbox[f] = 0 \/ f \notin open \/ g_b_exit)
    /\ \A l \in Listeners : Alone /\ backlog[l] > 0 ~> (backlog[l] = 0 \/ FreeFds = {} \/ g_b_exit)

\* close_ifd() is called twice when a reply meets a closed connection: the
\* second call finds nothing, so that it cannot close a descriptor that the
\* kernel has given away since.
ClosedOnce ==
    \A t \in Threads : pc[t] = "again" => cur[t] \notin Active(other[t])

\* When server_select_per_thread() returns, no thread it started is running,
\* whether or not threads recognise themselves in thread_pid_array.
MainLast == mpc = "done" => \A t \in Threads : pc[t] \in {"unborn", "exit"}

\* A server that is told to exit ends, with all its threads, when its waits
\* are limited.  Without a limit a signal that comes between the look at
\* g_b_exit and the wait is lost.
ThreadsEnd ==
    g_b_exit /\ select_timeout ~> (~Running \/ IF mthread_server THEN mpc = "done" ELSE pc[1] = "exit")
=============================================================================
