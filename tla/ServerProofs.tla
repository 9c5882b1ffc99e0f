---------------------------- MODULE ServerProofs ----------------------------
(***************************************************************************)
(* Proofs about the TCP server, for every number of threads, listening     *)
(* sockets and descriptors that ServerAssumption admits.                   *)
(*                                                                         *)
(* The argument: find_min_max_fds() gives every thread a share of the      *)
(* listening sockets, and shares are disjoint (SharesDisjoint,             *)
(* NextSocketsIs).  Only the thread that has a listening socket changes    *)
(* its list.  A connection is live when it is on a list and close_ifd()    *)
(* has not closed it yet; live connections are open and of one socket,     *)
(* and a descriptor the kernel hands out is not live (LiveInv).  The       *)
(* records of g_fds_array, which all threads write, follow the lists only  *)
(* so far (RecordInv): a second thread may remove the record of a          *)
(* descriptor that was given away while its list still had it.             *)
(***************************************************************************)
EXTENDS Server, FiniteSetTheorems, TLAPS

-----------------------------------------------------------------------------
(* The inductive invariant. *)

\* The listening sockets up to thread t's last, and those thread t is given.
Offset(t) == t * (s_fd_num \div threads_num)
                + (IF t <= s_fd_num % threads_num THEN t ELSE s_fd_num % threads_num)
Share(t) == (FirstFd + Offset(t - 1)) .. (FirstFd + Offset(t) - 1)

\* The main thread knows which threads exist: it creates them in order, and has
\* entered every one that runs, except the one it is creating.
MainInv ==
    /\ mthread_server <=> mpc # "none"
    /\ \A t \in Threads : pc[t] \notin {"unborn", "exit"} =>
         thread_pid_array[t] \/ ~mthread_server \/ (mpc = "store" /\ mi = t)
    /\ mpc = "create" => \A t \in Threads : pc[t] = "unborn" <=> t >= mi
    /\ mpc = "store" => \A t \in Threads : pc[t] = "unborn" <=> t > mi
    /\ mpc = "none" => pc[1] # "unborn"
    /\ mpc \in {"stop", "join"} => \A t \in Threads : t < mi => pc[t] \in {"unborn", "exit"}
    /\ mpc = "done" => \A t \in Threads : pc[t] \in {"unborn", "exit"}

\* A thread has its share of the listening sockets as soon as it exists.
OwnInv ==
    \A t \in Threads : own[t] = IF pc[t] = "unborn" THEN {} ELSE Share(t)

\* The connections of a listening socket that close_ifd() has closed but not yet
\* taken off its list, the others, and those of a thread.
Closes(t, l) == pc[t] \in {"closing", "replying"} /\ other[t] = l
Closing(l) == {cur[t] : t \in {u \in Threads : Closes(u, l)}}
Live(l) == Active(l) \ Closing(l)
Mine(t) == UNION {Live(l) : l \in own[t]}

\* What a thread is at work on is its own: a socket it accepts from, a connection it
\* reads from or closes, and what it has yet to look at in this round.
PlaceAt(t) ==
    /\ calls[t] \in {0, 1}
    /\ pc[t] \in {"accept", "install"} => cur[t] \in own[t]
    /\ pc[t] = "receive" => cur[t] \in ConnFds
    /\ pc[t] = "receive" /\ calls[t] = 0 => cur[t] \in Mine(t)
    /\ pc[t] \in {"closing", "replying", "again"} =>
         calls[t] = 1 /\ other[t] \in own[t] /\ cur[t] \in ConnFds
    /\ pc[t] \in {"closing", "replying"} => cur[t] \in Active(other[t])
    /\ pc[t] = "again" => cur[t] \notin Active(other[t])
    /\ pc[t] \in {"round", "accept", "install", "receive", "closing", "replying", "again"} =>
         ready[t] \subseteq (own[t] \cup Mine(t))
    /\ pc[t] \in {"receive", "closing", "replying", "again"} => cur[t] \notin ready[t]
PlaceInv == \A t \in Threads : PlaceAt(t)

\* A list holds a connection once, and counts what it holds; its last slot stays free.
ListAt(l) ==
    /\ \A s, r \in Slots :
         active_fd_list[l][s] = active_fd_list[l][r] /\ active_fd_list[l][s] # INVALID_SOCKET => s = r
    /\ active_fd_count[l] = Cardinality({s \in Slots : active_fd_list[l][s] # INVALID_SOCKET})
    /\ active_fd_list[l][MAX_ACTIVE_FD_NUM - 1] = INVALID_SOCKET
ListInv == \A l \in Listeners : ListAt(l)

\* The list of a thread that has not begun is empty.
BegunInv ==
    \A t \in Threads : pc[t] \in {"unborn", "new"} => \A l \in Share(t) : Active(l) = {}

\* Listening sockets keep their record.  The record of a connection names the socket
\* whose list holds it; close_ifd() of another thread may have removed it, when the
\* descriptor was given away in between.
RecordInv ==
    /\ \A f \in Fds \ ConnFds : g_fds_array[f] = IF f \in Listeners THEN f ELSE NULL
    /\ \A f \in ConnFds, l \in Listeners : g_fds_array[f] = l => f \in Active(l)
    /\ \A l \in Listeners : \A f \in Live(l) : g_fds_array[f] \in {l, NULL}
    /\ threads_num = 1 => \A l \in Listeners : \A f \in Live(l) : g_fds_array[f] = l

\* A descriptor is a connection of one listening socket.  It is open exactly if it is
\* on a list, and not being closed, or has just been accepted by one thread.
Disjoint == \A l, k \in Listeners : l # k => Live(l) \cap Live(k) = {}
LiveOpen == \A l \in Listeners : Live(l) \subseteq open
Fresh ==
    \A t \in Threads : pc[t] = "install" =>
      /\ other[t] \in open
      /\ \A l \in Listeners : other[t] \notin Live(l)
      /\ \A u \in Threads : pc[u] = "install" /\ u # t => other[u] # other[t]
OpenLive ==
    \A f \in open : \/ \E l \in Listeners : f \in Live(l)
                    \/ \E t \in Threads : pc[t] = "install" /\ other[t] = f
ClosedAlone == threads_num = 1 /\ pc[1] \in {"closing", "replying"} => cur[1] \notin open
LiveInv ==
    /\ Disjoint
    /\ Running => LiveOpen /\ Fresh /\ OpenLive /\ ClosedAlone

\* A thread that has nothing to update waits for its sockets and their connections.
WatchAt(t) ==
    /\ pc[t] \in {"top", "wait", "end", "exit"} => ~do_update[t]
    /\ pc[t] = "closing" => do_update[t]
    /\ pc[t] \in {"unborn", "new"} => watched[t] = {} /\ ~do_update[t]
    /\ pc[t] \notin {"unborn", "new", "again", "crash"} /\ ~do_update[t] =>
         \/ watched[t] = own[t] \cup UNION {Active(l) : l \in own[t]}
         \/ pc[t] \in {"end", "exit"} /\ watched[t] = {}
WatchInv == \A t \in Threads : WatchAt(t)

IInv == /\ TypeOK /\ MainInv /\ OwnInv /\ PlaceInv /\ ListInv /\ BegunInv
        /\ RecordInv /\ LiveInv /\ WatchInv

-----------------------------------------------------------------------------
(* Least elements, intervals, and the shares of the threads. *)

\* A set of naturals that is not empty has a least element: Lowest() finds it.
LEMMA LowestIs ==
    ASSUME NEW S, S \subseteq Nat, S # {}
    PROVE  Lowest(S) \in S /\ \A g \in S : Lowest(S) <= g
  <1> DEFINE R == OpToRel(<, Nat)
  <1>1. IsWellFoundedOn(R, Nat)
    BY NatLessThanWellFounded
  <1>2. \A x, y \in Nat : <<y, x>> \in R <=> y < x
    BY DEF OpToRel
  <1> HIDE DEF R
  <1>3. PICK x \in S : \A y \in S : ~(<<y, x>> \in R)
    BY <1>1, WFMin
  <1>4. ASSUME NEW y \in S PROVE x <= y
    <2>1. x \in Nat /\ y \in Nat
      OBVIOUS
    <2>2. ~(y < x)
      BY <1>2, <1>3, <2>1, Zenon
    <2>3. QED BY <2>1, <2>2
  <1>5. QED BY <1>4 DEF Lowest

\* The greatest element of an interval.
LEMMA HighestIs ==
    ASSUME NEW a \in Int, NEW b \in Int, a <= b
    PROVE  Highest(a .. b) = b
  <1>1. b \in a .. b /\ \A g \in a .. b : g <= b
    OBVIOUS
  <1>2. Highest(a .. b) \in a .. b /\ \A g \in a .. b : g <= Highest(a .. b)
    BY <1>1 DEF Highest
  <1>3. QED BY <1>1, <1>2

\* A setting is one that bringup() and parse_common_opt() let pass.
LEMMA SettingFacts ==
    ASSUME s_user_params \in Settings
    PROVE  /\ threads_num \in 1 .. s_fd_num /\ threads_num \in Nat \ {0}
           /\ mthread_server \in BOOLEAN /\ (~mthread_server => threads_num = 1)
           /\ TLS \in BOOLEAN /\ select_timeout \in BOOLEAN /\ sameTid \in BOOLEAN
           /\ max_looping_over_recv = 1
  BY ServerAssumption DEF threads_num, mthread_server, TLS, select_timeout, sameTid,
     max_looping_over_recv, recv_looping_num

\* What a setting says stays as it is while the setting does.
LEMMA SettingKept ==
    ASSUME s_user_params' = s_user_params
    PROVE  /\ threads_num' = threads_num /\ mthread_server' = mthread_server /\ Threads' = Threads
           /\ TLS' = TLS /\ sameTid' = sameTid /\ select_timeout' = select_timeout
  BY DEF threads_num, mthread_server, TLS, sameTid, Threads, select_timeout

\* Descriptors in order: what is taken, the listening sockets, the connections.
LEMMA FdFacts ==
    /\ s_fd_num \in Nat \ {0} /\ FirstFd \in Nat \ {0} /\ OpenMax \in Nat /\ max_fds_num \in Nat \ {0}
    /\ FirstFd + s_fd_num <= OpenMax /\ OpenMax <= max_fds_num
    /\ Listeners \subseteq Fds /\ ConnFds \subseteq Fds /\ Listeners \cap ConnFds = {}
    /\ Fds \subseteq Nat /\ Listeners \subseteq Nat /\ ConnFds \subseteq Nat /\ NULL \notin Fds
    /\ Slots \subseteq Nat /\ MAX_ACTIVE_FD_NUM - 1 \in Slots
  BY ServerAssumption DEF Listeners, Fds, ConnFds, NULL, Slots, MAX_ACTIVE_FD_NUM

\* The shares follow each other, none is empty, and the last one ends with the last
\* listening socket.
LEMMA Shares ==
    ASSUME s_user_params \in Settings
    PROVE  /\ Offset(0) = 0 /\ Offset(threads_num) = s_fd_num
           /\ \A t \in Threads : /\ FdNum(t) \in Nat \ {0}
                                 /\ Offset(t) = Offset(t - 1) + FdNum(t)
           /\ \A t \in 0 .. threads_num : Offset(t) \in 0 .. s_fd_num
           /\ \A t, u \in 0 .. threads_num : t <= u => Offset(t) <= Offset(u)
  <1> DEFINE q == s_fd_num \div threads_num
             r == s_fd_num % threads_num
             Off(t) == t * q + (IF t <= r THEN t ELSE r)
  <1>0. threads_num \in 1 .. s_fd_num /\ threads_num \in Nat \ {0} /\ s_fd_num \in Nat \ {0}
    BY SettingFacts, FdFacts
  <1>1. q \in Nat /\ r \in 0 .. (threads_num - 1) /\ s_fd_num = threads_num * q + r
    BY <1>0
  <1>2. q # 0
    BY <1>0, <1>1
  <1>3. \A t : Offset(t) = Off(t) /\ FdNum(t) = q + (IF t <= r THEN 1 ELSE 0)
    BY DEF Offset, FdNum
  <1> HIDE DEF q, r
  <1>4. Off(0) = 0 /\ Off(threads_num) = s_fd_num
    BY <1>0, <1>1
  <1>5. ASSUME NEW t \in 1 .. threads_num
        PROVE  Off(t) = Off(t - 1) + (q + (IF t <= r THEN 1 ELSE 0))
    <2>1. t \in Nat /\ t - 1 \in Nat /\ t * q = (t - 1) * q + q
      BY <1>0, <1>1
    <2>2. (t - 1) * q \in Nat /\ t * q \in Nat
      BY <2>1, <1>1
    <2>3. (IF t <= r THEN t ELSE r) = (IF t - 1 <= r THEN t - 1 ELSE r) + (IF t <= r THEN 1 ELSE 0)
      BY <1>1, <2>1
    <2>4. QED BY <1>1, <2>1, <2>2, <2>3
  <1>6. ASSUME NEW t \in 0 .. threads_num, NEW u \in 0 .. threads_num, t <= u
        PROVE  Off(t) <= Off(u) /\ Off(t) \in Nat
    <2>1. t * q <= u * q /\ t * q \in Nat /\ u * q \in Nat
      BY <1>0, <1>1, <1>6
    <2>2. (IF t <= r THEN t ELSE r) <= (IF u <= r THEN u ELSE r)
      BY <1>0, <1>1, <1>6
    <2>3. QED BY <1>0, <1>1, <2>1, <2>2
  <1>7. \A t \in 0 .. threads_num : Off(t) \in 0 .. s_fd_num
    <2>1. SUFFICES ASSUME NEW t \in 0 .. threads_num PROVE Off(t) \in 0 .. s_fd_num
      OBVIOUS
    <2>2. threads_num \in 0 .. threads_num /\ t <= threads_num
      BY <1>0
    <2>3. Off(t) <= Off(threads_num) /\ Off(t) \in Nat
      BY <1>6, <2>2
    <2>4. QED BY <1>4, <1>0, <2>3
  <1>8. \A t \in 1 .. threads_num : q + (IF t <= r THEN 1 ELSE 0) \in Nat \ {0}
    BY <1>0, <1>1, <1>2
  <1> HIDE DEF Off
  <1>9. QED BY <1>3, <1>4, <1>5, <1>6, <1>7, <1>8 DEF Threads

\* Two threads share no listening socket, and every one has a thread.
LEMMA SharesDisjoint ==
    ASSUME s_user_params \in Settings
    PROVE  /\ \A t \in Threads : Share(t) \subseteq Listeners
           /\ \A t, u \in Threads : t # u => Share(t) \cap Share(u) = {}
           /\ threads_num = 1 => Share(1) = Listeners
  <1>1. /\ threads_num \in Nat \ {0} /\ FirstFd \in Nat /\ s_fd_num \in Nat
        /\ \A t \in 0 .. threads_num : Offset(t) \in 0 .. s_fd_num
        /\ \A t, u \in 0 .. threads_num : t <= u => Offset(t) <= Offset(u)
        /\ Offset(0) = 0 /\ Offset(threads_num) = s_fd_num
    BY SettingFacts, FdFacts, Shares
  <1>2. \A t \in Threads : t \in 0 .. threads_num /\ t - 1 \in 0 .. threads_num
    BY <1>1 DEF Threads
  <1>3. \A t \in Threads : Share(t) \subseteq Listeners
    BY <1>1, <1>2 DEF Share, Listeners
  <1>4. ASSUME NEW t \in Threads, NEW u \in Threads, t < u
        PROVE  Share(t) \cap Share(u) = {}
    <2>1. t <= u - 1
      BY <1>1, <1>4 DEF Threads
    <2>2. Offset(t) <= Offset(u - 1) /\ Offset(t) \in Nat /\ Offset(u - 1) \in Nat
      BY <1>1, <1>2, <2>1
    <2>3. QED BY <1>1, <2>2 DEF Share
  <1>5. \A t, u \in Threads : t # u => Share(t) \cap Share(u) = {}
    <2>1. \A t, u \in Threads : t # u => t < u \/ u < t
      BY <1>1 DEF Threads
    <2>2. QED BY <1>4, <2>1
  <1>6. threads_num = 1 => Share(1) = Listeners
    BY <1>1 DEF Share, Listeners
  <1>7. QED BY <1>3, <1>5, <1>6

\* find_min_max_fds() gives each thread its share, whatever connections there are.
LEMMA NextSocketsIs ==
    ASSUME s_user_params \in Settings, NEW t \in Threads,
           g_fds_array \in [Fds -> Listeners \cup {NULL}],
           \A f \in Fds \ ConnFds : g_fds_array[f] = IF f \in Listeners THEN f ELSE NULL,
           t # 1 => own[t - 1] = Share(t - 1)
    PROVE  NextSockets(t) = Share(t)
  <1> DEFINE a == FirstFd + Offset(t - 1)
             n == FdNum(t)
             last == FirstFd + s_fd_num - 1
             N(f) == {g \in last_fds(t) .. f : g_fds_array[g] # NULL}
  <1>1. /\ s_fd_num \in Nat \ {0} /\ FirstFd \in Nat \ {0} /\ OpenMax \in Nat
        /\ FirstFd + s_fd_num <= OpenMax /\ threads_num \in Nat \ {0}
    BY FdFacts, SettingFacts
  <1>2. t \in 0 .. threads_num /\ t - 1 \in 0 .. threads_num
    BY <1>1 DEF Threads
  <1>3. /\ Offset(t - 1) \in Nat /\ Offset(t) = Offset(t - 1) + n /\ Offset(t) <= s_fd_num
        /\ n \in Nat \ {0} /\ Offset(0) = 0
    BY <1>1, <1>2, Shares
  <1>4. a \in Nat /\ a >= FirstFd /\ a + n - 1 <= last /\ a <= last /\ last \in Nat
        /\ last < OpenMax /\ Share(t) = a .. (a + n - 1)
    BY <1>1, <1>3 DEF Share
  <1>5. last_fds(t) = IF t = 1 THEN 0 ELSE a
    <2>1. CASE t = 1
      BY <2>1 DEF last_fds
    <2>2. CASE t # 1
      <3>1. t - 1 \in Threads /\ (t - 1) - 1 \in 0 .. threads_num
        BY <1>1, <2>2 DEF Threads
      <3>2. Offset(t - 1) = Offset((t - 1) - 1) + FdNum(t - 1) /\ FdNum(t - 1) \in Nat \ {0}
            /\ Offset((t - 1) - 1) \in Nat
        BY <3>1, Shares
      <3>3. FirstFd + Offset((t - 1) - 1) <= a - 1
        BY <1>1, <3>2
      <3>4. Highest(own[t - 1]) = a - 1
        BY <1>1, <1>3, <2>2, <3>2, <3>3, HighestIs DEF Share
      <3>5. QED BY <1>4, <2>2, <3>4 DEF last_fds
    <2>3. QED BY <2>1, <2>2
  <1>6. t = 1 => a = FirstFd
    BY <1>1, <1>3
  <1>7. /\ Listeners = FirstFd .. last /\ ConnFds = (last + 1) .. (OpenMax - 1)
        /\ Fds = 0 .. (OpenMax - 1) /\ NULL \notin Listeners
    BY <1>1 DEF Listeners, ConnFds, Fds, NULL
  <1>8. \A f \in Listeners : g_fds_array[f] # NULL
    BY <1>1, <1>4, <1>7
  <1>9. \A f \in Fds : f < FirstFd => g_fds_array[f] = NULL
    BY <1>1, <1>4, <1>7
  <1>10. last_fds(t) \in Nat /\ last_fds(t) <= a
    BY <1>4, <1>5
  <1>11. a + n - 1 \in Int
    BY <1>3, <1>4
  <1> HIDE DEF a, n, last
  <1>12. ASSUME NEW f \in Fds, f >= last_fds(t), f \in Listeners
         PROVE  f >= a /\ (Cardinality(N(f)) <= n <=> f <= a + n - 1)
    <2>1. f \in Nat /\ f >= a /\ f <= last
      BY <1>1, <1>4, <1>5, <1>6, <1>7, <1>12
    <2>2. N(f) = a .. f
      <3>1. ASSUME NEW g \in N(f) PROVE g \in a .. f
        <4>1. g \in last_fds(t) .. f /\ g \in Fds /\ g_fds_array[g] # NULL
          <5>1. g \in last_fds(t) .. f /\ g_fds_array[g] # NULL
            OBVIOUS
          <5>2. g \in Nat /\ g <= f /\ f < OpenMax
            BY <1>1, <1>7, <1>10, <2>1, <5>1
          <5>3. QED BY <1>1, <1>7, <5>1, <5>2
        <4>2. ~(g < FirstFd)
          BY <1>9, <4>1
        <4>3. QED BY <1>1, <1>4, <1>5, <1>6, <1>10, <2>1, <4>1, <4>2
      <3>2. ASSUME NEW g \in a .. f PROVE g \in N(f)
        <4>1. g \in Listeners /\ g \in last_fds(t) .. f
          BY <1>1, <1>4, <1>7, <1>10, <2>1
        <4>2. QED BY <1>8, <4>1
      <3>3. QED BY <3>1, <3>2
    <2>3. Cardinality(a .. f) = f - a + 1
      BY <1>4, <2>1, FS_Interval
    <2>4. Cardinality(N(f)) = f - a + 1
      BY <2>2, <2>3
    <2> HIDE DEF N
    <2>5. QED BY <1>3, <1>4, <2>1, <2>4
  <1>13. ASSUME NEW f \in ConnFds, g_fds_array[f] # NULL
         PROVE  ~(Cardinality(N(f)) <= n)
    <2>1. f \in Nat /\ f > last
      BY <1>4, <1>7
    <2>2. IsFiniteSet(N(f))
      <3>1. IsFiniteSet(last_fds(t) .. f)
        BY <1>10, <2>1, FS_Interval
      <3>2. QED BY <3>1, FS_Subset
    <2>3. ((a .. last) \cup {f}) \subseteq N(f)
      <3>1. ASSUME NEW g \in a .. last PROVE g \in N(f)
        <4>1. g \in Listeners /\ g \in last_fds(t) .. f
          BY <1>1, <1>4, <1>7, <1>10, <2>1
        <4>2. QED BY <1>8, <4>1
      <3>2. f \in last_fds(t) .. f
        BY <1>1, <1>3, <1>4, <1>10, <2>1
      <3>3. QED BY <1>13, <3>1, <3>2
    <2>4. IsFiniteSet(a .. last) /\ Cardinality(a .. last) = last - a + 1 /\ f \notin a .. last
      <3>1. IsFiniteSet(a .. last) /\ Cardinality(a .. last) = IF a > last THEN 0 ELSE last - a + 1
        BY <1>4, FS_Interval
      <3>2. QED BY <1>4, <2>1, <3>1
    <2>5. Cardinality((a .. last) \cup {f}) = last - a + 2
      <3>1. Cardinality((a .. last) \cup {f}) = Cardinality(a .. last) + 1
        BY <2>4, FS_AddElement
      <3>2. QED BY <1>4, <2>4, <3>1
    <2>6. Cardinality((a .. last) \cup {f}) <= Cardinality(N(f))
      BY <2>2, <2>3, FS_Subset
    <2>7. Cardinality(N(f)) \in Nat
      BY <2>2, FS_CardinalityType
    <2>8. QED BY <1>3, <1>4, <2>5, <2>6, <2>7
  <1>14. NextSockets(t) = {f \in Fds : f >= last_fds(t) /\ g_fds_array[f] # NULL /\ Cardinality(N(f)) <= n}
    BY DEF NextSockets, n
  <1> HIDE DEF N
  <1>15. ASSUME NEW f \in NextSockets(t)
         PROVE  f \in a .. (a + n - 1)
    <2>1. /\ f \in Fds /\ f \in Nat /\ f >= last_fds(t) /\ g_fds_array[f] # NULL
          /\ Cardinality(N(f)) <= n
      BY <1>7, <1>14
    <2>2. f \notin ConnFds
      BY <1>13, <2>1
    <2>3. f \in Listeners
      BY <2>1, <2>2
    <2>4. QED BY <1>3, <1>4, <1>11, <1>12, <2>1, <2>3
  <1>16. ASSUME NEW f \in a .. (a + n - 1)
         PROVE  f \in NextSockets(t)
    <2>1. f \in Listeners /\ f \in Fds /\ f >= last_fds(t) /\ f <= a + n - 1
      BY <1>1, <1>3, <1>4, <1>7, <1>10, <1>11
    <2>2. QED BY <1>8, <1>12, <1>14, <2>1
  <1>17. QED BY <1>4, <1>15, <1>16
-----------------------------------------------------------------------------
(* The steps. *)

PcValues == {"unborn", "new", "top", "wait", "round", "accept", "install",
             "receive", "closing", "replying", "again", "end", "exit", "crash"}

\* TypeOK by what the code keeps together.
KernelOK ==
    /\ open \subseteq ConnFds
    /\ backlog \in [Listeners -> Nat] /\ inbox \in [ConnFds -> Nat]
    /\ hup \in [ConnFds -> BOOLEAN] /\ conns \in 0 .. MaxConns[threads_num] /\ sends \in 0 .. MaxSends
TablesOK ==
    /\ s_user_params \in Settings
    /\ g_fds_array \in [Fds -> Listeners \cup {NULL}]
    /\ active_fd_list \in [Listeners -> [Slots -> ConnFds \cup {INVALID_SOCKET}]]
    /\ active_fd_count \in [Listeners -> Nat]
MainOK ==
    /\ mpc \in {"none", "create", "store", "sleep", "stop", "join", "done"} /\ mi \in Threads
    /\ thread_pid_array \in [Threads -> BOOLEAN] /\ own \in [Threads -> SUBSET Listeners]
LoopOK ==
    /\ watched \in [Threads -> SUBSET Fds] /\ ready \in [Threads -> SUBSET Fds]
    /\ cur \in [Threads -> Fds \cup {NULL}] /\ other \in [Threads -> Fds \cup {NULL}]
    /\ do_update \in [Threads -> BOOLEAN] /\ calls \in [Threads -> Nat]

\* TypeOK is the conjunction of its parts.
LEMMA TypeParts ==
    TypeOK <=> /\ KernelOK /\ TablesOK /\ MainOK /\ LoopOK
               /\ pc \in [Threads -> PcValues] /\ g_b_exit \in BOOLEAN
  BY DEF TypeOK, KernelOK, TablesOK, MainOK, LoopOK, PcValues

\* What a listening socket has accepted are connections.
LEMMA ActiveFds ==
    ASSUME TablesOK, NEW l \in Listeners
    PROVE  Active(l) \subseteq ConnFds
  BY DEF TablesOK, Active

\* A slot is in use exactly if it holds a connection; there are finitely many.
LEMMA UsedSlots ==
    ASSUME NEW l
    PROVE  /\ IsFiniteSet(Slots) /\ Cardinality(Slots) = MAX_ACTIVE_FD_NUM
           /\ IsFiniteSet({s \in Slots : active_fd_list[l][s] # INVALID_SOCKET})
           /\ Cardinality({s \in Slots : active_fd_list[l][s] # INVALID_SOCKET}) \in Nat
  <1> DEFINE U == {s \in Slots : active_fd_list[l][s] # INVALID_SOCKET}
  <1>1. IsFiniteSet(Slots) /\ Cardinality(Slots) = MAX_ACTIVE_FD_NUM
    <2>1. MAX_ACTIVE_FD_NUM - 1 \in Nat /\ MAX_ACTIVE_FD_NUM \in Nat
      BY FdFacts DEF MAX_ACTIVE_FD_NUM
    <2>2. QED BY <2>1, FS_Interval DEF Slots
  <1>2. IsFiniteSet(U)
    BY <1>1, FS_Subset
  <1>3. Cardinality(U) \in Nat
    BY <1>2, FS_CardinalityType
  <1>4. QED BY <1>1, <1>2, <1>3

\* A listening socket with a connection counts one.
LEMMA InUse ==
    ASSUME ListInv, NEW l \in Listeners, Active(l) # {}
    PROVE  active_fd_count[l] > 0
  <1> DEFINE U == {s \in Slots : active_fd_list[l][s] # INVALID_SOCKET}
  <1>1. U # {}
    BY DEF Active
  <1>2. IsFiniteSet(U) /\ Cardinality(U) \in Nat
    BY UsedSlots
  <1>3. Cardinality(U) # 0
    BY <1>1, <1>2, FS_EmptySet
  <1>4. active_fd_count[l] = Cardinality(U)
    BY DEF ListInv, ListAt
  <1>5. QED BY <1>2, <1>3, <1>4

\* A connection that is entered keeps the types of the tables.
LEMMA EnterOK ==
    ASSUME TablesOK, NEW t \in Threads, cur[t] \in Listeners, other[t] \in ConnFds, Enter(t),
           s_user_params' = s_user_params
    PROVE  TablesOK'
  <1>1. active_fd_count' \in [Listeners -> Nat]
    BY DEF TablesOK, Enter
  <1>2. g_fds_array' \in [Fds -> Listeners \cup {NULL}]
    BY DEF TablesOK, Enter
  <1>3. active_fd_list' \in [Listeners -> [Slots -> ConnFds \cup {INVALID_SOCKET}]]
    BY DEF TablesOK, Enter
  <1>4. QED BY <1>1, <1>2, <1>3 DEF TablesOK

\* The next thread is given its share.
LEMMA CreatedShare ==
    ASSUME TypeOK, MainInv, OwnInv, RecordInv, mpc = "create"
    PROVE  NextSockets(mi) = Share(mi) /\ Share(mi) \subseteq Listeners
  <1>1. TablesOK /\ MainOK /\ mi \in Threads
    BY TypeParts DEF MainOK
  <1>2. mi # 1 => own[mi - 1] = Share(mi - 1)
    <2>1. threads_num \in Nat
      BY <1>1, SettingFacts DEF TablesOK
    <2>2. ASSUME mi # 1 PROVE mi - 1 \in Threads /\ ~(mi - 1 >= mi)
      BY <1>1, <2>1, <2>2 DEF Threads
    <2>3. mi # 1 => pc[mi - 1] # "unborn"
      BY <2>2 DEF MainInv
    <2>4. QED BY <2>2, <2>3 DEF OwnInv
  <1>3. QED BY <1>1, <1>2, NextSocketsIs, SharesDisjoint DEF TablesOK, RecordInv

\* A listening socket is of one thread.
LEMMA OneOwner ==
    ASSUME TypeOK, OwnInv, NEW t \in Threads, NEW u \in Threads, NEW l, l \in own[t], l \in own[u]
    PROVE  t = u
  <1>1. l \in Share(t) /\ l \in Share(u)
    BY DEF OwnInv
  <1>2. s_user_params \in Settings
    BY DEF TypeOK
  <1>3. QED BY <1>1, <1>2, SharesDisjoint

\* Only the thread that has a listening socket closes its connections.
LEMMA ClosingIs ==
    ASSUME TypeOK, OwnInv, PlaceInv, NEW t \in Threads, NEW l, l \in own[t]
    PROVE  Closing(l) = IF Closes(t, l) THEN {cur[t]} ELSE {}
  <1>1. ASSUME NEW u \in Threads, Closes(u, l) PROVE u = t
    <2>1. l \in own[u]
      BY <1>1 DEF PlaceInv, PlaceAt, Closes
    <2>2. QED BY <2>1, OneOwner
  <1>2. QED BY <1>1 DEF Closing

\* Connections stay as they are while no list changes and nothing begins or ends to close.
SameLists == \A l : Active(l)' = Active(l) /\ Closing(l)' = Closing(l) /\ Live(l)' = Live(l)

\* Then the connections stay as they are.
LEMMA SameLive ==
    ASSUME s_user_params' = s_user_params, active_fd_list' = active_fd_list,
           \A u \in Threads :
             /\ pc'[u] \in {"closing", "replying"} <=> pc[u] \in {"closing", "replying"}
             /\ pc[u] \in {"closing", "replying"} => cur'[u] = cur[u] /\ other'[u] = other[u]
    PROVE  SameLists
  <1>1. Threads' = Threads
    BY SettingKept
  <1>2. \A l : Active(l)' = Active(l)
    BY DEF Active
  <1>3. ASSUME NEW l PROVE Closing(l)' = Closing(l)
    BY <1>1 DEF Closing, Closes
  <1>4. QED BY <1>2, <1>3 DEF SameLists, Live

\* close_ifd() has closed a connection.
LEMMA CloseEffect ==
    ASSUME TypeOK, OwnInv, PlaceInv, RecordInv, s_user_params' = s_user_params,
           NEW t \in Threads, Looping(t), g_fds_array[cur[t]] # NULL
    PROVE  /\ g_fds_array[cur[t]] \in own[t] /\ g_fds_array[cur[t]] \in Listeners
           /\ cur[t] \in Live(g_fds_array[cur[t]]) /\ cur[t] \in Active(g_fds_array[cur[t]])
           /\ calls[t] = 0 /\ cur[t] \in ConnFds
  <1>1. max_looping_over_recv = 1 /\ own[t] \subseteq Listeners
    BY SettingFacts DEF TypeOK
  <1>2. calls[t] = 0 /\ cur[t] \in ConnFds /\ cur[t] \in Mine(t)
    BY <1>1 DEF Looping, PlaceInv, PlaceAt
  <1>3. PICK l \in own[t] : cur[t] \in Live(l)
    BY <1>2 DEF Mine
  <1>4. g_fds_array[cur[t]] = l
    BY <1>1, <1>3 DEF RecordInv
  <1>5. QED BY <1>1, <1>2, <1>3, <1>4 DEF Live

\* The connection is no longer live; nothing else changes.
LEMMA ClosedLive ==
    ASSUME TypeOK, OwnInv, PlaceInv, RecordInv, s_user_params' = s_user_params,
           NEW t \in Threads, Looping(t), NEW l, l = g_fds_array[cur[t]], l # NULL,
           NEW x \in {"closing", "replying"}, pc' = [pc EXCEPT ![t] = x], cur' = cur,
           other' = [other EXCEPT ![t] = l], active_fd_list' = active_fd_list
    PROVE  /\ \A k : Active(k)' = Active(k)
           /\ Live(l)' = Live(l) \ {cur[t]}
           /\ \A k : k # l => Live(k)' = Live(k)
  <1>0. /\ Threads' = Threads /\ pc \in [Threads -> PcValues] /\ other \in [Threads -> Fds \cup {NULL}]
        /\ l \in own[t] /\ pc[t] = "receive"
    BY SettingKept, TypeParts, CloseEffect DEF LoopOK, Looping
  <1>1. \A k : Active(k)' = Active(k)
    BY DEF Active
  <1>2. \A u \in Threads : \A k : Closes(u, k)' <=> Closes(u, k) \/ (u = t /\ k = l)
    BY <1>0 DEF Closes
  <1>3. \A k : k # l => Closing(k)' = Closing(k)
    BY <1>0, <1>2 DEF Closing
  <1>4. Closing(l)' = Closing(l) \cup {cur[t]}
    BY <1>0, <1>2 DEF Closing
  <1>5. QED BY <1>1, <1>3, <1>4 DEF Live

\* Where close_ifd() returns to, if it does.
FreedIs(t) ==
    /\ Freed(t) \in {"receive", "again", "crash"}
    /\ pc[t] = "closing" => Freed(t) # "again"
    /\ pc[t] = "replying" => Freed(t) # "receive"

\* It is one of these places.
LEMMA FreedTo ==
    ASSUME NEW t, pc[t] \in {"closing", "replying"}
    PROVE  FreedIs(t)
  BY DEF FreedIs, Freed

\* close_ifd() takes the connection off its list, which has it once.
LEMMA FreeEffect ==
    ASSUME TypeOK, OwnInv, PlaceInv, ListInv, s_user_params' = s_user_params,
           NEW t \in Threads, FreeIfd(t), NEW l, l = other[t], NEW f, f = cur[t]
    PROVE  /\ l \in own[t] /\ l \in Listeners /\ f \in ConnFds
           /\ f \in Active(l)
           /\ Active(l)' = Active(l) \ {f}
           /\ \A k \in Listeners : k # l => Active(k)' = Active(k)
           /\ \A k \in Listeners : Live(k)' = Live(k)
  <1>0. /\ Threads' = Threads /\ pc \in [Threads -> PcValues] /\ TablesOK /\ own[t] \subseteq Listeners
    BY SettingKept, TypeParts DEF MainOK
  <1>1. /\ pc[t] \in {"closing", "replying"} /\ cur' = cur /\ other' = other /\ own' = own
        /\ active_fd_list' = [active_fd_list EXCEPT ![l] =
             [s \in Slots |-> IF active_fd_list[l][s] = f THEN INVALID_SOCKET ELSE active_fd_list[l][s]]]
        /\ \A u \in Threads : u # t => pc'[u] = pc[u]
        /\ pc'[t] \in {"receive", "again", "crash"}
    BY <1>0, FreedTo DEF FreeIfd, FreedIs, main, loop
  <1>2. l \in own[t] /\ l \in Listeners /\ f \in ConnFds /\ f \in Active(l)
    BY <1>0, <1>1 DEF PlaceInv, PlaceAt
  <1>3. f # INVALID_SOCKET
    BY <1>2 DEF Active
  <1>4. /\ \A s \in Slots : active_fd_list'[l][s] = IF active_fd_list[l][s] = f THEN INVALID_SOCKET
                                                   ELSE active_fd_list[l][s]
        /\ \A k \in Listeners : k # l => active_fd_list'[k] = active_fd_list[k]
    BY <1>0, <1>1, <1>2 DEF TablesOK
  <1>5. Active(l)' = Active(l) \ {f}
    BY <1>3, <1>4 DEF Active
  <1>6. \A k \in Listeners : k # l => Active(k)' = Active(k)
    BY <1>4 DEF Active
  <1>7. \A k \in Listeners : k # l => Closing(k)' = Closing(k)
    <2>1. \A u \in Threads : \A k : k # l => (Closes(u, k)' <=> Closes(u, k))
      BY <1>1 DEF Closes
    <2>2. QED BY <1>0, <1>1, <2>1 DEF Closing
  <1>8. Closing(l) = {f} /\ Closing(l)' = {}
    <2>1. Closing(l) = {f}
      BY <1>1, <1>2, ClosingIs DEF Closes
    <2>2. ASSUME NEW u \in Threads PROVE ~Closes(u, l)'
      <3>1. CASE u = t
        BY <1>1, <3>1 DEF Closes
      <3>2. CASE u # t
        <4>1. ~Closes(u, l)
          <5>1. Closes(u, l) => l \in own[u]
            BY DEF PlaceInv, PlaceAt, Closes
          <5>2. QED BY <1>2, <3>2, <5>1, OneOwner
        <4>2. QED BY <1>1, <3>2, <4>1 DEF Closes
      <3>3. QED BY <3>1, <3>2
    <2>3. QED BY <1>0, <2>1, <2>2 DEF Closing
  <1>9. QED BY <1>2, <1>5, <1>6, <1>7, <1>8 DEF Live

\* A slot is free while a list counts less than it can hold, and the first free one is
\* not the last.
LEMMA FreeSlotIs ==
    ASSUME TypeOK, ListInv, NEW l \in Listeners, active_fd_count[l] < MAX_ACTIVE_FD_NUM - 1
    PROVE  /\ FreeSlot(l) \in Slots /\ active_fd_list[l][FreeSlot(l)] = INVALID_SOCKET
           /\ FreeSlot(l) # MAX_ACTIVE_FD_NUM - 1
  <1> DEFINE E == {s \in Slots : active_fd_list[l][s] = INVALID_SOCKET}
             U == {s \in Slots : active_fd_list[l][s] # INVALID_SOCKET}
             last == MAX_ACTIVE_FD_NUM - 1
  <1>1. last \in Slots /\ last \in Nat /\ MAX_ACTIVE_FD_NUM \in Nat /\ E \subseteq Nat
        /\ Slots = 0 .. last
    BY FdFacts DEF MAX_ACTIVE_FD_NUM, Slots
  <1>2. last \in E /\ active_fd_count[l] = Cardinality(U)
    BY <1>1 DEF ListInv, ListAt
  <1>3. IsFiniteSet(Slots) /\ Cardinality(Slots) = MAX_ACTIVE_FD_NUM
        /\ IsFiniteSet(U) /\ Cardinality(U) \in Nat
    BY UsedSlots
  <1>4. E # {last}
    <2>1. SUFFICES ASSUME E = {last} PROVE FALSE
      OBVIOUS
    <2>2. U = Slots \ {last}
      BY <2>1
    <2>3. Cardinality(Slots \ {last}) = Cardinality(Slots) - 1
      BY <1>1, <1>3, FS_RemoveElement
    <2>4. Cardinality(U) = Cardinality(Slots) - 1
      BY <2>2, <2>3
    <2> HIDE DEF U, E
    <2>5. QED BY <1>1, <1>2, <1>3, <2>4
  <1>5. PICK s \in E : s # last
    BY <1>2, <1>4
  <1>6. Lowest(E) \in E /\ Lowest(E) <= s
    BY <1>1, <1>2, <1>5, LowestIs
  <1>7. s \in Nat /\ s < last
    BY <1>1, <1>5
  <1>8. FreeSlot(l) = Lowest(E)
    BY DEF FreeSlot
  <1> HIDE DEF E
  <1>9. Lowest(E) # last
    BY <1>1, <1>6, <1>7
  <1>10. QED BY <1>6, <1>8, <1>9 DEF E

\* A connection that is entered joins one list.
LEMMA EnterEffect ==
    ASSUME TypeOK, OwnInv, PlaceInv, ListInv, LiveInv, Running, s_user_params' = s_user_params,
           NEW t \in Threads, pc[t] = "install", WithinLimits(t), Enter(t),
           NEW l, l = cur[t], NEW f, f = other[t],
           pc'[t] \notin {"closing", "replying"},
           \A u \in Threads : u # t => pc'[u] = pc[u] /\ cur'[u] = cur[u] /\ other'[u] = other[u]
    PROVE  /\ l \in own[t] /\ l \in Listeners /\ f \in ConnFds /\ f \in open
           /\ \A k \in Listeners : f \notin Live(k)
           /\ f \notin Active(l)
           /\ active_fd_list' = [active_fd_list EXCEPT ![l] =
                                   [@ EXCEPT ![FreeSlot(l)] = f]]
           /\ Active(l)' = Active(l) \cup {f}
           /\ \A k \in Listeners : k # l => Active(k)' = Active(k)
           /\ Live(l)' = Live(l) \cup {f}
           /\ \A k \in Listeners : k # l => Live(k)' = Live(k)
  <1> DEFINE n == FreeSlot(l)
  <1>0. /\ Threads' = Threads /\ pc \in [Threads -> PcValues] /\ TablesOK /\ own[t] \subseteq Listeners
        /\ KernelOK
    BY SettingKept, TypeParts DEF MainOK
  <1>1. l \in own[t] /\ l \in Listeners
    BY <1>0 DEF PlaceInv, PlaceAt
  <1>2. f \in open /\ f \in ConnFds /\ \A k \in Listeners : f \notin Live(k)
    BY <1>0 DEF LiveInv, Fresh, KernelOK
  <1>3. n \in Slots /\ active_fd_list[l][n] = INVALID_SOCKET
    BY <1>1, FreeSlotIs DEF WithinLimits
  <1>4. active_fd_list' = [active_fd_list EXCEPT ![l] = [@ EXCEPT ![n] = f]]
    BY DEF Enter
  <1>5. f # INVALID_SOCKET
    BY <1>2, FdFacts DEF NULL, INVALID_SOCKET
  <1>6. ASSUME NEW u \in Threads, NEW k PROVE Closes(u, k)' <=> Closes(u, k)
    <2>1. CASE u = t
      BY <1>0, <2>1 DEF Closes
    <2>2. CASE u # t
      BY <1>0, <2>2 DEF Closes
    <2>3. QED BY <2>1, <2>2
  <1>7. ASSUME NEW k PROVE Closing(k)' = Closing(k)
    <2>1. \A u \in Threads : Closes(u, k) => cur'[u] = cur[u]
      BY <1>0 DEF Closes
    <2>2. QED BY <1>0, <1>6, <2>1 DEF Closing
  <1>8. Closing(l) = {}
    BY <1>1, ClosingIs DEF Closes
  <1> HIDE DEF n
  <1>9. /\ \A s \in Slots : active_fd_list'[l][s] = IF s = n THEN f ELSE active_fd_list[l][s]
        /\ \A k \in Listeners : k # l => active_fd_list'[k] = active_fd_list[k]
    BY <1>0, <1>1, <1>3, <1>4 DEF TablesOK
  <1>10. Active(l)' = Active(l) \cup {f}
    BY <1>3, <1>5, <1>9 DEF Active
  <1>11. \A k \in Listeners : k # l => Active(k)' = Active(k)
    BY <1>9 DEF Active
  <1>12. Live(l) = Active(l) /\ Live(l)' = Active(l)'
    BY <1>7, <1>8 DEF Live
  <1>13. \A k \in Listeners : k # l => Live(k)' = Live(k)
    BY <1>7, <1>11 DEF Live
  <1>14. QED
    BY <1>1, <1>2, <1>4, <1>10, <1>11, <1>12, <1>13 DEF n

\* No step changes the setting.
LEMMA SettingStep ==
    ASSUME Next
    PROVE  s_user_params' = s_user_params
  BY DEF Next, Environment, MainStep, Step, tables, Connect, ClientSend, ClientClose, Interrupt,
     CreateThread, CreateFails, StoreTid,
     WakeUp, StopThread, JoinThread, InitBeforeLoop, InitFails, EnterWait, Timeout, Leave,
     MarkExit, WaitArrival, NextReady, Update, Accept, AcceptFails, Install, Refuse,
     RefuseTls, NoRecord, HandleMessages, CloseIfd, ReplyShutdown, FreeIfd, CloseAgain,
     EndReceive

\* Every step keeps the types.
LEMMA TypeStep ==
    ASSUME TypeOK, MainInv, OwnInv, PlaceInv, ListInv, RecordInv, LiveInv, Next
    PROVE  TypeOK'
  <1>0. /\ s_user_params' = s_user_params /\ Running
        /\ threads_num' = threads_num /\ Threads' = Threads
    BY SettingStep, SettingKept DEF Next
  <1>a. /\ KernelOK /\ TablesOK /\ MainOK /\ LoopOK
        /\ pc \in [Threads -> PcValues] /\ g_b_exit \in BOOLEAN
    BY TypeParts
  <1>b. /\ kernel' = kernel => KernelOK'
        /\ tables' = tables => TablesOK'
        /\ main' = main => MainOK'
        /\ loop' = loop => LoopOK'
    BY <1>0, <1>a DEF KernelOK, TablesOK, MainOK, LoopOK, kernel, tables, main, loop
  <1>c. SUFFICES /\ KernelOK' /\ TablesOK' /\ MainOK' /\ LoopOK'
                 /\ pc' \in [Threads -> PcValues] /\ g_b_exit' \in BOOLEAN
    BY <1>0, TypeParts DEF TypeOK, KernelOK, TablesOK, MainOK, LoopOK, PcValues
  <1>d. /\ threads_num \in Nat \ {0} /\ Threads = 1 .. threads_num /\ 1 \in Threads
        /\ MaxConns[threads_num] \in Nat /\ MaxSends \in Nat
        /\ Listeners \subseteq Fds /\ ConnFds \subseteq Fds /\ Fds \subseteq Nat
    BY <1>a, SettingFacts, FdFacts, ServerAssumption DEF TablesOK, Threads
  <1>1. ASSUME NEW l \in Listeners, Connect(l)
        PROVE  /\ KernelOK' /\ TablesOK' /\ MainOK' /\ LoopOK'
                 /\ pc' \in [Threads -> PcValues] /\ g_b_exit' \in BOOLEAN
    <2>1. KernelOK'
      BY <1>0, <1>a, <1>d, <1>1 DEF Connect, KernelOK
    <2>2. QED BY <1>a, <1>b, <1>1, <2>1 DEF Connect
  <1>2. ASSUME NEW f \in ConnFds, ClientSend(f)
        PROVE  /\ KernelOK' /\ TablesOK' /\ MainOK' /\ LoopOK'
                 /\ pc' \in [Threads -> PcValues] /\ g_b_exit' \in BOOLEAN
    <2>1. KernelOK'
      BY <1>0, <1>a, <1>d, <1>2 DEF ClientSend, KernelOK
    <2>2. QED BY <1>a, <1>b, <1>2, <2>1 DEF ClientSend
  <1>3. ASSUME NEW f \in ConnFds, ClientClose(f)
        PROVE  /\ KernelOK' /\ TablesOK' /\ MainOK' /\ LoopOK'
                 /\ pc' \in [Threads -> PcValues] /\ g_b_exit' \in BOOLEAN
    BY <1>0, <1>a, <1>b, <1>3 DEF ClientClose, KernelOK
  <1>4. ASSUME NEW t \in {0} \cup Threads, Interrupt(t)
        PROVE  /\ KernelOK' /\ TablesOK' /\ MainOK' /\ LoopOK'
                 /\ pc' \in [Threads -> PcValues] /\ g_b_exit' \in BOOLEAN
    BY <1>0, <1>a, <1>b, <1>4 DEF Interrupt, Signalled, PcValues
  <1>5. CASE CreateThread
    <2>3. NextSockets(mi) = Share(mi) /\ Share(mi) \subseteq Listeners
      BY <1>5, CreatedShare DEF CreateThread
    <2>5. MainOK'
      BY <1>0, <1>a, <2>3, <1>5 DEF CreateThread, MainOK
    <2>6. QED BY <1>0, <1>a, <1>b, <2>5, <1>5 DEF CreateThread, PcValues
  <1>6. CASE CreateFails
    <2>1. MainOK'
      BY <1>0, <1>a, <1>d, <1>6 DEF CreateFails, MainOK
    <2>2. QED BY <1>a, <1>b, <1>6, <2>1 DEF CreateFails
  <1>7. CASE StoreTid
    <2>1. MainOK'
      BY <1>0, <1>a, <1>d, <1>7 DEF StoreTid, MainOK
    <2>2. QED BY <1>a, <1>b, <1>7, <2>1 DEF StoreTid
  <1>8. CASE WakeUp
    <2>1. MainOK'
      BY <1>0, <1>a, <1>d, <1>8 DEF WakeUp, MainOK
    <2>2. QED BY <1>a, <1>b, <1>8, <2>1 DEF WakeUp
  <1>9. CASE StopThread
    <2>1. MainOK'
      BY <1>0, <1>a, <1>d, <1>9 DEF StopThread, NextThread, MainOK
    <2>2. pc' \in [Threads -> PcValues] /\ g_b_exit' \in BOOLEAN
      BY <1>a, <1>9 DEF StopThread, Signalled, PcValues
    <2>3. QED BY <1>a, <1>b, <1>9, <2>1, <2>2 DEF StopThread
  <1>10. CASE JoinThread
    <2>1. MainOK'
      BY <1>0, <1>a, <1>d, <1>10 DEF JoinThread, NextThread, MainOK
    <2>2. QED BY <1>a, <1>b, <1>10, <2>1 DEF JoinThread
  <1>11. ASSUME NEW t \in Threads, Step(t)
        PROVE  /\ KernelOK' /\ TablesOK' /\ MainOK' /\ LoopOK'
                 /\ pc' \in [Threads -> PcValues] /\ g_b_exit' \in BOOLEAN
    <2>1. CASE InitBeforeLoop(t)
      <3>1. LoopOK'
        BY <1>0, <1>a, <1>d, <2>1 DEF InitBeforeLoop, LoopOK, MainOK
      <3>2. QED BY <1>a, <1>b, <2>1, <3>1 DEF InitBeforeLoop, PcValues
    <2>2. CASE InitFails(t)
      BY <1>0, <1>a, <1>b, <2>2 DEF InitFails, PcValues
    <2>3. CASE EnterWait(t)
      BY <1>0, <1>a, <1>b, <2>3 DEF EnterWait, PcValues
    <2>4. CASE Timeout(t)
      BY <1>0, <1>a, <1>b, <2>4 DEF Timeout, PcValues
    <2>5. CASE Leave(t)
      BY <1>0, <1>a, <1>b, <2>5 DEF Leave, PcValues
    <2>6. CASE MarkExit(t)
      BY <1>0, <1>a, <1>b, <2>6 DEF MarkExit, PcValues, MainOK
    <2>7. CASE WaitArrival(t)
      BY <1>0, <1>a, <1>b, <2>7 DEF WaitArrival, PcValues, LoopOK
    <2>8. ASSUME NEW f \in Fds, NextReady(t, f)
          PROVE  /\ KernelOK' /\ TablesOK' /\ MainOK' /\ LoopOK'
                 /\ pc' \in [Threads -> PcValues] /\ g_b_exit' \in BOOLEAN
      BY <1>0, <1>a, <1>b, <2>8 DEF NextReady, PcValues, LoopOK
    <2>9. CASE Update(t)
      <3>1. own[t] \cup UNION {Active(l) : l \in own[t]} \subseteq Fds
        BY <1>a, <1>d, ActiveFds DEF MainOK
      <3>2. LoopOK'
        BY <1>0, <1>a, <3>1, <2>9 DEF Update, LoopOK
      <3>3. QED BY <1>a, <1>b, <2>9, <3>2 DEF Update, PcValues
    <2>10. CASE Accept(t)
      <3>1. FreeFds \subseteq Nat /\ FreeFds # {} /\ FreeFds \subseteq ConnFds
        BY <1>d, <2>10 DEF Accept, FreeFds
      <3>2. Lowest(FreeFds) \in ConnFds
        BY <3>1, LowestIs
      <3> DEFINE f == Lowest(FreeFds)
      <3>3. /\ open' = open \cup {f}
            /\ inbox' = [inbox EXCEPT ![f] = 0]
            /\ hup' = [hup EXCEPT ![f] = FALSE]
            /\ other' = [other EXCEPT ![t] = f]
            /\ backlog' = [backlog EXCEPT ![cur[t]] = @ - 1] /\ backlog[cur[t]] > 0
            /\ pc' = [pc EXCEPT ![t] = "install"]
            /\ UNCHANGED <<conns, sends, tables, g_b_exit, main, watched, ready, cur, do_update, calls>>
        BY <2>10 DEF Accept
      <3> HIDE DEF f
      <3>f. f \in ConnFds
        BY <3>2 DEF f
      <3>g. cur[t] \in Listeners /\ backlog[cur[t]] - 1 \in Nat
        BY <1>a, <3>3, <2>10 DEF Accept, PlaceInv, PlaceAt, MainOK, KernelOK
      <3>h. backlog' \in [Listeners -> Nat]
        BY <1>a, <3>3, <3>g DEF KernelOK
      <3>4. KernelOK'
        BY <1>0, <1>a, <3>f, <3>3, <3>h DEF KernelOK
      <3>5. LoopOK'
        BY <1>0, <1>a, <1>d, <3>f, <3>3 DEF LoopOK
      <3>6. QED BY <1>a, <1>b, <3>3, <3>4, <3>5 DEF PcValues
    <2>11. CASE AcceptFails(t)
      BY <1>0, <1>a, <1>b, <2>11 DEF AcceptFails, ToRound, PcValues, LoopOK
    <2>12. CASE Install(t)
      <3>1. cur[t] \in Listeners /\ other[t] \in ConnFds
        BY <1>0, <1>a, <2>12 DEF Install, PlaceInv, PlaceAt, LiveInv, Fresh, MainOK, KernelOK
      <3>2. TablesOK'
        BY <1>0, <1>a, <3>1, <2>12, EnterOK DEF Install
      <3>3. LoopOK'
        BY <1>0, <1>a, <2>12 DEF Install, ToRound, LoopOK
      <3>4. QED BY <1>a, <1>b, <3>2, <3>3, <2>12 DEF Install, ToRound, PcValues
    <2>13. CASE Refuse(t)
      BY <1>0, <1>a, <1>b, <2>13 DEF Refuse, ToRound, Close, PcValues, LoopOK, KernelOK
    <2>14. CASE RefuseTls(t)
      <3>1. cur[t] \in Listeners /\ other[t] \in ConnFds
        BY <1>0, <1>a, <2>14 DEF RefuseTls, PlaceInv, PlaceAt, LiveInv, Fresh, MainOK, KernelOK
      <3>2. TablesOK'
        BY <1>0, <1>a, <3>1, <2>14, EnterOK DEF RefuseTls
      <3>3. KernelOK'
        BY <1>0, <1>a, <2>14 DEF RefuseTls, Close, KernelOK
      <3>4. QED BY <1>a, <1>b, <3>2, <3>3, <2>14 DEF RefuseTls, PcValues
    <2>15. CASE NoRecord(t)
      BY <1>0, <1>a, <1>b, <2>15 DEF NoRecord, Called, LoopOK
    <2>16. ASSUME NEW n \in 1 .. MaxSends, HandleMessages(t, n)
          PROVE  /\ KernelOK' /\ TablesOK' /\ MainOK' /\ LoopOK'
                 /\ pc' \in [Threads -> PcValues] /\ g_b_exit' \in BOOLEAN
      <3>1. cur[t] \in ConnFds
        BY <2>16 DEF HandleMessages, Looping, PlaceInv, PlaceAt
      <3>2. KernelOK'
        BY <1>0, <1>a, <3>1, <2>16 DEF HandleMessages, KernelOK
      <3>3. LoopOK'
        BY <1>0, <1>a, <2>16 DEF HandleMessages, Called, LoopOK
      <3>4. QED BY <1>a, <1>b, <3>2, <3>3, <2>16 DEF HandleMessages
    <2>17. CASE CloseIfd(t)
      <3>1. cur[t] \in ConnFds /\ g_fds_array[cur[t]] \in Fds
        BY <1>a, <1>d, <2>17 DEF CloseIfd, Looping, PlaceInv, PlaceAt, TablesOK
      <3>2. KernelOK'
        <4>1. CASE cur[t] \in Active(g_fds_array[cur[t]])
          <5>1. Close(cur[t]) /\ UNCHANGED <<backlog, conns, sends>>
            BY <4>1, <2>17 DEF CloseIfd
          <5>2. QED BY <1>0, <1>a, <5>1 DEF Close, KernelOK
        <4>2. CASE cur[t] \notin Active(g_fds_array[cur[t]])
          BY <1>0, <1>a, <4>2, <2>17 DEF CloseIfd, KernelOK
        <4>3. QED BY <4>1, <4>2
      <3>3. LoopOK'
        BY <1>0, <1>a, <3>1, <2>17 DEF CloseIfd, Called, LoopOK
      <3>4. QED BY <1>a, <1>b, <3>2, <3>3, <2>17 DEF CloseIfd, PcValues
    <2>18. CASE ReplyShutdown(t)
      <3>1. cur[t] \in ConnFds /\ g_fds_array[cur[t]] \in Fds
        BY <1>a, <1>d, <2>18 DEF ReplyShutdown, Looping, PlaceInv, PlaceAt, TablesOK
      <3>2. KernelOK'
        BY <1>0, <1>a, <2>18 DEF ReplyShutdown, Close, KernelOK
      <3>3. LoopOK'
        BY <1>0, <1>a, <3>1, <2>18 DEF ReplyShutdown, Called, LoopOK
      <3>4. QED BY <1>a, <1>b, <3>2, <3>3, <2>18 DEF ReplyShutdown, PcValues
    <2>19. CASE FreeIfd(t)
      <3>1. /\ active_fd_count' = [active_fd_count EXCEPT ![other[t]] = @ - 1]
            /\ active_fd_list' = [active_fd_list EXCEPT ![other[t]] =
                  [s \in Slots |-> IF @[s] = cur[t] THEN INVALID_SOCKET ELSE @[s]]]
            /\ g_fds_array' = [g_fds_array EXCEPT ![cur[t]] = NULL]
            /\ pc[t] \in {"closing", "replying"}
        BY <2>19 DEF FreeIfd
      <3>2. other[t] \in Listeners /\ cur[t] \in Active(other[t])
        BY <1>a, <3>1 DEF PlaceInv, PlaceAt, MainOK
      <3>3. active_fd_count[other[t]] > 0 /\ active_fd_count[other[t]] \in Nat
        BY <1>a, <3>2, InUse DEF TablesOK
      <3>a. active_fd_count[other[t]] - 1 \in Nat
        BY <3>3
      <3>4. active_fd_count' \in [Listeners -> Nat]
        BY <1>a, <3>1, <3>a DEF TablesOK
      <3>5. active_fd_list' \in [Listeners -> [Slots -> ConnFds \cup {INVALID_SOCKET}]]
        BY <1>a, <3>1, <3>2 DEF TablesOK
      <3>6. TablesOK'
        BY <1>0, <1>a, <3>1, <3>4, <3>5 DEF TablesOK
      <3>7. QED BY <1>a, <1>b, <3>1, <3>6, <2>19, FreedTo DEF FreeIfd, FreedIs, PcValues
    <2>20. CASE CloseAgain(t)
      <3>1. KernelOK'
        BY <1>0, <1>a, <2>20 DEF CloseAgain, KernelOK, PlaceInv, PlaceAt
      <3>2. LoopOK'
        BY <1>0, <1>a, <2>20 DEF CloseAgain, LoopOK
      <3>3. QED BY <1>a, <1>b, <3>1, <3>2, <2>20 DEF CloseAgain, PcValues
    <2>21. CASE EndReceive(t)
      BY <1>0, <1>a, <1>b, <2>21 DEF EndReceive, ToRound, PcValues, LoopOK
    <2>22. QED
      BY <1>11, <2>1, <2>2, <2>3, <2>4, <2>5, <2>6, <2>7, <2>8, <2>9, <2>10, <2>11, <2>12, <2>13,
         <2>14, <2>15, <2>16, <2>17, <2>18, <2>19, <2>20, <2>21
         DEF Step
  <1>12. QED
    BY <1>1, <1>2, <1>3, <1>4, <1>5, <1>6, <1>7, <1>8, <1>9, <1>10, <1>11
       DEF Next, Environment, MainStep

\* The main thread's account of the threads, and what each of them was given.
LEMMA MainStepInv ==
    ASSUME TypeOK, MainInv, OwnInv, RecordInv, Next
    PROVE  MainInv' /\ OwnInv'
  <1> DEFINE Goal == MainInv' /\ OwnInv'
  <1> SUFFICES Goal
    OBVIOUS
  <1>0. /\ s_user_params' = s_user_params
        /\ threads_num' = threads_num /\ Threads' = Threads /\ mthread_server' = mthread_server
    BY SettingStep, SettingKept
  <1>a. /\ pc \in [Threads -> PcValues] /\ MainOK /\ threads_num \in Nat \ {0}
        /\ Threads = 1 .. threads_num /\ mi \in Threads /\ 1 \in Threads
        /\ (~mthread_server => threads_num = 1)
    BY TypeParts, SettingFacts DEF MainOK, TablesOK, Threads
  <1>b. \A t : Share(t)' = Share(t)
    BY <1>0 DEF Share, Offset
  <1>c. MainInv /\ OwnInv
    OBVIOUS
  <1>d. ASSUME main' = main,
               \A u \in Threads : (pc'[u] = "unborn" <=> pc[u] = "unborn") /\ (pc'[u] = "exit" <=> pc[u] = "exit")
        PROVE  Goal
    <2>1. mpc' = mpc /\ mi' = mi /\ thread_pid_array' = thread_pid_array /\ own' = own
      BY <1>d DEF main
    <2>2. MainInv'
      BY <1>0, <1>a, <1>c, <1>d, <2>1 DEF MainInv
    <2>3. OwnInv'
      BY <1>0, <1>b, <1>c, <1>d, <2>1 DEF OwnInv
    <2>4. QED BY <2>2, <2>3
  <1>1. ASSUME NEW l \in Listeners, Connect(l)
        PROVE  Goal
    BY <1>a, <1>d, <1>1 DEF Connect, PcValues
  <1>2. ASSUME NEW f \in ConnFds, ClientSend(f)
        PROVE  Goal
    BY <1>a, <1>d, <1>2 DEF ClientSend, PcValues
  <1>3. ASSUME NEW f \in ConnFds, ClientClose(f)
        PROVE  Goal
    BY <1>a, <1>d, <1>3 DEF ClientClose, PcValues
  <1>4. ASSUME NEW t \in {0} \cup Threads, Interrupt(t)
        PROVE  Goal
    BY <1>a, <1>d, <1>4 DEF Interrupt, Signalled, PcValues
  <1>5. CASE CreateThread
    <2>1. MainInv'
      BY <1>0, <1>a, <1>c, <1>5 DEF CreateThread, NextThread, MainInv, MainOK, PcValues
    <2>2. OwnInv'
      BY <1>0, <1>a, <1>b, <1>c, CreatedShare, <1>5 DEF CreateThread, OwnInv, MainOK
    <2>3. QED BY <2>1, <2>2
  <1>6. CASE CreateFails
    <2>1. MainInv'
      BY <1>0, <1>a, <1>c, <1>6 DEF CreateFails, NextThread, MainInv, MainOK, PcValues
    <2>2. OwnInv'
      BY <1>0, <1>a, <1>b, <1>c, <1>6 DEF CreateFails, OwnInv, MainOK
    <2>3. QED BY <2>1, <2>2
  <1>7. CASE StoreTid
    <2>1. MainInv'
      BY <1>0, <1>a, <1>c, <1>7 DEF StoreTid, NextThread, MainInv, MainOK, PcValues
    <2>2. OwnInv'
      BY <1>0, <1>a, <1>b, <1>c, <1>7 DEF StoreTid, OwnInv, MainOK
    <2>3. QED BY <2>1, <2>2
  <1>8. CASE WakeUp
    <2>1. MainInv'
      BY <1>0, <1>a, <1>c, <1>8 DEF WakeUp, NextThread, MainInv, MainOK, PcValues
    <2>2. OwnInv'
      BY <1>0, <1>a, <1>b, <1>c, <1>8 DEF WakeUp, OwnInv, MainOK
    <2>3. QED BY <2>1, <2>2
  <1>9. CASE StopThread
    <2>0. /\ pc' \in [Threads -> PcValues] /\ own' = own /\ thread_pid_array' = thread_pid_array
          /\ \A u \in Threads : (pc'[u] = "unborn" <=> pc[u] = "unborn") /\ (pc'[u] = "exit" <=> pc[u] = "exit")
      BY <1>a, <1>9 DEF StopThread, Signalled, PcValues
    <2>1. MainInv'
      <3>1. CASE thread_pid_array[mi]
        BY <1>0, <1>a, <1>c, <2>0, <3>1, <1>9 DEF StopThread, MainInv
      <3>2. CASE ~thread_pid_array[mi]
        BY <1>0, <1>a, <1>c, <2>0, <3>2, <1>9 DEF StopThread, NextThread, MainInv
      <3>3. QED BY <3>1, <3>2
    <2>2. OwnInv'
      BY <1>0, <1>a, <1>b, <1>c, <2>0 DEF OwnInv, MainOK
    <2>3. QED BY <2>1, <2>2
  <1>10. CASE JoinThread
    <2>1. MainInv'
      BY <1>0, <1>a, <1>c, <1>10 DEF JoinThread, NextThread, MainInv, MainOK, PcValues
    <2>2. OwnInv'
      BY <1>0, <1>a, <1>b, <1>c, <1>10 DEF JoinThread, OwnInv, MainOK
    <2>3. QED BY <2>1, <2>2
  <1>11. ASSUME NEW t \in Threads, Step(t)
        PROVE  Goal
    <2>1. CASE InitBeforeLoop(t)
      BY <1>a, <1>d, <2>1 DEF InitBeforeLoop, PcValues
    <2>2. CASE InitFails(t)
      BY <1>a, <1>d, <2>2 DEF InitFails, PcValues
    <2>3. CASE EnterWait(t)
      BY <1>a, <1>d, <2>3 DEF EnterWait, PcValues
    <2>4. CASE Timeout(t)
      BY <1>a, <1>d, <2>4 DEF Timeout, PcValues
    <2>5. CASE Leave(t)
      BY <1>a, <1>d, <2>5 DEF Leave, PcValues
    <2>6. CASE MarkExit(t)
      <3>1. MainInv'
        BY <1>0, <1>a, <1>c, <2>6 DEF MarkExit, MainInv, MainOK, PcValues
      <3>2. OwnInv'
        BY <1>0, <1>a, <1>b, <1>c, <2>6 DEF MarkExit, OwnInv, MainOK
      <3>3. QED BY <3>1, <3>2
    <2>7. CASE WaitArrival(t)
      BY <1>a, <1>d, <2>7 DEF WaitArrival, PcValues
    <2>8. ASSUME NEW f \in Fds, NextReady(t, f)
          PROVE  Goal
      BY <1>a, <1>d, <2>8 DEF NextReady, PcValues
    <2>9. CASE Update(t)
      BY <1>a, <1>d, <2>9 DEF Update, PcValues
    <2>10. CASE Accept(t)
      BY <1>a, <1>d, <2>10 DEF Accept, PcValues
    <2>11. CASE AcceptFails(t)
      BY <1>a, <1>d, <2>11 DEF AcceptFails, ToRound, PcValues
    <2>12. CASE Install(t)
      BY <1>a, <1>d, <2>12 DEF Install, ToRound, Enter, PcValues
    <2>13. CASE Refuse(t)
      BY <1>a, <1>d, <2>13 DEF Refuse, ToRound, Close, PcValues
    <2>14. CASE RefuseTls(t)
      BY <1>a, <1>d, <2>14 DEF RefuseTls, Enter, Close, PcValues
    <2>15. CASE NoRecord(t)
      BY <1>a, <1>d, <2>15 DEF NoRecord, Called, Looping, PcValues
    <2>16. ASSUME NEW n \in 1 .. MaxSends, HandleMessages(t, n)
          PROVE  Goal
      BY <1>a, <1>d, <2>16 DEF HandleMessages, Called, Looping, PcValues
    <2>17. CASE CloseIfd(t)
      BY <1>a, <1>d, <2>17 DEF CloseIfd, Called, Close, Looping, PcValues
    <2>18. CASE ReplyShutdown(t)
      BY <1>a, <1>d, <2>18 DEF ReplyShutdown, Called, Close, Looping, PcValues
    <2>19. CASE FreeIfd(t)
      BY <1>a, <1>d, <2>19, FreedTo DEF FreeIfd, FreedIs, PcValues
    <2>20. CASE CloseAgain(t)
      BY <1>a, <1>d, <2>20 DEF CloseAgain, Close, PcValues
    <2>21. CASE EndReceive(t)
      BY <1>a, <1>d, <2>21 DEF EndReceive, ToRound, PcValues
    <2>22. QED
      BY <1>11, <2>1, <2>2, <2>3, <2>4, <2>5, <2>6, <2>7, <2>8, <2>9, <2>10, <2>11, <2>12, <2>13,
         <2>14, <2>15, <2>16, <2>17, <2>18, <2>19, <2>20, <2>21
         DEF Step
  <1>12. QED
    BY <1>1, <1>2, <1>3, <1>4, <1>5, <1>6, <1>7, <1>8, <1>9, <1>10, <1>11
       DEF Next, Environment, MainStep

\* What a thread is at work on stays its own.
LEMMA PlaceStep ==
    ASSUME TypeOK, MainInv, OwnInv, PlaceInv, ListInv, RecordInv, LiveInv, WatchInv, Next
    PROVE  PlaceInv'
  <1> DEFINE Goal == PlaceInv'
             Quiet == {"unborn", "new", "top", "wait", "end", "exit", "crash"}
  <1> SUFFICES Goal
    OBVIOUS
  <1>0. /\ s_user_params' = s_user_params /\ Running
        /\ threads_num' = threads_num /\ Threads' = Threads
    BY SettingStep, SettingKept DEF Next
  <1>a. /\ pc \in [Threads -> PcValues] /\ calls \in [Threads -> Nat] /\ do_update \in [Threads -> BOOLEAN]
        /\ cur \in [Threads -> Fds \cup {NULL}] /\ other \in [Threads -> Fds \cup {NULL}]
        /\ ready \in [Threads -> SUBSET Fds] /\ watched \in [Threads -> SUBSET Fds]
        /\ own \in [Threads -> SUBSET Listeners] /\ mi \in Threads
    BY TypeParts DEF LoopOK, MainOK
  <1>p. \A u \in Threads : PlaceAt(u)
    BY DEF PlaceInv
  <1>b. ASSUME SameLists, cur' = cur, other' = other, ready' = ready, calls' = calls,
               \A u \in Threads : (pc'[u] = pc[u] /\ own'[u] = own[u]) \/ pc'[u] \in Quiet
        PROVE  Goal
    <2>1. SUFFICES ASSUME NEW u \in Threads PROVE PlaceAt(u)'
      BY <1>0 DEF PlaceInv
    <2>2. CASE pc'[u] \in Quiet
      BY <1>b, <1>p, <2>2 DEF PlaceAt
    <2>3. CASE pc'[u] = pc[u] /\ own'[u] = own[u]
      <3>1. Mine(u)' = Mine(u)
        BY <1>b, <2>3 DEF Mine, SameLists
      <3>2. QED BY <1>b, <1>p, <2>3, <3>1 DEF PlaceAt, SameLists
    <2>4. QED BY <1>b, <2>2, <2>3
  <1>c. ASSUME NEW t \in Threads, own' = own,
               \A u \in Threads : u # t => /\ pc'[u] = pc[u] /\ calls'[u] = calls[u] /\ cur'[u] = cur[u]
                                           /\ other'[u] = other[u] /\ ready'[u] = ready[u],
               \A l \in Listeners : l \notin own[t] => Active(l)' = Active(l) /\ Live(l)' = Live(l),
               PlaceAt(t)'
        PROVE  Goal
    <2>1. SUFFICES ASSUME NEW u \in Threads, u # t PROVE PlaceAt(u)'
      BY <1>0, <1>c DEF PlaceInv
    <2>2. \A l \in own[u] : Active(l)' = Active(l) /\ Live(l)' = Live(l)
      BY <1>a, <1>c, <2>1, OneOwner
    <2>3. Mine(u)' = Mine(u)
      BY <1>c, <2>2 DEF Mine
    <2>4. QED BY <1>c, <1>p, <2>1, <2>2, <2>3 DEF PlaceAt
  <1>d. ASSUME NEW t \in Threads, SameLists, own' = own PROVE Mine(t)' = Mine(t)
    BY <1>d DEF Mine, SameLists
  <1>e. \A t \in Threads : Mine(t) \subseteq ConnFds /\ own[t] \subseteq Listeners
    BY <1>a, ActiveFds, TypeParts DEF Mine, Live
  <1>f. Listeners \cap ConnFds = {} /\ Listeners \subseteq Fds /\ max_looping_over_recv = 1
    BY FdFacts, SettingFacts DEF TypeOK
  <1>1. ASSUME NEW l \in Listeners, Connect(l)
        PROVE  Goal
    <2>1. SameLists
      BY <1>0, <1>a, <1>1, SameLive DEF Connect, Signalled, tables, main, loop
    <2>2. QED BY <1>a, <1>b, <2>1, <1>1 DEF Connect, Signalled, tables, main, loop
  <1>2. ASSUME NEW f \in ConnFds, ClientSend(f)
        PROVE  Goal
    <2>1. SameLists
      BY <1>0, <1>a, <1>2, SameLive DEF ClientSend, Signalled, tables, main, loop
    <2>2. QED BY <1>a, <1>b, <2>1, <1>2 DEF ClientSend, Signalled, tables, main, loop
  <1>3. ASSUME NEW f \in ConnFds, ClientClose(f)
        PROVE  Goal
    <2>1. SameLists
      BY <1>0, <1>a, <1>3, SameLive DEF ClientClose, Signalled, tables, main, loop
    <2>2. QED BY <1>a, <1>b, <2>1, <1>3 DEF ClientClose, Signalled, tables, main, loop
  <1>4. ASSUME NEW t \in {0} \cup Threads, Interrupt(t)
        PROVE  Goal
    <2>1. SameLists
      BY <1>0, <1>a, <1>4, SameLive DEF Interrupt, Signalled, tables, main, loop
    <2>2. QED BY <1>a, <1>b, <2>1, <1>4 DEF Interrupt, Signalled, tables, main, loop
  <1>5. CASE CreateThread
    <2>0. pc[mi] = "unborn"
      BY <1>a, <1>5, TypeParts, SettingFacts DEF CreateThread, MainInv, Threads, TablesOK
    <2>1. SameLists
      BY <1>0, <1>a, <2>0, <1>5, SameLive DEF CreateThread, Signalled, NextThread, tables, loop
    <2>2. QED BY <1>a, <1>b, <2>1, <1>5 DEF CreateThread, Signalled, NextThread, tables, loop
  <1>6. CASE CreateFails
    <2>1. SameLists
      BY <1>0, <1>a, <1>6, SameLive DEF CreateFails, Signalled, NextThread, tables, loop
    <2>2. QED BY <1>a, <1>b, <2>1, <1>6 DEF CreateFails, Signalled, NextThread, tables, loop
  <1>7. CASE StoreTid
    <2>1. SameLists
      BY <1>0, <1>a, <1>7, SameLive DEF StoreTid, Signalled, NextThread, tables, loop
    <2>2. QED BY <1>a, <1>b, <2>1, <1>7 DEF StoreTid, Signalled, NextThread, tables, loop
  <1>8. CASE WakeUp
    <2>1. SameLists
      BY <1>0, <1>a, <1>8, SameLive DEF WakeUp, Signalled, NextThread, tables, loop
    <2>2. QED BY <1>a, <1>b, <2>1, <1>8 DEF WakeUp, Signalled, NextThread, tables, loop
  <1>9. CASE StopThread
    <2>1. SameLists
      BY <1>0, <1>a, <1>9, SameLive DEF StopThread, Signalled, NextThread, tables, loop
    <2>2. QED BY <1>a, <1>b, <2>1, <1>9 DEF StopThread, Signalled, NextThread, tables, loop
  <1>10. CASE JoinThread
    <2>1. SameLists
      BY <1>0, <1>a, <1>10, SameLive DEF JoinThread, Signalled, NextThread, tables, loop
    <2>2. QED BY <1>a, <1>b, <2>1, <1>10 DEF JoinThread, Signalled, NextThread, tables, loop
  <1>11. ASSUME NEW t \in Threads, Step(t)
        PROVE  Goal
    <2>1. CASE InitBeforeLoop(t)
      <3>1. SameLists
        BY <1>0, <1>a, <2>1, SameLive DEF InitBeforeLoop, tables, main, loop
      <3>2. QED BY <1>a, <1>b, <3>1, <2>1 DEF InitBeforeLoop, tables, main, loop
    <2>2. CASE InitFails(t)
      <3>1. SameLists
        BY <1>0, <1>a, <2>2, SameLive DEF InitFails, tables, main, loop
      <3>2. QED BY <1>a, <1>b, <3>1, <2>2 DEF InitFails, tables, main, loop
    <2>3. CASE EnterWait(t)
      <3>1. SameLists
        BY <1>0, <1>a, <2>3, SameLive DEF EnterWait, tables, main, loop
      <3>2. QED BY <1>a, <1>b, <3>1, <2>3 DEF EnterWait, tables, main, loop
    <2>4. CASE Timeout(t)
      <3>1. SameLists
        BY <1>0, <1>a, <2>4, SameLive DEF Timeout, tables, main, loop
      <3>2. QED BY <1>a, <1>b, <3>1, <2>4 DEF Timeout, tables, main, loop
    <2>5. CASE Leave(t)
      <3>1. SameLists
        BY <1>0, <1>a, <2>5, SameLive DEF Leave, tables, main, loop
      <3>2. QED BY <1>a, <1>b, <3>1, <2>5 DEF Leave, tables, main, loop
    <2>6. CASE MarkExit(t)
      <3>1. SameLists
        BY <1>0, <1>a, <2>6, SameLive DEF MarkExit, tables, main, loop
      <3>2. QED BY <1>a, <1>b, <3>1, <2>6 DEF MarkExit, tables, main, loop
    <2>7. CASE WaitArrival(t)
      <3>1. SameLists
        BY <1>0, <1>a, <2>7, SameLive DEF WaitArrival, tables, main, loop
      <3>2. own' = own
        BY <2>7 DEF WaitArrival, tables, main, loop
      <3>3. Mine(t)' = Mine(t)
        BY <3>1, <3>2, <1>d
      <3>w. watched[t] \subseteq own[t] \cup Mine(t)
        <4>1. pc[t] = "wait" /\ watched[t] = own[t] \cup UNION {Active(l) : l \in own[t]}
          BY <2>7 DEF WaitArrival, WatchInv, WatchAt
        <4>2. ASSUME NEW l \in own[t] PROVE Live(l) = Active(l)
          <5>1. Closing(l) = {}
            BY <4>1, ClosingIs DEF Closes
          <5>2. QED BY <5>1 DEF Live
        <4>3. QED BY <4>1, <4>2 DEF Mine
      <3>4. PlaceAt(t)'
        BY <1>a, <1>p, <1>e, <1>f, <3>1, <3>2, <3>3, <3>w, <2>7
           DEF WaitArrival, tables, main, loop, PlaceAt, SameLists
      <3>5. QED BY <1>a, <1>c, <3>1, <3>2, <3>4, <2>7 DEF WaitArrival, tables, main, loop, SameLists
    <2>8. ASSUME NEW f \in Fds, NextReady(t, f)
          PROVE  Goal
      <3>1. SameLists
        BY <1>0, <1>a, <2>8, SameLive DEF NextReady, tables, main, loop
      <3>2. own' = own
        BY <2>8 DEF NextReady, tables, main, loop
      <3>3. Mine(t)' = Mine(t)
        BY <3>1, <3>2, <1>d
      <3>4. PlaceAt(t)'
        BY <1>a, <1>p, <1>e, <1>f, <3>1, <3>2, <3>3, <2>8
           DEF NextReady, tables, main, loop, PlaceAt, SameLists
      <3>5. QED BY <1>a, <1>c, <3>1, <3>2, <3>4, <2>8 DEF NextReady, tables, main, loop, SameLists
    <2>9. CASE Update(t)
      <3>1. SameLists
        BY <1>0, <1>a, <2>9, SameLive DEF Update, tables, main, loop
      <3>2. QED BY <1>a, <1>b, <3>1, <2>9 DEF Update, tables, main, loop
    <2>10. CASE Accept(t)
      <3>1. SameLists
        BY <1>0, <1>a, <2>10, SameLive DEF Accept, tables, main, loop
      <3>2. own' = own
        BY <2>10 DEF Accept, tables, main, loop
      <3>3. Mine(t)' = Mine(t)
        BY <3>1, <3>2, <1>d
      <3>4. PlaceAt(t)'
        BY <1>a, <1>p, <1>e, <1>f, <3>1, <3>2, <3>3, <2>10
           DEF Accept, tables, main, loop, PlaceAt, SameLists
      <3>5. QED BY <1>a, <1>c, <3>1, <3>2, <3>4, <2>10 DEF Accept, tables, main, loop, SameLists
    <2>11. CASE AcceptFails(t)
      <3>1. SameLists
        BY <1>0, <1>a, <2>11, SameLive DEF AcceptFails, ToRound, tables, main, loop
      <3>2. own' = own
        BY <2>11 DEF AcceptFails, ToRound, tables, main, loop
      <3>3. Mine(t)' = Mine(t)
        BY <3>1, <3>2, <1>d
      <3>4. PlaceAt(t)'
        BY <1>a, <1>p, <1>e, <1>f, <3>1, <3>2, <3>3, <2>11
           DEF AcceptFails, ToRound, tables, main, loop, PlaceAt, SameLists
      <3>5. QED BY <1>a, <1>c, <3>1, <3>2, <3>4, <2>11
                   DEF AcceptFails, ToRound, tables, main, loop, SameLists
    <2>12. CASE Install(t)
      <3>1. PICK l \in Listeners : l = cur[t]
        BY <1>0, <1>a, <2>12 DEF Install, PlaceInv, PlaceAt
      <3>2. PICK f \in ConnFds : f = other[t]
        BY <1>0, <2>12 DEF Install, LiveInv, Fresh, TypeOK
      <3>3. /\ pc[t] = "install" /\ WithinLimits(t) /\ Enter(t) /\ pc' = [pc EXCEPT ![t] = "round"]
            /\ pc'[t] \notin {"closing", "replying"}
            /\ \A u \in Threads : u # t => pc'[u] = pc[u] /\ cur'[u] = cur[u] /\ other'[u] = other[u]
        BY <1>a, <2>12 DEF Install, ToRound, loop
      <3>4. /\ l \in own[t] /\ f \in open /\ \A k \in Listeners : f \notin Live(k)
            /\ f \notin Active(l) /\ Active(l)' = Active(l) \cup {f}
            /\ \A k \in Listeners : k # l => Active(k)' = Active(k)
            /\ Live(l)' = Live(l) \cup {f}
            /\ \A k \in Listeners : k # l => Live(k)' = Live(k)
        BY <1>0, <3>1, <3>2, <3>3, EnterEffect
      <3>5. own' = own /\ ready' = ready /\ calls' = [calls EXCEPT ![t] = 0]
        BY <2>12 DEF Install, ToRound, main
      <3>6. Mine(t) \subseteq Mine(t)'
        BY <1>a, <3>1, <3>4, <3>5 DEF Mine
      <3>7. PlaceAt(t)'
        BY <1>a, <1>p, <3>3, <3>5, <3>6 DEF PlaceAt
      <3>8. QED BY <1>a, <1>c, <3>3, <3>4, <3>5, <3>7
    <2>13. CASE Refuse(t)
      <3>1. SameLists
        BY <1>0, <1>a, <2>13, SameLive DEF Refuse, ToRound, tables, main, loop
      <3>2. own' = own
        BY <2>13 DEF Refuse, ToRound, tables, main, loop
      <3>3. Mine(t)' = Mine(t)
        BY <3>1, <3>2, <1>d
      <3>4. PlaceAt(t)'
        BY <1>a, <1>p, <1>e, <1>f, <3>1, <3>2, <3>3, <2>13
           DEF Refuse, ToRound, tables, main, loop, PlaceAt, SameLists
      <3>5. QED BY <1>a, <1>c, <3>1, <3>2, <3>4, <2>13
                   DEF Refuse, ToRound, tables, main, loop, SameLists
    <2>14. CASE RefuseTls(t)
      <3>1. PICK l \in Listeners : l = cur[t]
        BY <1>0, <1>a, <2>14 DEF RefuseTls, PlaceInv, PlaceAt
      <3>2. PICK f \in ConnFds : f = other[t]
        BY <1>0, <2>14 DEF RefuseTls, LiveInv, Fresh, TypeOK
      <3>3. /\ pc[t] = "install" /\ WithinLimits(t) /\ Enter(t) /\ pc' = [pc EXCEPT ![t] = "crash"]
            /\ pc'[t] \notin {"closing", "replying"}
            /\ \A u \in Threads : u # t => pc'[u] = pc[u] /\ cur'[u] = cur[u] /\ other'[u] = other[u]
        BY <1>a, <2>14 DEF RefuseTls, ToRound, loop
      <3>4. /\ l \in own[t] /\ f \in open /\ \A k \in Listeners : f \notin Live(k)
            /\ f \notin Active(l) /\ Active(l)' = Active(l) \cup {f}
            /\ \A k \in Listeners : k # l => Active(k)' = Active(k)
            /\ Live(l)' = Live(l) \cup {f}
            /\ \A k \in Listeners : k # l => Live(k)' = Live(k)
        BY <1>0, <3>1, <3>2, <3>3, EnterEffect
      <3>5. own' = own /\ ready' = ready /\ calls' = calls
        BY <2>14 DEF RefuseTls, loop, main
      <3>7. PlaceAt(t)'
        BY <1>a, <1>p, <3>3, <3>5 DEF PlaceAt
      <3>8. QED BY <1>a, <1>c, <3>3, <3>4, <3>5, <3>7
    <2>15. CASE NoRecord(t)
      <3>1. SameLists
        BY <1>0, <1>a, <2>15, SameLive DEF NoRecord, Called, Looping, tables, main, loop
      <3>2. own' = own
        BY <2>15 DEF NoRecord, Called, Looping, tables, main, loop
      <3>3. Mine(t)' = Mine(t)
        BY <3>1, <3>2, <1>d
      <3>4. PlaceAt(t)'
        BY <1>a, <1>p, <1>e, <1>f, <3>1, <3>2, <3>3, <2>15
           DEF NoRecord, Called, Looping, tables, main, loop, PlaceAt, SameLists
      <3>5. QED BY <1>a, <1>c, <3>1, <3>2, <3>4, <2>15
                   DEF NoRecord, Called, Looping, tables, main, loop, SameLists
    <2>16. ASSUME NEW n \in 1 .. MaxSends, HandleMessages(t, n)
          PROVE  Goal
      <3>1. SameLists
        BY <1>0, <1>a, <2>16, SameLive DEF HandleMessages, Called, Looping, tables, main, loop
      <3>2. own' = own
        BY <2>16 DEF HandleMessages, Called, Looping, tables, main, loop
      <3>3. Mine(t)' = Mine(t)
        BY <3>1, <3>2, <1>d
      <3>4. PlaceAt(t)'
        BY <1>a, <1>p, <1>e, <1>f, <3>1, <3>2, <3>3, <2>16
           DEF HandleMessages, Called, Looping, tables, main, loop, PlaceAt, SameLists
      <3>5. QED BY <1>a, <1>c, <3>1, <3>2, <3>4, <2>16
                   DEF HandleMessages, Called, Looping, tables, main, loop, SameLists
    <2>17. CASE CloseIfd(t)
      <3>0. Looping(t) /\ g_fds_array[cur[t]] # NULL
        BY <2>17 DEF CloseIfd
      <3>1. PICK l \in Listeners : l = g_fds_array[cur[t]] /\ l \in own[t] /\ cur[t] \in Live(l) /\ cur[t] \in Active(l)
        BY <1>0, <3>0, CloseEffect
      <3>2. calls[t] = 0 /\ cur[t] \in ConnFds /\ pc[t] = "receive"
        BY <1>0, <3>0, CloseEffect DEF Looping
      <3>3. /\ pc' = [pc EXCEPT ![t] = "closing"] /\ cur' = cur /\ other' = [other EXCEPT ![t] = l]
            /\ active_fd_list' = active_fd_list /\ own' = own /\ ready' = ready
            /\ calls' = [calls EXCEPT ![t] = calls[t] + 1]
        BY <3>1, <2>17 DEF CloseIfd, Called, tables, main
      <3>4. /\ \A k : Active(k)' = Active(k)
            /\ Live(l)' = Live(l) \ {cur[t]}
            /\ \A k : k # l => Live(k)' = Live(k)
        BY <1>0, <3>0, <3>1, <3>3, ClosedLive
      <3>5. Mine(t) \ {cur[t]} \subseteq Mine(t)'
        <4>1. SUFFICES ASSUME NEW f \in Mine(t), f # cur[t] PROVE f \in Mine(t)'
          OBVIOUS
        <4>2. PICK k \in own[t] : f \in Live(k)
          BY DEF Mine
        <4>3. f \in Live(k)'
          BY <3>4, <4>1, <4>2
        <4>4. QED BY <3>3, <4>3 DEF Mine
      <3>6. ready'[t] \subseteq own'[t] \cup Mine(t)'
        BY <1>p, <3>2, <3>3, <3>5 DEF PlaceAt
      <3>7. cur[t] \notin ready[t]
        BY <1>p, <3>2 DEF PlaceAt
      <3>8. PlaceAt(t)'
        BY <1>a, <3>1, <3>2, <3>3, <3>4, <3>6, <3>7 DEF PlaceAt
      <3>9. QED BY <1>a, <1>c, <3>1, <3>3, <3>4, <3>8
    <2>18. CASE ReplyShutdown(t)
      <3>0. Looping(t) /\ g_fds_array[cur[t]] # NULL
        BY <2>18 DEF ReplyShutdown
      <3>1. PICK l \in Listeners : l = g_fds_array[cur[t]] /\ l \in own[t] /\ cur[t] \in Live(l) /\ cur[t] \in Active(l)
        BY <1>0, <3>0, CloseEffect
      <3>2. calls[t] = 0 /\ cur[t] \in ConnFds /\ pc[t] = "receive"
        BY <1>0, <3>0, CloseEffect DEF Looping
      <3>3. /\ pc' = [pc EXCEPT ![t] = "replying"] /\ cur' = cur /\ other' = [other EXCEPT ![t] = l]
            /\ active_fd_list' = active_fd_list /\ own' = own /\ ready' = ready
            /\ calls' = [calls EXCEPT ![t] = calls[t] + 1]
        BY <3>1, <2>18 DEF ReplyShutdown, Called, tables, main
      <3>4. /\ \A k : Active(k)' = Active(k)
            /\ Live(l)' = Live(l) \ {cur[t]}
            /\ \A k : k # l => Live(k)' = Live(k)
        BY <1>0, <3>0, <3>1, <3>3, ClosedLive
      <3>5. Mine(t) \ {cur[t]} \subseteq Mine(t)'
        <4>1. SUFFICES ASSUME NEW f \in Mine(t), f # cur[t] PROVE f \in Mine(t)'
          OBVIOUS
        <4>2. PICK k \in own[t] : f \in Live(k)
          BY DEF Mine
        <4>3. f \in Live(k)'
          BY <3>4, <4>1, <4>2
        <4>4. QED BY <3>3, <4>3 DEF Mine
      <3>6. ready'[t] \subseteq own'[t] \cup Mine(t)'
        BY <1>p, <3>2, <3>3, <3>5 DEF PlaceAt
      <3>7. cur[t] \notin ready[t]
        BY <1>p, <3>2 DEF PlaceAt
      <3>8. PlaceAt(t)'
        BY <1>a, <3>1, <3>2, <3>3, <3>4, <3>6, <3>7 DEF PlaceAt
      <3>9. QED BY <1>a, <1>c, <3>1, <3>3, <3>4, <3>8
    <2>19. CASE FreeIfd(t)
      <3>1. PICK l \in Listeners : l = other[t]
        BY <1>0, <2>19, FreeEffect
      <3>2. PICK f \in ConnFds : f = cur[t]
        BY <1>0, <2>19, FreeEffect
      <3>3. /\ l \in own[t] /\ f \in Active(l) /\ Active(l)' = Active(l) \ {f}
            /\ \A k \in Listeners : k # l => Active(k)' = Active(k)
            /\ \A k \in Listeners : Live(k)' = Live(k)
        BY <1>0, <3>1, <3>2, <2>19, FreeEffect
      <3>4. /\ pc[t] \in {"closing", "replying"} /\ pc' = [pc EXCEPT ![t] = Freed(t)]
            /\ FreedIs(t)
            /\ cur' = cur /\ other' = other /\ calls' = calls /\ ready' = ready /\ own' = own
            /\ do_update' = do_update /\ watched' = watched /\ open' = open
            /\ g_fds_array' = [g_fds_array EXCEPT ![f] = NULL]
        BY <3>2, <2>19, FreedTo DEF FreeIfd, main, loop, kernel
      <3>5. Mine(t)' = Mine(t)
        BY <1>a, <3>3, <3>4 DEF Mine
      <3>6. PlaceAt(t)'
        BY <1>a, <1>p, <3>1, <3>2, <3>3, <3>4, <3>5 DEF PlaceAt, FreedIs
      <3>7. QED BY <1>a, <1>c, <3>3, <3>4, <3>6
    <2>20. CASE CloseAgain(t)
      <3>a. /\ pc[t] = "again" /\ pc' = [pc EXCEPT ![t] = "receive"]
            /\ calls[t] = 1 /\ cur[t] \in ConnFds /\ cur[t] \notin ready[t]
        BY <1>p, <2>20 DEF CloseAgain, PlaceAt
      <3>b. /\ calls' = calls /\ cur' = cur /\ ready' = ready /\ other' = other /\ own' = own
            /\ active_fd_list' = active_fd_list
        BY <2>20 DEF CloseAgain, tables, main
      <3>1. SameLists
        BY <1>0, <1>a, <3>a, <3>b, SameLive
      <3>2. own' = own
        BY <2>20 DEF CloseAgain, tables, main, loop
      <3>3. Mine(t)' = Mine(t)
        BY <3>1, <3>2, <1>d
      <3>4. PlaceAt(t)'
        BY <1>a, <1>p, <1>e, <1>f, <3>1, <3>2, <3>3, <3>a, <3>b DEF PlaceAt, SameLists
      <3>5. QED BY <1>a, <1>c, <3>1, <3>2, <3>4, <3>a, <3>b DEF SameLists
    <2>21. CASE EndReceive(t)
      <3>1. SameLists
        BY <1>0, <1>a, <2>21, SameLive DEF EndReceive, ToRound, tables, main, loop
      <3>2. own' = own
        BY <2>21 DEF EndReceive, ToRound, tables, main, loop
      <3>3. Mine(t)' = Mine(t)
        BY <3>1, <3>2, <1>d
      <3>4. PlaceAt(t)'
        BY <1>a, <1>p, <1>e, <1>f, <3>1, <3>2, <3>3, <2>21
           DEF EndReceive, ToRound, tables, main, loop, PlaceAt, SameLists
      <3>5. QED BY <1>a, <1>c, <3>1, <3>2, <3>4, <2>21
                   DEF EndReceive, ToRound, tables, main, loop, SameLists
    <2>22. QED
      BY <1>11, <2>1, <2>2, <2>3, <2>4, <2>5, <2>6, <2>7, <2>8, <2>9, <2>10, <2>11, <2>12, <2>13,
         <2>14, <2>15, <2>16, <2>17, <2>18, <2>19, <2>20, <2>21
         DEF Step
  <1>12. QED
    BY <1>1, <1>2, <1>3, <1>4, <1>5, <1>6, <1>7, <1>8, <1>9, <1>10, <1>11
       DEF Next, Environment, MainStep

\* A step either leaves the tables and what is being closed alone, or is one of five.
SameClosing ==
    \A u \in Threads :
      /\ pc'[u] \in {"closing", "replying"} <=> pc[u] \in {"closing", "replying"}
      /\ pc[u] \in {"closing", "replying"} => cur'[u] = cur[u] /\ other'[u] = other[u]
SameInstall ==
    /\ open' = open
    /\ \A u \in Threads : /\ pc'[u] = "install" <=> pc[u] = "install"
                          /\ pc[u] = "install" => other'[u] = other[u]
OwnAndNew ==
    /\ \A u \in Threads : pc'[u] \in {"unborn", "new"} => pc[u] \in {"unborn", "new"}
    /\ s_user_params' = s_user_params

\* Which steps touch the tables, and that no thread is unborn or new again.
LEMMA Kinds ==
    ASSUME TypeOK, MainInv, PlaceInv, Next
    PROVE  /\ OwnAndNew
           /\ \/ /\ tables' = tables /\ SameClosing
                 /\ SameInstall \/ \E t \in Threads : Accept(t) \/ Refuse(t)
              \/ \E t \in Threads : \/ CloseIfd(t) \/ ReplyShutdown(t) \/ FreeIfd(t)
                                    \/ Install(t) \/ RefuseTls(t)
  <1> DEFINE Still == OwnAndNew /\ tables' = tables /\ SameClosing /\ SameInstall
             Goal == /\ OwnAndNew
                     /\ \/ /\ tables' = tables /\ SameClosing
                           /\ SameInstall \/ \E t \in Threads : Accept(t) \/ Refuse(t)
                        \/ \E t \in Threads : \/ CloseIfd(t) \/ ReplyShutdown(t) \/ FreeIfd(t)
                                              \/ Install(t) \/ RefuseTls(t)
  <1> SUFFICES Goal
    OBVIOUS
  <1>0. /\ s_user_params' = s_user_params /\ Running
        /\ threads_num' = threads_num /\ Threads' = Threads
    BY SettingStep, SettingKept DEF Next
  <1>a. /\ pc \in [Threads -> PcValues] /\ calls \in [Threads -> Nat] /\ do_update \in [Threads -> BOOLEAN]
        /\ cur \in [Threads -> Fds \cup {NULL}] /\ other \in [Threads -> Fds \cup {NULL}]
        /\ ready \in [Threads -> SUBSET Fds] /\ watched \in [Threads -> SUBSET Fds]
        /\ own \in [Threads -> SUBSET Listeners] /\ mi \in Threads
    BY TypeParts DEF LoopOK, MainOK
  <1>b. Still => Goal
    OBVIOUS
  <1>1. ASSUME NEW l \in Listeners, Connect(l)
        PROVE  Goal
    <2>1. Still
      BY <1>0, <1>a, <1>1
         DEF Connect, Signalled, tables, main, loop, kernel, PcValues, OwnAndNew, SameClosing,
             SameInstall
    <2>2. QED BY <1>b, <2>1
  <1>2. ASSUME NEW f \in ConnFds, ClientSend(f)
        PROVE  Goal
    <2>1. Still
      BY <1>0, <1>a, <1>2
         DEF ClientSend, Signalled, tables, main, loop, kernel, PcValues, OwnAndNew, SameClosing,
             SameInstall
    <2>2. QED BY <1>b, <2>1
  <1>3. ASSUME NEW f \in ConnFds, ClientClose(f)
        PROVE  Goal
    <2>1. Still
      BY <1>0, <1>a, <1>3
         DEF ClientClose, Signalled, tables, main, loop, kernel, PcValues, OwnAndNew, SameClosing,
             SameInstall
    <2>2. QED BY <1>b, <2>1
  <1>4. ASSUME NEW t \in {0} \cup Threads, Interrupt(t)
        PROVE  Goal
    <2>1. Still
      BY <1>0, <1>a, <1>4
         DEF Interrupt, Signalled, tables, main, loop, kernel, PcValues, OwnAndNew, SameClosing,
             SameInstall
    <2>2. QED BY <1>b, <2>1
  <1>5. CASE CreateThread
    <2>0. pc[mi] = "unborn"
      BY <1>a, <1>5, TypeParts, SettingFacts DEF CreateThread, MainInv, Threads, TablesOK
    <2>1. Still
      BY <1>0, <1>a, <2>0, <1>5
         DEF CreateThread, tables, main, loop, kernel, PcValues, OwnAndNew, SameClosing, SameInstall
    <2>2. QED BY <1>b, <2>1
  <1>6. CASE CreateFails
    <2>1. Still
      BY <1>0, <1>a, <1>6
         DEF CreateFails, Signalled, NextThread, tables, main, loop, kernel, PcValues, OwnAndNew,
             SameClosing, SameInstall
    <2>2. QED BY <1>b, <2>1
  <1>7. CASE StoreTid
    <2>1. Still
      BY <1>0, <1>a, <1>7
         DEF StoreTid, Signalled, NextThread, tables, main, loop, kernel, PcValues, OwnAndNew,
             SameClosing, SameInstall
    <2>2. QED BY <1>b, <2>1
  <1>8. CASE WakeUp
    <2>1. Still
      BY <1>0, <1>a, <1>8
         DEF WakeUp, Signalled, NextThread, tables, main, loop, kernel, PcValues, OwnAndNew,
             SameClosing, SameInstall
    <2>2. QED BY <1>b, <2>1
  <1>9. CASE StopThread
    <2>1. Still
      BY <1>0, <1>a, <1>9
         DEF StopThread, Signalled, NextThread, tables, main, loop, kernel, PcValues, OwnAndNew,
             SameClosing, SameInstall
    <2>2. QED BY <1>b, <2>1
  <1>10. CASE JoinThread
    <2>1. Still
      BY <1>0, <1>a, <1>10
         DEF JoinThread, Signalled, NextThread, tables, main, loop, kernel, PcValues, OwnAndNew,
             SameClosing, SameInstall
    <2>2. QED BY <1>b, <2>1
  <1>11. ASSUME NEW t \in Threads, Step(t)
        PROVE  Goal
    <2>1. CASE InitBeforeLoop(t)
      <3>1. Still
        BY <1>0, <1>a, <2>1
           DEF InitBeforeLoop, tables, main, loop, kernel, PcValues, OwnAndNew, SameClosing,
               SameInstall
      <3>2. QED BY <1>b, <3>1
    <2>2. CASE InitFails(t)
      <3>1. Still
        BY <1>0, <1>a, <2>2
           DEF InitFails, tables, main, loop, kernel, PcValues, OwnAndNew, SameClosing, SameInstall
      <3>2. QED BY <1>b, <3>1
    <2>3. CASE EnterWait(t)
      <3>1. Still
        BY <1>0, <1>a, <2>3
           DEF EnterWait, tables, main, loop, kernel, PcValues, OwnAndNew, SameClosing, SameInstall
      <3>2. QED BY <1>b, <3>1
    <2>4. CASE Timeout(t)
      <3>1. Still
        BY <1>0, <1>a, <2>4
           DEF Timeout, tables, main, loop, kernel, PcValues, OwnAndNew, SameClosing, SameInstall
      <3>2. QED BY <1>b, <3>1
    <2>5. CASE Leave(t)
      <3>1. Still
        BY <1>0, <1>a, <2>5
           DEF Leave, tables, main, loop, kernel, PcValues, OwnAndNew, SameClosing, SameInstall
      <3>2. QED BY <1>b, <3>1
    <2>6. CASE MarkExit(t)
      <3>1. Still
        BY <1>0, <1>a, <2>6
           DEF MarkExit, tables, main, loop, kernel, PcValues, OwnAndNew, SameClosing, SameInstall
      <3>2. QED BY <1>b, <3>1
    <2>7. CASE WaitArrival(t)
      <3>1. Still
        BY <1>0, <1>a, <2>7
           DEF WaitArrival, tables, main, loop, kernel, PcValues, OwnAndNew, SameClosing,
               SameInstall
      <3>2. QED BY <1>b, <3>1
    <2>8. ASSUME NEW f \in Fds, NextReady(t, f)
          PROVE  Goal
      <3>1. Still
        BY <1>0, <1>a, <2>8
           DEF NextReady, tables, main, loop, kernel, PcValues, OwnAndNew, SameClosing, SameInstall
      <3>2. QED BY <1>b, <3>1
    <2>9. CASE Update(t)
      <3>1. Still
        BY <1>0, <1>a, <2>9
           DEF Update, tables, main, loop, kernel, PcValues, OwnAndNew, SameClosing, SameInstall
      <3>2. QED BY <1>b, <3>1
    <2>10. CASE Accept(t)
      <3>1. OwnAndNew /\ tables' = tables /\ SameClosing
        BY <1>0, <1>a, <2>10 DEF Accept, ToRound, tables, OwnAndNew, SameClosing
      <3>2. QED BY <3>1, <2>10
    <2>11. CASE AcceptFails(t)
      <3>1. Still
        BY <1>0, <1>a, <2>11
           DEF AcceptFails, ToRound, tables, main, loop, kernel, PcValues, OwnAndNew, SameClosing,
               SameInstall
      <3>2. QED BY <1>b, <3>1
    <2>12. CASE Install(t)
      <3>1. OwnAndNew
        BY <1>0, <1>a, <2>12 DEF Install, ToRound, Looping, OwnAndNew
      <3>2. QED BY <3>1, <2>12
    <2>13. CASE Refuse(t)
      <3>1. OwnAndNew /\ tables' = tables /\ SameClosing
        BY <1>0, <1>a, <2>13 DEF Refuse, ToRound, tables, OwnAndNew, SameClosing
      <3>2. QED BY <3>1, <2>13
    <2>14. CASE RefuseTls(t)
      <3>1. OwnAndNew
        BY <1>0, <1>a, <2>14 DEF RefuseTls, ToRound, Looping, OwnAndNew
      <3>2. QED BY <3>1, <2>14
    <2>15. CASE NoRecord(t)
      <3>1. Still
        BY <1>0, <1>a, <2>15
           DEF NoRecord, Called, Looping, tables, main, loop, kernel, PcValues, OwnAndNew,
               SameClosing, SameInstall
      <3>2. QED BY <1>b, <3>1
    <2>16. ASSUME NEW n \in 1 .. MaxSends, HandleMessages(t, n)
          PROVE  Goal
      <3>1. Still
        BY <1>0, <1>a, <2>16
           DEF HandleMessages, Called, Looping, tables, main, loop, kernel, PcValues, OwnAndNew,
               SameClosing, SameInstall
      <3>2. QED BY <1>b, <3>1
    <2>17. CASE CloseIfd(t)
      <3>1. OwnAndNew
        BY <1>0, <1>a, <2>17 DEF CloseIfd, ToRound, Looping, OwnAndNew
      <3>2. QED BY <3>1, <2>17
    <2>18. CASE ReplyShutdown(t)
      <3>1. OwnAndNew
        BY <1>0, <1>a, <2>18 DEF ReplyShutdown, ToRound, Looping, OwnAndNew
      <3>2. QED BY <3>1, <2>18
    <2>19. CASE FreeIfd(t)
      <3>1. OwnAndNew
        BY <1>0, <1>a, <2>19, FreedTo DEF FreeIfd, FreedIs, OwnAndNew
      <3>2. QED BY <3>1, <2>19
    <2>20. CASE CloseAgain(t)
      <3>a. /\ pc[t] = "again" /\ pc' = [pc EXCEPT ![t] = "receive"] /\ open' = open
            /\ UNCHANGED <<tables, cur, other>>
        BY <2>20 DEF CloseAgain, PlaceInv, PlaceAt
      <3>1. Still
        BY <1>0, <1>a, <3>a DEF tables, OwnAndNew, SameClosing, SameInstall
      <3>2. QED BY <1>b, <3>1
    <2>21. CASE EndReceive(t)
      <3>1. Still
        BY <1>0, <1>a, <2>21
           DEF EndReceive, ToRound, tables, main, loop, kernel, PcValues, OwnAndNew, SameClosing,
               SameInstall
      <3>2. QED BY <1>b, <3>1
    <2>22. QED
      BY <1>11, <2>1, <2>2, <2>3, <2>4, <2>5, <2>6, <2>7, <2>8, <2>9, <2>10, <2>11, <2>12, <2>13,
         <2>14, <2>15, <2>16, <2>17, <2>18, <2>19, <2>20, <2>21
         DEF Step
  <1>12. QED
    BY <1>1, <1>2, <1>3, <1>4, <1>5, <1>6, <1>7, <1>8, <1>9, <1>10, <1>11
       DEF Next, Environment, MainStep

\* No list changes while a connection is closed.
LEMMA ListStep ==
    ASSUME TypeOK, MainInv, OwnInv, PlaceInv, ListInv, RecordInv, LiveInv, Next
    PROVE  ListInv'
  <1> DEFINE Goal == ListInv'
  <1> SUFFICES Goal
    OBVIOUS
  <1>0. /\ s_user_params' = s_user_params /\ Running
        /\ threads_num' = threads_num /\ Threads' = Threads
    BY SettingStep, SettingKept DEF Next
  <1>a. /\ pc \in [Threads -> PcValues] /\ calls \in [Threads -> Nat] /\ do_update \in [Threads -> BOOLEAN]
        /\ cur \in [Threads -> Fds \cup {NULL}] /\ other \in [Threads -> Fds \cup {NULL}]
        /\ ready \in [Threads -> SUBSET Fds] /\ watched \in [Threads -> SUBSET Fds]
        /\ own \in [Threads -> SUBSET Listeners] /\ mi \in Threads
    BY TypeParts DEF LoopOK, MainOK
  <1>t. TablesOK /\ \A l \in Listeners : ListAt(l)
    BY TypeParts DEF ListInv
  <1>b. ASSUME active_fd_list' = active_fd_list, active_fd_count' = active_fd_count PROVE Goal
    BY <1>b DEF ListInv, ListAt
  <1>c. ASSUME NEW l \in Listeners, ListAt(l)',
               \A k \in Listeners : k # l => /\ active_fd_list'[k] = active_fd_list[k]
                                             /\ active_fd_count'[k] = active_fd_count[k]
        PROVE  Goal
    BY <1>c, <1>t DEF ListInv, ListAt
  <1>1. CASE tables' = tables /\ SameClosing
    BY <1>b, <1>1 DEF tables
  <1>2. ASSUME NEW t \in Threads, CloseIfd(t)
        PROVE  Goal
    BY <1>b, <1>2 DEF CloseIfd, tables
  <1>3. ASSUME NEW t \in Threads, ReplyShutdown(t)
        PROVE  Goal
    BY <1>b, <1>3 DEF ReplyShutdown, tables
  <1>4. ASSUME NEW t \in Threads, FreeIfd(t)
        PROVE  Goal
    <2>1. PICK l \in Listeners : l = other[t]
      BY <1>0, <1>4, FreeEffect
    <2>2. PICK f \in ConnFds : f = cur[t]
      BY <1>0, <1>4, FreeEffect
    <2>3. /\ l \in own[t] /\ f \in Active(l) /\ Active(l)' = Active(l) \ {f}
          /\ \A k \in Listeners : k # l => Active(k)' = Active(k)
          /\ \A k \in Listeners : Live(k)' = Live(k)
      BY <1>0, <2>1, <2>2, <1>4, FreeEffect
    <2>4. /\ pc[t] \in {"closing", "replying"} /\ pc' = [pc EXCEPT ![t] = Freed(t)]
          /\ FreedIs(t)
          /\ cur' = cur /\ other' = other /\ calls' = calls /\ ready' = ready /\ own' = own
          /\ do_update' = do_update /\ watched' = watched /\ open' = open
          /\ g_fds_array' = [g_fds_array EXCEPT ![f] = NULL]
      BY <2>2, <1>4, FreedTo DEF FreeIfd, main, loop, kernel
    <2>5. /\ active_fd_count' = [active_fd_count EXCEPT ![l] = active_fd_count[l] - 1]
          /\ active_fd_list' = [active_fd_list EXCEPT ![l] =
               [s \in Slots |-> IF active_fd_list[l][s] = f THEN INVALID_SOCKET ELSE active_fd_list[l][s]]]
      BY <2>1, <2>2, <1>4 DEF FreeIfd
    <2>6. f # INVALID_SOCKET
      BY <2>3 DEF Active
    <2>7. /\ \A s \in Slots : active_fd_list'[l][s] = IF active_fd_list[l][s] = f THEN INVALID_SOCKET
                                                     ELSE active_fd_list[l][s]
          /\ active_fd_count'[l] = active_fd_count[l] - 1
          /\ \A k \in Listeners : k # l => /\ active_fd_list'[k] = active_fd_list[k]
                                           /\ active_fd_count'[k] = active_fd_count[k]
      BY <1>t, <2>5 DEF TablesOK
    <2>8. PICK n \in Slots : active_fd_list[l][n] = f
      BY <2>3 DEF Active
    <2> DEFINE U == {s \in Slots : active_fd_list[l][s] # INVALID_SOCKET}
               V == {s \in Slots : active_fd_list'[l][s] # INVALID_SOCKET}
    <2>9. V = U \ {n} /\ n \in U
      BY <1>t, <2>6, <2>7, <2>8 DEF ListAt
    <2>10. IsFiniteSet(U)
      BY UsedSlots
    <2>11. Cardinality(U \ {n}) = Cardinality(U) - 1
      BY <2>9, <2>10, FS_RemoveElement
    <2>12. active_fd_count[l] = Cardinality(U)
      BY <1>t DEF ListAt
    <2>13. active_fd_count'[l] = Cardinality(V)
      BY <2>7, <2>9, <2>11, <2>12
    <2>14. MAX_ACTIVE_FD_NUM - 1 \in Slots
      BY FdFacts
    <2>15. ListAt(l)'
      <3>1. \A s, r \in Slots :
              active_fd_list'[l][s] = active_fd_list'[l][r] /\ active_fd_list'[l][s] # INVALID_SOCKET => s = r
        <4>1. \A s, r \in Slots :
                active_fd_list[l][s] = active_fd_list[l][r] /\ active_fd_list[l][s] # INVALID_SOCKET => s = r
          BY <1>t DEF ListAt
        <4>2. SUFFICES ASSUME NEW s \in Slots, NEW r \in Slots, active_fd_list'[l][s] = active_fd_list'[l][r],
                              active_fd_list'[l][s] # INVALID_SOCKET
                       PROVE  s = r
          OBVIOUS
        <4>3. QED BY <4>1, <4>2, <2>6, <2>7
      <3>2. active_fd_list'[l][MAX_ACTIVE_FD_NUM - 1] = INVALID_SOCKET
        BY <1>t, <2>7, <2>14 DEF ListAt
      <3>3. QED BY <2>13, <3>1, <3>2 DEF ListAt
    <2>16. QED BY <1>c, <2>7, <2>15
  <1>5. ASSUME NEW t \in Threads, Install(t)
        PROVE  Goal
    <2>1. PICK l \in Listeners : l = cur[t]
      BY <1>0, <1>a, <1>5 DEF Install, PlaceInv, PlaceAt
    <2>2. PICK f \in ConnFds : f = other[t]
      BY <1>0, <1>5 DEF Install, LiveInv, Fresh, TypeOK
    <2>3. /\ pc[t] = "install" /\ WithinLimits(t) /\ Enter(t) /\ pc' = [pc EXCEPT ![t] = "round"]
          /\ pc'[t] \notin {"closing", "replying"}
          /\ \A u \in Threads : u # t => pc'[u] = pc[u] /\ cur'[u] = cur[u] /\ other'[u] = other[u]
      BY <1>a, <1>5 DEF Install, ToRound, loop
    <2>4. /\ l \in own[t] /\ f \in open /\ \A k \in Listeners : f \notin Live(k)
          /\ f \notin Active(l) /\ Active(l)' = Active(l) \cup {f}
          /\ \A k \in Listeners : k # l => Active(k)' = Active(k)
          /\ Live(l)' = Live(l) \cup {f}
          /\ \A k \in Listeners : k # l => Live(k)' = Live(k)
      BY <1>0, <2>1, <2>2, <2>3, EnterEffect
    <2> DEFINE n == FreeSlot(l)
    <2>5. n \in Slots /\ active_fd_list[l][n] = INVALID_SOCKET /\ n # MAX_ACTIVE_FD_NUM - 1
      BY <2>1, <2>3, FreeSlotIs DEF WithinLimits
    <2>6. /\ active_fd_list' = [active_fd_list EXCEPT ![l] = [active_fd_list[l] EXCEPT ![n] = f]]
          /\ active_fd_count' = [active_fd_count EXCEPT ![l] = active_fd_count[l] + 1]
      BY <2>1, <2>2, <2>3 DEF Enter
    <2>7. f # INVALID_SOCKET
      BY <2>2, FdFacts DEF NULL, INVALID_SOCKET
    <2> HIDE DEF n
    <2>8. /\ \A s \in Slots : active_fd_list'[l][s] = IF s = n THEN f ELSE active_fd_list[l][s]
          /\ active_fd_count'[l] = active_fd_count[l] + 1
          /\ \A k \in Listeners : k # l => /\ active_fd_list'[k] = active_fd_list[k]
                                           /\ active_fd_count'[k] = active_fd_count[k]
      BY <1>t, <2>5, <2>6 DEF TablesOK
    <2>9. \A s \in Slots : active_fd_list[l][s] # f
      BY <2>4, <2>7 DEF Active
    <2> DEFINE U == {s \in Slots : active_fd_list[l][s] # INVALID_SOCKET}
               V == {s \in Slots : active_fd_list'[l][s] # INVALID_SOCKET}
    <2>10. V = U \cup {n} /\ n \notin U
      BY <2>5, <2>7, <2>8
    <2>11. IsFiniteSet(U)
      BY UsedSlots
    <2>12. Cardinality(U \cup {n}) = Cardinality(U) + 1
      BY <2>10, <2>11, FS_AddElement
    <2>13. active_fd_count[l] = Cardinality(U)
      BY <1>t DEF ListAt
    <2>14. active_fd_count'[l] = Cardinality(V)
      BY <2>8, <2>10, <2>12, <2>13
    <2>15. MAX_ACTIVE_FD_NUM - 1 \in Slots
      BY FdFacts
    <2>16. ListAt(l)'
      <3>1. \A s, r \in Slots :
              active_fd_list'[l][s] = active_fd_list'[l][r] /\ active_fd_list'[l][s] # INVALID_SOCKET => s = r
        <4>1. \A s, r \in Slots :
                active_fd_list[l][s] = active_fd_list[l][r] /\ active_fd_list[l][s] # INVALID_SOCKET => s = r
          BY <1>t DEF ListAt
        <4>2. SUFFICES ASSUME NEW s \in Slots, NEW r \in Slots, active_fd_list'[l][s] = active_fd_list'[l][r],
                              active_fd_list'[l][s] # INVALID_SOCKET
                       PROVE  s = r
          OBVIOUS
        <4>3. QED BY <4>1, <4>2, <2>5, <2>8, <2>9
      <3>2. active_fd_list'[l][MAX_ACTIVE_FD_NUM - 1] = INVALID_SOCKET
        BY <1>t, <2>5, <2>8, <2>15 DEF ListAt
      <3>3. QED BY <2>14, <3>1, <3>2 DEF ListAt
    <2>17. QED BY <1>c, <2>8, <2>16
  <1>6. ASSUME NEW t \in Threads, RefuseTls(t)
        PROVE  Goal
    <2>1. PICK l \in Listeners : l = cur[t]
      BY <1>0, <1>a, <1>6 DEF RefuseTls, PlaceInv, PlaceAt
    <2>2. PICK f \in ConnFds : f = other[t]
      BY <1>0, <1>6 DEF RefuseTls, LiveInv, Fresh, TypeOK
    <2>3. /\ pc[t] = "install" /\ WithinLimits(t) /\ Enter(t) /\ pc' = [pc EXCEPT ![t] = "crash"]
          /\ pc'[t] \notin {"closing", "replying"}
          /\ \A u \in Threads : u # t => pc'[u] = pc[u] /\ cur'[u] = cur[u] /\ other'[u] = other[u]
      BY <1>a, <1>6 DEF RefuseTls, ToRound, loop
    <2>4. /\ l \in own[t] /\ f \in open /\ \A k \in Listeners : f \notin Live(k)
          /\ f \notin Active(l) /\ Active(l)' = Active(l) \cup {f}
          /\ \A k \in Listeners : k # l => Active(k)' = Active(k)
          /\ Live(l)' = Live(l) \cup {f}
          /\ \A k \in Listeners : k # l => Live(k)' = Live(k)
      BY <1>0, <2>1, <2>2, <2>3, EnterEffect
    <2> DEFINE n == FreeSlot(l)
    <2>5. n \in Slots /\ active_fd_list[l][n] = INVALID_SOCKET /\ n # MAX_ACTIVE_FD_NUM - 1
      BY <2>1, <2>3, FreeSlotIs DEF WithinLimits
    <2>6. /\ active_fd_list' = [active_fd_list EXCEPT ![l] = [active_fd_list[l] EXCEPT ![n] = f]]
          /\ active_fd_count' = [active_fd_count EXCEPT ![l] = active_fd_count[l] + 1]
      BY <2>1, <2>2, <2>3 DEF Enter
    <2>7. f # INVALID_SOCKET
      BY <2>2, FdFacts DEF NULL, INVALID_SOCKET
    <2> HIDE DEF n
    <2>8. /\ \A s \in Slots : active_fd_list'[l][s] = IF s = n THEN f ELSE active_fd_list[l][s]
          /\ active_fd_count'[l] = active_fd_count[l] + 1
          /\ \A k \in Listeners : k # l => /\ active_fd_list'[k] = active_fd_list[k]
                                           /\ active_fd_count'[k] = active_fd_count[k]
      BY <1>t, <2>5, <2>6 DEF TablesOK
    <2>9. \A s \in Slots : active_fd_list[l][s] # f
      BY <2>4, <2>7 DEF Active
    <2> DEFINE U == {s \in Slots : active_fd_list[l][s] # INVALID_SOCKET}
               V == {s \in Slots : active_fd_list'[l][s] # INVALID_SOCKET}
    <2>10. V = U \cup {n} /\ n \notin U
      BY <2>5, <2>7, <2>8
    <2>11. IsFiniteSet(U)
      BY UsedSlots
    <2>12. Cardinality(U \cup {n}) = Cardinality(U) + 1
      BY <2>10, <2>11, FS_AddElement
    <2>13. active_fd_count[l] = Cardinality(U)
      BY <1>t DEF ListAt
    <2>14. active_fd_count'[l] = Cardinality(V)
      BY <2>8, <2>10, <2>12, <2>13
    <2>15. MAX_ACTIVE_FD_NUM - 1 \in Slots
      BY FdFacts
    <2>16. ListAt(l)'
      <3>1. \A s, r \in Slots :
              active_fd_list'[l][s] = active_fd_list'[l][r] /\ active_fd_list'[l][s] # INVALID_SOCKET => s = r
        <4>1. \A s, r \in Slots :
                active_fd_list[l][s] = active_fd_list[l][r] /\ active_fd_list[l][s] # INVALID_SOCKET => s = r
          BY <1>t DEF ListAt
        <4>2. SUFFICES ASSUME NEW s \in Slots, NEW r \in Slots, active_fd_list'[l][s] = active_fd_list'[l][r],
                              active_fd_list'[l][s] # INVALID_SOCKET
                       PROVE  s = r
          OBVIOUS
        <4>3. QED BY <4>1, <4>2, <2>5, <2>8, <2>9
      <3>2. active_fd_list'[l][MAX_ACTIVE_FD_NUM - 1] = INVALID_SOCKET
        BY <1>t, <2>5, <2>8, <2>15 DEF ListAt
      <3>3. QED BY <2>14, <3>1, <3>2 DEF ListAt
    <2>17. QED BY <1>c, <2>8, <2>16
  <1>7. QED BY Kinds, <1>1, <1>2, <1>3, <1>4, <1>5, <1>6

\* A list grows only by its own thread, which has begun.
LEMMA BegunStep ==
    ASSUME TypeOK, MainInv, OwnInv, PlaceInv, ListInv, BegunInv, RecordInv, LiveInv, Next
    PROVE  BegunInv'
  <1> DEFINE Goal == BegunInv'
  <1> SUFFICES Goal
    OBVIOUS
  <1>0. /\ s_user_params' = s_user_params /\ Running
        /\ threads_num' = threads_num /\ Threads' = Threads
    BY SettingStep, SettingKept DEF Next
  <1>a. /\ pc \in [Threads -> PcValues] /\ calls \in [Threads -> Nat] /\ do_update \in [Threads -> BOOLEAN]
        /\ cur \in [Threads -> Fds \cup {NULL}] /\ other \in [Threads -> Fds \cup {NULL}]
        /\ ready \in [Threads -> SUBSET Fds] /\ watched \in [Threads -> SUBSET Fds]
        /\ own \in [Threads -> SUBSET Listeners] /\ mi \in Threads
    BY TypeParts DEF LoopOK, MainOK
  <1>s. /\ \A u : Share(u)' = Share(u)
        /\ \A u \in Threads : Share(u) \subseteq Listeners
        /\ \A u \in Threads : pc'[u] \in {"unborn", "new"} => pc[u] \in {"unborn", "new"}
    BY <1>0, Kinds, SharesDisjoint DEF Share, Offset, TypeOK, OwnAndNew
  <1>b. ASSUME \A l \in Listeners : Active(l)' \subseteq Active(l) PROVE Goal
    BY <1>0, <1>b, <1>s DEF BegunInv
  <1>1. CASE tables' = tables /\ SameClosing
    <2>1. SameLists
      BY <1>0, <1>1, SameLive DEF SameClosing, tables
    <2>2. QED BY <1>b, <2>1 DEF SameLists
  <1>2. ASSUME NEW t \in Threads, CloseIfd(t)
        PROVE  Goal
    <2>0. Looping(t) /\ g_fds_array[cur[t]] # NULL
      BY <1>2 DEF CloseIfd
    <2>1. PICK l \in Listeners : l = g_fds_array[cur[t]] /\ l \in own[t] /\ cur[t] \in Live(l) /\ cur[t] \in Active(l)
      BY <1>0, <2>0, CloseEffect
    <2>2. calls[t] = 0 /\ cur[t] \in ConnFds /\ pc[t] = "receive"
      BY <1>0, <2>0, CloseEffect DEF Looping
    <2>3. /\ pc' = [pc EXCEPT ![t] = "closing"] /\ cur' = cur /\ other' = [other EXCEPT ![t] = l]
          /\ active_fd_list' = active_fd_list /\ own' = own /\ ready' = ready
          /\ calls' = [calls EXCEPT ![t] = calls[t] + 1]
      BY <2>1, <1>2 DEF CloseIfd, Called, tables, main
    <2>4. /\ \A k : Active(k)' = Active(k)
          /\ Live(l)' = Live(l) \ {cur[t]}
          /\ \A k : k # l => Live(k)' = Live(k)
      BY <1>0, <2>0, <2>1, <2>3, ClosedLive
    <2>5. QED BY <1>b, <2>4
  <1>3. ASSUME NEW t \in Threads, ReplyShutdown(t)
        PROVE  Goal
    <2>0. Looping(t) /\ g_fds_array[cur[t]] # NULL
      BY <1>3 DEF ReplyShutdown
    <2>1. PICK l \in Listeners : l = g_fds_array[cur[t]] /\ l \in own[t] /\ cur[t] \in Live(l) /\ cur[t] \in Active(l)
      BY <1>0, <2>0, CloseEffect
    <2>2. calls[t] = 0 /\ cur[t] \in ConnFds /\ pc[t] = "receive"
      BY <1>0, <2>0, CloseEffect DEF Looping
    <2>3. /\ pc' = [pc EXCEPT ![t] = "replying"] /\ cur' = cur /\ other' = [other EXCEPT ![t] = l]
          /\ active_fd_list' = active_fd_list /\ own' = own /\ ready' = ready
          /\ calls' = [calls EXCEPT ![t] = calls[t] + 1]
      BY <2>1, <1>3 DEF ReplyShutdown, Called, tables, main
    <2>4. /\ \A k : Active(k)' = Active(k)
          /\ Live(l)' = Live(l) \ {cur[t]}
          /\ \A k : k # l => Live(k)' = Live(k)
      BY <1>0, <2>0, <2>1, <2>3, ClosedLive
    <2>5. QED BY <1>b, <2>4
  <1>4. ASSUME NEW t \in Threads, FreeIfd(t)
        PROVE  Goal
    <2>1. PICK l \in Listeners : l = other[t]
      BY <1>0, <1>4, FreeEffect
    <2>2. PICK f \in ConnFds : f = cur[t]
      BY <1>0, <1>4, FreeEffect
    <2>3. /\ l \in own[t] /\ f \in Active(l) /\ Active(l)' = Active(l) \ {f}
          /\ \A k \in Listeners : k # l => Active(k)' = Active(k)
          /\ \A k \in Listeners : Live(k)' = Live(k)
      BY <1>0, <2>1, <2>2, <1>4, FreeEffect
    <2>4. /\ pc[t] \in {"closing", "replying"} /\ pc' = [pc EXCEPT ![t] = Freed(t)]
          /\ FreedIs(t)
          /\ cur' = cur /\ other' = other /\ calls' = calls /\ ready' = ready /\ own' = own
          /\ do_update' = do_update /\ watched' = watched /\ open' = open
          /\ g_fds_array' = [g_fds_array EXCEPT ![f] = NULL]
      BY <2>2, <1>4, FreedTo DEF FreeIfd, main, loop, kernel
    <2>5. QED BY <1>b, <2>3
  <1>5. ASSUME NEW t \in Threads, Install(t)
        PROVE  Goal
    <2>1. PICK l \in Listeners : l = cur[t]
      BY <1>0, <1>a, <1>5 DEF Install, PlaceInv, PlaceAt
    <2>2. PICK f \in ConnFds : f = other[t]
      BY <1>0, <1>5 DEF Install, LiveInv, Fresh, TypeOK
    <2>3. /\ pc[t] = "install" /\ WithinLimits(t) /\ Enter(t) /\ pc' = [pc EXCEPT ![t] = "round"]
          /\ pc'[t] \notin {"closing", "replying"}
          /\ \A u \in Threads : u # t => pc'[u] = pc[u] /\ cur'[u] = cur[u] /\ other'[u] = other[u]
      BY <1>a, <1>5 DEF Install, ToRound, loop
    <2>4. /\ l \in own[t] /\ f \in open /\ \A k \in Listeners : f \notin Live(k)
          /\ f \notin Active(l) /\ Active(l)' = Active(l) \cup {f}
          /\ \A k \in Listeners : k # l => Active(k)' = Active(k)
          /\ Live(l)' = Live(l) \cup {f}
          /\ \A k \in Listeners : k # l => Live(k)' = Live(k)
      BY <1>0, <2>1, <2>2, <2>3, EnterEffect
    <2>5. ASSUME NEW u \in Threads, pc[u] \in {"unborn", "new"} PROVE l \notin Share(u)
      <3>1. l \in Share(t) /\ u # t
        BY <2>3, <2>4, <2>5 DEF OwnInv
      <3>2. QED BY <3>1, SharesDisjoint DEF TypeOK
    <2>6. QED BY <1>0, <1>s, <2>4, <2>5 DEF BegunInv
  <1>6. ASSUME NEW t \in Threads, RefuseTls(t)
        PROVE  Goal
    <2>1. PICK l \in Listeners : l = cur[t]
      BY <1>0, <1>a, <1>6 DEF RefuseTls, PlaceInv, PlaceAt
    <2>2. PICK f \in ConnFds : f = other[t]
      BY <1>0, <1>6 DEF RefuseTls, LiveInv, Fresh, TypeOK
    <2>3. /\ pc[t] = "install" /\ WithinLimits(t) /\ Enter(t) /\ pc' = [pc EXCEPT ![t] = "crash"]
          /\ pc'[t] \notin {"closing", "replying"}
          /\ \A u \in Threads : u # t => pc'[u] = pc[u] /\ cur'[u] = cur[u] /\ other'[u] = other[u]
      BY <1>a, <1>6 DEF RefuseTls, ToRound, loop
    <2>4. /\ l \in own[t] /\ f \in open /\ \A k \in Listeners : f \notin Live(k)
          /\ f \notin Active(l) /\ Active(l)' = Active(l) \cup {f}
          /\ \A k \in Listeners : k # l => Active(k)' = Active(k)
          /\ Live(l)' = Live(l) \cup {f}
          /\ \A k \in Listeners : k # l => Live(k)' = Live(k)
      BY <1>0, <2>1, <2>2, <2>3, EnterEffect
    <2>5. ASSUME NEW u \in Threads, pc[u] \in {"unborn", "new"} PROVE l \notin Share(u)
      <3>1. l \in Share(t) /\ u # t
        BY <2>3, <2>4, <2>5 DEF OwnInv
      <3>2. QED BY <3>1, SharesDisjoint DEF TypeOK
    <2>6. QED BY <1>0, <1>s, <2>4, <2>5 DEF BegunInv
  <1>7. QED BY Kinds, <1>1, <1>2, <1>3, <1>4, <1>5, <1>6

\* Records and lists.
LEMMA RecordStep ==
    ASSUME TypeOK, MainInv, OwnInv, PlaceInv, ListInv, RecordInv, LiveInv, Next
    PROVE  RecordInv'
  <1> DEFINE Goal == RecordInv'
  <1> SUFFICES Goal
    OBVIOUS
  <1>0. /\ s_user_params' = s_user_params /\ Running
        /\ threads_num' = threads_num /\ Threads' = Threads
    BY SettingStep, SettingKept DEF Next
  <1>a. /\ pc \in [Threads -> PcValues] /\ calls \in [Threads -> Nat] /\ do_update \in [Threads -> BOOLEAN]
        /\ cur \in [Threads -> Fds \cup {NULL}] /\ other \in [Threads -> Fds \cup {NULL}]
        /\ ready \in [Threads -> SUBSET Fds] /\ watched \in [Threads -> SUBSET Fds]
        /\ own \in [Threads -> SUBSET Listeners] /\ mi \in Threads
    BY TypeParts DEF LoopOK, MainOK
  <1>g. /\ g_fds_array \in [Fds -> Listeners \cup {NULL}]
        /\ Listeners \subseteq Fds /\ ConnFds \subseteq Fds /\ NULL \notin Fds
    BY FdFacts DEF TypeOK
  <1>r. /\ \A f \in Fds \ ConnFds : g_fds_array[f] = IF f \in Listeners THEN f ELSE NULL
        /\ \A f \in ConnFds, l \in Listeners : g_fds_array[f] = l => f \in Active(l)
        /\ \A l \in Listeners : \A f \in Live(l) : g_fds_array[f] \in {l, NULL}
        /\ threads_num = 1 => \A l \in Listeners : \A f \in Live(l) : g_fds_array[f] = l
    BY DEF RecordInv
  <1>b. ASSUME g_fds_array' = g_fds_array,
               \A l \in Listeners : Active(l)' = Active(l) /\ Live(l)' \subseteq Live(l)
        PROVE  Goal
    BY <1>0, <1>b, <1>r DEF RecordInv
  <1>1. CASE tables' = tables /\ SameClosing
    <2>1. SameLists
      BY <1>0, <1>1, SameLive DEF SameClosing, tables
    <2>2. QED BY <1>b, <1>1, <2>1 DEF SameLists, tables
  <1>2. ASSUME NEW t \in Threads, CloseIfd(t)
        PROVE  Goal
    <2>0. Looping(t) /\ g_fds_array[cur[t]] # NULL
      BY <1>2 DEF CloseIfd
    <2>1. PICK l \in Listeners : l = g_fds_array[cur[t]] /\ l \in own[t] /\ cur[t] \in Live(l) /\ cur[t] \in Active(l)
      BY <1>0, <2>0, CloseEffect
    <2>2. calls[t] = 0 /\ cur[t] \in ConnFds /\ pc[t] = "receive"
      BY <1>0, <2>0, CloseEffect DEF Looping
    <2>3. /\ pc' = [pc EXCEPT ![t] = "closing"] /\ cur' = cur /\ other' = [other EXCEPT ![t] = l]
          /\ active_fd_list' = active_fd_list /\ own' = own /\ ready' = ready
          /\ calls' = [calls EXCEPT ![t] = calls[t] + 1]
      BY <2>1, <1>2 DEF CloseIfd, Called, tables, main
    <2>4. /\ \A k : Active(k)' = Active(k)
          /\ Live(l)' = Live(l) \ {cur[t]}
          /\ \A k : k # l => Live(k)' = Live(k)
      BY <1>0, <2>0, <2>1, <2>3, ClosedLive
    <2>5. g_fds_array' = g_fds_array
      BY <1>2 DEF CloseIfd, tables
    <2>6. QED BY <1>b, <2>4, <2>5
  <1>3. ASSUME NEW t \in Threads, ReplyShutdown(t)
        PROVE  Goal
    <2>0. Looping(t) /\ g_fds_array[cur[t]] # NULL
      BY <1>3 DEF ReplyShutdown
    <2>1. PICK l \in Listeners : l = g_fds_array[cur[t]] /\ l \in own[t] /\ cur[t] \in Live(l) /\ cur[t] \in Active(l)
      BY <1>0, <2>0, CloseEffect
    <2>2. calls[t] = 0 /\ cur[t] \in ConnFds /\ pc[t] = "receive"
      BY <1>0, <2>0, CloseEffect DEF Looping
    <2>3. /\ pc' = [pc EXCEPT ![t] = "replying"] /\ cur' = cur /\ other' = [other EXCEPT ![t] = l]
          /\ active_fd_list' = active_fd_list /\ own' = own /\ ready' = ready
          /\ calls' = [calls EXCEPT ![t] = calls[t] + 1]
      BY <2>1, <1>3 DEF ReplyShutdown, Called, tables, main
    <2>4. /\ \A k : Active(k)' = Active(k)
          /\ Live(l)' = Live(l) \ {cur[t]}
          /\ \A k : k # l => Live(k)' = Live(k)
      BY <1>0, <2>0, <2>1, <2>3, ClosedLive
    <2>5. g_fds_array' = g_fds_array
      BY <1>3 DEF ReplyShutdown, tables
    <2>6. QED BY <1>b, <2>4, <2>5
  <1>4. ASSUME NEW t \in Threads, FreeIfd(t)
        PROVE  Goal
    <2>1. PICK l \in Listeners : l = other[t]
      BY <1>0, <1>4, FreeEffect
    <2>2. PICK f \in ConnFds : f = cur[t]
      BY <1>0, <1>4, FreeEffect
    <2>3. /\ l \in own[t] /\ f \in Active(l) /\ Active(l)' = Active(l) \ {f}
          /\ \A k \in Listeners : k # l => Active(k)' = Active(k)
          /\ \A k \in Listeners : Live(k)' = Live(k)
      BY <1>0, <2>1, <2>2, <1>4, FreeEffect
    <2>4. /\ pc[t] \in {"closing", "replying"} /\ pc' = [pc EXCEPT ![t] = Freed(t)]
          /\ FreedIs(t)
          /\ cur' = cur /\ other' = other /\ calls' = calls /\ ready' = ready /\ own' = own
          /\ do_update' = do_update /\ watched' = watched /\ open' = open
          /\ g_fds_array' = [g_fds_array EXCEPT ![f] = NULL]
      BY <2>2, <1>4, FreedTo DEF FreeIfd, main, loop, kernel
    <2>5. \A g \in Fds : g_fds_array'[g] = IF g = f THEN NULL ELSE g_fds_array[g]
      BY <1>g, <2>4
    <2>6. \A g \in Fds \ ConnFds : g_fds_array'[g] = IF g \in Listeners THEN g ELSE NULL
      BY <1>g, <1>r, <2>5
    <2>7. \A g \in ConnFds, k \in Listeners : g_fds_array'[g] = k => g \in Active(k)'
      BY <1>g, <1>r, <2>3, <2>5
    <2>8. ASSUME NEW k \in Listeners, NEW g \in Live(k)'
          PROVE  g \in Live(k) /\ g \in Fds
      <3>1. g \in Live(k)
        BY <2>3
      <3>2. QED BY <1>g, <3>1, ActiveFds, TypeParts DEF Live
    <2>9. ASSUME threads_num = 1, NEW k \in Listeners, NEW g \in Live(k)' PROVE g # f
      <3>1. t = 1 /\ g \in open /\ f \notin open
        BY <1>0, <2>2, <2>4, <2>8, <2>9 DEF Threads, LiveInv, LiveOpen, ClosedAlone
      <3>2. QED BY <3>1
    <2>10. \A k \in Listeners : \A g \in Live(k)' : g_fds_array'[g] \in {k, NULL}
      BY <1>r, <2>5, <2>8
    <2>11. threads_num = 1 => \A k \in Listeners : \A g \in Live(k)' : g_fds_array'[g] = k
      BY <1>r, <2>5, <2>8, <2>9
    <2>12. QED BY <1>0, <2>6, <2>7, <2>10, <2>11 DEF RecordInv
  <1>5. ASSUME NEW t \in Threads, Install(t)
        PROVE  Goal
    <2>1. PICK l \in Listeners : l = cur[t]
      BY <1>0, <1>a, <1>5 DEF Install, PlaceInv, PlaceAt
    <2>2. PICK f \in ConnFds : f = other[t]
      BY <1>0, <1>5 DEF Install, LiveInv, Fresh, TypeOK
    <2>3. /\ pc[t] = "install" /\ WithinLimits(t) /\ Enter(t) /\ pc' = [pc EXCEPT ![t] = "round"]
          /\ pc'[t] \notin {"closing", "replying"}
          /\ \A u \in Threads : u # t => pc'[u] = pc[u] /\ cur'[u] = cur[u] /\ other'[u] = other[u]
      BY <1>a, <1>5 DEF Install, ToRound, loop
    <2>4. /\ l \in own[t] /\ f \in open /\ \A k \in Listeners : f \notin Live(k)
          /\ f \notin Active(l) /\ Active(l)' = Active(l) \cup {f}
          /\ \A k \in Listeners : k # l => Active(k)' = Active(k)
          /\ Live(l)' = Live(l) \cup {f}
          /\ \A k \in Listeners : k # l => Live(k)' = Live(k)
      BY <1>0, <2>1, <2>2, <2>3, EnterEffect
    <2>5. \A g \in Fds : g_fds_array'[g] = IF g = f THEN l ELSE g_fds_array[g]
      BY <1>g, <2>1, <2>2, <2>3 DEF Enter
    <2>6. \A g \in Fds \ ConnFds : g_fds_array'[g] = IF g \in Listeners THEN g ELSE NULL
      BY <1>g, <1>r, <2>5
    <2>7. \A g \in ConnFds, k \in Listeners : g_fds_array'[g] = k => g \in Active(k)'
      BY <1>g, <1>r, <2>4, <2>5
    <2>8. ASSUME NEW k \in Listeners, NEW g \in Live(k)'
          PROVE  (k = l /\ g = f) \/ (g \in Live(k) /\ g \in Fds /\ g # f)
      <3>1. (k = l /\ g = f) \/ (g \in Live(k) /\ g # f)
        BY <2>4
      <3>2. g \in Live(k) => g \in Fds
        BY <1>g, ActiveFds, TypeParts DEF Live
      <3>3. QED BY <3>1, <3>2
    <2>9. \A k \in Listeners : \A g \in Live(k)' : g_fds_array'[g] \in {k, NULL}
      BY <1>g, <1>r, <2>5, <2>8
    <2>10. threads_num = 1 => \A k \in Listeners : \A g \in Live(k)' : g_fds_array'[g] = k
      BY <1>g, <1>r, <2>5, <2>8
    <2>11. QED BY <1>0, <2>6, <2>7, <2>9, <2>10 DEF RecordInv
  <1>6. ASSUME NEW t \in Threads, RefuseTls(t)
        PROVE  Goal
    <2>1. PICK l \in Listeners : l = cur[t]
      BY <1>0, <1>a, <1>6 DEF RefuseTls, PlaceInv, PlaceAt
    <2>2. PICK f \in ConnFds : f = other[t]
      BY <1>0, <1>6 DEF RefuseTls, LiveInv, Fresh, TypeOK
    <2>3. /\ pc[t] = "install" /\ WithinLimits(t) /\ Enter(t) /\ pc' = [pc EXCEPT ![t] = "crash"]
          /\ pc'[t] \notin {"closing", "replying"}
          /\ \A u \in Threads : u # t => pc'[u] = pc[u] /\ cur'[u] = cur[u] /\ other'[u] = other[u]
      BY <1>a, <1>6 DEF RefuseTls, ToRound, loop
    <2>4. /\ l \in own[t] /\ f \in open /\ \A k \in Listeners : f \notin Live(k)
          /\ f \notin Active(l) /\ Active(l)' = Active(l) \cup {f}
          /\ \A k \in Listeners : k # l => Active(k)' = Active(k)
          /\ Live(l)' = Live(l) \cup {f}
          /\ \A k \in Listeners : k # l => Live(k)' = Live(k)
      BY <1>0, <2>1, <2>2, <2>3, EnterEffect
    <2>5. \A g \in Fds : g_fds_array'[g] = IF g = f THEN l ELSE g_fds_array[g]
      BY <1>g, <2>1, <2>2, <2>3 DEF Enter
    <2>6. \A g \in Fds \ ConnFds : g_fds_array'[g] = IF g \in Listeners THEN g ELSE NULL
      BY <1>g, <1>r, <2>5
    <2>7. \A g \in ConnFds, k \in Listeners : g_fds_array'[g] = k => g \in Active(k)'
      BY <1>g, <1>r, <2>4, <2>5
    <2>8. ASSUME NEW k \in Listeners, NEW g \in Live(k)'
          PROVE  (k = l /\ g = f) \/ (g \in Live(k) /\ g \in Fds /\ g # f)
      <3>1. (k = l /\ g = f) \/ (g \in Live(k) /\ g # f)
        BY <2>4
      <3>2. g \in Live(k) => g \in Fds
        BY <1>g, ActiveFds, TypeParts DEF Live
      <3>3. QED BY <3>1, <3>2
    <2>9. \A k \in Listeners : \A g \in Live(k)' : g_fds_array'[g] \in {k, NULL}
      BY <1>g, <1>r, <2>5, <2>8
    <2>10. threads_num = 1 => \A k \in Listeners : \A g \in Live(k)' : g_fds_array'[g] = k
      BY <1>g, <1>r, <2>5, <2>8
    <2>11. QED BY <1>0, <2>6, <2>7, <2>9, <2>10 DEF RecordInv
  <1>7. QED BY Kinds, <1>1, <1>2, <1>3, <1>4, <1>5, <1>6

\* Lists and open descriptors.
LEMMA LiveStep ==
    ASSUME TypeOK, MainInv, OwnInv, PlaceInv, ListInv, RecordInv, LiveInv, Next
    PROVE  LiveInv'
  <1> DEFINE Goal == LiveInv'
  <1> SUFFICES Goal
    OBVIOUS
  <1>0. /\ s_user_params' = s_user_params /\ Running
        /\ threads_num' = threads_num /\ Threads' = Threads
    BY SettingStep, SettingKept DEF Next
  <1>a. /\ pc \in [Threads -> PcValues] /\ calls \in [Threads -> Nat] /\ do_update \in [Threads -> BOOLEAN]
        /\ cur \in [Threads -> Fds \cup {NULL}] /\ other \in [Threads -> Fds \cup {NULL}]
        /\ ready \in [Threads -> SUBSET Fds] /\ watched \in [Threads -> SUBSET Fds]
        /\ own \in [Threads -> SUBSET Listeners] /\ mi \in Threads
    BY TypeParts DEF LoopOK, MainOK
  <1>l. Disjoint /\ LiveOpen /\ Fresh /\ OpenLive /\ ClosedAlone
    BY <1>0 DEF LiveInv
  <1>b. ASSUME Disjoint', LiveOpen', Fresh', OpenLive', ClosedAlone' PROVE Goal
    BY <1>b DEF LiveInv
  <1>o. open \subseteq ConnFds /\ 1 \in Threads
    BY TypeParts, SettingFacts DEF KernelOK, TablesOK, Threads
  <1>1. CASE /\ tables' = tables /\ SameClosing
             /\ SameInstall \/ \E t \in Threads : Accept(t) \/ Refuse(t)
    <2>1. SameLists /\ \A k \in Listeners : Live(k)' = Live(k)
      BY <1>0, <1>1, SameLive DEF SameClosing, tables, SameLists
    <2>2. Disjoint'
      BY <1>l, <2>1 DEF Disjoint
    <2>3. CASE SameInstall
      <3>1. LiveOpen' /\ Fresh' /\ OpenLive'
        BY <1>0, <1>l, <2>1, <2>3 DEF LiveOpen, Fresh, OpenLive, SameInstall
      <3>2. ClosedAlone'
        BY <1>0, <1>1, <1>l, <1>o, <2>3 DEF ClosedAlone, SameInstall, SameClosing
      <3>3. QED BY <1>b, <2>2, <3>1, <3>2
    <2>4. ASSUME NEW t \in Threads, Accept(t) PROVE Goal
      <3>1. FreeFds \subseteq Nat /\ FreeFds # {} /\ FreeFds \cap open = {}
        BY <2>4, FdFacts DEF Accept, FreeFds
      <3>2. PICK f \in FreeFds : f = Lowest(FreeFds)
        BY <3>1, LowestIs
      <3>3. /\ open' = open \cup {f} /\ f \notin open /\ other' = [other EXCEPT ![t] = f]
            /\ pc' = [pc EXCEPT ![t] = "install"] /\ pc[t] = "accept"
        BY <2>4, <3>1, <3>2 DEF Accept
      <3>4. /\ \A u \in Threads : pc'[u] = "install" <=> (pc[u] = "install" \/ u = t)
            /\ \A u \in Threads : u # t => other'[u] = other[u] /\ pc'[u] = pc[u]
            /\ other'[t] = f
        BY <1>a, <3>3
      <3>5. LiveOpen'
        BY <1>l, <2>1, <3>3 DEF LiveOpen
      <3>6. \A k \in Listeners : f \notin Live(k)
        BY <1>l, <3>3 DEF LiveOpen
      <3>7. \A u \in Threads : pc[u] = "install" => other[u] # f
        BY <1>l, <3>3 DEF Fresh
      <3>8. Fresh'
        BY <1>0, <1>l, <2>1, <3>3, <3>4, <3>6, <3>7 DEF Fresh
      <3>9. OpenLive'
        <4>1. SUFFICES ASSUME NEW g \in open, ~\E k \in Listeners : g \in Live(k)
                       PROVE  \E u \in Threads : pc'[u] = "install" /\ other'[u] = g
          BY <1>0, <2>1, <3>3, <3>4 DEF OpenLive
        <4>2. PICK u \in Threads : pc[u] = "install" /\ other[u] = g
          BY <1>l, <4>1 DEF OpenLive
        <4>3. u # t
          BY <3>3, <4>2
        <4>4. QED BY <3>4, <4>2, <4>3
      <3>10. ClosedAlone'
        BY <1>0, <1>a, <3>3 DEF ClosedAlone, Threads
      <3>11. QED BY <1>b, <2>2, <3>5, <3>8, <3>9, <3>10
    <2>5. ASSUME NEW t \in Threads, Refuse(t) PROVE Goal
      <3>1. PICK f \in ConnFds : f = other[t] /\ f \in open
        BY <1>l, <1>o, <2>5 DEF Refuse, Fresh
      <3>2. /\ open' = open \ {f} /\ other' = [other EXCEPT ![t] = NULL]
            /\ pc' = [pc EXCEPT ![t] = "round"] /\ pc[t] = "install"
        BY <2>5, <3>1 DEF Refuse, Close, ToRound
      <3>3. /\ \A u \in Threads : pc'[u] = "install" <=> (pc[u] = "install" /\ u # t)
            /\ \A u \in Threads : u # t => other'[u] = other[u] /\ pc'[u] = pc[u]
        BY <1>a, <3>2
      <3>4. \A k \in Listeners : f \notin Live(k)
        BY <1>l, <3>1, <3>2 DEF Fresh
      <3>5. LiveOpen'
        BY <1>l, <2>1, <3>2, <3>4 DEF LiveOpen
      <3>6. \A u \in Threads : pc[u] = "install" /\ u # t => other[u] # f
        BY <1>l, <3>1, <3>2 DEF Fresh
      <3>7. Fresh'
        BY <1>0, <1>l, <2>1, <3>2, <3>3, <3>6 DEF Fresh
      <3>8. OpenLive'
        <4>1. SUFFICES ASSUME NEW g \in open, g # f, ~\E k \in Listeners : g \in Live(k)
                       PROVE  \E u \in Threads : pc'[u] = "install" /\ other'[u] = g
          BY <1>0, <2>1, <3>2 DEF OpenLive
        <4>2. PICK u \in Threads : pc[u] = "install" /\ other[u] = g
          BY <1>l, <4>1 DEF OpenLive
        <4>3. u # t
          BY <3>1, <4>1, <4>2
        <4>4. QED BY <3>3, <4>2, <4>3
      <3>9. ClosedAlone'
        BY <1>0, <1>a, <3>2 DEF ClosedAlone, Threads
      <3>10. QED BY <1>b, <2>2, <3>5, <3>7, <3>8, <3>9
    <2>6. QED BY <1>1, <2>3, <2>4, <2>5
  <1>2. ASSUME NEW t \in Threads, CloseIfd(t)
        PROVE  Goal
    <2>0. Looping(t) /\ g_fds_array[cur[t]] # NULL
      BY <1>2 DEF CloseIfd
    <2>1. PICK l \in Listeners : l = g_fds_array[cur[t]] /\ l \in own[t] /\ cur[t] \in Live(l) /\ cur[t] \in Active(l)
      BY <1>0, <2>0, CloseEffect
    <2>2. calls[t] = 0 /\ cur[t] \in ConnFds /\ pc[t] = "receive"
      BY <1>0, <2>0, CloseEffect DEF Looping
    <2>3. /\ pc' = [pc EXCEPT ![t] = "closing"] /\ cur' = cur /\ other' = [other EXCEPT ![t] = l]
          /\ active_fd_list' = active_fd_list /\ own' = own /\ ready' = ready
          /\ calls' = [calls EXCEPT ![t] = calls[t] + 1]
      BY <2>1, <1>2 DEF CloseIfd, Called, tables, main
    <2>4. /\ \A k : Active(k)' = Active(k)
          /\ Live(l)' = Live(l) \ {cur[t]}
          /\ \A k : k # l => Live(k)' = Live(k)
      BY <1>0, <2>0, <2>1, <2>3, ClosedLive
    <2>5. open' = open \ {cur[t]}
      BY <2>1, <1>2 DEF CloseIfd, Close
    <2>6. Disjoint'
      BY <1>l, <2>4 DEF Disjoint
    <2>7. LiveOpen'
      BY <1>l, <2>1, <2>4, <2>5 DEF LiveOpen, Disjoint
    <2>8. \A u \in Threads : pc'[u] = "install" <=> pc[u] = "install"
      BY <1>a, <2>2, <2>3
    <2>9. \A u \in Threads : pc[u] = "install" => other'[u] = other[u] /\ other[u] # cur[t]
      BY <1>a, <1>l, <2>1, <2>2, <2>3 DEF Fresh
    <2>10. Fresh'
      BY <1>0, <1>l, <2>4, <2>5, <2>8, <2>9 DEF Fresh
    <2>11. OpenLive'
      <3>1. SUFFICES ASSUME NEW f \in open, f # cur[t]
                     PROVE  \/ \E k \in Listeners : f \in Live(k)'
                            \/ \E u \in Threads : pc'[u] = "install" /\ other'[u] = f
        BY <1>0, <2>5 DEF OpenLive
      <3>2. CASE \E k \in Listeners : f \in Live(k)
        BY <2>4, <3>1, <3>2
      <3>3. CASE \E u \in Threads : pc[u] = "install" /\ other[u] = f
        BY <2>8, <2>9, <3>3
      <3>4. QED BY <1>l, <3>2, <3>3 DEF OpenLive
    <2>12. ClosedAlone'
      BY <1>0, <1>a, <2>3, <2>5 DEF ClosedAlone, Threads
    <2>13. QED BY <1>b, <2>6, <2>7, <2>10, <2>11, <2>12
  <1>3. ASSUME NEW t \in Threads, ReplyShutdown(t)
        PROVE  Goal
    <2>0. Looping(t) /\ g_fds_array[cur[t]] # NULL
      BY <1>3 DEF ReplyShutdown
    <2>1. PICK l \in Listeners : l = g_fds_array[cur[t]] /\ l \in own[t] /\ cur[t] \in Live(l) /\ cur[t] \in Active(l)
      BY <1>0, <2>0, CloseEffect
    <2>2. calls[t] = 0 /\ cur[t] \in ConnFds /\ pc[t] = "receive"
      BY <1>0, <2>0, CloseEffect DEF Looping
    <2>3. /\ pc' = [pc EXCEPT ![t] = "replying"] /\ cur' = cur /\ other' = [other EXCEPT ![t] = l]
          /\ active_fd_list' = active_fd_list /\ own' = own /\ ready' = ready
          /\ calls' = [calls EXCEPT ![t] = calls[t] + 1]
      BY <2>1, <1>3 DEF ReplyShutdown, Called, tables, main
    <2>4. /\ \A k : Active(k)' = Active(k)
          /\ Live(l)' = Live(l) \ {cur[t]}
          /\ \A k : k # l => Live(k)' = Live(k)
      BY <1>0, <2>0, <2>1, <2>3, ClosedLive
    <2>5. open' = open \ {cur[t]}
      BY <2>1, <1>3 DEF ReplyShutdown, Close
    <2>6. Disjoint'
      BY <1>l, <2>4 DEF Disjoint
    <2>7. LiveOpen'
      BY <1>l, <2>1, <2>4, <2>5 DEF LiveOpen, Disjoint
    <2>8. \A u \in Threads : pc'[u] = "install" <=> pc[u] = "install"
      BY <1>a, <2>2, <2>3
    <2>9. \A u \in Threads : pc[u] = "install" => other'[u] = other[u] /\ other[u] # cur[t]
      BY <1>a, <1>l, <2>1, <2>2, <2>3 DEF Fresh
    <2>10. Fresh'
      BY <1>0, <1>l, <2>4, <2>5, <2>8, <2>9 DEF Fresh
    <2>11. OpenLive'
      <3>1. SUFFICES ASSUME NEW f \in open, f # cur[t]
                     PROVE  \/ \E k \in Listeners : f \in Live(k)'
                            \/ \E u \in Threads : pc'[u] = "install" /\ other'[u] = f
        BY <1>0, <2>5 DEF OpenLive
      <3>2. CASE \E k \in Listeners : f \in Live(k)
        BY <2>4, <3>1, <3>2
      <3>3. CASE \E u \in Threads : pc[u] = "install" /\ other[u] = f
        BY <2>8, <2>9, <3>3
      <3>4. QED BY <1>l, <3>2, <3>3 DEF OpenLive
    <2>12. ClosedAlone'
      BY <1>0, <1>a, <2>3, <2>5 DEF ClosedAlone, Threads
    <2>13. QED BY <1>b, <2>6, <2>7, <2>10, <2>11, <2>12
  <1>4. ASSUME NEW t \in Threads, FreeIfd(t)
        PROVE  Goal
    <2>1. PICK l \in Listeners : l = other[t]
      BY <1>0, <1>4, FreeEffect
    <2>2. PICK f \in ConnFds : f = cur[t]
      BY <1>0, <1>4, FreeEffect
    <2>3. /\ l \in own[t] /\ f \in Active(l) /\ Active(l)' = Active(l) \ {f}
          /\ \A k \in Listeners : k # l => Active(k)' = Active(k)
          /\ \A k \in Listeners : Live(k)' = Live(k)
      BY <1>0, <2>1, <2>2, <1>4, FreeEffect
    <2>4. /\ pc[t] \in {"closing", "replying"} /\ pc' = [pc EXCEPT ![t] = Freed(t)]
          /\ FreedIs(t)
          /\ cur' = cur /\ other' = other /\ calls' = calls /\ ready' = ready /\ own' = own
          /\ do_update' = do_update /\ watched' = watched /\ open' = open
          /\ g_fds_array' = [g_fds_array EXCEPT ![f] = NULL]
      BY <2>2, <1>4, FreedTo DEF FreeIfd, main, loop, kernel
    <2>5. \A u \in Threads : pc'[u] = "install" <=> pc[u] = "install"
      BY <1>a, <2>4 DEF FreedIs
    <2>6. Disjoint'
      BY <1>l, <2>3 DEF Disjoint
    <2>7. LiveOpen'
      BY <1>l, <2>3, <2>4 DEF LiveOpen
    <2>8. Fresh'
      BY <1>0, <1>l, <2>3, <2>4, <2>5 DEF Fresh
    <2>9. OpenLive'
      BY <1>0, <1>l, <2>3, <2>4, <2>5 DEF OpenLive
    <2>10. ClosedAlone'
      BY <1>0, <1>a, <2>4 DEF ClosedAlone, Threads, FreedIs
    <2>11. QED BY <1>b, <2>6, <2>7, <2>8, <2>9, <2>10
  <1>5. ASSUME NEW t \in Threads, Install(t)
        PROVE  Goal
    <2>1. PICK l \in Listeners : l = cur[t]
      BY <1>0, <1>a, <1>5 DEF Install, PlaceInv, PlaceAt
    <2>2. PICK f \in ConnFds : f = other[t]
      BY <1>0, <1>5 DEF Install, LiveInv, Fresh, TypeOK
    <2>3. /\ pc[t] = "install" /\ WithinLimits(t) /\ Enter(t) /\ pc' = [pc EXCEPT ![t] = "round"]
          /\ pc'[t] \notin {"closing", "replying"}
          /\ \A u \in Threads : u # t => pc'[u] = pc[u] /\ cur'[u] = cur[u] /\ other'[u] = other[u]
      BY <1>a, <1>5 DEF Install, ToRound, loop
    <2>4. /\ l \in own[t] /\ f \in open /\ \A k \in Listeners : f \notin Live(k)
          /\ f \notin Active(l) /\ Active(l)' = Active(l) \cup {f}
          /\ \A k \in Listeners : k # l => Active(k)' = Active(k)
          /\ Live(l)' = Live(l) \cup {f}
          /\ \A k \in Listeners : k # l => Live(k)' = Live(k)
      BY <1>0, <2>1, <2>2, <2>3, EnterEffect
    <2>5. Disjoint'
      <3>1. SUFFICES ASSUME NEW j \in Listeners, NEW k \in Listeners, j # k
                     PROVE  Live(j)' \cap Live(k)' = {}
        BY DEF Disjoint
      <3>2. QED BY <1>l, <2>4, <3>1 DEF Disjoint
    <2>6. open' = open
      BY <1>5 DEF Install, kernel
    <2>7. LiveOpen'
      BY <1>l, <2>4, <2>6 DEF LiveOpen
    <2>8. \A u \in Threads : pc'[u] = "install" <=> (pc[u] = "install" /\ u # t)
      BY <1>a, <2>3
    <2>9. Fresh'
      BY <1>0, <1>l, <2>2, <2>3, <2>4, <2>6, <2>8 DEF Fresh
    <2>10. OpenLive'
      <3>1. SUFFICES ASSUME NEW g \in open
                     PROVE  \/ \E k \in Listeners : g \in Live(k)'
                            \/ \E u \in Threads : pc'[u] = "install" /\ other'[u] = g
        BY <1>0, <2>6 DEF OpenLive
      <3>2. CASE \E k \in Listeners : g \in Live(k)
        BY <2>4, <3>2
      <3>3. CASE \E u \in Threads : pc[u] = "install" /\ other[u] = g
        BY <2>2, <2>3, <2>4, <2>8, <3>3
      <3>4. QED BY <1>l, <3>2, <3>3 DEF OpenLive
    <2>11. ClosedAlone'
      BY <1>0, <1>a, <2>3 DEF ClosedAlone, Threads
    <2>12. QED BY <1>b, <2>5, <2>7, <2>9, <2>10, <2>11
  <1>6. ASSUME NEW t \in Threads, RefuseTls(t)
        PROVE  Goal
    <2>1. PICK l \in Listeners : l = cur[t]
      BY <1>0, <1>a, <1>6 DEF RefuseTls, PlaceInv, PlaceAt
    <2>2. PICK f \in ConnFds : f = other[t]
      BY <1>0, <1>6 DEF RefuseTls, LiveInv, Fresh, TypeOK
    <2>3. /\ pc[t] = "install" /\ WithinLimits(t) /\ Enter(t) /\ pc' = [pc EXCEPT ![t] = "crash"]
          /\ pc'[t] \notin {"closing", "replying"}
          /\ \A u \in Threads : u # t => pc'[u] = pc[u] /\ cur'[u] = cur[u] /\ other'[u] = other[u]
      BY <1>a, <1>6 DEF RefuseTls, ToRound, loop
    <2>4. /\ l \in own[t] /\ f \in open /\ \A k \in Listeners : f \notin Live(k)
          /\ f \notin Active(l) /\ Active(l)' = Active(l) \cup {f}
          /\ \A k \in Listeners : k # l => Active(k)' = Active(k)
          /\ Live(l)' = Live(l) \cup {f}
          /\ \A k \in Listeners : k # l => Live(k)' = Live(k)
      BY <1>0, <2>1, <2>2, <2>3, EnterEffect
    <2>5. Disjoint'
      <3>1. SUFFICES ASSUME NEW j \in Listeners, NEW k \in Listeners, j # k
                     PROVE  Live(j)' \cap Live(k)' = {}
        BY DEF Disjoint
      <3>2. QED BY <1>l, <2>4, <3>1 DEF Disjoint
    <2>6. ~Running'
      BY <1>0, <1>a, <2>3 DEF Running
    <2>7. QED BY <2>5, <2>6 DEF LiveInv
  <1>7. QED BY Kinds, <1>1, <1>2, <1>3, <1>4, <1>5, <1>6

\* What a thread waits for.
LEMMA WatchStep ==
    ASSUME TypeOK, MainInv, OwnInv, PlaceInv, ListInv, BegunInv, RecordInv, LiveInv, WatchInv, Next
    PROVE  WatchInv'
  <1> DEFINE Goal == WatchInv'
             W(u) == own[u] \cup UNION {Active(l) : l \in own[u]}
  <1> SUFFICES Goal
    OBVIOUS
  <1>0. /\ s_user_params' = s_user_params /\ Running
        /\ threads_num' = threads_num /\ Threads' = Threads
    BY SettingStep, SettingKept DEF Next
  <1>a. /\ pc \in [Threads -> PcValues] /\ calls \in [Threads -> Nat] /\ do_update \in [Threads -> BOOLEAN]
        /\ cur \in [Threads -> Fds \cup {NULL}] /\ other \in [Threads -> Fds \cup {NULL}]
        /\ ready \in [Threads -> SUBSET Fds] /\ watched \in [Threads -> SUBSET Fds]
        /\ own \in [Threads -> SUBSET Listeners] /\ mi \in Threads
    BY TypeParts DEF LoopOK, MainOK
  <1>w. \A u \in Threads : WatchAt(u)
    BY DEF WatchInv
  <1>b. ASSUME active_fd_list' = active_fd_list, watched' = watched, do_update' = do_update,
               \A u \in Threads : \/ pc'[u] = pc[u] /\ own'[u] = own[u]
                                  \/ pc[u] = "wait" /\ pc'[u] = "top" /\ own'[u] = own[u]
                                  \/ pc[u] = "unborn" /\ pc'[u] = "new"
        PROVE  Goal
    <2>1. SUFFICES ASSUME NEW u \in Threads PROVE WatchAt(u)'
      BY <1>0 DEF WatchInv
    <2>2. \A l : Active(l)' = Active(l)
      BY <1>b DEF Active
    <2>3. CASE own'[u] = own[u] /\ (pc'[u] = pc[u] \/ (pc[u] = "wait" /\ pc'[u] = "top"))
      <3>1. W(u)' = W(u)
        BY <2>2, <2>3
      <3>2. QED BY <1>b, <1>w, <2>3, <3>1 DEF WatchAt
    <2>4. CASE pc[u] = "unborn" /\ pc'[u] = "new"
      BY <1>b, <1>w, <2>4 DEF WatchAt
    <2>5. QED BY <1>b, <2>3, <2>4
  <1>c. ASSUME NEW t \in Threads, own' = own,
               \A u \in Threads : u # t => pc'[u] = pc[u] /\ watched'[u] = watched[u] /\ do_update'[u] = do_update[u],
               \A l \in Listeners : l \notin own[t] => Active(l)' = Active(l),
               WatchAt(t)'
        PROVE  Goal
    <2>1. SUFFICES ASSUME NEW u \in Threads, u # t PROVE WatchAt(u)'
      BY <1>0, <1>c DEF WatchInv
    <2>2. \A l \in own[u] : Active(l)' = Active(l)
      BY <1>a, <1>c, <2>1, OneOwner
    <2>3. W(u)' = W(u)
      BY <1>c, <2>2
    <2>4. QED BY <1>c, <1>w, <2>1, <2>3 DEF WatchAt
  <1>d. ASSUME NEW t \in Threads, active_fd_list' = active_fd_list, own' = own
        PROVE  W(t)' = W(t) /\ \A l : Active(l)' = Active(l)
    BY <1>d DEF Active
  <1> HIDE DEF W
  <1>n. \A t \in Threads : pc[t] = "new" => own[t] = W(t)
    <2>1. SUFFICES ASSUME NEW t \in Threads, pc[t] = "new" PROVE own[t] = W(t)
      OBVIOUS
    <2>2. own[t] = Share(t) /\ \A l \in own[t] : Active(l) = {}
      BY <2>1 DEF OwnInv, BegunInv
    <2>3. QED BY <2>2 DEF W
  <1>1. ASSUME NEW l \in Listeners, Connect(l)
        PROVE  Goal
    BY <1>a, <1>b, <1>1 DEF Connect, Signalled, tables, main, loop
  <1>2. ASSUME NEW f \in ConnFds, ClientSend(f)
        PROVE  Goal
    BY <1>a, <1>b, <1>2 DEF ClientSend, Signalled, tables, main, loop
  <1>3. ASSUME NEW f \in ConnFds, ClientClose(f)
        PROVE  Goal
    BY <1>a, <1>b, <1>3 DEF ClientClose, Signalled, tables, main, loop
  <1>4. ASSUME NEW t \in {0} \cup Threads, Interrupt(t)
        PROVE  Goal
    BY <1>a, <1>b, <1>4 DEF Interrupt, Signalled, tables, main, loop
  <1>5. CASE CreateThread
    <2>0. pc[mi] = "unborn"
      BY <1>a, <1>5, TypeParts, SettingFacts DEF CreateThread, MainInv, Threads, TablesOK
    <2>1. QED BY <1>a, <1>b, <2>0, <1>5 DEF CreateThread, tables, loop
  <1>6. CASE CreateFails
    BY <1>a, <1>b, <1>6 DEF CreateFails, Signalled, NextThread, tables, main, loop
  <1>7. CASE StoreTid
    BY <1>a, <1>b, <1>7 DEF StoreTid, Signalled, NextThread, tables, main, loop
  <1>8. CASE WakeUp
    BY <1>a, <1>b, <1>8 DEF WakeUp, Signalled, NextThread, tables, main, loop
  <1>9. CASE StopThread
    BY <1>a, <1>b, <1>9 DEF StopThread, Signalled, NextThread, tables, main, loop
  <1>10. CASE JoinThread
    BY <1>a, <1>b, <1>10 DEF JoinThread, Signalled, NextThread, tables, main, loop
  <1>11. ASSUME NEW t \in Threads, Step(t)
        PROVE  Goal
    <2>1. CASE InitBeforeLoop(t)
      <3>1. active_fd_list' = active_fd_list /\ own' = own
        BY <2>1 DEF InitBeforeLoop, tables, main, loop
      <3>2. W(t)' = W(t) /\ \A l : Active(l)' = Active(l)
        BY <1>d, <3>1
      <3>3. WatchAt(t)'
        BY <1>a, <1>w, <1>n, <3>1, <3>2, <2>1 DEF InitBeforeLoop, tables, main, loop, WatchAt, W
      <3>4. QED BY <1>a, <1>c, <3>1, <3>2, <3>3, <2>1 DEF InitBeforeLoop, tables, main, loop
    <2>2. CASE InitFails(t)
      <3>1. active_fd_list' = active_fd_list /\ own' = own
        BY <2>2 DEF InitFails, tables, main, loop
      <3>2. W(t)' = W(t) /\ \A l : Active(l)' = Active(l)
        BY <1>d, <3>1
      <3>3. WatchAt(t)'
        BY <1>a, <1>w, <3>1, <3>2, <2>2 DEF InitFails, tables, main, loop, WatchAt, W
      <3>4. QED BY <1>a, <1>c, <3>1, <3>2, <3>3, <2>2 DEF InitFails, tables, main, loop
    <2>3. CASE EnterWait(t)
      <3>1. active_fd_list' = active_fd_list /\ own' = own
        BY <2>3 DEF EnterWait, tables, main, loop
      <3>2. W(t)' = W(t) /\ \A l : Active(l)' = Active(l)
        BY <1>d, <3>1
      <3>3. WatchAt(t)'
        BY <1>a, <1>w, <3>1, <3>2, <2>3 DEF EnterWait, tables, main, loop, WatchAt, W
      <3>4. QED BY <1>a, <1>c, <3>1, <3>2, <3>3, <2>3 DEF EnterWait, tables, main, loop
    <2>4. CASE Timeout(t)
      <3>1. active_fd_list' = active_fd_list /\ own' = own
        BY <2>4 DEF Timeout, tables, main, loop
      <3>2. W(t)' = W(t) /\ \A l : Active(l)' = Active(l)
        BY <1>d, <3>1
      <3>3. WatchAt(t)'
        BY <1>a, <1>w, <3>1, <3>2, <2>4 DEF Timeout, tables, main, loop, WatchAt, W
      <3>4. QED BY <1>a, <1>c, <3>1, <3>2, <3>3, <2>4 DEF Timeout, tables, main, loop
    <2>5. CASE Leave(t)
      <3>1. active_fd_list' = active_fd_list /\ own' = own
        BY <2>5 DEF Leave, tables, main, loop
      <3>2. W(t)' = W(t) /\ \A l : Active(l)' = Active(l)
        BY <1>d, <3>1
      <3>3. WatchAt(t)'
        BY <1>a, <1>w, <3>1, <3>2, <2>5 DEF Leave, tables, main, loop, WatchAt, W
      <3>4. QED BY <1>a, <1>c, <3>1, <3>2, <3>3, <2>5 DEF Leave, tables, main, loop
    <2>6. CASE MarkExit(t)
      <3>1. active_fd_list' = active_fd_list /\ own' = own
        BY <2>6 DEF MarkExit, tables, main, loop
      <3>2. W(t)' = W(t) /\ \A l : Active(l)' = Active(l)
        BY <1>d, <3>1
      <3>3. WatchAt(t)'
        BY <1>a, <1>w, <3>1, <3>2, <2>6 DEF MarkExit, tables, main, loop, WatchAt, W
      <3>4. QED BY <1>a, <1>c, <3>1, <3>2, <3>3, <2>6 DEF MarkExit, tables, main, loop
    <2>7. CASE WaitArrival(t)
      <3>1. active_fd_list' = active_fd_list /\ own' = own
        BY <2>7 DEF WaitArrival, tables, main, loop
      <3>2. W(t)' = W(t) /\ \A l : Active(l)' = Active(l)
        BY <1>d, <3>1
      <3>3. WatchAt(t)'
        BY <1>a, <1>w, <3>1, <3>2, <2>7 DEF WaitArrival, tables, main, loop, WatchAt, W
      <3>4. QED BY <1>a, <1>c, <3>1, <3>2, <3>3, <2>7 DEF WaitArrival, tables, main, loop
    <2>8. ASSUME NEW f \in Fds, NextReady(t, f)
          PROVE  Goal
      <3>1. active_fd_list' = active_fd_list /\ own' = own
        BY <2>8 DEF NextReady, tables, main, loop
      <3>2. W(t)' = W(t) /\ \A l : Active(l)' = Active(l)
        BY <1>d, <3>1
      <3>3. WatchAt(t)'
        BY <1>a, <1>w, <3>1, <3>2, <2>8 DEF NextReady, tables, main, loop, WatchAt, W
      <3>4. QED BY <1>a, <1>c, <3>1, <3>2, <3>3, <2>8 DEF NextReady, tables, main, loop
    <2>9. CASE Update(t)
      <3>1. active_fd_list' = active_fd_list /\ own' = own
        BY <2>9 DEF Update, tables, main, loop
      <3>2. W(t)' = W(t) /\ \A l : Active(l)' = Active(l)
        BY <1>d, <3>1
      <3>a. pc[t] = "round" /\ watched'[t] = W(t)
        BY <1>a, <1>w, <2>9 DEF Update, WatchAt, W
      <3>3. WatchAt(t)'
        BY <1>a, <1>w, <3>1, <3>2, <3>a, <2>9 DEF Update, WatchAt, W
      <3>4. QED BY <1>a, <1>c, <3>1, <3>2, <3>3, <2>9 DEF Update, tables, main, loop
    <2>10. CASE Accept(t)
      <3>1. active_fd_list' = active_fd_list /\ own' = own
        BY <2>10 DEF Accept, tables, main, loop
      <3>2. W(t)' = W(t) /\ \A l : Active(l)' = Active(l)
        BY <1>d, <3>1
      <3>3. WatchAt(t)'
        BY <1>a, <1>w, <3>1, <3>2, <2>10 DEF Accept, tables, main, loop, WatchAt, W
      <3>4. QED BY <1>a, <1>c, <3>1, <3>2, <3>3, <2>10 DEF Accept, tables, main, loop
    <2>11. CASE AcceptFails(t)
      <3>1. active_fd_list' = active_fd_list /\ own' = own
        BY <2>11 DEF AcceptFails, tables, main, loop
      <3>2. W(t)' = W(t) /\ \A l : Active(l)' = Active(l)
        BY <1>d, <3>1
      <3>3. WatchAt(t)'
        BY <1>a, <1>w, <3>1, <3>2, <2>11 DEF AcceptFails, ToRound, tables, main, loop, WatchAt, W
      <3>4. QED BY <1>a, <1>c, <3>1, <3>2, <3>3, <2>11 DEF AcceptFails, ToRound, tables, main, loop
    <2>12. CASE Install(t)
      <3>1. PICK l \in Listeners : l = cur[t]
        BY <1>0, <1>a, <2>12 DEF Install, PlaceInv, PlaceAt
      <3>2. PICK f \in ConnFds : f = other[t]
        BY <1>0, <2>12 DEF Install, LiveInv, Fresh, TypeOK
      <3>3. /\ pc[t] = "install" /\ WithinLimits(t) /\ Enter(t) /\ pc' = [pc EXCEPT ![t] = "round"]
            /\ pc'[t] \notin {"closing", "replying"}
            /\ \A u \in Threads : u # t => pc'[u] = pc[u] /\ cur'[u] = cur[u] /\ other'[u] = other[u]
        BY <1>a, <2>12 DEF Install, ToRound, loop
      <3>4. /\ l \in own[t] /\ f \in open /\ \A k \in Listeners : f \notin Live(k)
            /\ f \notin Active(l) /\ Active(l)' = Active(l) \cup {f}
            /\ \A k \in Listeners : k # l => Active(k)' = Active(k)
            /\ Live(l)' = Live(l) \cup {f}
            /\ \A k \in Listeners : k # l => Live(k)' = Live(k)
        BY <1>0, <3>1, <3>2, <3>3, EnterEffect
      <3>5. own' = own /\ watched' = watched /\ do_update' = [do_update EXCEPT ![t] = TRUE]
        BY <2>12 DEF Install, main
      <3>6. WatchAt(t)'
        BY <1>a, <3>3, <3>5 DEF WatchAt
      <3>7. QED BY <1>a, <1>c, <3>3, <3>4, <3>5, <3>6
    <2>13. CASE Refuse(t)
      <3>1. active_fd_list' = active_fd_list /\ own' = own
        BY <2>13 DEF Refuse, tables, main, loop
      <3>2. W(t)' = W(t) /\ \A l : Active(l)' = Active(l)
        BY <1>d, <3>1
      <3>3. WatchAt(t)'
        BY <1>a, <1>w, <3>1, <3>2, <2>13 DEF Refuse, ToRound, tables, main, loop, WatchAt, W
      <3>4. QED BY <1>a, <1>c, <3>1, <3>2, <3>3, <2>13 DEF Refuse, ToRound, tables, main, loop
    <2>14. CASE RefuseTls(t)
      <3>1. PICK l \in Listeners : l = cur[t]
        BY <1>0, <1>a, <2>14 DEF RefuseTls, PlaceInv, PlaceAt
      <3>2. PICK f \in ConnFds : f = other[t]
        BY <1>0, <2>14 DEF RefuseTls, LiveInv, Fresh, TypeOK
      <3>3. /\ pc[t] = "install" /\ WithinLimits(t) /\ Enter(t) /\ pc' = [pc EXCEPT ![t] = "crash"]
            /\ pc'[t] \notin {"closing", "replying"}
            /\ \A u \in Threads : u # t => pc'[u] = pc[u] /\ cur'[u] = cur[u] /\ other'[u] = other[u]
        BY <1>a, <2>14 DEF RefuseTls, ToRound, loop
      <3>4. /\ l \in own[t] /\ f \in open /\ \A k \in Listeners : f \notin Live(k)
            /\ f \notin Active(l) /\ Active(l)' = Active(l) \cup {f}
            /\ \A k \in Listeners : k # l => Active(k)' = Active(k)
            /\ Live(l)' = Live(l) \cup {f}
            /\ \A k \in Listeners : k # l => Live(k)' = Live(k)
        BY <1>0, <3>1, <3>2, <3>3, EnterEffect
      <3>5. own' = own /\ watched' = watched /\ do_update' = do_update
        BY <2>14 DEF RefuseTls, main, loop
      <3>6. WatchAt(t)'
        BY <1>a, <3>3, <3>5 DEF WatchAt
      <3>7. QED BY <1>a, <1>c, <3>3, <3>4, <3>5, <3>6
    <2>15. CASE NoRecord(t)
      <3>1. active_fd_list' = active_fd_list /\ own' = own
        BY <2>15 DEF NoRecord, tables, main, loop
      <3>2. W(t)' = W(t) /\ \A l : Active(l)' = Active(l)
        BY <1>d, <3>1
      <3>3. WatchAt(t)'
        BY <1>a, <1>w, <3>1, <3>2, <2>15 DEF NoRecord, Looping, tables, main, loop, WatchAt, W
      <3>4. QED BY <1>a, <1>c, <3>1, <3>2, <3>3, <2>15 DEF NoRecord, Looping, tables, main, loop
    <2>16. ASSUME NEW n \in 1 .. MaxSends, HandleMessages(t, n)
          PROVE  Goal
      <3>1. active_fd_list' = active_fd_list /\ own' = own
        BY <2>16 DEF HandleMessages, tables, main, loop
      <3>2. W(t)' = W(t) /\ \A l : Active(l)' = Active(l)
        BY <1>d, <3>1
      <3>3. WatchAt(t)'
        BY <1>a, <1>w, <3>1, <3>2, <2>16 DEF HandleMessages, Looping, tables, main, loop, WatchAt, W
      <3>4. QED BY <1>a, <1>c, <3>1, <3>2, <3>3, <2>16
                   DEF HandleMessages, Looping, tables, main, loop
    <2>17. CASE CloseIfd(t)
      <3>1. active_fd_list' = active_fd_list /\ own' = own
        BY <2>17 DEF CloseIfd, tables, main, loop
      <3>2. W(t)' = W(t) /\ \A l : Active(l)' = Active(l)
        BY <1>d, <3>1
      <3>3. WatchAt(t)'
        BY <1>a, <1>w, <3>1, <3>2, <2>17 DEF CloseIfd, Looping, tables, main, loop, WatchAt, W
      <3>4. QED BY <1>a, <1>c, <3>1, <3>2, <3>3, <2>17 DEF CloseIfd, Looping, tables, main, loop
    <2>18. CASE ReplyShutdown(t)
      <3>1. active_fd_list' = active_fd_list /\ own' = own
        BY <2>18 DEF ReplyShutdown, tables, main, loop
      <3>2. W(t)' = W(t) /\ \A l : Active(l)' = Active(l)
        BY <1>d, <3>1
      <3>3. WatchAt(t)'
        BY <1>a, <1>w, <3>1, <3>2, <2>18 DEF ReplyShutdown, Looping, tables, main, loop, WatchAt, W
      <3>4. QED BY <1>a, <1>c, <3>1, <3>2, <3>3, <2>18
                   DEF ReplyShutdown, Looping, tables, main, loop
    <2>19. CASE FreeIfd(t)
      <3>1. PICK l \in Listeners : l = other[t]
        BY <1>0, <2>19, FreeEffect
      <3>2. PICK f \in ConnFds : f = cur[t]
        BY <1>0, <2>19, FreeEffect
      <3>3. /\ l \in own[t] /\ f \in Active(l) /\ Active(l)' = Active(l) \ {f}
            /\ \A k \in Listeners : k # l => Active(k)' = Active(k)
            /\ \A k \in Listeners : Live(k)' = Live(k)
        BY <1>0, <3>1, <3>2, <2>19, FreeEffect
      <3>4. /\ pc[t] \in {"closing", "replying"} /\ pc' = [pc EXCEPT ![t] = Freed(t)]
            /\ FreedIs(t)
            /\ cur' = cur /\ other' = other /\ calls' = calls /\ ready' = ready /\ own' = own
            /\ do_update' = do_update /\ watched' = watched /\ open' = open
            /\ g_fds_array' = [g_fds_array EXCEPT ![f] = NULL]
        BY <3>2, <2>19, FreedTo DEF FreeIfd, main, loop, kernel
      <3>5. WatchAt(t)'
        BY <1>a, <1>w, <3>4 DEF WatchAt, FreedIs
      <3>6. QED BY <1>a, <1>c, <3>3, <3>4, <3>5
    <2>20. CASE CloseAgain(t)
      <3>1. active_fd_list' = active_fd_list /\ own' = own
        BY <2>20 DEF CloseAgain, tables, main
      <3>2. W(t)' = W(t) /\ \A l : Active(l)' = Active(l)
        BY <1>d, <3>1
      <3>3. WatchAt(t)'
        BY <1>a, <1>w, <3>1, <3>2, <2>20 DEF CloseAgain, tables, main, loop, WatchAt, W
      <3>4. QED BY <1>a, <1>c, <3>1, <3>2, <3>3, <2>20 DEF CloseAgain, tables, main, loop
    <2>21. CASE EndReceive(t)
      <3>1. active_fd_list' = active_fd_list /\ own' = own
        BY <2>21 DEF EndReceive, tables, main, loop
      <3>2. W(t)' = W(t) /\ \A l : Active(l)' = Active(l)
        BY <1>d, <3>1
      <3>3. WatchAt(t)'
        BY <1>a, <1>w, <3>1, <3>2, <2>21 DEF EndReceive, ToRound, tables, main, loop, WatchAt, W
      <3>4. QED BY <1>a, <1>c, <3>1, <3>2, <3>3, <2>21 DEF EndReceive, ToRound, tables, main, loop
    <2>22. QED
      BY <1>11, <2>1, <2>2, <2>3, <2>4, <2>5, <2>6, <2>7, <2>8, <2>9, <2>10, <2>11, <2>12, <2>13,
         <2>14, <2>15, <2>16, <2>17, <2>18, <2>19, <2>20, <2>21
         DEF Step
  <1>12. QED
    BY <1>1, <1>2, <1>3, <1>4, <1>5, <1>6, <1>7, <1>8, <1>9, <1>10, <1>11
       DEF Next, Environment, MainStep

\* In the beginning no connection is open and no thread has begun.
LEMMA InitInv ==
    ASSUME Init
    PROVE  IInv
  <1>1. s_user_params \in Settings
    BY DEF Init
  <1>2. /\ threads_num \in Nat \ {0} /\ Threads = 1 .. threads_num /\ 1 \in Threads
        /\ mthread_server \in BOOLEAN /\ (~mthread_server => threads_num = 1)
        /\ threads_num \in 1 .. s_fd_num
    BY <1>1, SettingFacts DEF Threads
  <1>3. Listeners \subseteq Fds /\ ConnFds \subseteq Fds /\ Listeners \cap ConnFds = {} /\ NULL \notin Fds
    BY FdFacts
  <1>4. TypeOK
    <2>1. KernelOK
      BY <1>2, ServerAssumption DEF Init, KernelOK
    <2>2. TablesOK
      BY <1>1, <1>3 DEF Init, TablesOK
    <2>3. MainOK
      BY <1>2 DEF Init, MainOK
    <2>4. LoopOK
      BY DEF Init, LoopOK
    <2>5. pc \in [Threads -> PcValues] /\ g_b_exit \in BOOLEAN
      BY DEF Init, PcValues
    <2>6. QED BY <2>1, <2>2, <2>3, <2>4, <2>5, TypeParts
  <1>5. MainInv
    BY <1>2 DEF Init, MainInv
  <1>6. OwnInv
    <2>1. CASE mthread_server
      BY <2>1 DEF Init, OwnInv
    <2>2. CASE ~mthread_server
      <3>1. Threads = {1} /\ Share(1) = Listeners
        BY <1>1, <1>2, <2>2, SharesDisjoint
      <3>2. QED BY <2>2, <3>1 DEF Init, OwnInv
    <2>3. QED BY <1>2, <2>1, <2>2
  <1>7. \A l \in Listeners : Active(l) = {} /\ Live(l) = {}
    BY DEF Init, Active, Live
  <1>8. PlaceInv
    BY DEF Init, PlaceInv, PlaceAt
  <1>9. ListInv
    <2>1. SUFFICES ASSUME NEW l \in Listeners PROVE ListAt(l)
      BY DEF ListInv
    <2>2. \A s \in Slots : active_fd_list[l][s] = INVALID_SOCKET
      BY DEF Init
    <2>3. {s \in Slots : active_fd_list[l][s] # INVALID_SOCKET} = {}
      BY <2>2
    <2>4. Cardinality({s \in Slots : active_fd_list[l][s] # INVALID_SOCKET}) = 0
      BY <2>3, FS_EmptySet
    <2>5. active_fd_count[l] = 0
      BY DEF Init
    <2>6. QED BY <2>2, <2>4, <2>5, FdFacts DEF ListAt
  <1>10. BegunInv
    <2>1. \A t \in Threads : Share(t) \subseteq Listeners
      BY <1>1, SharesDisjoint
    <2>2. QED BY <1>7, <2>1 DEF BegunInv
  <1>11. RecordInv
    BY <1>3, <1>7 DEF Init, RecordInv
  <1>12. LiveInv
    BY <1>2, <1>7 DEF Init, LiveInv, Disjoint, LiveOpen, Fresh, OpenLive, ClosedAlone
  <1>13. WatchInv
    BY DEF Init, WatchInv, WatchAt
  <1>14. QED BY <1>4, <1>5, <1>6, <1>8, <1>9, <1>10, <1>11, <1>12, <1>13 DEF IInv

\* The invariant is inductive.
LEMMA StepInv ==
    ASSUME IInv, [Next]_vars
    PROVE  IInv'
  <1>1. CASE Next
    BY <1>1, TypeStep, MainStepInv, PlaceStep, ListStep, BegunStep, RecordStep, LiveStep, WatchStep
       DEF IInv
  <1>2. CASE UNCHANGED vars
    <2>1. /\ s_user_params' = s_user_params /\ threads_num' = threads_num /\ Threads' = Threads
          /\ mthread_server' = mthread_server
      BY <1>2, SettingKept DEF vars
    <2>2. TypeOK'
      BY <1>2, <2>1 DEF IInv, TypeOK, vars
    <2>3. /\ \A u : Share(u)' = Share(u)
          /\ \A l : Active(l)' = Active(l)
          /\ \A l : Closing(l)' = Closing(l)
      BY <1>2, <2>1 DEF Share, Offset, Active, Closing, Closes, vars
    <2>4. /\ \A l : Live(l)' = Live(l)
          /\ \A u : Mine(u)' = Mine(u)
      BY <1>2, <2>1, <2>3 DEF Live, Mine, vars
    <2>5. MainInv' /\ OwnInv'
      BY <1>2, <2>1, <2>3 DEF IInv, MainInv, OwnInv, vars
    <2>6. PlaceInv'
      BY <1>2, <2>1, <2>3, <2>4 DEF IInv, PlaceInv, PlaceAt, vars
    <2>7. ListInv'
      BY <1>2, <2>1 DEF IInv, ListInv, ListAt, vars
    <2>8. BegunInv' /\ RecordInv'
      BY <1>2, <2>1, <2>3, <2>4 DEF IInv, BegunInv, RecordInv, vars
    <2>9. LiveInv'
      BY <1>2, <2>1, <2>4
         DEF IInv, LiveInv, Disjoint, LiveOpen, Fresh, OpenLive, ClosedAlone, Running, vars
    <2>10. WatchInv'
      BY <1>2, <2>1, <2>3 DEF IInv, WatchInv, WatchAt, vars
    <2>11. QED BY <2>2, <2>5, <2>6, <2>7, <2>8, <2>9, <2>10 DEF IInv
  <1>3. QED BY <1>1, <1>2

\* The invariant holds in every reachable state.
LEMMA Inductive == Spec => []IInv
  BY InitInv, StepInv, PTL DEF Spec
-----------------------------------------------------------------------------
(* The theorems. *)

\* The variables have their types for every number of threads, sockets and
\* descriptors; in particular close_ifd() never counts a connection it did not hold.
THEOREM TypeCorrect == Spec => []TypeOK
  <1>1. IInv => TypeOK
    BY DEF IInv
  <1>2. QED BY <1>1, Inductive, PTL

\* Its sockets and their connections are fewer than the events a thread asks for:
\* descriptor 0 is none of them.
LEMMA FewWatched ==
    ASSUME TypeOK, NEW t \in Threads
    PROVE  Cardinality(own[t] \cup UNION {Active(l) : l \in own[t]}) < max_fds_num
  <1> DEFINE W == own[t] \cup UNION {Active(l) : l \in own[t]}
             I == 1 .. (OpenMax - 1)
  <1>1. /\ FirstFd \in Nat \ {0} /\ s_fd_num \in Nat \ {0} /\ OpenMax \in Nat \ {0} /\ max_fds_num \in Nat
        /\ OpenMax <= max_fds_num /\ FirstFd + s_fd_num <= OpenMax
    BY FdFacts
  <1>2. Listeners \subseteq I /\ ConnFds \subseteq I
    BY <1>1 DEF Listeners, ConnFds
  <1>3. own[t] \subseteq Listeners /\ \A l \in own[t] : Active(l) \subseteq ConnFds
    BY ActiveFds, TypeParts DEF MainOK
  <1> HIDE DEF I
  <1>4. W \subseteq I
    BY <1>2, <1>3
  <1>5. IsFiniteSet(I) /\ Cardinality(I) = OpenMax - 1
    <2>1. 1 \in Int /\ OpenMax - 1 \in Int
      BY <1>1
    <2>2. IsFiniteSet(1 .. (OpenMax - 1))
          /\ Cardinality(1 .. (OpenMax - 1)) = IF 1 > OpenMax - 1 THEN 0 ELSE (OpenMax - 1) - 1 + 1
      BY <2>1, FS_Interval
    <2>3. QED BY <1>1, <2>2 DEF I
  <1>6. IsFiniteSet(W) /\ Cardinality(W) <= Cardinality(I)
    BY <1>4, <1>5, FS_Subset
  <1>7. Cardinality(W) \in Nat
    BY <1>6, FS_CardinalityType
  <1> HIDE DEF W
  <1>8. Cardinality(W) < max_fds_num
    BY <1>1, <1>5, <1>6, <1>7
  <1>9. QED BY <1>8 DEF W

\* The asserts of IoHandler::update() hold for every limit on descriptors: counts and
\* lists agree, the last slot stays free, and what a thread waits for fits its array.
THEOREM UpdatesSound == Spec => []UpdateAsserts
  <1>1. ASSUME IInv PROVE UpdateAsserts
    <2>1. /\ TypeOK /\ \A l \in Listeners : ListAt(l)
          /\ \A t \in Threads : own[t] \subseteq Listeners
      BY <1>1, TypeParts DEF IInv, ListInv, MainOK
    <2>2. \A l \in Listeners :
            active_fd_count[l] = Cardinality({s \in Slots : active_fd_list[l][s] # INVALID_SOCKET})
      BY <2>1 DEF ListAt
    <2>3. \A t \in Threads : \A l \in own[t] : active_fd_list[l][MAX_ACTIVE_FD_NUM - 1] = INVALID_SOCKET
      BY <2>1 DEF ListAt
    <2>4. \A t \in Threads : Cardinality(own[t] \cup UNION {Active(l) : l \in own[t]}) < max_fds_num
      BY <2>1, FewWatched
    <2>5. QED BY <2>2, <2>3, <2>4 DEF UpdateAsserts
  <1>2. QED BY <1>1, Inductive, PTL

\* A thread that is not closing has no connection half closed.
LEMMA NoneClosing ==
    ASSUME TypeOK, OwnInv, PlaceInv, NEW t \in Threads, pc[t] \notin {"closing", "replying"},
           NEW l \in own[t]
    PROVE  Live(l) = Active(l)
  <1>1. Closing(l) = {}
    BY ClosingIs DEF Closes
  <1>2. QED BY <1>1 DEF Live

\* With one thread, whatever was accepted, refused and closed before: between two
\* rounds the open descriptors are the connections of the lists, each has the record
\* that says so, nothing else has one, and all are waited for.
THEOREM TablesConsistent == Spec => []TablesAgree
  <1>1. ASSUME IInv PROVE TablesAgree
    <2>1. SUFFICES ASSUME threads_num = 1, pc[1] \in {"top", "wait", "exit"}, watched[1] # {}
                   PROVE  /\ open = UNION {Active(l) : l \in Listeners}
                          /\ \A f \in ConnFds, l \in Listeners : g_fds_array[f] = l <=> f \in Active(l)
                          /\ watched[1] = own[1] \cup UNION {Active(l) : l \in own[1]}
      BY DEF TablesAgree
    <2>2. /\ TypeOK /\ OwnInv /\ PlaceInv /\ RecordInv /\ LiveInv /\ WatchInv
          /\ Threads = {1} /\ s_user_params \in Settings
      BY <1>1, <2>1 DEF IInv, TypeOK, Threads
    <2>3. own[1] = Listeners
      BY <2>1, <2>2, SharesDisjoint DEF OwnInv
    <2>4. \A l \in Listeners : Live(l) = Active(l)
      BY <2>1, <2>2, <2>3, NoneClosing
    <2>5. Running
      BY <2>1, <2>2 DEF Running
    <2>6. open \subseteq UNION {Active(l) : l \in Listeners}
      <3>1. \A t \in Threads : pc[t] # "install"
        BY <2>1, <2>2
      <3>2. QED BY <2>2, <2>4, <2>5, <3>1 DEF LiveInv, OpenLive
    <2>7. UNION {Active(l) : l \in Listeners} \subseteq open
      BY <2>2, <2>4, <2>5 DEF LiveInv, LiveOpen
    <2>8. \A f \in ConnFds, l \in Listeners : g_fds_array[f] = l <=> f \in Active(l)
      BY <2>1, <2>2, <2>4 DEF RecordInv
    <2>9. watched[1] = own[1] \cup UNION {Active(l) : l \in own[1]}
      BY <2>1, <2>2 DEF WatchInv, WatchAt
    <2>10. QED BY <2>6, <2>7, <2>8, <2>9
  <1>2. QED BY <1>1, Inductive, PTL

\* Any number of threads that accept and close without a lock: two that wait never
\* wait for the same descriptor, although the kernel gives closed ones away at once.
THEOREM NoSharedDescriptor == Spec => []NotShared
  <1>1. ASSUME IInv PROVE NotShared
    <2>1. SUFFICES ASSUME NEW t \in Threads, NEW u \in Threads, t # u,
                          pc[t] \in {"top", "wait"}, pc[u] \in {"top", "wait"}
                   PROVE  watched[t] \cap watched[u] = {}
      BY DEF NotShared
    <2>2. TypeOK /\ OwnInv /\ PlaceInv /\ Disjoint /\ WatchInv
      BY <1>1 DEF IInv, LiveInv
    <2>3. /\ own[t] \subseteq Listeners /\ own[u] \subseteq Listeners
          /\ Listeners \cap ConnFds = {} /\ \A l \in Listeners : Active(l) \subseteq ConnFds
      BY <2>2, ActiveFds, TypeParts, FdFacts DEF MainOK
    <2>4. own[t] \cap own[u] = {}
      BY <2>1, <2>2, OneOwner
    <2>5. \A l \in own[t] : Live(l) = Active(l)
      BY <2>1, <2>2, NoneClosing
    <2>6. \A l \in own[u] : Live(l) = Active(l)
      BY <2>1, <2>2, NoneClosing
    <2>7. \A l \in own[t], k \in own[u] : Active(l) \cap Active(k) = {}
      <3>1. SUFFICES ASSUME NEW l \in own[t], NEW k \in own[u] PROVE Active(l) \cap Active(k) = {}
        OBVIOUS
      <3>2. l # k /\ l \in Listeners /\ k \in Listeners
        BY <2>3, <2>4
      <3>3. QED BY <2>2, <2>5, <2>6, <3>2 DEF Disjoint
    <2>8. /\ watched[t] = own[t] \cup UNION {Active(l) : l \in own[t]}
          /\ watched[u] = own[u] \cup UNION {Active(l) : l \in own[u]}
      BY <2>1, <2>2 DEF WatchInv, WatchAt
    <2>9. QED BY <2>3, <2>4, <2>7, <2>8
  <1>2. QED BY <1>1, Inductive, PTL

\* The second close_ifd() of a connection that a reply found shut down finds nothing,
\* with any number of threads that reuse its descriptor in between.
THEOREM NeverClosedTwice == Spec => []ClosedOnce
  <1>1. IInv => ClosedOnce
    BY DEF IInv, PlaceInv, PlaceAt, ClosedOnce
  <1>2. QED BY <1>1, Inductive, PTL

\* server_select_per_thread() returns last, whatever failed and however threads are
\* recognised: every thread it created is joined, or has taken itself off the list.
THEOREM MainReturnsLast == Spec => []MainLast
  <1>1. IInv => MainLast
    BY DEF IInv, MainInv, MainLast
  <1>2. QED BY <1>1, Inductive, PTL
=============================================================================
