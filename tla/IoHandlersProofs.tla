--------------------------- MODULE IoHandlersProofs ---------------------------
(***************************************************************************)
(* Proofs that the six handlers of module IoHandlers implement module      *)
(* Multiplexer and that their scans are safe, for every number of          *)
(* descriptors, range of sockets and set of free descriptors around it.    *)
(*                                                                         *)
(* What a handler keeps (a set, an array, a range of numbers) agrees with  *)
(* the sockets and connections only between update() and the next accept   *)
(* or close; during a scan it may be old, and the scan is right because it *)
(* reads an old state consistently.  HandlerInv says what agrees when, and *)
(* ScanInv that the indices still to come lead to different descriptors    *)
(* that all have a record.                                                 *)
(***************************************************************************)
EXTENDS IoHandlers, FiniteSetTheorems, FunctionTheorems, NaturalsInduction, TLAPS

-----------------------------------------------------------------------------
(* The invariant. *)

\* A connection has one place in the list of its socket.  Under IoRecvfrom it
\* is the first: analyzeArrival() looks at no other.
ListInv ==
    /\ s_user_params \in Settings
    /\ active_fd_list \in
          [Sockets -> [Slots -> s_user_params.free \cup {INVALID_SOCKET}]]
    /\ \A s \in Sockets : \A i, j \in Slots :
          active_fd_list[s][i] = active_fd_list[s][j]
              /\ active_fd_list[s][i] # INVALID_SOCKET => i = j
    /\ handler = "RECVFROM" =>
          \A i \in Slots : active_fd_list[m_fd_min][i] # INVALID_SOCKET => i = 0
    /\ readable \subseteq Records

\* No array is exceeded.
BoundInv ==
    /\ m_max_events \in Nat /\ m_max_events < max_fds_num
    /\ mp_poll_fd_arr \in Seq(Fds) /\ Len(mp_poll_fd_arr) <= max_fds_num

RecvfromInv ==
    handler = "RECVFROM" => m_look_start = m_fd_min /\ m_look_end = m_fd_min + 1

\* Every record is in the range IoRecvfromMUX goes around.
MUXInv ==
    handler = "RECVFROMMUX" =>
        /\ m_look_start \in Int
        /\ m_fd_min_all \in Int /\ m_fd_max_all \in Int
        /\ ~do_update => Records \subseteq m_fd_min_all .. m_fd_max_all

SelectInv ==
    handler = "SELECT" =>
        /\ m_look_start \in Int /\ m_look_end \in Int
        /\ ~do_update => /\ interest = Records
                         /\ Records \subseteq m_look_start .. (m_look_end - 1)

\* The places of the poll array that are asked for hold different descriptors,
\* the sockets first.
PollInv ==
    handler = "POLL" =>
        /\ m_look_start = 0 /\ m_look_end = Len(mp_poll_fd_arr)
        /\ m_fd_num <= Len(mp_poll_fd_arr)
        /\ \A i \in 1 .. m_fd_num : mp_poll_fd_arr[i] = m_fd_min + i - 1
        /\ \A i, j \in 1 .. Len(mp_poll_fd_arr) :
              mp_poll_fd_arr[i] = mp_poll_fd_arr[j] => i = j
        /\ ~do_update => {mp_poll_fd_arr[i] : i \in 1 .. Len(mp_poll_fd_arr)} = Records

\* The kernel forgets what is closed at once and is told of a connection by
\* update(); a list of events has room for all it knows.
EventInv ==
    EventList =>
        /\ m_look_start = 0
        /\ Sockets \subseteq interest /\ interest \subseteq Records
        /\ ~do_update => interest = Records /\ m_max_events = Cardinality(Records)

HandlerInv == RecvfromInv /\ MUXInv /\ SelectInv /\ PollInv /\ EventInv

\* The indices the scan has still to look at.
Places == ifd .. (m_look_end - 1)

ScanInv ==
    /\ pc \in {"wait", "scan"} /\ do_update \in BOOLEAN
    /\ pc = "wait" => ~do_update
    /\ pc = "scan" =>
        /\ ifd \in Int /\ m_look_end \in Int
        /\ OneByOne => ifd >= m_look_start /\ m_look_end = m_look_start + 1
        /\ \A i \in Places : analyzeArrival(i) \in Records \cup {0}
        /\ \A i, j \in Places :
              analyzeArrival(i) = analyzeArrival(j) /\ analyzeArrival(i) # 0 => i = j
        /\ numReady = Cardinality(Remaining)

IInv == ListInv /\ BoundInv /\ HandlerInv /\ ScanInv

-----------------------------------------------------------------------------
(* Extremes of sets of numbers, and orders of finite sets. *)

\* A set of natural numbers has a least element, which Lowest() is.
LEMMA LowestIs ==
    ASSUME NEW S \in SUBSET Nat, S # {}
    PROVE  Lowest(S) \in S /\ \A g \in S : Lowest(S) <= g
  <1> DEFINE R == OpToRel(<, Nat)
  <1>1. IsWellFoundedOn(R, Nat) /\ \A x, y \in Nat : <<y, x>> \in R <=> y < x
    BY NatLessThanWellFounded DEF OpToRel
  <1> HIDE DEF R
  <1>2. PICK x \in S : \A y \in S : ~(<<y, x>> \in R)
    BY <1>1, WFMin
  <1>3. \E f \in S : \A g \in S : f <= g
    <2>1. ASSUME NEW y \in S PROVE x <= y
      <3>1. x \in Nat /\ y \in Nat
        OBVIOUS
      <3>2. ~(y < x)
        BY <1>1, <1>2, <3>1, Zenon
      <3>3. QED BY <3>1, <3>2
    <2>2. QED BY <2>1
  <1>4. QED BY <1>3 DEF Lowest

\* A bounded one has a greatest element, which Highest() is.
LEMMA HighestIs ==
    ASSUME NEW S \in SUBSET Nat, S # {}, NEW n \in Nat, \A x \in S : x <= n
    PROVE  Highest(S) \in S /\ \A g \in S : g <= Highest(S)
  <1>1. DEFINE T == {n - x : x \in S}
  <1>2. T \in SUBSET Nat /\ T # {}
    <2>1. ASSUME NEW x \in S PROVE n - x \in Nat
      <3>1. x \in Nat /\ x <= n
        OBVIOUS
      <3>2. QED BY <3>1
    <2>2. \A t \in T : t \in Nat
      BY <2>1
    <2>3. PICK x \in S : TRUE
      OBVIOUS
    <2>4. n - x \in T
      BY <2>3
    <2>5. QED BY <2>2, <2>4
  <1>3. Lowest(T) \in T /\ \A g \in T : Lowest(T) <= g
    BY <1>2, LowestIs
  <1>4. PICK x \in S : Lowest(T) = n - x
    BY <1>3
  <1>5. \A y \in S : n - x <= n - y
    BY <1>3, <1>4
  <1>6. \A y \in S : y <= x
    BY <1>5
  <1>7. QED BY <1>6 DEF Highest

LEMMA FunctionSeq ==
    ASSUME NEW S, NEW n \in Nat, NEW g \in [1 .. n -> S]
    PROVE  g \in Seq(S) /\ Len(g) = n
  OBVIOUS

LEMMA Concatenation ==
    ASSUME NEW S, NEW p \in Seq(S), NEW q \in Seq(S)
    PROVE  /\ p \o q \in Seq(S) /\ Len(p \o q) = Len(p) + Len(q)
           /\ \A i \in 1 .. Len(p) : (p \o q)[i] = p[i]
           /\ \A i \in (Len(p) + 1) .. (Len(p) + Len(q)) : (p \o q)[i] = q[i - Len(p)]
  OBVIOUS

\* An order of a finite set is a sequence of its elements, each of them once.
LEMMA OrderIs ==
    ASSUME NEW S, IsFiniteSet(S), NEW list \in SetToSeqs(S)
    PROVE  /\ list \in Seq(S) /\ Len(list) = Cardinality(S)
           /\ \A i, j \in 1 .. Len(list) : list[i] = list[j] => i = j
           /\ \A x \in S : \E i \in 1 .. Len(list) : list[i] = x
  <1>1. DEFINE n == Cardinality(S)
  <1>2. n \in Nat
    BY FS_CardinalityType
  <1>3. /\ list \in [1 .. n -> S]
        /\ \A i, j \in 1 .. n : list[i] = list[j] => i = j
    BY DEF SetToSeqs
  <1>4. list \in Seq(S) /\ Len(list) = n
    BY <1>2, <1>3, FunctionSeq
  <1>5. list \in Injection(1 .. n, S)
    BY <1>3, Fun_IsInj
  <1>6. IsFiniteSet(1 .. n) /\ Cardinality(1 .. n) = n
    BY <1>2, FS_Interval
  <1>7. list \in Surjection(1 .. n, S)
    BY <1>5, <1>6, FS_Injection
  <1>8. \A x \in S : \E i \in 1 .. n : list[i] = x
    BY <1>7 DEF Surjection
  <1>9. QED BY <1>3, <1>4, <1>8

-----------------------------------------------------------------------------
(* The settings, and the records. *)

LEMMA SettingFacts ==
    ASSUME s_user_params \in Settings
    PROVE  /\ max_fds_num \in Nat
           /\ handler \in {"RECVFROM", "RECVFROMMUX", "SELECT", "POLL", "EPOLL", "KQUEUE"}
           /\ m_fd_min \in Nat \ {0} /\ m_fd_max \in Nat
           /\ m_fd_min <= m_fd_max /\ m_fd_max < max_fds_num
           /\ handler = "RECVFROM" => m_fd_min = m_fd_max
           /\ Streams \subseteq Sockets
           /\ s_user_params.free \subseteq Fds \ Sockets
           /\ IsFiniteSet(Sockets) /\ Sockets \subseteq Fds
           /\ m_fd_num = m_fd_max - m_fd_min + 1
  <1>1. /\ max_fds_num \in Nat
        /\ handler \in {"RECVFROM", "RECVFROMMUX", "SELECT", "POLL", "EPOLL", "KQUEUE"}
        /\ m_fd_min \in Nat \ {0} /\ m_fd_max \in m_fd_min .. (max_fds_num - 1)
        /\ handler = "RECVFROM" => m_fd_min = m_fd_max
        /\ Streams \subseteq m_fd_min .. m_fd_max
        /\ s_user_params.free \subseteq (1 .. (max_fds_num - 1)) \ (m_fd_min .. m_fd_max)
    BY HandlerAssumption DEF handler, m_fd_min, m_fd_max, Streams
  <1>2. m_fd_max \in Nat /\ m_fd_min <= m_fd_max /\ m_fd_max < max_fds_num
    BY <1>1
  <1>3. IsFiniteSet(Sockets) /\ m_fd_num = m_fd_max - m_fd_min + 1
    BY <1>1, <1>2, FS_Interval DEF Sockets, m_fd_num
  <1>4. Sockets \subseteq Fds
    BY <1>1, <1>2 DEF Sockets, Fds
  <1>5. QED BY <1>1, <1>2, <1>3, <1>4 DEF Sockets, Fds

\* The descriptors are those of the settings: finite, positive, and fewer than
\* the places of an array.
LEMMA RecordFacts ==
    ASSUME ListInv
    PROVE  /\ Connections \subseteq s_user_params.free
           /\ Records \subseteq Fds /\ Records \subseteq Nat /\ 0 \notin Records
           /\ IsFiniteSet(Connections) /\ IsFiniteSet(Records)
           /\ Cardinality(Connections) \in Nat
           /\ Cardinality(Records) = m_fd_num + Cardinality(Connections)
           /\ Cardinality(Records) < max_fds_num
           /\ Connections \cap Sockets = {}
           /\ Sockets # {} /\ Sockets \subseteq Records
  <1>1. s_user_params \in Settings
    BY DEF ListInv
  <1>2. \A s \in Sockets : Active(s) \subseteq s_user_params.free
    BY DEF ListInv, Active
  <1>3. Connections \subseteq s_user_params.free
    BY <1>2 DEF Connections
  <1>4. s_user_params.free \subseteq Fds \ Sockets /\ Sockets \subseteq Fds /\ max_fds_num \in Nat
    BY <1>1, SettingFacts
  <1>5. Records \subseteq Fds /\ Connections \cap Sockets = {}
    BY <1>3, <1>4 DEF Records
  <1>6. Fds \subseteq Nat /\ 0 \notin Fds
    BY <1>4 DEF Fds
  <1>7. IsFiniteSet(Fds) /\ Cardinality(Fds) = IF 1 > max_fds_num - 1 THEN 0 ELSE max_fds_num - 1
    BY <1>4, FS_Interval DEF Fds
  <1>8. m_fd_min \in Nat \ {0} /\ m_fd_max \in Nat /\ m_fd_min <= m_fd_max /\ m_fd_max < max_fds_num
    BY <1>1, SettingFacts
  <1>9. IsFiniteSet(Records) /\ Cardinality(Records) <= Cardinality(Fds)
    BY <1>5, <1>7, FS_Subset
  <1>10. Connections \subseteq Fds
    BY <1>3, <1>4
  <1>11. IsFiniteSet(Connections)
    BY <1>7, <1>10, FS_Subset
  <1>12. Cardinality(Connections) \in Nat /\ Cardinality(Records) \in Nat
    BY <1>9, <1>11, FS_CardinalityType
  <1>13. Cardinality(Records) < max_fds_num
    BY <1>4, <1>7, <1>8, <1>9, <1>12
  <1>14. IsFiniteSet(Sockets) /\ Cardinality(Sockets) = m_fd_num /\ m_fd_num \in Nat
    BY <1>1, <1>8, SettingFacts DEF m_fd_num
  <1>15. Cardinality(Records) =
            Cardinality(Sockets) + Cardinality(Connections) - Cardinality(Sockets \cap Connections)
    BY <1>11, <1>14, FS_Union DEF Records
  <1>16. Sockets \cap Connections = {}
    BY <1>5
  <1>17. Cardinality(Sockets \cap Connections) = 0
    BY <1>16, FS_EmptySet
  <1>18. Cardinality(Records) = m_fd_num + Cardinality(Connections)
    BY <1>12, <1>14, <1>15, <1>17
  <1>19. Sockets # {} /\ Sockets \subseteq Records
    BY <1>8 DEF Sockets, Records
  <1>20. QED BY <1>3, <1>5, <1>6, <1>9, <1>11, <1>12, <1>13, <1>18, <1>19

\* A descriptor without connections has an empty list.
LEMMA NoActive ==
    ASSUME ListInv, NEW f \in Sockets
    PROVE  /\ IsFiniteSet(Active(f)) /\ Cardinality(Active(f)) \in Nat
           /\ active_fd_count(f) = Cardinality(Active(f))
           /\ active_fd_count(f) = 0 <=> Active(f) = {}
           /\ active_fd_count(f) > 0 <=> Active(f) # {}
  <1>1. Active(f) \subseteq Connections
    BY DEF Connections
  <1>2. IsFiniteSet(Active(f))
    BY <1>1, RecordFacts, FS_Subset
  <1>3. Cardinality(Active(f)) \in Nat
    BY <1>2, FS_CardinalityType
  <1>4. Cardinality(Active(f)) = 0 <=> Active(f) = {}
    BY <1>2, FS_EmptySet
  <1>5. active_fd_count(f) = Cardinality(Active(f))
    BY DEF active_fd_count
  <1>6. QED BY <1>2, <1>3, <1>4, <1>5


\* While a list is not full, server_accept() finds a free place in it.
LEMMA FreeSlot ==
    ASSUME ListInv, NEW f \in Sockets, active_fd_count(f) < MAX_ACTIVE_FD_NUM - 1
    PROVE  /\ FirstFree(f) \in Slots /\ active_fd_list[f][FirstFree(f)] = INVALID_SOCKET
           /\ \A i \in Slots : active_fd_list[f][i] = INVALID_SOCKET => FirstFree(f) <= i
  <1> DEFINE F == {i \in Slots : active_fd_list[f][i] = INVALID_SOCKET}
             L == active_fd_list[f]
  <1>1. max_fds_num \in Nat
    BY HandlerAssumption
  <1>2. IsFiniteSet(Slots) /\ Cardinality(Slots) = max_fds_num
    BY <1>1, FS_Interval DEF Slots, MAX_ACTIVE_FD_NUM
  <1>3. F # {}
    <2>1. SUFFICES ASSUME F = {} PROVE FALSE
      OBVIOUS
    <2>2. L \in [Slots -> s_user_params.free \cup {INVALID_SOCKET}]
      BY DEF ListInv
    <2>3. \A i \in Slots : L[i] \in Active(f)
      BY <2>1 DEF Active
    <2>4. L \in [Slots -> Active(f)]
      BY <2>2, <2>3
    <2>5. \A i, j \in Slots : L[i] = L[j] => i = j
      BY <2>1 DEF ListInv
    <2>6. L \in Injection(Slots, Active(f))
      BY <2>4, <2>5, Fun_IsInj
    <2>7. Cardinality(Slots) <= Cardinality(Active(f))
      BY <2>6, NoActive, FS_Injection
    <2>8. Cardinality(Active(f)) < max_fds_num - 1 /\ Cardinality(Active(f)) \in Nat
      BY NoActive DEF MAX_ACTIVE_FD_NUM
    <2>9. QED BY <1>1, <1>2, <2>7, <2>8
  <1>4. F \in SUBSET Nat
    BY <1>1 DEF Slots, MAX_ACTIVE_FD_NUM
  <1>5. Lowest(F) \in F /\ \A g \in F : Lowest(F) <= g
    BY <1>3, <1>4, LowestIs
  <1>6. QED BY <1>5 DEF FirstFree

\* IoRecvfromMUX has a next descriptor, which is a record without connections.
LEMMA CandidateExists ==
    ASSUME ListInv, m_fd_min_all \in Int, m_fd_max_all \in Int,
           Records \subseteq m_fd_min_all .. m_fd_max_all
    PROVE  Candidates # {} /\ Candidates \subseteq Records
  <1>1. Candidates = {f \in Records : active_fd_count(f) = 0}
    BY DEF Candidates
  <1>2. CASE Connections = {}
    <2>1. PICK f \in Sockets : TRUE
      BY RecordFacts
    <2>2. Active(f) = {}
      BY <1>2 DEF Connections
    <2>3. f \in Records /\ active_fd_count(f) = 0
      BY <2>2, NoActive, RecordFacts
    <2>4. QED BY <1>1, <2>3
  <1>3. CASE Connections # {}
    <2>1. PICK f \in Connections : TRUE
      BY <1>3
    <2>2. f \notin Sockets
      BY RecordFacts
    <2>3. f \in Records /\ active_fd_count(f) = 0
      BY <2>2 DEF Records, active_fd_count
    <2>4. QED BY <1>1, <2>3
  <1>4. QED BY <1>1, <1>2, <1>3

LEMMA NextLookIs ==
    ASSUME Candidates # {}, Candidates \subseteq Nat
    PROVE  NextLook \in Candidates
  <1> DEFINE ahead == {f \in Candidates : f > m_look_start}
  <1>1. ahead \in SUBSET Nat /\ Candidates \in SUBSET Nat
    OBVIOUS
  <1>2. Lowest(Candidates) \in Candidates
    BY <1>1, LowestIs
  <1>3. ahead # {} => Lowest(ahead) \in Candidates
    <2>1. SUFFICES ASSUME ahead # {} PROVE Lowest(ahead) \in Candidates
      OBVIOUS
    <2>2. Lowest(ahead) \in ahead
      BY <1>1, <2>1, LowestIs
    <2>3. QED BY <2>2
  <1>4. QED BY <1>2, <1>3 DEF NextLook

-----------------------------------------------------------------------------
(* analyzeArrival(), handler by handler. *)

LEMMA AnalyzeOne ==
    ASSUME OneByOne, NEW i
    PROVE  analyzeArrival(i) = IF active_fd_count(i) > 0 THEN active_fd_list[i][0] ELSE i
  BY DEF analyzeArrival, OneByOne

LEMMA AnalyzeSelect ==
    ASSUME handler = "SELECT", NEW i
    PROVE  analyzeArrival(i) = IF i \in m_readfds THEN i ELSE 0
  BY DEF analyzeArrival, OneByOne

LEMMA AnalyzePoll ==
    ASSUME handler = "POLL", NEW i
    PROVE  analyzeArrival(i) =
              IF mp_poll_fd_arr[i + 1] \in m_readfds THEN mp_poll_fd_arr[i + 1] ELSE 0
  BY DEF analyzeArrival, OneByOne

LEMMA AnalyzeEvents ==
    ASSUME EventList, NEW i
    PROVE  analyzeArrival(i) = events[i + 1]
  BY DEF analyzeArrival, OneByOne, EventList

\* An index of IoRecvfrom or of IoRecvfromMUX: what is looked at has a record.
LEMMA OneRecord ==
    ASSUME ListInv, handler = "RECVFROM"
    PROVE  analyzeArrival(m_fd_min) \in Records
  <1>1. m_fd_min \in Sockets /\ 0 \in Slots /\ OneByOne
    BY SettingFacts DEF ListInv, Sockets, Slots, MAX_ACTIVE_FD_NUM, OneByOne
  <1>2. CASE active_fd_count(m_fd_min) > 0
    <2>1. Active(m_fd_min) # {}
      BY <1>1, <1>2, NoActive
    <2>2. PICK i \in Slots : active_fd_list[m_fd_min][i] # INVALID_SOCKET
      BY <2>1 DEF Active
    <2>3. i = 0
      BY <2>2 DEF ListInv
    <2>4. active_fd_list[m_fd_min][0] \in Active(m_fd_min)
      BY <1>1, <2>2, <2>3 DEF Active
    <2>5. active_fd_list[m_fd_min][0] \in Records
      BY <1>1, <2>4 DEF Records, Connections
    <2>6. QED BY <1>1, <1>2, <2>5, AnalyzeOne
  <1>3. CASE ~(active_fd_count(m_fd_min) > 0)
    BY <1>1, <1>3, AnalyzeOne, RecordFacts
  <1>4. QED BY <1>2, <1>3

\* What stays while the settings stay, and while the lists stay.
LEMMA Settled ==
    ASSUME UNCHANGED s_user_params
    PROVE  /\ handler' = handler /\ m_fd_min' = m_fd_min /\ m_fd_max' = m_fd_max
           /\ Sockets' = Sockets /\ m_fd_num' = m_fd_num /\ Blocked' = Blocked
           /\ OneByOne' = OneByOne /\ EventList' = EventList
  BY DEF handler, m_fd_min, m_fd_max, Sockets, m_fd_num, Blocked, OneByOne, EventList

LEMMA ListsStay ==
    ASSUME UNCHANGED <<s_user_params, active_fd_list>>
    PROVE  /\ Connections' = Connections /\ Records' = Records
           /\ \A f : active_fd_count(f)' = active_fd_count(f)
  <1>1. Sockets' = Sockets
    BY Settled
  <1>2. \A s : Active(s)' = Active(s)
    BY DEF Active
  <1>3. Connections' = Connections /\ Records' = Records
    BY <1>1, <1>2 DEF Connections, Records
  <1>4. \A f : active_fd_count(f)' = active_fd_count(f)
    BY <1>1, <1>2 DEF active_fd_count
  <1>5. QED BY <1>3, <1>4

LEMMA ListInvStays ==
    ASSUME ListInv, UNCHANGED <<s_user_params, active_fd_list>>, readable' \subseteq Records
    PROVE  ListInv'
  BY Settled, ListsStay DEF ListInv

LEMMA HandlerStays ==
    ASSUME BoundInv, HandlerInv,
           UNCHANGED <<s_user_params, active_fd_list, handler_vars, do_update>>
    PROVE  BoundInv' /\ HandlerInv'
  <1>1. BoundInv'
    BY DEF BoundInv, handler_vars
  <1>2. RecvfromInv' /\ MUXInv' /\ SelectInv'
    BY Settled, ListsStay DEF HandlerInv, RecvfromInv, MUXInv, SelectInv, handler_vars
  <1>3. PollInv'
    BY Settled, ListsStay DEF HandlerInv, PollInv, handler_vars
  <1>4. EventInv'
    BY Settled, ListsStay DEF HandlerInv, EventInv, handler_vars
  <1>5. QED BY <1>1, <1>2, <1>3, <1>4 DEF HandlerInv

\* analyzeArrival() depends on what the handler keeps of the round.
LEMMA AnalyzeStays ==
    ASSUME UNCHANGED <<s_user_params, active_fd_list, mp_poll_fd_arr, m_readfds, events>>, NEW i
    PROVE  analyzeArrival(i)' = analyzeArrival(i)
  BY Settled, ListsStay DEF analyzeArrival

\* It does not depend on the lists, but for IoRecvfrom and IoRecvfromMUX.
LEMMA AnalyzeKept ==
    ASSUME ~OneByOne, UNCHANGED <<s_user_params, mp_poll_fd_arr, m_readfds, events>>, NEW i
    PROVE  analyzeArrival(i)' = analyzeArrival(i)
  <1>1. handler' = handler /\ ~OneByOne'
    BY Settled
  <1>2. QED BY <1>1 DEF analyzeArrival

LEMMA RemainingIs ==
    ASSUME pc = "scan"
    PROVE  Remaining = {analyzeArrival(i) : i \in Places} \ {0}
  BY DEF Remaining, Places

LEMMA RemainingNext ==
    ASSUME pc' = "scan"
    PROVE  Remaining' = {analyzeArrival(i)' : i \in Places'} \ {0}
  BY DEF Remaining, Places

LEMMA PlacesFinite ==
    ASSUME ifd \in Int, m_look_end \in Int, pc = "scan"
    PROVE  IsFiniteSet(Places) /\ IsFiniteSet(Remaining)
  <1>1. IsFiniteSet(Places)
    BY FS_Interval DEF Places
  <1>2. DEFINE g == [i \in Places |-> analyzeArrival(i)]
               T == {analyzeArrival(i) : i \in Places}
  <1>3. g \in Surjection(Places, T)
    BY DEF Surjection
  <1>4. IsFiniteSet(T)
    BY <1>1, <1>3, FS_Surjection
  <1>5. Remaining \subseteq T
    BY RemainingIs
  <1>6. QED BY <1>1, <1>4, <1>5, FS_Subset

-----------------------------------------------------------------------------
(* Initially. *)

LEMMA InitInv == Init => IInv
  <1>1. SUFFICES ASSUME Init PROVE IInv
    OBVIOUS
  <1>2. s_user_params \in Settings
    BY <1>1 DEF Init
  <1>3. \A s \in Sockets : Active(s) = {}
    BY <1>1 DEF Init, Active
  <1>4. Connections = {} /\ Records = Sockets
    BY <1>3 DEF Connections, Records
  <1>5. ListInv
    <2>1. m_fd_min \in Sockets
      BY <1>2, SettingFacts DEF Sockets
    <2>2. QED BY <1>1, <1>2, <2>1 DEF Init, ListInv
  <1>6. /\ m_fd_num \in Nat /\ m_fd_num < max_fds_num /\ m_fd_num = Cardinality(Records)
        /\ max_fds_num \in Nat /\ m_fd_min \in Nat \ {0} /\ m_fd_max \in Nat
        /\ m_fd_num = m_fd_max - m_fd_min + 1 /\ m_fd_min <= m_fd_max /\ m_fd_max < max_fds_num
    BY <1>2, <1>4, SettingFacts DEF m_fd_num
  <1>7. handler = "POLL" =>
            /\ mp_poll_fd_arr = [i \in 1 .. m_fd_num |-> m_fd_min + i - 1]
            /\ mp_poll_fd_arr \in Seq(Fds) /\ Len(mp_poll_fd_arr) = m_fd_num
    <2>1. SUFFICES ASSUME handler = "POLL"
                   PROVE  /\ mp_poll_fd_arr = [i \in 1 .. m_fd_num |-> m_fd_min + i - 1]
                          /\ mp_poll_fd_arr \in Seq(Fds) /\ Len(mp_poll_fd_arr) = m_fd_num
      OBVIOUS
    <2>2. mp_poll_fd_arr = [i \in 1 .. m_fd_num |-> m_fd_min + i - 1]
      BY <1>1, <2>1 DEF Init
    <2>3. \A i \in 1 .. m_fd_num : m_fd_min + i - 1 \in Fds
      BY <1>6 DEF Fds
    <2>4. mp_poll_fd_arr \in [1 .. m_fd_num -> Fds]
      BY <2>2, <2>3
    <2>5. m_fd_num \in Nat
      BY <1>6
    <2>6. mp_poll_fd_arr \in Seq(Fds) /\ Len(mp_poll_fd_arr) = m_fd_num
      BY <2>4, <2>5, FunctionSeq
    <2>7. QED BY <2>2, <2>6
  <1>8. BoundInv
    <2>1. m_max_events \in Nat /\ m_max_events < max_fds_num
      BY <1>1, <1>6 DEF Init
    <2>2. handler # "POLL" => mp_poll_fd_arr = <<>>
      BY <1>1 DEF Init
    <2>3. mp_poll_fd_arr \in Seq(Fds) /\ Len(mp_poll_fd_arr) <= max_fds_num
      <3>1. CASE handler = "POLL"
        BY <1>6, <1>7, <3>1
      <3>2. CASE handler # "POLL"
        BY <1>6, <2>2, <3>2
      <3>3. QED BY <3>1, <3>2
    <2>4. QED BY <2>1, <2>3 DEF BoundInv
  <1>9. RecvfromInv
    BY <1>1 DEF Init, RecvfromInv
  <1>10. MUXInv
    BY <1>1, <1>4, <1>6 DEF Init, MUXInv, Sockets
  <1>11. SelectInv
    BY <1>1, <1>4, <1>6 DEF Init, SelectInv, Sockets
  <1>12. PollInv
    <2>1. SUFFICES ASSUME handler = "POLL" PROVE PollInv
      BY DEF PollInv
    <2>2. m_look_start = 0 /\ m_look_end = m_fd_num
      BY <1>1, <2>1 DEF Init
    <2>3. \A i \in 1 .. m_fd_num : mp_poll_fd_arr[i] = m_fd_min + i - 1
      BY <1>7, <2>1
    <2>4. {mp_poll_fd_arr[i] : i \in 1 .. m_fd_num} = Sockets
      <3>1. \A i \in 1 .. m_fd_num : mp_poll_fd_arr[i] \in Sockets
        BY <1>6, <2>3 DEF Sockets
      <3>2. \A f \in Sockets : f - m_fd_min + 1 \in 1 .. m_fd_num
                                 /\ mp_poll_fd_arr[f - m_fd_min + 1] = f
        BY <1>6, <2>3 DEF Sockets
      <3>3. QED BY <3>1, <3>2
    <2>5. QED BY <1>4, <1>6, <1>7, <2>1, <2>2, <2>3, <2>4 DEF PollInv
  <1>13. EventInv
    <2>1. SUFFICES ASSUME EventList PROVE EventInv
      BY DEF EventInv
    <2>2. handler \in {"EPOLL", "KQUEUE"}
      BY <2>1 DEF EventList
    <2>3. m_look_start = 0 /\ interest = Sockets /\ m_max_events = m_fd_num
      BY <1>1, <2>1, <2>2 DEF Init
    <2>4. QED BY <1>4, <1>6, <2>3 DEF EventInv
  <1>14. ScanInv
    BY <1>1 DEF Init, ScanInv
  <1>15. QED BY <1>5, <1>8, <1>9, <1>10, <1>11, <1>12, <1>13, <1>14 DEF IInv, HandlerInv


-----------------------------------------------------------------------------
(* waitArrival().  A scan begins with all that is ready. *)

\* A scan of one index.
LEMMA ScanOne ==
    ASSUME s_user_params' \in Settings, pc' = "scan", do_update' = FALSE,
           NEW x \in Int, ifd' = x, m_look_start' = x, m_look_end' = x + 1, numReady' = 1,
           NEW f, analyzeArrival(x)' = f, f # 0, f \in Records'
    PROVE  Remaining' = {f} /\ ScanInv'
  <1>1. Places' = {x}
    BY DEF Places
  <1>2. \A i \in Places' : analyzeArrival(i)' = f
    BY <1>1
  <1>3. Remaining' = {f}
    BY <1>1, <1>2, RemainingNext
  <1>4. Cardinality({f}) = 1
    BY FS_Singleton
  <1>5. numReady' = Cardinality(Remaining')
    BY <1>3, <1>4
  <1>6. /\ \A i \in Places' : analyzeArrival(i)' \in Records' \cup {0}
        /\ \A i, j \in Places' : i = j
    BY <1>1, <1>2
  <1>7. ScanInv'
    <2>1. /\ ifd' \in Int /\ m_look_end' \in Int
          /\ ifd' >= m_look_start' /\ m_look_end' = m_look_start' + 1
      OBVIOUS
    <2>2. pc' \in {"wait", "scan"} /\ pc' # "wait"
      OBVIOUS
    <2>3. do_update' \in BOOLEAN
      OBVIOUS
    <2>4. QED BY <1>5, <1>6, <2>1, <2>2, <2>3, Zenon DEF ScanInv
  <1>8. QED BY <1>3, <1>7

LEMMA WaitRecvfromStep ==
    ASSUME IInv, WaitRecvfrom
    PROVE  IInv' /\ \E f \in Records : Remaining' = {f}
  <1>1. /\ handler = "RECVFROM" /\ pc = "wait" /\ pc' = "scan" /\ ifd' = m_look_start
        /\ numReady' = m_fd_num /\ do_update' = do_update
        /\ UNCHANGED <<s_user_params, readable, active_fd_list, handler_vars, m_readfds, events>>
    BY DEF WaitRecvfrom, StartScan, handler_vars
  <1>2. ListInv' /\ BoundInv' /\ HandlerInv'
    <2>1. readable' \subseteq Records
      BY <1>1 DEF IInv, ListInv
    <2>2. QED BY <1>1, <2>1, ListInvStays, HandlerStays DEF IInv
  <1>3. do_update' = FALSE
    BY <1>1 DEF IInv, ScanInv
  <1>4. /\ m_look_start' = m_fd_min /\ ifd' = m_fd_min /\ m_look_end' = m_fd_min + 1
        /\ m_fd_min \in Int
    <2>1. m_look_start = m_fd_min /\ m_look_end = m_fd_min + 1
      BY <1>1 DEF IInv, HandlerInv, RecvfromInv
    <2>2. m_fd_min \in Nat
      BY SettingFacts DEF IInv, ListInv
    <2>3. QED BY <1>1, <2>1, <2>2 DEF handler_vars
  <1>5. numReady' = 1
    BY <1>1, SettingFacts DEF IInv, ListInv
  <1>6. PICK x \in Int : x = m_fd_min
    BY <1>4
  <1>7. PICK f : f = analyzeArrival(x)
    OBVIOUS
  <1>8. analyzeArrival(x)' = f
    BY <1>1, <1>7, AnalyzeStays DEF handler_vars
  <1>9. f \in Records /\ f # 0
    BY <1>1, <1>6, <1>7, OneRecord, RecordFacts DEF IInv
  <1>10. Records' = Records /\ s_user_params' \in Settings
    BY <1>1, ListsStay DEF IInv, ListInv
  <1>11. Remaining' = {f} /\ ScanInv'
    BY <1>1, <1>3, <1>4, <1>5, <1>6, <1>8, <1>9, <1>10, ScanOne
  <1>12. QED BY <1>2, <1>9, <1>11 DEF IInv

LEMMA WaitRecvfromMUXStep ==
    ASSUME IInv, WaitRecvfromMUX
    PROVE  IInv' /\ \E f \in Records : Remaining' = {f}
  <1>1. /\ handler = "RECVFROMMUX" /\ pc = "wait" /\ pc' = "scan" /\ Candidates # {}
        /\ m_look_start' = NextLook /\ m_look_end' = NextLook + 1 /\ ifd' = NextLook
        /\ numReady' = 1 /\ do_update' = do_update
        /\ UNCHANGED <<s_user_params, readable, active_fd_list, interest, mp_poll_fd_arr,
                       m_max_events, m_fd_min_all, m_fd_max_all, m_readfds, events>>
    BY DEF WaitRecvfromMUX, StartScan
  <1>2. do_update = FALSE
    BY <1>1 DEF IInv, ScanInv
  <1>3. /\ m_fd_min_all \in Int /\ m_fd_max_all \in Int
        /\ Records \subseteq m_fd_min_all .. m_fd_max_all
    BY <1>1, <1>2 DEF IInv, HandlerInv, MUXInv
  <1>4. Candidates \subseteq Records
    BY <1>3, CandidateExists DEF IInv
  <1>5. NextLook \in Candidates
    BY <1>1, <1>4, NextLookIs, RecordFacts DEF IInv
  <1>6. PICK x \in Int : x = NextLook
    BY <1>4, <1>5, RecordFacts DEF IInv
  <1>7. x \in Records /\ active_fd_count(x) = 0 /\ x # 0
    BY <1>4, <1>5, <1>6, RecordFacts DEF IInv, Candidates
  <1>8. analyzeArrival(x)' = x
    <2>1. analyzeArrival(x)' = analyzeArrival(x)
      BY <1>1, AnalyzeStays
    <2>2. OneByOne
      BY <1>1 DEF OneByOne
    <2>3. QED BY <1>7, <2>1, <2>2, AnalyzeOne
  <1>9. Records' = Records /\ s_user_params' \in Settings
    BY <1>1, ListsStay DEF IInv, ListInv
  <1>10. Remaining' = {x} /\ ScanInv'
    BY <1>1, <1>2, <1>6, <1>7, <1>8, <1>9, ScanOne
  <1>11. ListInv'
    <2>1. readable' \subseteq Records
      BY <1>1 DEF IInv, ListInv
    <2>2. QED BY <1>1, <2>1, ListInvStays DEF IInv
  <1>12. BoundInv'
    BY <1>1 DEF IInv, BoundInv
  <1>13. handler' = "RECVFROMMUX"
    BY <1>1, Settled
  <1>14. HandlerInv'
    BY <1>1, <1>3, <1>6, <1>9, <1>13
       DEF HandlerInv, RecvfromInv, MUXInv, SelectInv, PollInv, EventInv, EventList
  <1>15. QED BY <1>7, <1>10, <1>11, <1>12, <1>14 DEF IInv


\* A scan of what a system call found.
LEMMA ScanReady ==
    ASSUME ListInv, UNCHANGED <<s_user_params, active_fd_list>>, ~OneByOne,
           pc' = "scan", do_update' = FALSE, ifd' \in Int, m_look_end' \in Int,
           NEW ready, ready \subseteq Records, numReady' = Cardinality(ready),
           \A i \in Places' : analyzeArrival(i)' \in ready \cup {0},
           \A f \in ready : \E i \in Places' : analyzeArrival(i)' = f,
           \A i, j \in Places' :
              analyzeArrival(i)' = analyzeArrival(j)' /\ analyzeArrival(i)' # 0 => i = j
    PROVE  Remaining' = ready /\ ScanInv'
  <1>1. Records' = Records /\ ~OneByOne'
    BY Settled, ListsStay
  <1>2. 0 \notin ready
    BY RecordFacts
  <1>3. Remaining' = ready
    BY <1>2, RemainingNext
  <1>4. numReady' = Cardinality(Remaining')
    BY <1>3
  <1>5. \A i \in Places' : analyzeArrival(i)' \in Records' \cup {0}
    BY <1>1
  <1>6. pc' \in {"wait", "scan"} /\ do_update' \in BOOLEAN /\ pc' # "wait"
    OBVIOUS
  <1>7. ScanInv'
    BY <1>1, <1>4, <1>5, <1>6, Zenon DEF ScanInv
  <1>8. QED BY <1>3, <1>7

LEMMA WaitSelectPollStep ==
    ASSUME IInv, WaitSelectPoll
    PROVE  IInv' /\ ~OneByOne /\ Remaining' = Records \cap readable /\ Remaining' # {}
  <1> DEFINE ready == Asked \cap readable
  <1>1. /\ handler \in {"SELECT", "POLL"} /\ pc = "wait" /\ pc' = "scan" /\ ready # {}
        /\ m_readfds' = ready /\ ifd' = m_look_start /\ numReady' = Cardinality(ready)
        /\ UNCHANGED <<s_user_params, readable, active_fd_list, handler_vars, events, do_update>>
    BY DEF WaitSelectPoll, StartScan, handler_vars
  <1>2. do_update = FALSE
    BY <1>1 DEF IInv, ScanInv
  <1>3. ~OneByOne
    BY <1>1 DEF OneByOne
  <1>4. ListInv' /\ BoundInv' /\ HandlerInv'
    <2>1. readable' \subseteq Records
      BY <1>1 DEF IInv, ListInv
    <2>2. QED BY <1>1, <2>1, ListInvStays, HandlerStays DEF IInv
  <1>5. handler' = handler /\ m_look_end' = m_look_end /\ mp_poll_fd_arr' = mp_poll_fd_arr
    BY <1>1, Settled DEF handler_vars
  <1>6. Places' = m_look_start .. (m_look_end - 1)
    BY <1>1, <1>5 DEF Places
  <1>7. Records \subseteq Nat /\ 0 \notin Records
    BY RecordFacts DEF IInv
  <1>8. CASE handler = "SELECT"
    <2>1. /\ m_look_start \in Int /\ m_look_end \in Int /\ interest = Records
          /\ Records \subseteq m_look_start .. (m_look_end - 1)
      BY <1>2, <1>8 DEF IInv, HandlerInv, SelectInv
    <2>2. Asked = Records
      <3>1. \A f \in Records : f < m_look_end
        BY <1>7, <2>1
      <3>2. QED BY <1>8, <2>1, <3>1 DEF Asked
    <2>3. \A i : analyzeArrival(i)' = IF i \in ready THEN i ELSE 0
      BY <1>1, <1>5, <1>8 DEF analyzeArrival, OneByOne
    <2>4. ready \subseteq Places'
      BY <1>6, <2>1, <2>2
    <2>5. /\ \A i \in Places' : analyzeArrival(i)' \in ready \cup {0}
          /\ \A f \in ready : \E i \in Places' : analyzeArrival(i)' = f
          /\ \A i, j \in Places' :
                analyzeArrival(i)' = analyzeArrival(j)' /\ analyzeArrival(i)' # 0 => i = j
      BY <2>3, <2>4
    <2>6. ready \subseteq Records /\ ready = Records \cap readable
      BY <2>2
    <2>7. ifd' \in Int /\ m_look_end' \in Int /\ do_update' = FALSE
      BY <1>1, <1>2, <1>5, <2>1
    <2> HIDE DEF ready
    <2>8. Remaining' = ready /\ ScanInv'
      BY <1>1, <1>3, <2>5, <2>6, <2>7, ScanReady DEF IInv
    <2>9. QED BY <1>1, <1>3, <1>4, <2>6, <2>8 DEF IInv
  <1>9. CASE handler = "POLL"
    <2> DEFINE n == Len(mp_poll_fd_arr)
    <2>1. /\ m_look_start = 0 /\ m_look_end = n
          /\ \A i, j \in 1 .. n : mp_poll_fd_arr[i] = mp_poll_fd_arr[j] => i = j
          /\ {mp_poll_fd_arr[i] : i \in 1 .. n} = Records
      BY <1>2, <1>9 DEF IInv, HandlerInv, PollInv
    <2>2. n \in Nat
      BY DEF IInv, BoundInv
    <2>3. Asked = Records
      BY <1>9, <2>1 DEF Asked
    <2>4. \A i : analyzeArrival(i)' =
                   IF mp_poll_fd_arr[i + 1] \in ready THEN mp_poll_fd_arr[i + 1] ELSE 0
      BY <1>1, <1>5, <1>9 DEF analyzeArrival, OneByOne
    <2>5. Places' = 0 .. (n - 1)
      BY <1>6, <2>1
    <2>6. ready \subseteq Records /\ ready = Records \cap readable
      BY <2>3
    <2> HIDE DEF ready, n
    <2>7. \A i \in Places' : i \in Int /\ i + 1 \in 1 .. n
      BY <2>2, <2>5
    <2>8. \A i \in Places' : analyzeArrival(i)' \in ready \cup {0}
      BY <2>4
    <2>9. \A f \in ready : \E i \in Places' : analyzeArrival(i)' = f
      <3>1. SUFFICES ASSUME NEW f \in ready
                     PROVE  \E i \in Places' : analyzeArrival(i)' = f
        OBVIOUS
      <3>2. PICK k \in 1 .. n : mp_poll_fd_arr[k] = f
        BY <2>1, <2>6
      <3>3. k - 1 \in Places' /\ (k - 1) + 1 = k
        BY <2>2, <2>5
      <3>4. analyzeArrival(k - 1)' = f
        BY <2>4, <3>2, <3>3
      <3>5. QED BY <3>3, <3>4
    <2>10. \A i, j \in Places' :
              analyzeArrival(i)' = analyzeArrival(j)' /\ analyzeArrival(i)' # 0 => i = j
      <3>1. SUFFICES ASSUME NEW i \in Places', NEW j \in Places',
                            analyzeArrival(i)' = analyzeArrival(j)', analyzeArrival(i)' # 0
                     PROVE  i = j
        OBVIOUS
      <3>2. mp_poll_fd_arr[i + 1] = mp_poll_fd_arr[j + 1]
        BY <2>4, <3>1
      <3>3. i + 1 = j + 1
        BY <2>1, <2>7, <3>2
      <3>4. QED BY <2>7, <3>3
    <2>11. ifd' \in Int /\ m_look_end' \in Int /\ do_update' = FALSE
      BY <1>1, <1>2, <1>5, <2>1, <2>2
    <2>12. Remaining' = ready /\ ScanInv'
      BY <1>1, <1>3, <2>6, <2>8, <2>9, <2>10, <2>11, ScanReady DEF IInv, ready
    <2>13. QED BY <1>1, <1>3, <1>4, <2>6, <2>12 DEF IInv
  <1>10. QED BY <1>1, <1>8, <1>9

LEMMA WaitEventsStep ==
    ASSUME IInv, WaitEvents
    PROVE  IInv' /\ ~OneByOne /\ Remaining' = Records \cap readable /\ Remaining' # {}
  <1> DEFINE ready == interest \cap readable
  <1>1. /\ EventList /\ pc = "wait" /\ ready # {}
        /\ \E list \in SetToSeqs(ready) :
              LET n == IF Len(list) < m_max_events THEN Len(list) ELSE m_max_events
              IN /\ events' = SubSeq(list, 1, n)
                 /\ m_look_end' = n
                 /\ StartScan(n, m_look_start)
        /\ UNCHANGED <<m_look_start, m_readfds>>
    BY DEF WaitEvents
  <1>2. do_update = FALSE
    BY <1>1 DEF IInv, ScanInv
  <1>3. m_look_start = 0 /\ interest = Records /\ m_max_events = Cardinality(Records)
    BY <1>1, <1>2 DEF IInv, HandlerInv, EventInv
  <1>4. ready = Records \cap readable /\ ready \subseteq Records
    BY <1>3
  <1>5. IsFiniteSet(Records)
    BY RecordFacts DEF IInv
  <1> HIDE DEF ready
  <1>6. IsFiniteSet(ready) /\ Cardinality(ready) <= Cardinality(Records)
    BY <1>4, <1>5, FS_Subset
  <1>7. Cardinality(ready) \in Nat /\ Cardinality(Records) \in Nat
    BY <1>5, <1>6, FS_CardinalityType
  <1>8. PICK list \in SetToSeqs(ready) :
              LET n == IF Len(list) < m_max_events THEN Len(list) ELSE m_max_events
              IN /\ events' = SubSeq(list, 1, n)
                 /\ m_look_end' = n
                 /\ StartScan(n, m_look_start)
    BY <1>1
  <1> DEFINE m == Cardinality(ready)
  <1>9. /\ list \in Seq(ready) /\ Len(list) = m
        /\ \A i, j \in 1 .. Len(list) : list[i] = list[j] => i = j
        /\ \A x \in ready : \E i \in 1 .. Len(list) : list[i] = x
    BY <1>6, OrderIs
  <1>10. (IF Len(list) < m_max_events THEN Len(list) ELSE m_max_events) = m
    BY <1>3, <1>6, <1>7, <1>9
  <1>11. events' = SubSeq(list, 1, m) /\ m_look_end' = m /\ StartScan(m, m_look_start)
    BY <1>8, <1>10
  <1>12. \A i \in 1 .. m : events'[i] = list[i]
    BY <1>7, <1>9, <1>11
  <1>13. /\ pc' = "scan" /\ ifd' = 0 /\ numReady' = m /\ do_update' = FALSE
         /\ UNCHANGED <<s_user_params, readable, active_fd_list, interest, mp_poll_fd_arr,
                        m_max_events, m_fd_min_all, m_fd_max_all, do_update>>
    BY <1>2, <1>3, <1>11 DEF StartScan
  <1>14. /\ EventList' /\ ~OneByOne /\ ~OneByOne'
         /\ handler' \notin {"RECVFROM", "RECVFROMMUX", "SELECT", "POLL"}
    BY <1>1, <1>13, Settled DEF EventList, OneByOne
  <1>15. Places' = 0 .. (m - 1)
    BY <1>11, <1>13 DEF Places
  <1>16. \A i : analyzeArrival(i)' = events'[i + 1]
    BY <1>14 DEF analyzeArrival
  <1> HIDE DEF m
  <1>17. m \in Nat
    BY <1>7 DEF m
  <1>18. \A i \in Places' : i \in Int /\ i + 1 \in 1 .. m /\ analyzeArrival(i)' = list[i + 1]
    BY <1>12, <1>15, <1>16, <1>17
  <1>19. \A i \in Places' : analyzeArrival(i)' \in ready \cup {0}
    BY <1>9, <1>18
  <1>20. \A f \in ready : \E i \in Places' : analyzeArrival(i)' = f
    <2>1. SUFFICES ASSUME NEW f \in ready
                   PROVE  \E i \in Places' : analyzeArrival(i)' = f
      OBVIOUS
    <2>2. PICK k \in 1 .. m : list[k] = f
      BY <1>9
    <2>3. k - 1 \in Places' /\ (k - 1) + 1 = k
      BY <1>15, <1>17
    <2>4. analyzeArrival(k - 1)' = f
      BY <1>18, <2>2, <2>3
    <2>5. QED BY <2>3, <2>4
  <1>21. \A i, j \in Places' :
            analyzeArrival(i)' = analyzeArrival(j)' /\ analyzeArrival(i)' # 0 => i = j
    <2>1. SUFFICES ASSUME NEW i \in Places', NEW j \in Places',
                          analyzeArrival(i)' = analyzeArrival(j)'
                   PROVE  i = j
      OBVIOUS
    <2>2. i + 1 = j + 1
      BY <1>9, <1>18, <2>1
    <2>3. QED BY <1>18, <2>2
  <1>22. Remaining' = ready /\ ScanInv'
    <2>1. ifd' \in Int /\ m_look_end' \in Int /\ numReady' = Cardinality(ready)
      BY <1>11, <1>13, <1>17 DEF m
    <2>2. QED BY <1>4, <1>13, <1>14, <1>19, <1>20, <1>21, <2>1, ScanReady DEF IInv
  <1>23. ListInv'
    <2>1. readable' \subseteq Records
      BY <1>13 DEF IInv, ListInv
    <2>2. QED BY <1>13, <2>1, ListInvStays DEF IInv
  <1>24. BoundInv'
    BY <1>13 DEF IInv, BoundInv
  <1>25. HandlerInv'
    <2>1. EventInv'
      BY <1>1, <1>13, Settled, ListsStay DEF IInv, HandlerInv, EventInv
    <2>2. QED BY <1>14, <2>1 DEF HandlerInv, RecvfromInv, MUXInv, SelectInv, PollInv
  <1>26. QED BY <1>1, <1>4, <1>14, <1>22, <1>23, <1>24, <1>25 DEF IInv


-----------------------------------------------------------------------------
(* The rounds without an arrival, and the kernel. *)

\* What does not touch the handler nor the scan leaves them alone.
LEMMA ScanStays ==
    ASSUME ScanInv, UNCHANGED <<s_user_params, active_fd_list, mp_poll_fd_arr, m_look_start,
                                m_look_end, m_readfds, events, pc, ifd, numReady, do_update>>
    PROVE  ScanInv' /\ Remaining' = Remaining
  <1>1. \A i : analyzeArrival(i)' = analyzeArrival(i)
    BY AnalyzeStays
  <1>2. Places' = Places /\ Records' = Records /\ OneByOne' = OneByOne
    BY Settled, ListsStay DEF Places
  <1>3. Remaining' = Remaining
    BY <1>1 DEF Remaining
  <1>4. ScanInv'
    BY <1>1, <1>2, <1>3 DEF ScanInv
  <1>5. QED BY <1>3, <1>4

LEMMA TimeoutStep ==
    ASSUME IInv, Timeout
    PROVE  IInv' /\ Remaining' = Remaining
  <1>1. /\ pc = "wait" /\ ~OneByOne /\ m_look_end' = (IF EventList THEN 0 ELSE m_look_end)
        /\ UNCHANGED <<s_user_params, readable, active_fd_list, interest, mp_poll_fd_arr,
                       m_max_events, m_fd_min_all, m_fd_max_all, m_look_start, loop_vars>>
    BY DEF Timeout
  <1>2. pc' = "wait" /\ do_update' = do_update
    BY <1>1 DEF loop_vars
  <1>3. Remaining' = {} /\ Remaining = {}
    BY <1>1, <1>2 DEF Remaining
  <1>4. ScanInv'
    BY <1>1, <1>2 DEF IInv, ScanInv
  <1>5. ListInv'
    <2>1. readable' \subseteq Records
      BY <1>1 DEF IInv, ListInv
    <2>2. QED BY <1>1, <2>1, ListInvStays DEF IInv
  <1>6. BoundInv'
    BY <1>1 DEF IInv, BoundInv
  <1>7. HandlerInv'
    <2>1. handler' = handler /\ EventList' = EventList /\ Records' = Records /\ Sockets' = Sockets
      BY <1>1, Settled, ListsStay
    <2>2. CASE EventList
      <3>1. handler' \notin {"RECVFROM", "RECVFROMMUX", "SELECT", "POLL"}
        BY <2>1, <2>2 DEF EventList
      <3>2. EventInv'
        BY <1>1, <1>2, <2>1 DEF IInv, HandlerInv, EventInv
      <3>3. QED BY <3>1, <3>2 DEF HandlerInv, RecvfromInv, MUXInv, SelectInv, PollInv
    <2>3. CASE ~EventList
      <3>1. UNCHANGED handler_vars
        BY <1>1, <2>3 DEF handler_vars
      <3>2. QED BY <1>1, <1>2, <3>1, HandlerStays DEF IInv
    <2>4. QED BY <2>2, <2>3
  <1>8. QED BY <1>3, <1>4, <1>5, <1>6, <1>7 DEF IInv

LEMMA ArriveStep ==
    ASSUME IInv, NEW f, Arrive(f)
    PROVE  IInv' /\ Remaining' = Remaining
  <1>1. /\ f \in Records /\ readable' = readable \cup {f}
        /\ UNCHANGED <<s_user_params, active_fd_list, handler_vars, loop_vars>>
    BY DEF Arrive
  <1>2. UNCHANGED <<mp_poll_fd_arr, m_look_start, m_look_end, m_readfds, events, pc, ifd,
                    numReady, do_update>>
    BY <1>1 DEF handler_vars, loop_vars
  <1>3. readable' \subseteq Records
    BY <1>1 DEF IInv, ListInv
  <1>4. ListInv' /\ BoundInv' /\ HandlerInv'
    BY <1>1, <1>2, <1>3, ListInvStays, HandlerStays DEF IInv
  <1>5. ScanInv' /\ Remaining' = Remaining
    BY <1>1, <1>2, ScanStays DEF IInv
  <1>6. QED BY <1>4, <1>5 DEF IInv

-----------------------------------------------------------------------------
(* The scan.  The first index is left behind. *)

LEMMA PlacesShrink ==
    ASSUME ScanInv, Scanning, ifd' = ifd + 1, m_look_end' = m_look_end
    PROVE  ifd \in Places /\ Places' = Places \ {ifd}
  <1>1. pc = "scan" /\ ifd < m_look_end
    BY DEF Scanning
  <1>2. ifd \in Int /\ m_look_end \in Int
    BY <1>1 DEF ScanInv
  <1>3. QED BY <1>1, <1>2 DEF Places

LEMMA SkipStep ==
    ASSUME IInv, Skip
    PROVE  IInv' /\ Remaining' = Remaining
  <1>1. /\ Scanning /\ analyzeArrival(ifd) = 0 /\ ifd' = ifd + 1
        /\ UNCHANGED <<s_user_params, readable, active_fd_list, handler_vars, m_readfds, events,
                       pc, numReady, do_update>>
    BY DEF Skip
  <1>2. UNCHANGED <<mp_poll_fd_arr, m_look_start, m_look_end>> /\ pc = "scan" /\ pc' = "scan"
    BY <1>1 DEF handler_vars, Scanning
  <1>3. \A i : analyzeArrival(i)' = analyzeArrival(i)
    BY <1>1, <1>2, AnalyzeStays
  <1>4. ifd \in Places /\ Places' = Places \ {ifd}
    BY <1>1, <1>2, PlacesShrink DEF IInv
  <1>5. Remaining' = Remaining
    <2>1. Remaining' = {analyzeArrival(i) : i \in Places'} \ {0}
      BY <1>2, <1>3, RemainingNext
    <2>2. QED BY <1>1, <1>2, <1>4, <2>1, RemainingIs
  <1>6. Records' = Records /\ OneByOne' = OneByOne
    BY <1>1, Settled, ListsStay
  <1>7. ifd \in Int /\ m_look_end \in Int /\ ifd' \in Int
    BY <1>1, <1>2 DEF IInv, ScanInv
  <1>8. ScanInv'
    <2>1. OneByOne' => ifd' >= m_look_start' /\ m_look_end' = m_look_start' + 1
      <3>1. SUFFICES ASSUME OneByOne
                     PROVE  ifd' >= m_look_start' /\ m_look_end' = m_look_start' + 1
        BY <1>6
      <3>2. ifd >= m_look_start /\ m_look_end = m_look_start + 1
        BY <1>2, <3>1 DEF IInv, ScanInv
      <3>3. m_look_start \in Int
        BY <3>1, SettingFacts DEF IInv, ListInv, HandlerInv, RecvfromInv, MUXInv, OneByOne
      <3>4. QED BY <1>1, <1>2, <1>7, <3>2, <3>3
    <2>2. /\ \A i \in Places' : analyzeArrival(i)' \in Records' \cup {0}
          /\ \A i, j \in Places' :
                analyzeArrival(i)' = analyzeArrival(j)' /\ analyzeArrival(i)' # 0 => i = j
      BY <1>2, <1>3, <1>4, <1>6 DEF IInv, ScanInv
    <2>3. numReady' = Cardinality(Remaining')
      BY <1>1, <1>2, <1>5 DEF IInv, ScanInv
    <2>4. do_update' \in BOOLEAN
      BY <1>1 DEF IInv, ScanInv
    <2>5. QED BY <1>2, <1>7, <2>1, <2>2, <2>3, <2>4 DEF ScanInv
  <1>9. readable' \subseteq Records
    BY <1>1 DEF IInv, ListInv
  <1>10. ListInv' /\ BoundInv' /\ HandlerInv'
    BY <1>1, <1>9, ListInvStays, HandlerStays DEF IInv
  <1>11. QED BY <1>5, <1>8, <1>10 DEF IInv

\* A descriptor is visited: it is not visited again, and what is to come is not
\* disturbed by what is accepted, or by its own close.
LEMMA ServeScan ==
    ASSUME IInv, NEW f, Serve(f), do_update' \in BOOLEAN, Records \ {f} \subseteq Records'
    PROVE  /\ f \in Remaining /\ f \in Records /\ Remaining \subseteq Records
           /\ Remaining' = Remaining \ {f} /\ ScanInv'
  <1>1. /\ Scanning /\ f = analyzeArrival(ifd) /\ f # 0 /\ ifd' = ifd + 1
        /\ numReady' = numReady - 1
        /\ UNCHANGED <<s_user_params, mp_poll_fd_arr, m_look_start, m_look_end, m_readfds,
                       events, pc>>
    BY DEF Serve
  <1>2. pc = "scan" /\ pc' = "scan" /\ ifd < m_look_end
    BY <1>1 DEF Scanning
  <1>3. ifd \in Places /\ Places' = Places \ {ifd}
    BY <1>1, PlacesShrink DEF IInv
  <1>4. ifd \in Int /\ m_look_end \in Int
    BY <1>2 DEF IInv, ScanInv
  <1>5. OneByOne => /\ Places' = {} /\ m_look_start \in Int
                    /\ ifd' >= m_look_start' /\ m_look_end' = m_look_start' + 1
    <2>1. SUFFICES ASSUME OneByOne
                   PROVE  /\ Places' = {} /\ m_look_start \in Int
                          /\ ifd' >= m_look_start' /\ m_look_end' = m_look_start' + 1
      OBVIOUS
    <2>2. ifd >= m_look_start /\ m_look_end = m_look_start + 1
      BY <1>2, <2>1 DEF IInv, ScanInv
    <2>3. m_look_start \in Int
      BY <2>1, SettingFacts DEF IInv, ListInv, HandlerInv, RecvfromInv, MUXInv, OneByOne
    <2>4. Places' = {}
      BY <1>1, <1>2, <1>4, <2>2, <2>3 DEF Places
    <2>5. QED BY <1>1, <1>4, <2>2, <2>3, <2>4
  <1>6. \A i \in Places' : analyzeArrival(i)' = analyzeArrival(i)
    <2>1. CASE OneByOne
      BY <1>5, <2>1
    <2>2. CASE ~OneByOne
      BY <1>1, <2>2, AnalyzeKept
    <2>3. QED BY <2>1, <2>2
  <1>7. /\ \A i \in Places : analyzeArrival(i) \in Records \cup {0}
        /\ \A i, j \in Places :
              analyzeArrival(i) = analyzeArrival(j) /\ analyzeArrival(i) # 0 => i = j
        /\ numReady = Cardinality(Remaining)
    BY <1>2 DEF IInv, ScanInv
  <1>8. Remaining = {analyzeArrival(i) : i \in Places} \ {0}
    BY <1>2, RemainingIs
  <1>9. f \in Remaining /\ Remaining \subseteq Records /\ f \in Records
    BY <1>1, <1>3, <1>7, <1>8
  <1>10. \A i \in Places' : i \in Places /\ analyzeArrival(i)' # f
    BY <1>1, <1>3, <1>6, <1>7
  <1>11. Remaining' = Remaining \ {f}
    <2>1. Remaining' = {analyzeArrival(i) : i \in Places'} \ {0}
      BY <1>2, <1>6, RemainingNext
    <2>2. \A x \in Remaining' : x \in Remaining \ {f}
      BY <1>6, <1>8, <1>10, <2>1
    <2>3. \A x \in Remaining \ {f} : x \in Remaining'
      BY <1>1, <1>3, <1>8, <2>1
    <2>4. QED BY <2>2, <2>3
  <1>12. numReady' = Cardinality(Remaining')
    <2>1. IsFiniteSet(Remaining)
      BY <1>2, <1>4, PlacesFinite
    <2>2. Cardinality(Remaining \ {f}) = Cardinality(Remaining) - 1
      BY <1>9, <2>1, FS_RemoveElement
    <2>3. QED BY <1>1, <1>7, <1>11, <2>2
  <1>13. \A i \in Places' : analyzeArrival(i)' \in Records' \cup {0}
    BY <1>6, <1>7, <1>10
  <1>14. \A i, j \in Places' :
            analyzeArrival(i)' = analyzeArrival(j)' /\ analyzeArrival(i)' # 0 => i = j
    BY <1>3, <1>6, <1>7
  <1>15. OneByOne' = OneByOne
    BY <1>1, Settled
  <1>16. ifd' \in Int /\ m_look_end' \in Int
    BY <1>1, <1>4
  <1>17. ScanInv'
    BY <1>2, <1>5, <1>12, <1>13, <1>14, <1>15, <1>16 DEF ScanInv
  <1>18. QED BY <1>9, <1>11, <1>17


\* Reading changes nothing but what there is to read.
LEMMA ReadStep ==
    ASSUME IInv, NEW f, Receive(f) \/ ReadAgain(f)
    PROVE  /\ IInv' /\ f \in Remaining /\ Remaining' = Remaining \ {f}
           /\ readable' \in {readable, readable \ {f}} /\ Records' = Records
  <1>1. /\ Serve(f) /\ readable' \in {readable, readable \ {f}}
        /\ UNCHANGED <<active_fd_list, interest, do_update>>
    BY DEF Receive, ReadAgain
  <1>2. UNCHANGED <<s_user_params, handler_vars>>
    BY <1>1 DEF Serve, handler_vars
  <1>3. Records' = Records
    BY <1>1, <1>2, ListsStay
  <1>4. do_update' \in BOOLEAN
    BY <1>1 DEF IInv, ScanInv
  <1>5. f \in Remaining /\ Remaining' = Remaining \ {f} /\ ScanInv'
    BY <1>1, <1>3, <1>4, ServeScan
  <1>6. readable' \subseteq Records
    BY <1>1 DEF IInv, ListInv
  <1>7. ListInv' /\ BoundInv' /\ HandlerInv'
    BY <1>1, <1>2, <1>6, ListInvStays, HandlerStays DEF IInv
  <1>8. QED BY <1>1, <1>3, <1>5, <1>7 DEF IInv

\* Once something is to be updated, little has to agree.
LEMMA HandlerDuring ==
    ASSUME BoundInv, HandlerInv, do_update' = TRUE,
           UNCHANGED <<s_user_params, mp_poll_fd_arr, m_max_events, m_fd_min_all, m_fd_max_all,
                       m_look_start, m_look_end>>,
           EventList => Sockets \subseteq interest' /\ interest' \subseteq Records'
    PROVE  BoundInv' /\ HandlerInv'
  <1>1. BoundInv'
    BY DEF BoundInv
  <1>2. RecvfromInv' /\ MUXInv' /\ SelectInv'
    BY Settled DEF HandlerInv, RecvfromInv, MUXInv, SelectInv
  <1>3. PollInv'
    BY Settled DEF HandlerInv, PollInv
  <1>4. EventInv'
    BY Settled DEF HandlerInv, EventInv
  <1>5. QED BY <1>1, <1>2, <1>3, <1>4 DEF HandlerInv

LEMMA AcceptStep ==
    ASSUME IInv, NEW f, Accept(f)
    PROVE  /\ IInv' /\ f \in Remaining /\ Remaining' = Remaining \ {f}
           /\ readable' \in {readable, readable \ {f}}
           /\ Records \subseteq Records' /\ Records' \cap Remaining = Records \cap Remaining
  <1> DEFINE c == Lowest(FreeFds)
             k == FirstFree(f)
  <1>1. /\ Serve(f) /\ f \in Streams /\ FreeFds # {}
        /\ active_fd_count(f) < MAX_ACTIVE_FD_NUM - 1
        /\ active_fd_list' = [active_fd_list EXCEPT ![f][k] = c]
        /\ readable' \in {readable, readable \ {f}}
        /\ do_update' = TRUE /\ interest' = interest
    BY DEF Accept
  <1>2. /\ UNCHANGED <<s_user_params, mp_poll_fd_arr, m_max_events, m_fd_min_all, m_fd_max_all,
                       m_look_start, m_look_end>>
        /\ f = analyzeArrival(ifd) /\ Scanning
    BY <1>1 DEF Serve
  <1>3. Sockets' = Sockets /\ handler' = handler /\ m_fd_min' = m_fd_min
    BY <1>2, Settled
  <1>4. f \in Sockets
    BY <1>1, SettingFacts DEF IInv, ListInv
  <1>5. c \in s_user_params.free /\ c \notin Connections
    <2>1. FreeFds \in SUBSET Nat
      BY SettingFacts DEF IInv, ListInv, FreeFds, Fds
    <2>2. c \in FreeFds
      BY <1>1, <2>1, LowestIs
    <2>3. QED BY <2>2 DEF FreeFds
  <1>6. c \notin Records /\ c # INVALID_SOCKET
    BY <1>5, SettingFacts DEF IInv, ListInv, Records, Fds, INVALID_SOCKET
  <1>7. /\ k \in Slots /\ active_fd_list[f][k] = INVALID_SOCKET
        /\ \A i \in Slots : active_fd_list[f][i] = INVALID_SOCKET => k <= i
    BY <1>1, <1>4, FreeSlot DEF IInv
  <1>8. active_fd_list \in [Sockets -> [Slots -> s_user_params.free \cup {INVALID_SOCKET}]]
    BY DEF IInv, ListInv
  <1> HIDE DEF c, k
  <1>9. /\ active_fd_list' \in [Sockets -> [Slots -> s_user_params.free \cup {INVALID_SOCKET}]]
        /\ active_fd_list'[f][k] = c
        /\ \A s \in Sockets : \A i \in Slots :
              ~(s = f /\ i = k) => active_fd_list'[s][i] = active_fd_list[s][i]
    BY <1>1, <1>4, <1>5, <1>7, <1>8
  <1>10. \A s \in Sockets : \A i \in Slots : active_fd_list[s][i] # c
    <2>1. SUFFICES ASSUME NEW s \in Sockets, NEW i \in Slots, active_fd_list[s][i] = c
                   PROVE  FALSE
      OBVIOUS
    <2>2. c \in Active(s)
      BY <1>6, <2>1 DEF Active
    <2>3. QED BY <1>5, <2>2 DEF Connections
  <1>11. Connections' = Connections \cup {c}
    <2>1. \A x \in Connections' : x \in Connections \cup {c}
      <3>1. SUFFICES ASSUME NEW x \in Connections' PROVE x \in Connections \cup {c}
        OBVIOUS
      <3>2. PICK s \in Sockets, i \in Slots :
                x = active_fd_list'[s][i] /\ x # INVALID_SOCKET
        BY <1>3, <3>1 DEF Connections, Active
      <3>3. CASE s = f /\ i = k
        BY <1>9, <3>2, <3>3
      <3>4. CASE ~(s = f /\ i = k)
        <4>1. x \in Active(s)
          BY <1>9, <3>2, <3>4 DEF Active
        <4>2. QED BY <4>1 DEF Connections
      <3>5. QED BY <3>3, <3>4
    <2>2. c \in Connections'
      <3>1. c \in Active(f)'
        BY <1>6, <1>7, <1>9 DEF Active
      <3>2. QED BY <1>3, <1>4, <3>1 DEF Connections
    <2>3. \A x \in Connections : x \in Connections'
      <3>1. SUFFICES ASSUME NEW x \in Connections PROVE x \in Connections'
        OBVIOUS
      <3>2. PICK s \in Sockets, i \in Slots :
                x = active_fd_list[s][i] /\ x # INVALID_SOCKET
        BY <3>1 DEF Connections, Active
      <3>3. active_fd_list'[s][i] = x
        BY <1>7, <1>9, <3>2
      <3>4. x \in Active(s)'
        BY <3>2, <3>3 DEF Active
      <3>5. QED BY <1>3, <3>4 DEF Connections
    <2>4. QED BY <2>1, <2>2, <2>3
  <1>12. Records' = Records \cup {c}
    BY <1>3, <1>11 DEF Records
  <1>13. /\ f \in Remaining /\ Remaining' = Remaining \ {f} /\ Remaining \subseteq Records
         /\ ScanInv'
    BY <1>1, <1>12, ServeScan
  <1>14. ListInv'
    <2>1. s_user_params' \in Settings /\ s_user_params' = s_user_params
      BY <1>2 DEF IInv, ListInv
    <2>2. \A s \in Sockets : \A i, j \in Slots :
             active_fd_list'[s][i] = active_fd_list'[s][j]
                 /\ active_fd_list'[s][i] # INVALID_SOCKET => i = j
      <3>1. SUFFICES ASSUME NEW s \in Sockets, NEW i \in Slots, NEW j \in Slots,
                            active_fd_list'[s][i] = active_fd_list'[s][j],
                            active_fd_list'[s][i] # INVALID_SOCKET
                     PROVE  i = j
        OBVIOUS
      <3>2. CASE s = f /\ (i = k \/ j = k)
        BY <1>9, <1>10, <3>1, <3>2
      <3>3. CASE ~(s = f /\ (i = k \/ j = k))
        <4>1. active_fd_list'[s][i] = active_fd_list[s][i]
                /\ active_fd_list'[s][j] = active_fd_list[s][j]
          BY <1>9, <3>3
        <4>2. QED BY <3>1, <4>1 DEF IInv, ListInv
      <3>4. QED BY <3>2, <3>3
    <2>3. handler = "RECVFROM" =>
             \A i \in Slots : active_fd_list'[m_fd_min][i] # INVALID_SOCKET => i = 0
      <3>1. SUFFICES ASSUME handler = "RECVFROM", NEW i \in Slots,
                            active_fd_list'[m_fd_min][i] # INVALID_SOCKET
                     PROVE  i = 0
        OBVIOUS
      <3>2. f = m_fd_min
        BY <1>4, <3>1, SettingFacts DEF IInv, ListInv, Sockets
      <3>3. OneByOne /\ m_look_start = m_fd_min /\ m_look_end = m_fd_min + 1
        BY <3>1 DEF OneByOne, IInv, HandlerInv, RecvfromInv
      <3>4. ifd = m_fd_min
        <4>1. ifd >= m_look_start /\ ifd < m_look_end /\ ifd \in Int
          BY <1>2, <3>3 DEF Scanning, IInv, ScanInv
        <4>2. m_fd_min \in Nat
          BY SettingFacts DEF IInv, ListInv
        <4>3. QED BY <3>3, <4>1, <4>2
      <3>5. ~(active_fd_count(f) > 0)
        <4>1. SUFFICES ASSUME active_fd_count(f) > 0 PROVE FALSE
          OBVIOUS
        <4>2. f = active_fd_list[f][0]
          BY <1>2, <3>2, <3>3, <3>4, <4>1, AnalyzeOne
        <4>3. 0 \in Slots
          BY SettingFacts DEF IInv, ListInv, Slots, MAX_ACTIVE_FD_NUM
        <4>4. f \in Nat /\ f # INVALID_SOCKET
          BY <1>4, SettingFacts DEF IInv, ListInv, Fds, INVALID_SOCKET
        <4>5. f \in Connections
          BY <1>4, <4>2, <4>3, <4>4 DEF Connections, Active
        <4>6. QED BY <1>4, <4>5, RecordFacts DEF IInv
      <3>6. Active(f) = {}
        BY <1>4, <3>5, NoActive DEF IInv
      <3>7. 0 \in Slots
        BY SettingFacts DEF IInv, ListInv, Slots, MAX_ACTIVE_FD_NUM
      <3>8. active_fd_list[f][0] = INVALID_SOCKET /\ active_fd_list[f][i] = INVALID_SOCKET
        BY <3>6, <3>7 DEF Active
      <3>9. k <= 0
        BY <1>7, <3>7, <3>8
      <3>10. k = 0
        BY <1>7, <3>9, SettingFacts DEF IInv, ListInv, Slots, MAX_ACTIVE_FD_NUM
      <3>11. QED BY <1>4, <1>9, <3>1, <3>2, <3>8, <3>10
    <2>4. readable' \subseteq Records'
      BY <1>1, <1>12 DEF IInv, ListInv
    <2>5. QED BY <1>3, <1>9, <2>1, <2>2, <2>3, <2>4 DEF ListInv
  <1>15. BoundInv' /\ HandlerInv'
    <2>1. EventList => Sockets \subseteq interest' /\ interest' \subseteq Records'
      BY <1>1, <1>12 DEF IInv, HandlerInv, EventInv
    <2>2. QED BY <1>1, <1>2, <2>1, HandlerDuring DEF IInv
  <1>16. Records' \cap Remaining = Records \cap Remaining
    BY <1>6, <1>12, <1>13
  <1>17. QED BY <1>1, <1>12, <1>13, <1>14, <1>15, <1>16 DEF IInv

LEMMA CloseIfdStep ==
    ASSUME IInv, NEW f, CloseIfd(f)
    PROVE  /\ IInv' /\ f \in Remaining /\ Remaining' = Remaining \ {f}
           /\ readable' = readable \ {f} /\ Records' = Records \ {f}
  <1>1. /\ Serve(f) /\ f \in Connections
        /\ active_fd_list' = [s \in Sockets |-> [i \in Slots |->
                                 IF active_fd_list[s][i] = f THEN INVALID_SOCKET
                                 ELSE active_fd_list[s][i]]]
        /\ readable' = readable \ {f}
        /\ interest' = IF EventList THEN interest \ {f} ELSE interest
        /\ do_update' = TRUE
    BY DEF CloseIfd
  <1>2. UNCHANGED <<s_user_params, mp_poll_fd_arr, m_max_events, m_fd_min_all, m_fd_max_all,
                    m_look_start, m_look_end>>
    BY <1>1 DEF Serve
  <1>3. Sockets' = Sockets /\ handler' = handler /\ m_fd_min' = m_fd_min
    BY <1>2, Settled
  <1>4. f \notin Sockets
    BY <1>1, RecordFacts DEF IInv
  <1>5. active_fd_list \in [Sockets -> [Slots -> s_user_params.free \cup {INVALID_SOCKET}]]
    BY DEF IInv, ListInv
  <1>6. \A s \in Sockets : \A i \in Slots :
           active_fd_list'[s][i] =
              IF active_fd_list[s][i] = f THEN INVALID_SOCKET ELSE active_fd_list[s][i]
    BY <1>1
  <1>7. active_fd_list' \in [Sockets -> [Slots -> s_user_params.free \cup {INVALID_SOCKET}]]
    BY <1>1, <1>5
  <1>8. \A s \in Sockets : Active(s)' = Active(s) \ {f}
    BY <1>6 DEF Active
  <1>9. Connections' = Connections \ {f}
    BY <1>3, <1>8 DEF Connections
  <1>10. Records' = Records \ {f}
    BY <1>3, <1>4, <1>9 DEF Records
  <1>11. f \in Remaining /\ Remaining' = Remaining \ {f} /\ ScanInv'
    BY <1>1, <1>10, ServeScan
  <1>12. ListInv'
    <2>1. s_user_params' \in Settings /\ s_user_params' = s_user_params
      BY <1>2 DEF IInv, ListInv
    <2>2. \A s \in Sockets : \A i, j \in Slots :
             active_fd_list'[s][i] = active_fd_list'[s][j]
                 /\ active_fd_list'[s][i] # INVALID_SOCKET => i = j
      BY <1>6 DEF IInv, ListInv
    <2>3. handler = "RECVFROM" =>
             \A i \in Slots : active_fd_list'[m_fd_min][i] # INVALID_SOCKET => i = 0
      <3>1. m_fd_min \in Sockets
        BY SettingFacts DEF IInv, ListInv, Sockets
      <3>2. QED BY <1>6, <3>1 DEF IInv, ListInv
    <2>4. readable' \subseteq Records'
      BY <1>1, <1>10 DEF IInv, ListInv
    <2>5. QED BY <1>3, <1>7, <2>1, <2>2, <2>3, <2>4 DEF ListInv
  <1>13. BoundInv' /\ HandlerInv'
    <2>1. EventList => Sockets \subseteq interest' /\ interest' \subseteq Records'
      BY <1>1, <1>4, <1>10 DEF IInv, HandlerInv, EventInv
    <2>2. QED BY <1>1, <1>2, <2>1, HandlerDuring DEF IInv
  <1>14. QED BY <1>1, <1>10, <1>11, <1>12, <1>13 DEF IInv


-----------------------------------------------------------------------------
(* update() makes the handler agree with the lists again. *)

\* The array of IoPoll, after the sockets the connections.
LEMMA UpdatePollStep ==
    ASSUME ListInv, BoundInv, PollInv, UpdatePoll, do_update' = FALSE,
           UNCHANGED <<s_user_params, active_fd_list>>
    PROVE  BoundInv' /\ PollInv'
  <1> DEFINE a == mp_poll_fd_arr
             m == m_fd_num
             n == m_fd_num + Cardinality(Connections)
  <1>1. /\ handler = "POLL" /\ m_look_start' = 0 /\ m_look_end' = n
        /\ m_max_events' = m_max_events
        /\ \E list \in SetToSeqs(Connections) : a' = SubSeq(a, 1, m_fd_num) \o list
    BY DEF UpdatePoll
  <1>2. PICK list \in SetToSeqs(Connections) : a' = SubSeq(a, 1, m_fd_num) \o list
    BY <1>1
  <1>3. IsFiniteSet(Connections) /\ Cardinality(Connections) \in Nat
    BY RecordFacts
  <1>4. /\ list \in Seq(Connections) /\ Len(list) = Cardinality(Connections)
        /\ \A i, j \in 1 .. Len(list) : list[i] = list[j] => i = j
        /\ \A x \in Connections : \E i \in 1 .. Len(list) : list[i] = x
    BY <1>3, OrderIs
  <1>5. /\ m \in Nat /\ n \in Nat /\ n = Cardinality(Records) /\ n < max_fds_num
        /\ max_fds_num \in Nat /\ m_fd_min \in Nat /\ m_fd_max \in Nat
        /\ m = m_fd_max - m_fd_min + 1
    BY <1>3, SettingFacts, RecordFacts DEF ListInv
  <1>6. /\ m <= Len(a) /\ a \in Seq(Fds)
        /\ \A i \in 1 .. m : a[i] = m_fd_min + i - 1
    BY <1>1 DEF PollInv, BoundInv
  <1>7. Connections \subseteq Fds
    BY RecordFacts DEF Records
  <1>8. /\ a' \in Seq(Fds) /\ Len(a') = n
        /\ \A i \in 1 .. m : a'[i] = a[i]
        /\ \A i \in (m + 1) .. n : a'[i] = list[i - m]
    <2> DEFINE p == SubSeq(a, 1, m_fd_num)
    <2>1. p \in Seq(Fds) /\ Len(p) = m /\ \A i \in 1 .. m : p[i] = a[i]
      BY <1>5, <1>6
    <2>2. list \in Seq(Fds)
      BY <1>4, <1>7
    <2> HIDE DEF p
    <2>3. a' = p \o list
      BY <1>2 DEF p
    <2>4. Len(list) = n - m
      BY <1>3, <1>4, <1>5
    <2> HIDE DEF a, m, n
    <2>5. m + Len(list) = n
      BY <1>5, <2>4
    <2>6. /\ a' \in Seq(Fds) /\ Len(a') = m + Len(list)
          /\ \A i \in 1 .. m : a'[i] = p[i]
          /\ \A i \in (m + 1) .. (m + Len(list)) : a'[i] = list[i - m]
      BY <2>1, <2>2, <2>3, Concatenation
    <2>7. QED BY <2>1, <2>5, <2>6
  <1>9. \A i \in 1 .. m : a'[i] = m_fd_min + i - 1 /\ a'[i] \in Sockets
    BY <1>5, <1>6, <1>8 DEF Sockets
  <1>10. \A i \in (m + 1) .. n : i - m \in 1 .. Len(list) /\ a'[i] \in Connections
    <2>1. \A i \in (m + 1) .. n : i - m \in 1 .. Len(list)
      BY <1>3, <1>4, <1>5
    <2>2. QED BY <1>4, <1>8, <2>1
  <1>11. Connections \cap Sockets = {}
    BY RecordFacts
  <1> HIDE DEF a, m, n
  <1>12. \A i \in 1 .. n : i \in 1 .. m \/ i \in (m + 1) .. n
    BY <1>5
  <1>13. \A i, j \in 1 .. n : a'[i] = a'[j] => i = j
    <2>1. SUFFICES ASSUME NEW i \in 1 .. n, NEW j \in 1 .. n, a'[i] = a'[j] PROVE i = j
      OBVIOUS
    <2>2. CASE i \in 1 .. m /\ j \in 1 .. m
      BY <1>5, <1>9, <2>1, <2>2
    <2>3. CASE i \in (m + 1) .. n /\ j \in (m + 1) .. n
      <3>1. list[i - m] = list[j - m]
        BY <1>8, <2>1, <2>3
      <3>2. i - m = j - m
        BY <1>4, <1>10, <2>3, <3>1
      <3>3. QED BY <1>5, <3>2
    <2>4. QED BY <1>9, <1>10, <1>11, <1>12, <2>1, <2>2, <2>3
  <1>14. {a'[i] : i \in 1 .. n} = Records
    <2>1. \A i \in 1 .. n : a'[i] \in Records
      BY <1>9, <1>10, <1>12 DEF Records
    <2>2. \A f \in Sockets : \E i \in 1 .. n : a'[i] = f
      <3>1. SUFFICES ASSUME NEW f \in Sockets PROVE \E i \in 1 .. n : a'[i] = f
        OBVIOUS
      <3>2. f \in Nat /\ f - m_fd_min + 1 \in 1 .. m
        BY <1>5 DEF Sockets
      <3>3. m <= n
        BY <1>3, <1>5 DEF m, n
      <3>4. a'[f - m_fd_min + 1] = f
        BY <1>5, <1>9, <3>2
      <3>5. QED BY <1>5, <3>2, <3>3, <3>4
    <2>3. \A f \in Connections : \E i \in 1 .. n : a'[i] = f
      <3>1. SUFFICES ASSUME NEW f \in Connections PROVE \E i \in 1 .. n : a'[i] = f
        OBVIOUS
      <3>2. PICK k \in 1 .. Len(list) : list[k] = f
        BY <1>4
      <3>3. Len(list) = n - m
        BY <1>3, <1>4, <1>5 DEF m, n
      <3>4. m + k \in (m + 1) .. n /\ (m + k) - m = k /\ m + k \in 1 .. n
        BY <1>5, <3>3
      <3>5. a'[m + k] = f
        BY <1>8, <3>2, <3>4
      <3>6. QED BY <3>4, <3>5
    <2>4. QED BY <2>1, <2>2, <2>3 DEF Records
  <1>15. handler' = handler /\ m_fd_num' = m /\ m_fd_min' = m_fd_min /\ Records' = Records
    BY Settled, ListsStay DEF m
  <1>16. m <= n
    BY <1>3, <1>5 DEF m, n
  <1>17. PollInv'
    BY <1>1, <1>8, <1>9, <1>13, <1>14, <1>15, <1>16 DEF PollInv, a
  <1>18. BoundInv'
    BY <1>1, <1>5, <1>8 DEF BoundInv, a
  <1>19. QED BY <1>17, <1>18

LEMMA UpdateStep ==
    ASSUME IInv, Update, do_update' = FALSE, UNCHANGED <<s_user_params, active_fd_list>>
    PROVE  BoundInv' /\ HandlerInv'
  <1>1. /\ handler' = handler /\ Sockets' = Sockets /\ m_fd_min' = m_fd_min
        /\ Records' = Records /\ EventList' = EventList
    BY Settled, ListsStay
  <1>2. ListInv /\ BoundInv /\ HandlerInv
    BY DEF IInv
  <1>3. Records # {} /\ Records \in SUBSET Nat /\ max_fds_num \in Nat
           /\ \A x \in Records : x <= max_fds_num
    BY <1>2, RecordFacts, HandlerAssumption DEF Fds
  <1>4. /\ Lowest(Records) \in Nat /\ Highest(Records) \in Nat
        /\ \A g \in Records : Lowest(Records) <= g /\ g <= Highest(Records)
    BY <1>3, LowestIs, HighestIs
  <1>5. CASE UpdateRecvfrom
    <2>1. handler = "RECVFROM" /\ UNCHANGED handler_vars
      BY <1>5 DEF UpdateRecvfrom
    <2>2. BoundInv' /\ RecvfromInv'
      BY <1>1, <1>2, <2>1 DEF BoundInv, HandlerInv, RecvfromInv, handler_vars
    <2>3. QED BY <1>1, <2>1, <2>2
             DEF HandlerInv, MUXInv, SelectInv, PollInv, EventInv, EventList
  <1>6. CASE UpdateMUX
    <2>1. /\ handler = "RECVFROMMUX"
          /\ m_fd_min_all' = Lowest(Records) /\ m_fd_max_all' = Highest(Records)
          /\ m_look_start' = IF m_look_start \notin Sockets THEN m_fd_max
                             ELSE IF m_look_start = m_fd_max THEN m_fd_min_all' - 1
                             ELSE m_look_start
          /\ UNCHANGED <<mp_poll_fd_arr, m_max_events>>
      BY <1>6 DEF UpdateMUX
    <2>2. m_look_start \in Int /\ m_fd_max \in Nat
      BY <1>2, <2>1, SettingFacts DEF HandlerInv, MUXInv, ListInv
    <2>3. m_look_start' \in Int
      BY <1>4, <2>1, <2>2
    <2>4. Records \subseteq m_fd_min_all' .. m_fd_max_all'
      BY <1>3, <1>4, <2>1
    <2>5. MUXInv'
      BY <1>1, <1>4, <2>1, <2>3, <2>4 DEF MUXInv
    <2>6. BoundInv'
      BY <1>2, <2>1 DEF BoundInv
    <2>7. QED BY <1>1, <2>1, <2>5, <2>6
             DEF HandlerInv, RecvfromInv, SelectInv, PollInv, EventInv, EventList
  <1>7. CASE UpdateSelect
    <2>1. /\ handler = "SELECT" /\ interest' = Records
          /\ m_look_start' = Lowest(Records) /\ m_look_end' = Highest(Records) + 1
          /\ UNCHANGED <<mp_poll_fd_arr, m_max_events>>
      BY <1>7 DEF UpdateSelect
    <2>2. Records \subseteq m_look_start' .. (m_look_end' - 1)
      BY <1>3, <1>4, <2>1
    <2>3. m_look_start' \in Int /\ m_look_end' \in Int
      BY <1>4, <2>1
    <2>4. SelectInv'
      BY <1>1, <2>1, <2>2, <2>3 DEF SelectInv
    <2>5. BoundInv'
      BY <1>2, <2>1 DEF BoundInv
    <2>6. QED BY <1>1, <2>1, <2>4, <2>5
             DEF HandlerInv, RecvfromInv, MUXInv, PollInv, EventInv, EventList
  <1>8. CASE UpdatePoll
    <2>1. BoundInv' /\ PollInv'
      BY <1>2, <1>8, UpdatePollStep DEF HandlerInv
    <2>2. handler = "POLL"
      BY <1>8 DEF UpdatePoll
    <2>3. QED BY <1>1, <2>1, <2>2
             DEF HandlerInv, RecvfromInv, MUXInv, SelectInv, EventInv, EventList
  <1>9. CASE UpdateEvents
    <2>1. /\ EventList /\ interest' = interest \cup Connections
          /\ m_max_events' = m_fd_num + Cardinality(Connections)
          /\ m_look_start' = 0 /\ mp_poll_fd_arr' = mp_poll_fd_arr
      BY <1>9 DEF UpdateEvents
    <2>2. Sockets \subseteq interest /\ interest \subseteq Records
      BY <1>2, <2>1 DEF HandlerInv, EventInv
    <2>3. interest' = Records
      BY <2>1, <2>2 DEF Records
    <2>4. /\ m_max_events' = Cardinality(Records) /\ Cardinality(Records) < max_fds_num
          /\ Sockets \subseteq Records /\ IsFiniteSet(Records)
      BY <1>2, <2>1, RecordFacts
    <2>5. EventInv'
      BY <1>1, <2>1, <2>3, <2>4 DEF EventInv
    <2>6. Cardinality(Records) \in Nat
      BY <2>4, FS_CardinalityType
    <2>7. BoundInv'
      BY <1>2, <2>1, <2>4, <2>6 DEF BoundInv
    <2>8. handler' \notin {"RECVFROM", "RECVFROMMUX", "SELECT", "POLL"}
      BY <1>1, <2>1 DEF EventList
    <2>9. QED BY <2>5, <2>7, <2>8 DEF HandlerInv, RecvfromInv, MUXInv, SelectInv, PollInv
  <1>10. QED BY <1>5, <1>6, <1>7, <1>8, <1>9 DEF Update

\* A round ends when all that was ready is visited.
LEMMA EndRoundStep ==
    ASSUME IInv, EndRound
    PROVE  IInv' /\ Remaining' = Remaining
  <1>1. /\ pc = "scan" /\ ~Scanning /\ pc' = "wait" /\ do_update' = FALSE
        /\ IF do_update THEN Update ELSE UNCHANGED handler_vars
        /\ UNCHANGED <<s_user_params, readable, active_fd_list>>
    BY DEF EndRound
  <1>2. Remaining = {}
    <2>1. ifd \in Int /\ m_look_end \in Int /\ numReady = Cardinality(Remaining)
      BY <1>1 DEF IInv, ScanInv
    <2>2. IsFiniteSet(Remaining)
      BY <1>1, <2>1, PlacesFinite
    <2>3. Cardinality(Remaining) \in Nat
      BY <2>2, FS_CardinalityType
    <2>4. CASE numReady > 0
      <3>1. ~(ifd < m_look_end)
        BY <1>1, <2>4 DEF Scanning
      <3>2. Places = {}
        BY <2>1, <3>1 DEF Places
      <3>3. QED BY <1>1, <3>2, RemainingIs
    <2>5. CASE ~(numReady > 0)
      <3>1. Cardinality(Remaining) = 0
        BY <2>1, <2>3, <2>5
      <3>2. QED BY <2>2, <3>1, FS_EmptySet
    <2>6. QED BY <2>4, <2>5
  <1>3. Remaining' = {}
    BY <1>1 DEF Remaining
  <1>4. ListInv'
    <2>1. readable' \subseteq Records
      BY <1>1 DEF IInv, ListInv
    <2>2. QED BY <1>1, <2>1, ListInvStays DEF IInv
  <1>5. BoundInv' /\ HandlerInv'
    <2>1. CASE do_update
      BY <1>1, <2>1, UpdateStep
    <2>2. CASE ~do_update
      <3>1. do_update' = do_update
        BY <1>1, <2>2 DEF IInv, ScanInv
      <3>2. QED BY <1>1, <2>2, <3>1, HandlerStays DEF IInv
    <2>3. QED BY <2>1, <2>2
  <1>6. ScanInv'
    BY <1>1 DEF ScanInv
  <1>7. QED BY <1>2, <1>3, <1>4, <1>5, <1>6 DEF IInv

-----------------------------------------------------------------------------
(* The results. *)

LEMMA StutterStep ==
    ASSUME IInv, UNCHANGED vars
    PROVE  IInv' /\ Remaining' = Remaining
  <1>1. UNCHANGED <<s_user_params, readable, active_fd_list, handler_vars, loop_vars>>
    BY DEF vars, handler_vars, loop_vars
  <1>2. UNCHANGED <<mp_poll_fd_arr, m_look_start, m_look_end, m_readfds, events, pc, ifd,
                    numReady, do_update>>
    BY DEF vars
  <1>3. readable' \subseteq Records
    BY <1>1 DEF IInv, ListInv
  <1>4. ListInv' /\ BoundInv' /\ HandlerInv'
    BY <1>1, <1>2, <1>3, ListInvStays, HandlerStays DEF IInv
  <1>5. ScanInv' /\ Remaining' = Remaining
    BY <1>1, <1>2, ScanStays DEF IInv
  <1>6. QED BY <1>4, <1>5 DEF IInv

LEMMA NextInv == IInv /\ [Next]_vars => IInv'
  <1>1. SUFFICES ASSUME IInv, [Next]_vars PROVE IInv'
    OBVIOUS
  <1>2. CASE WaitArrival
    BY <1>1, <1>2, WaitRecvfromStep, WaitRecvfromMUXStep, WaitSelectPollStep, WaitEventsStep
       DEF WaitArrival
  <1>3. CASE Skip
    BY <1>1, <1>3, SkipStep
  <1>4. CASE EndRound
    BY <1>1, <1>4, EndRoundStep
  <1>5. ASSUME NEW f \in Fds, Receive(f) \/ ReadAgain(f) \/ Accept(f) \/ CloseIfd(f) PROVE IInv'
    BY <1>1, <1>5, ReadStep, AcceptStep, CloseIfdStep
  <1>6. CASE Timeout
    BY <1>1, <1>6, TimeoutStep
  <1>7. ASSUME NEW f \in Fds, Arrive(f) PROVE IInv'
    BY <1>1, <1>7, ArriveStep
  <1>8. CASE UNCHANGED vars
    BY <1>1, <1>8, StutterStep
  <1>9. QED BY <1>1, <1>2, <1>3, <1>4, <1>5, <1>6, <1>7, <1>8 DEF Next, Step

\* What HandlerInv and ScanInv say holds at every step of doLoop().
LEMMA InvariantHolds == Spec => []IInv
  <1>1. QED BY InitInv, NextInv, PTL DEF Spec

\* Whatever is accepted and closed, what doLoop() visits has a record, numReady is what is
\* left to visit, the arrays of poll() and epoll_wait() are not exceeded, and the search of
\* IoRecvfromMUX::waitArrival() finds a descriptor.  Nothing is said of iohandlers.h:155,
\* of IoSelect's fd_set and of update()'s slot index: ScanSafe says why.
THEOREM ScansAreSafe == Spec => []ScanSafe
  <1>1. IInv => ScanSafe
    <2>1. SUFFICES ASSUME IInv PROVE ScanSafe
      OBVIOUS
    <2>2. Remaining \subseteq Records
      <3>1. CASE pc = "scan"
        <4>1. \A i \in Places : analyzeArrival(i) \in Records \cup {0}
          BY <2>1, <3>1 DEF IInv, ScanInv
        <4>2. QED BY <3>1, <4>1, RemainingIs
      <3>2. CASE pc # "scan"
        BY <3>2 DEF Remaining
      <3>3. QED BY <3>1, <3>2
    <2>3. pc = "scan" => numReady = Cardinality(Remaining)
      BY <2>1 DEF IInv, ScanInv
    <2>4. m_max_events < max_fds_num /\ Len(mp_poll_fd_arr) <= max_fds_num
      BY <2>1 DEF IInv, BoundInv
    <2>5. pc = "wait" /\ handler = "RECVFROMMUX" => Candidates # {}
      <3>1. SUFFICES ASSUME pc = "wait", handler = "RECVFROMMUX" PROVE Candidates # {}
        OBVIOUS
      <3>2. ~do_update
        BY <2>1, <3>1 DEF IInv, ScanInv
      <3>3. /\ m_fd_min_all \in Int /\ m_fd_max_all \in Int
            /\ Records \subseteq m_fd_min_all .. m_fd_max_all
        BY <2>1, <3>1, <3>2 DEF IInv, HandlerInv, MUXInv
      <3>4. QED BY <2>1, <3>3, CandidateExists DEF IInv
    <2>6. QED BY <2>2, <2>3, <2>4, <2>5 DEF ScanSafe
  <1>2. QED BY <1>1, InvariantHolds, PTL

\* Every one of the six handlers implements Multiplexer: a round of doLoop()
\* visits what was ready among the sockets and the connections when it began,
\* each once, and nothing else, though update() is called only after the round.
THEOREM HandlersMultiplex == Spec => Multiplexes
  <1>1. Init => M!Init
    <2>1. SUFFICES ASSUME Init PROVE M!Init
      OBVIOUS
    <2>2. IInv
      BY <2>1, InitInv
    <2>3. IsFiniteSet(Records)
      BY <2>2, RecordFacts DEF IInv
    <2>4. readable = {} /\ Remaining = {}
      BY <2>1 DEF Init, Remaining
    <2>5. OneByOne \in BOOLEAN
      BY DEF OneByOne
    <2>6. QED BY <2>3, <2>4, <2>5, Zenon DEF M!Init, M!IsFiniteSet, IsFiniteSet
  <1>2. IInv /\ [Next]_vars => [M!Next]_(M!vars)
    <2>1. SUFFICES ASSUME IInv, [Next]_vars PROVE [M!Next]_(M!vars)
      OBVIOUS
    <2>2. s_user_params' = s_user_params
      BY <2>1 DEF Next, Step, WaitArrival, WaitRecvfrom, WaitRecvfromMUX, WaitSelectPoll,
                  WaitEvents, StartScan, Skip, EndRound, Receive, ReadAgain, Accept, CloseIfd,
                  Serve, Timeout, Arrive, vars
    <2>3. OneByOne' = OneByOne
      BY <2>2, Settled
    <2>4. ASSUME UNCHANGED <<readable, active_fd_list>>, Remaining' = Remaining
          PROVE  [M!Next]_(M!vars)
      BY <2>2, <2>3, <2>4, ListsStay DEF M!vars
    <2>5. CASE WaitRecvfrom \/ WaitRecvfromMUX
      <3>1. /\ pc = "wait" /\ OneByOne /\ UNCHANGED <<readable, active_fd_list>>
        BY <2>5 DEF WaitRecvfrom, WaitRecvfromMUX, StartScan, OneByOne
      <3>2. PICK f \in Records : Remaining' = {f}
        BY <2>1, <2>5, WaitRecvfromStep, WaitRecvfromMUXStep
      <3>3. Remaining = {} /\ Records' = Records
        BY <2>2, <3>1, ListsStay DEF Remaining
      <3>4. M!Wait
        BY <2>3, <3>1, <3>2, <3>3 DEF M!Wait
      <3>5. QED BY <3>4 DEF M!Next
    <2>6. CASE WaitSelectPoll \/ WaitEvents
      <3>1. pc = "wait" /\ UNCHANGED <<readable, active_fd_list>>
        BY <2>6 DEF WaitSelectPoll, WaitEvents, StartScan
      <3>2. ~OneByOne /\ Remaining' = Records \cap readable /\ Remaining' # {}
        BY <2>1, <2>6, WaitSelectPollStep, WaitEventsStep
      <3>3. Remaining = {} /\ Records' = Records
        BY <2>2, <3>1, ListsStay DEF Remaining
      <3>4. M!Wait
        BY <2>3, <3>1, <3>2, <3>3 DEF M!Wait
      <3>5. QED BY <3>4 DEF M!Next
    <2>7. CASE Skip
      <3>1. UNCHANGED <<readable, active_fd_list>>
        BY <2>7 DEF Skip
      <3>2. QED BY <2>1, <2>4, <2>7, <3>1, SkipStep
    <2>8. CASE EndRound
      <3>1. UNCHANGED <<readable, active_fd_list>>
        BY <2>8 DEF EndRound
      <3>2. QED BY <2>1, <2>4, <2>8, <3>1, EndRoundStep
    <2>9. CASE Timeout
      <3>1. UNCHANGED <<readable, active_fd_list>>
        BY <2>9 DEF Timeout
      <3>2. QED BY <2>1, <2>4, <2>9, <3>1, TimeoutStep
    <2>10. CASE UNCHANGED vars
      <3>1. UNCHANGED <<readable, active_fd_list>>
        BY <2>10 DEF vars
      <3>2. QED BY <2>1, <2>4, <2>10, <3>1, StutterStep
    <2>11. ASSUME NEW f \in Fds, Receive(f) \/ ReadAgain(f) PROVE [M!Next]_(M!vars)
      <3>1. /\ f \in Remaining /\ Remaining' = Remaining \ {f}
            /\ readable' \in {readable, readable \ {f}} /\ Records' = Records
        BY <2>1, <2>11, ReadStep
      <3>2. M!Visit
        BY <2>3, <3>1 DEF M!Visit
      <3>3. QED BY <3>2 DEF M!Next
    <2>12. ASSUME NEW f \in Fds, Accept(f) PROVE [M!Next]_(M!vars)
      <3>1. /\ f \in Remaining /\ Remaining' = Remaining \ {f}
            /\ readable' \in {readable, readable \ {f}}
            /\ Records \subseteq Records' /\ Records' \cap Remaining = Records \cap Remaining
        BY <2>1, <2>12, AcceptStep
      <3>2. M!Visit
        BY <2>3, <3>1 DEF M!Visit
      <3>3. QED BY <3>2 DEF M!Next
    <2>13. ASSUME NEW f \in Fds, CloseIfd(f) PROVE [M!Next]_(M!vars)
      <3>1. /\ f \in Remaining /\ Remaining' = Remaining \ {f}
            /\ readable' = readable \ {f} /\ Records' = Records \ {f}
        BY <2>1, <2>13, CloseIfdStep
      <3>2. M!Visit
        BY <2>3, <3>1 DEF M!Visit
      <3>3. QED BY <3>2 DEF M!Next
    <2>14. ASSUME NEW f \in Fds, Arrive(f) PROVE [M!Next]_(M!vars)
      <3>1. f \in Records /\ readable' = readable \cup {f} /\ UNCHANGED active_fd_list
        BY <2>14 DEF Arrive
      <3>2. Remaining' = Remaining /\ Records' = Records
        BY <2>1, <2>2, <2>14, <3>1, ArriveStep, ListsStay
      <3>3. M!Arrive
        BY <2>3, <3>1, <3>2 DEF M!Arrive
      <3>4. QED BY <3>3 DEF M!Next
    <2>15. QED
      BY <2>1, <2>5, <2>6, <2>7, <2>8, <2>9, <2>10, <2>11, <2>12, <2>13, <2>14
         DEF Next, Step, WaitArrival
  <1>3. QED BY <1>1, <1>2, InvariantHolds, PTL DEF Spec, Multiplexes, M!Spec
=============================================================================
