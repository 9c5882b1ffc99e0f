----------------------------- MODULE Multiplexer -----------------------------
(***************************************************************************)
(* What the loops of client and server expect of an IoHandler: a round     *)
(* visits, once each, the registered descriptors that had something to     *)
(* read when it began, and nothing else.  The handlers without a system    *)
(* call to ask visit one registered descriptor at a time instead.          *)
(***************************************************************************)
EXTENDS FiniteSets

VARIABLES oneByOne,    \* the handler asks no system call
          registered,  \* the sockets, and the connections they accepted
          readable,    \* the descriptors with something to read
          todo         \* the descriptors still to be visited in this round

vars == <<oneByOne, registered, readable, todo>>

Init ==
    /\ oneByOne \in BOOLEAN
    /\ IsFiniteSet(registered)
    /\ readable = {} /\ todo = {}

Arrive ==
    /\ \E f \in registered : readable' = readable \cup {f}
    /\ UNCHANGED <<oneByOne, registered, todo>>

Wait ==
    /\ todo = {}
    /\ IF oneByOne THEN \E f \in registered : todo' = {f}
       ELSE todo' = registered \cap readable
    /\ todo' # {}
    /\ UNCHANGED <<oneByOne, registered, readable>>

\* Reading from f may close it, and a listening socket may accept a connection,
\* with a descriptor that was closed in the same round too.
Visit ==
    /\ \E f \in todo :
          /\ todo' = todo \ {f}
          /\ readable' \in {readable, readable \ {f}}
          /\ \/ UNCHANGED registered
             \/ f \notin readable' /\ registered' = registered \ {f}
             \/ registered \subseteq registered' /\ registered' \cap todo = registered \cap todo
    /\ UNCHANGED oneByOne

Next == Arrive \/ Wait \/ Visit

Spec == Init /\ [][Next]_vars
=============================================================================
