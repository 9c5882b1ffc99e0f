--------------------------- MODULE MessageStream ---------------------------
(***************************************************************************)
(* What the message parser promises to the code above it: for every        *)
(* connection the handler is given the messages the peer sent, whole, in   *)
(* the order sent and each once, until the connection is closed.  A        *)
(* connection is closed as "invalid" only in front of a message whose      *)
(* header announces more than the receiver accepts.                        *)
(***************************************************************************)
EXTENDS Naturals, Sequences

CONSTANTS Conns,    \* the connections one thread serves
          Lengths,  \* the lengths of the messages peers send
          MaxLen    \* the largest length the receiver accepts

VARIABLES sent,       \* per connection, the messages sent so far
          delivered,  \* per connection, the messages given to the handler
          status      \* per connection, open or why it was closed

vars == <<sent, delivered, status>>

Init ==
    /\ sent = [c \in Conns |-> <<>>]
    /\ delivered = [c \in Conns |-> <<>>]
    /\ status = [c \in Conns |-> "open"]

\* The end of the stream written so far.
End(s) == IF s = <<>> THEN 0 ELSE s[Len(s)].start + s[Len(s)].len

Send(c, l) ==
    /\ sent' = [sent EXCEPT ![c] = Append(@, [start |-> End(@), len |-> l])]
    /\ UNCHANGED <<delivered, status>>

\* The next message of c that the handler has not seen.
Pending(c) == sent[c][Len(delivered[c]) + 1]

Deliver(c) ==
    /\ status[c] = "open"
    /\ Len(delivered[c]) < Len(sent[c])
    /\ Pending(c).len <= MaxLen
    /\ delivered' = [delivered EXCEPT ![c] = Append(@, Pending(c))]
    /\ UNCHANGED <<sent, status>>

Reject(c) ==
    /\ status[c] = "open"
    /\ Len(delivered[c]) < Len(sent[c])
    /\ Pending(c).len > MaxLen
    /\ status' = [status EXCEPT ![c] = "invalid"]
    /\ UNCHANGED <<sent, delivered>>

Close(c, why) ==
    /\ status[c] = "open"
    /\ status' = [status EXCEPT ![c] = why]
    /\ UNCHANGED <<sent, delivered>>

Next ==
    \E c \in Conns :
        \/ \E l \in Lengths : Send(c, l)
        \/ Deliver(c)
        \/ Reject(c)
        \/ \E why \in {"shutdown", "stopped"} : Close(c, why)

Spec == Init /\ [][Next]_vars
=============================================================================
