------------------------------ MODULE CalcGaps ------------------------------
(***************************************************************************)
(* SwitchOnCalcGaps (switches.h, server.cpp): the server's gap detection.  *)
(* ms_seq_num_map has a session for every client address, with the last    *)
(* sequence number and the number of messages dropped or out of order, and *)
(* execute() touches the session of its message only: this is the one of   *)
(* one address.  A warm-up message that follows other messages of its      *)
(* address starts a new session.                                           *)
(***************************************************************************)
EXTENDS Integers, FiniteSets

VARIABLES
    session,           \* the session, or None
    first, inOrder     \* of the session: the number it started from, and the
                       \* messages that came in order

gaps == <<session, first, inOrder>>

None == [seq_num |-> -1, total_drops |-> 0, started |-> FALSE]

InitGaps == session = None /\ first = 0 /\ inOrder = {}

\* execute() makes a session for a new address, and for a warm-up message
\* after other messages.
NewSession(warmup) == session = None \/ (warmup /\ session.started)

Session(seq, warmup) ==
    IF NewSession(warmup) THEN [seq_num |-> seq, total_drops |-> 0, started |-> FALSE]
    ELSE session

\* Mutant: the session continues at the number expected.
CheckGapsExpected(s, seq) ==
    LET expected == s.seq_num + 1
    IN [seq_num |-> IF seq < expected THEN s.seq_num ELSE expected,
        total_drops |-> s.total_drops + (IF seq > expected THEN seq - expected ELSE 0),
        started |-> TRUE]

\* Mutant: the last number is not advanced before it is compared.
CheckGapsNotAdvanced(s, seq) ==
    LET expected == s.seq_num
    IN [seq_num |-> IF seq < expected THEN s.seq_num ELSE seq,
        total_drops |-> s.total_drops + (IF seq > expected THEN seq - expected ELSE 0),
        started |-> TRUE]

\* check_gaps() with calc_gaps_num(): the numbers left out are drops, and a
\* number below the expected one changes nothing.
CheckGaps(s, seq) ==
    LET expected == s.seq_num + 1
    IN [seq_num |-> IF seq < expected THEN s.seq_num ELSE seq,
        total_drops |-> s.total_drops + (IF seq > expected THEN seq - expected ELSE 0),
        started |-> TRUE]

\* execute() for a warm-up message, which counts as number 0, and for any other.
ExecuteWarmup ==
    /\ session' = Session(0, TRUE)
    /\ first' = IF NewSession(TRUE) THEN 0 ELSE first
    /\ inOrder' = IF NewSession(TRUE) THEN {} ELSE inOrder

Execute(seq) ==
    /\ session' = CheckGaps(Session(seq, FALSE), seq)
    /\ first' = IF NewSession(FALSE) THEN seq ELSE first
    /\ inOrder' = IF seq > Session(seq, FALSE).seq_num THEN inOrder \cup {seq} ELSE inOrder

\* "Total Dropped/OOO" counts every number of the session that did not come
\* in order once, whatever was lost, duplicated or delayed and however often.
DropsCounted ==
    session # None =>
        session.total_drops = Cardinality(((first + 1) .. session.seq_num) \ inOrder)
=============================================================================
