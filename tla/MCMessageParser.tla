-------------------------- MODULE MCMessageParser --------------------------
(* Model-checking instance of MessageParser. *)
EXTENDS MessageParser
=============================================================================
