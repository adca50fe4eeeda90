------------------------------ MODULE MCAgentLink ------------------------------
(***************************************************************************)
(* Instances of AgentLink for TLC: two connections, so that a new one can  *)
(* be open while the leader still serves an old one.                       *)
(***************************************************************************)
EXTENDS AgentLink

CONSTANTS c1, c2, q1

MCConn == {c1, c2}
MCCommand == {q1}
=============================================================================
