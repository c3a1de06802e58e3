-------------------------- MODULE MCAgentDelivery --------------------------
(* Instances of AgentDelivery for TLC. *)
EXTENDS AgentDelivery

CONSTANTS e1, e2, e3, tick, resume

MCEvents3 == {e1, e2, e3}
MCEvents2 == {e1, e2}
MCResumes == {resume}
=============================================================================
