---------------------------- MODULE MCAgentSync ----------------------------
\* An instance of AgentSync for TLC: one flush of rows and one of screenshots
\* per sync tick.
EXTENDS AgentSync

CONSTANTS loop, rows1, shots1

MCSyncWorkers == {rows1, shots1}
MCSyncKind == [w \in MCSyncWorkers |-> IF w = rows1 THEN "rows" ELSE "shots"]
=============================================================================
