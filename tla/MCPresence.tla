----------------------------- MODULE MCPresence -----------------------------
EXTENDS Presence
CONSTANTS d1, d2, u1
MCOwner == [d \in Device |-> u1]
=============================================================================
