------------------------------ MODULE Streaming -----------------------------
(***************************************************************************)
(* The stream gateway of one API process and the sockets of one agent: the *)
(* maps `connections' and `agentSockets', the stream_sessions table, and   *)
(* the daily count of bytes in Redis.  A socket may drop at any await of   *)
(* handleConnection; the agent reconnects with a new socket while the old  *)
(* one is still open here.                                                 *)
(***************************************************************************)
EXTENDS Naturals, FiniteSets

CONSTANTS
    MaxSockets,  \* bound: connections of the agent
    MaxFrames,   \* bound: frames, of one unit each
    Cap,         \* the daily cap, in units
    MaxFaults    \* bound: statements that fail, and restarts

Socket == 1 .. MaxSockets

VARIABLES
    up,           \* sockets that are open
    stage,        \* handleConnection: "none", "find", "create", "done"
    connections,  \* sockets with an entry
    agentSockets, \* the agent's entry: a socket, or 0
    closing,      \* handleDisconnect before closeSession
    session,      \* the socket's row: "none", "active", "closed"
    mode,         \* the mode in the socket's row
    counted,      \* Redis: units counted today
    frames,       \* frames being handled: [id, read], read -1 before the count is
    relayed,      \* frames passed to the watchers
    arrived, faults,
    early,        \* history: sockets that dropped during handleConnection
    crossed,      \* history: sockets that were there when another one ended
    overlapped    \* history: two frames were counted at the same time

gateway  == <<up, stage, connections, agentSockets, closing, session, mode, early, crossed>>
metering == <<counted, frames, relayed, arrived, overlapped>>
vars == <<gateway, metering, faults>>

Init ==
    /\ up = {} /\ stage = [s \in Socket |-> "none"] /\ connections = {} /\ agentSockets = 0
    /\ closing = {} /\ session = [s \in Socket |-> "none"] /\ mode = [s \in Socket |-> "idle"]
    /\ counted = 0 /\ frames = {} /\ relayed = 0 /\ arrived = 0 /\ faults = 0
    /\ early = {} /\ crossed = {} /\ overlapped = FALSE

-----------------------------------------------------------------------------
\* handleConnection, to its first await.
Connect(s) ==
    /\ stage[s] = "none" /\ \A t \in Socket : t < s => stage[t] # "none"
    /\ up' = up \cup {s} /\ stage' = [stage EXCEPT ![s] = "find"]
    /\ UNCHANGED <<metering, connections, agentSockets, closing, session, mode, early, crossed,
                   faults>>

\* The user is found; the socket may be closed by now.
FindUser(s) ==
    /\ stage[s] = "find"
    /\ stage' = [stage EXCEPT ![s] = "create"]
    /\ connections' = connections \cup {s} /\ agentSockets' = s
    /\ UNCHANGED <<metering, up, closing, session, mode, early, crossed, faults>>

CreateSession(s) ==
    /\ stage[s] = "create"
    /\ stage' = [stage EXCEPT ![s] = "done"]
    /\ session' = [session EXCEPT ![s] = "active"] /\ mode' = [mode EXCEPT ![s] = "idle"]
    /\ connections' = connections \cup {s}
    /\ UNCHANGED <<metering, up, agentSockets, closing, early, crossed, faults>>

MutHangUp(s) ==              \* only the socket in agentSockets closes its row
    /\ up' = up \ {s} /\ connections' = connections \ {s}
    /\ IF s \in connections
         THEN /\ agentSockets' = 0 /\ crossed' = crossed \cup (connections \ {s})
              /\ closing' = IF agentSockets = s THEN closing \cup {s} ELSE closing
         ELSE UNCHANGED <<agentSockets, closing, crossed>>

\* handleDisconnect, to its await: the agent's entry goes, whosever it is.
HangUp(s) ==
    /\ up' = up \ {s} /\ connections' = connections \ {s}
    /\ IF s \in connections
         THEN /\ agentSockets' = 0 /\ closing' = closing \cup {s}
              /\ crossed' = crossed \cup (connections \ {s})
         ELSE UNCHANGED <<agentSockets, closing, crossed>>

\* The agent or the network closes it, or the timeout of eight hours.
Drop(s) ==
    /\ s \in up /\ HangUp(s)
    /\ early' = IF stage[s] # "done" THEN early \cup {s} ELSE early
    /\ UNCHANGED <<metering, stage, session, mode, faults>>

\* A statement of handleConnection fails, or the token is unknown.
RefuseSocket(s) ==
    /\ stage[s] \in {"find", "create"} /\ faults < MaxFaults
    /\ faults' = faults + 1 /\ stage' = [stage EXCEPT ![s] = "done"]
    /\ IF s \in up THEN HangUp(s) ELSE UNCHANGED <<up, connections, agentSockets, closing, crossed>>
    /\ UNCHANGED <<metering, session, mode, early>>

CloseSession(s) ==
    /\ s \in closing /\ closing' = closing \ {s}
    /\ session' = [session EXCEPT ![s] = IF @ = "active" THEN "closed" ELSE @]
    /\ UNCHANGED <<metering, up, stage, connections, agentSockets, mode, early, crossed, faults>>

\* In all active rows of the user, those of sockets long gone included.
UpdateSessionMode(m) ==
    /\ mode' = [s \in Socket |-> IF session[s] = "active" THEN m ELSE mode[s]]
    /\ UNCHANGED <<metering, up, stage, connections, agentSockets, closing, session, early,
                   crossed, faults>>

\* The process dies and starts again: the rows stay as they are.
Restart ==
    /\ faults < MaxFaults /\ faults' = faults + 1
    /\ up' = {} /\ connections' = {} /\ agentSockets' = 0 /\ closing' = {} /\ frames' = {}
    /\ stage' = [s \in Socket |-> IF stage[s] = "none" THEN "none" ELSE "done"]
    /\ UNCHANGED <<session, mode, counted, relayed, arrived, early, crossed, overlapped>>

-----------------------------------------------------------------------------
\* handleFrame: trackBandwidth reads the count, adds to it and stores it.
Frame(s) ==
    /\ s \in up \cap connections /\ arrived < MaxFrames
    /\ arrived' = arrived + 1
    /\ frames' = frames \cup {[id |-> arrived + 1, read |-> 0 - 1]}
    /\ overlapped' = (overlapped \/ frames # {})
    /\ UNCHANGED <<gateway, counted, relayed, faults>>

ReadCount(f) ==
    /\ f.read < 0
    /\ frames' = (frames \ {f}) \cup {[f EXCEPT !.read = counted]}
    /\ UNCHANGED <<gateway, counted, relayed, arrived, overlapped, faults>>

WithinCap(total) == total < Cap

StoreCount(f) ==
    /\ f.read >= 0
    /\ frames' = frames \ {f} /\ counted' = f.read + 1
    /\ relayed' = IF WithinCap(f.read + 1) THEN relayed + 1 ELSE relayed
    /\ UNCHANGED <<gateway, arrived, overlapped, faults>>

Next ==
    \/ \E s \in Socket : \/ Connect(s) \/ FindUser(s) \/ CreateSession(s) \/ Drop(s)
                         \/ RefuseSocket(s) \/ CloseSession(s) \/ Frame(s)
    \/ \E m \in {"idle", "grid"} : UpdateSessionMode(m)
    \/ \E f \in frames : ReadCount(f) \/ StoreCount(f)
    \/ Restart

Spec == Init /\ [][Next]_vars

-----------------------------------------------------------------------------
\* A row stays active without its socket only if the socket dropped while
\* handleConnection was awaiting, or a statement failed or the API restarted.
NoGhostSession ==
    \A s \in Socket :
        session[s] = "active" /\ s \notin up \cup closing => s \in early \/ faults > 0

\* A control message reaches an agent that is connected, unless another
\* socket of it ended meanwhile and took the entry along, or one dropped
\* during handleConnection and left its own.
AgentIsReachable ==
    \A s \in up : stage[s] = "done" =>
        agentSockets \in up \/ s \in crossed \/ early # {} \/ faults > 0

\* What is relayed in a day stays below the cap if frames are handled one
\* after the other.
CapHolds == relayed < Cap \/ overlapped
=============================================================================
