------------------------------ MODULE Presence ------------------------------
(***************************************************************************)
(* Who is online: an agent's heartbeats pass AgentAuthGuard, are told to   *)
(* the dashboards at once and written to agent_devices.last_seen_at behind *)
(* (HeartbeatBufferService); a sweep announces the devices that went       *)
(* silent (MonitoringService); a dashboard keeps a status per user from    *)
(* the events, from GET /monitoring/live and from timers of its own        *)
(* (monitoring-store.ts).  Time passes in ticks of 30 s, the interval of   *)
(* the agent's heartbeat and of the sweep; what happened a while ago has   *)
(* an age in ticks, and ages beyond Old are not told apart.                *)
(***************************************************************************)
EXTENDS Naturals, FiniteSets

CONSTANTS
    Device,       \* agents
    User,
    Owner,        \* the user that registered a device
    None,
    Threshold,    \* OFFLINE_THRESHOLD_MS, in ticks (3)
    Window,       \* ONLINE_WINDOW_MS (10)
    IdleAfter,    \* IDLE_AFTER_MS (2)
    OfflineAfter, \* OFFLINE_AFTER_MS (10)
    MaxFaults     \* bound: ticks with the database away or an UPDATE under way,
                  \* and restarts

ASSUME PresenceAssumption ==
    /\ Owner \in [Device -> User]
    /\ {Threshold, Window, IdleAfter, OfflineAfter, MaxFaults} \subseteq Nat
    /\ 0 < IdleAfter /\ IdleAfter < OfflineAfter /\ 0 < Threshold /\ Threshold <= Window

VARIABLES
    running,   \* the agents that run
    active,    \* users that are active (users.is_active)
    cached,    \* devices with an entry agentauth:v2: in Redis
    passed,    \* devices whose guard read an active user, the entry not yet written
    beat,      \* history: age of the last heartbeat that was taken
    pending,   \* HeartbeatBufferService.pending: device -> age
    writes,    \* the bulk UPDATEs under way, each device -> age
    seen,      \* last_seen_at
    lost,      \* history: devices whose last heartbeat a crash took
    announced, \* MonitoringService.offlineEmitted
    stale,     \* what the sweep under way has read, or None
    swept,     \* the sweep of this tick has run
    told,      \* the last status emitted for a device
    down,      \* the database is away
    faults,
    shown,     \* the dashboard's status of a user
    quiet,     \* ticks since its timers were set, or None
    socket,    \* its socket is connected
    seeded     \* the list it was last seeded from, device -> age

server == <<beat, pending, writes, seen, lost, announced, stale, swept, told, down, faults>>
guard == <<running, active, cached, passed>>
dashboard == <<shown, quiet, socket, seeded>>
vars == <<guard, server, dashboard>>

Old == 1 + (CHOOSE n \in {Threshold, Window, OfflineAfter} :
              \A m \in {Threshold, Window, OfflineAfter} : m <= n)
Age == 0 .. Old
Older(a) == IF a = Old THEN Old ELSE a + 1
Ages == UNION {[D -> Age] : D \in SUBSET Device}
Nothing == [d \in {} |-> 0]

\* f with the entries of g; where both have one, g's.
Merge(f, g) ==
    [d \in DOMAIN f \cup DOMAIN g |-> IF d \in DOMAIN g THEN g[d] ELSE f[d]]

TypeOK ==
    /\ running \subseteq Device /\ active \subseteq User
    /\ cached \subseteq Device /\ passed \subseteq Device
    /\ {beat, seen} \subseteq [Device -> Age]
    /\ {pending, seeded} \subseteq Ages /\ writes \subseteq Ages
    /\ lost \subseteq Device /\ announced \subseteq Device
    /\ stale \in SUBSET Device \cup {None} /\ {swept, down, socket} \subseteq BOOLEAN
    /\ told \in [Device -> {"none", "online", "idle", "offline"}]
    /\ faults \in 0 .. MaxFaults
    /\ shown \in [User -> {"none", "online", "idle", "offline"}]
    /\ quiet \in [User -> Age \cup {None}]

\* Every device registered a while ago and has been silent since.
Init ==
    /\ running = {} /\ active = User /\ cached = {} /\ passed = {}
    /\ beat = [d \in Device |-> Old] /\ seen = beat
    /\ pending = Nothing /\ writes = {} /\ lost = {}
    /\ announced = {} /\ stale = None /\ swept = FALSE /\ told = [d \in Device |-> "none"]
    /\ down = FALSE /\ faults = 0
    /\ shown = [u \in User |-> "none"] /\ quiet = [u \in User |-> None]
    /\ socket = TRUE /\ seeded = Nothing

-----------------------------------------------------------------------------
\* The dashboard's handlers.

\* employee:status; a payload "offline" leaves the timers as they are.
ReceiveStatus(u, status) ==
    /\ shown' = [shown EXCEPT ![u] = status]
    /\ quiet' = IF status = "offline" THEN quiet ELSE [quiet EXCEPT ![u] = 0]
    /\ UNCHANGED <<socket, seeded>>

\* An event reaches the dashboard or not: its socket is down, or Redis'
\* pub/sub is, or the message is dropped.
Emit(d, status) ==
    /\ told' = [told EXCEPT ![d] = status]
    /\ \/ socket /\ ReceiveStatus(Owner[d], status)
       \/ UNCHANGED dashboard

\* employee:activity restarts the timers and leaves the status alone.
Activity(d) ==
    /\ d \in running /\ d \in cached /\ socket
    /\ quiet' = [quiet EXCEPT ![Owner[d]] = 0]
    /\ UNCHANGED <<guard, server, shown, socket, seeded>>

\* What the timers of a user that are due do to its status.
Downgrade(status, age) ==
    IF age = OfflineAfter /\ status # "none" THEN "offline"
    ELSE IF age = IdleAfter /\ status \notin {"none", "offline"} THEN "idle"
    ELSE status

\* The timer of a user 30 s later; it is dropped when "offline" is due.
Timer(age) == IF age = None \/ age >= OfflineAfter THEN None ELSE age + 1

\* GET /monitoring/live: every device seen within the window, with its time.
\* Its answer is kept in Redis for 30 s (monitoring.service.ts:167-169, 206),
\* which is left out: a list one tick older seeds the same statuses, later.
LiveStatus == [d \in {x \in Device : seen[x] < Window} |-> seen[d]]

\* The board seeds the store whenever the list has changed: "online" for
\* the owner of every device in it.  No timer is set.
Seed ==
    /\ ~down /\ LiveStatus # seeded /\ LiveStatus # Nothing
    /\ seeded' = LiveStatus
    /\ shown' = [u \in User |-> IF \E d \in DOMAIN LiveStatus : Owner[d] = u
                                  THEN "online" ELSE shown[u]]
    /\ UNCHANGED <<guard, server, quiet, socket>>

\* A component that uses the socket is unmounted, or the access token is
\* renewed: the store disconnects and drops all timers.
Disconnect ==
    /\ socket
    /\ socket' = FALSE /\ quiet' = [u \in User |-> None]
    /\ UNCHANGED <<guard, server, shown, seeded>>

Connect ==
    /\ ~socket /\ socket' = TRUE
    /\ UNCHANGED <<guard, server, shown, quiet, seeded>>

-----------------------------------------------------------------------------
\* The agents, their users and AgentAuthGuard.

StartOrStop(d) ==
    /\ running' = IF d \in running THEN running \ {d} ELSE running \cup {d}
    /\ UNCHANGED <<active, cached, passed, server, dashboard>>

\* Deactivation or reactivation; nothing removes the entries of the guard.
SetActive(u) ==
    /\ active' = IF u \in active THEN active \ {u} ELSE active \cup {u}
    /\ UNCHANGED <<running, cached, passed, server, dashboard>>

MutCheckUser(d) ==           \* any user that is found will do
    /\ d \in running /\ d \notin cached /\ d \notin passed /\ ~down
    /\ passed' = passed \cup {d}
    /\ UNCHANGED <<running, active, cached, server, dashboard>>

\* canActivate without an entry: the user is read, then the entry written.
CheckUser(d) ==
    /\ d \in running /\ d \notin cached /\ d \notin passed /\ ~down
    /\ Owner[d] \in active
    /\ passed' = passed \cup {d}
    /\ UNCHANGED <<running, active, cached, server, dashboard>>

CacheUser(d) ==
    /\ d \in passed
    /\ passed' = passed \ {d} /\ cached' = cached \cup {d}
    /\ UNCHANGED <<running, active, server, dashboard>>

Expire(d) ==
    /\ d \in cached
    /\ cached' = cached \ {d}
    /\ UNCHANGED <<running, active, passed, server, dashboard>>

\* POST /agent/sync/heartbeat of a device that the guard lets through.
Heartbeat(d, status) ==
    /\ d \in running /\ d \in cached
    /\ beat' = [beat EXCEPT ![d] = 0]
    /\ lost' = lost \ {d}
    /\ pending' = Merge(pending, [x \in {d} |-> 0])
    /\ Emit(d, status)
    /\ UNCHANGED <<guard, writes, seen, announced, stale, swept, down, faults>>

-----------------------------------------------------------------------------
\* HeartbeatBufferService: pending is emptied before the UPDATE is sent.

Flush ==
    /\ pending # Nothing
    /\ writes' = writes \cup {pending}
    /\ pending' = Nothing
    /\ UNCHANGED <<guard, dashboard, beat, seen, lost, announced, stale, swept, told,
                   down, faults>>

\* The UPDATE is done; one that was sent later may have been done before.
Written(w) ==
    /\ w \in writes /\ ~down
    /\ writes' = writes \ {w}
    /\ seen' = Merge(seen, w)
    /\ UNCHANGED <<guard, dashboard, beat, pending, lost, announced, stale, swept, told,
                   down, faults>>

MutNotWritten(w) ==          \* the times are not put back
    /\ w \in writes /\ down
    /\ writes' = writes \ {w}
    /\ UNCHANGED <<guard, dashboard, beat, pending, seen, lost, announced, stale, swept,
                   told, down, faults>>

\* The UPDATE fails: its times go back unless there are newer ones.
NotWritten(w) ==
    /\ w \in writes /\ down
    /\ writes' = writes \ {w}
    /\ pending' = Merge(pending,
         [d \in {x \in DOMAIN w : x \notin DOMAIN pending \/ pending[x] > w[x]} |-> w[d]])
    /\ UNCHANGED <<guard, dashboard, beat, seen, lost, announced, stale, swept, told,
                   down, faults>>

-----------------------------------------------------------------------------
\* MonitoringService.sweepOfflineAgents: read, then emit.

SweepReads ==
    /\ stale = None /\ ~swept /\ ~down
    /\ stale' = {d \in Device : seen[d] >= Threshold}
    /\ UNCHANGED <<guard, dashboard, beat, pending, writes, seen, lost, announced, swept,
                   told, down, faults>>

\* One event for every device that was not announced yet.
SweepEmits(d) ==
    /\ stale # None /\ d \in stale \ announced
    /\ announced' = announced \cup {d}
    /\ Emit(d, "offline")
    /\ UNCHANGED <<guard, beat, pending, writes, seen, lost, stale, swept, down, faults>>

MutSweepEnds ==              \* a device that is heard of again stays announced
    /\ stale # None /\ stale \subseteq announced
    /\ stale' = None /\ swept' = TRUE
    /\ UNCHANGED <<guard, dashboard, beat, pending, writes, seen, lost, announced, told,
                   down, faults>>

SweepEnds ==
    /\ stale # None /\ stale \subseteq announced
    /\ announced' = announced \cap stale /\ stale' = None /\ swept' = TRUE
    /\ UNCHANGED <<guard, dashboard, beat, pending, writes, seen, lost, told, down, faults>>

-----------------------------------------------------------------------------
\* 30 s pass.  The flush (every 5 s) has emptied the buffer and the sweep
\* has run, unless the database is away; an UPDATE that is still under way
\* counts as a fault, as does every tick without the database.
Tick ==
    LET trouble == down \/ writes # {}
        aged(f) == [d \in DOMAIN f |-> Older(f[d])]
    IN  /\ down \/ (pending = Nothing /\ swept)
        /\ trouble => faults < MaxFaults
        /\ faults' = IF trouble THEN faults + 1 ELSE faults
        /\ stale = None /\ swept' = FALSE
        /\ beat' = aged(beat) /\ seen' = aged(seen) /\ pending' = aged(pending)
        /\ writes' = {aged(w) : w \in writes}
        /\ seeded' = aged(seeded)
        /\ quiet' = [u \in User |-> Timer(quiet[u])]
        /\ shown' = [u \in User |-> IF quiet[u] = None THEN shown[u]
                                      ELSE Downgrade(shown[u], quiet[u] + 1)]
        /\ UNCHANGED <<guard, lost, announced, stale, told, down, socket>>

DatabaseGoes ==
    /\ ~down /\ faults < MaxFaults /\ down' = TRUE /\ faults' = faults + 1
    /\ stale' = None         \* the sweep's query fails
    /\ UNCHANGED <<guard, dashboard, beat, pending, writes, seen, lost, announced, swept,
                   told>>

DatabaseReturns ==
    /\ down /\ down' = FALSE
    /\ UNCHANGED <<guard, dashboard, beat, pending, writes, seen, lost, announced, stale,
                   swept, told, faults>>

\* The process dies and starts again: what it held in memory is gone.
Crash ==
    /\ faults < MaxFaults /\ faults' = faults + 1
    /\ lost' = lost \cup DOMAIN pending \cup UNION {DOMAIN w : w \in writes}
    /\ pending' = Nothing /\ writes' = {} /\ announced' = {} /\ stale' = None
    /\ UNCHANGED <<guard, dashboard, beat, seen, swept, told, down>>

Next ==
    \/ \E d \in Device :
         \/ StartOrStop(d) \/ CheckUser(d) \/ CacheUser(d) \/ Expire(d)
         \/ \E s \in {"online", "idle"} : Heartbeat(d, s)
         \/ Activity(d) \/ SweepEmits(d)
    \/ \E u \in User : SetActive(u)
    \/ Flush \/ \E w \in writes : Written(w) \/ NotWritten(w)
    \/ SweepReads \/ SweepEnds \/ Seed \/ Disconnect \/ Connect
    \/ Tick \/ DatabaseGoes \/ DatabaseReturns \/ Crash

Spec == Init /\ [][Next]_vars

\* Time passes; what the process has begun it goes on with; the database
\* comes back; an entry of Redis does not outlive its TTL.
FairSpec ==
    /\ Spec
    /\ WF_vars(Tick) /\ WF_vars(DatabaseReturns)
    /\ WF_vars(Flush) /\ WF_vars(\E w \in writes : Written(w) \/ NotWritten(w))
    /\ WF_vars(SweepReads) /\ WF_vars(SweepEnds)
    /\ WF_vars(\E d \in Device : SweepEmits(d))
    /\ \A d \in Device : WF_vars(CacheUser(d)) /\ WF_vars(Expire(d))

-----------------------------------------------------------------------------
\* last_seen_at is never older than the last heartbeat that was taken, but
\* for the ticks of an outage, once no UPDATE with that device is pending or
\* under way: a flush that fails, overlaps the next one (every 5 s, not
\* waiting) or is done after it does not set the time back for longer than
\* the trouble lasted.  A crash loses at most what the buffer held.
LastSeenLags ==
    \A d \in Device :
        d \notin DOMAIN pending /\ (\A w \in writes : d \notin DOMAIN w) /\ d \notin lost
            => seen[d] <= beat[d] + faults

\* An agent that stays dead is announced "offline" by the sweep in the end, as
\* long as the trouble of the database (MaxFaults) is shorter than Threshold:
\* the sweep must find the device fresh once to forget that it was announced.
DeadAgentIsAnnounced ==
    \A d \in Device :
        <>[](d \notin running) => <>[](told[d] \in {"none", "offline"})

\* A device whose user stays deactivated does not pass the guard for ever:
\* the entry of the cache, which nothing invalidates, expires, and none is
\* written again but by a request that had read the user before.
RevokedAgentIsCutOff ==
    \A d \in Device : []<>(d \in cached) => []<>(Owner[d] \in active)

\* "client-side fallback so presence converges to reality even if the WS drops
\* a message or Redis pub/sub is down" (monitoring-store.ts:11-12): when no
\* agent of a user runs any more the dashboard does not show it online or idle
\* for ever.
PresenceConverges ==
    \A u \in User :
        <>[](\A d \in running : Owner[d] # u) => <>[](shown[u] \in {"none", "offline"})
=============================================================================
