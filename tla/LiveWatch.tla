------------------------------ MODULE LiveWatch -----------------------------
(***************************************************************************)
(* Live view: a manager's browser keeps a flag alive in the API's memory   *)
(* for the device that it watches, and the device takes screenshots in     *)
(* bursts while its command poll finds the flag.  Time passes in periods   *)
(* of the browser's keep-alive (15 s); the agent polls many times in each. *)
(* A request may stay under way for any time; requests of one browser that *)
(* say the same and are under way together count as one.                   *)
(***************************************************************************)
EXTENDS Naturals

CONSTANTS
    Viewer,     \* browsers of managers
    Device,     \* devices of the employee
    TTL,        \* life of the flag in keep-alive periods (60 s: 4)
    MaxOpens,   \* bound: live views that are opened
    MaxFaults   \* bound: lost requests, browsers that die, restarts

VARIABLES
    view,    \* per browser: the device watched, "user", or "closed"
    posts,   \* requests under way: [from, on, start], start FALSE for stop
    recent,  \* the device seen last, which a request for a user means
    store,   \* LiveWatchCache: periods until the flag expires
    burst,   \* per device: what its last command poll said
    opens, losses,
    quiet,   \* history: periods without a view or a request
    dark,    \* history: periods in a row without a flag, per browser with a view
    closes,  \* history: views that were closed
    slow     \* history: a request took longer than a period

vars == <<view, posts, recent, store, burst, opens, losses, quiet, dark, closes, slow>>
history == <<quiet, dark, closes, slow>>

Closed(v) == view[v] = "closed"
Post(v, on, start) == [from |-> v, on |-> on, start |-> start]

Init ==
    /\ view = [v \in Viewer |-> "closed"] /\ posts = {} /\ recent = CHOOSE d \in Device : TRUE
    /\ store = [d \in Device |-> 0] /\ burst = [d \in Device |-> FALSE]
    /\ opens = 0 /\ losses = 0
    /\ quiet = 0 /\ dark = [v \in Viewer |-> 0] /\ closes = 0 /\ slow = FALSE

\* LiveScreenshotView mounts: the first keep-alive goes out.
Open(v, on) ==
    /\ Closed(v) /\ opens < MaxOpens
    /\ opens' = opens + 1 /\ view' = [view EXCEPT ![v] = on]
    /\ posts' = posts \cup {Post(v, on, TRUE)} /\ quiet' = 0
    /\ UNCHANGED <<recent, store, burst, losses, dark, closes, slow>>

\* It unmounts: the stop is sent and not waited for.
Close(v) ==
    /\ ~Closed(v)
    /\ view' = [view EXCEPT ![v] = "closed"] /\ dark' = [dark EXCEPT ![v] = 0]
    /\ posts' = posts \cup {Post(v, view[v], FALSE)} /\ closes' = closes + 1
    /\ UNCHANGED <<recent, store, burst, opens, losses, quiet, slow>>

Fault == losses < MaxFaults /\ losses' = losses + 1

\* The browser dies with its view open.
Die(v) ==
    /\ ~Closed(v) /\ Fault
    /\ view' = [view EXCEPT ![v] = "closed"] /\ dark' = [dark EXCEPT ![v] = 0]
    /\ UNCHANGED <<posts, recent, store, burst, opens, quiet, closes, slow>>

MutMarkWatched(flags, d) == [flags EXCEPT ![d] = @ + TTL]   \* each call adds to it
MarkWatched(flags, d) == [flags EXCEPT ![d] = TTL]

\* requestStream(ByDevice).
Start(p) ==
    /\ p.start /\ posts' = posts \ {p}
    /\ store' = MarkWatched(store, IF p.on = "user" THEN recent ELSE p.on)
    /\ UNCHANGED <<view, recent, burst, opens, losses, history>>

\* stopStream(ByDevice): for a user all devices.
Stop(p) ==
    /\ ~p.start /\ posts' = posts \ {p}
    /\ store' = [d \in Device |-> IF p.on \in {"user", d} THEN 0 ELSE store[d]]
    /\ UNCHANGED <<view, recent, burst, opens, losses, history>>

Lose(p) ==
    /\ Fault /\ posts' = posts \ {p}
    /\ UNCHANGED <<view, recent, store, burst, opens, history>>

Restart ==
    /\ Fault /\ store' = [d \in Device |-> 0]
    /\ UNCHANGED <<view, posts, recent, burst, opens, history>>

Seen(d) ==
    /\ d # recent /\ recent' = d
    /\ UNCHANGED <<view, posts, store, burst, opens, losses, history>>

IsWatched(d) == store[d] > 0

\* GET /agent/sync/commands.
Commands(d) ==
    /\ burst[d] # IsWatched(d)
    /\ burst' = [burst EXCEPT ![d] = IsWatched(d)]
    /\ UNCHANGED <<view, posts, recent, store, opens, losses, history>>

IsDark(v) == view[v] \in Device /\ ~IsWatched(view[v])

\* The interval of every view that is open.
KeepAlive == {Post(v, view[v], TRUE) : v \in {w \in Viewer : ~Closed(w)}}

Period ==
    /\ \A d \in Device : burst[d] = IsWatched(d)
    /\ store' = [d \in Device |-> IF store[d] > 0 THEN store[d] - 1 ELSE 0]
    /\ posts' = posts \cup KeepAlive
    /\ quiet' = IF posts = {} /\ \A v \in Viewer : Closed(v)
                  THEN (IF quiet <= TTL THEN quiet + 1 ELSE quiet) ELSE 0
    /\ dark' = [v \in Viewer |-> IF ~IsDark(v) THEN 0
                                 ELSE IF dark[v] <= MaxOpens THEN dark[v] + 1 ELSE dark[v]]
    /\ slow' = (slow \/ posts # {})
    /\ UNCHANGED <<view, recent, burst, opens, losses, closes>>

Next ==
    \/ \E v \in Viewer : (\E on \in Device \cup {"user"} : Open(v, on)) \/ Close(v) \/ Die(v)
    \/ \E p \in posts : Start(p) \/ Stop(p) \/ Lose(p)
    \/ \E d \in Device : Seen(d) \/ Commands(d)
    \/ Restart \/ Period

Spec == Init /\ [][Next]_vars

-----------------------------------------------------------------------------
\* Once nobody watches and no request is under way, no device goes on taking
\* bursts for longer than the life of the flag, whatever stop was lost, came
\* before an earlier start, or was never sent.
BurstsEnd == quiet > TTL => \A d \in Device : ~burst[d]

\* Somebody who closes a view of the same device takes the flag from another
\* view of it for one keep-alive period at most.
ViewComesBack == losses > 0 \/ slow \/ \A v \in Viewer : dark[v] <= closes
=============================================================================
