------------------------------ MODULE Requests ------------------------------
(***************************************************************************)
(* How the API's handlers run.  NestJS starts a handler per HTTP request,  *)
(* in any of several replicas; a handler is a sequence of awaits (a        *)
(* statement of the database, a call of Redis or of a provider) and other  *)
(* handlers run between any two of them.  A request is a record with the   *)
(* number `id' of its arrival, the handler's name `op' and `todo', the     *)
(* awaits that are still ahead of it; a service's module says what each    *)
(* await does and adds fields of its own.                                  *)
(***************************************************************************)
EXTENDS Naturals, FiniteSets, Sequences

CONSTANTS
    MaxRequests,  \* bound: requests that arrive in one behaviour
    MaxInFlight   \* bound: requests handled at the same time

VARIABLES
    flight,    \* the requests being handled
    begun,     \* the number of requests that arrived
    together,  \* history: pairs of requests that were handled at one time
    failed     \* history: requests that stopped at an await that threw

requests == <<flight, begun, together, failed>>

RequestsInit == flight = {} /\ begun = 0 /\ together = {} /\ failed = {}

\* A request arrives; the service gives it the number begun + 1.
Arrive(r) ==
    /\ begun < MaxRequests /\ Cardinality(flight) < MaxInFlight
    /\ begun' = begun + 1
    /\ flight' = flight \cup {r}
    /\ together' = together \cup {{r.id, q.id} : q \in flight}
    /\ UNCHANGED failed

IsAt(r, await) == Head(r.todo) = await

\* The handler goes on as q, whose first await is over; the last one ends it.
GoOnAs(r, q) ==
    /\ flight' = (flight \ {r}) \cup
                 (IF Len(q.todo) = 1 THEN {} ELSE {[q EXCEPT !.todo = Tail(@)]})
    /\ UNCHANGED <<begun, together, failed>>

GoOn(r) == GoOnAs(r, r)

\* An early return or an exception of the service: the handler ends here.
Stop(r) ==
    /\ flight' = flight \ {r}
    /\ UNCHANGED <<begun, together, failed>>

\* The await throws (the database, Redis or a provider is unreachable, or
\* the process dies): nothing that is still ahead is done.
Throw(r) ==
    /\ flight' = flight \ {r}
    /\ failed' = failed \cup {r.id}
    /\ UNCHANGED <<begun, together>>

Overlapped(a, b) == {a, b} \in together

\* r is the request that the step completes.
Ends(r) == r \in flight /\ \A q \in flight' : q.id # r.id
=============================================================================
