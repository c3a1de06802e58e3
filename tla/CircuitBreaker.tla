--------------------------- MODULE CircuitBreaker ---------------------------
(***************************************************************************)
(* The circuit breaker of the agent's API client                           *)
(* (apps/agent/internal/sync/client.go): the five fields guarded by        *)
(* Client.mu and the operations on them, each one critical section of the  *)
(* code.  An operation is a function from the breaker to the breaker, so   *)
(* that a module that calls it makes one atomic step of one Lock/Unlock.   *)
(*                                                                         *)
(* openedAt is kept as `wait', the time left before the reset window is    *)
(* over: the code only ever compares time.Since(openedAt) with             *)
(* resetTimeout, and only while the breaker is open, so `wait' is 0 in the *)
(* other states.                                                           *)
(***************************************************************************)
EXTENDS Naturals

CONSTANTS
    Threshold,   \* circuitOpenThreshold: consecutive failures that open it
    ResetAfter,  \* circuitResetAfter, in units of the model's clock
    FailureCap   \* bound of the model: failure counts from here on are one
                 \* value (the code only asks whether failures >= Threshold)

ASSUME BreakerAssumption ==
    /\ Threshold \in Nat \ {0}
    /\ ResetAfter \in Nat \ {0}
    /\ FailureCap \in Nat
    /\ FailureCap >= Threshold + 2

\* The windows recordFailure can produce: doubled, and capped at 4 x the first.
MaxReset == 4 * ResetAfter
Windows  == {ResetAfter, 2 * ResetAfter, MaxReset}

Breaker == [state        : {"closed", "open", "half"},
            failures     : 0 .. FailureCap,
            resetTimeout : Windows,
            wait         : 0 .. MaxReset,
            probe        : BOOLEAN]          \* probeInFlight

NewBreaker == [state |-> "closed", failures |-> 0, resetTimeout |-> ResetAfter,
               wait |-> 0, probe |-> FALSE]

-----------------------------------------------------------------------------
\* Operators named Mut... are the mutants of PROJECT.json: what a plausible bug
\* in the definition below them would do.  No specification uses them.

\* isBlocked: definitively open, the window not yet over.
IsBlocked(b) == b.state = "open" /\ b.wait > 0

MutSlotIgnored(b) == b.state # "open" \/ b.wait = 0   \* slot not consulted

\* What IsAvailable answers ...
Available(b) == \/ b.state = "closed"
                \/ b.state = "open" /\ b.wait = 0
                \/ b.state = "half" /\ ~b.probe

MutWindowEndCloses(b) ==     \* the end of the window closes the breaker
    IF b.state = "open" /\ b.wait = 0 THEN NewBreaker ELSE b

MutStaysOpen(b) ==           \* callers are let through, the state is not changed
    IF b.state = "half" THEN [b EXCEPT !.probe = TRUE] ELSE b

\* ... and what it leaves behind.  An open breaker whose window is over turns
\* half-open and lets its caller through WITHOUT taking the probe slot; the
\* next caller takes the slot.
AfterIsAvailable(b) ==
    IF b.state = "open" /\ b.wait = 0 THEN [b EXCEPT !.state = "half"]
    ELSE IF b.state = "half" THEN [b EXCEPT !.probe = TRUE]
    ELSE b

Doubled(t) == IF 2 * t > MaxReset THEN MaxReset ELSE 2 * t

OneMoreFailure(b) == IF b.failures < FailureCap THEN b.failures + 1 ELSE FailureCap

MutSlotKept(b) ==            \* a failed probe does not give its slot back
    LET n == OneMoreFailure(b) IN
    IF n >= Threshold
    THEN [b EXCEPT !.state = "open", !.failures = n, !.wait = b.resetTimeout]
    ELSE [b EXCEPT !.failures = n]

RecordFailure(b) ==
    LET n == OneMoreFailure(b) IN
    IF b.state = "half"
    THEN [state |-> "open", failures |-> n, resetTimeout |-> Doubled(b.resetTimeout),
          wait |-> Doubled(b.resetTimeout), probe |-> FALSE]
    ELSE IF n >= Threshold
    THEN [b EXCEPT !.state = "open", !.failures = n, !.wait = b.resetTimeout]
    ELSE [b EXCEPT !.failures = n]

MutPermanentKeepsSlot(b) == b

\* A permanent HTTP status (400, 401, 403, 404, 422) is no evidence about the
\* server: it only gives the slot back.
RecordPermanent(b) == IF b.state = "half" THEN [b EXCEPT !.probe = FALSE] ELSE b

\* recordSuccess and ResetCircuit assign the same four fields.
RecordSuccess(b) == NewBreaker
ResetCircuit(b)  == NewBreaker

\* One unit of time of the open window goes by.
Tick(b) == [b EXCEPT !.wait = b.wait - 1]

-----------------------------------------------------------------------------
\* Facts that tie the fields together, for the invariants of the modules that
\* use the breaker.

\* The probe slot is taken in the half-open state only (the state
\* TestCircuitBreakerConcurrency calls "stuck", client_test.go:123, is a slot
\* that stays taken outside it).
SlotOnlyHalfOpen(b) == b.probe => b.state = "half"

\* Closed means fewer failures in a row than the threshold, and nothing else
\* does: no path leaves the failure count of an outage behind on a closed
\* breaker (the next single failure would open it), and none opens it early.
ClosedIffBelowThreshold(b) == b.state = "closed" <=> b.failures < Threshold

\* The window is longer than the first one only after as many failures that met
\* the breaker half-open, on top of those that opened it: of probes, or of
\* requests sent before somebody turned it half-open.
BackoffEarned(b) ==
    /\ b.resetTimeout > ResetAfter => b.failures > Threshold
    /\ b.resetTimeout = MaxReset   => b.failures > Threshold + 1

\* The clock of the window runs while the breaker is open and never beyond it.
WindowBounded(b) ==
    /\ b.wait <= b.resetTimeout
    /\ b.state # "open" => b.wait = 0

BreakerOK(b) ==
    /\ b \in Breaker
    /\ SlotOnlyHalfOpen(b)
    /\ ClosedIffBelowThreshold(b)
    /\ BackoffEarned(b)
    /\ WindowBounded(b)
=============================================================================
