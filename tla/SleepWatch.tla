----------------------------- MODULE SleepWatch -----------------------------
(***************************************************************************)
(* The detector of sleeps (internal/sleepwatch/watcher.go): a goroutine    *)
(* that compares the wall clock with its 5 s ticker, takes the power       *)
(* events that a Windows service is told, debounces, and puts events on a  *)
(* channel for the event loop (main.go).  Time is in seconds; instants are *)
(* kept as the wall-clock time passed since them, cut off where the code   *)
(* can no longer tell the difference.                                      *)
(***************************************************************************)
EXTENDS Integers, Sequences

CONSTANTS
    Poll,        \* period of the ticker (5)
    Threshold,   \* a gap above it is a sleep (10)
    Debounce,    \* defaultDebounce (3)
    Cap,         \* capacity of C (4)
    SigCap,      \* capacity of sigCh (8)
    Lag,         \* bound: how late the goroutine takes a tick, under load
    Lengths,     \* bound: how long the machine sleeps
    Far,         \* bound: times are cut off here, where no comparison can tell
                 \* the difference any more
    Service,     \* the agent is a Windows service: it is told of sleeps
    MaxSleeps    \* bound: sleeps of one behaviour

VARIABLES
    due,        \* time to the next tick; negative: the tick waits to be taken
    sincePrev,  \* since prev, by the wall clock
    sinceLast,  \* since lastResumeAt, or Never
    sigs,       \* sigCh
    events,     \* C
    transit,    \* resume notifications on their way from Windows
    sleeps,
    slept,      \* history: the machine slept since the last tick was taken
    owed,       \* history: seconds since the end of a long sleep that no Resume
                \* has followed yet, or Never
    resumes     \* history: Resumes emitted since the last sleep

vars == <<due, sincePrev, sinceLast, sigs, events, transit, sleeps, slept, owed, resumes>>

Never == Far + 1

Init ==
    /\ due = Poll /\ sincePrev = 0 /\ sinceLast = Never
    /\ sigs = <<>> /\ events = <<>> /\ transit = 0 /\ sleeps = 0
    /\ slept = FALSE /\ owed = Never /\ resumes = 0

Later(t, d) == IF t = Never THEN Never ELSE IF t + d > Far THEN Far ELSE t + d

\* The wall clock moves on by d.
ClockMoves(d) ==
    /\ sincePrev' = Later(sincePrev, d)
    /\ sinceLast' = Later(sinceLast, d)

MutSend(e) == Append(events, e)   \* a send that does not look at the capacity

Send(e) == IF Len(events) < Cap THEN Append(events, e) ELSE events

MutEmitResume ==             \* lastResumeAt is set before it is compared
    /\ sinceLast' = 0
    /\ UNCHANGED <<events, owed, resumes>>

\* emitResume: within the debounce window nothing happens.  When C is full the
\* event is dropped, and the window starts all the same.
EmitResume ==
    IF sinceLast # Never /\ sinceLast < Debounce
    THEN UNCHANGED <<sinceLast, events, owed, resumes>>
    ELSE /\ sinceLast' = 0
         /\ events' = Send("resume")
         /\ owed' = Never
         /\ resumes' = IF resumes < 2 THEN resumes + 1 ELSE resumes

IsSleep(gap) == gap > Threshold

\* run, case <-ticker.C
TickTaken ==
    /\ due <= 0
    /\ due' = due + Poll
    /\ sincePrev' = 0
    /\ slept' = FALSE
    /\ IF IsSleep(sincePrev - Poll) THEN EmitResume
                                    ELSE UNCHANGED <<sinceLast, events, owed, resumes>>
    /\ UNCHANGED <<sigs, transit, sleeps>>

\* run, case <-w.sigCh
SignalTaken ==
    /\ sigs # <<>>
    /\ sigs' = Tail(sigs)
    /\ \/ Head(sigs) = "resume" /\ EmitResume
       \/ /\ Head(sigs) = "suspend"
          /\ events' = Send("suspend")
          /\ UNCHANGED <<sinceLast, owed, resumes>>
    /\ UNCHANGED <<due, sincePrev, transit, sleeps, slept>>

Signal(e) == IF Len(sigs) < SigCap THEN Append(sigs, e) ELSE sigs

\* The service is told of the end of a sleep, any time after it.
Notified ==
    /\ transit > 0
    /\ transit' = transit - 1
    /\ sigs' = Signal("resume")
    /\ UNCHANGED <<due, sincePrev, sinceLast, events, sleeps, slept, owed, resumes>>

\* The event loop takes an event, when it is not waiting for a sync tick's
\* flushes.
LoopTakes ==
    /\ events # <<>>
    /\ events' = Tail(events)
    /\ UNCHANGED <<due, sincePrev, sinceLast, sigs, transit, sleeps, slept, owed, resumes>>

\* A second passes, the machine awake.
Second ==
    /\ due > -Lag
    /\ due' = due - 1
    /\ ClockMoves(1)
    /\ owed' = Later(owed, 1)
    /\ UNCHANGED <<sigs, events, transit, sleeps, slept, resumes>>

\* The machine sleeps for d seconds.  Whether the ticker stands still meanwhile
\* depends on the system's monotonic clock.
Sleep(d) ==
    /\ sleeps < MaxSleeps
    /\ sleeps' = sleeps + 1
    /\ ClockMoves(d)
    /\ due' \in {due, IF due < 0 THEN due ELSE 0}
    /\ slept' = TRUE
    /\ owed' = IF d > Poll + Threshold THEN 0 ELSE owed
    /\ resumes' = 0
    /\ IF Service THEN sigs' = Signal("suspend") /\ transit' = transit + 1
                  ELSE UNCHANGED <<sigs, transit>>
    /\ UNCHANGED events

Next ==
    \/ TickTaken \/ SignalTaken \/ Notified \/ LoopTakes \/ Second
    \/ \E d \in Lengths : Sleep(d)

Spec == Init /\ [][Next]_vars

-----------------------------------------------------------------------------
(* Properties *)

TypeOK ==
    /\ due \in -Lag .. Poll
    /\ sincePrev \in 0 .. Far /\ sinceLast \in 0 .. Never
    /\ sigs \in Seq({"resume", "suspend"}) /\ Len(sigs) <= SigCap
    /\ events \in Seq({"resume", "suspend"}) /\ Len(events) <= Cap
    /\ transit \in 0 .. MaxSleeps /\ sleeps \in 0 .. MaxSleeps
    /\ slept \in BOOLEAN
    /\ owed \in 0 .. Never
    /\ resumes \in 0 .. 2

\* A sleep that is long enough is noticed by the next tick at the latest, whatever
\* the debouncing of signals did before: "small enough to catch any real sleep"
\* (watcher.go:57-58)
SleepIsCaught == owed # Never => owed <= Poll + Lag

\* ... and a tick that is taken late is no sleep: "large enough to survive
\* scheduler jitter" (watcher.go:57-58).
LateTickIsNoSleep == TickTaken /\ ~slept => UNCHANGED resumes
=============================================================================
