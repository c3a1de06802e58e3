------------------------------- MODULE Capture ------------------------------
(***************************************************************************)
(* The two parts of the agent that turn time into events: the detector of  *)
(* sleeps and the tracking of windows.  They meet in the event loop, where *)
(* WindowTracking takes a Resume at any time after a sleep, however        *)
(* SleepWatch came to emit it.  So a behaviour has one of them in focus,   *)
(* each with its own scale of time, and the other stays as it began.       *)
(***************************************************************************)
EXTENDS Integers, Sequences

CONSTANTS
    Poll, Threshold, Debounce, Cap, SigCap, Lag, Lengths, Far, Service,  \* SleepWatch
    MaxPowerSleeps,
    App, Pulse, CommitAfter, IdleLimit, ChanCap, MaxTime, MaxSleeps      \* WindowTracking

\* A tick is late by less than a period, a sleep that a tick notices is longer
\* than the debouncing (3 s against 5 s and 10 s), and times are cut off where
\* no comparison of the watcher can tell the difference.
ASSUME CaptureAssumption ==
    /\ {Threshold, Debounce, MaxPowerSleeps, Pulse, MaxTime, MaxSleeps} \subseteq Nat
    /\ {Poll, Cap, SigCap, CommitAfter, IdleLimit, ChanCap} \subseteq Nat \ {0}
    /\ Lag \in 0 .. Poll - 1 /\ Lag <= Threshold
    /\ Lengths \subseteq Nat /\ Service \in BOOLEAN
    /\ Debounce <= Poll + Threshold
    /\ Far \in Nat /\ Far > Poll + Threshold + Lag

VARIABLES
    part,     \* the one in focus
    due, sincePrev, sinceLast, sigs, events, transit, powerSleeps, slept, owed, resumes,
    hasHook, now, focus, idle, hooked, idleDue, pollDue, samples, sampleIdx, confirm, isAFK,
    cached, committed, sleeps, woken, away

SW == INSTANCE SleepWatch WITH sleeps <- powerSleeps, MaxSleeps <- MaxPowerSleeps
WT == INSTANCE WindowTracking

watcher  == <<due, sincePrev, sinceLast, sigs, events, transit, powerSleeps, slept, owed,
              resumes>>
tracking == <<hasHook, now, focus, idle, hooked, idleDue, pollDue, samples, sampleIdx,
              confirm, isAFK, cached, committed, sleeps, woken, away>>
vars == <<part, watcher, tracking>>

Init ==
    /\ part \in {"sleep", "window"} /\ SW!Init /\ WT!Init
    /\ hasHook => part = "window"

Next ==
    /\ UNCHANGED part
    /\ \/ part = "sleep" /\ SW!Next /\ UNCHANGED tracking
       \/ part = "window" /\ WT!Next /\ UNCHANGED watcher

Spec == Init /\ [][Next]_vars

-----------------------------------------------------------------------------
\* The channels hold no more than their capacity, the merge queue one event.
TypeOK == SW!TypeOK /\ WT!TypeOK

\* A long sleep is noticed by the next tick at the latest, whatever the
\* debouncing did before, and a tick that is taken late is no sleep
\* (watcher.go run, emitResume).
SleepsAreTold == [][SW!SleepIsCaught' /\ SW!LateTickIsNoSleep]_vars

\* With the poll, a second is counted for a window only if it was in front at
\* most `pulsetime' earlier, and committing for length counts one second twice
\* and nothing else does (merge.go HeartbeatMerge, Push).
TimeIsCounted == WT!TimeIsBacked /\ WT!OverlapIsOneSecond

\* An event ends where the user went away (main.go idle tick).
AwayIsNotCounted == WT!AwayIsNotCounted
=============================================================================
