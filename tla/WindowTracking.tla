--------------------------- MODULE WindowTracking ---------------------------
(***************************************************************************)
(* From the foreground window to activity events (main.go, capture,        *)
(* internal/heartbeat/merge.go): a hook that reports focus changes, or a   *)
(* poll once a second; the AFK state machine with its median filter; and   *)
(* the queue that merges sightings into events.  The event loop takes its  *)
(* ticks in any order and, when it waits for a sync tick's flushes, late.  *)
(* Time is in seconds: a second t has one foreground window, focus[t].     *)
(***************************************************************************)
EXTENDS Naturals, Sequences

CONSTANTS
    App,         \* windows (application, title, url)
    Pulse,       \* pulsetime (2)
    CommitAfter, \* commitThresh (60)
    IdleLimit,   \* cfg.IdleThreshold
    ChanCap,     \* capacity of the hook's channel (64)
    MaxTime,     \* bound: seconds of a behaviour
    MaxSleeps    \* bound: sleeps of a behaviour

VARIABLES
    hasHook,         \* StartWindowEventStream succeeded; if not, poll
    now, focus,      \* the second it is; the window of each second so far
    idle,            \* seconds since the last input
    hooked,          \* the hook's channel
    idleDue, pollDue,    \* the two tickers' channels, of capacity 1
    samples, sampleIdx, confirm, isAFK,
    cached,          \* the merge queue: events of at most one stream
    committed,       \* the two events committed last, the newest first
    sleeps, woken,   \* sleeps so far; one that no Resume has followed yet
    away             \* history: seconds that began AFK

vars == <<hasHook, now, focus, idle, hooked, idleDue, pollDue, samples, sampleIdx, confirm,
          isAFK, cached, committed, sleeps, woken, away>>

Event == [app : App, start : 0 .. MaxTime, dur : 1 .. MaxTime + 1]
End(e) == e.start + e.dur
Span(e) == e.start .. End(e) - 1

Init ==
    /\ hasHook \in BOOLEAN
    /\ now = 0 /\ focus \in [{0} -> App] /\ idle = 0
    /\ hooked = <<>> /\ idleDue = FALSE /\ pollDue = FALSE
    /\ samples = [i \in 0 .. 2 |-> 0] /\ sampleIdx = 0 /\ confirm = 0
    /\ isAFK = FALSE /\ cached = {} /\ committed = <<>>
    /\ sleeps = 0 /\ woken = FALSE /\ away = {}

-----------------------------------------------------------------------------
(* heartbeat.Queue *)

Commit(E) ==
    committed' = IF E = {} THEN committed
                 ELSE LET e == CHOOSE e \in E : TRUE IN
                      IF committed = <<>> THEN <<e>> ELSE <<e, Head(committed)>>

MutMergeable(last, e) ==     \* a merge window twice as long
    e.app = last.app /\ e.start <= End(last) + 2 * Pulse

\* HeartbeatMerge
Mergeable(last, e) == e.app = last.app /\ e.start <= End(last) + Pulse

Longer(last, e) ==
    LET d == e.start - last.start + e.dur
    IN  [last EXCEPT !.dur = IF d > @ THEN d ELSE @]

Fresh(e) == {e}

\* Push
Push(e) ==
    LET merged == {Longer(l, e) : l \in {l \in cached : Mergeable(l, e)}} IN
    \/ /\ cached = {}
       /\ cached' = Fresh(e) /\ UNCHANGED committed
    \/ /\ merged # {}                        \* it merges ...
       /\ \/ /\ \E l \in merged : l.dur >= CommitAfter
             /\ Commit(merged) /\ cached' = Fresh(e)
          \/ /\ \A l \in merged : l.dur < CommitAfter
             /\ cached' = merged /\ UNCHANGED committed
    \/ /\ cached # {} /\ merged = {}         \* ... or it does not
       /\ Commit(cached) /\ cached' = Fresh(e)

MutFlushAll == UNCHANGED <<cached, committed>>

FlushAll == Commit(cached) /\ cached' = {}

-----------------------------------------------------------------------------
(* The world and the event loop *)

\* A second later, maybe with another window in front, maybe after input.
Second ==
    /\ now < MaxTime
    /\ now' = now + 1
    /\ \E a \in App :
          /\ focus' = [t \in 0 .. now + 1 |-> IF t <= now THEN focus[t] ELSE a]
          /\ hooked' = IF hasHook /\ a # focus[now] /\ Len(hooked) < ChanCap
                       THEN Append(hooked, a) ELSE hooked
    /\ idle' \in {0, idle + 1}
    /\ idleDue' = TRUE
    /\ pollDue' = ~hasHook
    /\ away' = IF isAFK THEN away \cup {now + 1} ELSE away
    /\ UNCHANGED <<hasHook, samples, sampleIdx, confirm, isAFK, cached, committed, sleeps, woken>>

Sighting(a) == [app |-> a, start |-> now, dur |-> 1]

\* case win := <-windowEvents: the time is that of the taking.
HookTaken ==
    /\ hooked # <<>>
    /\ hooked' = Tail(hooked)
    /\ IF isAFK THEN UNCHANGED <<cached, committed>> ELSE Push(Sighting(Head(hooked)))
    /\ UNCHANGED <<hasHook, now, focus, idle, idleDue, pollDue, samples, sampleIdx, confirm,
                   isAFK, sleeps, woken, away>>

\* case <-windowFallbackC
PollTaken ==
    /\ pollDue
    /\ pollDue' = FALSE
    /\ IF isAFK THEN UNCHANGED <<cached, committed>> ELSE Push(Sighting(focus[now]))
    /\ UNCHANGED <<hasHook, now, focus, idle, hooked, idleDue, samples, sampleIdx, confirm,
                   isAFK, sleeps, woken, away>>

\* medianUint32
Median(f) == CHOOSE m \in {f[i] : i \in 0 .. 2} :
                /\ \E i, j \in 0 .. 2 : i # j /\ f[i] <= m /\ f[j] <= m
                /\ \E i, j \in 0 .. 2 : i # j /\ f[i] >= m /\ f[j] >= m

\* case <-idleTicker.C
IdleTaken ==
    LET ring  == [samples EXCEPT ![sampleIdx] = idle]
        quiet == Median(ring) >= IdleLimit
        count == IF quiet THEN 0 ELSE IF confirm < 2 THEN confirm + 1 ELSE confirm
        afk   == IF isAFK THEN count < 2 ELSE quiet
    IN
    /\ idleDue
    /\ idleDue' = FALSE
    /\ samples' = ring /\ sampleIdx' = (sampleIdx + 1) % 3
    /\ confirm' = count
    /\ isAFK' = afk
    /\ IF afk /\ ~isAFK THEN FlushAll ELSE UNCHANGED <<cached, committed>>
    /\ UNCHANGED <<hasHook, now, focus, idle, hooked, pollDue, sleeps, woken, away>>

\* The machine sleeps for some seconds, nothing runs ...
Sleep ==
    /\ sleeps < MaxSleeps /\ now + 2 <= MaxTime
    /\ sleeps' = sleeps + 1 /\ woken' = TRUE
    /\ \E d \in 2 .. MaxTime - now :
          /\ now' = now + d
          /\ focus' = [t \in 0 .. now + d |-> focus[IF t <= now THEN t ELSE now]]
          /\ idle' = idle + d
    /\ UNCHANGED <<hasHook, hooked, idleDue, pollDue, samples, sampleIdx, confirm, isAFK,
                   cached, committed, away>>

\* ... and a Resume is taken, sooner or later: ResetIdleBaseline.
Resume ==
    /\ woken
    /\ woken' = FALSE
    /\ isAFK' = FALSE
    /\ idle' = 0
    /\ FlushAll
    /\ UNCHANGED <<hasHook, now, focus, hooked, idleDue, pollDue, samples, sampleIdx, confirm,
                   sleeps, away>>

\* A sync tick hands the cached event on.
SyncTick ==
    /\ FlushAll
    /\ UNCHANGED <<hasHook, now, focus, idle, hooked, idleDue, pollDue, samples, sampleIdx,
                   confirm, isAFK, sleeps, woken, away>>

Next == Second \/ HookTaken \/ PollTaken \/ IdleTaken \/ Sleep \/ Resume \/ SyncTick

Spec == Init /\ [][Next]_vars

-----------------------------------------------------------------------------
(* Properties *)

TypeOK ==
    /\ hasHook \in BOOLEAN
    /\ now \in 0 .. MaxTime /\ focus \in [0 .. now -> App]
    /\ idle \in 0 .. MaxTime + 1
    /\ hooked \in Seq(App) /\ Len(hooked) <= ChanCap
    /\ idleDue \in BOOLEAN /\ pollDue \in BOOLEAN
    /\ samples \in [0 .. 2 -> 0 .. MaxTime] /\ sampleIdx \in 0 .. 2
    /\ confirm \in 0 .. 2 /\ isAFK \in BOOLEAN
    /\ cached \subseteq Event /\ \A e, f \in cached : e = f
    /\ committed \in Seq(Event) /\ Len(committed) <= 2
    /\ sleeps \in 0 .. MaxSleeps /\ woken \in BOOLEAN
    /\ away \subseteq 0 .. MaxTime

Last == IF committed = <<>> THEN {} ELSE {Head(committed)}

\* With the poll, late ticks, sleeps and AFK periods notwithstanding, a second is
\* counted for a window only if that window was in front at most `pulsetime'
\* earlier (merge.go:48-53).
TimeIsBacked ==
    ~hasHook =>
        \A e \in Last \cup cached : \A t \in Span(e) :
            \E u \in 0 .. now : u <= t /\ t <= u + Pulse /\ focus[u] = e.app

\* An event ends where the user went away: no AFK period is bridged.
AwayIsNotCounted == \A e \in Last \cup cached : \A t \in away : t \notin Span(e) \ {e.start}

\* Committing for length counts one second twice, and nothing else does.
OverlapIsOneSecond ==
    Len(committed) = 2 => committed[1].start + 1 >= End(committed[2])

=============================================================================
