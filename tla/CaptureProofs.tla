---------------------------- MODULE CaptureProofs ----------------------------
(***************************************************************************)
(* Theorems about Capture, for any periods, thresholds, windows and        *)
(* sleeps: a long sleep is noticed by the next tick, and the events that   *)
(* the merge queue makes of what was in front count no time that the user  *)
(* was away and no second without a reason.                                *)
(***************************************************************************)
EXTENDS Capture, SequenceTheorems, TLAPS

\* What the proofs need of the constants.
LEMMA Constants ==
    /\ Poll \in Nat /\ Threshold \in Nat /\ Debounce \in Nat /\ Lag \in Nat /\ Far \in Nat
    /\ Cap \in Nat \ {0} /\ SigCap \in Nat \ {0} /\ MaxPowerSleeps \in Nat
    /\ \A d \in Lengths : d \in Nat
    /\ Lag < Poll /\ Lag <= Threshold /\ Debounce <= Poll + Threshold
    /\ Far > Poll + Threshold + Lag
    /\ Pulse \in Nat /\ MaxTime \in Nat /\ MaxSleeps \in Nat /\ CommitAfter \in Nat
    /\ IdleLimit \in Nat /\ ChanCap \in Nat \ {0}
BY CaptureAssumption DEF CaptureAssumption

USE Constants

\* What a channel holds after a send, and after something is taken from it.
LEMMA Channels ==
    ASSUME NEW S, NEW s \in Seq(S)
    PROVE  /\ Len(s) \in Nat
           /\ \A e \in S : Append(s, e) \in Seq(S) /\ Len(Append(s, e)) = Len(s) + 1
           /\ s # <<>> => /\ Head(s) \in S /\ Tail(s) \in Seq(S)
                          /\ Len(Tail(s)) = Len(s) - 1
BY AppendProperties, HeadTailProperties

-----------------------------------------------------------------------------
(* The detector of sleeps *)

\* Awake, the wall clock and the ticker agree.  While a long sleep is untold,
\* the next tick will see it, and the debouncing is over.
SleepInv ==
    /\ SW!TypeOK /\ transit <= powerSleeps
    /\ ~slept => sincePrev + due <= Poll
    /\ owed # SW!Never => /\ owed + due <= Poll /\ sincePrev > Poll + Threshold
                          /\ sinceLast >= Debounce

LEMMA LaterTypes ==
    /\ SW!Never = Far + 1
    /\ \A t \in 0 .. Far + 1, d \in Nat :
          /\ t = SW!Never => SW!Later(t, d) = SW!Never
          /\ t # SW!Never => /\ SW!Later(t, d) \in 0 .. Far /\ SW!Later(t, d) <= t + d
                             /\ (SW!Later(t, d) = Far \/ SW!Later(t, d) = t + d)
<1>1. SW!Never = Far + 1
  BY DEF SW!Never
<1> QED BY <1>1 DEF SW!Later

\* The channels hold no more than their capacity, whatever is sent or taken.
LEMMA Sends ==
    ASSUME SW!TypeOK
    PROVE  /\ \A e \in {"resume", "suspend"} :
                 /\ SW!Send(e) \in Seq({"resume", "suspend"}) /\ Len(SW!Send(e)) <= Cap
                 /\ SW!Signal(e) \in Seq({"resume", "suspend"}) /\ Len(SW!Signal(e)) <= SigCap
           /\ events # <<>> =>
                 Tail(events) \in Seq({"resume", "suspend"}) /\ Len(Tail(events)) <= Cap
           /\ sigs # <<>> =>
                 Tail(sigs) \in Seq({"resume", "suspend"}) /\ Len(Tail(sigs)) <= SigCap
<1> DEFINE S == {"resume", "suspend"}
<1>1. /\ events \in Seq(S) /\ Len(events) <= Cap
      /\ sigs \in Seq(S) /\ Len(sigs) <= SigCap
  BY DEF SW!TypeOK
<1> SUFFICES /\ \A e \in S : /\ SW!Send(e) \in Seq(S) /\ Len(SW!Send(e)) <= Cap
                             /\ SW!Signal(e) \in Seq(S) /\ Len(SW!Signal(e)) <= SigCap
             /\ events # <<>> => Tail(events) \in Seq(S) /\ Len(Tail(events)) <= Cap
             /\ sigs # <<>> => Tail(sigs) \in Seq(S) /\ Len(Tail(sigs)) <= SigCap
  OBVIOUS
<1> HIDE DEF S
<1>2. Len(events) \in Nat /\ Len(sigs) \in Nat
  BY <1>1, Channels
<1>3. ASSUME NEW e \in S
      PROVE  /\ SW!Send(e) \in Seq(S) /\ Len(SW!Send(e)) <= Cap
             /\ SW!Signal(e) \in Seq(S) /\ Len(SW!Signal(e)) <= SigCap
  <2>1. /\ Append(events, e) \in Seq(S) /\ Len(Append(events, e)) = Len(events) + 1
        /\ Append(sigs, e) \in Seq(S) /\ Len(Append(sigs, e)) = Len(sigs) + 1
    BY <1>1, Channels
  <2> QED BY <1>1, <1>2, <2>1 DEF SW!Send, SW!Signal
<1>4. events # <<>> => Tail(events) \in Seq(S) /\ Len(Tail(events)) = Len(events) - 1
  BY <1>1, Channels
<1>5. sigs # <<>> => Tail(sigs) \in Seq(S) /\ Len(Tail(sigs)) = Len(sigs) - 1
  BY <1>1, Channels
<1> QED BY <1>1, <1>2, <1>3, <1>4, <1>5

LEMMA ResumeTypes ==
    ASSUME SW!TypeOK, SW!EmitResume
    PROVE  /\ sinceLast' \in 0 .. SW!Never /\ owed' \in 0 .. SW!Never /\ resumes' \in 0 .. 2
           /\ events' \in Seq({"resume", "suspend"}) /\ Len(events') <= Cap
           /\ \/ UNCHANGED <<sinceLast, owed>> /\ sinceLast < Debounce
              \/ owed' = SW!Never
<1>1. CASE sinceLast # SW!Never /\ sinceLast < Debounce
  BY <1>1 DEF SW!TypeOK, SW!EmitResume
<1>2. CASE ~(sinceLast # SW!Never /\ sinceLast < Debounce)
  <2>1. /\ sinceLast' = 0 /\ owed' = SW!Never /\ events' = SW!Send("resume")
        /\ resumes' = IF resumes < 2 THEN resumes + 1 ELSE resumes
    BY <1>2 DEF SW!EmitResume
  <2>2. events' \in Seq({"resume", "suspend"}) /\ Len(events') <= Cap
    BY <2>1, Sends
  <2> QED BY <2>1, <2>2, LaterTypes DEF SW!TypeOK
<1> QED BY <1>1, <1>2

LEMMA SleepTickTaken == SleepInv /\ SW!TickTaken => SleepInv'
<1> SUFFICES ASSUME SleepInv, SW!TickTaken PROVE SleepInv'
  OBVIOUS
<1>1. /\ due \in -Lag .. Poll /\ due <= 0 /\ due' = due + Poll /\ sincePrev' = 0
      /\ slept' = FALSE /\ UNCHANGED <<sigs, transit, powerSleeps>>
      /\ sincePrev \in 0 .. Far
  BY DEF SleepInv, SW!TypeOK, SW!TickTaken
<1>2. due' \in -Lag .. Poll /\ sincePrev' \in 0 .. Far /\ sincePrev' + due' <= Poll
  BY <1>1
<1>3. /\ sinceLast' \in 0 .. SW!Never /\ owed' \in 0 .. SW!Never /\ resumes' \in 0 .. 2
      /\ events' \in Seq({"resume", "suspend"}) /\ Len(events') <= Cap
  BY ResumeTypes DEF SleepInv, SW!TypeOK, SW!TickTaken
<1>4. owed' = SW!Never
  <2>1. CASE owed = SW!Never
    BY <2>1, ResumeTypes DEF SW!TickTaken, SleepInv
  <2>2. CASE owed # SW!Never
    <3>1. SW!IsSleep(sincePrev - Poll) /\ sinceLast >= Debounce /\ sinceLast \in 0 .. SW!Never
      BY <1>1, <2>2 DEF SleepInv, SW!TypeOK, SW!IsSleep
    <3>2. ~(sinceLast < Debounce)
      BY <3>1, LaterTypes
    <3> QED BY <3>1, <3>2, ResumeTypes DEF SW!TickTaken, SleepInv
  <2> QED BY <2>1, <2>2
<1> QED BY <1>1, <1>2, <1>3, <1>4 DEF SleepInv, SW!TypeOK

LEMMA SleepSignals == SleepInv /\ (SW!SignalTaken \/ SW!Notified \/ SW!LoopTakes) => SleepInv'
<1>1. ASSUME SleepInv, SW!SignalTaken PROVE SleepInv'
  <2>1. /\ sigs' \in Seq({"resume", "suspend"}) /\ Len(sigs') <= SigCap
        /\ UNCHANGED <<due, sincePrev, transit, powerSleeps, slept>>
    BY <1>1, Sends DEF SleepInv, SW!SignalTaken
  <2>2. CASE SW!EmitResume
    BY <1>1, <2>1, <2>2, ResumeTypes, LaterTypes DEF SleepInv, SW!TypeOK
  <2>3. CASE events' = SW!Send("suspend") /\ UNCHANGED <<sinceLast, owed, resumes>>
    <3>1. events' \in Seq({"resume", "suspend"}) /\ Len(events') <= Cap
      BY <1>1, <2>3, Sends DEF SleepInv
    <3> QED BY <1>1, <2>1, <2>3, <3>1 DEF SleepInv, SW!TypeOK
  <2> QED BY <1>1, <2>2, <2>3 DEF SW!SignalTaken
<1>2. ASSUME SleepInv, SW!Notified PROVE SleepInv'
  <2>1. sigs' \in Seq({"resume", "suspend"}) /\ Len(sigs') <= SigCap
    BY <1>2, Sends DEF SleepInv, SW!Notified
  <2>2. transit' \in 0 .. MaxPowerSleeps /\ transit' <= powerSleeps
    BY <1>2 DEF SleepInv, SW!TypeOK, SW!Notified
  <2> QED BY <1>2, <2>1, <2>2 DEF SleepInv, SW!TypeOK, SW!Notified
<1>3. ASSUME SleepInv, SW!LoopTakes PROVE SleepInv'
  <2>1. events' \in Seq({"resume", "suspend"}) /\ Len(events') <= Cap
    BY <1>3, Sends DEF SleepInv, SW!LoopTakes
  <2> QED BY <1>3, <2>1 DEF SleepInv, SW!TypeOK, SW!LoopTakes
<1> QED BY <1>1, <1>2, <1>3

LEMMA SleepSecond == SleepInv /\ SW!Second => SleepInv'
<1> SUFFICES ASSUME SleepInv, SW!Second PROVE SleepInv'
  OBVIOUS
<1>0. SW!Never = Far + 1
  BY LaterTypes
<1>1. /\ due \in -Lag .. Poll /\ due > -Lag /\ due' = due - 1
      /\ sincePrev \in 0 .. Far /\ sinceLast \in 0 .. SW!Never /\ owed \in 0 .. SW!Never
      /\ sincePrev' = SW!Later(sincePrev, 1) /\ sinceLast' = SW!Later(sinceLast, 1)
      /\ owed' = SW!Later(owed, 1)
      /\ UNCHANGED <<sigs, events, transit, powerSleeps, slept, resumes>>
  BY DEF SleepInv, SW!TypeOK, SW!Second, SW!ClockMoves
<1>2. due' \in -Lag .. Poll
  BY <1>1
<1>3. /\ sincePrev' \in 0 .. Far /\ sincePrev' <= sincePrev + 1
      /\ (sincePrev' = Far \/ sincePrev' = sincePrev + 1)
  BY <1>1, LaterTypes
<1>6. /\ sinceLast' \in 0 .. SW!Never
      /\ (sinceLast' = Far \/ sinceLast' = sinceLast \/ sinceLast' = sinceLast + 1)
  <2>1. SW!Later(sinceLast, 1) = SW!Never \/ SW!Later(sinceLast, 1) \in 0 .. Far
    BY <1>0, <1>1, LaterTypes
  <2>2. \/ SW!Later(sinceLast, 1) = Far \/ SW!Later(sinceLast, 1) = sinceLast
        \/ SW!Later(sinceLast, 1) = sinceLast + 1
    BY <1>0, <1>1, LaterTypes
  <2> QED BY <1>0, <1>1, <2>1, <2>2
<1>7. /\ owed' \in 0 .. SW!Never /\ (owed' # SW!Never => owed # SW!Never)
      /\ owed # SW!Never => owed' <= owed + 1
  BY <1>1, LaterTypes
<1>4. ~slept => sincePrev' + due' <= Poll
  BY <1>1, <1>3 DEF SleepInv
<1>5. owed' # SW!Never => /\ owed' + due' <= Poll /\ sincePrev' > Poll + Threshold
                          /\ sinceLast' >= Debounce
  BY <1>0, <1>1, <1>3, <1>6, <1>7 DEF SleepInv
<1> QED BY <1>0, <1>1, <1>2, <1>3, <1>4, <1>5, <1>6, <1>7 DEF SleepInv, SW!TypeOK

LEMMA SleepSleep == \A d \in Lengths : SleepInv /\ SW!Sleep(d) => SleepInv'
<1> SUFFICES ASSUME NEW d \in Lengths, SleepInv, SW!Sleep(d) PROVE SleepInv'
  OBVIOUS
<1>0. SW!Never = Far + 1
  BY LaterTypes
<1>1. /\ due \in -Lag .. Poll /\ due' \in {due, IF due < 0 THEN due ELSE 0}
      /\ sincePrev \in 0 .. Far /\ sinceLast \in 0 .. SW!Never /\ owed \in 0 .. SW!Never
      /\ sincePrev' = SW!Later(sincePrev, d) /\ sinceLast' = SW!Later(sinceLast, d)
      /\ owed' = IF d > Poll + Threshold THEN 0 ELSE owed
      /\ slept' = TRUE /\ resumes' = 0 /\ events' = events
      /\ powerSleeps < MaxPowerSleeps /\ powerSleeps' = powerSleeps + 1
      /\ powerSleeps \in 0 .. MaxPowerSleeps /\ transit \in 0 .. MaxPowerSleeps
      /\ transit <= powerSleeps /\ transit' \in {transit, transit + 1} /\ d \in Nat
  BY DEF SleepInv, SW!TypeOK, SW!Sleep, SW!ClockMoves
<1>2. /\ due' \in -Lag .. Poll /\ due' <= due
      /\ powerSleeps' \in 0 .. MaxPowerSleeps /\ transit' \in 0 .. MaxPowerSleeps
      /\ transit' <= powerSleeps'
  BY <1>1
<1>9. due \in Int /\ due' \in Int /\ due' <= Poll
  BY <1>1, <1>2
<1>3. /\ sincePrev' \in 0 .. Far
      /\ (sincePrev' = Far \/ sincePrev' = sincePrev + d)
  BY <1>1, LaterTypes
<1>7. /\ sinceLast' \in 0 .. SW!Never
      /\ \/ sinceLast' = Far
         \/ sinceLast' = SW!Never /\ sinceLast = SW!Never
         \/ sinceLast' = sinceLast + d
  <2>1. CASE sinceLast = SW!Never
    BY <1>0, <1>1, <2>1, LaterTypes
  <2>2. CASE sinceLast # SW!Never
    <3>1. /\ SW!Later(sinceLast, d) \in 0 .. Far
          /\ SW!Later(sinceLast, d) = Far \/ SW!Later(sinceLast, d) = sinceLast + d
      BY <1>0, <1>1, <2>2, LaterTypes
    <3> QED BY <1>0, <1>1, <3>1
  <2> QED BY <2>1, <2>2
<1>4. sigs' \in Seq({"resume", "suspend"}) /\ Len(sigs') <= SigCap
  <2>1. sigs' = sigs \/ sigs' = SW!Signal("suspend")
    BY DEF SW!Sleep
  <2> QED BY <2>1, Sends DEF SleepInv, SW!TypeOK
<1>5. owed' # SW!Never => /\ owed' + due' <= Poll /\ sincePrev' > Poll + Threshold
                          /\ sinceLast' >= Debounce
  <2>1. ASSUME d > Poll + Threshold
        PROVE  owed' + due' <= Poll /\ sincePrev' > Poll + Threshold /\ sinceLast' >= Debounce
    <3>1. owed' + due' <= Poll
      <4>1. owed' = 0
        BY <1>1, <2>1
      <4>2. \A x \in Int : x <= Poll => 0 + x <= Poll
        OBVIOUS
      <4> QED BY <1>9, <4>1, <4>2, Zenon
    <3>2. sincePrev' > Poll + Threshold
      <4>1. sincePrev \in 0 .. Far /\ d \in Nat
        BY <1>1
      <4> QED BY <1>3, <2>1, <4>1
    <3>3. sinceLast' >= Debounce
      <4>1. sinceLast \in 0 .. Far + 1 /\ d \in Nat
        BY <1>0, <1>1
      <4> QED BY <1>0, <1>7, <2>1, <4>1
    <3> QED BY <3>1, <3>2, <3>3
  <2>2. ASSUME ~(d > Poll + Threshold), owed # SW!Never
        PROVE  owed + due' <= Poll /\ sincePrev' > Poll + Threshold /\ sinceLast' >= Debounce
    <3>1. owed + due <= Poll /\ sincePrev > Poll + Threshold /\ sinceLast >= Debounce
      BY <2>2 DEF SleepInv
    <3>2. owed + due' <= Poll
      <4>1. owed \in 0 .. Far + 1 /\ due' <= due
        BY <1>0, <1>1, <1>2
      <4>2. \A x, y, z \in Int : x <= y /\ z + y <= Poll => z + x <= Poll
        OBVIOUS
      <4>3. owed \in Int
        BY <4>1
      <4> QED BY <1>9, <3>1, <4>1, <4>2, <4>3, Zenon
    <3>3. sincePrev' > Poll + Threshold
      <4>1. sincePrev \in 0 .. Far /\ d \in Nat
        BY <1>1
      <4> QED BY <1>3, <3>1, <4>1
    <3>4. sinceLast' >= Debounce
      <4>1. sinceLast \in 0 .. Far + 1 /\ d \in Nat
        BY <1>0, <1>1
      <4> QED BY <1>0, <1>7, <3>1, <4>1
    <3> QED BY <3>2, <3>3, <3>4
  <2>3. \/ d > Poll + Threshold
        \/ ~(d > Poll + Threshold) /\ owed' = owed
    BY <1>1
  <2> QED BY <2>1, <2>2, <2>3
<1>6. owed' \in 0 .. SW!Never
  BY <1>1, LaterTypes
<1>8. events \in Seq({"resume", "suspend"}) /\ Len(events) <= Cap
  BY DEF SleepInv, SW!TypeOK
<1>10. (SW!TypeOK)'
  BY <1>1, <1>2, <1>3, <1>4, <1>6, <1>7, <1>8 DEF SW!TypeOK
<1> QED BY <1>1, <1>2, <1>5, <1>10 DEF SleepInv

LEMMA SleepBegins == Init => SleepInv
<1> SUFFICES ASSUME Init PROVE SleepInv
  OBVIOUS
<1>1. /\ due = Poll /\ sincePrev = 0 /\ sinceLast = SW!Never /\ sigs = <<>> /\ events = <<>>
      /\ transit = 0 /\ powerSleeps = 0 /\ slept = FALSE /\ owed = SW!Never /\ resumes = 0
  BY DEF Init, SW!Init
<1>2. SW!Never = Far + 1
  BY LaterTypes
<1>3. SW!TypeOK
  <2>1. <<>> \in Seq({"resume", "suspend"}) /\ Len(<<>>) = 0
    OBVIOUS
  <2>2. due \in -Lag .. Poll /\ sincePrev \in 0 .. Far
    BY <1>1
  <2>3. /\ sigs \in Seq({"resume", "suspend"}) /\ Len(sigs) <= SigCap
        /\ events \in Seq({"resume", "suspend"}) /\ Len(events) <= Cap
    BY <1>1, <2>1
  <2>4. sinceLast \in 0 .. SW!Never /\ owed \in 0 .. SW!Never
    BY <1>1, <1>2
  <2>5. /\ transit \in 0 .. MaxPowerSleeps /\ powerSleeps \in 0 .. MaxPowerSleeps
        /\ resumes \in 0 .. 2
    <3>1. 0 \in 0 .. MaxPowerSleeps /\ 0 \in 0 .. 2
      OBVIOUS
    <3> QED BY <1>1, <3>1, Zenon
  <2>6. slept \in BOOLEAN
    BY <1>1
  <2> QED BY <2>2, <2>3, <2>4, <2>5, <2>6 DEF SW!TypeOK
<1> QED BY <1>1, <1>3 DEF SleepInv

LEMMA SleepStep == SleepInv /\ [Next]_vars => SleepInv'
<1> SUFFICES ASSUME SleepInv, [Next]_vars PROVE SleepInv'
  OBVIOUS
<1>1. CASE SW!Next
  BY <1>1, SleepTickTaken, SleepSignals, SleepSecond, SleepSleep DEF SW!Next
<1>2. CASE UNCHANGED watcher
  BY <1>2 DEF watcher, SleepInv, SW!TypeOK
<1> QED BY <1>1, <1>2 DEF Next, vars

\* A long sleep is noticed by the next tick at the latest, whatever the
\* debouncing did before, and a tick that is taken late is no sleep, for any
\* sleeps and delays (watcher.go run, emitResume).
THEOREM LongSleepsAreTold == Spec => SleepsAreTold
<1>1. SleepInv => SW!SleepIsCaught
  BY LaterTypes DEF SleepInv, SW!TypeOK, SW!SleepIsCaught
<1>2. SleepInv => SW!LateTickIsNoSleep
  <2> SUFFICES ASSUME SleepInv, SW!TickTaken, ~slept PROVE resumes' = resumes
    BY DEF SW!LateTickIsNoSleep
  <2>1. ~SW!IsSleep(sincePrev - Poll)
    BY DEF SleepInv, SW!TypeOK, SW!IsSleep
  <2> QED BY <2>1 DEF SW!TickTaken
<1>3. (SW!SleepIsCaught)' /\ SW!LateTickIsNoSleep
        => [SW!SleepIsCaught' /\ SW!LateTickIsNoSleep]_vars
  OBVIOUS
<1> QED BY <1>1, <1>2, <1>3, SleepBegins, SleepStep, PTL DEF Spec, SleepsAreTold

-----------------------------------------------------------------------------
(* The tracking of windows *)

\* The clock, the window of each second so far, and what waits for the loop.
World ==
    /\ hasHook \in BOOLEAN /\ now \in 0 .. MaxTime /\ focus \in [0 .. now -> App]
    /\ idle \in 0 .. now /\ away \subseteq 0 .. now
    /\ hooked \in Seq(App) /\ Len(hooked) <= ChanCap /\ (~hasHook => hooked = <<>>)
    /\ idleDue \in BOOLEAN /\ pollDue \in BOOLEAN
    /\ sleeps \in 0 .. MaxSleeps /\ woken \in BOOLEAN

\* The AFK state machine.
Filter ==
    /\ samples \in [0 .. 2 -> 0 .. MaxTime] /\ sampleIdx \in 0 .. 2
    /\ confirm \in 0 .. 2 /\ isAFK \in BOOLEAN

\* An event of the past counts no second that began AFK but its first, and with
\* the poll each of its seconds has a sighting behind it.
Counted(x) ==
    /\ x \in WT!Event /\ WT!End(x) <= now + 1
    /\ \A t \in away : t <= x.start \/ t >= WT!End(x)
    /\ ~hasHook => \A t \in WT!Span(x) :
                      \E u \in 0 .. now : u <= t /\ t <= u + Pulse /\ focus[u] = x.app

\* The cached event ends with a sighting, nobody has been away since it began, and
\* it shares at most a second with the one before it.
Grows(x) ==
    /\ \A t \in away : t <= x.start
    /\ ~hasHook => focus[WT!End(x) - 1] = x.app
    /\ committed # <<>> => x.start + 1 >= WT!End(Head(committed))

Queue ==
    /\ isAFK => cached = {}
    /\ \A x \in cached : Counted(x) /\ Grows(x) /\ cached = {x}
    /\ committed \in Seq(WT!Event) /\ Len(committed) <= 2
    /\ committed # <<>> => Counted(Head(committed))
    /\ WT!OverlapIsOneSecond

WindowInv == World /\ Filter /\ Queue

\* The two events committed last, after x is.
After(x) == IF committed = <<>> THEN <<x>> ELSE <<x, Head(committed)>>

LEMMA CommitDoes ==
    /\ \A x : WT!Commit({x}) => committed' = After(x)
    /\ WT!Commit({}) => committed' = committed
BY DEF WT!Commit, After

LEMMA CommitKept ==
    ASSUME Queue, UNCHANGED <<now, focus, away, hasHook>>, NEW x, Counted(x),
           committed # <<>> => x.start + 1 >= WT!End(Head(committed)), committed' = After(x)
    PROVE  /\ committed' \in Seq(WT!Event) /\ Len(committed') <= 2 /\ Head(committed') = x
           /\ (Counted(Head(committed)))' /\ (WT!OverlapIsOneSecond)'
<1>1. x \in WT!Event
  BY DEF Counted
<1>2. CASE committed = <<>>
  <2>1. committed' = <<x>>
    BY <1>2 DEF After
  <2>2. <<x>> \in Seq(WT!Event) /\ Len(<<x>>) = 1 /\ Head(<<x>>) = x
    BY <1>1
  <2> QED BY <2>1, <2>2 DEF Counted, WT!OverlapIsOneSecond
<1>3. CASE committed # <<>>
  <2> DEFINE y == Head(committed)
  <2>1. committed' = <<x, y>> /\ x.start + 1 >= WT!End(y) /\ y \in WT!Event
    BY <1>3 DEF After, Queue, Counted
  <2> HIDE DEF y
  <2>2. /\ <<x, y>> \in Seq(WT!Event) /\ Len(<<x, y>>) = 2 /\ Head(<<x, y>>) = x
        /\ <<x, y>>[1] = x /\ <<x, y>>[2] = y
    BY <1>1, <2>1
  <2>3. (WT!OverlapIsOneSecond)'
    BY <2>1, <2>2 DEF WT!OverlapIsOneSecond, WT!End
  <2>4. Head(committed') = x /\ committed' \in Seq(WT!Event) /\ Len(committed') = 2
    BY <2>1, <2>2
  <2>5. (Counted(Head(committed)))'
    BY <2>4 DEF Counted
  <2> QED BY <2>3, <2>4, <2>5
<1> QED BY <1>2, <1>3

\* What is flushed is committed as it is.
LEMMA FlushKept ==
    ASSUME Queue, UNCHANGED <<now, focus, away, hasHook>>, WT!FlushAll
    PROVE  Queue'
<1>1. cached' = {}
  BY DEF WT!FlushAll
<1>2. CASE cached = {}
  <2>1. committed' = committed
    BY <1>2, CommitDoes DEF WT!FlushAll
  <2> QED BY <1>1, <2>1 DEF Queue, Counted, WT!OverlapIsOneSecond
<1>3. ASSUME NEW x \in cached PROVE Queue'
  <2>1. cached = {x} /\ Counted(x) /\ Grows(x)
    BY DEF Queue
  <2>2. committed' = After(x)
    BY <2>1, CommitDoes DEF WT!FlushAll
  <2>3. /\ committed' \in Seq(WT!Event) /\ Len(committed') <= 2
        /\ (Counted(Head(committed)))' /\ (WT!OverlapIsOneSecond)'
    BY <2>1, <2>2, CommitKept DEF Grows
  <2> QED BY <1>1, <2>3 DEF Queue
<1> QED BY <1>2, <1>3

\* Time that passes adds nothing to an event that is cached or committed.
LEMMA TimeKept ==
    ASSUME World, Queue, now' \in Nat, now' > now, UNCHANGED <<hasHook, cached, committed, isAFK>>,
           \A t \in 0 .. now : focus'[t] = focus[t],
           away' = away \/ (isAFK /\ away' = away \cup {now'})
    PROVE  Queue'
<1>1. now \in Nat
  BY DEF World
<1>2. ASSUME NEW x, Counted(x)
      PROVE  (Counted(x))'
  <2>1. x \in WT!Event /\ WT!End(x) <= now + 1 /\ WT!End(x) \in Nat
    BY <1>2 DEF Counted, WT!Event, WT!End
  <2>2. WT!End(x) <= now' + 1 /\ now' >= WT!End(x)
    BY <1>1, <2>1
  <2>3. \A t \in away' : t <= x.start \/ t >= WT!End(x)
    BY <1>2, <2>2 DEF Counted
  <2>4. ASSUME ~hasHook, NEW t \in WT!Span(x)
        PROVE  \E u \in 0 .. now' : u <= t /\ t <= u + Pulse /\ focus'[u] = x.app
    <3>1. PICK u \in 0 .. now : u <= t /\ t <= u + Pulse /\ focus[u] = x.app
      BY <1>2, <2>4 DEF Counted
    <3>2. u \in 0 .. now' /\ focus'[u] = focus[u]
      BY <1>1
    <3> QED BY <3>1, <3>2
  <2> QED BY <2>1, <2>2, <2>3, <2>4 DEF Counted
<1>3. ASSUME NEW x \in cached
      PROVE  (Grows(x))'
  <2>1. Counted(x) /\ Grows(x) /\ away' = away
    BY DEF Queue
  <2>2. WT!End(x) - 1 \in 0 .. now
    <3>1. x.start \in 0 .. MaxTime /\ x.dur \in 1 .. MaxTime + 1
      BY <2>1 DEF Counted, WT!Event
    <3> QED BY <1>1, <2>1, <3>1 DEF Counted, WT!End
  <2> QED BY <2>1, <2>2 DEF Grows
<1> QED BY <1>2, <1>3 DEF Queue, WT!OverlapIsOneSecond

\* A sighting makes an event of its own ...
LEMMA SightingCounts ==
    ASSUME World, NEW a \in App, ~hasHook => focus[now] = a
    PROVE  LET e == WT!Sighting(a)
           IN  /\ e.app = a /\ e.start = now /\ e.dur = 1 /\ WT!End(e) = now + 1
               /\ Counted(e) /\ (\A t \in away : t <= e.start)
               /\ ~hasHook => focus[WT!End(e) - 1] = e.app
<1> DEFINE e == WT!Sighting(a)
<1>1. e \in WT!Event /\ e.app = a /\ e.start = now /\ e.dur = 1 /\ now \in Nat
  BY DEF World, WT!Sighting, WT!Event
<1> HIDE DEF e
<1>2. WT!End(e) = now + 1 /\ WT!Span(e) = now .. now /\ WT!End(e) - 1 = now
  BY <1>1 DEF WT!End, WT!Span
<1>3. \A t \in away : t <= now
  BY DEF World
<1>4. ~hasHook => \A t \in WT!Span(e) :
                     \E u \in 0 .. now : u <= t /\ t <= u + Pulse /\ focus[u] = e.app
  BY <1>1, <1>2
<1>5. Counted(e)
  BY <1>1, <1>2, <1>3, <1>4 DEF Counted
<1> QED BY <1>1, <1>2, <1>3, <1>5 DEF e

\* ... or makes the cached one longer, to the second it is.
LEMMA LongerCounts ==
    ASSUME World, Queue, NEW l \in cached, NEW a \in App, ~hasHook => focus[now] = a,
           WT!Mergeable(l, WT!Sighting(a))
    PROVE  LET m == WT!Longer(l, WT!Sighting(a))
           IN  /\ m.start = l.start /\ WT!End(m) = now + 1 /\ Counted(m) /\ Grows(m)
<1> DEFINE e == WT!Sighting(a)
           m == WT!Longer(l, e)
<1>1. /\ e.app = a /\ e.start = now /\ e.dur = 1 /\ now \in Nat /\ now <= MaxTime
  BY DEF World, WT!Sighting
<1>2. l.app = a /\ now <= WT!End(l) + Pulse
  BY <1>1 DEF WT!Mergeable
<1>3. /\ l \in WT!Event /\ WT!End(l) <= now + 1 /\ Counted(l) /\ Grows(l)
      /\ l.start \in Nat /\ l.dur \in Nat \ {0} /\ WT!End(l) = l.start + l.dur
  BY DEF Queue, Counted, WT!Event, WT!End
<1>4. m.app = a /\ m.start = l.start /\ m.dur = now - l.start + 1 /\ m \in WT!Event
  <2> HIDE DEF e
  <2> DEFINE d == e.start - l.start + e.dur
  <2>1. d = now - l.start + 1 /\ d \in 1 .. MaxTime + 1 /\ l.dur <= d
    BY <1>1, <1>3
  <2>2. m = [l EXCEPT !.dur = IF d > l.dur THEN d ELSE l.dur]
    BY DEF WT!Longer
  <2> HIDE DEF d, m
  <2>3. d > l.dur \/ d = l.dur
    BY <1>3, <2>1
  <2>4. m = [l EXCEPT !.dur = d]
    BY <2>2, <2>3
  <2> QED BY <1>2, <1>3, <2>1, <2>4 DEF WT!Event
<1> HIDE DEF m, e
<1>5. WT!End(m) = now + 1 /\ WT!Span(m) = l.start .. now
  BY <1>1, <1>3, <1>4 DEF WT!End, WT!Span
<1>6. ASSUME ~hasHook, NEW t \in WT!Span(m)
      PROVE  \E u \in 0 .. now : u <= t /\ t <= u + Pulse /\ focus[u] = m.app
  <2>1. CASE t \in WT!Span(l)
    BY <1>2, <1>3, <1>4, <1>6, <2>1 DEF Counted
  <2>2. CASE t = now
    BY <1>1, <1>4, <1>6, <2>2
  <2>3. CASE t \notin WT!Span(l) /\ t # now
    <3> DEFINE u == WT!End(l) - 1
    <3>1. u \in 0 .. now /\ u <= t /\ t <= u + Pulse
      <4>1. t \in l.start .. now /\ t \notin l.start .. WT!End(l) - 1 /\ t # now
        BY <1>5, <1>6, <2>3 DEF WT!Span
      <4>2. WT!End(l) \in Nat /\ WT!End(l) >= 1
        BY <1>3
      <4>3. t \in Nat /\ t >= WT!End(l) /\ t < now
        BY <1>1, <1>3, <4>1, <4>2
      <4> QED BY <1>1, <1>2, <1>3, <4>2, <4>3
    <3>2. focus[u] = m.app
      BY <1>2, <1>3, <1>4, <1>6 DEF Grows
    <3> QED BY <3>1, <3>2
  <2> QED BY <2>1, <2>2, <2>3
<1>7. Counted(m)
  <2>1. \A t \in away : t <= m.start
    BY <1>3, <1>4 DEF Grows
  <2>2. WT!End(m) <= now + 1
    BY <1>1, <1>5
  <2> QED BY <1>4, <1>6, <2>1, <2>2 DEF Counted
<1>8. Grows(m)
  <2>1. WT!End(m) - 1 = now
    BY <1>1, <1>5
  <2> QED BY <1>3, <1>4, <2>1 DEF Grows
<1> QED BY <1>4, <1>5, <1>7, <1>8 DEF m, e

\* Push: a sighting that is pushed leaves the queue in order.
LEMMA PushKept ==
    ASSUME World, Queue, ~isAFK, UNCHANGED <<now, focus, away, hasHook, isAFK>>,
           NEW a \in App, ~hasHook => focus[now] = a, WT!Push(WT!Sighting(a))
    PROVE  Queue'
<1>0. PICK e : e = WT!Sighting(a)
  OBVIOUS
<1>1. /\ e.start = now /\ Counted(e) /\ (\A t \in away : t <= e.start)
      /\ ~hasHook => focus[WT!End(e) - 1] = e.app
  BY <1>0, SightingCounts
<1>2. now \in Nat
  BY DEF World
<1>3. ASSUME NEW x, Counted(x), Grows(x), committed' = After(x), cached' = {e}
      PROVE  Queue'
  <2>1. /\ committed' \in Seq(WT!Event) /\ Len(committed') <= 2 /\ Head(committed') = x
        /\ (Counted(Head(committed)))' /\ (WT!OverlapIsOneSecond)'
    BY <1>3, CommitKept DEF Grows
  <2>2. e.start + 1 >= WT!End(x)
    <3>1. WT!End(x) \in Nat /\ WT!End(x) <= now + 1
      BY <1>3 DEF Counted, WT!Event, WT!End
    <3> QED BY <1>1, <1>2, <3>1
  <2>3. (Counted(e))' /\ (Grows(e))'
    BY <1>1, <2>1, <2>2 DEF Counted, Grows
  <2> QED BY <1>3, <2>1, <2>3 DEF Queue
<1>4. ASSUME NEW m, Counted(m), Grows(m), cached' = {m}, committed' = committed
      PROVE  Queue'
  <2>1. (Counted(m))' /\ (Grows(m))'
    BY <1>4 DEF Counted, Grows
  <2>2. committed # <<>> => (Counted(Head(committed)))'
    BY <1>4 DEF Queue, Counted
  <2> QED BY <1>4, <2>1, <2>2 DEF Queue, WT!OverlapIsOneSecond
<1>5. CASE cached = {}
  <2>1. cached' = {e} /\ committed' = committed
    BY <1>0, <1>5 DEF WT!Push, WT!Fresh
  <2>2. Grows(e)
    <3>1. committed # <<>> => e.start + 1 >= WT!End(Head(committed))
      <4> SUFFICES ASSUME committed # <<>>
                   PROVE  e.start + 1 >= WT!End(Head(committed))
        OBVIOUS
      <4>1. WT!End(Head(committed)) \in Nat /\ WT!End(Head(committed)) <= now + 1
        BY DEF Queue, Counted, WT!Event, WT!End
      <4> QED BY <1>1, <1>2, <4>1
    <3> QED BY <1>1, <3>1 DEF Grows
  <2> QED BY <1>1, <1>4, <2>1, <2>2
<1>6. ASSUME NEW l \in cached, ~WT!Mergeable(l, e)
      PROVE  Queue'
  <2>1. cached = {l} /\ Counted(l) /\ Grows(l)
    BY DEF Queue
  <2>2. {WT!Longer(x, e) : x \in {x \in cached : WT!Mergeable(x, e)}} = {}
    BY <1>6, <2>1
  <2>3. WT!Commit({l}) /\ cached' = {e}
    BY <1>0, <2>1, <2>2 DEF WT!Push, WT!Fresh
  <2> QED BY <1>3, <2>1, <2>3, CommitDoes
<1>7. ASSUME NEW l \in cached, WT!Mergeable(l, e)
      PROVE  Queue'
  <2> DEFINE m == WT!Longer(l, e)
  <2>1. cached = {l} /\ Counted(m) /\ Grows(m)
    BY <1>0, <1>7, LongerCounts DEF Queue
  <2>2. {WT!Longer(x, e) : x \in {x \in cached : WT!Mergeable(x, e)}} = {m}
    BY <1>7, <2>1
  <2>3. \/ WT!Commit({m}) /\ cached' = {e}
        \/ cached' = {m} /\ committed' = committed
    BY <1>0, <2>1, <2>2 DEF WT!Push, WT!Fresh
  <2> QED BY <1>3, <1>4, <2>1, <2>3, CommitDoes
<1> QED BY <1>5, <1>6, <1>7

\* What a tick or a sighting does to the queue, when it does anything.
LEMMA QueueRests ==
    ASSUME Queue, UNCHANGED <<now, focus, away, hasHook, cached, committed>>,
           isAFK' => isAFK
    PROVE  Queue'
BY DEF Queue, Counted, Grows, WT!OverlapIsOneSecond

-----------------------------------------------------------------------------
(* The steps *)

LEMMA WorldTypes == WindowInv => WT!TypeOK
<1> SUFFICES ASSUME WindowInv PROVE WT!TypeOK
  OBVIOUS
<1>1. World /\ Filter
  BY DEF WindowInv
<1>2. cached \subseteq WT!Event /\ (\A e, f \in cached : e = f)
  BY DEF WindowInv, Queue, Counted
<1>3. idle \in 0 .. MaxTime + 1 /\ away \subseteq 0 .. MaxTime
  BY <1>1 DEF World
<1>4. committed \in Seq(WT!Event) /\ Len(committed) <= 2
  BY DEF WindowInv, Queue
<1> QED BY <1>1, <1>2, <1>3, <1>4 DEF World, Filter, WT!TypeOK

LEMMA WindowSecond == WindowInv /\ WT!Second => WindowInv'
<1> SUFFICES ASSUME WindowInv, WT!Second PROVE WindowInv'
  OBVIOUS
<1>1. World /\ Filter /\ Queue
  BY DEF WindowInv
<1>2. /\ now \in 0 .. MaxTime /\ now < MaxTime /\ now' = now + 1
      /\ idle \in 0 .. now /\ idle' \in {0, idle + 1} /\ idleDue' = TRUE /\ pollDue' = ~hasHook
      /\ away' = (IF isAFK THEN away \cup {now + 1} ELSE away)
      /\ UNCHANGED <<hasHook, samples, sampleIdx, confirm, isAFK, cached, committed, sleeps,
                     woken>>
  BY <1>1 DEF World, WT!Second
<1>3. PICK a \in App :
        /\ focus' = [t \in 0 .. now + 1 |-> IF t <= now THEN focus[t] ELSE a]
        /\ hooked' = IF hasHook /\ a # focus[now] /\ Len(hooked) < ChanCap
                     THEN Append(hooked, a) ELSE hooked
  BY DEF WT!Second
<1>4. focus' \in [0 .. now' -> App] /\ \A t \in 0 .. now : focus'[t] = focus[t]
  <2>1. now' = now + 1 /\ now \in Nat /\ focus \in [0 .. now -> App]
    BY <1>1, <1>2 DEF World
  <2>2. \A t \in 0 .. now + 1 : t <= now => t \in 0 .. now
    BY <2>1
  <2>3. \A t \in 0 .. now : t \in 0 .. now + 1 /\ t <= now
    BY <2>1
  <2> QED BY <1>3, <2>1, <2>2, <2>3
<1>5. hooked' \in Seq(App) /\ Len(hooked') <= ChanCap /\ (~hasHook => hooked' = <<>>)
  <2>1. hooked \in Seq(App) /\ Len(hooked) <= ChanCap /\ (~hasHook => hooked = <<>>)
    BY <1>1 DEF World
  <2>2. /\ Append(hooked, a) \in Seq(App) /\ Len(Append(hooked, a)) = Len(hooked) + 1
        /\ Len(hooked) \in Nat
    BY <2>1, Channels
  <2> QED BY <1>3, <2>1, <2>2
<1>6. World'
  <2>1. now' \in 0 .. MaxTime /\ idle' \in 0 .. now'
    BY <1>2
  <2>2. away' \subseteq 0 .. now'
    BY <1>1, <1>2 DEF World
  <2>3. idleDue' \in BOOLEAN /\ pollDue' \in BOOLEAN
    BY <1>2
  <2>4. hasHook' \in BOOLEAN /\ sleeps' \in 0 .. MaxSleeps /\ woken' \in BOOLEAN
    BY <1>1, <1>2 DEF World
  <2>5. ~hasHook' => hooked' = <<>>
    BY <1>2, <1>5
  <2> QED BY <1>4, <1>5, <2>1, <2>2, <2>3, <2>4, <2>5 DEF World
<1>7. Filter'
  BY <1>1, <1>2 DEF Filter
<1>8. Queue'
  <2>1. now' \in Nat /\ now' > now
    BY <1>2
  <2>2. away' = away \/ (isAFK /\ away' = away \cup {now'})
    BY <1>2
  <2> QED BY <1>1, <1>2, <1>4, <2>1, <2>2, TimeKept
<1> QED BY <1>6, <1>7, <1>8 DEF WindowInv

LEMMA WindowSleep == WindowInv /\ WT!Sleep => WindowInv'
<1> SUFFICES ASSUME WindowInv, WT!Sleep PROVE WindowInv'
  OBVIOUS
<1>1. World /\ Filter /\ Queue
  BY DEF WindowInv
<1>2. /\ now \in 0 .. MaxTime /\ sleeps \in 0 .. MaxSleeps /\ sleeps < MaxSleeps
      /\ sleeps' = sleeps + 1 /\ woken' = TRUE /\ idle \in 0 .. now
      /\ UNCHANGED <<hasHook, hooked, idleDue, pollDue, samples, sampleIdx, confirm, isAFK,
                     cached, committed, away>>
  BY <1>1 DEF World, WT!Sleep
<1>3. PICK d \in 2 .. MaxTime - now :
        /\ now' = now + d
        /\ focus' = [t \in 0 .. now + d |-> focus[IF t <= now THEN t ELSE now]]
        /\ idle' = idle + d
  BY DEF WT!Sleep
<1>4. /\ now' \in 0 .. MaxTime /\ now' > now /\ idle' \in 0 .. now'
      /\ sleeps' \in 0 .. MaxSleeps
  BY <1>2, <1>3
<1>5. focus' \in [0 .. now' -> App] /\ \A t \in 0 .. now : focus'[t] = focus[t]
  <2>1. focus \in [0 .. now -> App] /\ now \in Nat
    BY <1>1 DEF World
  <2>2. \A t \in 0 .. now + d : (IF t <= now THEN t ELSE now) \in 0 .. now
    BY <2>1
  <2>3. \A t \in 0 .. now : t \in 0 .. now + d /\ (IF t <= now THEN t ELSE now) = t
    BY <2>1
  <2> QED BY <1>3, <2>1, <2>2, <2>3
<1>6. World'
  <2>1. away' \subseteq 0 .. now'
    BY <1>1, <1>2, <1>4 DEF World
  <2>2. woken' \in BOOLEAN
    BY <1>2
  <2> QED BY <1>1, <1>2, <1>4, <1>5, <2>1, <2>2 DEF World
<1>7. Filter'
  BY <1>1, <1>2 DEF Filter
<1>8. Queue'
  <2>1. now' \in Nat
    BY <1>4
  <2> QED BY <1>1, <1>2, <1>4, <1>5, <2>1, TimeKept
<1> QED BY <1>6, <1>7, <1>8 DEF WindowInv

LEMMA WindowHook == WindowInv /\ WT!HookTaken => WindowInv'
<1> SUFFICES ASSUME WindowInv, WT!HookTaken PROVE WindowInv'
  OBVIOUS
<1>1. World /\ Filter /\ Queue
  BY DEF WindowInv
<1>2. /\ hooked # <<>> /\ hooked' = Tail(hooked)
      /\ UNCHANGED <<hasHook, now, focus, idle, idleDue, pollDue, samples, sampleIdx, confirm,
                     isAFK, sleeps, woken, away>>
  BY DEF WT!HookTaken
<1>3. /\ Head(hooked) \in App /\ hooked' \in Seq(App) /\ Len(hooked') <= ChanCap /\ hasHook
  <2>1. hooked \in Seq(App) /\ Len(hooked) <= ChanCap /\ (~hasHook => hooked = <<>>)
    BY <1>1 DEF World
  <2>2. /\ Head(hooked) \in App /\ Tail(hooked) \in Seq(App) /\ Len(hooked) \in Nat
        /\ Len(Tail(hooked)) = Len(hooked) - 1
    BY <1>2, <2>1, Channels
  <2> QED BY <1>2, <2>1, <2>2
<1>4. World'
  BY <1>1, <1>2, <1>3 DEF World
<1>5. Filter'
  BY <1>1, <1>2 DEF Filter
<1>6. Queue'
  <2>1. CASE isAFK
    <3>1. UNCHANGED <<cached, committed>>
      BY <2>1 DEF WT!HookTaken
    <3> QED BY <1>1, <1>2, <3>1, QueueRests
  <2>2. CASE ~isAFK
    <3>1. WT!Push(WT!Sighting(Head(hooked)))
      BY <2>2 DEF WT!HookTaken
    <3> QED BY <1>1, <1>2, <1>3, <2>2, <3>1, PushKept
  <2> QED BY <2>1, <2>2
<1> QED BY <1>4, <1>5, <1>6 DEF WindowInv

LEMMA WindowPoll == WindowInv /\ WT!PollTaken => WindowInv'
<1> SUFFICES ASSUME WindowInv, WT!PollTaken PROVE WindowInv'
  OBVIOUS
<1>1. World /\ Filter /\ Queue
  BY DEF WindowInv
<1>2. /\ pollDue' = FALSE
      /\ UNCHANGED <<hasHook, now, focus, idle, hooked, idleDue, samples, sampleIdx, confirm,
                     isAFK, sleeps, woken, away>>
  BY DEF WT!PollTaken
<1>3. focus[now] \in App
  BY <1>1 DEF World
<1>4. World'
  <2>1. pollDue' \in BOOLEAN
    BY <1>2
  <2> QED BY <1>1, <1>2, <2>1 DEF World
<1>5. Filter'
  BY <1>1, <1>2 DEF Filter
<1>6. Queue'
  <2>1. CASE isAFK
    <3>1. UNCHANGED <<cached, committed>>
      BY <2>1 DEF WT!PollTaken
    <3> QED BY <1>1, <1>2, <3>1, QueueRests
  <2>2. CASE ~isAFK
    <3>1. WT!Push(WT!Sighting(focus[now]))
      BY <2>2 DEF WT!PollTaken
    <3> QED BY <1>1, <1>2, <1>3, <2>2, <3>1, PushKept
  <2> QED BY <2>1, <2>2
<1> QED BY <1>4, <1>5, <1>6 DEF WindowInv

LEMMA WindowIdle == WindowInv /\ WT!IdleTaken => WindowInv'
<1> SUFFICES ASSUME WindowInv, WT!IdleTaken PROVE WindowInv'
  OBVIOUS
<1> DEFINE quiet == WT!Median([samples EXCEPT ![sampleIdx] = idle]) >= IdleLimit
           count == IF quiet THEN 0 ELSE IF confirm < 2 THEN confirm + 1 ELSE confirm
           afk   == IF isAFK THEN count < 2 ELSE quiet
<1>1. World /\ Filter /\ Queue
  BY DEF WindowInv
<1>2. /\ idleDue' = FALSE /\ samples' = [samples EXCEPT ![sampleIdx] = idle]
      /\ sampleIdx' = (sampleIdx + 1) % 3 /\ confirm' = count
      /\ isAFK' = afk
      /\ IF afk /\ ~isAFK THEN WT!FlushAll ELSE UNCHANGED <<cached, committed>>
      /\ UNCHANGED <<hasHook, now, focus, idle, hooked, pollDue, sleeps, woken, away>>
  BY DEF WT!IdleTaken
<1>3. isAFK' \in BOOLEAN
  <2>1. afk \in BOOLEAN
    <3>1. (count < 2) \in BOOLEAN /\ quiet \in BOOLEAN
      OBVIOUS
    <3> HIDE DEF quiet, count
    <3> QED BY <3>1
  <2> HIDE DEF afk
  <2> QED BY <1>2, <2>1
<1> HIDE DEF quiet
<1>4. samples' \in [0 .. 2 -> 0 .. MaxTime] /\ sampleIdx' \in 0 .. 2 /\ confirm' \in 0 .. 2
  <2>1. idle \in 0 .. MaxTime
    BY <1>1 DEF World
  <2>2. confirm' \in 0 .. 2
    BY <1>1, <1>2 DEF Filter
  <2>3. sampleIdx' \in 0 .. 2
    BY <1>1, <1>2 DEF Filter
  <2> QED BY <1>1, <1>2, <2>1, <2>2, <2>3 DEF Filter
<1> HIDE DEF count
<1>5. World'
  <2>1. idleDue' \in BOOLEAN
    BY <1>2
  <2> QED BY <1>1, <1>2, <2>1 DEF World
<1>6. Filter'
  BY <1>3, <1>4 DEF Filter
<1>7. Queue'
  <2>1. CASE afk /\ ~isAFK
    BY <1>1, <1>2, <2>1, FlushKept
  <2>2. CASE ~(afk /\ ~isAFK)
    <3>1. UNCHANGED <<cached, committed>>
      BY <1>2, <2>2
    <3>2. isAFK' => isAFK
      BY <1>2, <2>2
    <3> QED BY <1>1, <1>2, <3>1, <3>2, QueueRests
  <2> QED BY <2>1, <2>2
<1> QED BY <1>5, <1>6, <1>7 DEF WindowInv

LEMMA WindowFlushes == WindowInv /\ (WT!Resume \/ WT!SyncTick) => WindowInv'
<1> SUFFICES ASSUME WindowInv, WT!Resume \/ WT!SyncTick PROVE WindowInv'
  OBVIOUS
<1>1. World /\ Filter /\ Queue
  BY DEF WindowInv
<1>2. /\ WT!FlushAll /\ idle' \in {0, idle} /\ isAFK' \in {FALSE, isAFK}
      /\ woken' \in {FALSE, woken}
      /\ UNCHANGED <<hasHook, now, focus, hooked, idleDue, pollDue, samples, sampleIdx,
                     confirm, sleeps, away>>
  BY DEF WT!Resume, WT!SyncTick
<1>3. World'
  <2>1. woken' \in BOOLEAN
    BY <1>1, <1>2 DEF World
  <2>2. idle' \in 0 .. now'
    BY <1>1, <1>2 DEF World
  <2> QED BY <1>1, <1>2, <2>1, <2>2 DEF World
<1>4. Filter'
  <2>1. isAFK' \in BOOLEAN
    BY <1>1, <1>2 DEF Filter
  <2> QED BY <1>1, <1>2, <2>1 DEF Filter
<1>5. Queue'
  BY <1>1, <1>2, FlushKept
<1> QED BY <1>3, <1>4, <1>5 DEF WindowInv

LEMMA WindowBegins == Init => WindowInv
<1> SUFFICES ASSUME Init PROVE WindowInv
  OBVIOUS
<1>1. /\ hasHook \in BOOLEAN /\ now = 0 /\ focus \in [{0} -> App] /\ idle = 0
      /\ hooked = <<>> /\ idleDue = FALSE /\ pollDue = FALSE
      /\ samples = [i \in 0 .. 2 |-> 0] /\ sampleIdx = 0 /\ confirm = 0
      /\ isAFK = FALSE /\ cached = {} /\ committed = <<>>
      /\ sleeps = 0 /\ woken = FALSE /\ away = {}
  BY DEF Init, WT!Init
<1>2. World
  <2>1. 0 .. now = {0}
    BY <1>1
  <2>2. now \in 0 .. MaxTime /\ idle \in 0 .. now /\ sleeps \in 0 .. MaxSleeps
    BY <1>1
  <2>3. hooked \in Seq(App) /\ Len(hooked) <= ChanCap
    BY <1>1
  <2> QED BY <1>1, <2>1, <2>2, <2>3 DEF World
<1>3. Filter
  BY <1>1 DEF Filter
<1>4. Queue
  <2>1. committed \in Seq(WT!Event) /\ Len(committed) = 0
    BY <1>1
  <2> QED BY <1>1, <2>1 DEF Queue, WT!OverlapIsOneSecond
<1> QED BY <1>2, <1>3, <1>4 DEF WindowInv

LEMMA WindowStep == WindowInv /\ [Next]_vars => WindowInv'
<1> SUFFICES ASSUME WindowInv, [Next]_vars PROVE WindowInv'
  OBVIOUS
<1>1. CASE WT!Next
  BY <1>1, WindowSecond, WindowHook, WindowPoll, WindowIdle, WindowSleep, WindowFlushes
     DEF WT!Next
<1>2. CASE UNCHANGED tracking
  <2>1. UNCHANGED <<hasHook, now, focus, idle, hooked, idleDue, pollDue, samples, sampleIdx,
                    confirm, isAFK, cached, committed, sleeps, woken, away>>
    BY <1>2 DEF tracking
  <2>2. Queue'
    BY <2>1, QueueRests DEF WindowInv
  <2>3. World' /\ Filter'
    BY <2>1 DEF WindowInv, World, Filter
  <2> QED BY <2>2, <2>3 DEF WindowInv
<1> QED BY <1>1, <1>2 DEF Next, vars

-----------------------------------------------------------------------------
(* What follows *)

\* The channels hold no more than their capacity, the merge queue one event, and
\* the filter's counters stay in their ranges (main.go, heartbeat/merge.go,
\* sleep/watcher.go).
THEOREM CaptureTypes == Spec => []TypeOK
<1>1. SleepInv /\ WindowInv => TypeOK
  BY WorldTypes DEF SleepInv, TypeOK
<1> QED BY <1>1, SleepBegins, SleepStep, WindowBegins, WindowStep, PTL DEF Spec

\* No AFK period is bridged: a second that began AFK is in no event, except as
\* its first, whatever the order in which the loop takes its ticks, sightings,
\* resumes and syncs (main.go idle tick, heartbeat/merge.go FlushAll).
THEOREM AwayTimeIsNotCounted == Spec => []AwayIsNotCounted
<1>1. WindowInv => AwayIsNotCounted
  <2> SUFFICES ASSUME WindowInv, NEW e \in WT!Last \cup cached, NEW t \in away,
                      t \in WT!Span(e), t # e.start
               PROVE  FALSE
    BY DEF AwayIsNotCounted, WT!AwayIsNotCounted
  <2>1. Counted(e)
    BY DEF WindowInv, Queue, WT!Last
  <2>2. e.start \in Nat /\ WT!End(e) \in Nat
    BY <2>1 DEF Counted, WT!Event, WT!End
  <2>3. t \in e.start .. WT!End(e) - 1
    BY DEF WT!Span
  <2>4. t \in Nat /\ t > e.start /\ t < WT!End(e)
    BY <2>2, <2>3
  <2> QED BY <2>1, <2>2, <2>4 DEF Counted
<1> QED BY <1>1, WindowBegins, WindowStep, PTL DEF Spec

\* With the poll, each second of an event has a sighting of its window at most
\* `pulsetime' before it, and two events that follow each other share a second
\* at most, for any windows, sleeps and late ticks (heartbeat/merge.go
\* HeartbeatMerge, Push).
THEOREM CountedTimeIsBacked == Spec => []TimeIsCounted
<1>1. WindowInv => TimeIsCounted
  <2> SUFFICES ASSUME WindowInv PROVE WT!TimeIsBacked /\ WT!OverlapIsOneSecond
    BY DEF TimeIsCounted
  <2>1. \A e \in WT!Last \cup cached : Counted(e)
    BY DEF WindowInv, Queue, WT!Last
  <2>2. WT!TimeIsBacked
    BY <2>1 DEF WT!TimeIsBacked, Counted
  <2> QED BY <2>2 DEF WindowInv, Queue
<1> QED BY <1>1, WindowBegins, WindowStep, PTL DEF Spec
=============================================================================
