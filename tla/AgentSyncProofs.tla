-------------------------- MODULE AgentSyncProofs --------------------------
(***************************************************************************)
(* Theorems about AgentSync, for every threshold, reset window and set of  *)
(* workers: the breaker's fields stay consistent under any interleaving of *)
(* its callers, and a client that is locked out stays locked out.          *)
(***************************************************************************)
EXTENDS AgentSync, TLAPS

-----------------------------------------------------------------------------
\* The breaker's operations, one critical section each.

USE BreakerAssumption DEF BreakerAssumption

LEMMA WindowArithmetic ==
    ASSUME NEW t \in Windows
    PROVE  /\ Doubled(t) \in Windows
           /\ t \in 0 .. MaxReset
           /\ t <= Doubled(t)
           /\ Doubled(t) = MaxReset => t > ResetAfter
           /\ t \in Nat
BY SMT DEF Windows, Doubled, MaxReset

LEMMA NewBreakerOK == BreakerOK(NewBreaker)
BY SMT DEF NewBreaker, BreakerOK, Breaker, Windows, MaxReset, SlotOnlyHalfOpen,
           ClosedIffBelowThreshold, BackoffEarned, WindowBounded

LEMMA AfterIsAvailableOK ==
    ASSUME NEW b, BreakerOK(b)
    PROVE  BreakerOK(AfterIsAvailable(b))
<1>1. CASE b.state = "open" /\ b.wait = 0
  <2>1. AfterIsAvailable(b) = [b EXCEPT !.state = "half"]
    BY <1>1 DEF AfterIsAvailable
  <2> QED
    BY <1>1, <2>1 DEF BreakerOK, Breaker, SlotOnlyHalfOpen, ClosedIffBelowThreshold,
                      BackoffEarned, WindowBounded
<1>2. CASE b.state = "half"
  <2>1. AfterIsAvailable(b) = [b EXCEPT !.probe = TRUE]
    BY <1>2 DEF AfterIsAvailable
  <2> QED
    BY <1>2, <2>1 DEF BreakerOK, Breaker, SlotOnlyHalfOpen, ClosedIffBelowThreshold,
                      BackoffEarned, WindowBounded
<1>3. CASE ~(b.state = "open" /\ b.wait = 0) /\ b.state # "half"
  BY <1>3 DEF AfterIsAvailable
<1> QED BY <1>1, <1>2, <1>3

LEMMA RecordPermanentOK ==
    ASSUME NEW b, BreakerOK(b)
    PROVE  BreakerOK(RecordPermanent(b))
<1>1. CASE b.state = "half"
  <2>1. RecordPermanent(b) = [b EXCEPT !.probe = FALSE]
    BY <1>1 DEF RecordPermanent
  <2> QED
    BY <1>1, <2>1 DEF BreakerOK, Breaker, SlotOnlyHalfOpen, ClosedIffBelowThreshold,
                      BackoffEarned, WindowBounded
<1>2. CASE b.state # "half"
  BY <1>2 DEF RecordPermanent
<1> QED BY <1>1, <1>2

LEMMA TickOK ==
    ASSUME NEW b, BreakerOK(b), b.state = "open", b.wait > 0
    PROVE  BreakerOK(Tick(b))
BY SMT DEF Tick, BreakerOK, Breaker, Windows, MaxReset, SlotOnlyHalfOpen,
           ClosedIffBelowThreshold, BackoffEarned, WindowBounded

LEMMA RecordFailureOK ==
    ASSUME NEW b, BreakerOK(b)
    PROVE  BreakerOK(RecordFailure(b))
<1> DEFINE n == OneMoreFailure(b)
           d == Doubled(b.resetTimeout)
<1>1. b \in Breaker /\ b.resetTimeout \in Windows /\ b.failures \in 0 .. FailureCap
  BY DEF BreakerOK, Breaker
<1>2. n \in 0 .. FailureCap /\ n >= b.failures
      /\ (n = b.failures + 1 \/ n = FailureCap)
  BY <1>1, SMT DEF OneMoreFailure
<1>3. d \in Windows /\ d \in 0 .. MaxReset /\ (d = MaxReset => b.resetTimeout > ResetAfter)
  BY <1>1, WindowArithmetic
<1>4. CASE b.state = "half"
  <2>1. RecordFailure(b) = [state |-> "open", failures |-> n, resetTimeout |-> d,
                            wait |-> d, probe |-> FALSE]
    BY <1>4 DEF RecordFailure
  <2>2. b.failures >= Threshold
    BY <1>1, <1>4, SMT DEF BreakerOK, ClosedIffBelowThreshold
  <2>3. n > Threshold /\ (d = MaxReset => n > Threshold + 1)
    BY <1>1, <1>2, <1>3, <2>2, SMT DEF BreakerOK, BackoffEarned
  <2>4. d \in Nat
    BY <1>3, SMT DEF MaxReset
  <2> HIDE DEF n, d
  <2> QED
    BY <1>2, <1>3, <2>1, <2>3, <2>4, SMT
       DEF BreakerOK, Breaker, SlotOnlyHalfOpen, ClosedIffBelowThreshold,
           BackoffEarned, WindowBounded
<1>5. CASE b.state # "half" /\ n >= Threshold
  <2>1. RecordFailure(b) = [b EXCEPT !.state = "open", !.failures = n,
                                     !.wait = b.resetTimeout]
    BY <1>5 DEF RecordFailure
  <2>2. b.resetTimeout \in 0 .. MaxReset /\ b.resetTimeout \in Nat
    BY <1>1, WindowArithmetic
  <2> DEFINE c == RecordFailure(b)
  <2> HIDE DEF n, d
  <2>3. /\ c \in Breaker
        /\ c.state = "open" /\ c.failures = n /\ c.wait = c.resetTimeout
        /\ c.resetTimeout = b.resetTimeout /\ c.probe = b.probe
    <3>1. b = [state |-> b.state, failures |-> b.failures,
               resetTimeout |-> b.resetTimeout, wait |-> b.wait, probe |-> b.probe]
      BY <1>1 DEF Breaker
    <3>2. c = [state |-> "open", failures |-> n, resetTimeout |-> b.resetTimeout,
               wait |-> b.resetTimeout, probe |-> b.probe]
      BY <2>1, <3>1
    <3>3. b.probe \in BOOLEAN
      BY <1>1 DEF Breaker
    <3> HIDE DEF c
    <3> QED BY <1>1, <1>2, <2>2, <3>2, <3>3 DEF Breaker
  <2>4. ~b.probe
    BY <1>5 DEF BreakerOK, SlotOnlyHalfOpen
  <2>5. BackoffEarned(c) /\ WindowBounded(c) /\ ClosedIffBelowThreshold(c)
    <3> HIDE DEF c
    <3> QED BY <1>1, <1>2, <1>5, <2>2, <2>3, SMT
              DEF BreakerOK, BackoffEarned, WindowBounded, ClosedIffBelowThreshold, Breaker
  <2> QED
    BY <2>3, <2>4, <2>5 DEF BreakerOK, SlotOnlyHalfOpen
<1>6. CASE b.state # "half" /\ ~(n >= Threshold)
  <2>1. RecordFailure(b) = [b EXCEPT !.failures = n]
    BY <1>6 DEF RecordFailure
  <2> HIDE DEF n, d
  <2> QED
    BY <1>1, <1>2, <1>6, <2>1, SMT
       DEF BreakerOK, Breaker, SlotOnlyHalfOpen, ClosedIffBelowThreshold,
           BackoffEarned, WindowBounded
<1> QED BY <1>4, <1>5, <1>6

-----------------------------------------------------------------------------
\* The workers: a flush that returns, at whatever point, leaves its goroutine
\* with a next flush or idle, never in between.

WorkersOK ==
    /\ pc \in [Workers -> PCs]
    /\ todo \in [Workers -> Todos]
    /\ \A w \in Workers : pc[w] = "idle" <=> todo[w] = <<>>

LEMMA TodoShape ==
    ASSUME NEW t \in Todos, t # <<>>
    PROVE  Tail(t) \in Todos /\ Head(t) \in Kinds
<1>1. CASE t = ResumeTodo
  BY <1>1 DEF ResumeTodo, Todos, Kinds
<1>2. CASE t = <<"shots", "rows">>
  BY <1>2 DEF Todos, Kinds
<1>3. CASE \E k \in Kinds : t = <<k>>
  BY <1>3 DEF Todos, Kinds
<1> QED BY <1>1, <1>2, <1>3 DEF Todos

LEMMA GotoOK ==
    ASSUME WorkersOK, NEW w \in Workers, pc[w] # "idle",
           NEW label \in PCs \ {"idle"}, Goto(w, label)
    PROVE  WorkersOK'
BY DEF WorkersOK, Goto

LEMMA FlushReturnsOK ==
    ASSUME WorkersOK, NEW w \in Workers, pc[w] # "idle", FlushReturns(w)
    PROVE  WorkersOK'
<1>1. todo[w] \in Todos /\ todo[w] # <<>>
  BY DEF WorkersOK
<1>2. Tail(todo[w]) \in Todos
  BY <1>1, TodoShape
<1>3. todo' \in [Workers -> Todos]
  BY <1>2 DEF WorkersOK, FlushReturns
<1>4. pc' \in [Workers -> PCs]
  BY DEF WorkersOK, FlushReturns, PCs
<1>5. ASSUME NEW v \in Workers PROVE pc'[v] = "idle" <=> todo'[v] = <<>>
  <2>1. CASE v = w
    BY <2>1 DEF WorkersOK, FlushReturns
  <2>2. CASE v # w
    BY <2>2 DEF WorkersOK, FlushReturns
  <2> QED BY <2>1, <2>2
<1> QED BY <1>3, <1>4, <1>5 DEF WorkersOK

LEMMA ItemOverOK ==
    ASSUME WorkersOK, NEW w \in Workers, pc[w] # "idle", ItemOver(w)
    PROVE  WorkersOK'
<1>1. "list" \in PCs \ {"idle"}
  BY DEF PCs
<1> QED BY <1>1, GotoOK, FlushReturnsOK DEF ItemOver

LEMMA EnterPostOK ==
    ASSUME WorkersOK, BreakerOK(cb), NEW w \in Workers, pc[w] # "idle", EnterPost(w)
    PROVE  WorkersOK' /\ BreakerOK(cb')
<1>1. "attempt" \in PCs \ {"idle"}
  BY DEF PCs
<1> QED BY <1>1, GotoOK, ItemOverOK, AfterIsAvailableOK DEF EnterPost

LEMMA WorkerStepOK ==
    ASSUME WorkersOK, BreakerOK(cb), NEW w \in Workers, WorkerStep(w)
    PROVE  WorkersOK' /\ BreakerOK(cb')
<1> USE DEF InFlight
<1>1. /\ "presign" \in PCs \ {"idle"} /\ "list" \in PCs \ {"idle"}
      /\ "put" \in PCs \ {"idle"} /\ "inflight" \in PCs \ {"idle"}
      /\ "attempt" \in PCs \ {"idle"}
  BY DEF PCs
<1>2. CASE Gate(w)
  <2>1. BreakerOK(cb')
    BY <1>2, AfterIsAvailableOK DEF Gate
  <2>2. pc[w] # "idle"
    BY <1>2 DEF Gate
  <2>3. CASE FlushReturns(w)
    BY <2>1, <2>2, <2>3, FlushReturnsOK
  <2>4. CASE Goto(w, "presign") \/ Goto(w, "list")
    BY <1>1, <2>1, <2>2, <2>4, GotoOK
  <2> QED BY <1>2, <2>3, <2>4 DEF Gate
<1>3. CASE NothingToSend(w)
  BY <1>3, FlushReturnsOK DEF NothingToSend
<1>4. CASE SendBatch(w)
  BY <1>4, EnterPostOK DEF SendBatch
<1>5. CASE NextShot(w)
  <2>1. BreakerOK(cb')
    BY <1>5, AfterIsAvailableOK DEF NextShot
  <2>2. CASE Goto(w, "presign")
    BY <1>1, <1>5, <2>1, <2>2, GotoOK DEF NextShot
  <2>3. CASE UNCHANGED <<pc, todo>>
    BY <2>1, <2>3 DEF WorkersOK
  <2> QED BY <1>5, <2>2, <2>3 DEF NextShot
<1>6. CASE PutDone(w)
  BY <1>6, EnterPostOK, ItemOverOK DEF PutDone
<1>7. CASE Attempt(w)
  BY <1>1, <1>7, GotoOK, ItemOverOK DEF Attempt
<1>8. CASE AnswerOK(w)
  <2>1. BreakerOK(cb')
    BY <1>8, NewBreakerOK DEF AnswerOK, RecordSuccess
  <2> QED BY <1>1, <1>8, <2>1, GotoOK, ItemOverOK DEF AnswerOK
<1>9. CASE RetryLater(w)
  BY <1>1, <1>9, GotoOK, RecordFailureOK DEF RetryLater
<1>10. CASE GiveUp(w)
  BY <1>10, ItemOverOK, RecordFailureOK DEF GiveUp
<1>11. CASE AnswerPermanent(w)
  BY <1>11, ItemOverOK, RecordPermanentOK DEF AnswerPermanent
<1> QED BY <1>2, <1>3, <1>4, <1>5, <1>6, <1>7, <1>8, <1>9, <1>10, <1>11 DEF WorkerStep

-----------------------------------------------------------------------------
\* The inductive invariant: the types, and the breaker's fields tied together.
\* TypeOK alone is not inductive: recordFailure stays within FailureCap and the
\* windows by itself, but that a slot is taken only while half-open, and that a
\* closed breaker is below the threshold, need each other.
IInv == /\ WorkersOK
        /\ BreakerOK(cb)
        /\ server \in {"up", "down", "refusing"}

LEMMA IInvInit == Init => IInv
BY NewBreakerOK DEF Init, IInv, WorkersOK, PCs, Todos

LEMMA IInvNext == IInv /\ [Next]_vars => IInv'
<1> SUFFICES ASSUME IInv, [Next]_vars PROVE IInv'
  OBVIOUS
<1> USE DEF IInv
<1>1. CASE SyncTick
  <2>1. BreakerOK(cb') /\ server' = server
    BY <1>1, AfterIsAvailableOK DEF SyncTick
  <2>2. CASE UNCHANGED <<pc, todo>>
    BY <2>1, <2>2 DEF WorkersOK
  <2>3. CASE /\ pc' = [w \in Workers |-> IF w \in SyncWorkers THEN "gate" ELSE pc[w]]
             /\ todo' = [w \in Workers |-> IF w \in SyncWorkers THEN <<SyncKind[w]>>
                                                                ELSE todo[w]]
    <3>1. \A w \in SyncWorkers : SyncKind[w] \in Kinds
      BY SyncAssumption DEF SyncAssumption, Kinds
    <3>2. \A w \in SyncWorkers : <<SyncKind[w]>> \in Todos /\ <<SyncKind[w]>> # <<>>
      BY <3>1 DEF Todos
    <3>3. pc' \in [Workers -> PCs] /\ todo' \in [Workers -> Todos]
      BY <2>3, <3>2 DEF WorkersOK, PCs
    <3>4. \A w \in Workers : pc'[w] = "idle" <=> todo'[w] = <<>>
      BY <2>3, <3>2 DEF WorkersOK
    <3> QED BY <2>1, <3>3, <3>4 DEF WorkersOK
  <2> QED BY <1>1, <2>2, <2>3 DEF SyncTick
<1>2. CASE BestEffortTick
  BY <1>2, AfterIsAvailableOK DEF BestEffortTick, WorkersOK
<1>3. CASE BurstTick
  <2>1. <<"burst">> \in Todos /\ <<"burst">> # <<>> /\ "gate" \in PCs
    BY DEF Todos, Kinds, PCs
  <2> QED BY <1>3, <2>1 DEF BurstTick, WorkersOK, Workers
<1>4. ASSUME NEW r \in ResumeWorkers, Resume(r) PROVE IInv'
  <2>1. ResumeTodo \in Todos /\ ResumeTodo # <<>> /\ "reset" \in PCs /\ r \in Workers
    BY DEF Todos, ResumeTodo, PCs, Workers
  <2> QED BY <1>4, <2>1 DEF Resume, WorkersOK
<1>5. ASSUME NEW r \in ResumeWorkers, ResumeReset(r) PROVE IInv'
  <2>1. "gate" \in PCs \ {"idle"} /\ r \in Workers
    BY DEF PCs, Workers
  <2> QED BY <1>5, <2>1, GotoOK, NewBreakerOK DEF ResumeReset, ResetCircuit
<1>6. ASSUME NEW w \in Workers, WorkerStep(w) PROVE IInv'
  <2>1. server' = server
    BY <1>6 DEF WorkerStep, Gate, NothingToSend, SendBatch, NextShot, PutDone, Attempt,
                AnswerOK, RetryLater, GiveUp, AnswerPermanent
  <2> QED BY <1>6, <2>1, WorkerStepOK
<1>7. CASE Elapse
  BY <1>7, TickOK DEF Elapse, WorkersOK
<1>8. CASE ServerChanges
  BY <1>8 DEF ServerChanges, WorkersOK
<1>9. CASE Restart
  BY <1>9, NewBreakerOK DEF Restart, WorkersOK, PCs, Todos
<1>10. CASE UNCHANGED vars
  BY <1>10 DEF vars, WorkersOK
<1> QED BY <1>1, <1>2, <1>3, <1>4, <1>5, <1>6, <1>7, <1>8, <1>9, <1>10 DEF Next

\* The invariant of the whole agent, at every threshold and window and with any
\* number of flush goroutines and resumes.
THEOREM SyncInvariant == Spec => []IInv
BY IInvInit, IInvNext, PTL DEF Spec

\* Type correctness of the agent's sync state (client.go:41-57).
THEOREM SyncTypeCorrect == Spec => []TypeOK
<1>1. IInv => TypeOK
  BY DEF IInv, TypeOK, WorkersOK, BreakerOK
<1> QED BY <1>1, SyncInvariant, PTL

\* The breaker's fields agree with each other after any interleaving of the
\* critical sections of its callers (client.go:468-512).
THEOREM BreakerAlwaysConsistent == Spec => []BreakerConsistent
<1>1. IInv => BreakerConsistent
  BY DEF IInv, BreakerConsistent
<1> QED BY <1>1, SyncInvariant, PTL

-----------------------------------------------------------------------------
\* Action properties.

\* With the slot taken, IsAvailable refuses everyone and changes nothing.
LEMMA SlotTakenRefuses ==
    ASSUME NEW b, b \in Breaker, b.state = "half", b.probe
    PROVE  ~Available(b) /\ AfterIsAvailable(b).state = "half" /\ AfterIsAvailable(b).probe
BY DEF Available, AfterIsAvailable, Breaker

\* A worker that can no longer send anything goes on to places from which it
\* cannot send anything either.
Silent(w) == pc[w] \notin {"presign", "inflight", "attempt", "reset"}

LEMMA FlushReturnsSilent ==
    ASSUME WorkersOK, NEW w \in Workers, FlushReturns(w) \/ ItemOver(w),
           \A v \in Workers : Silent(v)
    PROVE  \A v \in Workers : Silent(v)'
BY DEF FlushReturns, ItemOver, Goto, Silent, WorkersOK

\* Once the half-open slot is taken and no worker has or can send a request,
\* no flush, tick, answer or passage of time ever frees it: only a resume from
\* sleep or a new process does (client.go:141 with 154, main.go:733-737).
THEOREM LockoutNeverEndsByItself == Spec => LockoutIsPermanent
<1> DEFINE Ends == Restart \/ \E r \in ResumeWorkers : Resume(r)
<1>1. IInv /\ [Next]_vars => [LockedOut => LockedOut' \/ Ends]_vars
  <2> SUFFICES ASSUME IInv, Next, LockedOut, ~Ends PROVE LockedOut'
    OBVIOUS
  <2>1. /\ cb \in Breaker /\ cb.state = "half" /\ cb.probe
        /\ WorkersOK /\ \A w \in Workers : Silent(w)
    BY DEF IInv, LockedOut, BreakerOK, Silent
  <2>2. ~Available(cb) /\ AfterIsAvailable(cb).state = "half" /\ AfterIsAvailable(cb).probe
    BY <2>1, SlotTakenRefuses
  <2>3. SUFFICES cb'.state = "half" /\ cb'.probe /\ \A w \in Workers : Silent(w)'
    BY DEF LockedOut, Silent
  <2>4. CASE SyncTick \/ BestEffortTick
    BY <2>1, <2>2, <2>4 DEF SyncTick, BestEffortTick, Silent
  <2>5. CASE BurstTick
    BY <2>1, <2>5 DEF BurstTick, Silent, WorkersOK
  <2>6. ASSUME NEW r \in ResumeWorkers, ResumeReset(r) PROVE FALSE
    BY <2>1, <2>6 DEF ResumeReset, Silent, Workers
  <2>7. ASSUME NEW w \in Workers, WorkerStep(w)
        PROVE  cb'.state = "half" /\ cb'.probe /\ \A v \in Workers : Silent(v)'
    <3>1. CASE Gate(w)
      BY <2>1, <2>2, <3>1, FlushReturnsSilent DEF Gate
    <3>2. CASE NothingToSend(w)
      BY <2>1, <3>2, FlushReturnsSilent DEF NothingToSend
    <3>3. CASE SendBatch(w)
      BY <2>1, <2>2, <3>3, FlushReturnsSilent DEF SendBatch, EnterPost
    <3>4. CASE NextShot(w)
      BY <2>1, <2>2, <3>4 DEF NextShot, Silent
    <3>5. CASE PutDone(w)
      BY <2>1, <2>2, <3>5, FlushReturnsSilent DEF PutDone, EnterPost
    <3>6. CASE Attempt(w) \/ AnswerOK(w) \/ RetryLater(w) \/ GiveUp(w) \/ AnswerPermanent(w)
      BY <2>1, <3>6 DEF Attempt, AnswerOK, RetryLater, GiveUp, AnswerPermanent, InFlight,
                        Silent
    <3> QED BY <2>7, <3>1, <3>2, <3>3, <3>4, <3>5, <3>6 DEF WorkerStep
  <2>8. CASE Elapse
    BY <2>1, <2>8 DEF Elapse
  <2>9. CASE ServerChanges
    BY <2>1, <2>9 DEF ServerChanges, Silent
  <2> QED BY <2>4, <2>5, <2>6, <2>7, <2>8, <2>9 DEF Next
<1> QED BY <1>1, SyncInvariant, PTL DEF Spec, LockoutIsPermanent

\* No operation but a success, a reset or a new client closes an open breaker.
LEMMA OthersDoNotClose ==
    ASSUME NEW b, b \in Breaker, b.state # "closed"
    PROVE  /\ AfterIsAvailable(b).state # "closed" /\ RecordFailure(b).state # "closed"
           /\ RecordPermanent(b).state # "closed" /\ Tick(b).state # "closed"
<1>1. AfterIsAvailable(b).state # "closed"
  BY DEF AfterIsAvailable, Breaker
<1>2. RecordFailure(b).state # "closed"
  BY DEF RecordFailure, Breaker
<1>3. RecordPermanent(b).state # "closed" /\ Tick(b).state # "closed"
  BY DEF RecordPermanent, Tick, Breaker
<1> QED BY <1>1, <1>2, <1>3

\* A worker that has its answer is no longer in flight.
LEMMA AnswerLands ==
    ASSUME WorkersOK, NEW w \in Workers, AnswerOK(w)
    PROVE  server = "up" /\ InFlight(w) /\ ~InFlight(w)'
<1>1. server = "up" /\ InFlight(w)
  BY DEF AnswerOK
<1>2. CASE pc[w] = "presign"
  BY <1>1, <1>2 DEF AnswerOK, Goto, InFlight, WorkersOK
<1>3. CASE pc[w] # "presign"
  BY <1>1, <1>3 DEF AnswerOK, ItemOver, FlushReturns, Goto, InFlight, WorkersOK
<1> QED BY <1>1, <1>2, <1>3

\* Nothing but a 2xx answer, a resume or a new process closes the breaker; the
\* end of its window does not (client.go:124-145, 493-512).
THEOREM ClosedByEvidenceOnly == Spec => OnlyEvidenceCloses
<1> DEFINE Evidence == \/ server = "up" /\ \E w \in Workers : InFlight(w) /\ ~InFlight(w)'
                       \/ \E r \in ResumeWorkers : pc[r] = "reset"
                       \/ Restart
<1>1. IInv /\ [Next]_vars
        => [cb.state # "closed" /\ cb'.state = "closed" => Evidence]_vars
  <2> SUFFICES ASSUME IInv, Next, cb.state # "closed", cb'.state = "closed" PROVE Evidence
    OBVIOUS
  <2>1. cb \in Breaker /\ WorkersOK
    BY DEF IInv, BreakerOK
  <2>2. /\ AfterIsAvailable(cb).state # "closed" /\ RecordFailure(cb).state # "closed"
        /\ RecordPermanent(cb).state # "closed" /\ Tick(cb).state # "closed"
    BY <2>1, OthersDoNotClose
  <2>3. ASSUME NEW w \in Workers, WorkerStep(w)
        PROVE  Evidence
    <3>1. AnswerOK(w)
      BY <2>2, <2>3 DEF WorkerStep, Gate, NothingToSend, SendBatch, NextShot, PutDone,
                        Attempt, RetryLater, GiveUp, AnswerPermanent, EnterPost
    <3> QED BY <2>1, <3>1, AnswerLands
  <2>4. ASSUME NEW r \in ResumeWorkers, ResumeReset(r)
        PROVE  Evidence
    BY <2>4 DEF ResumeReset
  <2>5. ~(SyncTick \/ BestEffortTick \/ BurstTick \/ Elapse \/ ServerChanges)
    BY <2>2 DEF SyncTick, BestEffortTick, BurstTick, Elapse, ServerChanges
  <2>6. ~\E r \in ResumeWorkers : Resume(r)
    BY DEF Resume
  <2> QED BY <2>3, <2>4, <2>5, <2>6 DEF Next
<1> QED BY <1>1, SyncInvariant, PTL DEF Spec, OnlyEvidenceCloses

=============================================================================
