----------------------------- MODULE AgentSync -----------------------------
(***************************************************************************)
(* Who calls the circuit breaker, and in what order: the agent's event     *)
(* loop (cmd/agent/main.go), the flushes it runs in parallel on a sync     *)
(* tick, the flush goroutine of a resume from sleep, and the upload of a   *)
(* live-view frame (internal/sync/uploader.go), down to each request of    *)
(* Post and GetPresignedUploadURL (client.go).                             *)
(*                                                                         *)
(* Every process is a `worker': Main (the event loop, which runs burst     *)
(* uploads itself), the workers of the sync tick (SyncKind gives what each *)
(* of them flushes) and the resume goroutines.  A worker runs the flushes  *)
(* of its `todo' one after the other:                                      *)
(*   "rows"   FlushActivity, FlushKeystrokes or FlushMetrics: IsAvailable, *)
(*            read a batch, Post it;                                       *)
(*   "shots"  FlushScreenshots: IsAvailable, then for each record          *)
(*            IsAvailable, presign, PUT, Post the metadata;                *)
(*   "burst"  BurstUploadScreenshot: IsAvailable, presign, PUT, Post.      *)
(* What the batches hold is left out: only whether there is one matters.   *)
(***************************************************************************)
EXTENDS CircuitBreaker, Sequences

CONSTANTS
    Main,           \* the event loop
    SyncWorkers,    \* the goroutines of one sync tick
    SyncKind,       \* what each of them flushes, [SyncWorkers -> {"rows","shots"}]
    ResumeWorkers,  \* bound: how many resume goroutines may be alive at once
    LiveView        \* whether a manager may be watching (burst uploads)

Workers == {Main} \cup SyncWorkers \cup ResumeWorkers

ASSUME SyncAssumption ==
    /\ SyncKind \in [SyncWorkers -> {"rows", "shots"}]
    /\ Main \notin SyncWorkers \cup ResumeWorkers
    /\ SyncWorkers \cap ResumeWorkers = {}
    /\ LiveView \in BOOLEAN

VARIABLES
    cb,      \* the breaker of the one Client of the process
    pc,      \* where each worker is
    todo,    \* the flushes a worker still has to run, the current one first
    server   \* what the API answers now: "up" 2xx, "down" 5xx/408/429 or no
             \* answer within the timeout, "refusing" 400/401/403/404/422

vars == <<cb, pc, todo, server>>

\* idle: no flush.  reset: about to ResetCircuit.  gate: about to ask
\* IsAvailable on entry of a flush.  list: passed, about to read (the next of)
\* what there is to send.  presign: GET upload-url in flight.  put: the PUT to
\* the object store in flight.  attempt: in Post's retry loop, before the
\* isBlocked check (also while it sleeps between attempts).  inflight: POST in
\* flight.
PCs   == {"idle", "reset", "gate", "list", "presign", "put", "attempt", "inflight"}
Kinds == {"rows", "shots", "burst"}

ResumeTodo == <<"rows", "shots", "rows">>  \* FlushActivity, -Screenshots, -Metrics
Todos == {<<>>, ResumeTodo, <<"shots", "rows">>} \cup {<<k>> : k \in Kinds}

Init ==
    /\ cb = NewBreaker
    /\ pc = [w \in Workers |-> "idle"]
    /\ todo = [w \in Workers |-> <<>>]
    /\ server \in {"up", "down", "refusing"}

-----------------------------------------------------------------------------
Kind(w) == Head(todo[w])

Goto(w, label) == pc' = [pc EXCEPT ![w] = label] /\ UNCHANGED todo

\* The current flush returns; the goroutine goes on to the next one or ends.
FlushReturns(w) ==
    /\ todo' = [todo EXCEPT ![w] = Tail(todo[w])]
    /\ pc' = [pc EXCEPT ![w] = IF Tail(todo[w]) = <<>> THEN "idle" ELSE "gate"]

\* One batch or record is over, sent or failed.  FlushScreenshots goes round
\* again: the next attempt of WithRetryTag and the next record both start with
\* IsAvailable.  The others return.
ItemOver(w) == IF Kind(w) = "shots" THEN Goto(w, "list") ELSE FlushReturns(w)

\* The event loop is in its select: no sync tick is waiting for its flushes
\* and no burst upload is running on it.
LoopFree == pc[Main] = "idle" /\ \A s \in SyncWorkers : pc[s] = "idle"

-----------------------------------------------------------------------------
\* The event loop.

SyncTick ==
    /\ LoopFree
    /\ cb' = AfterIsAvailable(cb)
    /\ IF Available(cb)
       THEN /\ pc' = [w \in Workers |-> IF w \in SyncWorkers THEN "gate" ELSE pc[w]]
            /\ todo' = [w \in Workers |-> IF w \in SyncWorkers THEN <<SyncKind[w]>>
                                                               ELSE todo[w]]
       ELSE UNCHANGED <<pc, todo>>
    /\ UNCHANGED server

\* Heartbeat, telemetry and config ticks ask IsAvailable and, when let
\* through, make a call that never reports its outcome to the breaker.
BestEffortTick ==
    /\ LoopFree
    /\ cb' = AfterIsAvailable(cb)
    /\ UNCHANGED <<pc, todo, server>>

BurstTick ==
    /\ LiveView /\ LoopFree
    /\ pc' = [pc EXCEPT ![Main] = "gate"]
    /\ todo' = [todo EXCEPT ![Main] = <<"burst">>]
    /\ UNCHANGED <<cb, server>>

\* The sleep watcher reports a resume: the loop starts a flush goroutine.
Resume(r) ==
    /\ LoopFree
    /\ pc[r] = "idle"
    /\ pc' = [pc EXCEPT ![r] = "reset"]
    /\ todo' = [todo EXCEPT ![r] = ResumeTodo]
    /\ UNCHANGED <<cb, server>>

ResumeReset(r) ==
    /\ pc[r] = "reset"
    /\ cb' = ResetCircuit(cb)
    /\ Goto(r, "gate")
    /\ UNCHANGED server

-----------------------------------------------------------------------------
\* The flushes.

\* The check on entry of Flush* and BurstUploadScreenshot.
Gate(w) ==
    /\ pc[w] = "gate"
    /\ cb' = AfterIsAvailable(cb)
    /\ \/ Available(cb) /\ Goto(w, IF Kind(w) = "burst" THEN "presign" ELSE "list")
       \/ ~Available(cb) /\ FlushReturns(w)
    /\ UNCHANGED server

\* Nothing (more) to send: the flush returns, whatever Gate took stays taken.
NothingToSend(w) ==
    /\ pc[w] = "list"
    /\ FlushReturns(w)
    /\ UNCHANGED <<cb, server>>

ShotsDone(w) == pc[w] = "list" /\ Kind(w) = "shots" /\ NothingToSend(w)

\* Post's own IsAvailable, before its first attempt.
EnterPost(w) ==
    /\ cb' = AfterIsAvailable(cb)
    /\ IF Available(cb) THEN Goto(w, "attempt") ELSE ItemOver(w)

SendBatch(w) ==
    /\ pc[w] = "list" /\ Kind(w) = "rows"
    /\ EnterPost(w)
    /\ UNCHANGED server

\* The IsAvailable at the head of each attempt to upload one screenshot.
NextShot(w) ==
    /\ pc[w] = "list" /\ Kind(w) = "shots"
    /\ cb' = AfterIsAvailable(cb)
    /\ IF Available(cb) THEN Goto(w, "presign") ELSE UNCHANGED <<pc, todo>>
    /\ UNCHANGED server

\* The PUT to the object store does not touch the breaker; then the metadata
\* is posted, or the attempt is over.
PutDone(w) ==
    /\ pc[w] = "put"
    /\ \/ EnterPost(w)
       \/ ItemOver(w) /\ UNCHANGED cb
    /\ UNCHANGED server

\* Post gives up as soon as it sees the breaker open.
Attempt(w) ==
    /\ pc[w] = "attempt"
    /\ IF IsBlocked(cb) THEN ItemOver(w) ELSE Goto(w, "inflight")
    /\ UNCHANGED <<cb, server>>

-----------------------------------------------------------------------------
\* Answers of the API.

InFlight(w) == pc[w] \in {"presign", "inflight"}

AnswerOK(w) ==
    /\ InFlight(w) /\ server = "up"
    /\ cb' = RecordSuccess(cb)
    /\ IF pc[w] = "presign" THEN Goto(w, "put") ELSE ItemOver(w)
    /\ UNCHANGED server

\* A failed POST is tried again after a sleep ...
RetryLater(w) ==
    /\ pc[w] = "inflight" /\ server = "down"
    /\ cb' = RecordFailure(cb)
    /\ Goto(w, "attempt")
    /\ UNCHANGED server

\* ... until the time budget of WithRetry is spent; the presign request is not
\* repeated here.
GiveUp(w) ==
    /\ InFlight(w) /\ server = "down"
    /\ cb' = RecordFailure(cb)
    /\ ItemOver(w)
    /\ UNCHANGED server

AnswerPermanent(w) ==
    /\ InFlight(w) /\ server = "refusing"
    /\ cb' = RecordPermanent(cb)
    /\ ItemOver(w)
    /\ UNCHANGED server

-----------------------------------------------------------------------------
\* The environment.

Elapse ==
    /\ cb.state = "open" /\ cb.wait > 0
    /\ cb' = Tick(cb)
    /\ UNCHANGED <<pc, todo, server>>

ServerChanges ==
    /\ server' \in {"up", "down", "refusing"} \ {server}
    /\ UNCHANGED <<cb, pc, todo>>

\* The agent process dies or is stopped, and the watchdog starts a new one.
Restart ==
    /\ cb' = NewBreaker
    /\ pc' = [w \in Workers |-> "idle"]
    /\ todo' = [w \in Workers |-> <<>>]
    /\ UNCHANGED server

-----------------------------------------------------------------------------
WorkerStep(w) ==
    \/ Gate(w) \/ NothingToSend(w) \/ SendBatch(w) \/ NextShot(w)
    \/ PutDone(w) \/ Attempt(w)
    \/ AnswerOK(w) \/ RetryLater(w) \/ GiveUp(w) \/ AnswerPermanent(w)

Next ==
    \/ SyncTick \/ BestEffortTick \/ BurstTick
    \/ \E r \in ResumeWorkers : Resume(r) \/ ResumeReset(r)
    \/ \E w \in Workers : WorkerStep(w)
    \/ Elapse \/ ServerChanges \/ Restart

Spec == Init /\ [][Next]_vars

\* The goroutines run, requests are answered within the HTTP timeout and time
\* goes by (WF).  select picks among the ready tickers at random, so a sync
\* tick is taken if the loop is in its select again and again (SF).  WithRetry
\* has a time budget and a screenshot flush finitely many records, so neither
\* goes round for ever (SF).  Nothing is assumed of the server, of resumes, of
\* live view, of the other tickers or of restarts.
Fairness ==
    /\ \A w \in Workers : WF_vars(WorkerStep(w)) /\ SF_vars(GiveUp(w))
    /\ \A w \in ResumeWorkers \cup {s \in SyncWorkers : SyncKind[s] = "shots"} :
         SF_vars(ShotsDone(w))
    /\ \A r \in ResumeWorkers : WF_vars(ResumeReset(r))
    /\ WF_vars(Elapse)
    /\ SF_vars(SyncTick)

FairSpec == Spec /\ Fairness

-----------------------------------------------------------------------------
(* Properties *)

TypeOK ==
    /\ cb \in Breaker
    /\ pc \in [Workers -> PCs]
    /\ todo \in [Workers -> Todos]
    /\ server \in {"up", "down", "refusing"}
    /\ \A w \in Workers : pc[w] = "idle" <=> todo[w] = <<>>

\* The fields of the breaker agree with each other after any interleaving of
\* the workers' critical sections (client.go:468-512): see CircuitBreaker.
BreakerConsistent == BreakerOK(cb)

\* Nothing but a 2xx answer, a resume or a new process closes the breaker; in
\* particular the end of the window does not (the first design of the client
\* did that), so an unreachable server is never met by all the flushes at once.
OnlyEvidenceCloses ==
    [][cb.state # "closed" /\ cb'.state = "closed"
         => \/ server = "up" /\ \E w \in Workers : InFlight(w) /\ ~InFlight(w)'
            \/ \E r \in ResumeWorkers : pc[r] = "reset"
            \/ Restart]_vars

\* The slot is taken and no worker has, or can still send, a request whose
\* answer would give it back.
LockedOut ==
    /\ cb.state = "half" /\ cb.probe
    /\ \A w \in Workers : pc[w] \notin {"presign", "inflight", "attempt", "reset"}

\* Once locked out, the client stays so whatever the server, the tickers and
\* the flushes do: only a resume from sleep or a new process ends it.
LockoutIsPermanent ==
    [][LockedOut => LockedOut' \/ Restart \/ \E r \in ResumeWorkers : Resume(r)]_vars

\* An open breaker is tried again, whatever the server answers: late failures of
\* other requests start its window again (client.go:487-490), but not for ever,
\* since retries stop at an open breaker or when their time is up
\* (client.go:183-185, retry.go:70-75), and the next caller turns it half-open.
OpenIsRetried == cb.state = "open" ~> cb.state # "open"

\* A slot taken while a request is in flight is given back, whatever the
\* answer is: 2xx, 5xx, no answer, or a permanent status.
SlotOfRequestIsReleased ==
    (cb.probe /\ \E w \in Workers : InFlight(w)) ~> ~cb.probe

\* One bad minute does not lock the agent out: when the server is well from
\* some moment on, the client's breaker closes again.
RecoversWithServer == <>[](server = "up") => []<>(cb.state = "closed")

=============================================================================
