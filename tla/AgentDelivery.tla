--------------------------- MODULE AgentDelivery ---------------------------
(***************************************************************************)
(* The way of an activity event through the agent: the merge cache         *)
(* (internal/heartbeat), the WriteBatcher and its timer                    *)
(* (internal/buffer/batcher.go), the SQLite table (internal/buffer), and   *)
(* FlushActivity (internal/sync/uploader.go), which lists rows, posts them *)
(* and deletes them by id.  FlushActivity runs in the sync tick, in the    *)
(* goroutines started when the machine resumes, and in the shutdown; the   *)
(* first and the second overlap.  An event is what the merge cache holds   *)
(* until it commits it; how events grow by merging: see WindowTracking.    *)
(***************************************************************************)
EXTENDS Naturals, Sequences, FiniteSets, SequencesExt

CONSTANTS
    Event,       \* the merged events of a run
    None,        \* no event in the cache
    Tick,        \* the flush of the sync tick, or of the shutdown
    Resumes,     \* bound: how many resume goroutines may be alive at once
    MaxBatch,    \* maxBatch of the WriteBatcher (200 in main.go)
    BatchSize,   \* batchSize of the uploader (100)
    MaxRows,     \* maxBufferedRows of the prune tick (10 000)
    MaxCrashes,  \* bound: crashes of one behaviour
    MaxCalls     \* bound: timer goroutines started and not yet run

Flushers == {Tick} \cup Resumes

ASSUME DeliveryAssumption ==
    /\ None \notin Event
    /\ Tick \notin Resumes
    /\ MaxBatch \in Nat \ {0}
    /\ BatchSize \in Nat \ {0}
    /\ MaxRows \in Nat
    /\ MaxCrashes \in Nat
    /\ MaxCalls \in Nat

VARIABLES
    cache,      \* hq: the event being merged, or None
    pending,    \* the batcher's events, oldest first
    timer,      \* the batcher's timer: "nil", "armed", or "fired" (its
                \* goroutine started, the field not yet reset)
    calls,      \* timer goroutines that still have to run Flush
    rows,       \* table activity_events: records [id, ev]
    nextId,     \* what AUTOINCREMENT gives next
    pc,         \* where each flush is
    batch,      \* the rows it listed
    stopping,   \* the event loop is in its shutdown branch
    crashes,
    taken,      \* history: events observed so far
    delivered,  \* history: events the API has accepted
    lost        \* history: events gone without having been accepted

buffer == <<cache, pending, timer, calls, rows, nextId>>
flush  == <<pc, batch>>
vars   == <<buffer, flush, stopping, crashes, taken, delivered, lost>>

Row    == [id : Nat, ev : Event]
Evs(S) == {r.ev : r \in S}
Ids(S) == {r.id : r \in S}

Init ==
    /\ cache = None /\ pending = <<>> /\ timer = "nil" /\ calls = 0
    /\ rows = {} /\ nextId = 1
    /\ pc = [f \in Flushers |-> "idle"]
    /\ batch = [f \in Flushers |-> {}]
    /\ stopping = FALSE /\ crashes = 0
    /\ taken = {} /\ delivered = {} /\ lost = {}

\* The loop is in its select: no sync tick waits for its flushes.
LoopFree == ~stopping /\ pc[Tick] = "idle"

-----------------------------------------------------------------------------
(* The batcher *)

MutReusedId == IF rows = {} THEN 1     \* INTEGER PRIMARY KEY without AUTOINCREMENT
               ELSE (CHOOSE m \in Ids(rows) : \A i \in Ids(rows) : i <= m) + 1

FirstFreeId == nextId

\* InsertActivityBatch: one transaction, all of the events or none.
Insert(evs) ==
    /\ rows' = rows \cup {[id |-> FirstFreeId + i - 1, ev |-> evs[i]] : i \in 1 .. Len(evs)}
    /\ nextId' = FirstFreeId + Len(evs)
    /\ UNCHANGED lost

\* The transaction failed: the events are only counted (DroppedEvents).
InsertFails(evs) ==
    /\ lost' = lost \cup (ToSet(evs) \ delivered)
    /\ UNCHANGED <<rows, nextId>>

MutTimerForgotten(evs) ==    \* the timer is stopped and the field kept
    IF evs = <<>> THEN UNCHANGED <<pending, timer, rows, nextId, lost>>
    ELSE /\ pending' = <<>> /\ UNCHANGED timer
         /\ Insert(evs) \/ InsertFails(evs)

\* flushLocked, with evs pending.
FlushLocked(evs) ==
    IF evs = <<>> THEN UNCHANGED <<pending, timer, rows, nextId, lost>>
    ELSE /\ pending' = <<>> /\ timer' = "nil"
         /\ Insert(evs) \/ InsertFails(evs)

Add(e) ==
    LET evs == Append(pending, e) IN
    IF Len(evs) >= MaxBatch THEN FlushLocked(evs)
    ELSE /\ pending' = evs
         /\ timer' = IF timer = "nil" THEN "armed" ELSE timer
         /\ UNCHANGED <<rows, nextId, lost>>

MutCacheKept ==              \* the committed event stays cached
    IF cache = None THEN UNCHANGED <<cache, pending, timer, rows, nextId, lost>>
    ELSE UNCHANGED cache /\ Add(cache)

\* hq.FlushAll
CommitCache ==
    IF cache = None THEN UNCHANGED <<cache, pending, timer, rows, nextId, lost>>
    ELSE cache' = None /\ Add(cache)

TimerFires ==
    /\ timer = "armed" /\ calls < MaxCalls
    /\ timer' = "fired" /\ calls' = calls + 1
    /\ UNCHANGED <<cache, pending, rows, nextId, flush, stopping, crashes,
                   taken, delivered, lost>>

\* The timer's goroutine gets the lock, maybe long after an Add wrote what it
\* was started for.
TimerFlush ==
    /\ calls > 0
    /\ calls' = calls - 1
    /\ FlushLocked(pending)
    /\ UNCHANGED <<cache, flush, stopping, crashes, taken, delivered>>

-----------------------------------------------------------------------------
(* The event loop *)

\* Push of an observation that does not merge, or that reaches the commit
\* threshold: the cached event is committed and a new one takes its place.
Observe(e) ==
    /\ LoopFree
    /\ e \in Event \ taken
    /\ taken' = taken \cup {e}
    /\ cache' = e
    /\ IF cache = None THEN UNCHANGED <<pending, timer, rows, nextId, lost>>
                       ELSE Add(cache)
    /\ UNCHANGED <<calls, flush, stopping, crashes, delivered>>

\* The user goes AFK, or the machine is about to sleep.
PauseTracking ==
    /\ LoopFree
    /\ CommitCache
    /\ UNCHANGED <<calls, flush, stopping, crashes, taken, delivered>>

Starts(f) == pc' = [pc EXCEPT ![f] = "list"] /\ UNCHANGED batch

SyncTick ==
    /\ LoopFree
    /\ CommitCache
    /\ Starts(Tick)
    /\ UNCHANGED <<calls, stopping, crashes, taken, delivered>>

Resume(f) ==
    /\ LoopFree
    /\ pc[f] = "idle"
    /\ CommitCache
    /\ Starts(f)
    /\ UNCHANGED <<calls, stopping, crashes, taken, delivered>>

MutOldest(S, n) ==           \* ORDER BY id DESC
    {r \in S : Cardinality({s \in S : s.id > r.id}) < n}

\* ORDER BY id ASC LIMIT n
Oldest(S, n) == {r \in S : Cardinality({s \in S : s.id < r.id}) < n}

\* CapBuffer: the oldest rows beyond the limit.
Overflow(S, n) == IF Cardinality(S) > n THEN Oldest(S, Cardinality(S) - n) ELSE {}

\* The prune tick: PruneSynced drops the rows older than MaxBufferDays, then
\* CapBuffer what exceeds maxBufferedRows.
Pruned(S, old) == old \cup Overflow(S \ old, MaxRows)

Prune ==
    /\ LoopFree
    /\ \E n \in 0 .. Cardinality(rows) :
          LET gone == Pruned(rows, Oldest(rows, n)) IN
          /\ rows' = rows \ gone
          /\ lost' = lost \cup (Evs(gone) \ delivered)
    /\ UNCHANGED <<cache, pending, timer, calls, nextId, flush, stopping, crashes,
                   taken, delivered>>

-----------------------------------------------------------------------------
(* FlushActivity *)

Done(f) == pc' = [pc EXCEPT ![f] = "idle"] /\ batch' = [batch EXCEPT ![f] = {}]

\* ListUnsyncedActivity; with nothing to send the flush returns.
List(f) ==
    /\ pc[f] = "list"
    /\ rows # {}
    /\ pc' = [pc EXCEPT ![f] = "post"]
    /\ batch' = [batch EXCEPT ![f] = Oldest(rows, BatchSize)]
    /\ UNCHANGED <<buffer, stopping, crashes, taken, delivered, lost>>

\* An empty buffer, an unavailable API, or a post that was given up.
Return(f) ==
    /\ pc[f] \in {"list", "post"}
    /\ Done(f)
    /\ UNCHANGED <<buffer, stopping, crashes, taken, delivered, lost>>

\* The API accepts the batch.
Accepted(f) ==
    /\ pc[f] = "post"
    /\ delivered' = delivered \cup Evs(batch[f])
    /\ lost' = lost \ Evs(batch[f])
    /\ UNCHANGED <<buffer, batch, stopping, crashes, taken>>

PostAccepted(f) == Accepted(f) /\ pc' = [pc EXCEPT ![f] = "mark"]

\* The API accepted it, but the answer did not arrive in time: the post is
\* tried again, or given up.
AnswerLost(f) == Accepted(f) /\ UNCHANGED pc

MutMarkOnGiveUp(f) ==        \* an unanswered post is taken for a sent one
    /\ pc[f] \in {"post", "mark"}
    /\ rows' = {r \in rows : r.id \notin Ids(batch[f])}
    /\ Done(f)
    /\ UNCHANGED <<cache, pending, timer, calls, nextId, stopping, crashes,
                   taken, delivered, lost>>

\* MarkActivitySynced: one DELETE ... WHERE id IN (...).
Mark(f) ==
    /\ pc[f] = "mark"
    /\ rows' = {r \in rows : r.id \notin Ids(batch[f])}
    /\ Done(f)
    /\ UNCHANGED <<cache, pending, timer, calls, nextId, stopping, crashes,
                   taken, delivered, lost>>

MarkFails(f) ==
    /\ pc[f] = "mark"
    /\ Done(f)
    /\ UNCHANGED <<buffer, stopping, crashes, taken, delivered, lost>>

-----------------------------------------------------------------------------
(* The end of the process *)

Volatile == ToSet(pending) \cup ({cache} \ {None})

NewProcess ==
    /\ cache' = None /\ pending' = <<>> /\ timer' = "nil" /\ calls' = 0
    /\ pc' = [f \in Flushers |-> "idle"]
    /\ batch' = [f \in Flushers |-> {}]
    /\ stopping' = FALSE
    /\ lost' = lost \cup (Volatile \ delivered)
    /\ UNCHANGED <<rows, nextId, taken, delivered>>

\* Killed, powered off, a panic outside withRecover, or the shutdown deadline.
Crash ==
    /\ crashes < MaxCrashes
    /\ crashes' = crashes + 1
    /\ NewProcess

MutFlushBeforeCommit ==      \* batcher.Flush before hq.FlushAll
    /\ LoopFree
    /\ stopping' = TRUE
    /\ FlushLocked(pending)
    /\ Starts(Tick)
    /\ UNCHANGED <<cache, calls, crashes, taken, delivered>>

\* SIGTERM: hq.FlushAll, batcher.Flush, then one more FlushActivity.
Shutdown ==
    /\ LoopFree
    /\ stopping' = TRUE
    /\ cache' = None
    /\ FlushLocked(IF cache = None THEN pending ELSE Append(pending, cache))
    /\ Starts(Tick)
    /\ UNCHANGED <<calls, crashes, taken, delivered>>

Exit ==
    /\ stopping /\ pc[Tick] = "idle"
    /\ NewProcess
    /\ UNCHANGED crashes

-----------------------------------------------------------------------------
FlushStep(f) == List(f) \/ Return(f) \/ PostAccepted(f) \/ AnswerLost(f)
                \/ Mark(f) \/ MarkFails(f)

Next ==
    \/ \E e \in Event : Observe(e)
    \/ PauseTracking \/ SyncTick \/ Prune
    \/ \E f \in Resumes : Resume(f)
    \/ TimerFires \/ TimerFlush
    \/ \E f \in Flushers : FlushStep(f)
    \/ Crash \/ Shutdown \/ Exit

Spec == Init /\ [][Next]_vars

\* Goroutines run (WF).  select takes a ready sync tick sooner or later, the
\* API accepts a post sooner or later and SQLite deletes sooner or later (SF):
\* the last three are assumptions about the environment.  That the breaker lets
\* a sync tick through again and again is one of them; AgentSync shows when it
\* does not.
Fairness ==
    /\ \A f \in Flushers : WF_vars(FlushStep(f))
    /\ WF_vars(TimerFires) /\ WF_vars(TimerFlush) /\ WF_vars(Exit)
    /\ SF_vars(SyncTick) /\ SF_vars(List(Tick))
    /\ SF_vars(PostAccepted(Tick)) /\ SF_vars(Mark(Tick))

FairSpec == Spec /\ Fairness

-----------------------------------------------------------------------------
(* Properties *)

TypeOK ==
    /\ cache \in Event \cup {None}
    /\ pending \in Seq(Event)
    /\ timer \in {"nil", "armed", "fired"}
    /\ calls \in 0 .. MaxCalls
    /\ rows \subseteq Row
    /\ nextId \in Nat \ {0}
    /\ pc \in [Flushers -> {"idle", "list", "post", "mark"}]
    /\ batch \in [Flushers -> SUBSET Row]
    /\ stopping \in BOOLEAN
    /\ crashes \in 0 .. MaxCrashes
    /\ taken \subseteq Event /\ delivered \subseteq Event
    /\ lost \subseteq Event

Held == Volatile \cup Evs(rows)

\* An event is in one place of the agent only, and once: committing moves it
\* from the cache to the batcher and from there to one row (merge.go:208-218,
\* batcher.go:48-63).  Otherwise it would be sent twice without any failure.
HeldOnce ==
    /\ cache \notin ToSet(pending) \cup Evs(rows)
    /\ \A i, j \in 1 .. Len(pending) : pending[i] = pending[j] => i = j
    /\ ToSet(pending) \cap Evs(rows) = {}
    /\ \A r, s \in rows : r.ev = s.ev => r = s

\* A flush deletes by id what it listed a request and many retries ago
\* (uploader.go:111, events.go:244-257), while another flush may have deleted
\* the same rows and the batcher written new ones: what it deletes now has been
\* accepted by the API all the same.
DeletesOnlyAccepted ==
    \A f \in Flushers : pc[f] = "mark" =>
        \A r \in rows : r.id \in Ids(batch[f]) => r.ev \in delivered

\* Whenever something is pending, a timer is armed for it or the goroutine of
\* one is about to run, and only then (batcher.go:28-63), although a timer that
\* fired cannot be stopped any more and its goroutine may find other events, or
\* none.
TimerWatchesPending ==
    /\ pending # <<>> <=> timer # "nil"
    /\ timer = "fired" => calls > 0

\* The agent's buffer is an at-least-once stage: no interleaving of flushes,
\* crashes, expired rows and failed writes makes an event disappear unnoticed.
Stage == INSTANCE AtLeastOnce WITH Item <- Event, held <- Held
IsAtLeastOnce == Stage!Spec

\* Only the oldest events are given up for age or space: no unsent event is
\* dropped from the table while an older one stays (db.go:161-172,
\* events.go:263-280).
OldestGoFirst ==
    [][\A r \in rows \ rows', s \in rows' : r.ev \notin delivered => r.id < s.id]_vars

\* A process that ends by SIGTERM and within its deadline leaves nothing behind
\* in memory (main.go:491-515).
CleanExitLosesNothing == [][Exit => lost' = lost]_vars

\* Every observed event reaches the API or is dropped (age, space, failed write,
\* crash): it does not stay in the agent for ever.
ObservedIsSettled == \A e \in Event : e \in taken ~> e \in delivered \cup lost
=============================================================================
