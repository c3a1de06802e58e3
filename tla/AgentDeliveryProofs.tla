------------------------ MODULE AgentDeliveryProofs ------------------------
(***************************************************************************)
(* Theorems about AgentDelivery, for every set of events, number of resume *)
(* goroutines and size of batches and buffer: the agent's buffer is an     *)
(* at-least-once stage, a flush deletes only what the API accepted, the    *)
(* oldest events go first and a clean exit keeps everything; and about     *)
(* ActivityPipeline: buffer and ingest queue together are such a stage.    *)
(*                                                                         *)
(* The inductive invariant adds to the checked ones what makes ids safe to *)
(* delete by (RowIds: an id that was listed is never given to another row) *)
(* and where each event is (Accounted); IInvEnd adds that the table is     *)
(* finite and that the stopped loop has handed its events to the table;    *)
(* PipeInv says what the API's workers have in hand.                       *)
(***************************************************************************)
EXTENDS ActivityPipeline, FiniteSetTheorems, TLAPS

USE DeliveryAssumption DEF DeliveryAssumption

-----------------------------------------------------------------------------
(* The inductive invariant *)

\* Ids are used once: what a flush listed is still that row, or gone.
RowIds ==
    /\ \A r \in rows : r.id < nextId
    /\ \A r, s \in rows : r.id = s.id => r = s
    /\ \A f \in Flushers : \A b \in batch[f] :
          /\ b.id < nextId
          /\ \A r \in rows : r.id = b.id => r = b

\* Every event observed is held, accepted or lost, and lost excludes the others.
Accounted ==
    /\ taken = Held \cup delivered \cup lost
    /\ lost \cap (Held \cup delivered) = {}
    /\ \A f \in Flushers : Evs(batch[f]) \subseteq taken
    /\ \A f \in Flushers : pc[f] = "mark" => Evs(batch[f]) \subseteq delivered

IInv == TypeOK /\ HeldOnce /\ TimerWatchesPending /\ RowIds /\ Accounted

-----------------------------------------------------------------------------
(* What the batcher's operations do to the buffer *)

Distinct(s) == \A i, j \in 1 .. Len(s) : s[i] = s[j] => i = j

\* The events of X go to new rows (W) or are dropped (D).
Written(X, W, D) ==
    /\ W \subseteq Row /\ IsFiniteSet(W) /\ D \subseteq Event
    /\ rows' = rows \cup W
    /\ nextId' \in Nat \ {0} /\ nextId <= nextId'
    /\ \A w \in W : nextId <= w.id /\ w.id < nextId'
    /\ \A v, w \in W : v.id = w.id \/ v.ev = w.ev => v = w
    /\ Evs(W) \cup D = X
    /\ Evs(W) \cap D = {}
    /\ lost' = lost \cup (D \ delivered)

LEMMA InsertEffect ==
    ASSUME TypeOK, NEW evs \in Seq(Event), Distinct(evs), Insert(evs)
    PROVE  \E W : Written(ToSet(evs), W, {})
<1> DEFINE W == {[id |-> nextId + i - 1, ev |-> evs[i]] : i \in 1 .. Len(evs)}
<1>1. nextId \in Nat \ {0} /\ Len(evs) \in Nat
  BY DEF TypeOK
<1>2. \A i \in 1 .. Len(evs) : evs[i] \in Event /\ nextId + i - 1 \in Nat
  BY <1>1
<1>3. W \subseteq Row
  BY <1>2 DEF Row
<1>4. rows' = rows \cup W /\ nextId' = nextId + Len(evs) /\ lost' = lost
  BY DEF Insert, FirstFreeId
<1>5. \A w \in W : \E i \in 1 .. Len(evs) : w.id = nextId + i - 1 /\ w.ev = evs[i]
  OBVIOUS
<1>6. \A w \in W : nextId <= w.id /\ w.id < nextId'
  BY <1>1, <1>4, <1>5
<1>7. \A v, w \in W : v.id = w.id \/ v.ev = w.ev => v = w
  BY <1>1 DEF Distinct
<1>8. Evs(W) = ToSet(evs)
  <2>1. ToSet(evs) = {evs[i] : i \in 1 .. Len(evs)}
    BY DEF ToSet
  <2>2. ASSUME NEW i \in 1 .. Len(evs) PROVE evs[i] \in Evs(W)
    <3>1. [id |-> nextId + i - 1, ev |-> evs[i]] \in W
      OBVIOUS
    <3> QED BY <3>1 DEF Evs
  <2>3. ASSUME NEW w \in W PROVE w.ev \in ToSet(evs)
    BY <1>5, <2>1
  <2> QED BY <2>1, <2>2, <2>3 DEF Evs
<1>9. nextId' \in Nat \ {0} /\ nextId <= nextId'
  BY <1>1, <1>4
<1>10. IsFiniteSet(W)
  <2>1. IsFiniteSet(1 .. Len(evs))
    BY <1>1, FS_Interval
  <2> DEFINE f == [i \in 1 .. Len(evs) |-> [id |-> nextId + i - 1, ev |-> evs[i]]]
  <2>2. f \in Surjection(1 .. Len(evs), W)
    BY DEF Surjection
  <2> HIDE DEF f, W
  <2> QED BY <2>1, <2>2, FS_Surjection
<1> HIDE DEF W
<1> QED BY <1>3, <1>4, <1>6, <1>7, <1>8, <1>9, <1>10 DEF Written

LEMMA InsertFailsEffect ==
    ASSUME TypeOK, NEW evs \in Seq(Event), InsertFails(evs)
    PROVE  Written(ToSet(evs), {}, ToSet(evs))
<1>1. ToSet(evs) \subseteq Event
  BY DEF ToSet
<1>2. Evs({}) = {}
  BY DEF Evs
<1> QED BY <1>1, <1>2, FS_EmptySet DEF Written, InsertFails, TypeOK

LEMMA FlushLockedEffect ==
    ASSUME TypeOK, TimerWatchesPending, NEW evs \in Seq(Event), Distinct(evs),
           evs = <<>> => pending = <<>>, FlushLocked(evs)
    PROVE  /\ pending' = <<>> /\ timer' = "nil"
           /\ \E W, D : Written(ToSet(evs), W, D)
<1>1. CASE evs = <<>>
  <2>1. InsertFails(evs) /\ pending' = <<>> /\ timer' = "nil"
    BY <1>1 DEF FlushLocked, InsertFails, TimerWatchesPending, TypeOK, ToSet
  <2> QED BY <2>1, InsertFailsEffect
<1>2. CASE evs # <<>>
  BY <1>2, InsertEffect, InsertFailsEffect DEF FlushLocked
<1> QED BY <1>1, <1>2

LEMMA AppendFacts ==
    ASSUME NEW s \in Seq(Event), NEW e \in Event
    PROVE  /\ Append(s, e) \in Seq(Event) /\ Append(s, e) # <<>>
           /\ ToSet(Append(s, e)) = ToSet(s) \cup {e}
           /\ Distinct(s) /\ e \notin ToSet(s) => Distinct(Append(s, e))
<1> DEFINE t == Append(s, e)
<1>1. t \in Seq(Event) /\ Len(t) = Len(s) + 1 /\ t[Len(t)] = e
      /\ \A i \in 1 .. Len(s) : t[i] = s[i]
  OBVIOUS
<1>2. Len(s) \in Nat /\ DOMAIN s = 1 .. Len(s) /\ DOMAIN t = 1 .. Len(t)
  BY <1>1
<1> HIDE DEF t
<1>3. t # <<>>
  BY <1>1, <1>2
<1>4. ToSet(t) = ToSet(s) \cup {e}
  <2>1. ToSet(t) \subseteq ToSet(s) \cup {e}
    <3> SUFFICES ASSUME NEW i \in 1 .. Len(t) PROVE t[i] \in ToSet(s) \cup {e}
      BY <1>2 DEF ToSet
    <3>1. i \in 1 .. Len(s) \/ i = Len(t)
      BY <1>1, <1>2
    <3> QED BY <3>1, <1>1, <1>2 DEF ToSet
  <2>2. ASSUME NEW i \in 1 .. Len(s) PROVE s[i] \in ToSet(t)
    <3>1. i \in 1 .. Len(t) /\ t[i] = s[i]
      BY <1>1, <1>2
    <3> QED BY <3>1, <1>2 DEF ToSet
  <2>3. e \in ToSet(t)
    <3>1. Len(t) \in 1 .. Len(t)
      BY <1>1, <1>2
    <3> QED BY <3>1, <1>1, <1>2 DEF ToSet
  <2> QED BY <2>1, <2>2, <2>3, <1>2 DEF ToSet
<1>5. ASSUME Distinct(s), e \notin ToSet(s) PROVE Distinct(t)
  <2> SUFFICES ASSUME NEW i \in 1 .. Len(t), NEW j \in 1 .. Len(t), t[i] = t[j]
               PROVE  i = j
    BY DEF Distinct
  <2>1. \A k \in 1 .. Len(s) : s[k] # e
    BY <1>2, <1>5 DEF ToSet
  <2>2. CASE i \in 1 .. Len(s) /\ j \in 1 .. Len(s)
    BY <2>2, <1>1, <1>5 DEF Distinct
  <2>3. CASE i \notin 1 .. Len(s) \/ j \notin 1 .. Len(s)
    BY <2>1, <2>3, <1>1, <1>2
  <2> QED BY <2>2, <2>3
<1> QED BY <1>1, <1>3, <1>4, <1>5 DEF t

\* What Add and FlushLocked have in common, with evs the events at hand: those
\* of X are written or dropped, the others stay pending, watched by a timer.
Batched(evs, X, W, D) ==
    /\ Written(X, W, D)
    /\ pending' \in Seq(Event) /\ Distinct(pending')
    /\ ToSet(pending') \cup X = ToSet(evs)
    /\ ToSet(pending') \cap X = {}
    /\ timer' \in {"nil", "armed", "fired"}
    /\ pending' # <<>> <=> timer' # "nil"
    /\ timer' = "fired" => timer = "fired"

LEMMA FlushBatched ==
    ASSUME TypeOK, TimerWatchesPending, NEW evs \in Seq(Event), Distinct(evs),
           evs = <<>> => pending = <<>>, FlushLocked(evs)
    PROVE  \E X, W, D : Batched(evs, X, W, D)
<1>1. PICK W, D : Written(ToSet(evs), W, D)
  BY FlushLockedEffect
<1>2. pending' = <<>> /\ timer' = "nil"
  BY FlushLockedEffect
<1>3. ToSet(pending') = {} /\ pending' \in Seq(Event) /\ Distinct(pending')
  BY <1>2 DEF ToSet, Distinct
<1>4. Batched(evs, ToSet(evs), W, D)
  BY <1>1, <1>2, <1>3 DEF Batched
<1> QED BY <1>4

LEMMA NothingWritten ==
    ASSUME TypeOK, UNCHANGED <<rows, nextId, lost>>
    PROVE  Written({}, {}, {})
<1>1. Evs({}) = {}
  BY DEF Evs
<1> QED BY <1>1, FS_EmptySet DEF Written, TypeOK

LEMMA AddBatched ==
    ASSUME TypeOK, TimerWatchesPending, Distinct(pending),
           NEW e \in Event, e \notin ToSet(pending), Add(e)
    PROVE  \E X, W, D : Batched(Append(pending, e), X, W, D)
<1> DEFINE evs == Append(pending, e)
<1>1. evs \in Seq(Event) /\ evs # <<>> /\ Distinct(evs)
  BY AppendFacts DEF TypeOK
<1>2. CASE Len(evs) >= MaxBatch
  <2>1. FlushLocked(evs)
    BY <1>2 DEF Add
  <2> QED BY <1>1, <2>1, FlushBatched DEF TypeOK
<1>3. CASE ~(Len(evs) >= MaxBatch)
  <2>1. /\ pending' = evs /\ UNCHANGED <<rows, nextId, lost>>
        /\ timer' = IF timer = "nil" THEN "armed" ELSE timer
    BY <1>3 DEF Add
  <2>2. Written({}, {}, {})
    BY <2>1, NothingWritten
  <2>3. timer' \in {"armed", "fired"} /\ (timer' = "fired" => timer = "fired")
    BY <2>1 DEF TypeOK
  <2>4. Batched(evs, {}, {}, {})
    BY <1>1, <2>1, <2>2, <2>3 DEF Batched
  <2> QED BY <2>4
<1> QED BY <1>2, <1>3

-----------------------------------------------------------------------------
(* The steps that move events from the cache and the batcher to the table *)

\* T is observed; X leaves the memory, for the rows W or dropped as D.
Moved(T, X, W, D) ==
    /\ Written(X, W, D)
    /\ T \subseteq Event \ taken /\ taken' = taken \cup T
    /\ cache' \in Event \cup {None}
    /\ pending' \in Seq(Event) /\ Distinct(pending')
    /\ cache' \notin ToSet(pending')
    /\ Volatile' \cup X = Volatile \cup T
    /\ Volatile' \cap X = {}
    /\ timer' \in {"nil", "armed", "fired"} /\ calls' \in 0 .. MaxCalls
    /\ TimerWatchesPending'
    /\ pc' \in [Flushers -> {"idle", "list", "post", "mark"}]
    /\ \A f \in Flushers : pc'[f] = "mark" => pc[f] = "mark"
    /\ UNCHANGED <<batch, crashes, delivered>>
    /\ stopping' \in BOOLEAN

LEMMA DistinctPending == IInv => Distinct(pending) /\ pending \in Seq(Event)
                                 /\ cache \notin ToSet(pending) \cup Evs(rows)
                                 /\ ToSet(pending) \subseteq Event
BY DEF IInv, HeldOnce, Distinct, TypeOK, ToSet

LEMMA ObserveMoves ==
    ASSUME IInv, NEW e \in Event, Observe(e)
    PROVE  \E X, W, D : Moved({e}, X, W, D)
<1> USE DEF IInv
<1>1. /\ e \notin taken /\ taken' = taken \cup {e} /\ cache' = e
      /\ UNCHANGED <<calls, pc, batch, stopping, crashes, delivered>>
  BY DEF Observe, flush
<1>2. e \notin Volatile
  BY <1>1 DEF Accounted, Held
<1>3. /\ calls' \in 0 .. MaxCalls /\ stopping' \in BOOLEAN
      /\ pc' \in [Flushers -> {"idle", "list", "post", "mark"}]
  BY <1>1 DEF TypeOK
<1>4. CASE cache = None
  <2>1. UNCHANGED <<pending, timer, rows, nextId, lost>>
    BY <1>4 DEF Observe
  <2>2. Written({}, {}, {})
    BY <2>1, NothingWritten
  <2>3. Volatile' = Volatile \cup {e} /\ Volatile = ToSet(pending) /\ cache' \notin ToSet(pending')
    BY <1>1, <1>2, <1>4, <2>1 DEF Volatile
  <2>4. TimerWatchesPending' /\ timer' \in {"nil", "armed", "fired"}
    BY <1>1, <2>1 DEF TimerWatchesPending, TypeOK
  <2>5. Distinct(pending') /\ pending' \in Seq(Event)
    BY <2>1, DistinctPending
  <2>6. Moved({e}, {}, {}, {})
    BY <1>1, <1>3, <2>2, <2>3, <2>4, <2>5 DEF Moved
  <2> QED BY <2>6
<1>5. CASE cache # None
  <2>1. Add(cache) /\ cache \in Event
    BY <1>5 DEF Observe, TypeOK
  <2>2. PICK X, W, D : Batched(Append(pending, cache), X, W, D)
    BY <2>1, DistinctPending, AddBatched
  <2>3. ToSet(Append(pending, cache)) = Volatile
    BY <1>5, <2>1, AppendFacts, DistinctPending DEF Volatile
  <2>4. /\ Volatile' \cup X = Volatile \cup {e} /\ Volatile' \cap X = {}
        /\ cache' \notin ToSet(pending')
    BY <1>1, <1>2, <2>2, <2>3 DEF Batched, Volatile
  <2>5. TimerWatchesPending'
    BY <1>1, <2>2 DEF Batched, TimerWatchesPending
  <2>6. Moved({e}, X, W, D)
    BY <1>1, <1>3, <2>2, <2>4, <2>5 DEF Moved, Batched
  <2> QED BY <2>6
<1> QED BY <1>4, <1>5

\* FlushAll, as the pause, the sync tick and the resume call it.
LEMMA CommitMoves ==
    ASSUME IInv, CommitCache, UNCHANGED <<calls, batch, stopping, crashes,
                                          taken, delivered>>,
           pc' \in [Flushers -> {"idle", "list", "post", "mark"}],
           \A f \in Flushers : pc'[f] = "mark" => pc[f] = "mark"
    PROVE  \E X, W, D : Moved({}, X, W, D)
<1> USE DEF IInv
<1>1. calls' \in 0 .. MaxCalls /\ stopping' \in BOOLEAN
  BY DEF TypeOK
<1>2. CASE cache = None
  <2>1. UNCHANGED <<cache, pending, timer, rows, nextId, lost>>
    BY <1>2 DEF CommitCache
  <2>2. Written({}, {}, {})
    BY <2>1, NothingWritten
  <2>3. Volatile' = Volatile /\ cache' \notin ToSet(pending') /\ cache' \in Event \cup {None}
    BY <2>1, DistinctPending DEF Volatile, TypeOK
  <2>4. TimerWatchesPending' /\ timer' \in {"nil", "armed", "fired"}
    BY <2>1 DEF TimerWatchesPending, TypeOK
  <2>5. Distinct(pending') /\ pending' \in Seq(Event)
    BY <2>1, DistinctPending
  <2>6. Moved({}, {}, {}, {})
    BY <1>1, <2>2, <2>3, <2>4, <2>5 DEF Moved
  <2> QED BY <2>6
<1>3. CASE cache # None
  <2>1. Add(cache) /\ cache \in Event /\ cache' = None
    BY <1>3 DEF CommitCache, TypeOK
  <2>2. PICK X, W, D : Batched(Append(pending, cache), X, W, D)
    BY <2>1, DistinctPending, AddBatched
  <2>3. ToSet(Append(pending, cache)) = Volatile
    BY <1>3, <2>1, AppendFacts, DistinctPending DEF Volatile
  <2>4. ToSet(pending') \subseteq Event
    BY <2>2 DEF Batched, ToSet
  <2>5. /\ Volatile' \cup X = Volatile /\ Volatile' \cap X = {}
        /\ cache' \notin ToSet(pending')
    BY <2>1, <2>2, <2>3, <2>4 DEF Batched, Volatile
  <2>6. TimerWatchesPending'
    BY <2>2 DEF Batched, TimerWatchesPending
  <2>7. Moved({}, X, W, D)
    BY <1>1, <2>1, <2>2, <2>5, <2>6 DEF Moved, Batched
  <2> QED BY <2>7
<1> QED BY <1>2, <1>3

LEMMA StartsPc ==
    ASSUME IInv, NEW f \in Flushers, Starts(f)
    PROVE  /\ pc' \in [Flushers -> {"idle", "list", "post", "mark"}]
           /\ \A g \in Flushers : pc'[g] = "mark" => pc[g] = "mark"
           /\ batch' = batch
BY DEF Starts, IInv, TypeOK

LEMMA TimerFlushMoves ==
    ASSUME IInv, TimerFlush
    PROVE  \E X, W, D : Moved({}, X, W, D)
<1> USE DEF IInv
<1>1. /\ FlushLocked(pending) /\ calls' \in 0 .. MaxCalls
      /\ UNCHANGED <<cache, pc, batch, stopping, crashes, taken, delivered>>
  BY DEF TimerFlush, TypeOK, flush
<1>2. PICK X, W, D : Batched(pending, X, W, D)
  BY <1>1, DistinctPending, FlushBatched
<1>3. pending' = <<>> /\ timer' = "nil"
  BY <1>1, DistinctPending, FlushLockedEffect
<1>4. cache' \notin ToSet(pending') /\ TimerWatchesPending'
  BY <1>3 DEF ToSet, TimerWatchesPending
<1>5. ToSet(pending') = {} /\ X = ToSet(pending)
  BY <1>2, <1>3 DEF ToSet, Batched
<1>6. Volatile' \cup X = Volatile /\ Volatile' \cap X = {}
  BY <1>1, <1>5, DistinctPending DEF Volatile
<1>7. Moved({}, X, W, D)
  BY <1>1, <1>2, <1>4, <1>6 DEF Moved, Batched, TypeOK
<1> QED BY <1>7

LEMMA ShutdownMoves ==
    ASSUME IInv, Shutdown
    PROVE  \E X, W, D : Moved({}, X, W, D)
<1> USE DEF IInv
<1> DEFINE evs == IF cache = None THEN pending ELSE Append(pending, cache)
<1>1. /\ FlushLocked(evs) /\ cache' = None /\ stopping' = TRUE
      /\ UNCHANGED <<calls, batch, crashes, taken, delivered>>
      /\ pc' \in [Flushers -> {"idle", "list", "post", "mark"}]
      /\ \A g \in Flushers : pc'[g] = "mark" => pc[g] = "mark"
  BY StartsPc DEF Shutdown, Starts, Flushers
<1>2. /\ evs \in Seq(Event) /\ Distinct(evs) /\ ToSet(evs) = Volatile
      /\ evs = <<>> => pending = <<>>
  <2>1. CASE cache = None
    BY <2>1, DistinctPending DEF Volatile
  <2>2. CASE cache # None
    BY <2>2, DistinctPending, AppendFacts DEF Volatile, TypeOK
  <2> QED BY <2>1, <2>2
<1> HIDE DEF evs
<1>3. PICK X, W, D : Batched(evs, X, W, D)
  BY <1>1, <1>2, FlushBatched
<1>4. pending' = <<>> /\ timer' = "nil"
  BY <1>1, <1>2, FlushLockedEffect
<1>5. ToSet(pending') = {} /\ X = Volatile /\ TimerWatchesPending'
  <2>1. ToSet(pending') = {} /\ TimerWatchesPending'
    BY <1>4 DEF ToSet, TimerWatchesPending
  <2> QED BY <2>1, <1>2, <1>3 DEF Batched
<1>6. Volatile' = {} /\ cache' \notin ToSet(pending')
  BY <1>1, <1>5 DEF Volatile
<1>7. Moved({}, X, W, D)
  BY <1>1, <1>3, <1>5, <1>6 DEF Moved, Batched, TypeOK
<1> QED BY <1>7

-----------------------------------------------------------------------------
(* Every step preserves the invariant *)

LEMMA EvsUnion == \A S, U : Evs(S \cup U) = Evs(S) \cup Evs(U)
BY DEF Evs

LEMMA MovedPreserves ==
    ASSUME IInv, NEW T, NEW X, NEW W, NEW D, Moved(T, X, W, D)
    PROVE  IInv'
<1> USE DEF IInv
<1>1. Written(X, W, D) /\ Evs(rows') = Evs(rows) \cup Evs(W)
  BY EvsUnion DEF Moved, Written
<1>2. TypeOK'
  <2>1. rows' \subseteq Row /\ lost' \subseteq Event /\ nextId' \in Nat \ {0}
    BY <1>1 DEF Written, TypeOK
  <2> QED BY <2>1 DEF Moved, TypeOK
<1>3. /\ Volatile \cap Evs(rows) = {} /\ Volatile \subseteq taken /\ Evs(rows) \subseteq taken
      /\ lost \subseteq taken /\ delivered \subseteq taken
      /\ lost \cap Volatile = {} /\ lost \cap Evs(rows) = {} /\ lost \cap delivered = {}
      /\ taken = Volatile \cup Evs(rows) \cup delivered \cup lost
  BY DEF HeldOnce, Accounted, Held, Volatile
<1>4. /\ X \subseteq Volatile \cup T /\ Volatile' \subseteq Volatile \cup T
      /\ Volatile \cup T \subseteq Volatile' \cup X
      /\ Volatile' \cap X = {} /\ T \cap taken = {} /\ taken' = taken \cup T
      /\ delivered' = delivered
  BY DEF Moved
<1>5. X = Evs(W) \cup D /\ Evs(W) \cap D = {} /\ lost' = lost \cup (D \ delivered)
  BY <1>1 DEF Written
<1>6. Evs(W) \cap Evs(rows) = {}
  BY <1>3, <1>4, <1>5
<1>7. HeldOnce'
  <2>1. Volatile' \cap Evs(rows') = {}
    BY <1>1, <1>3, <1>4, <1>5
  <2>2. cache' \notin Evs(rows') /\ ToSet(pending') \cap Evs(rows') = {}
    <3>1. None \notin Evs(rows')
      BY <1>2 DEF TypeOK, Row, Evs
    <3> QED BY <2>1, <3>1 DEF Volatile
  <2>3. \A r, s \in rows' : r.ev = s.ev => r = s
    <3> SUFFICES ASSUME NEW r \in rows \cup W, NEW s \in rows \cup W, r.ev = s.ev
                 PROVE  r = s
      BY <1>1 DEF Written
    <3>1. CASE r \in rows /\ s \in rows
      BY <3>1 DEF HeldOnce
    <3>2. CASE r \in W /\ s \in W
      BY <3>2, <1>1 DEF Written
    <3>3. CASE r \in rows /\ s \in W
      BY <3>3, <1>6 DEF Evs
    <3>4. CASE r \in W /\ s \in rows
      BY <3>4, <1>6 DEF Evs
    <3> QED BY <3>1, <3>2, <3>3, <3>4
  <2> QED BY <2>2, <2>3 DEF HeldOnce, Moved, Distinct
<1>8. RowIds'
  <2>1. /\ \A w \in W : nextId <= w.id /\ w.id < nextId' /\ w.id \in Nat
        /\ nextId <= nextId' /\ rows' = rows \cup W /\ batch' = batch
        /\ nextId \in Nat /\ nextId' \in Nat /\ \A r \in rows : r.id \in Nat
        /\ \A f \in Flushers : \A b \in batch[f] : b.id \in Nat
    BY <1>1, <1>2 DEF Written, Moved, TypeOK, Row
  <2>2. \A r \in rows' : r.id < nextId'
    BY <2>1 DEF RowIds
  <2>3. \A r, s \in rows' : r.id = s.id => r = s
    <3>1. \A v, w \in W : v.id = w.id => v = w
      BY <1>1 DEF Written
    <3> QED BY <2>1, <3>1 DEF RowIds
  <2>4. \A f \in Flushers : \A b \in batch'[f] :
          b.id < nextId' /\ \A r \in rows' : r.id = b.id => r = b
    BY <2>1 DEF RowIds
  <2> QED BY <2>2, <2>3, <2>4 DEF RowIds
<1>9. Accounted'
  <2>1. Held' = Volatile' \cup Evs(rows) \cup Evs(W)
    BY <1>1 DEF Held
  <2>2. taken' = Held' \cup delivered' \cup lost' /\ lost' \cap (Held' \cup delivered') = {}
    BY <2>1, <1>3, <1>4, <1>5
  <2>3. \A f \in Flushers : Evs(batch'[f]) \subseteq taken'
    BY <1>4 DEF Moved, Accounted
  <2>4. \A f \in Flushers : pc'[f] = "mark" => Evs(batch'[f]) \subseteq delivered'
    BY <1>4 DEF Moved, Accounted
  <2> QED BY <2>2, <2>3, <2>4 DEF Accounted
<1>10. TimerWatchesPending'
  BY DEF Moved
<1> QED BY <1>2, <1>7, <1>8, <1>9, <1>10

LEMMA OldestIsSubset == \A S, n : Oldest(S, n) \subseteq S
BY DEF Oldest

LEMMA ListPreserves ==
    ASSUME IInv, NEW f \in Flushers, List(f)
    PROVE  IInv'
<1> USE DEF IInv
<1> DEFINE B == Oldest(rows, BatchSize)
<1>1. /\ UNCHANGED <<cache, pending, timer, calls, rows, nextId, stopping, crashes,
                     taken, delivered, lost>>
      /\ pc' = [pc EXCEPT ![f] = "post"] /\ batch' = [batch EXCEPT ![f] = B]
  BY DEF List, buffer
<1>2. B \subseteq rows
  BY OldestIsSubset
<1> HIDE DEF B
<1>3. TypeOK'
  BY <1>1, <1>2 DEF TypeOK
<1>4. HeldOnce' /\ TimerWatchesPending'
  BY <1>1 DEF HeldOnce, TimerWatchesPending
<1>5. \A g \in Flushers : batch'[g] = IF g = f THEN B ELSE batch[g]
  BY <1>1 DEF TypeOK
<1>6. \A g \in Flushers : pc'[g] = "mark" => g # f /\ pc[g] = "mark"
  BY <1>1 DEF TypeOK
<1>7. RowIds'
  BY <1>1, <1>2, <1>5 DEF RowIds
<1>8. Accounted'
  <2>1. Held' = Held
    BY <1>1 DEF Held, Volatile
  <2>2. Evs(B) \subseteq taken
    BY <1>2 DEF Accounted, Held, Evs
  <2> QED BY <1>1, <1>5, <1>6, <2>1, <2>2 DEF Accounted
<1> QED BY <1>3, <1>4, <1>7, <1>8

\* The end of a flush: its batch is forgotten.
LEMMA DonePreserves ==
    ASSUME IInv, NEW f \in Flushers, Done(f), rows' \subseteq rows,
           UNCHANGED <<cache, pending, timer, calls, nextId, stopping, crashes,
                       taken, delivered, lost>>,
           Evs(rows) \subseteq Evs(rows') \cup delivered
    PROVE  IInv'
<1> USE DEF IInv
<1>1. pc' = [pc EXCEPT ![f] = "idle"] /\ batch' = [batch EXCEPT ![f] = {}]
  BY DEF Done
<1>2. TypeOK'
  BY <1>1 DEF TypeOK
<1>3. Evs(rows') \subseteq Evs(rows)
  BY DEF Evs
<1>4. HeldOnce' /\ TimerWatchesPending'
  BY <1>3 DEF HeldOnce, TimerWatchesPending
<1>5. \A g \in Flushers : batch'[g] = IF g = f THEN {} ELSE batch[g]
  BY <1>1 DEF TypeOK
<1>6. \A g \in Flushers : pc'[g] = "mark" => g # f /\ pc[g] = "mark"
  BY <1>1 DEF TypeOK
<1>7. RowIds'
  BY <1>5 DEF RowIds
<1>8. Accounted'
  <2>1. Volatile' = Volatile
    BY DEF Volatile
  <2>2. taken' = Held' \cup delivered' \cup lost' /\ lost' \cap (Held' \cup delivered') = {}
    BY <2>1, <1>3 DEF Held, Accounted
  <2>3. Evs({}) = {}
    BY DEF Evs
  <2> QED BY <1>5, <1>6, <2>2, <2>3 DEF Accounted
<1> QED BY <1>2, <1>4, <1>7, <1>8

LEMMA MarkDeletesDelivered ==
    ASSUME IInv, NEW f \in Flushers, pc[f] = "mark",
           NEW r \in rows, r.id \in Ids(batch[f])
    PROVE  r.ev \in delivered
<1>1. PICK b \in batch[f] : b.id = r.id
  BY DEF Ids
<1>2. r = b
  BY <1>1 DEF IInv, RowIds
<1> QED BY <1>2 DEF IInv, Accounted, Evs

LEMMA MarkPreserves ==
    ASSUME IInv, NEW f \in Flushers, Mark(f)
    PROVE  IInv'
<1>1. pc[f] = "mark" /\ rows' = {r \in rows : r.id \notin Ids(batch[f])} /\ Done(f)
  BY DEF Mark
<1>2. Evs(rows) \subseteq Evs(rows') \cup delivered
  <2> SUFFICES ASSUME NEW r \in rows PROVE r.ev \in Evs(rows') \cup delivered
    BY DEF Evs
  <2>1. CASE r \in rows'
    BY <2>1 DEF Evs
  <2>2. CASE r \notin rows'
    BY <2>2, <1>1, MarkDeletesDelivered
  <2> QED BY <2>1, <2>2
<1> QED BY <1>1, <1>2, DonePreserves DEF Mark

LEMMA ReturnPreserves ==
    ASSUME IInv, NEW f \in Flushers, Return(f) \/ MarkFails(f)
    PROVE  IInv'
<1>1. Done(f) /\ UNCHANGED <<cache, pending, timer, calls, rows, nextId, stopping,
                            crashes, taken, delivered, lost>>
  BY DEF Return, MarkFails, buffer
<1> QED BY <1>1, DonePreserves

LEMMA AcceptedPreserves ==
    ASSUME IInv, NEW f \in Flushers, PostAccepted(f) \/ AnswerLost(f)
    PROVE  IInv'
<1> USE DEF IInv
<1> DEFINE B == Evs(batch[f])
<1>1. /\ delivered' = delivered \cup B
      /\ lost' = lost \ B
      /\ UNCHANGED <<cache, pending, timer, calls, rows, nextId, batch, stopping,
                     crashes, taken>>
      /\ pc' = pc \/ pc' = [pc EXCEPT ![f] = "mark"]
  BY DEF PostAccepted, AnswerLost, Accepted, buffer
<1>2. B \subseteq taken /\ B \subseteq Event
  BY DEF Accounted, TypeOK
<1> HIDE DEF B
<1>3. TypeOK'
  BY <1>1, <1>2 DEF TypeOK
<1>4. HeldOnce' /\ TimerWatchesPending' /\ RowIds'
  BY <1>1 DEF HeldOnce, TimerWatchesPending, RowIds
<1>5. \A g \in Flushers : pc'[g] = "mark" => g = f \/ pc[g] = "mark"
  BY <1>1 DEF TypeOK
<1>6. Held' = Held
  BY <1>1 DEF Held, Volatile
<1>7. Accounted'
  BY <1>1, <1>2, <1>5, <1>6 DEF Accounted, B
<1> QED BY <1>3, <1>4, <1>7

\* Rows that go leave their events behind in lost, and nowhere else.
LEMMA PrunePreserves ==
    ASSUME IInv, Prune
    PROVE  IInv'
<1> USE DEF IInv
<1>1. PICK n \in 0 .. Cardinality(rows) :
          LET gone == Pruned(rows, Oldest(rows, n)) IN
          rows' = rows \ gone /\ lost' = lost \cup (Evs(gone) \ delivered)
  BY DEF Prune
<1> DEFINE gone == Pruned(rows, Oldest(rows, n))
<1>2. gone \subseteq rows
  BY OldestIsSubset DEF Pruned, Overflow
<1>3. rows' = rows \ gone /\ lost' = lost \cup (Evs(gone) \ delivered)
  BY <1>1
<1> HIDE DEF gone
<1>4. UNCHANGED <<cache, pending, timer, calls, nextId, pc, batch, stopping, crashes,
                  taken, delivered>>
  BY DEF Prune, flush
<1>5. Evs(gone) \subseteq Evs(rows) /\ Evs(rows') \subseteq Evs(rows)
      /\ Evs(rows) \subseteq Evs(rows') \cup Evs(gone)
  BY <1>2, <1>3 DEF Evs
<1>6. Evs(gone) \cap Evs(rows') = {}
  BY <1>2, <1>3 DEF Evs, HeldOnce
<1>7. TypeOK'
  <2>1. Evs(gone) \subseteq Event /\ rows' \subseteq Row
    BY <1>2, <1>3 DEF TypeOK, Evs, Row
  <2> QED BY <2>1, <1>3, <1>4 DEF TypeOK
<1>8. HeldOnce' /\ TimerWatchesPending' /\ RowIds'
  BY <1>3, <1>4, <1>5 DEF HeldOnce, TimerWatchesPending, RowIds
<1>9. Accounted'
  <2>1. Volatile' = Volatile /\ Volatile \cap Evs(rows) = {}
    BY <1>4 DEF Volatile, HeldOnce, TypeOK, Row, Evs
  <2>2. taken' = Held' \cup delivered' \cup lost' /\ lost' \cap (Held' \cup delivered') = {}
    BY <2>1, <1>3, <1>4, <1>5, <1>6 DEF Held, Accounted
  <2> QED BY <2>2, <1>4 DEF Accounted
<1> QED BY <1>7, <1>8, <1>9

LEMMA TimerFiresPreserves ==
    ASSUME IInv, TimerFires
    PROVE  IInv'
<1> USE DEF IInv
<1>1. /\ timer = "armed" /\ timer' = "fired" /\ calls < MaxCalls /\ calls' = calls + 1
      /\ UNCHANGED <<cache, pending, rows, nextId, pc, batch, stopping, crashes,
                     taken, delivered, lost>>
  BY DEF TimerFires, flush
<1>2. TypeOK'
  BY <1>1 DEF TypeOK
<1>3. HeldOnce' /\ RowIds'
  BY <1>1 DEF HeldOnce, RowIds
<1>4. TimerWatchesPending'
  BY <1>1 DEF TimerWatchesPending, TypeOK
<1>5. Accounted'
  <2>1. Held' = Held
    BY <1>1 DEF Held, Volatile
  <2> QED BY <1>1, <2>1 DEF Accounted
<1> QED BY <1>2, <1>3, <1>4, <1>5

LEMMA NewProcessPreserves ==
    ASSUME IInv, NewProcess, crashes' \in 0 .. MaxCrashes
    PROVE  IInv'
<1> USE DEF IInv
<1>1. /\ cache' = None /\ pending' = <<>> /\ timer' = "nil" /\ calls' = 0
      /\ pc' = [f \in Flushers |-> "idle"] /\ batch' = [f \in Flushers |-> {}]
      /\ stopping' = FALSE /\ lost' = lost \cup (Volatile \ delivered)
      /\ UNCHANGED <<rows, nextId, taken, delivered>>
  BY DEF NewProcess
<1>2. Volatile \subseteq Event /\ Volatile \cap Evs(rows) = {} /\ Volatile' = {}
      /\ ToSet(pending') = {}
  <2>1. ToSet(pending) \subseteq Event
    BY DistinctPending
  <2>2. ToSet(pending') = {}
    BY <1>1 DEF ToSet
  <2> QED BY <1>1, <2>1, <2>2 DEF Volatile, HeldOnce, TypeOK
<1>3. TypeOK'
  <2>1. pending' \in Seq(Event) /\ calls' \in 0 .. MaxCalls /\ cache' \in Event \cup {None}
    BY <1>1
  <2>2. /\ pc' \in [Flushers -> {"idle", "list", "post", "mark"}]
        /\ batch' \in [Flushers -> SUBSET Row]
    BY <1>1
  <2> QED BY <2>1, <2>2, <1>1, <1>2 DEF TypeOK
<1>4. TimerWatchesPending' /\ RowIds'
  BY <1>1 DEF TimerWatchesPending, RowIds
<1>5. HeldOnce'
  <2>1. None \notin Evs(rows)
    BY DEF TypeOK, Row, Evs
  <2> QED BY <1>1, <1>2, <2>1 DEF HeldOnce
<1>6. Accounted'
  <2>1. Held' = Evs(rows)
    BY <1>1, <1>2 DEF Held
  <2>2. Evs({}) = {}
    BY DEF Evs
  <2>3. taken' = Held' \cup delivered' \cup lost' /\ lost' \cap (Held' \cup delivered') = {}
    BY <2>1, <1>1, <1>2 DEF Held, Accounted
  <2> QED BY <2>2, <2>3, <1>1 DEF Accounted
<1> QED BY <1>3, <1>4, <1>5, <1>6

LEMMA InitEstablishes == Init => IInv
<1> SUFFICES ASSUME Init PROVE IInv
  OBVIOUS
<1>1. Evs({}) = {} /\ ToSet(pending) = {} /\ Volatile = {} /\ Held = {}
  BY DEF Init, Evs, ToSet, Volatile, Held
<1>2. TypeOK
  <2>1. pending \in Seq(Event) /\ calls \in 0 .. MaxCalls /\ cache \in Event \cup {None}
    BY DEF Init
  <2>2. /\ pc \in [Flushers -> {"idle", "list", "post", "mark"}]
        /\ batch \in [Flushers -> SUBSET Row] /\ crashes \in 0 .. MaxCrashes
    BY DEF Init
  <2>3. nextId \in Nat \ {0}
    BY SMT DEF Init
  <2>5. stopping \in BOOLEAN
    BY Zenon DEF Init
  <2>4. /\ timer \in {"nil", "armed", "fired"} /\ rows \subseteq Row
        /\ taken \subseteq Event /\ delivered \subseteq Event
        /\ lost \subseteq Event
    BY DEF Init
  <2> QED BY <2>1, <2>2, <2>3, <2>4, <2>5 DEF TypeOK
<1>3. HeldOnce /\ TimerWatchesPending
  BY <1>1 DEF Init, HeldOnce, TimerWatchesPending
<1>4. RowIds /\ Accounted
  BY <1>1 DEF Init, RowIds, Accounted
<1> QED BY <1>2, <1>3, <1>4 DEF IInv

\* The steps of the event loop and the timer that move events.
LEMMA MovingSteps ==
    ASSUME IInv, TimerFlush \/ PauseTracking \/ SyncTick \/ Shutdown
                 \/ \E f \in Resumes : Resume(f)
    PROVE  \E X, W, D : Moved({}, X, W, D)
<1>1. CASE TimerFlush
  BY <1>1, TimerFlushMoves
<1>2. CASE Shutdown
  BY <1>2, ShutdownMoves
<1>3. CASE PauseTracking
  BY <1>3, CommitMoves DEF PauseTracking, flush, IInv, TypeOK
<1>4. CASE SyncTick
  BY <1>4, CommitMoves, StartsPc DEF SyncTick, Flushers
<1>5. CASE \E f \in Resumes : Resume(f)
  BY <1>5, CommitMoves, StartsPc DEF Resume, Flushers
<1> QED BY <1>1, <1>2, <1>3, <1>4, <1>5

THEOREM Inductive == IInv /\ [Next]_vars => IInv'
<1> SUFFICES ASSUME IInv, [Next]_vars PROVE IInv'
  OBVIOUS
<1>1. CASE \E e \in Event : Observe(e)
  BY <1>1, ObserveMoves, MovedPreserves
<1>2. CASE TimerFlush \/ PauseTracking \/ SyncTick \/ Shutdown \/ \E f \in Resumes : Resume(f)
  BY <1>2, MovingSteps, MovedPreserves
<1>3. CASE Prune
  BY <1>3, PrunePreserves
<1>4. CASE TimerFires
  BY <1>4, TimerFiresPreserves
<1>5. CASE \E f \in Flushers : FlushStep(f)
  BY <1>5, ListPreserves, ReturnPreserves, AcceptedPreserves, MarkPreserves DEF FlushStep
<1>6. CASE Crash
  BY <1>6, NewProcessPreserves DEF Crash, IInv, TypeOK
<1>7. CASE Exit
  BY <1>7, NewProcessPreserves DEF Exit, IInv, TypeOK
<1>8. CASE UNCHANGED vars
  BY <1>8 DEF vars, buffer, flush, IInv, TypeOK, HeldOnce, TimerWatchesPending, RowIds,
              Accounted, Held, Volatile
<1> QED BY <1>1, <1>2, <1>3, <1>4, <1>5, <1>6, <1>7, <1>8 DEF Next

\* The inductive invariant holds (agent state of main.go, batcher.go, events.go).
THEOREM DeliveryInvariant == Spec => []IInv
<1>1. Init => IInv
  BY InitEstablishes
<1>2. IInv /\ [Next]_vars => IInv'
  BY Inductive
<1> QED BY <1>1, <1>2, PTL DEF Spec

\* Type correctness, an event held once, and a timer for whatever is pending
\* (merge.go:208-218, batcher.go:28-63).
THEOREM BufferConsistent == Spec => [](TypeOK /\ HeldOnce /\ TimerWatchesPending)
<1>1. IInv => TypeOK /\ HeldOnce /\ TimerWatchesPending
  BY DEF IInv
<1> QED BY <1>1, DeliveryInvariant, PTL

\* However many flushes overlap, and whatever the batcher writes meanwhile, a
\* flush deletes rows the API has accepted only (uploader.go:90-113).
THEOREM FlushDeletesOnlyAccepted == Spec => []DeletesOnlyAccepted
<1>1. IInv => DeletesOnlyAccepted
  BY MarkDeletesDelivered DEF DeletesOnlyAccepted
<1> QED BY <1>1, DeliveryInvariant, PTL

-----------------------------------------------------------------------------
(* The agent's buffer implements AtLeastOnce *)

LEMMA MovedForgets ==
    ASSUME IInv, NEW T, NEW X, NEW W, NEW D, Moved(T, X, W, D)
    PROVE  /\ Held' = (Held \cup T) \ D /\ D \subseteq Held \cup T
           /\ lost' = lost \cup (D \ delivered) /\ delivered' = delivered
           /\ T \cap (Held \cup delivered \cup lost) = {}
<1> USE DEF IInv
<1>1. /\ Held' = Volatile' \cup Evs(rows) \cup Evs(W)
      /\ lost' = lost \cup (D \ delivered) /\ X = Evs(W) \cup D /\ Evs(W) \cap D = {}
      /\ delivered' = delivered
  BY EvsUnion DEF Moved, Written, Held
<1>2. Volatile \cap Evs(rows) = {} /\ taken = Held \cup delivered \cup lost
  BY DEF HeldOnce, Volatile, TypeOK, Row, Evs, Accounted
<1>3. Volatile' \cup X = Volatile \cup T /\ Volatile' \cap X = {} /\ T \cap taken = {}
  BY DEF Moved
<1> QED BY <1>1, <1>2, <1>3 DEF Held

LEMMA StepImplements == IInv /\ [Next]_vars => [Stage!Next]_(Stage!vars)
<1> SUFFICES ASSUME IInv, [Next]_vars
             PROVE  Stage!Next \/ UNCHANGED <<Held, delivered, lost>>
  BY DEF Stage!vars
<1> USE DEF IInv
<1>1. CASE \E e \in Event : Observe(e)
  <2>1. PICK e \in Event : Observe(e)
    BY <1>1
  <2>2. PICK X, W, D : Moved({e}, X, W, D)
    BY <2>1, ObserveMoves
  <2>3. Stage!Take(e, D)
    BY <2>2, MovedForgets DEF Stage!Take, Stage!Forget, Stage!Known
  <2>4. D \in SUBSET (Held \cup {e})
    BY <2>2, MovedForgets
  <2> QED BY <2>3, <2>4 DEF Stage!Next
<1>2. CASE TimerFlush \/ PauseTracking \/ SyncTick \/ Shutdown \/ \E f \in Resumes : Resume(f)
  <2>1. PICK X, W, D : Moved({}, X, W, D)
    BY <1>2, MovingSteps
  <2>2. Stage!Lose(D) /\ D \in SUBSET Held
    BY <2>1, MovedForgets DEF Stage!Lose, Stage!Forget
  <2> QED BY <2>2 DEF Stage!Next
<1>3. CASE Prune
  <2>1. PICK n \in 0 .. Cardinality(rows) :
            LET gone == Pruned(rows, Oldest(rows, n)) IN
            rows' = rows \ gone /\ lost' = lost \cup (Evs(gone) \ delivered)
    BY <1>3 DEF Prune
  <2> DEFINE gone == Pruned(rows, Oldest(rows, n))
  <2>2. gone \subseteq rows /\ rows' = rows \ gone /\ lost' = lost \cup (Evs(gone) \ delivered)
    BY <2>1, OldestIsSubset DEF Pruned, Overflow
  <2> HIDE DEF gone
  <2>3. Volatile' = Volatile /\ delivered' = delivered
    BY <1>3 DEF Prune, Volatile
  <2>4. Evs(rows') = Evs(rows) \ Evs(gone) /\ Evs(gone) \subseteq Evs(rows)
    BY <2>2 DEF Evs, HeldOnce
  <2>5. Volatile \cap Evs(rows) = {}
    BY DEF HeldOnce, Volatile, TypeOK, Row, Evs
  <2>6. Stage!Lose(Evs(gone)) /\ Evs(gone) \in SUBSET Held
    BY <2>2, <2>3, <2>4, <2>5 DEF Stage!Lose, Stage!Forget, Held
  <2> QED BY <2>6 DEF Stage!Next
<1>4. ASSUME NEW f \in Flushers, PostAccepted(f) \/ AnswerLost(f)
      PROVE  Stage!Next
  <2>1. /\ delivered' = delivered \cup Evs(batch[f]) /\ lost' = lost \ Evs(batch[f])
        /\ Held' = Held
    BY <1>4 DEF PostAccepted, AnswerLost, Accepted, buffer, Held, Volatile
  <2>2. Evs(batch[f]) \subseteq Held \cup delivered \cup lost
    BY DEF Accounted
  <2>3. Stage!Deliver(Evs(batch[f])) /\ Evs(batch[f]) \in SUBSET Stage!Known
    BY <2>1, <2>2 DEF Stage!Deliver, Stage!Known
  <2> QED BY <2>3 DEF Stage!Next
<1>5. ASSUME NEW f \in Flushers, Mark(f)
      PROVE  Stage!Next
  <2> DEFINE S == Evs(rows) \ Evs(rows')
  <2>1. /\ pc[f] = "mark" /\ rows' = {r \in rows : r.id \notin Ids(batch[f])}
        /\ UNCHANGED <<cache, pending, delivered, lost>>
    BY <1>5 DEF Mark
  <2>2. S \subseteq delivered
    <3> SUFFICES ASSUME NEW r \in rows, r.ev \notin Evs(rows') PROVE r.ev \in delivered
      BY DEF Evs
    <3>1. r \notin rows'
      BY DEF Evs
    <3> QED BY <2>1, <3>1, MarkDeletesDelivered
  <2>3. Volatile' = Volatile /\ Volatile \cap Evs(rows) = {} /\ Evs(rows') \subseteq Evs(rows)
    BY <2>1 DEF HeldOnce, Volatile, TypeOK, Row, Evs
  <2>4. Held' = Held \ S /\ S \subseteq Held
    BY <2>3 DEF Held
  <2> HIDE DEF S
  <2>5. Stage!Finish(S) /\ S \in SUBSET Held
    BY <2>1, <2>2, <2>4 DEF Stage!Finish
  <2> QED BY <2>5 DEF Stage!Next
<1>6. CASE Crash \/ Exit
  <2>1. /\ cache' = None /\ pending' = <<>> /\ lost' = lost \cup (Volatile \ delivered)
        /\ UNCHANGED <<rows, delivered>>
    BY <1>6 DEF Crash, Exit, NewProcess
  <2>2. Volatile' = {}
    BY <2>1 DEF Volatile, ToSet
  <2>3. Volatile \cap Evs(rows) = {}
    BY DEF HeldOnce, Volatile, TypeOK, Row, Evs
  <2>4. Stage!Lose(Volatile) /\ Volatile \in SUBSET Held
    BY <2>1, <2>2, <2>3 DEF Stage!Lose, Stage!Forget, Held
  <2> QED BY <2>4 DEF Stage!Next
<1>7. ASSUME NEW f \in Flushers, List(f) \/ Return(f) \/ MarkFails(f)
      PROVE  UNCHANGED <<Held, delivered, lost>>
  BY <1>7 DEF List, Return, MarkFails, buffer, Held, Volatile
<1>8. CASE TimerFires
  BY <1>8 DEF TimerFires, Held, Volatile
<1>9. CASE UNCHANGED vars
  BY <1>9 DEF vars, buffer, Held, Volatile
<1> QED BY <1>1, <1>2, <1>3, <1>4, <1>5, <1>6, <1>7, <1>8, <1>9 DEF Next, FlushStep

\* The agent's buffer is an at-least-once stage: between the foreground window
\* and the API's acceptance an event is held, accepted, or accounted as lost
\* (merge.go, batcher.go, events.go, uploader.go:76-116).
THEOREM AgentIsAtLeastOnce == Spec => IsAtLeastOnce
<1>1. Init => Stage!Init
  <2>1. Init => Held = {}
    BY DEF Init, Held, Volatile, Evs, ToSet
  <2> QED BY <2>1 DEF Init, Stage!Init
<1>2. IInv /\ [Next]_vars => [Stage!Next]_(Stage!vars)
  BY StepImplements
<1> QED BY <1>1, <1>2, DeliveryInvariant, PTL DEF Spec, IsAtLeastOnce, Stage!Spec

-----------------------------------------------------------------------------
(* What goes first, and what is left at the end *)

\* The table stays finite, and the loop that has left its select holds nothing.
IInvEnd == IInv /\ IsFiniteSet(rows) /\ (stopping => cache = None /\ pending = <<>>)

\* What LIMIT picks from a finite table is older than what it leaves.
LEMMA OldestAreOlder ==
    ASSUME NEW S, IsFiniteSet(S), S \subseteq Row, \A r, s \in S : r.id = s.id => r = s,
           NEW n \in Int, NEW r \in Oldest(S, n), NEW s \in S \ Oldest(S, n)
    PROVE  r.id < s.id
<1> DEFINE Before(x) == {y \in S : y.id < x.id}
<1>1. r \in S /\ Cardinality(Before(r)) < n /\ ~(Cardinality(Before(s)) < n)
  BY DEF Oldest
<1>2. r.id \in Nat /\ s.id \in Nat /\ r.id # s.id /\ \A x \in S : x.id \in Nat
  BY <1>1 DEF Row
<1> SUFFICES ASSUME s.id < r.id PROVE FALSE
  BY <1>2
<1>3. Before(s) \subseteq Before(r)
  BY <1>2
<1>4. IsFiniteSet(Before(r))
  BY FS_Subset
<1> HIDE DEF Before
<1>5. /\ Cardinality(Before(s)) <= Cardinality(Before(r)) /\ IsFiniteSet(Before(s))
  BY <1>3, <1>4, FS_Subset
<1>6. Cardinality(Before(s)) \in Nat /\ Cardinality(Before(r)) \in Nat
  BY <1>4, <1>5, FS_CardinalityType
<1> QED BY <1>1, <1>5, <1>6

\* So is what the prune tick drops, for its age or beyond the cap.
LEMMA PrunedAreOlder ==
    ASSUME IInv, IsFiniteSet(rows), NEW n \in Int,
           NEW r \in Pruned(rows, Oldest(rows, n)),
           NEW s \in rows \ Pruned(rows, Oldest(rows, n))
    PROVE  r.id < s.id
<1> DEFINE old  == Oldest(rows, n)
           rest == rows \ old
           k    == Cardinality(rest) - MaxRows
<1>1. rows \subseteq Row /\ \A x, y \in rows : x.id = y.id => x = y
  BY DEF IInv, TypeOK, RowIds
<1>2. s \notin old /\ s \in rows
  BY DEF Pruned
<1>3. CASE r \in old
  BY <1>1, <1>2, <1>3, OldestAreOlder
<1>4. CASE r \notin old
  <2>1. IsFiniteSet(rest) /\ Cardinality(rest) \in Nat
    BY FS_Subset, FS_CardinalityType
  <2>2. k \in Int
    BY <2>1
  <2>3. r \in Oldest(rest, k) /\ s \notin Oldest(rest, k)
    BY <1>4 DEF Pruned, Overflow
  <2>4. rest \subseteq Row /\ (\A x, y \in rest : x.id = y.id => x = y) /\ s \in rest
    BY <1>1, <1>2
  <2> HIDE DEF rest, k
  <2> QED BY <2>1, <2>2, <2>3, <2>4, OldestAreOlder
<1> QED BY <1>3, <1>4

LEMMA EndBegins == Init => IInvEnd
<1> SUFFICES ASSUME Init PROVE IInvEnd
  OBVIOUS
<1> QED BY InitEstablishes, FS_EmptySet DEF Init, IInvEnd

\* Once the loop has left its select, only what ends the process touches what
\* it held.
LEMMA StoppedHoldsNothing ==
    ASSUME IInv, [Next]_vars, stopping => cache = None /\ pending = <<>>
    PROVE  stopping' => cache' = None /\ pending' = <<>>
<1>1. CASE Shutdown
  <2> DEFINE evs == IF cache = None THEN pending ELSE Append(pending, cache)
  <2>1. FlushLocked(evs) /\ cache' = None
    BY <1>1 DEF Shutdown
  <2>2. pending' = <<>>
    <3>1. CASE evs = <<>>
      <4>1. pending = <<>>
        BY <3>1, AppendFacts DEF IInv, TypeOK
      <4>2. pending' = pending
        BY <2>1, <3>1 DEF FlushLocked
      <4> QED BY <4>1, <4>2
    <3>2. CASE evs # <<>>
      <4> HIDE DEF evs
      <4> QED BY <2>1, <3>2 DEF FlushLocked
    <3> QED BY <3>1, <3>2
  <2> QED BY <2>1, <2>2
<1>2. CASE TimerFlush
  BY <1>2 DEF TimerFlush, FlushLocked
<1>3. CASE Crash \/ Exit
  BY <1>3 DEF Crash, Exit, NewProcess
<1>4. ASSUME \/ \E e \in Event : Observe(e)
             \/ PauseTracking \/ SyncTick \/ Prune \/ \E f \in Resumes : Resume(f)
      PROVE  ~stopping /\ stopping' = stopping
  BY <1>4 DEF Observe, PauseTracking, SyncTick, Prune, Resume, LoopFree
<1>5. ASSUME TimerFires \/ UNCHANGED vars \/ \E f \in Flushers : FlushStep(f)
      PROVE  UNCHANGED <<cache, pending, stopping>>
  BY <1>5 DEF TimerFires, vars, buffer, FlushStep, List, Return, PostAccepted, AnswerLost,
              Accepted, Mark, MarkFails
<1> QED BY <1>1, <1>2, <1>3, <1>4, <1>5 DEF Next

LEMMA TableStaysFinite ==
    ASSUME IInv, IsFiniteSet(rows), [Next]_vars
    PROVE  IsFiniteSet(rows')
<1>1. CASE rows' \subseteq rows
  BY <1>1, FS_Subset
<1>2. ASSUME NEW T, NEW X, NEW W, NEW D, Moved(T, X, W, D)
      PROVE  IsFiniteSet(rows')
  <2>1. rows' = rows \cup W /\ IsFiniteSet(W)
    BY <1>2 DEF Moved, Written
  <2> QED BY <2>1, FS_Union
<1>3. CASE \E e \in Event : Observe(e)
  BY <1>2, <1>3, ObserveMoves
<1>4. CASE TimerFlush \/ PauseTracking \/ SyncTick \/ Shutdown \/ \E f \in Resumes : Resume(f)
  BY <1>2, <1>4, MovingSteps
<1>5. CASE \/ Prune \/ TimerFires \/ Crash \/ Exit \/ UNCHANGED vars
           \/ \E f \in Flushers : FlushStep(f)
  <2>1. rows' \subseteq rows
    BY <1>5 DEF Prune, TimerFires, Crash, Exit, NewProcess, vars, buffer, FlushStep, List,
                Return, PostAccepted, AnswerLost, Accepted, Mark, MarkFails
  <2> QED BY <1>1, <2>1
<1> QED BY <1>3, <1>4, <1>5 DEF Next

LEMMA EndStep == IInvEnd /\ [Next]_vars => IInvEnd'
BY Inductive, StoppedHoldsNothing, TableStaysFinite DEF IInvEnd

\* No event that waits is dropped from the table while an older one stays: age
\* and cap take from the old end, and a flush deletes what was accepted, for
\* any number of flushes and sizes (db.go:161-172, events.go:263-280).
THEOREM OldEventsGoFirst == Spec => OldestGoFirst
<1> DEFINE P == \A r \in rows \ rows', s \in rows' : r.ev \notin delivered => r.id < s.id
<1>1. IInvEnd /\ [Next]_vars => [P]_vars
  <2> SUFFICES ASSUME IInvEnd, Next, NEW r \in rows \ rows', NEW s \in rows',
                      r.ev \notin delivered
               PROVE  r.id < s.id
    OBVIOUS
  <2>0. IInv /\ IsFiniteSet(rows)
    BY DEF IInvEnd
  <2>1. CASE Prune
    <3>1. PICK n \in 0 .. Cardinality(rows) : rows' = rows \ Pruned(rows, Oldest(rows, n))
      BY <2>1 DEF Prune
    <3>2. n \in Int
      OBVIOUS
    <3>3. r \in Pruned(rows, Oldest(rows, n)) /\ s \in rows \ Pruned(rows, Oldest(rows, n))
      BY <3>1
    <3> QED BY <2>0, <3>2, <3>3, PrunedAreOlder
  <2>2. ASSUME NEW f \in Flushers, Mark(f) PROVE FALSE
    BY <2>0, <2>2, MarkDeletesDelivered DEF Mark
  <2>3. ASSUME NEW T, NEW X, NEW W, NEW D, Moved(T, X, W, D) PROVE FALSE
    BY <2>3 DEF Moved, Written
  <2>4. CASE \E e \in Event : Observe(e)
    BY <2>0, <2>3, <2>4, ObserveMoves
  <2>5. CASE TimerFlush \/ PauseTracking \/ SyncTick \/ Shutdown
             \/ \E f \in Resumes : Resume(f)
    BY <2>0, <2>3, <2>5, MovingSteps
  <2>6. CASE TimerFires \/ Crash \/ Exit
    BY <2>6 DEF TimerFires, Crash, Exit, NewProcess
  <2>7. ASSUME NEW f \in Flushers, List(f) \/ Return(f) \/ PostAccepted(f) \/ AnswerLost(f)
                                   \/ MarkFails(f)
        PROVE  FALSE
    BY <2>7 DEF List, Return, PostAccepted, AnswerLost, Accepted, MarkFails, buffer
  <2> QED BY <2>1, <2>2, <2>4, <2>5, <2>6, <2>7 DEF Next, FlushStep
<1> QED BY <1>1, EndBegins, EndStep, PTL DEF Spec, OldestGoFirst

\* A process that ends by SIGTERM and within its deadline leaves nothing behind
\* in memory, whatever timers and flushes were under way (main.go:491-515).
THEOREM CleanExitKeepsAll == Spec => CleanExitLosesNothing
<1>1. IInvEnd /\ [Next]_vars => [Exit => lost' = lost]_vars
  <2> SUFFICES ASSUME IInvEnd, Exit PROVE lost' = lost
    OBVIOUS
  <2>1. cache = None /\ pending = <<>>
    BY DEF IInvEnd, Exit
  <2>2. Volatile = {}
    BY <2>1 DEF Volatile, ToSet
  <2> QED BY <2>2 DEF Exit, NewProcess
<1> QED BY <1>1, EndBegins, EndStep, PTL DEF Spec, CleanExitLosesNothing

-----------------------------------------------------------------------------
(* The agent's buffer and the API's ingest queue together (ActivityPipeline) *)

\* What a worker has is queued or stored, what it is about to delete is stored;
\* and the API has accepted just what is queued or stored.
PipeInv ==
    /\ IInv
    /\ got \in [Worker -> SUBSET (queue \cup stored)]
    /\ wpc \in [Worker -> {"idle", "save", "delete"}]
    /\ \A w \in Worker : wpc[w] = "delete" => got[w] \subseteq stored
    /\ delivered = EventsOf(queue) \cup EventsOf(stored)

LEMMA EventsOfFacts ==
    /\ EventsOf({}) = {}
    /\ \A S, U : EventsOf(S \cup U) = EventsOf(S) \cup EventsOf(U)
    /\ \A S, U : S \subseteq U => EventsOf(S) \subseteq EventsOf(U)
    /\ \A m : EventsOf({m}) = m.body
BY DEF EventsOf

\* A request that the API accepts puts the agent's batch on the queue.
LEMMA RequestStep ==
    ASSUME PipeInv, NEW f \in Flushers, Request(f)
    PROVE  PipeInv' /\ Road!Next
<1> DEFINE B == Evs(batch[f])
<1>1. PostAccepted(f) \/ AnswerLost(f)
  BY DEF Request
<1>2. /\ delivered' = delivered \cup B /\ lost' = lost \ B
      /\ UNCHANGED <<cache, pending, rows>>
  BY <1>1 DEF PostAccepted, AnswerLost, Accepted, buffer
<1>3. PICK m : /\ queue' = queue \cup {m} /\ m.body = B
               /\ UNCHANGED <<wpc, got, stored>>
  <2> DEFINE x == [id |-> sent + 1, body |-> B]
  <2>1. /\ queue' = queue \cup {x} /\ x.body = B
        /\ UNCHANGED <<wpc, got, stored>>
    BY DEF Request, Api!Enqueue
  <2> HIDE DEF x
  <2> QED BY <2>1
<1>4. Held' = Held
  BY <1>2 DEF Held, Volatile
<1>5. B \subseteq Held \cup delivered \cup lost /\ lost \cap (Held \cup delivered) = {}
  BY DEF PipeInv, IInv, Accounted
<1> HIDE DEF B
<1>6. EventsOf(queue') = EventsOf(queue) \cup B /\ EventsOf(stored') = EventsOf(stored)
  <2>1. EventsOf(queue \cup {m}) = EventsOf(queue) \cup EventsOf({m})
    BY EventsOfFacts
  <2>2. EventsOf({m}) = B
    BY <1>3, EventsOfFacts
  <2> QED BY <1>3, <2>1, <2>2
<1>7. PipeInv'
  <2>1. IInv'
    BY <1>1, AcceptedPreserves DEF PipeInv
  <2>2. delivered' = EventsOf(queue') \cup EventsOf(stored')
    BY <1>2, <1>6 DEF PipeInv
  <2>3. got' \in [Worker -> SUBSET (queue' \cup stored')]
    BY <1>3 DEF PipeInv
  <2> QED BY <1>3, <2>1, <2>2, <2>3 DEF PipeInv
<1>8. Road!Next
  <2> DEFINE S == B \ (Held \cup EventsOf(queue))
  <2>1. S \subseteq EventsOf(stored) \cup lost
    BY <1>5 DEF PipeInv
  <2>2. Held' \cup EventsOf(queue') = (Held \cup EventsOf(queue)) \cup S
    BY <1>4, <1>6
  <2>3. lost' = lost \ S
    BY <1>2, <1>5 DEF PipeInv
  <2> HIDE DEF S
  <2>4. Road!Reappear(S)
    BY <1>6, <2>1, <2>2, <2>3 DEF Road!Reappear
  <2> QED BY <2>1, <2>4 DEF Road!Next
<1> QED BY <1>7, <1>8

\* Every other step of the agent leaves the API alone, and is one of AgentDelivery.
LEMMA AgentMoves ==
    ASSUME AgentStep
    PROVE  Next /\ delivered' = delivered /\ UNCHANGED <<queue, wpc, got, stored>>
<1>1. UNCHANGED <<queue, wpc, got, stored>>
  BY DEF AgentStep, apiVars
<1>2. \/ \E e \in Event : Observe(e)
      \/ PauseTracking \/ SyncTick \/ Prune \/ \E f \in Resumes : Resume(f)
      \/ TimerFires \/ TimerFlush
      \/ \E f \in Flushers : List(f) \/ Return(f) \/ Mark(f) \/ MarkFails(f)
      \/ Crash \/ Shutdown \/ Exit
  BY DEF AgentStep
<1>3. Next
  BY <1>2 DEF Next, FlushStep
<1>4. delivered' = delivered
  BY <1>2 DEF Observe, PauseTracking, SyncTick, Prune, Resume, TimerFires, TimerFlush, List,
              Return, Mark, MarkFails, Crash, Exit, NewProcess, Shutdown
<1> QED BY <1>1, <1>3, <1>4

\* What the agent's stage does without the API, the two stages do together: what
\* the API has accepted is in hand all the same.
LEMMA AgentStepPipes ==
    ASSUME PipeInv, AgentStep
    PROVE  PipeInv' /\ [Road!Next]_(Road!vars)
<1> DEFINE Q == EventsOf(queue)
           D == EventsOf(stored)
<1>1. Next /\ delivered' = delivered /\ UNCHANGED <<queue, wpc, got, stored>>
  BY AgentMoves
<1>2. IInv /\ delivered = Q \cup D /\ IInv'
  BY <1>1, Inductive DEF PipeInv
<1>3. EventsOf(queue') = Q /\ EventsOf(stored') = D
  BY <1>1
<1>4. PipeInv'
  BY <1>1, <1>2, <1>3 DEF PipeInv
<1>5. Stage!Next \/ UNCHANGED <<Held, delivered, lost>>
  BY <1>1, <1>2, StepImplements DEF Stage!vars
<1>6. lost \cap (Held \cup delivered) = {} /\ lost' \cap (Held' \cup delivered') = {}
  BY <1>2 DEF IInv, Accounted
<1> HIDE DEF Q, D
<1>7. ASSUME NEW i \in Event, NEW S \in SUBSET (Held \cup {i}), Stage!Take(i, S)
      PROVE  Road!Next
  <2> DEFINE U == S \ Q
  <2>1. /\ i \notin Held \cup delivered \cup lost /\ Held' = (Held \cup {i}) \ S
        /\ lost' = lost \cup (S \ delivered)
    BY <1>7 DEF Stage!Take, Stage!Forget, Stage!Known
  <2>2. /\ i \in Event \ ((Held \cup Q) \cup D \cup lost)
        /\ U \subseteq (Held \cup Q) \cup {i}
        /\ Held' \cup Q = ((Held \cup Q) \cup {i}) \ U /\ lost' = lost \cup (U \ D)
    BY <1>2, <2>1
  <2> HIDE DEF U
  <2>3. Road!Take(i, U)
    BY <1>3, <2>2 DEF Road!Take, Road!Forget, Road!Known, Q, D
  <2>4. U \in SUBSET ((Held \cup EventsOf(queue)) \cup {i})
    BY <2>2 DEF Q
  <2> QED BY <2>3, <2>4 DEF Road!Next
<1>8. ASSUME NEW S \in SUBSET Held, Stage!Lose(S)
      PROVE  Road!Next
  <2> DEFINE U == S \ Q
  <2>1. Held' = Held \ S /\ lost' = lost \cup (S \ delivered)
    BY <1>8 DEF Stage!Lose, Stage!Forget
  <2>2. /\ U \subseteq Held \cup Q /\ Held' \cup Q = (Held \cup Q) \ U
        /\ lost' = lost \cup (U \ D)
    BY <1>2, <2>1
  <2> HIDE DEF U
  <2>3. Road!Lose(U)
    BY <1>3, <2>2 DEF Road!Lose, Road!Forget, Q, D
  <2>4. U \in SUBSET (Held \cup EventsOf(queue))
    BY <2>2 DEF Q
  <2> QED BY <2>3, <2>4 DEF Road!Next
<1>9. ASSUME NEW S \in SUBSET Held, Stage!Finish(S)
      PROVE  Road!Next
  <2> DEFINE U == S \ Q
  <2>1. S \subseteq delivered /\ Held' = Held \ S /\ lost' = lost
    BY <1>9 DEF Stage!Finish
  <2>2. U \subseteq (Held \cup Q) \cap D /\ Held' \cup Q = (Held \cup Q) \ U
    BY <1>2, <2>1
  <2> HIDE DEF U
  <2>3. Road!Finish(U)
    BY <1>3, <2>1, <2>2 DEF Road!Finish, Q, D
  <2>4. U \in SUBSET (Held \cup EventsOf(queue))
    BY <2>2 DEF Q
  <2> QED BY <2>3, <2>4 DEF Road!Next
<1>10. ASSUME NEW S \in SUBSET (delivered \cup lost), Stage!Reappear(S)
       PROVE  Road!Next
  <2> DEFINE U == S \ Q
  <2>1. Held' = Held \cup S /\ lost' = lost \ S
    BY <1>10 DEF Stage!Reappear
  <2>2. /\ U \subseteq D \cup lost /\ Held' \cup Q = (Held \cup Q) \cup U /\ lost' = lost \ U
    BY <1>2, <1>6, <2>1
  <2> HIDE DEF U
  <2>3. Road!Reappear(U)
    BY <1>3, <2>2 DEF Road!Reappear, Q, D
  <2>4. U \in SUBSET (EventsOf(stored) \cup lost)
    BY <2>2 DEF D
  <2> QED BY <2>3, <2>4 DEF Road!Next
<1>11. ASSUME NEW S \in SUBSET Stage!Known, Stage!Deliver(S)
       PROVE  UNCHANGED <<Held, delivered, lost>>
  BY <1>1, <1>6, <1>11 DEF Stage!Deliver
<1>12. ASSUME UNCHANGED <<Held, delivered, lost>>
       PROVE  UNCHANGED Road!vars
  BY <1>1, <1>12 DEF Road!vars
<1> QED BY <1>4, <1>5, <1>7, <1>8, <1>9, <1>10, <1>11, <1>12 DEF Stage!Next

\* A worker stores what it read, deletes what it stored, or leaves it alone.
LEMMA WorkerMoves ==
    ASSUME PipeInv, NEW w \in Worker,
           Api!WorkerStep(w) \/ Api!ReadNothing(w) \/ Api!Stop(w)
    PROVE  /\ wpc' \in [Worker -> {"idle", "save", "delete"}]
           /\ got' \in [Worker -> SUBSET (queue' \cup stored')]
           /\ \A v \in Worker : wpc'[v] = "delete" => got'[v] \subseteq stored'
           /\ \/ queue' = queue /\ stored' = stored
              \/ queue' = queue /\ stored' = stored \cup got[w]
              \/ queue' = queue \ got[w] /\ stored' = stored /\ got[w] \subseteq stored
<1> USE DEF PipeInv
<1>1. CASE Api!Read(w)
  <2> DEFINE B == Api!Oldest(Api!Readable)
  <2>1. /\ UNCHANGED <<queue, stored>>
        /\ got' = [got EXCEPT ![w] = B] /\ wpc' = [wpc EXCEPT ![w] = "save"]
    BY <1>1 DEF Api!Read
  <2>2. B \subseteq queue
    BY DEF Api!Oldest, Api!Readable
  <2> HIDE DEF B
  <2> QED BY <2>1, <2>2
<1>2. CASE Api!Save(w)
  <2>1. /\ queue' = queue /\ stored' = stored \cup got[w]
        /\ got' = got /\ wpc' = [wpc EXCEPT ![w] = "delete"]
    BY <1>2 DEF Api!Save, Api!Inserted
  <2>2. got' \in [Worker -> SUBSET (queue' \cup stored')]
    BY <2>1
  <2> QED BY <2>1, <2>2
<1>3. CASE Api!SaveUnsure(w)
  <2>1. /\ queue' = queue /\ stored' = stored \cup got[w]
        /\ got' = [got EXCEPT ![w] = {}] /\ wpc' = [wpc EXCEPT ![w] = "idle"]
    BY <1>3 DEF Api!SaveUnsure, Api!Inserted, Api!Finished
  <2>2. got' \in [Worker -> SUBSET (queue' \cup stored')]
    BY <2>1
  <2> QED BY <2>1, <2>2
<1>4. CASE Api!Fail(w) \/ Api!Stop(w)
  <2>1. /\ UNCHANGED <<queue, stored>>
        /\ got' = [got EXCEPT ![w] = {}] /\ wpc' = [wpc EXCEPT ![w] = "idle"]
    BY <1>4 DEF Api!Fail, Api!Stop, Api!Finished
  <2> QED BY <2>1
<1>5. CASE Api!Delete(w)
  <2>1. /\ queue' = queue \ got[w] /\ stored' = stored /\ got[w] \subseteq stored
        /\ got' = [got EXCEPT ![w] = {}] /\ wpc' = [wpc EXCEPT ![w] = "idle"]
    BY <1>5 DEF Api!Delete, Api!Finished
  <2>2. got' \in [Worker -> SUBSET (queue' \cup stored')]
    BY <2>1
  <2> QED BY <2>1, <2>2
<1>6. CASE Api!ReadNothing(w)
  <2>1. UNCHANGED <<queue, stored, got, wpc>>
    BY <1>6 DEF Api!ReadNothing, Api!vars
  <2> QED BY <2>1
<1> QED BY <1>1, <1>2, <1>3, <1>4, <1>5, <1>6 DEF Api!WorkerStep

\* In the API an insert hands events on and a delete forgets only such events.
LEMMA ApiStepPipes ==
    ASSUME PipeInv, ApiStep
    PROVE  PipeInv' /\ [Road!Next]_(Road!vars)
<1> DEFINE Q == EventsOf(queue)
           D == EventsOf(stored)
<1>1. UNCHANGED vars
  BY DEF ApiStep
<1>2. IInv' /\ Held' = Held /\ UNCHANGED <<delivered, lost>>
  BY <1>1, Inductive DEF PipeInv, vars, buffer, Held, Volatile
<1>3. lost \cap (Q \cup D) = {}
  BY DEF PipeInv, IInv, Accounted
<1>4. CASE \E m \in hidden : Api!VisibleAgain(m)
  <2>1. UNCHANGED <<queue, stored, got, wpc>>
    BY <1>4 DEF Api!VisibleAgain
  <2>2. Q' = Q /\ D' = D
    BY <2>1
  <2> HIDE DEF Q, D
  <2>3. UNCHANGED Road!vars
    BY <1>2, <2>2 DEF Road!vars, Q, D
  <2>4. PipeInv'
    BY <1>2, <2>1, <2>2 DEF PipeInv, Q, D
  <2> QED BY <2>3, <2>4
<1>5. ASSUME NEW w \in Worker,
             Api!WorkerStep(w) \/ Api!ReadNothing(w) \/ Api!Stop(w)
      PROVE  PipeInv' /\ [Road!Next]_(Road!vars)
  <2> DEFINE G == EventsOf(got[w])
  <2>1. /\ wpc' \in [Worker -> {"idle", "save", "delete"}]
        /\ got' \in [Worker -> SUBSET (queue' \cup stored')]
        /\ \A v \in Worker : wpc'[v] = "delete" => got'[v] \subseteq stored'
        /\ \/ queue' = queue /\ stored' = stored
           \/ queue' = queue /\ stored' = stored \cup got[w]
           \/ queue' = queue \ got[w] /\ stored' = stored /\ got[w] \subseteq stored
    BY <1>5, WorkerMoves
  <2>2. got[w] \subseteq queue \cup stored
    BY DEF PipeInv
  <2>3. G \subseteq Q \cup D
    BY <2>2, EventsOfFacts
  <2>4. ASSUME Q' \cup D' = Q \cup D PROVE PipeInv'
    BY <1>2, <2>1, <2>4 DEF PipeInv
  <2>5. CASE queue' = queue /\ stored' = stored
    <3>1. Q' = Q /\ D' = D
      BY <2>5
    <3> HIDE DEF Q, D
    <3>2. UNCHANGED Road!vars
      BY <1>2, <3>1 DEF Road!vars, Q, D
    <3> QED BY <2>4, <3>1, <3>2
  <2>6. CASE queue' = queue /\ stored' = stored \cup got[w]
    <3>1. Q' = Q /\ D' = D \cup G
      BY <2>6, EventsOfFacts
    <3> HIDE DEF Q, D, G
    <3>2. lost' = lost \ G
      BY <1>2, <1>3, <2>3
    <3>3. Road!Deliver(G)
      BY <1>2, <2>3, <3>1, <3>2 DEF Road!Deliver, Road!Known, Q, D
    <3>4. Road!Next
      BY <3>3 DEF Road!Next, Road!Deliver
    <3> QED BY <2>3, <2>4, <3>1, <3>4
  <2>7. CASE queue' = queue \ got[w] /\ stored' = stored /\ got[w] \subseteq stored
    <3>1. D' = D /\ Q' \subseteq Q /\ Q \subseteq Q' \cup G /\ G \subseteq D
      <4>1. queue \subseteq queue' \cup got[w] /\ queue' \subseteq queue
        BY <2>7
      <4>2. EventsOf(queue) \subseteq EventsOf(queue' \cup got[w])
        BY <4>1, EventsOfFacts
      <4>3. EventsOf(queue') \subseteq EventsOf(queue)
        BY <4>1, EventsOfFacts
      <4>4. EventsOf(got[w]) \subseteq EventsOf(stored)
        BY <2>7, EventsOfFacts
      <4>5. EventsOf(queue' \cup got[w]) = EventsOf(queue') \cup EventsOf(got[w])
        BY EventsOfFacts
      <4>6. EventsOf(stored') = EventsOf(stored)
        BY <2>7
      <4> QED BY <4>2, <4>3, <4>4, <4>5, <4>6
    <3> HIDE DEF Q, D, G
    <3> DEFINE S == (Held \cup Q) \ (Held \cup Q')
    <3>2. S \subseteq (Held \cup Q) \cap D /\ Held \cup Q' = (Held \cup Q) \ S
      BY <3>1
    <3> HIDE DEF S
    <3>3. Road!Finish(S)
      BY <1>2, <3>1, <3>2 DEF Road!Finish, Q, D
    <3>4. Road!Next
      BY <3>3 DEF Road!Next, Road!Finish
    <3> QED BY <2>4, <3>1, <3>4
  <2> QED BY <2>1, <2>5, <2>6, <2>7
<1> QED BY <1>4, <1>5 DEF ApiStep

LEMMA PipeBegins == PipelineInit => PipeInv /\ Road!Init
<1> SUFFICES ASSUME PipelineInit PROVE PipeInv /\ Road!Init
  OBVIOUS
<1>1. Init
  BY DEF PipelineInit
<1>2. IInv /\ Held = {} /\ delivered = {} /\ lost = {}
  BY <1>1, InitEstablishes DEF Init, Held, Volatile, ToSet, Evs
<1>3. /\ queue = {} /\ stored = {} /\ got = [w \in Worker |-> {}]
      /\ wpc = [w \in Worker |-> "idle"]
  BY DEF PipelineInit, Api!Init
<1>4. PipeInv
  BY <1>1, <1>2, <1>3, EventsOfFacts DEF PipeInv, Init
<1>5. Road!Init
  BY <1>2, <1>3, EventsOfFacts DEF Road!Init
<1> QED BY <1>4, <1>5

LEMMA PipeStep ==
    PipeInv /\ [PipelineNext]_pipelineVars => PipeInv' /\ [Road!Next]_(Road!vars)
<1> SUFFICES ASSUME PipeInv, [PipelineNext]_pipelineVars
             PROVE  PipeInv' /\ [Road!Next]_(Road!vars)
  OBVIOUS
<1>1. ASSUME NEW f \in Flushers, Request(f)
      PROVE  PipeInv' /\ Road!Next
  BY <1>1, RequestStep
<1>2. CASE AgentStep
  BY <1>2, AgentStepPipes
<1>3. CASE ApiStep
  BY <1>3, ApiStepPipes
<1>4. CASE UNCHANGED pipelineVars
  <2>1. UNCHANGED vars /\ UNCHANGED <<queue, stored, got, wpc>>
    BY <1>4 DEF pipelineVars, apiVars
  <2>2. IInv' /\ Held' = Held /\ UNCHANGED <<delivered, lost>>
    BY <2>1, Inductive DEF PipeInv, vars, buffer, Held, Volatile
  <2>3. EventsOf(queue') = EventsOf(queue) /\ EventsOf(stored') = EventsOf(stored)
    BY <2>1
  <2>4. PipeInv'
    BY <2>1, <2>2, <2>3 DEF PipeInv
  <2>5. UNCHANGED Road!vars
    BY <2>2, <2>3 DEF Road!vars
  <2> QED BY <2>4, <2>5
<1> QED BY <1>1, <1>2, <1>3, <1>4 DEF PipelineNext

\* From the foreground window to the events table: the agent's buffer and the
\* API's queue, joined at the request (uploader.go:88-115,
\* activity-worker.service.ts), are together one at-least-once stage, and what
\* the agent has deleted as sent is on the queue or in the table.
THEOREM PipelineIsAtLeastOnce == PipelineSpec => EndToEndAtLeastOnce
<1>1. PipeInv => SentIsQueuedOrStored
  BY DEF PipeInv, SentIsQueuedOrStored
<1> QED BY <1>1, PipeBegins, PipeStep, PTL DEF PipelineSpec, EndToEndAtLeastOnce, Road!Spec

-----------------------------------------------------------------------------
(* What an at-least-once stage is good for *)

\* The steps of the abstract stage keep its promise; as the buffer's, and as
\* that of the whole road.
LEMMA StagePromise ==
    /\ Stage!Init => Stage!LostIsUndelivered
    /\ Stage!LostIsUndelivered /\ [Stage!Next]_(Stage!vars)
           => Stage!LostIsUndelivered' /\ [Stage!Known \subseteq Stage!Known']_(Stage!vars)
<1>1. Stage!Init => Stage!LostIsUndelivered
  BY DEF Stage!Init, Stage!LostIsUndelivered
<1>2. ASSUME Stage!LostIsUndelivered, Stage!Next
      PROVE  Stage!LostIsUndelivered' /\ Stage!Known \subseteq Stage!Known'
  <2>1. ASSUME NEW i \in Event, NEW S, Stage!Take(i, S)
        PROVE  Stage!LostIsUndelivered' /\ Stage!Known \subseteq Stage!Known'
    BY <1>2, <2>1 DEF Stage!Take, Stage!Forget, Stage!Known, Stage!LostIsUndelivered
  <2>2. ASSUME NEW S, Stage!Deliver(S)
        PROVE  Stage!LostIsUndelivered' /\ Stage!Known \subseteq Stage!Known'
    BY <1>2, <2>2 DEF Stage!Deliver, Stage!Known, Stage!LostIsUndelivered
  <2>3. ASSUME NEW S, Stage!Finish(S) \/ Stage!Lose(S) \/ Stage!Reappear(S)
        PROVE  Stage!LostIsUndelivered' /\ Stage!Known \subseteq Stage!Known'
    BY <1>2, <2>3 DEF Stage!Finish, Stage!Lose, Stage!Reappear, Stage!Forget, Stage!Known,
                      Stage!LostIsUndelivered
  <2>. QED
    BY <1>2, <2>1, <2>2, <2>3 DEF Stage!Next
<1>3. Stage!LostIsUndelivered /\ UNCHANGED Stage!vars => Stage!LostIsUndelivered'
  BY DEF Stage!vars, Stage!LostIsUndelivered
<1>. QED
  BY <1>1, <1>2, <1>3

LEMMA RoadPromise ==
    /\ Road!Init => Road!LostIsUndelivered
    /\ Road!LostIsUndelivered /\ [Road!Next]_(Road!vars)
           => Road!LostIsUndelivered' /\ [Road!Known \subseteq Road!Known']_(Road!vars)
<1>1. Road!Init => Road!LostIsUndelivered
  BY DEF Road!Init, Road!LostIsUndelivered
<1>2. ASSUME Road!LostIsUndelivered, Road!Next
      PROVE  Road!LostIsUndelivered' /\ Road!Known \subseteq Road!Known'
  <2>1. ASSUME NEW i \in Event, NEW S, Road!Take(i, S)
        PROVE  Road!LostIsUndelivered' /\ Road!Known \subseteq Road!Known'
    BY <1>2, <2>1 DEF Road!Take, Road!Forget, Road!Known, Road!LostIsUndelivered
  <2>2. ASSUME NEW S, Road!Deliver(S)
        PROVE  Road!LostIsUndelivered' /\ Road!Known \subseteq Road!Known'
    BY <1>2, <2>2 DEF Road!Deliver, Road!Known, Road!LostIsUndelivered
  <2>3. ASSUME NEW S, Road!Finish(S) \/ Road!Lose(S) \/ Road!Reappear(S)
        PROVE  Road!LostIsUndelivered' /\ Road!Known \subseteq Road!Known'
    BY <1>2, <2>3 DEF Road!Finish, Road!Lose, Road!Reappear, Road!Forget, Road!Known,
                      Road!LostIsUndelivered
  <2>. QED
    BY <1>2, <2>1, <2>2, <2>3 DEF Road!Next
<1>3. Road!LostIsUndelivered /\ UNCHANGED Road!vars => Road!LostIsUndelivered'
  BY DEF Road!vars, Road!LostIsUndelivered
<1>. QED
  BY <1>1, <1>2, <1>3

\* What the agent has observed never disappears unaccounted for, and what it
\* counts as lost is neither in the buffer nor accepted by the API.
THEOREM BufferKeepsItsPromise ==
    Spec => Stage!NothingVanishes /\ []Stage!LostIsUndelivered
BY AgentIsAtLeastOnce, StagePromise, PTL
   DEF IsAtLeastOnce, Stage!Spec, Stage!NothingVanishes

\* The same of the road: an event is held by the buffer or the queue, in the
\* events table, or counted as lost, and then it is nowhere else.
THEOREM PipelineKeepsItsPromise ==
    PipelineSpec => Road!NothingVanishes /\ []Road!LostIsUndelivered
BY PipelineIsAtLeastOnce, RoadPromise, PTL
   DEF EndToEndAtLeastOnce, Road!Spec, Road!NothingVanishes
=============================================================================
