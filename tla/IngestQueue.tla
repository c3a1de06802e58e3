---------------------------- MODULE IngestQueue ----------------------------
(***************************************************************************)
(* The API's ingest path behind POST /agent/sync/activity (and, with the   *)
(* same code, /metrics and /keystrokes): the request is put on a pgmq      *)
(* queue and acknowledged; in every API replica a cron job reads a batch   *)
(* of messages, inserts all their events in one transaction and deletes    *)
(* the messages (activity-queue.service.ts, activity-worker.service.ts).   *)
(* A message that was read is hidden from other readers until its          *)
(* visibility timeout is over, whether or not its reader still works on it.*)
(***************************************************************************)
EXTENDS Naturals, FiniteSets

CONSTANTS
    Body,      \* what a message may hold: the events of one request
    Worker,    \* the API replicas; each runs one worker service
    ReadLimit, \* BATCH_SIZE (200)
    MaxSent    \* bound: messages sent in one behaviour

ASSUME QueueAssumption == ReadLimit \in Nat \ {0} /\ MaxSent \in Nat

VARIABLES
    queue,    \* the messages in the pgmq table, [id, body]
    hidden,   \* those whose visibility timeout is still to come
    sent,     \* number of messages sent; the msg_id of the last one
    wpc,      \* each worker: "idle" (flushing = false), "save" or "delete"
    got,      \* the messages it has read
    stored,   \* history: messages whose events are in the events table
    again,    \* history: messages whose events are there more than once
    expired   \* history: messages whose visibility timeout was over before
              \* they were deleted

vars == <<queue, hidden, sent, wpc, got, stored, again, expired>>

Message == [id : 1 .. MaxSent, body : Body]

Init ==
    /\ queue = {} /\ hidden = {} /\ sent = 0
    /\ wpc = [w \in Worker |-> "idle"]
    /\ got = [w \in Worker |-> {}]
    /\ stored = {} /\ again = {} /\ expired = {}

\* pgmq.send; the agent is answered when it is committed.
Enqueue(b) ==
    /\ sent < MaxSent
    /\ sent' = sent + 1
    /\ queue' = queue \cup {[id |-> sent + 1, body |-> b]}
    /\ UNCHANGED <<hidden, wpc, got, stored, again, expired>>

MutReadable == queue         \* a read that does not look at vt

Readable == queue \ hidden

\* pgmq.read: the oldest visible messages, up to the limit.
Oldest(S) == {m \in S : Cardinality({n \in S : n.id < m.id}) < ReadLimit}

\* drain, up to the read; with nothing to read it returns at once.  The flag
\* `flushing' keeps the next tick of the same replica out.
Read(w) ==
    /\ wpc[w] = "idle"
    /\ Readable # {}
    /\ got' = [got EXCEPT ![w] = Oldest(Readable)]
    /\ hidden' = hidden \cup Oldest(Readable)
    /\ wpc' = [wpc EXCEPT ![w] = "save"]
    /\ UNCHANGED <<queue, sent, stored, again, expired>>

\* drain's early return: nothing visible.
ReadNothing(w) == wpc[w] = "idle" /\ Readable = {} /\ UNCHANGED vars

Inserted(w) ==
    /\ wpc[w] = "save"
    /\ stored' = stored \cup got[w]
    /\ again' = again \cup (got[w] \cap stored)
    /\ UNCHANGED <<queue, hidden, sent, expired>>

Finished(w) ==
    /\ wpc' = [wpc EXCEPT ![w] = "idle"]
    /\ got' = [got EXCEPT ![w] = {}]

MutSave(w) == Inserted(w) /\ Finished(w)   \* saved and never deleted

\* activityRepo.save: one transaction for the whole batch.
Save(w) == Inserted(w) /\ wpc' = [wpc EXCEPT ![w] = "delete"] /\ UNCHANGED got

\* The insert was committed and the answer of the database lost.
SaveUnsure(w) == Inserted(w) /\ Finished(w)

MutFail(w) ==                \* the messages are deleted in the catch block too
    /\ wpc[w] # "idle"
    /\ queue' = queue \ got[w]
    /\ hidden' = hidden \ got[w]
    /\ Finished(w)
    /\ UNCHANGED <<sent, stored, again, expired>>

\* save or deleteMany throws: the messages are left to their timeout.
Fail(w) ==
    /\ wpc[w] # "idle"
    /\ Finished(w)
    /\ UNCHANGED <<queue, hidden, sent, stored, again, expired>>

MutDelete(w) ==              \* deleted before, or although not, saved
    /\ wpc[w] # "idle"
    /\ queue' = queue \ got[w]
    /\ hidden' = hidden \ got[w]
    /\ Finished(w)
    /\ UNCHANGED <<sent, stored, again, expired>>

\* deleteMany: by msg_id, whoever holds the message by now.
Delete(w) ==
    /\ wpc[w] = "delete"
    /\ queue' = queue \ got[w]
    /\ hidden' = hidden \ got[w]
    /\ Finished(w)
    /\ UNCHANGED <<sent, stored, again, expired>>

\* The visibility timeout (30 s) is over: the reader failed, died, or is slow.
VisibleAgain(m) ==
    /\ m \in hidden
    /\ hidden' = hidden \ {m}
    /\ expired' = expired \cup {m}
    /\ UNCHANGED <<queue, sent, wpc, got, stored, again>>

\* The replica dies, or is shut down: onModuleDestroy waits for a last drain,
\* if none is under way, and for 5 s at most.
Stop(w) ==
    /\ wpc[w] # "idle"
    /\ Finished(w)
    /\ UNCHANGED <<queue, hidden, sent, stored, again, expired>>

WorkerStep(w) == Read(w) \/ Save(w) \/ SaveUnsure(w) \/ Fail(w) \/ Delete(w)

Next ==
    \/ \E b \in Body : Enqueue(b)
    \/ \E w \in Worker : WorkerStep(w) \/ ReadNothing(w) \/ Stop(w)
    \/ \E m \in hidden : VisibleAgain(m)

Spec == Init /\ [][Next]_vars

\* The cron job runs in every replica (WF), timeouts pass (WF), and an insert
\* and a delete succeed sooner or later (SF, an assumption about Postgres and
\* about the replicas staying up long enough now and then).
Fairness ==
    /\ \A w \in Worker : /\ WF_vars(WorkerStep(w))
                         /\ SF_vars(Read(w))
                         /\ SF_vars(Save(w))
                         /\ SF_vars(Delete(w))
    /\ \A m \in Message : WF_vars(VisibleAgain(m))

FairSpec == Spec /\ Fairness

-----------------------------------------------------------------------------
(* Properties *)

TypeOK ==
    /\ queue \subseteq Message
    /\ hidden \subseteq queue
    /\ sent \in 0 .. MaxSent
    /\ wpc \in [Worker -> {"idle", "save", "delete"}]
    /\ got \in [Worker -> SUBSET Message]
    /\ stored \subseteq Message /\ again \subseteq stored
    /\ expired \subseteq Message

\* Two replicas work on the same message, or its events are stored twice, only
\* after its visibility timeout was over while it was still in the queue
\* ("without a second worker grabbing the same batch",
\* activity-queue.service.ts:54-58).
SharedOnlyAfterTimeout ==
    /\ \A v, w \in Worker : v # w => got[v] \cap got[w] \subseteq expired
    /\ again \subseteq expired

\* "a worker crash before delete causes a retry, never data loss"
\* (activity-queue.service.ts:68-71): the queue is an at-least-once stage that
\* never loses anything.
Stage == INSTANCE AtLeastOnce
            WITH Item <- Message, held <- queue, delivered <- stored, lost <- {}
NeverLosesAMessage == Stage!Spec

\* What was acknowledged to an agent is in the events table sooner or later,
\* through failing inserts, dying replicas and expired timeouts.
AcknowledgedIsStored ==
    \A m \in Message : m \in queue ~> m \in stored

\* ... and then leaves the queue.
StoredLeavesQueue == \A m \in Message : m \in stored ~> m \notin queue
=============================================================================
