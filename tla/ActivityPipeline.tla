-------------------------- MODULE ActivityPipeline --------------------------
(***************************************************************************)
(* The agent's buffer (AgentDelivery) with the API's ingest queue behind   *)
(* it, joined at the request POST /agent/sync/activity: a batch the        *)
(* agent's post delivers is one message on the queue                       *)
(* (AgentService.saveActivities), whether or not the answer reaches the    *)
(* agent.                                                                  *)
(***************************************************************************)
EXTENDS AgentDelivery

CONSTANTS Worker, ReadLimit, MaxSent

VARIABLES queue, hidden, sent, wpc, got, stored, again, expired

Api == INSTANCE IngestQueue WITH Body <- SUBSET Event

apiVars      == <<queue, hidden, sent, wpc, got, stored, again, expired>>
pipelineVars == <<vars, apiVars>>

PipelineInit == Init /\ Api!Init

\* saveActivities: the request's events, as one message.
Request(f) ==
    /\ PostAccepted(f) \/ AnswerLost(f)
    /\ Api!Enqueue(Evs(batch[f]))

AgentStep ==
    /\ \/ \E e \in Event : Observe(e)
       \/ PauseTracking \/ SyncTick \/ Prune
       \/ \E f \in Resumes : Resume(f)
       \/ TimerFires \/ TimerFlush
       \/ \E f \in Flushers : List(f) \/ Return(f) \/ Mark(f) \/ MarkFails(f)
       \/ Crash \/ Shutdown \/ Exit
    /\ UNCHANGED apiVars

ApiStep ==
    /\ \/ \E w \in Worker : Api!WorkerStep(w) \/ Api!ReadNothing(w) \/ Api!Stop(w)
       \/ \E m \in hidden : Api!VisibleAgain(m)
    /\ UNCHANGED vars

PipelineNext == (\E f \in Flushers : Request(f)) \/ AgentStep \/ ApiStep

PipelineSpec == PipelineInit /\ [][PipelineNext]_pipelineVars

-----------------------------------------------------------------------------
(* Properties *)

EventsOf(S) == UNION {m.body : m \in S}

\* What the agent has deleted as sent is on the queue or in the events table:
\* between the agent's DELETE (uploader.go:111) and the worker's
\* (activity-worker.service.ts:106) there is no moment at which neither side
\* has the event.
SentIsQueuedOrStored == delivered \subseteq EventsOf(queue) \cup EventsOf(stored)

\* From the foreground window to the events table nothing disappears unnoticed:
\* the two stages together are an at-least-once stage again (FlushActivity,
\* saveActivities, the worker's drain).
Road == INSTANCE AtLeastOnce
            WITH Item <- Event, held <- Held \cup EventsOf(queue),
                 delivered <- EventsOf(stored)
EndToEndAtLeastOnce == Road!Spec /\ []SentIsQueuedOrStored
=============================================================================
