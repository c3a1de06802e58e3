------------------------- MODULE IngestQueueProofs -------------------------
(***************************************************************************)
(* Theorems about IngestQueue, for any number of API replicas, messages    *)
(* and events: acknowledged messages are never lost, and work is done      *)
(* twice only after a visibility timeout.                                  *)
(***************************************************************************)
EXTENDS IngestQueue, TLAPS

USE QueueAssumption DEF QueueAssumption

-----------------------------------------------------------------------------
(* The inductive invariant *)

\* pgmq has given out the ids up to `sent', each to one message.
Sent ==
    /\ \A m \in queue \cup stored : m.id <= sent
    /\ \A w \in Worker : \A m \in got[w] : m.id <= sent

\* A message a worker holds is still queued, or some worker has stored it; one
\* that is about to be deleted has been stored.
HeldIsSafe ==
    /\ \A w \in Worker : got[w] \subseteq queue \cup stored
    /\ \A w \in Worker : wpc[w] = "delete" => got[w] \subseteq stored

\* A visible message that is in some worker's hands, or stored, has timed out;
\* so has one that is stored and about to be stored again.
VisibleHasExpired ==
    /\ \A w \in Worker : got[w] \cap (queue \ hidden) \subseteq expired
    /\ stored \cap (queue \ hidden) \subseteq expired
    /\ \A w \in Worker : wpc[w] = "save" => got[w] \cap stored \subseteq expired

IInv == TypeOK /\ Sent /\ HeldIsSafe /\ VisibleHasExpired /\ SharedOnlyAfterTimeout

-----------------------------------------------------------------------------
LEMMA InitEstablishes == Init => IInv
<1> SUFFICES ASSUME Init PROVE IInv
  OBVIOUS
<1>1. sent \in 0 .. MaxSent
  BY DEF Init
<1>2. TypeOK
  BY <1>1 DEF Init, TypeOK
<1> QED BY <1>2 DEF Init, IInv, Sent, HeldIsSafe, VisibleHasExpired,
                    SharedOnlyAfterTimeout

LEMMA EnqueuePreserves ==
    ASSUME IInv, NEW b \in Body, Enqueue(b)
    PROVE  /\ IInv'
           /\ \E m \in Message : m \notin queue \cup stored /\ queue' = queue \cup {m}
<1> USE DEF IInv
<1> DEFINE m == [id |-> sent + 1, body |-> b]
<1>1. /\ sent < MaxSent /\ sent' = sent + 1 /\ queue' = queue \cup {m}
      /\ UNCHANGED <<hidden, wpc, got, stored, again, expired>>
  BY DEF Enqueue
<1>2. sent \in Nat /\ m \in Message /\ m.id = sent + 1
  BY <1>1 DEF TypeOK, Message
<1> HIDE DEF m
<1>3. \A n \in Message : n.id \in Nat
  BY DEF Message
<1>4. m \notin queue \cup stored /\ \A w \in Worker : m \notin got[w]
  BY <1>2 DEF Sent
<1>5. TypeOK'
  BY <1>1, <1>2 DEF TypeOK
<1>6. Sent'
  BY <1>1, <1>2, <1>3 DEF Sent, TypeOK
<1>7. HeldIsSafe' /\ VisibleHasExpired' /\ SharedOnlyAfterTimeout'
  BY <1>1, <1>4 DEF HeldIsSafe, VisibleHasExpired, SharedOnlyAfterTimeout
<1> QED BY <1>1, <1>2, <1>4, <1>5, <1>6, <1>7

LEMMA ReadPreserves ==
    ASSUME IInv, NEW w \in Worker, Read(w)
    PROVE  IInv'
<1> USE DEF IInv
<1> DEFINE B == Oldest(Readable)
<1>1. /\ wpc[w] = "idle" /\ hidden' = hidden \cup B
      /\ got' = [got EXCEPT ![w] = B] /\ wpc' = [wpc EXCEPT ![w] = "save"]
      /\ UNCHANGED <<queue, sent, stored, again, expired>>
  BY DEF Read
<1>2. B \subseteq queue \ hidden
  BY DEF Oldest, Readable
<1> HIDE DEF B
<1>3. /\ \A v \in Worker : got'[v] = IF v = w THEN B ELSE got[v]
      /\ \A v \in Worker : wpc'[v] = IF v = w THEN "save" ELSE wpc[v]
  BY <1>1 DEF TypeOK
<1>4. TypeOK'
  BY <1>1, <1>2 DEF TypeOK
<1>5. Sent' /\ HeldIsSafe'
  BY <1>1, <1>2, <1>3 DEF Sent, HeldIsSafe
<1>6. VisibleHasExpired'
  BY <1>1, <1>2, <1>3 DEF VisibleHasExpired
<1>7. SharedOnlyAfterTimeout'
  BY <1>1, <1>2, <1>3 DEF SharedOnlyAfterTimeout, VisibleHasExpired
<1> QED BY <1>4, <1>5, <1>6, <1>7

LEMMA InsertPreserves ==
    ASSUME IInv, NEW w \in Worker, Save(w) \/ SaveUnsure(w)
    PROVE  IInv'
<1> USE DEF IInv
<1>1. /\ wpc[w] = "save"
      /\ stored' = stored \cup got[w] /\ again' = again \cup (got[w] \cap stored)
      /\ UNCHANGED <<queue, hidden, sent, expired>>
  BY DEF Save, SaveUnsure, Inserted
<1>2. /\ \A v \in Worker : got'[v] = got[v] \/ (v = w /\ got'[v] = {})
      /\ \A v \in Worker : v # w => wpc'[v] = wpc[v]
      /\ wpc'[w] # "save"
      /\ wpc' \in [Worker -> {"idle", "save", "delete"}]
      /\ got' \in [Worker -> SUBSET Message]
      /\ wpc'[w] = "delete" => got'[w] = got[w]
  BY DEF Save, SaveUnsure, Finished, TypeOK
<1>3. TypeOK'
  <2>1. got[w] \subseteq Message
    BY DEF TypeOK
  <2>2. stored' \subseteq Message /\ again' \subseteq stored'
    BY <2>1, <1>1 DEF TypeOK
  <2> QED BY <2>2, <1>1, <1>2 DEF TypeOK
<1>4. Sent' /\ HeldIsSafe'
  BY <1>1, <1>2 DEF Sent, HeldIsSafe
<1>5. VisibleHasExpired'
  <2>1. \A v \in Worker : got'[v] \cap (queue' \ hidden') \subseteq expired'
    BY <1>1, <1>2 DEF VisibleHasExpired
  <2>2. stored' \cap (queue' \ hidden') \subseteq expired'
    BY <1>1 DEF VisibleHasExpired
  <2>3. ASSUME NEW v \in Worker, wpc'[v] = "save"
        PROVE  got'[v] \cap stored' \subseteq expired'
    BY <2>3, <1>1, <1>2 DEF VisibleHasExpired, SharedOnlyAfterTimeout
  <2> QED BY <2>1, <2>2, <2>3 DEF VisibleHasExpired
<1>6. SharedOnlyAfterTimeout'
  BY <1>1, <1>2 DEF SharedOnlyAfterTimeout, VisibleHasExpired
<1> QED BY <1>3, <1>4, <1>5, <1>6

LEMMA GiveUpPreserves ==
    ASSUME IInv, NEW w \in Worker, Fail(w) \/ Stop(w)
    PROVE  IInv'
<1> USE DEF IInv
<1>1. UNCHANGED <<queue, hidden, sent, stored, again, expired>>
  BY DEF Fail, Stop
<1>2. /\ \A v \in Worker : got'[v] = IF v = w THEN {} ELSE got[v]
      /\ \A v \in Worker : wpc'[v] = IF v = w THEN "idle" ELSE wpc[v]
      /\ wpc' \in [Worker -> {"idle", "save", "delete"}]
      /\ got' \in [Worker -> SUBSET Message]
  BY DEF Fail, Stop, Finished, TypeOK
<1>3. TypeOK'
  BY <1>1, <1>2 DEF TypeOK
<1> QED BY <1>1, <1>2, <1>3 DEF Sent, HeldIsSafe, VisibleHasExpired, SharedOnlyAfterTimeout

LEMMA DeletePreserves ==
    ASSUME IInv, NEW w \in Worker, Delete(w)
    PROVE  /\ IInv'
           /\ got[w] \subseteq stored /\ queue' = queue \ got[w] /\ stored' = stored
<1> USE DEF IInv
<1>1. /\ wpc[w] = "delete" /\ queue' = queue \ got[w] /\ hidden' = hidden \ got[w]
      /\ UNCHANGED <<sent, stored, again, expired>>
  BY DEF Delete
<1>2. got[w] \subseteq stored
  BY <1>1 DEF HeldIsSafe
<1>3. /\ \A v \in Worker : got'[v] = IF v = w THEN {} ELSE got[v]
      /\ \A v \in Worker : wpc'[v] = IF v = w THEN "idle" ELSE wpc[v]
      /\ wpc' \in [Worker -> {"idle", "save", "delete"}]
      /\ got' \in [Worker -> SUBSET Message]
  BY DEF Delete, Finished, TypeOK
<1>4. TypeOK'
  BY <1>1, <1>3 DEF TypeOK
<1>5. Sent' /\ HeldIsSafe'
  BY <1>1, <1>2, <1>3 DEF Sent, HeldIsSafe
<1>6. VisibleHasExpired' /\ SharedOnlyAfterTimeout'
  BY <1>1, <1>3 DEF VisibleHasExpired, SharedOnlyAfterTimeout
<1> QED BY <1>1, <1>2, <1>4, <1>5, <1>6

LEMMA VisibleAgainPreserves ==
    ASSUME IInv, NEW m \in hidden, VisibleAgain(m)
    PROVE  IInv'
<1> USE DEF IInv
<1>1. /\ hidden' = hidden \ {m} /\ expired' = expired \cup {m} /\ m \in Message
      /\ UNCHANGED <<queue, sent, wpc, got, stored, again>>
  BY DEF VisibleAgain, TypeOK
<1>2. TypeOK' /\ Sent' /\ HeldIsSafe'
  BY <1>1 DEF TypeOK, Sent, HeldIsSafe
<1>3. VisibleHasExpired' /\ SharedOnlyAfterTimeout'
  BY <1>1 DEF VisibleHasExpired, SharedOnlyAfterTimeout
<1> QED BY <1>2, <1>3

THEOREM Inductive == IInv /\ [Next]_vars => IInv'
<1> SUFFICES ASSUME IInv, [Next]_vars PROVE IInv'
  OBVIOUS
<1>1. CASE \E b \in Body : Enqueue(b)
  BY <1>1, EnqueuePreserves
<1>2. ASSUME NEW w \in Worker, WorkerStep(w) \/ Stop(w) PROVE IInv'
  BY <1>2, ReadPreserves, InsertPreserves, GiveUpPreserves, DeletePreserves DEF WorkerStep
<1>3. ASSUME NEW m \in hidden, VisibleAgain(m) PROVE IInv'
  BY <1>3, VisibleAgainPreserves
<1>4. CASE UNCHANGED vars
  BY <1>4 DEF vars, IInv, TypeOK, Sent, HeldIsSafe, VisibleHasExpired, SharedOnlyAfterTimeout
<1> QED BY <1>1, <1>2, <1>3, <1>4 DEF Next, ReadNothing

\* The inductive invariant holds (activity-worker.service.ts:65-122).
THEOREM QueueInvariant == Spec => []IInv
<1> QED BY InitEstablishes, Inductive, PTL DEF Spec

\* Two replicas work on a message, or store it twice, only after its visibility
\* timeout was over (activity-queue.service.ts:54-58).
THEOREM WorkedTwiceOnlyAfterTimeout == Spec => [](TypeOK /\ SharedOnlyAfterTimeout)
<1>1. IInv => TypeOK /\ SharedOnlyAfterTimeout
  BY DEF IInv
<1> QED BY <1>1, QueueInvariant, PTL

LEMMA StepImplements == IInv /\ [Next]_vars => [Stage!Next]_(Stage!vars)
<1> SUFFICES ASSUME IInv, [Next]_vars
             PROVE  Stage!Next \/ UNCHANGED <<queue, stored, {}>>
  BY DEF Stage!vars
<1>1. CASE \E b \in Body : Enqueue(b)
  <2>1. PICK m \in Message : m \notin queue \cup stored /\ queue' = queue \cup {m}
    BY <1>1, EnqueuePreserves
  <2>2. stored' = stored
    BY <1>1 DEF Enqueue
  <2>3. Stage!Take(m, {})
    BY <2>1, <2>2 DEF Stage!Take, Stage!Forget, Stage!Known
  <2> QED BY <2>3 DEF Stage!Next
<1>2. ASSUME NEW w \in Worker, Save(w) \/ SaveUnsure(w) PROVE Stage!Next
  <2>1. stored' = stored \cup got[w] /\ queue' = queue
    BY <1>2 DEF Save, SaveUnsure, Inserted
  <2>2. got[w] \subseteq queue \cup stored
    BY DEF IInv, HeldIsSafe
  <2>3. Stage!Deliver(got[w]) /\ got[w] \in SUBSET Stage!Known
    BY <2>1, <2>2 DEF Stage!Deliver, Stage!Known
  <2> QED BY <2>3 DEF Stage!Next
<1>3. ASSUME NEW w \in Worker, Delete(w) PROVE Stage!Next
  <2>1. got[w] \subseteq stored /\ queue' = queue \ got[w] /\ stored' = stored
    BY <1>3, DeletePreserves
  <2>2. Stage!Finish(queue \cap got[w]) /\ queue \cap got[w] \in SUBSET queue
    BY <2>1 DEF Stage!Finish
  <2> QED BY <2>2 DEF Stage!Next
<1>4. ASSUME NEW w \in Worker, Read(w) \/ Fail(w) \/ Stop(w) PROVE UNCHANGED <<queue, stored>>
  BY <1>4 DEF Read, Fail, Stop
<1>5. ASSUME NEW m \in hidden, VisibleAgain(m) PROVE UNCHANGED <<queue, stored>>
  BY <1>5 DEF VisibleAgain
<1>6. CASE UNCHANGED vars
  BY <1>6 DEF vars
<1> QED BY <1>1, <1>2, <1>3, <1>4, <1>5, <1>6 DEF Next, WorkerStep, ReadNothing

\* What the queue acknowledged is queued or stored, whatever fails in between
\* (activity-queue.service.ts:68-71).
THEOREM QueueIsAtLeastOnce == Spec => NeverLosesAMessage
<1>1. Init => Stage!Init
  BY DEF Init, Stage!Init
<1> QED BY <1>1, StepImplements, QueueInvariant, PTL DEF Spec, NeverLosesAMessage, Stage!Spec

=============================================================================
