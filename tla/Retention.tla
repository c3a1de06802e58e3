----------------------------- MODULE Retention ------------------------------
(***************************************************************************)
(* The nightly clean-up of screenshots older than 90 days.  Every replica  *)
(* of the API runs it: it lists a batch of old rows, in no order, and      *)
(* deletes each one's image and then the row; what fails is left for       *)
(* another night.                                                          *)
(***************************************************************************)
EXTENDS Naturals, FiniteSets

CONSTANTS
    Replica,
    Screenshot,  \* the old ones, positive numbers
    Batch,       \* rows listed at once
    MaxNights,   \* bound: runs of each replica
    MaxErrors    \* bound: statements and calls that fail, processes that die

VARIABLES
    backend,   \* where images are: "s3", or "supabase"
    images,    \* images in the store
    shots,     \* rows of the table
    listed,    \* per replica: the rows that are still ahead
    on,        \* per replica: the row it is at, or 0
    imageDone, \* per replica: the call for its image is over
    nights, errors

vars == <<backend, images, shots, listed, on, imageDone, nights, errors>>

Init ==
    /\ backend \in {"s3", "supabase"}
    /\ images = Screenshot /\ shots = Screenshot
    /\ listed = [r \in Replica |-> {}] /\ on = [r \in Replica |-> 0]
    /\ imageDone = [r \in Replica |-> FALSE]
    /\ nights = [r \in Replica |-> 0] /\ errors = 0

\* find with take: 500 and no order.
CleanupOldScreenshots(r) ==
    /\ on[r] = 0 /\ listed[r] = {} /\ nights[r] < MaxNights
    /\ nights' = [nights EXCEPT ![r] = @ + 1]
    /\ \E old \in SUBSET shots :
         /\ Cardinality(old) = IF Cardinality(shots) < Batch THEN Cardinality(shots) ELSE Batch
         /\ listed' = [listed EXCEPT ![r] = old]
    /\ UNCHANGED <<backend, images, shots, on, imageDone, errors>>

\* The loop goes to its next row.
Take(r, s) ==
    /\ on[r] = 0 /\ s \in listed[r]
    /\ on' = [on EXCEPT ![r] = s] /\ imageDone' = [imageDone EXCEPT ![r] = FALSE]
    /\ listed' = [listed EXCEPT ![r] = @ \ {s}]
    /\ UNCHANGED <<backend, images, shots, nights, errors>>

\* deleteS3Object; it does nothing unless S3 is configured.
DeleteS3Object(r) ==
    /\ on[r] # 0 /\ ~imageDone[r]
    /\ images' = IF backend = "s3" THEN images \ {on[r]} ELSE images
    /\ imageDone' = [imageDone EXCEPT ![r] = TRUE]
    /\ UNCHANGED <<backend, shots, listed, on, nights, errors>>

DeleteRow(r) ==
    /\ on[r] # 0 /\ imageDone[r]
    /\ shots' = shots \ {on[r]} /\ on' = [on EXCEPT ![r] = 0]
    /\ UNCHANGED <<backend, images, listed, imageDone, nights, errors>>

MutFails(r) ==               \* an error of the call for the image is swallowed
    /\ on[r] # 0 /\ errors < MaxErrors /\ errors' = errors + 1
    /\ IF imageDone[r] THEN on' = [on EXCEPT ![r] = 0] /\ UNCHANGED imageDone
       ELSE imageDone' = [imageDone EXCEPT ![r] = TRUE] /\ UNCHANGED on
    /\ UNCHANGED <<backend, images, shots, listed, nights>>

\* Either call fails: the error is logged and the row left as it is.
Fails(r) ==
    /\ on[r] # 0 /\ errors < MaxErrors
    /\ errors' = errors + 1 /\ on' = [on EXCEPT ![r] = 0]
    /\ UNCHANGED <<backend, images, shots, listed, imageDone, nights>>

Dies(r) ==
    /\ (on[r] # 0 \/ listed[r] # {}) /\ errors < MaxErrors
    /\ errors' = errors + 1 /\ on' = [on EXCEPT ![r] = 0]
    /\ listed' = [listed EXCEPT ![r] = {}]
    /\ UNCHANGED <<backend, images, shots, imageDone, nights>>

Next ==
    \E r \in Replica :
        \/ CleanupOldScreenshots(r) \/ DeleteS3Object(r) \/ DeleteRow(r) \/ Fails(r) \/ Dies(r)
        \/ \E s \in Screenshot : Take(r, s)

Spec == Init /\ [][Next]_vars

-----------------------------------------------------------------------------
\* No image stays behind without its row, where nobody would find it again,
\* unless images are kept in Supabase, for which the clean-up has no call.
ImagesHaveRows == backend = "s3" => images \subseteq shots

\* A row whose image is gone is about to go, or a later night will take it.
RowsHaveImages ==
    \A s \in shots \ images : errors > 0 \/ \E r \in Replica : on[r] = s /\ imageDone[r]
=============================================================================
