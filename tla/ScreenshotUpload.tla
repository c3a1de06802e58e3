-------------------------- MODULE ScreenshotUpload --------------------------
(***************************************************************************)
(* A screenshot from its capture to the object store and the API's         *)
(* screenshots table: the capture worker (main.go), FlushScreenshots and   *)
(* BurstUploadScreenshot (internal/sync/uploader.go), which may run side   *)
(* by side after a resume, the prune tick with its janitor of stale files, *)
(* and on the API side generateUploadUrl and saveScreenshot                *)
(* (agent.service.ts).                                                     *)
(*                                                                         *)
(* Screenshots are numbered in the order of their capture, which is that   *)
(* of their row ids, since one goroutine captures and inserts.  A storage  *)
(* key is <user>/<time in ms>: a number here, new for a new millisecond.   *)
(***************************************************************************)
EXTENDS Naturals, FiniteSets

CONSTANTS
    Loop,       \* the event loop: sync ticks, live-view bursts, prune ticks
    Resumes,    \* resume goroutines that may be alive at once
    Store,      \* "supabase" or "s3": where generateUploadUrl points
    Limit,      \* screenshots listed per flush (10)
    MaxShots,   \* bound: screenshots taken
    MaxFaults   \* bound: failed requests, writes and listings, crashes

Uploader == {Loop} \cup Resumes
Shot     == 1 .. MaxShots
None     == 0

ASSUME ScreenshotAssumption ==
    /\ Loop \notin Resumes
    /\ Store \in {"supabase", "s3"}
    /\ Limit \in Nat \ {0} /\ MaxShots \in Nat /\ MaxFaults \in Nat

VARIABLES
    shots,      \* how many were taken
    files,      \* those whose jpg is in screenshotsDir
    rows,       \* those with a row in the table screenshots of buffer.db
    capturing,  \* written by the capture worker, not yet inserted
    burst,      \* history: those of a live-view burst, which have no row
    stale,      \* those whose file is older than 7 days
    known,      \* the rows the janitor has listed
    pc, todo, cur, key,   \* each uploader: its place, list, shot and last key
    nextKey,    \* the millisecond of the next upload URL
    objects,    \* the object store: [key, shot]
    saved,      \* the API's table screenshots: [key, shot]
    dropped,    \* history: shots given up by the agent (no row was written,
                \* or the row was pruned)
    swept,      \* history: files of tracked shots the janitor has deleted
    faults

disk  == <<shots, files, rows, capturing, burst, stale>>
agent == <<pc, todo, cur, key, known>>
api   == <<nextKey, objects, saved>>
vars  == <<disk, agent, api, dropped, swept, faults>>

Upload == [key : Nat, shot : Shot]

Init ==
    /\ shots = 0 /\ files = {} /\ rows = {} /\ capturing = None
    /\ burst = {} /\ stale = {} /\ known = {}
    /\ pc = [u \in Uploader |-> "idle"]
    /\ todo = [u \in Uploader |-> {}]
    /\ cur = [u \in Uploader |-> None]
    /\ key = [u \in Uploader |-> 0]
    /\ nextKey = 1 /\ objects = {} /\ saved = {}
    /\ dropped = {} /\ swept = {} /\ faults = 0

Fault == faults < MaxFaults /\ faults' = faults + 1

-----------------------------------------------------------------------------
(* The capture worker and the event loop *)

\* CaptureScreenshot: the file is written ...
NewShot ==
    /\ shots < MaxShots
    /\ shots' = shots + 1
    /\ files' = files \cup {shots + 1}

Capture ==
    /\ capturing = None
    /\ NewShot
    /\ capturing' = shots + 1
    /\ UNCHANGED <<rows, burst, stale, agent, api, dropped, swept, faults>>

\* ... and then InsertScreenshot writes its row, or fails.
Record ==
    /\ capturing # None
    /\ rows' = rows \cup {capturing}
    /\ capturing' = None
    /\ UNCHANGED <<shots, files, burst, stale, agent, api, dropped, swept, faults>>

RecordFails ==
    /\ capturing # None /\ Fault
    /\ dropped' = dropped \cup {capturing}
    /\ capturing' = None
    /\ UNCHANGED <<shots, files, rows, burst, stale, agent, api, swept>>

\* A burst frame is captured and uploaded by the event loop itself.
Burst ==
    /\ pc[Loop] = "idle"
    /\ NewShot
    /\ burst' = burst \cup {shots + 1}
    /\ cur' = [cur EXCEPT ![Loop] = shots + 1]
    /\ pc' = [pc EXCEPT ![Loop] = "presign"]
    /\ UNCHANGED <<rows, capturing, stale, todo, key, known, api, dropped, swept, faults>>

\* ORDER BY id ASC LIMIT n
Oldest(S, n) == {s \in S : Cardinality({r \in S : r < s}) < n}

\* The prune tick: PruneSynced and CapBuffer delete rows, the oldest first, and
\* leave the files to the janitor.
Prune ==
    /\ pc[Loop] = "idle"
    /\ \E n \in 0 .. Cardinality(rows) :
          /\ rows' = rows \ Oldest(rows, n)
          /\ dropped' = dropped \cup Oldest(rows, n)
    /\ pc' = [pc EXCEPT ![Loop] = "janitor"]
    /\ UNCHANGED <<shots, files, capturing, burst, stale, todo, cur, key, known,
                   api, swept, faults>>

\* The janitor lists what is tracked.  If that fails it takes nothing for
\* tracked, and goes on.
JanitorLists ==
    /\ pc[Loop] = "janitor"
    /\ \/ known' = rows /\ UNCHANGED faults
       \/ known' = {} /\ Fault
    /\ pc' = [pc EXCEPT ![Loop] = "sweep"]
    /\ UNCHANGED <<disk, todo, cur, key, api, dropped, swept>>

MutOrphans == stale \cap known   \* the test for tracked files turned round

Orphans == stale \ known

Sweep ==
    /\ pc[Loop] = "sweep"
    /\ files' = files \ Orphans
    /\ swept' = swept \cup (files \cap Orphans \cap rows)
    /\ known' = {}
    /\ pc' = [pc EXCEPT ![Loop] = "idle"]
    /\ UNCHANGED <<shots, rows, capturing, burst, stale, todo, cur, key, api,
                   dropped, faults>>

\* Seven days go by.  No capture takes that long between its two writes.
Age(s) ==
    /\ s \in files \ (stale \cup {capturing})
    /\ stale' = stale \cup {s}
    /\ UNCHANGED <<shots, files, rows, capturing, burst, agent, api, dropped,
                   swept, faults>>

-----------------------------------------------------------------------------
(* FlushScreenshots and BurstUploadScreenshot *)

Goto(u, p) == pc' = [pc EXCEPT ![u] = p]

\* The listing of a flush: in the sync tick, the shutdown, or a resume goroutine.
Flush(u) ==
    /\ pc[u] = "idle"
    /\ rows # {}
    /\ todo' = [todo EXCEPT ![u] = Oldest(rows, Limit)]
    /\ Goto(u, "next")
    /\ UNCHANGED <<disk, cur, key, known, api, dropped, swept, faults>>

IsNext(u, s) == pc[u] = "next" /\ s \in Oldest(todo[u], 1)

Strike(u, s) == todo' = [todo EXCEPT ![u] = @ \ {s}]

Return(u) ==
    /\ pc[u] = "next" /\ todo[u] = {}
    /\ Goto(u, "idle")
    /\ UNCHANGED <<disk, todo, cur, key, known, api, dropped, swept, faults>>

\* The orphan guard: no file, so the row is deleted; an error is ignored.
Discard(u, s) ==
    /\ IsNext(u, s) /\ s \notin files
    /\ Strike(u, s)
    /\ \/ rows' = rows \ {s} /\ UNCHANGED faults
       \/ UNCHANGED rows /\ Fault
    /\ UNCHANGED <<shots, files, capturing, burst, stale, pc, cur, key, known, api,
                   dropped, swept>>

Take(u, s) ==
    /\ IsNext(u, s) /\ s \in files
    /\ Strike(u, s)
    /\ cur' = [cur EXCEPT ![u] = s]
    /\ Goto(u, "presign")
    /\ UNCHANGED <<disk, key, known, api, dropped, swept, faults>>

\* Another upload was given the latest key a moment ago: it has not used it yet,
\* and u has made no request since.
SameMillisecond(u) ==
    /\ \E v \in Uploader \ {u} : pc[v] = "put" /\ key[v] = nextKey - 1
    /\ key[u] # nextKey - 1

\* generateUploadUrl: <org>/<user>/<time>; two requests of one user in the same
\* millisecond get the same key.
Presign(u) ==
    /\ pc[u] = "presign"
    /\ \/ key' = [key EXCEPT ![u] = nextKey] /\ nextKey' = nextKey + 1
       \/ /\ SameMillisecond(u)
          /\ key' = [key EXCEPT ![u] = nextKey - 1] /\ UNCHANGED nextKey
    /\ Goto(u, "put")
    /\ UNCHANGED <<disk, todo, cur, known, objects, saved,
                   dropped, swept, faults>>

IsFree(k) == \A o \in objects : o.key # k

MutAccepts(k) == TRUE        \* upload URLs created with upsert

\* A Supabase upload URL does not overwrite, an S3 PUT does.
Accepts(k) == Store = "s3" \/ IsFree(k)

Put(u) ==
    /\ pc[u] = "put"
    /\ cur[u] \in files
    /\ Accepts(key[u])
    /\ objects' = {o \in objects : o.key # key[u]} \cup {[key |-> key[u], shot |-> cur[u]]}
    /\ Goto(u, "save")
    /\ UNCHANGED <<disk, todo, cur, key, known, nextKey, saved,
                   dropped, swept, faults>>

\* SaveScreenshotMeta; a burst frame has no row to mark.
Save(u) ==
    /\ pc[u] = "save"
    /\ saved' = saved \cup {[key |-> key[u], shot |-> cur[u]]}
    /\ Goto(u, IF cur[u] \in burst THEN "remove" ELSE "mark")
    /\ UNCHANGED <<disk, todo, cur, key, known, nextKey, objects,
                   dropped, swept, faults>>

MutMark(u) ==                \* an upload that failed counts as done
    /\ pc[u] \in {"put", "mark"}
    /\ rows' = rows \ {cur[u]}
    /\ Goto(u, "remove")
    /\ UNCHANGED <<shots, files, capturing, burst, stale, todo, cur, key, known, api,
                   dropped, swept, faults>>

\* MarkScreenshotSynced
Mark(u) ==
    /\ pc[u] = "mark"
    /\ rows' = rows \ {cur[u]}
    /\ Goto(u, "remove")
    /\ UNCHANGED <<shots, files, capturing, burst, stale, todo, cur, key, known, api,
                   dropped, swept, faults>>

Over(u) ==
    /\ Goto(u, IF cur[u] \in burst THEN "idle" ELSE "next")
    /\ cur' = [cur EXCEPT ![u] = None]

\* os.Remove; its error is ignored.
Remove(u) ==
    /\ pc[u] = "remove"
    /\ \/ files' = files \ {cur[u]} /\ UNCHANGED faults
       \/ UNCHANGED files /\ Fault
    /\ Over(u)
    /\ UNCHANGED <<shots, rows, capturing, burst, stale, todo, key, known, api,
                   dropped, swept>>

InAttempt(u) == pc[u] \in {"presign", "put", "save", "mark"}

\* What must fail: the file is gone, or the key is taken.
Refused(u) == pc[u] = "put" /\ ~(cur[u] \in files /\ Accepts(key[u]))

\* A request, or MarkScreenshotSynced, fails -- done or not done: WithRetryTag
\* starts the attempt again with a new key ...
Retry(u) ==
    /\ InAttempt(u) /\ cur[u] \notin burst
    /\ IF Refused(u) THEN cur[u] \in files /\ UNCHANGED faults ELSE Fault
    /\ Goto(u, "presign")
    /\ UNCHANGED <<disk, todo, cur, key, known, api, dropped, swept>>

\* ... or its time is over, or the breaker has opened: on to the next one.
GiveUp(u) ==
    /\ InAttempt(u) /\ cur[u] \notin burst
    /\ IF Refused(u) THEN UNCHANGED faults ELSE Fault
    /\ Over(u)
    /\ UNCHANGED <<disk, todo, key, known, api, dropped, swept>>

\* A burst frame that cannot be uploaded is deleted.
DropFrame(u) ==
    /\ InAttempt(u) /\ cur[u] \in burst
    /\ IF Refused(u) THEN UNCHANGED faults ELSE Fault
    /\ Goto(u, "remove")
    /\ UNCHANGED <<disk, todo, cur, key, known, api, dropped, swept>>

Crash ==
    /\ Fault
    /\ capturing' = None
    /\ dropped' = dropped \cup ({capturing} \ {None})
    /\ pc' = [u \in Uploader |-> "idle"]
    /\ todo' = [u \in Uploader |-> {}]
    /\ cur' = [u \in Uploader |-> None]
    /\ key' = [u \in Uploader |-> 0]
    /\ known' = {}
    /\ UNCHANGED <<shots, files, rows, burst, stale, api, swept>>

-----------------------------------------------------------------------------
Step(u) ==
    \/ Flush(u) \/ Return(u)
    \/ \E s \in todo[u] : Discard(u, s)
    \/ \E s \in todo[u] : Take(u, s)
    \/ Presign(u) \/ Put(u) \/ Save(u) \/ Mark(u) \/ Remove(u)
    \/ Retry(u) \/ GiveUp(u) \/ DropFrame(u)

Next ==
    \/ Capture \/ Record \/ RecordFails \/ Burst
    \/ Prune \/ JanitorLists \/ Sweep
    \/ \E s \in files : Age(s)
    \/ \E u \in Uploader : Step(u)
    \/ Crash

Spec == Init /\ [][Next]_vars

\* Goroutines run; the sync and the prune tick are taken sooner or later.
Fairness ==
    /\ WF_vars(Record \/ RecordFails)
    /\ \A u \in Resumes : WF_vars(pc[u] # "idle" /\ Step(u))
    /\ WF_vars(pc[Loop] # "idle" /\ (Step(Loop) \/ JanitorLists \/ Sweep))
    /\ SF_vars(Flush(Loop)) /\ SF_vars(Prune)
    /\ WF_vars(\E s \in files : Age(s))

FairSpec == Spec /\ Fairness

-----------------------------------------------------------------------------
(* Properties *)

TypeOK ==
    /\ shots \in 0 .. MaxShots
    /\ files \subseteq 1 .. shots /\ rows \subseteq 1 .. shots
    /\ capturing \in 0 .. shots
    /\ burst \subseteq 1 .. shots /\ stale \subseteq 1 .. shots
    /\ known \subseteq 1 .. shots
    /\ pc \in [Uploader -> {"idle", "next", "presign", "put", "save", "mark",
                            "remove", "janitor", "sweep"}]
    /\ todo \in [Uploader -> SUBSET Shot]
    /\ cur \in [Uploader -> Shot \cup {None}]
    /\ key \in [Uploader -> Nat]
    /\ nextKey \in Nat
    /\ objects \subseteq Upload /\ saved \subseteq Upload
    /\ dropped \subseteq 1 .. shots /\ swept \subseteq 1 .. shots
    /\ faults \in 0 .. MaxFaults

\* Seen by a manager: its metadata point to its own image.
Uploaded(s) == \E m \in saved \cap objects : m.shot = s

\* Between two uploaders with the same list, an orphan guard that deletes rows,
\* retries and crashes at any step, a screenshot that was recorded is on its way,
\* with its row and its file, or was uploaded, unless the agent dropped it or a
\* janitor that could not read the table deleted its file.
NothingLost ==
    \A s \in 1 .. shots :
        s \in burst \cup dropped \cup swept \cup {capturing} \/ s \in rows \cap files
        \/ Uploaded(s)

\* What was saved as a screenshot is the image that was taken: the key was not
\* given to another upload.
\* "Now that the S3 object, metadata row, and buffer row are all consistent"
\* (uploader.go:251-252)
SavedIsIntact == saved \subseteq objects

\* The file of a screenshot does not stay on the disk for ever: it is uploaded and
\* removed, or the janitor finds it, whatever crash or failed delete left it.
FilesGoAway == \A s \in Shot : s \in files ~> s \notin files

=============================================================================
