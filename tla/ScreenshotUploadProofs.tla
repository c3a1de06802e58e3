----------------------- MODULE ScreenshotUploadProofs -----------------------
(***************************************************************************)
(* Theorems about ScreenshotUpload, for any number of screenshots, resume  *)
(* goroutines and faults: with Supabase storage no recorded screenshot is  *)
(* lost, and what was saved is the image that was taken.                   *)
(***************************************************************************)
EXTENDS ScreenshotUpload, TLAPS

USE ScreenshotAssumption DEF ScreenshotAssumption

-----------------------------------------------------------------------------
(* The inductive invariant *)

\* An uploader works on shots that were taken.
InRange ==
    /\ \A u \in Uploader : \A s \in todo[u] : s \in 1 .. shots
    /\ \A u \in Uploader : cur[u] \in 0 .. shots

\* The shot that waits for its row has a fresh file, and nobody else knows it.
CapturedIsUnknown ==
    capturing # None =>
        /\ capturing \in files
        /\ capturing \notin stale /\ capturing \notin rows /\ capturing \notin burst
        /\ \A u \in Uploader : capturing # cur[u] /\ capturing \notin todo[u]

\* What the place of an uploader says about its shot: past the PUT the image is
\* in the store, past SaveScreenshotMeta the API knows it, and a file is removed
\* only then or when it is a frame of a burst.
Item(u) == [key |-> key[u], shot |-> cur[u]]

Progress ==
    \A u \in Uploader :
        /\ pc[u] = "save" => Item(u) \in objects
        /\ pc[u] = "mark" => Item(u) \in saved
        /\ pc[u] = "remove" => cur[u] \in burst \/ Item(u) \in saved

IInv ==
    /\ TypeOK /\ InRange /\ CapturedIsUnknown /\ Progress
    /\ SavedIsIntact /\ NothingLost

-----------------------------------------------------------------------------
\* A listing returns rows of the table.
LEMMA OldestIsSubset == \A S, n : Oldest(S, n) \subseteq S
BY DEF Oldest

\* A shot that the API has with its image is uploaded.
LEMMA SavedIsUploaded ==
    ASSUME SavedIsIntact, NEW u \in Uploader, Item(u) \in saved
    PROVE  Uploaded(cur[u])
BY DEF SavedIsIntact, Uploaded, Item

LEMMA InitEstablishes == Init => IInv
BY DEF Init, IInv, TypeOK, InRange, CapturedIsUnknown, Progress, SavedIsIntact,
       NothingLost, Uploader, None

\* Steps of the capture worker and the janitor.
LEMMA CaptureStep ==
    ASSUME IInv, Capture \/ Record \/ RecordFails
    PROVE  IInv'
<1> USE DEF IInv
<1>1. CASE Capture
  <2>1. /\ capturing = None /\ shots < MaxShots /\ shots' = shots + 1
        /\ files' = files \cup {shots + 1} /\ capturing' = shots + 1
        /\ UNCHANGED <<rows, burst, stale, pc, todo, cur, key, known, nextKey, objects, saved,
                       dropped, swept, faults>>
    BY <1>1 DEF Capture, NewShot, agent, api
  <2>2. shots \in Nat /\ \A i : i \in 1 .. shots => i \in 1 .. shots' /\ i # shots + 1
    BY <2>1 DEF TypeOK
  <2>3. TypeOK'
    BY <2>1, <2>2 DEF TypeOK
  <2>4. InRange'
    BY <2>1, <2>2 DEF TypeOK, InRange
  <2>5. CapturedIsUnknown'
    BY <2>1, <2>2 DEF TypeOK, InRange, CapturedIsUnknown
  <2>6. Progress' /\ SavedIsIntact'
    BY <2>1 DEF Progress, Item, SavedIsIntact
  <2>7. NothingLost'
    BY <2>1, <2>2 DEF TypeOK, NothingLost, Uploaded, None
  <2> QED BY <2>3, <2>4, <2>5, <2>6, <2>7
<1>2. CASE Record \/ RecordFails
  <2>1. /\ capturing # None /\ capturing' = None
        /\ \/ (rows' = rows \cup {capturing} /\ UNCHANGED <<dropped, faults>>)
           \/ /\ dropped' = dropped \cup {capturing} /\ UNCHANGED rows
              /\ faults < MaxFaults /\ faults' = faults + 1
        /\ UNCHANGED <<shots, files, burst, stale, pc, todo, cur, key, known, nextKey, objects,
                       saved, swept>>
    BY <1>2 DEF Record, RecordFails, Fault, agent, api
  <2>2. capturing \in 1 .. shots
    BY <2>1 DEF TypeOK, None
  <2>3. TypeOK' /\ InRange'
    <3>1. rows' \subseteq 1 .. shots /\ dropped' \subseteq 1 .. shots /\ capturing' \in 0 .. shots
      <4>1. /\ rows \subseteq 1 .. shots /\ dropped \subseteq 1 .. shots
            /\ capturing' = 0 /\ 0 \in 0 .. shots
        BY <2>1 DEF TypeOK, None
      <4>2. CASE rows' = rows \cup {capturing} /\ UNCHANGED dropped
        BY <2>2, <4>1, <4>2
      <4>3. CASE dropped' = dropped \cup {capturing} /\ UNCHANGED rows
        BY <2>2, <4>1, <4>3
      <4> QED BY <2>1, <4>2, <4>3
    <3>2. faults' \in 0 .. MaxFaults
      BY <2>1 DEF TypeOK
    <3> QED BY <2>1, <3>1, <3>2 DEF TypeOK, InRange
  <2>4. Progress' /\ SavedIsIntact' /\ CapturedIsUnknown'
    BY <2>1 DEF Progress, Item, SavedIsIntact, CapturedIsUnknown
  <2>5. NothingLost'
    BY <2>1 DEF NothingLost, Uploaded, CapturedIsUnknown
  <2> QED BY <2>3, <2>4, <2>5
<1> QED BY <1>1, <1>2

LEMMA BurstStep ==
    ASSUME IInv, Burst
    PROVE  IInv'
<1> USE DEF IInv
<1>1. /\ shots < MaxShots /\ shots' = shots + 1 /\ files' = files \cup {shots + 1}
      /\ burst' = burst \cup {shots + 1} /\ cur' = [cur EXCEPT ![Loop] = shots + 1]
      /\ pc' = [pc EXCEPT ![Loop] = "presign"]
      /\ UNCHANGED <<rows, capturing, stale, todo, key, known, nextKey, objects, saved, dropped,
                     swept, faults>>
  BY DEF Burst, NewShot, api
<1>2. /\ shots \in Nat /\ Loop \in Uploader
      /\ \A i : i \in 1 .. shots => i \in 1 .. shots' /\ i # shots + 1
  BY <1>1 DEF TypeOK, Uploader
<1>3. \A u \in Uploader : /\ cur'[u] = IF u = Loop THEN shots + 1 ELSE cur[u]
                          /\ pc'[u] = IF u = Loop THEN "presign" ELSE pc[u]
  BY <1>1, <1>2 DEF TypeOK
<1>4. TypeOK'
  BY <1>1, <1>2 DEF TypeOK, Shot
<1>5. InRange'
  BY <1>1, <1>2, <1>3 DEF TypeOK, InRange
<1>6. CapturedIsUnknown'
  BY <1>1, <1>2, <1>3 DEF TypeOK, CapturedIsUnknown, None
<1>7. Progress' /\ SavedIsIntact'
  BY <1>1, <1>2, <1>3 DEF Progress, Item, SavedIsIntact
<1>8. NothingLost'
  BY <1>1, <1>2 DEF TypeOK, NothingLost, Uploaded
<1> QED BY <1>4, <1>5, <1>6, <1>7, <1>8

LEMMA JanitorStep ==
    ASSUME IInv, Prune \/ JanitorLists \/ Sweep \/ \E s \in files : Age(s)
    PROVE  IInv'
<1> USE DEF IInv
<1>1. CASE Prune
  <2>1. PICK n \in 0 .. Cardinality(rows) :
            /\ rows' = rows \ Oldest(rows, n) /\ dropped' = dropped \cup Oldest(rows, n)
            /\ pc' = [pc EXCEPT ![Loop] = "janitor"]
            /\ UNCHANGED <<shots, files, capturing, burst, stale, todo, cur, key, known,
                           nextKey, objects, saved, swept, faults>>
    BY <1>1 DEF Prune, api
  <2>2. Oldest(rows, n) \subseteq rows
    BY OldestIsSubset
  <2> HIDE DEF Oldest
  <2>3. TypeOK' /\ InRange'
    BY <2>1, <2>2 DEF TypeOK, InRange
  <2>4. Progress' /\ SavedIsIntact' /\ CapturedIsUnknown'
    BY <2>1, <2>2 DEF TypeOK, Progress, Item, SavedIsIntact, CapturedIsUnknown
  <2>5. NothingLost'
    BY <2>1, <2>2 DEF NothingLost, Uploaded
  <2> QED BY <2>3, <2>4, <2>5
<1>2. CASE JanitorLists
  <2>1. /\ known' \subseteq rows /\ faults' \in 0 .. MaxFaults
        /\ pc' = [pc EXCEPT ![Loop] = "sweep"]
        /\ UNCHANGED <<shots, files, rows, capturing, burst, stale, todo, cur, key, nextKey,
                       objects, saved, dropped, swept>>
    BY <1>2 DEF JanitorLists, Fault, disk, api, TypeOK
  <2>2. TypeOK' /\ InRange'
    BY <2>1 DEF TypeOK, InRange
  <2> QED BY <2>1, <2>2 DEF TypeOK, Progress, Item, SavedIsIntact, CapturedIsUnknown,
                            NothingLost, Uploaded
<1>3. CASE Sweep
  <2>1. /\ files' = files \ (stale \ known) /\ known' = {}
        /\ swept' = swept \cup (files \cap (stale \ known) \cap rows)
        /\ pc' = [pc EXCEPT ![Loop] = "idle"]
        /\ UNCHANGED <<shots, rows, capturing, burst, stale, todo, cur, key, nextKey, objects,
                       saved, dropped, faults>>
    BY <1>3 DEF Sweep, Orphans, api
  <2>2. TypeOK' /\ InRange'
    BY <2>1 DEF TypeOK, InRange
  <2>3. Progress' /\ SavedIsIntact' /\ CapturedIsUnknown'
    BY <2>1 DEF TypeOK, Progress, Item, SavedIsIntact, CapturedIsUnknown
  <2>4. NothingLost'
    BY <2>1 DEF NothingLost, Uploaded
  <2> QED BY <2>2, <2>3, <2>4
<1>4. ASSUME NEW s \in files, Age(s)
      PROVE  IInv'
  <2>1. /\ s # capturing /\ stale' = stale \cup {s}
        /\ UNCHANGED <<shots, files, rows, capturing, burst, pc, todo, cur, key, known, nextKey,
                       objects, saved, dropped, swept, faults>>
    BY <1>4 DEF Age, agent, api
  <2> QED BY <2>1 DEF TypeOK, InRange, Progress, Item, SavedIsIntact, CapturedIsUnknown,
                      NothingLost, Uploaded
<1> QED BY <1>1, <1>2, <1>3, <1>4

\* Steps of an uploader: none of them touches the shot being captured.
LEMMA ListStep ==
    ASSUME IInv, NEW u \in Uploader,
           Flush(u) \/ Return(u) \/ \E s \in todo[u] : Discard(u, s) \/ Take(u, s)
    PROVE  IInv'
<1> USE DEF IInv
<1>1. CASE Flush(u)
  <2>1. /\ todo' = [todo EXCEPT ![u] = Oldest(rows, Limit)] /\ pc' = [pc EXCEPT ![u] = "next"]
        /\ UNCHANGED <<shots, files, rows, capturing, burst, stale, cur, key, known, nextKey,
                       objects, saved, dropped, swept, faults>>
    BY <1>1 DEF Flush, Goto, disk, api
  <2>2. Oldest(rows, Limit) \subseteq rows
    BY OldestIsSubset
  <2> HIDE DEF Oldest
  <2>3. /\ \A v \in Uploader : todo'[v] = todo[v] \/ todo'[v] \subseteq rows
        /\ \A v \in Uploader : pc'[v] = pc[v] \/ pc'[v] = "next"
    BY <2>1, <2>2 DEF TypeOK
  <2>4. TypeOK' /\ InRange'
    <3>1. shots \in 0 .. MaxShots /\ rows \subseteq 1 .. shots
      BY DEF TypeOK
    <3>2. Oldest(rows, Limit) \in SUBSET Shot
      <4>1. \A i \in 1 .. shots : i \in Shot
        BY <3>1 DEF Shot
      <4> QED BY <2>2, <3>1, <4>1
    <3>3. todo' \in [Uploader -> SUBSET Shot]
      BY <2>1, <3>2 DEF TypeOK
    <3>4. \A v \in Uploader : \A s \in todo'[v] : s \in 1 .. shots
      BY <2>3, <3>1 DEF InRange
    <3> QED BY <2>1, <3>3, <3>4 DEF TypeOK, InRange
  <2>5. Progress' /\ SavedIsIntact' /\ CapturedIsUnknown'
    BY <2>1, <2>3 DEF Progress, Item, SavedIsIntact, CapturedIsUnknown
  <2> QED BY <2>1, <2>4, <2>5 DEF NothingLost, Uploaded
<1>2. CASE Return(u)
  <2>1. /\ pc' = [pc EXCEPT ![u] = "idle"]
        /\ UNCHANGED <<shots, files, rows, capturing, burst, stale, todo, cur, key, known,
                       nextKey, objects, saved, dropped, swept, faults>>
    BY <1>2 DEF Return, Goto, disk, api
  <2> QED BY <2>1 DEF TypeOK, InRange, Progress, Item, SavedIsIntact, CapturedIsUnknown,
                      NothingLost, Uploaded
<1>3. ASSUME NEW s \in todo[u], Discard(u, s)
      PROVE  IInv'
  <2>1. /\ s \notin files /\ todo' = [todo EXCEPT ![u] = todo[u] \ {s}]
        /\ rows' = rows \/ rows' = rows \ {s}
        /\ faults' \in 0 .. MaxFaults
        /\ UNCHANGED <<shots, files, capturing, burst, stale, pc, cur, key, known, nextKey,
                       objects, saved, dropped, swept>>
    BY <1>3 DEF Discard, Strike, Fault, api, TypeOK
  <2>2. \A v \in Uploader : todo'[v] \subseteq todo[v]
    BY <2>1 DEF TypeOK
  <2>3. TypeOK' /\ InRange'
    BY <2>1, <2>2 DEF TypeOK, InRange
  <2>4. Progress' /\ SavedIsIntact' /\ CapturedIsUnknown'
    BY <2>1, <2>2 DEF Progress, Item, SavedIsIntact, CapturedIsUnknown
  <2>5. NothingLost'
    BY <2>1 DEF NothingLost, Uploaded
  <2> QED BY <2>3, <2>4, <2>5
<1>4. ASSUME NEW s \in todo[u], Take(u, s)
      PROVE  IInv'
  <2>1. /\ s \in files /\ todo' = [todo EXCEPT ![u] = todo[u] \ {s}]
        /\ cur' = [cur EXCEPT ![u] = s] /\ pc' = [pc EXCEPT ![u] = "presign"]
        /\ UNCHANGED <<shots, files, rows, capturing, burst, stale, key, known, nextKey,
                       objects, saved, dropped, swept, faults>>
    BY <1>4 DEF Take, Strike, Goto, disk, api
  <2>2. /\ \A v \in Uploader : todo'[v] \subseteq todo[v]
        /\ \A v \in Uploader : cur'[v] = IF v = u THEN s ELSE cur[v]
        /\ \A v \in Uploader : pc'[v] = IF v = u THEN "presign" ELSE pc[v]
        /\ s \in 1 .. shots
    BY <2>1 DEF TypeOK, InRange
  <2>3. TypeOK' /\ InRange'
    BY <2>1, <2>2 DEF TypeOK, InRange, Shot
  <2>4. Progress' /\ SavedIsIntact' /\ CapturedIsUnknown'
    BY <2>1, <2>2 DEF Progress, Item, SavedIsIntact, CapturedIsUnknown
  <2> QED BY <2>1, <2>3, <2>4 DEF NothingLost, Uploaded
<1> QED BY <1>1, <1>2, <1>3, <1>4

LEMMA AttemptStep ==
    ASSUME IInv, Store = "supabase", NEW u \in Uploader, Presign(u) \/ Put(u) \/ Save(u)
    PROVE  IInv'
<1> USE DEF IInv
<1>1. CASE Presign(u)
  <2>1. /\ \E k \in Nat : key' = [key EXCEPT ![u] = k]
        /\ nextKey' \in Nat /\ pc' = [pc EXCEPT ![u] = "put"]
        /\ UNCHANGED <<shots, files, rows, capturing, burst, stale, todo, cur, known, objects,
                       saved, dropped, swept, faults>>
    <3>1. nextKey \in Nat /\ \A v \in Uploader : key[v] \in Nat
      BY DEF TypeOK
    <3>4. /\ pc' = [pc EXCEPT ![u] = "put"]
          /\ UNCHANGED <<shots, files, rows, capturing, burst, stale, todo, cur, known, objects,
                         saved, dropped, swept, faults>>
      BY <1>1 DEF Presign, Goto, disk
    <3>2. CASE key' = [key EXCEPT ![u] = nextKey] /\ nextKey' = nextKey + 1
      <4>1. nextKey + 1 \in Nat
        BY <3>1
      <4> QED BY <3>1, <3>2, <3>4, <4>1
    <3>3. CASE /\ SameMillisecond(u)
               /\ key' = [key EXCEPT ![u] = nextKey - 1] /\ UNCHANGED nextKey
      <4>1. nextKey - 1 \in Nat
        BY <3>1, <3>3 DEF SameMillisecond
      <4> QED BY <3>1, <3>3, <3>4, <4>1
    <3> QED BY <1>1, <3>2, <3>3 DEF Presign
  <2>2. \A v \in Uploader : /\ v # u => key'[v] = key[v] /\ pc'[v] = pc[v]
                            /\ v = u => pc'[v] = "put"
    BY <2>1 DEF TypeOK
  <2>3. TypeOK' /\ InRange'
    BY <2>1 DEF TypeOK, InRange
  <2>4. Progress' /\ SavedIsIntact' /\ CapturedIsUnknown'
    BY <2>1, <2>2 DEF Progress, Item, SavedIsIntact, CapturedIsUnknown
  <2> QED BY <2>1, <2>3, <2>4 DEF NothingLost, Uploaded
<1>2. CASE Put(u)
  <2>1. /\ cur[u] \in files /\ objects' = objects \cup {Item(u)}
        /\ pc' = [pc EXCEPT ![u] = "save"]
        /\ UNCHANGED <<shots, files, rows, capturing, burst, stale, todo, cur, key, known,
                       nextKey, saved, dropped, swept, faults>>
    BY <1>2 DEF Put, Accepts, IsFree, Goto, Item, disk
  <2>2. \A v \in Uploader : pc'[v] = IF v = u THEN "save" ELSE pc[v]
    BY <2>1 DEF TypeOK
  <2>3. Item(u) \in Upload
    <3>1. shots \in 0 .. MaxShots /\ files \subseteq 1 .. shots /\ key[u] \in Nat
      BY DEF TypeOK
    <3>2. cur[u] \in 1 .. shots
      BY <2>1, <3>1
    <3>3. cur[u] \in Shot
      BY <3>1, <3>2 DEF Shot
    <3> QED BY <3>1, <3>3 DEF Item, Upload
  <2>4. TypeOK' /\ InRange'
    BY <2>1, <2>3 DEF TypeOK, InRange
  <2>5. Progress' /\ SavedIsIntact' /\ CapturedIsUnknown'
    BY <2>1, <2>2 DEF Progress, Item, SavedIsIntact, CapturedIsUnknown
  <2>6. NothingLost'
    BY <2>1 DEF NothingLost, Uploaded
  <2> QED BY <2>4, <2>5, <2>6
<1>3. CASE Save(u)
  <2>1. /\ pc[u] = "save" /\ saved' = saved \cup {Item(u)}
        /\ pc' = [pc EXCEPT ![u] = IF cur[u] \in burst THEN "remove" ELSE "mark"]
        /\ UNCHANGED <<shots, files, rows, capturing, burst, stale, todo, cur, key, known,
                       nextKey, objects, dropped, swept, faults>>
    BY <1>3 DEF Save, Goto, Item, disk
  <2>2. \A v \in Uploader : /\ v # u => pc'[v] = pc[v]
                            /\ v = u => pc'[v] \in {"remove", "mark"}
    BY <2>1 DEF TypeOK
  <2>3. Item(u) \in objects
    BY <2>1 DEF Progress
  <2>4. TypeOK' /\ InRange'
    BY <2>1, <2>3 DEF TypeOK, InRange
  <2>5. Progress' /\ SavedIsIntact' /\ CapturedIsUnknown'
    BY <2>1, <2>2, <2>3 DEF Progress, Item, SavedIsIntact, CapturedIsUnknown
  <2>6. NothingLost'
    BY <2>1 DEF NothingLost, Uploaded
  <2> QED BY <2>4, <2>5, <2>6
<1> QED BY <1>1, <1>2, <1>3

LEMMA EndStep ==
    ASSUME IInv, NEW u \in Uploader,
           Mark(u) \/ Remove(u) \/ Retry(u) \/ GiveUp(u) \/ DropFrame(u)
    PROVE  IInv'
<1> USE DEF IInv
<1>1. CASE Mark(u)
  <2>1. /\ pc[u] = "mark" /\ rows' = rows \ {cur[u]} /\ pc' = [pc EXCEPT ![u] = "remove"]
        /\ UNCHANGED <<shots, files, capturing, burst, stale, todo, cur, key, known, nextKey,
                       objects, saved, dropped, swept, faults>>
    BY <1>1 DEF Mark, Goto, api
  <2>2. \A v \in Uploader : pc'[v] = IF v = u THEN "remove" ELSE pc[v]
    BY <2>1 DEF TypeOK
  <2>3. Item(u) \in saved /\ Uploaded(cur[u])
    BY <2>1, SavedIsUploaded DEF Progress
  <2>4. TypeOK' /\ InRange'
    BY <2>1 DEF TypeOK, InRange
  <2>5. Progress' /\ SavedIsIntact' /\ CapturedIsUnknown'
    BY <2>1, <2>2, <2>3 DEF Progress, Item, SavedIsIntact, CapturedIsUnknown
  <2>6. NothingLost'
    BY <2>1, <2>3 DEF NothingLost, Uploaded
  <2> QED BY <2>4, <2>5, <2>6
<1>2. CASE Remove(u)
  <2>1. /\ pc[u] = "remove" /\ (files' = files \/ files' = files \ {cur[u]})
        /\ \E p \in {"idle", "next"} : pc' = [pc EXCEPT ![u] = p]
        /\ cur' = [cur EXCEPT ![u] = None] /\ faults' \in 0 .. MaxFaults
        /\ UNCHANGED <<shots, rows, capturing, burst, stale, todo, key, known, nextKey,
                       objects, saved, dropped, swept>>
    <3>1. /\ pc[u] = "remove" /\ (files' = files \/ files' = files \ {cur[u]})
          /\ cur' = [cur EXCEPT ![u] = None]
          /\ UNCHANGED <<shots, rows, capturing, burst, stale, todo, key, known, nextKey,
                         objects, saved, dropped, swept>>
      BY <1>2 DEF Remove, Over, api
    <3>2. faults' \in 0 .. MaxFaults
      BY <1>2 DEF Remove, Fault, TypeOK
    <3>3. \E p \in {"idle", "next"} : pc' = [pc EXCEPT ![u] = p]
      BY <1>2 DEF Remove, Over, Goto
    <3> QED BY <3>1, <3>2, <3>3
  <2>2. \A v \in Uploader : /\ v # u => pc'[v] = pc[v] /\ cur'[v] = cur[v]
                            /\ v = u => pc'[v] \in {"idle", "next"} /\ cur'[v] = None
    BY <2>1 DEF TypeOK
  <2>3. cur[u] \in burst \/ Uploaded(cur[u])
    BY <2>1, SavedIsUploaded DEF Progress
  <2>4. TypeOK' /\ InRange'
    <3>1. cur' \in [Uploader -> Shot \cup {None}]
      BY <2>1 DEF TypeOK
    <3>2. \A v \in Uploader : cur'[v] \in 0 .. shots
      BY <2>2 DEF TypeOK, InRange, None
    <3>3. files' \subseteq 1 .. shots
      BY <2>1 DEF TypeOK
    <3>4. pc' \in [Uploader -> {"idle", "next", "presign", "put", "save", "mark", "remove",
                               "janitor", "sweep"}]
      BY <2>1 DEF TypeOK
    <3> QED BY <2>1, <3>1, <3>2, <3>3, <3>4 DEF TypeOK, InRange
  <2>5. Progress' /\ SavedIsIntact' /\ CapturedIsUnknown'
    BY <2>1, <2>2 DEF Progress, Item, SavedIsIntact, CapturedIsUnknown
  <2>6. NothingLost'
    BY <2>1, <2>3 DEF NothingLost, Uploaded
  <2> QED BY <2>4, <2>5, <2>6
<1>3. CASE Retry(u) \/ DropFrame(u)
  <2>1. /\ \/ pc' = [pc EXCEPT ![u] = "presign"]
           \/ pc' = [pc EXCEPT ![u] = "remove"] /\ cur[u] \in burst
        /\ faults' \in 0 .. MaxFaults
        /\ UNCHANGED <<shots, files, rows, capturing, burst, stale, todo, cur, key, known,
                       nextKey, objects, saved, dropped, swept>>
    BY <1>3 DEF Retry, DropFrame, Goto, Fault, disk, api, TypeOK
  <2>2. \A v \in Uploader : /\ v # u => pc'[v] = pc[v]
                            /\ v = u => \/ pc'[v] = "presign"
                                        \/ pc'[v] = "remove" /\ cur[u] \in burst
    BY <2>1 DEF TypeOK
  <2>3. TypeOK' /\ InRange'
    BY <2>1 DEF TypeOK, InRange
  <2>4. Progress' /\ SavedIsIntact' /\ CapturedIsUnknown'
    BY <2>1, <2>2 DEF Progress, Item, SavedIsIntact, CapturedIsUnknown
  <2> QED BY <2>1, <2>3, <2>4 DEF NothingLost, Uploaded
<1>4. CASE GiveUp(u)
  <2>1. /\ \E p \in {"idle", "next"} : pc' = [pc EXCEPT ![u] = p]
        /\ cur' = [cur EXCEPT ![u] = None] /\ faults' \in 0 .. MaxFaults
        /\ UNCHANGED <<shots, files, rows, capturing, burst, stale, todo, key, known, nextKey,
                       objects, saved, dropped, swept>>
    BY <1>4 DEF GiveUp, Over, Goto, Fault, disk, api, TypeOK
  <2>2. \A v \in Uploader : /\ v # u => pc'[v] = pc[v] /\ cur'[v] = cur[v]
                            /\ v = u => pc'[v] \in {"idle", "next"} /\ cur'[v] = None
    BY <2>1 DEF TypeOK
  <2>3. TypeOK' /\ InRange'
    BY <2>1, <2>2 DEF TypeOK, InRange, None
  <2>4. Progress' /\ SavedIsIntact' /\ CapturedIsUnknown'
    BY <2>1, <2>2 DEF Progress, Item, SavedIsIntact, CapturedIsUnknown
  <2> QED BY <2>1, <2>3, <2>4 DEF NothingLost, Uploaded
<1> QED BY <1>1, <1>2, <1>3, <1>4

LEMMA CrashStep ==
    ASSUME IInv, Crash
    PROVE  IInv'
<1> USE DEF IInv
<1>1. /\ capturing' = None /\ dropped' = dropped \cup ({capturing} \ {None})
      /\ faults' \in 0 .. MaxFaults /\ known' = {}
      /\ pc' = [v \in Uploader |-> "idle"] /\ todo' = [v \in Uploader |-> {}]
      /\ cur' = [v \in Uploader |-> None] /\ key' = [v \in Uploader |-> 0]
      /\ UNCHANGED <<shots, files, rows, burst, stale, nextKey, objects, saved, swept>>
  BY DEF Crash, Fault, api, TypeOK
<1>2. TypeOK' /\ InRange'
  BY <1>1 DEF TypeOK, InRange, None
<1>3. Progress' /\ SavedIsIntact' /\ CapturedIsUnknown'
  BY <1>1 DEF Progress, SavedIsIntact, CapturedIsUnknown
<1>4. NothingLost'
  BY <1>1 DEF TypeOK, NothingLost, Uploaded, None
<1> QED BY <1>2, <1>3, <1>4

-----------------------------------------------------------------------------
\* The inductive invariant of the upload of screenshots to Supabase.
THEOREM UploadInvariant ==
    ASSUME Store = "supabase"
    PROVE  Spec => []IInv
<1>1. IInv /\ [Next]_vars => IInv'
  <2> SUFFICES ASSUME IInv, [Next]_vars PROVE IInv'
    OBVIOUS
  <2>1. CASE UNCHANGED vars
    <3>1. UNCHANGED <<shots, files, rows, capturing, burst, stale, pc, todo, cur, key, known,
                      nextKey, objects, saved, dropped, swept, faults>>
      BY <2>1 DEF vars, disk, agent, api
    <3> QED BY <3>1 DEF IInv, TypeOK, InRange, CapturedIsUnknown, Progress, Item,
                        SavedIsIntact, NothingLost, Uploaded
  <2>2. CASE Next
    BY <2>2, CaptureStep, BurstStep, JanitorStep, ListStep, AttemptStep, EndStep, CrashStep
       DEF Next, Step
  <2> QED BY <2>1, <2>2
<1> QED BY <1>1, InitEstablishes, PTL DEF Spec

\* With two and more uploaders that share a list, an orphan guard that deletes
\* rows, retries and crashes at any step (FlushScreenshots, BurstUploadScreenshot,
\* the prune tick, main.go's capture worker): a recorded screenshot has its row
\* and its file, or was uploaded, or was given up by the agent.
THEOREM NoScreenshotIsLost ==
    ASSUME Store = "supabase"
    PROVE  Spec => []NothingLost
<1>1. IInv => NothingLost
  BY DEF IInv
<1> QED BY <1>1, UploadInvariant, PTL

\* The metadata that saveScreenshot stores point to the image of that screenshot:
\* a key is never given a second image.
THEOREM SavedScreenshotIsIntact ==
    ASSUME Store = "supabase"
    PROVE  Spec => []SavedIsIntact
<1>1. IInv => SavedIsIntact
  BY DEF IInv
<1> QED BY <1>1, UploadInvariant, PTL

=============================================================================
