--------------------------- MODULE PresenceProofs ---------------------------
(***************************************************************************)
(* A theorem about Presence, for any devices, thresholds and outages:      *)
(* last_seen_at is behind the last heartbeat that was taken by no more     *)
(* than the ticks of trouble.                                              *)
(***************************************************************************)
EXTENDS Presence, TLAPS

-----------------------------------------------------------------------------
(* The inductive invariant *)

\* The ages of the last heartbeats and of last_seen_at, and what waits to be
\* written: times of some devices.
AgesOK ==
    /\ faults \in Nat
    /\ beat \in [Device -> Age] /\ seen \in [Device -> Age]
    /\ DOMAIN pending \subseteq Device
    /\ \A w \in writes : DOMAIN w \subseteq Device

\* A time that waits in pending or in an UPDATE under way is as old as the
\* trouble that kept it there, at most: a heartbeat enters with age 0, and a
\* tick that ages it is one with the database away or an UPDATE under way.
WaitsInTrouble ==
    /\ \A d \in DOMAIN pending : pending[d] \in Age /\ pending[d] <= faults
    /\ \A w \in writes : \A d \in DOMAIN w : w[d] \in Age /\ w[d] <= faults

IInv == AgesOK /\ WaitsInTrouble /\ LastSeenLags

-----------------------------------------------------------------------------
LEMMA OldIsNat == Old \in Nat \ {0}
<1>1. \E n \in {Threshold, Window, OfflineAfter} :
          \A m \in {Threshold, Window, OfflineAfter} : m <= n
  BY PresenceAssumption DEF PresenceAssumption
<1>2. (CHOOSE n \in {Threshold, Window, OfflineAfter} :
          \A m \in {Threshold, Window, OfflineAfter} : m <= n)
        \in {Threshold, Window, OfflineAfter}
  BY <1>1
<1> QED BY <1>2, PresenceAssumption DEF PresenceAssumption, Old

\* A tick makes an age one older, or leaves it at Old.
LEMMA OlderIsAge ==
    \A a \in Age : /\ Older(a) \in Age
                   /\ Older(a) = a + 1 \/ (a = Old /\ Older(a) = Old)
BY OldIsNat DEF Age, Older

LEMMA InitEstablishes == Init => IInv
<1> SUFFICES ASSUME Init
             PROVE  IInv
  OBVIOUS
<1>1. beat \in [Device -> Age] /\ seen = beat /\ faults = 0 /\ DOMAIN pending = {} /\ writes = {}
  BY OldIsNat DEF Init, Age, Nothing
<1> QED BY <1>1, OldIsNat DEF IInv, AgesOK, WaitsInTrouble, LastSeenLags, Age

\* A heartbeat enters the buffer, and its device waits there.
LEMMA HeartbeatStep ==
    ASSUME IInv, NEW d \in Device, NEW s, Heartbeat(d, s)
    PROVE  IInv'
<1> DEFINE g == [x \in {d} |-> 0]
<1>1. /\ beat' = [beat EXCEPT ![d] = 0] /\ lost' = lost \ {d} /\ pending' = Merge(pending, g)
      /\ UNCHANGED <<writes, seen, faults>>
  BY DEF Heartbeat
<1>2. DOMAIN g = {d} /\ g[d] = 0
  OBVIOUS
<1> HIDE DEF g
<1>3. /\ DOMAIN pending' = DOMAIN pending \cup {d} /\ pending'[d] = 0
      /\ \A x \in DOMAIN pending \ {d} : pending'[x] = pending[x]
  BY <1>1, <1>2 DEF Merge
<1>4. AgesOK'
  BY <1>1, <1>3, OldIsNat DEF IInv, AgesOK, Age
<1>5. WaitsInTrouble'
  BY <1>1, <1>3, OldIsNat DEF IInv, AgesOK, WaitsInTrouble, Age
<1>6. LastSeenLags'
  BY <1>1, <1>3 DEF IInv, AgesOK, LastSeenLags
<1> QED BY <1>4, <1>5, <1>6 DEF IInv

\* What the buffer held goes with an UPDATE, and back when that fails.
LEMMA FlushStep ==
    ASSUME IInv, Flush
    PROVE  IInv'
<1>1. /\ writes' = writes \cup {pending} /\ DOMAIN pending' = {}
      /\ UNCHANGED <<beat, seen, lost, faults>>
  BY DEF Flush, Nothing
<1> QED BY <1>1 DEF IInv, AgesOK, WaitsInTrouble, LastSeenLags

\* Whichever UPDATE is done last: the time it writes is no older than the trouble.
LEMMA WrittenStep ==
    ASSUME IInv, NEW w \in writes, Written(w)
    PROVE  IInv'
<1>1. /\ writes' = writes \ {w} /\ seen' = Merge(seen, w)
      /\ UNCHANGED <<beat, pending, lost, faults>>
  BY DEF Written
<1>2. /\ DOMAIN seen' = Device
      /\ \A d \in DOMAIN w : seen'[d] = w[d] /\ w[d] \in Age /\ w[d] <= faults
      /\ \A d \in Device \ DOMAIN w : seen'[d] = seen[d]
  BY <1>1 DEF IInv, AgesOK, WaitsInTrouble, Merge
<1>3. seen' \in [Device -> Age]
  BY <1>1, <1>2 DEF IInv, AgesOK, Merge
<1>4. AgesOK' /\ WaitsInTrouble'
  BY <1>1, <1>3 DEF IInv, AgesOK, WaitsInTrouble
<1>5. LastSeenLags'
  BY <1>1, <1>2, OldIsNat DEF IInv, AgesOK, LastSeenLags, Age
<1> QED BY <1>4, <1>5 DEF IInv

LEMMA NotWrittenStep ==
    ASSUME IInv, NEW w \in writes, NotWritten(w)
    PROVE  IInv'
<1> DEFINE D == {x \in DOMAIN w : x \notin DOMAIN pending \/ pending[x] > w[x]}
           g == [d \in D |-> w[d]]
<1>1. /\ writes' = writes \ {w} /\ pending' = Merge(pending, g)
      /\ UNCHANGED <<beat, seen, lost, faults>>
  BY DEF NotWritten
<1>2. DOMAIN g = D /\ \A d \in D : g[d] = w[d]
  OBVIOUS
<1>3. DOMAIN pending \cup D = DOMAIN pending \cup DOMAIN w /\ D \subseteq DOMAIN w
  OBVIOUS
<1> HIDE DEF g, D
<1>4. /\ DOMAIN pending' = DOMAIN pending \cup DOMAIN w
      /\ \A x \in DOMAIN pending' : (x \in DOMAIN pending /\ pending'[x] = pending[x])
                                    \/ (x \in DOMAIN w /\ pending'[x] = w[x])
  BY <1>1, <1>2, <1>3 DEF Merge
<1> QED BY <1>1, <1>4 DEF IInv, AgesOK, WaitsInTrouble, LastSeenLags

\* 30 s pass: a heartbeat that still waits is one tick older, in trouble.
LEMMA TickStep ==
    ASSUME IInv, Tick
    PROVE  IInv'
<1> DEFINE aged(f) == [d \in DOMAIN f |-> Older(f[d])]
<1>1. /\ down \/ pending = Nothing
      /\ faults' = IF down \/ writes # {} THEN faults + 1 ELSE faults
      /\ beat' = aged(beat) /\ seen' = aged(seen) /\ pending' = aged(pending)
      /\ writes' = {aged(w) : w \in writes} /\ lost' = lost
  BY DEF Tick
<1>2. \A f : DOMAIN aged(f) = DOMAIN f /\ \A d \in DOMAIN f : aged(f)[d] = Older(f[d])
  OBVIOUS
<1>3. faults \in Nat /\ faults' \in Nat /\ faults <= faults' /\ faults' <= faults + 1
  BY <1>1 DEF IInv, AgesOK
<1>4. (writes # {} \/ DOMAIN pending # {}) => faults' = faults + 1
  BY <1>1 DEF Nothing
<1>5. /\ beat' \in [Device -> Age] /\ seen' \in [Device -> Age]
      /\ \A d \in Device : beat'[d] = Older(beat[d]) /\ seen'[d] = Older(seen[d])
  BY <1>1, OlderIsAge DEF IInv, AgesOK
<1>6. /\ DOMAIN pending' = DOMAIN pending
      /\ \A d \in DOMAIN pending : pending'[d] = Older(pending[d])
      /\ \A v \in writes' : \E w \in writes :
            DOMAIN v = DOMAIN w /\ \A d \in DOMAIN w : v[d] = Older(w[d])
      /\ \A w \in writes : \E v \in writes' : DOMAIN v = DOMAIN w
  <2>1. \A w \in writes : aged(w) \in writes'
    BY <1>1
  <2>2. \A v \in writes' : \E w \in writes : v = aged(w)
    BY <1>1
  <2>3. pending' = aged(pending)
    BY <1>1
  <2> HIDE DEF aged
  <2> QED BY <1>2, <2>1, <2>2, <2>3
<1> HIDE DEF aged
<1>7. AgesOK'
  BY <1>3, <1>5, <1>6 DEF IInv, AgesOK
<1>8. WaitsInTrouble'
  <2>1. \A a \in Age : a <= faults => Older(a) \in Age /\ Older(a) <= faults + 1
    BY <1>3, OlderIsAge, OldIsNat DEF Age
  <2>2. \A d \in DOMAIN pending' : pending'[d] \in Age /\ pending'[d] <= faults'
    BY <1>4, <1>6, <2>1 DEF IInv, WaitsInTrouble
  <2>3. ASSUME NEW v \in writes', NEW d \in DOMAIN v
        PROVE  v[d] \in Age /\ v[d] <= faults'
    BY <1>4, <1>6, <2>1, <2>3 DEF IInv, WaitsInTrouble
  <2> QED BY <2>2, <2>3 DEF WaitsInTrouble
<1>9. LastSeenLags'
  <2> SUFFICES ASSUME NEW d \in Device, d \notin DOMAIN pending', d \notin lost',
                      \A v \in writes' : d \notin DOMAIN v
               PROVE  seen'[d] <= beat'[d] + faults'
    BY DEF LastSeenLags
  <2>1. seen[d] <= beat[d] + faults /\ seen[d] \in Age /\ beat[d] \in Age
    BY <1>1, <1>6 DEF IInv, AgesOK, LastSeenLags
  <2>2. /\ seen'[d] = seen[d] + 1 \/ (seen[d] = Old /\ seen'[d] = Old)
        /\ beat'[d] = beat[d] + 1 \/ (beat[d] = Old /\ beat'[d] = Old)
        /\ seen'[d] \in Age /\ beat'[d] \in Age
    BY <1>5, <2>1, OlderIsAge
  <2> QED BY <1>3, <2>1, <2>2, OldIsNat DEF Age
<1> QED BY <1>7, <1>8, <1>9 DEF IInv

\* The process dies: what waited is counted as lost.
LEMMA CrashStep ==
    ASSUME IInv, Crash
    PROVE  IInv'
<1>1. /\ faults' = faults + 1 /\ DOMAIN pending' = {} /\ writes' = {}
      /\ lost' = lost \cup DOMAIN pending \cup UNION {DOMAIN w : w \in writes}
      /\ UNCHANGED <<beat, seen>>
  BY DEF Crash, Nothing
<1>2. AgesOK' /\ WaitsInTrouble'
  BY <1>1 DEF IInv, AgesOK, WaitsInTrouble
<1>3. \A d : d \notin lost' => d \notin lost /\ d \notin DOMAIN pending
                               /\ \A w \in writes : d \notin DOMAIN w
  BY <1>1
<1>4. LastSeenLags'
  BY <1>1, <1>3, OldIsNat DEF IInv, AgesOK, LastSeenLags, Age
<1> QED BY <1>2, <1>4 DEF IInv

LEMMA NextKeeps == IInv /\ [Next]_vars => IInv'
<1> SUFFICES ASSUME IInv, [Next]_vars
             PROVE  IInv'
  OBVIOUS
<1> DEFINE same == UNCHANGED <<beat, pending, writes, seen, lost, faults>>
<1>1. CASE same
  BY <1>1 DEF IInv, AgesOK, WaitsInTrouble, LastSeenLags
<1>2. CASE UNCHANGED vars
  BY <1>1, <1>2 DEF vars, server
<1>3. ASSUME NEW d \in Device,
             StartOrStop(d) \/ CheckUser(d) \/ CacheUser(d) \/ Expire(d) \/ Activity(d)
             \/ SweepEmits(d)
      PROVE  IInv'
  BY <1>1, <1>3 DEF StartOrStop, CheckUser, CacheUser, Expire, Activity, SweepEmits, server
<1>4. ASSUME NEW u \in User, SetActive(u)
      PROVE  IInv'
  BY <1>1, <1>4 DEF SetActive, server
<1>5. CASE SweepReads \/ SweepEnds \/ Seed \/ Disconnect \/ Connect \/ DatabaseReturns
  BY <1>1, <1>5 DEF SweepReads, SweepEnds, Seed, Disconnect, Connect, DatabaseReturns, server
<1>6. CASE DatabaseGoes
  <2>1. faults' = faults + 1 /\ UNCHANGED <<beat, pending, writes, seen, lost>>
    BY <1>6 DEF DatabaseGoes
  <2>2. AgesOK'
    BY <2>1 DEF IInv, AgesOK
  <2>3. WaitsInTrouble' /\ LastSeenLags'
    BY <2>1, OldIsNat DEF IInv, AgesOK, WaitsInTrouble, LastSeenLags, Age
  <2> QED BY <2>2, <2>3 DEF IInv
<1> QED
  BY <1>2, <1>3, <1>4, <1>5, <1>6, HeartbeatStep, FlushStep, WrittenStep, NotWrittenStep, TickStep,
     CrashStep
     DEF Next

\* Flushes that overlap, fail and are done in any order (HeartbeatBufferService,
\* flush every 5 s without waiting for the last), and crashes in between: once no
\* UPDATE with a device is pending, its last_seen_at is behind its last heartbeat
\* by the ticks of trouble at most, unless a crash took that heartbeat.
THEOREM LastSeenKeepsUp == Spec => []LastSeenLags
<1>1. IInv => LastSeenLags
  BY DEF IInv
<1> QED BY <1>1, InitEstablishes, NextKeeps, PTL DEF Spec

=============================================================================
