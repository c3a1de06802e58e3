--------------------------- MODULE ServicesProofs ---------------------------
(***************************************************************************)
(* Theorems about the services of the API and the browser's session, for   *)
(* any number of requests, in flight or not, of sockets, viewers, devices, *)
(* calls, replicas and rows.  Each service has an inductive invariant of   *)
(* its own; a step of another service leaves its variables alone.  First   *)
(* the services whose handlers interleave at every await (Requests), then  *)
(* the others.                                                             *)
(***************************************************************************)
EXTENDS Services, SequenceTheorems, TLAPS

USE ServicesAssumption DEF ServicesAssumption

-----------------------------------------------------------------------------
(* Requests: they are numbered, and any two in flight were handled at one   *)
(* time.                                                                    *)

Numbered ==
    /\ begun \in Nat
    /\ \A r \in flight : r.id \in 1 .. begun
    /\ \A r, q \in flight : r # q => r.id # q.id /\ {r.id, q.id} \in together

\* What a step may do to the requests: one arrives, ends, or goes on as q.
Arrives(r) ==
    /\ r.id = begun + 1 /\ begun' = begun + 1 /\ flight' = flight \cup {r}
    /\ together' = together \cup {{r.id, q.id} : q \in flight} /\ failed' = failed

Leaves(r) ==
    /\ flight' = flight \ {r} /\ failed \subseteq failed' /\ UNCHANGED <<begun, together>>

Continues(r, q) ==
    /\ q.id = r.id /\ flight' = (flight \ {r}) \cup {q}
    /\ UNCHANGED <<begun, together, failed>>

LEMMA ArrivalKeepsNumbers ==
    ASSUME Numbered, NEW r, Arrives(r)
    PROVE  /\ Numbered' /\ together \subseteq together'
           /\ \A q \in flight : q # r /\ q.id # r.id
BY DEF Numbered, Arrives

LEMMA EndKeepsNumbers ==
    ASSUME Numbered, NEW r \in flight, Leaves(r)
    PROVE  /\ Numbered' /\ together \subseteq together'
           /\ \A q \in flight' : q # r /\ q.id # r.id
BY DEF Numbered, Leaves

LEMMA AwaitKeepsNumbers ==
    ASSUME Numbered, NEW r \in flight, NEW q, Continues(r, q)
    PROVE  /\ Numbered' /\ together \subseteq together'
           /\ \A p \in flight \ {r} : p # q /\ p.id # q.id
BY DEF Numbered, Continues

\* A request that is under way overlapped all that have arrived after it.
OverlapsLater ==
    \A r \in flight, i \in 1 .. begun : r.id < i => {r.id, i} \in together

LEMMA ArrivalOverlaps ==
    ASSUME Numbered, OverlapsLater, NEW r, Arrives(r)
    PROVE  OverlapsLater'
<1>1. /\ r.id = begun + 1 /\ begun' = begun + 1 /\ flight' = flight \cup {r} /\ begun \in Nat
      /\ together' = together \cup {{r.id, q.id} : q \in flight}
  BY DEF Arrives, Numbered
<1>2. ASSUME NEW q \in flight', NEW i \in 1 .. begun + 1, q.id < i
      PROVE  {q.id, i} \in together'
  <2>1. q \in flight
    BY <1>1, <1>2
  <2>2. CASE i = begun + 1
    <3>1. {q.id, i} = {r.id, q.id}
      BY <1>1, <2>2
    <3> QED BY <1>1, <2>1, <3>1
  <2>3. CASE i \in 1 .. begun
    BY <1>1, <1>2, <2>1, <2>3 DEF OverlapsLater
  <2> QED BY <1>1, <2>2, <2>3
<1> QED BY <1>1, <1>2 DEF OverlapsLater

-----------------------------------------------------------------------------
(* Time tracking *)

TimeFields == {"id", "op", "user", "at", "row", "counted", "todo"}

\* How far a handler has come.
TimePlan(r) ==
    \/ r.op = "clockIn" /\ r.todo \in {<<"noneOpen", "clockIn">>, <<"clockIn">>}
    \/ r.op = "clockOut"
       /\ r.todo \in {<<"open", "close", "entry">>, <<"close", "entry">>, <<"entry">>}
    \/ r.op = "manual" /\ r.todo = <<"manual">>
    \/ r.op = "delete" /\ r.todo \in {<<"manualEntry", "delete">>, <<"delete">>}
    \/ r.op = "submit"
       /\ r.todo \in {<<"sheet", "count", "submit">>, <<"count", "submit">>, <<"submit">>}
    \/ r.op = "approve" /\ r.todo \in {<<"submitted", "approve">>, <<"approve">>}
    \/ r.op = "reject" /\ r.todo \in {<<"submitted", "reject">>, <<"reject">>}

SessionRow(a) ==
    DOMAIN a = {"id", "user", "at", "closed"} /\ a.id \in Nat \ {0} /\ a.at \in StartTime

SheetRow(s) ==
    DOMAIN s = {"user", "week", "status", "counted", "since", "counter", "by"}

\* The row of the timesheet that r is about, as r has read it.
OwnSheet(r) == SheetRow(r.row) /\ r.row.user = r.user /\ r.row.week = TT!Day(r.at)

\* What a request carries from one await to the next.
TimeRequest(r) ==
    /\ DOMAIN r = TimeFields /\ TimePlan(r)
    /\ r.op \in {"clockIn", "manual"} => r.at \in StartTime
    /\ Head(r.todo) = "sheet" => r.row = TT!NoRow
    /\ Head(r.todo) \in {"close", "entry"} => SessionRow(r.row)
    /\ Head(r.todo) \in {"count", "submit"} => r.row = TT!NoRow \/ OwnSheet(r)
    /\ Head(r.todo) \in {"approve", "reject"} => OwnSheet(r)

\* A session has the number of the request that opened it, which is over.
SessionsNumbered ==
    /\ \A a \in attendance : SessionRow(a) /\ a.id \in 1 .. begun /\ a.closed \in 0 .. begun
    /\ \A a, b \in attendance : a.id = b.id => a = b
    /\ \A r \in flight, a \in attendance : r.op = "clockIn" => a.id # r.id

\* Who is about to clock in overlapped every request that has opened a session of
\* the user by now: there was none when he looked.
ClockInOverlaps ==
    \A r \in flight, a \in attendance :
        Head(r.todo) = "clockIn" /\ a.user = r.user => {a.id, r.id} \in together

\* A session that was found stays, and who has closed one is about to write its
\* time entry.
ClosersGoOn ==
    /\ \A r \in flight : Head(r.todo) \in {"close", "entry"} =>
          \E a \in attendance : a.id = r.row.id /\ a.user = r.row.user
    /\ \A r \in flight, a \in attendance :
          a.closed = r.id => Head(r.todo) = "entry" /\ r.row.id = a.id

EntriesNumbered ==
    /\ \A e \in entries : /\ e.id \in 1 .. begun /\ e.at \in StartTime
                          /\ e.source = "manual" => e.attendance = 0
    /\ \A e \in entries, r \in flight : r.id # e.id
    /\ \A e, f \in entries : e.id = f.id => e = f

\* Who is about to delete an entry has seen that it was made by hand, and no
\* other entry gets its number.
DeletesManual ==
    \A r \in flight : r.op = "delete" =>
        /\ r.at \in 1 .. begun /\ \A q \in flight : q.id # r.at
        /\ Head(r.todo) = "delete" => \A e \in entries : e.id = r.at => e.source = "manual"

OneSheetPerWeek ==
    /\ \A s \in sheets : SheetRow(s)
    /\ \A s, t \in sheets : s.user = t.user /\ s.week = t.week => s = t

\* A request that is past its look at the timesheet overlapped an approval that
\* is there now.
ApprovalOverlaps ==
    \A r \in flight, s \in sheets :
        Head(r.todo) \in {"count", "submit", "approve", "reject"}
        /\ s.user = r.user /\ s.week = TT!Day(r.at) /\ s.status = "approved"
            => {r.id, s.by} \in together

\* The request with the number id has counted E for the seven days from `since'.
CountedBy(E, user, since, id) ==
    /\ id \in 1 .. begun
    /\ \A e \in entries :
         e.user = user /\ TT!InWeek(e.at, since) /\ e.id < id
             => e \in E \/ {e.id, id} \in together
    /\ \A e \in E : e \in entries \/ e.source = "manual"

\* What has been counted is complete in the table, in a request about to save it
\* there, and in one that has read it there and is about to save it again.
SheetsComplete ==
    /\ \A s \in sheets : CountedBy(s.counted, s.user, s.since, s.counter)
    /\ \A r \in flight : Head(r.todo) = "submit" => CountedBy(r.counted, r.user, r.at, r.id)
    /\ \A r \in flight : Head(r.todo) \in {"approve", "reject"} =>
         CountedBy(r.row.counted, r.row.user, r.row.since, r.row.counter)

TimeTables ==
    /\ SessionsNumbered /\ ClockInOverlaps /\ ClosersGoOn /\ EntriesNumbered
    /\ DeletesManual /\ OneSheetPerWeek /\ ApprovalOverlaps
    /\ OverlapsLater /\ SheetsComplete
    /\ TT!OneSessionUnlessRaced /\ TT!ClosedSessionIsCounted

TimeGood == Numbered /\ (\A r \in flight : TimeRequest(r)) /\ TimeTables

\* The service starts with empty tables and leaves them to its own handlers.
TimeInv ==
    /\ focus # "time" => attendance = {} /\ entries = {} /\ sheets = {}
    /\ focus = "time" => TimeGood

\* A count stays complete while requests come and go: who saves an entry later
\* was under way, and only entries made by hand are deleted.
LEMMA CountKept ==
    ASSUME NEW E, NEW u, NEW t, NEW id, CountedBy(E, u, t, id),
           begun \in Nat, begun' \in {begun, begun + 1}, together \subseteq together',
           \A e \in entries : e \in entries' \/ e.source = "manual",
           \A e \in entries' : e \in entries \/ \E r \in flight : e.id = r.id,
           OverlapsLater
    PROVE  CountedBy(E, u, t, id)'
BY DEF CountedBy, OverlapsLater, TT!InWeek

\* The same for the tables and for what requests carry that stay as they are.
LEMMA CountsKept ==
    ASSUME TimeGood, begun' \in {begun, begun + 1}, together \subseteq together',
           \A e \in entries : e \in entries' \/ e.source = "manual",
           \A e \in entries' : e \in entries \/ \E r \in flight : e.id = r.id
    PROVE  /\ \A s \in sheets : CountedBy(s.counted, s.user, s.since, s.counter)'
           /\ \A r \in flight : /\ Head(r.todo) = "submit" =>
                                       CountedBy(r.counted, r.user, r.at, r.id)'
                                /\ Head(r.todo) \in {"approve", "reject"} =>
                                       CountedBy(r.row.counted, r.row.user, r.row.since,
                                                 r.row.counter)'
<1>1. begun \in Nat /\ OverlapsLater
  BY DEF TimeGood, TimeTables, Numbered
<1>2. \A E, u, t, id : CountedBy(E, u, t, id) => CountedBy(E, u, t, id)'
  BY <1>1, CountKept
<1>3. SheetsComplete
  BY DEF TimeGood, TimeTables
<1> QED BY <1>2, <1>3 DEF SheetsComplete

\* No timesheet is written; a request may go on with what it has read or counted.
LEMMA CountsStay ==
    ASSUME TimeGood, begun' = begun, together' = together, sheets' = sheets,
           \A e \in entries : e \in entries' \/ e.source = "manual",
           \A e \in entries' : e \in entries \/ \E r \in flight : e.id = r.id,
           \A q \in flight' : q \in flight \/
               /\ \E r \in flight : q.id = r.id
               /\ Head(q.todo) = "submit" => CountedBy(q.counted, q.user, q.at, q.id)
               /\ Head(q.todo) \in {"approve", "reject"} =>
                    CountedBy(q.row.counted, q.row.user, q.row.since, q.row.counter)
    PROVE  OverlapsLater' /\ SheetsComplete'
<1>1. begun \in Nat /\ OverlapsLater /\ SheetsComplete
  BY DEF TimeGood, TimeTables, Numbered
<1>2. \A E, u, t, id : CountedBy(E, u, t, id) => CountedBy(E, u, t, id)'
  BY <1>1, CountKept
<1>3. OverlapsLater'
  BY <1>1 DEF OverlapsLater
<1>4. SheetsComplete'
  BY <1>1, <1>2 DEF SheetsComplete
<1> QED BY <1>3, <1>4

\* A request ends and changes nothing.
LEMMA TimeEnd ==
    ASSUME TimeGood, NEW r \in flight, Leaves(r), UNCHANGED <<attendance, entries, sheets>>,
           Head(r.todo) = "entry" => r.id \in failed'
    PROVE  TimeGood'
<1>1. /\ flight' = flight \ {r} /\ begun' = begun /\ together' = together
      /\ attendance' = attendance /\ entries' = entries /\ sheets' = sheets
      /\ failed \subseteq failed'
  BY DEF Leaves
<1>2. Numbered' /\ \A q \in flight' : TimeRequest(q)
  BY <1>1, EndKeepsNumbers DEF TimeGood
<1>3. SessionsNumbered' /\ ClockInOverlaps' /\ ClosersGoOn'
  BY <1>1 DEF TimeGood, TimeTables, SessionsNumbered, ClockInOverlaps, ClosersGoOn
<1>4. EntriesNumbered' /\ DeletesManual'
  BY <1>1 DEF TimeGood, TimeTables, EntriesNumbered, DeletesManual
<1>5. OneSheetPerWeek' /\ ApprovalOverlaps'
  BY <1>1 DEF TimeGood, TimeTables, OneSheetPerWeek, ApprovalOverlaps
<1>6. (TT!OneSessionUnlessRaced)'
  BY <1>1 DEF TimeGood, TimeTables, TT!OneSessionUnlessRaced, TT!Overlapped
<1>7. (TT!ClosedSessionIsCounted)'
  BY <1>1 DEF TimeGood, TimeTables, TT!ClosedSessionIsCounted, ClosersGoOn
<1>8. OverlapsLater' /\ SheetsComplete'
  BY <1>1, CountsStay
<1> QED BY <1>2, <1>3, <1>4, <1>5, <1>6, <1>7, <1>8 DEF TimeGood, TimeTables

\* A request looks and goes on as q.
LEMMA TimeLook ==
    ASSUME TimeGood, NEW r \in flight, NEW q, Continues(r, q), TimeRequest(q),
           UNCHANGED <<attendance, entries, sheets>>,
           q.op = r.op, q.user = r.user, q.at = r.at,
           Head(r.todo) # "entry", Head(q.todo) # "entry",
           Head(q.todo) = "clockIn" => \A a \in attendance : a.user # r.user,
           Head(q.todo) = "close" =>
               \E a \in attendance : a.id = q.row.id /\ a.user = q.row.user,
           Head(q.todo) = "delete" => \A e \in entries : e.id = r.at => e.source = "manual",
           Head(q.todo) \in {"count", "submit", "approve", "reject"} =>
               \A s \in sheets : s.user = r.user /\ s.week = TT!Day(r.at) /\ s.status = "approved"
                   => Head(r.todo) = "count",
           Head(q.todo) = "submit" => CountedBy(q.counted, q.user, q.at, q.id),
           Head(q.todo) \in {"approve", "reject"} =>
               CountedBy(q.row.counted, q.row.user, q.row.since, q.row.counter)
    PROVE  TimeGood'
<1>1. /\ flight' = (flight \ {r}) \cup {q} /\ begun' = begun /\ together' = together
      /\ attendance' = attendance /\ entries' = entries /\ sheets' = sheets
      /\ failed' = failed /\ q.id = r.id
  BY DEF Continues
<1>2. Numbered' /\ \A p \in flight' : TimeRequest(p)
  BY <1>1, AwaitKeepsNumbers DEF TimeGood
<1>3. SessionsNumbered' /\ ClockInOverlaps'
  BY <1>1 DEF TimeGood, TimeTables, SessionsNumbered, ClockInOverlaps
<1>4. ClosersGoOn'
  BY <1>1 DEF TimeGood, TimeTables, ClosersGoOn
<1>5. EntriesNumbered' /\ DeletesManual'
  BY <1>1 DEF TimeGood, TimeTables, EntriesNumbered, DeletesManual
<1>6. OneSheetPerWeek' /\ ApprovalOverlaps'
  <2>1. OneSheetPerWeek'
    BY <1>1 DEF TimeGood, TimeTables, OneSheetPerWeek
  <2>2. ASSUME NEW p \in flight', NEW s \in sheets',
               Head(p.todo) \in {"count", "submit", "approve", "reject"},
               s.user = p.user, s.week = TT!Day(p.at), s.status = "approved"
        PROVE  {p.id, s.by} \in together'
    <3>1. CASE p \in flight
      BY <1>1, <2>2, <3>1 DEF TimeGood, TimeTables, ApprovalOverlaps
    <3>2. CASE p = q
      BY <1>1, <2>2, <3>2 DEF TimeGood, TimeTables, ApprovalOverlaps
    <3> QED BY <1>1, <3>1, <3>2
  <2> QED BY <2>1, <2>2 DEF ApprovalOverlaps
<1>7. (TT!OneSessionUnlessRaced)'
  BY <1>1 DEF TimeGood, TimeTables, TT!OneSessionUnlessRaced, TT!Overlapped
<1>8. (TT!ClosedSessionIsCounted)'
  BY <1>1 DEF TimeGood, TimeTables, TT!ClosedSessionIsCounted
<1>9. OverlapsLater' /\ SheetsComplete'
  BY <1>1, CountsStay
<1> QED BY <1>2, <1>3, <1>4, <1>5, <1>6, <1>7, <1>8, <1>9 DEF TimeGood, TimeTables

\* A request arrives: its number is new.
LEMMA TimeArrival ==
    ASSUME TimeGood, NEW u, TT!Asked(u)
    PROVE  TimeGood'
<1>1. PICK r : /\ TT!Arrive(r) /\ TimeRequest(r) /\ r.id = begun + 1
               /\ Head(r.todo) \in {"noneOpen", "open", "manual", "manualEntry", "sheet",
                                    "submitted"}
               /\ r.op = "delete" => \E e \in entries : e.id = r.at
  <2> DEFINE R(op, at, todo) == [id |-> begun + 1, op |-> op, user |-> u, at |-> at,
                                 row |-> TT!NoRow, counted |-> {}, todo |-> todo]
  <2>1. CASE \E t \in StartTime : TT!Arrive(R("clockIn", t, <<"noneOpen", "clockIn">>))
    <3> PICK t \in StartTime : TT!Arrive(R("clockIn", t, <<"noneOpen", "clockIn">>))
      BY <2>1
    <3>1. TimeRequest(R("clockIn", t, <<"noneOpen", "clockIn">>))
      BY DEF TimeRequest, TimePlan, TimeFields
    <3> QED BY <3>1
  <2>2. CASE TT!Arrive(R("clockOut", 0, <<"open", "close", "entry">>))
    <3>1. TimeRequest(R("clockOut", 0, <<"open", "close", "entry">>))
      BY DEF TimeRequest, TimePlan, TimeFields
    <3> QED BY <2>2, <3>1
  <2>3. CASE \E t \in StartTime : TT!Arrive(R("manual", t, <<"manual">>))
    <3> PICK t \in StartTime : TT!Arrive(R("manual", t, <<"manual">>))
      BY <2>3
    <3>1. TimeRequest(R("manual", t, <<"manual">>))
      BY DEF TimeRequest, TimePlan, TimeFields
    <3> QED BY <3>1
  <2>4. CASE \E e \in entries : TT!Arrive(R("delete", e.id, <<"manualEntry", "delete">>))
    <3> PICK e \in entries : TT!Arrive(R("delete", e.id, <<"manualEntry", "delete">>))
      BY <2>4
    <3>1. TimeRequest(R("delete", e.id, <<"manualEntry", "delete">>))
      BY DEF TimeRequest, TimePlan, TimeFields
    <3> QED BY <3>1
  <2>5. CASE \E t \in TT!WeekStart : TT!Arrive(R("submit", t, <<"sheet", "count", "submit">>))
    <3> PICK t \in TT!WeekStart : TT!Arrive(R("submit", t, <<"sheet", "count", "submit">>))
      BY <2>5
    <3>1. TimeRequest(R("submit", t, <<"sheet", "count", "submit">>))
      BY DEF TimeRequest, TimePlan, TimeFields
    <3> QED BY <3>1
  <2>6. CASE \E s \in sheets :
               \/ TT!Arrive(R("approve", TT!Midnight(s.week), <<"submitted", "approve">>))
               \/ TT!Arrive(R("reject", TT!Midnight(s.week), <<"submitted", "reject">>))
    <3> PICK t : \/ TT!Arrive(R("approve", t, <<"submitted", "approve">>))
                 \/ TT!Arrive(R("reject", t, <<"submitted", "reject">>))
      BY <2>6
    <3>1. /\ TimeRequest(R("approve", t, <<"submitted", "approve">>))
          /\ TimeRequest(R("reject", t, <<"submitted", "reject">>))
      BY DEF TimeRequest, TimePlan, TimeFields
    <3> QED BY <3>1
  <2> QED
    BY <2>1, <2>2, <2>3, <2>4, <2>5, <2>6
       DEF TT!Asked, TT!Request, TT!ClockIn, TT!ClockOut, TT!CreateManualEntry, TT!DeleteEntry,
           TT!SubmitTimesheet, TT!ApproveTimesheet, TT!RejectTimesheet
<1>2. /\ Arrives(r) /\ attendance' = attendance /\ entries' = entries /\ sheets' = sheets
      /\ begun' = begun + 1 /\ flight' = flight \cup {r} /\ failed' = failed
  BY <1>1 DEF TT!Arrive, Arrives, TT!Asked, TT!tables
<1>3. Numbered' /\ together \subseteq together' /\ begun \in Nat
  BY <1>2, ArrivalKeepsNumbers DEF TimeGood, Numbered
<1>4. \A p \in flight' : TimeRequest(p)
  BY <1>1, <1>2 DEF TimeGood
<1>5. SessionsNumbered' /\ ClockInOverlaps' /\ ClosersGoOn'
  BY <1>1, <1>2, <1>3 DEF TimeGood, TimeTables, SessionsNumbered, ClockInOverlaps, ClosersGoOn
<1>6. EntriesNumbered' /\ DeletesManual'
  BY <1>1, <1>2, <1>3 DEF TimeGood, TimeTables, EntriesNumbered, DeletesManual
<1>7. OneSheetPerWeek' /\ ApprovalOverlaps'
  <2>1. OneSheetPerWeek'
    BY <1>2 DEF TimeGood, TimeTables, OneSheetPerWeek
  <2>2. ApprovalOverlaps'
    BY <1>1, <1>2, <1>3 DEF TimeGood, TimeTables, ApprovalOverlaps
  <2> QED BY <2>1, <2>2
<1>8. (TT!OneSessionUnlessRaced)' /\ (TT!ClosedSessionIsCounted)'
  BY <1>2, <1>3 DEF TimeGood, TimeTables, TT!OneSessionUnlessRaced, TT!Overlapped,
                    TT!ClosedSessionIsCounted
<1>9. OverlapsLater'
  BY <1>2, ArrivalOverlaps DEF TimeGood, TimeTables
<1>10. SheetsComplete'
  BY <1>1, <1>2, <1>3, CountsKept DEF SheetsComplete
<1> QED BY <1>3, <1>4, <1>5, <1>6, <1>7, <1>8, <1>9, <1>10 DEF TimeGood, TimeTables

\* An await that is not the last: q is p without it.
LEMMA TimeGoesOn ==
    ASSUME NEW r, NEW p, TT!GoOnAs(r, p), Len(p.todo) # 1, p.id = r.id,
           DOMAIN p = TimeFields
    PROVE  \E q : /\ Continues(r, q) /\ DOMAIN q = TimeFields
                  /\ q.op = p.op /\ q.user = p.user /\ q.at = p.at /\ q.row = p.row
                  /\ q.counted = p.counted /\ q.todo = Tail(p.todo)
<1> DEFINE q == [p EXCEPT !.todo = Tail(@)]
<1>1. Continues(r, q)
  BY DEF TT!GoOnAs, Continues, TimeFields
<1>2. /\ DOMAIN q = TimeFields /\ q.op = p.op /\ q.user = p.user /\ q.at = p.at
      /\ q.row = p.row /\ q.counted = p.counted /\ q.todo = Tail(p.todo)
  BY DEF TimeFields
<1> HIDE DEF q
<1> QED BY <1>1, <1>2

LEMMA TimeLastAwait ==
    ASSUME NEW r, TT!GoOn(r), Len(r.todo) = 1
    PROVE  Leaves(r)
BY DEF TT!GoOn, TT!GoOnAs, Leaves

LEMMA TimeStops ==
    ASSUME NEW r, TT!Stop(r) \/ TT!Throw(r)
    PROVE  Leaves(r) /\ (TT!Throw(r) => r.id \in failed')
BY DEF TT!Stop, TT!Throw, Leaves

\* The awaits that only look.
LEMMA TimeReads ==
    ASSUME TimeGood, NEW r \in flight,
           \/ TT!NoneOpen(r) \/ TT!Open(r) \/ TT!FindManual(r) \/ TT!FindSheet(r) \/ TT!Count(r)
           \/ TT!FindSubmitted(r) \/ (TT!Throw(r) /\ UNCHANGED TT!tables)
    PROVE  TimeGood'
<1>1. TimeRequest(r) /\ DOMAIN r = TimeFields /\ TimePlan(r)
  BY DEF TimeGood, TimeRequest
<1>2. UNCHANGED <<attendance, entries, sheets>>
  BY DEF TT!NoneOpen, TT!Open, TT!FindManual, TT!FindSheet, TT!Count, TT!FindSubmitted, TT!tables
<1>3. ASSUME TT!Stop(r), Head(r.todo) # "entry"
      PROVE  TimeGood'
  BY <1>2, <1>3, TimeStops, TimeEnd
<1>4. CASE TT!Throw(r)
  BY <1>2, <1>4, TimeStops, TimeEnd
<1>5. CASE TT!NoneOpen(r)
  <2>1. r.op = "clockIn" /\ r.todo = <<"noneOpen", "clockIn">>
    BY <1>1, <1>5 DEF TimePlan, TT!NoneOpen, TT!IsAt
  <2>2. Head(r.todo) = "noneOpen" /\ Len(r.todo) = 2
    BY <2>1
  <2>3. CASE TT!GoOn(r) /\ TT!Found(r.user) = {}
    <3>1. PICK q : /\ Continues(r, q) /\ DOMAIN q = TimeFields
                   /\ q.op = r.op /\ q.user = r.user /\ q.at = r.at /\ q.todo = Tail(r.todo)
      BY <1>1, <2>2, <2>3, TimeGoesOn DEF TT!GoOn
    <3>2. q.todo = <<"clockIn">> /\ Head(q.todo) = "clockIn"
      BY <3>1, <2>1
    <3>3. TimeRequest(q)
      BY <1>1, <2>1, <3>1, <3>2 DEF TimeRequest, TimePlan
    <3> QED BY <1>2, <2>2, <2>3, <3>1, <3>2, <3>3, TimeLook DEF TT!Found
  <2> QED BY <1>3, <1>5, <2>2, <2>3 DEF TT!NoneOpen
<1>6. CASE TT!Open(r)
  <2>1. r.op = "clockOut" /\ r.todo = <<"open", "close", "entry">>
    BY <1>1, <1>6 DEF TimePlan, TT!Open, TT!IsAt
  <2>2. Head(r.todo) = "open" /\ Len(r.todo) = 3
    BY <2>1
  <2>3. ASSUME NEW a \in TT!Found(r.user), TT!GoOnAs(r, [r EXCEPT !.row = a])
        PROVE  TimeGood'
    <3> DEFINE p == [r EXCEPT !.row = a]
    <3>1. /\ DOMAIN p = TimeFields /\ p.id = r.id /\ p.op = r.op /\ p.user = r.user
          /\ p.at = r.at /\ p.todo = r.todo /\ p.row = a /\ TT!GoOnAs(r, p)
      BY <1>1, <2>3 DEF TimeFields
    <3> HIDE DEF p
    <3>2. PICK q : /\ Continues(r, q) /\ DOMAIN q = TimeFields /\ q.op = r.op
                   /\ q.user = r.user /\ q.at = r.at /\ q.row = a
                   /\ q.todo = Tail(r.todo)
      BY <2>2, <3>1, TimeGoesOn
    <3>3. q.todo = <<"close", "entry">> /\ Head(q.todo) = "close"
      BY <3>2, <2>1
    <3>4. a \in attendance /\ SessionRow(a)
      BY DEF TT!Found, TimeGood, TimeTables, SessionsNumbered
    <3>5. TimeRequest(q)
      BY <1>1, <2>1, <3>2, <3>3, <3>4 DEF TimeRequest, TimePlan
    <3> QED BY <1>2, <2>2, <3>2, <3>3, <3>4, <3>5, TimeLook
  <2> QED BY <1>3, <1>6, <2>2, <2>3 DEF TT!Open
<1>7. CASE TT!FindManual(r)
  <2>1. r.op = "delete" /\ r.todo = <<"manualEntry", "delete">>
    BY <1>1, <1>7 DEF TimePlan, TT!FindManual, TT!IsAt
  <2>2. Head(r.todo) = "manualEntry" /\ Len(r.todo) = 2
    BY <2>1
  <2>3. CASE TT!GoOn(r) /\ \E e \in entries : e.id = r.at /\ e.source = "manual"
    <3>1. PICK q : /\ Continues(r, q) /\ DOMAIN q = TimeFields
                   /\ q.op = r.op /\ q.user = r.user /\ q.at = r.at /\ q.todo = Tail(r.todo)
      BY <1>1, <2>2, <2>3, TimeGoesOn DEF TT!GoOn
    <3>2. q.todo = <<"delete">> /\ Head(q.todo) = "delete"
      BY <3>1, <2>1
    <3>3. TimeRequest(q)
      BY <1>1, <2>1, <3>1, <3>2 DEF TimeRequest, TimePlan
    <3>4. \A e \in entries : e.id = r.at => e.source = "manual"
      BY <2>3 DEF TimeGood, TimeTables, EntriesNumbered
    <3> QED BY <1>2, <2>2, <3>1, <3>2, <3>3, <3>4, TimeLook
  <2> QED BY <1>3, <1>7, <2>2, <2>3 DEF TT!FindManual
<1>8. CASE TT!FindSheet(r)
  <2>1. r.op = "submit" /\ r.todo = <<"sheet", "count", "submit">>
    BY <1>1, <1>8 DEF TimePlan, TT!FindSheet, TT!IsAt
  <2>2. Head(r.todo) = "sheet" /\ Len(r.todo) = 3
    BY <2>1
  <2>3. ASSUME NEW p, TT!GoOnAs(r, p), DOMAIN p = TimeFields,
               p.id = r.id, p.op = r.op, p.user = r.user, p.at = r.at, p.todo = r.todo,
               \/ TT!SheetOf(r) = {} /\ p.row = TT!NoRow
               \/ p.row \in TT!SheetOf(r) /\ p.row.status # "approved"
        PROVE  TimeGood'
    <3>1. PICK q : /\ Continues(r, q) /\ DOMAIN q = TimeFields /\ q.op = r.op
                   /\ q.user = r.user /\ q.at = r.at /\ q.row = p.row
                   /\ q.todo = Tail(r.todo)
      BY <2>2, <2>3, TimeGoesOn
    <3>2. q.todo = <<"count", "submit">> /\ Head(q.todo) = "count"
      BY <3>1, <2>1
    <3>3. q.row = TT!NoRow \/ OwnSheet(q)
      BY <2>3, <3>1 DEF TT!SheetOf, TimeGood, TimeTables, OneSheetPerWeek, OwnSheet
    <3>4. TimeRequest(q)
      BY <1>1, <2>1, <3>1, <3>2, <3>3 DEF TimeRequest, TimePlan
    <3>5. \A s \in sheets : ~(s.user = r.user /\ s.week = TT!Day(r.at) /\ s.status = "approved")
      BY <2>3 DEF TT!SheetOf, TimeGood, TimeTables, OneSheetPerWeek
    <3> QED BY <1>2, <2>2, <3>1, <3>2, <3>4, <3>5, TimeLook
  <2>4. CASE TT!SheetOf(r) = {} /\ TT!GoOn(r)
    <3>1. r.row = TT!NoRow
      BY <1>1, <2>2 DEF TimeRequest
    <3> QED BY <1>1, <2>3, <2>4, <3>1 DEF TT!GoOn
  <2>5. ASSUME NEW x \in TT!SheetOf(r), x.status # "approved",
               TT!GoOnAs(r, [r EXCEPT !.row = x])
        PROVE  TimeGood'
    <3> DEFINE p == [r EXCEPT !.row = x]
    <3>1. /\ DOMAIN p = TimeFields /\ p.id = r.id /\ p.op = r.op /\ p.user = r.user
          /\ p.at = r.at /\ p.todo = r.todo /\ p.row = x
      BY <1>1 DEF TimeFields
    <3>2. TT!GoOnAs(r, p)
      BY <2>5
    <3> HIDE DEF p
    <3> QED BY <2>3, <2>5, <3>1, <3>2
  <2> QED BY <1>3, <1>8, <2>2, <2>4, <2>5 DEF TT!FindSheet
<1>9. CASE TT!Count(r)
  <2>1. r.op = "submit" /\ r.todo = <<"count", "submit">>
    BY <1>1, <1>9 DEF TimePlan, TT!Count, TT!IsAt
  <2>2. Head(r.todo) = "count" /\ Len(r.todo) = 2
    BY <2>1
  <2> DEFINE E == {e \in entries : e.user = r.user /\ TT!InWeek(e.at, r.at)}
             p == [r EXCEPT !.counted = E]
  <2>3. TT!GoOnAs(r, p)
    BY <1>9 DEF TT!Count
  <2>4. CountedBy(E, r.user, r.at, r.id)
    BY DEF CountedBy, TimeGood, Numbered
  <2> HIDE DEF E
  <2>5. /\ DOMAIN p = TimeFields /\ p.id = r.id /\ p.op = r.op /\ p.user = r.user
        /\ p.at = r.at /\ p.todo = r.todo /\ p.row = r.row /\ p.counted = E
    BY <1>1 DEF TimeFields
  <2> HIDE DEF p
  <2>6. PICK q : /\ Continues(r, q) /\ DOMAIN q = TimeFields /\ q.op = r.op
                 /\ q.user = r.user /\ q.at = r.at /\ q.row = r.row /\ q.counted = E
                 /\ q.todo = Tail(r.todo)
    BY <2>2, <2>3, <2>5, TimeGoesOn
  <2>7. q.todo = <<"submit">> /\ Head(q.todo) = "submit"
    BY <2>6, <2>1
  <2>8. TimeRequest(q)
    BY <1>1, <2>1, <2>2, <2>6, <2>7 DEF TimeRequest, TimePlan, OwnSheet
  <2>9. CountedBy(q.counted, q.user, q.at, q.id)
    BY <2>4, <2>6 DEF Continues
  <2> QED BY <1>2, <2>2, <2>6, <2>7, <2>8, <2>9, TimeLook
<1>10. CASE TT!FindSubmitted(r)
  <2>1. \/ r.op = "approve" /\ r.todo = <<"submitted", "approve">>
        \/ r.op = "reject" /\ r.todo = <<"submitted", "reject">>
    BY <1>1, <1>10 DEF TimePlan, TT!FindSubmitted, TT!IsAt
  <2>2. Head(r.todo) = "submitted" /\ Len(r.todo) = 2
    <3>1. CASE r.op = "approve" /\ r.todo = <<"submitted", "approve">>
      BY <3>1
    <3>2. CASE r.op = "reject" /\ r.todo = <<"submitted", "reject">>
      BY <3>2
    <3> QED BY <2>1, <3>1, <3>2
  <2>3. ASSUME NEW s \in TT!SheetOf(r), s.status = "submitted",
               TT!GoOnAs(r, [r EXCEPT !.row = s])
        PROVE  TimeGood'
    <3> DEFINE p == [r EXCEPT !.row = s]
    <3>1. /\ DOMAIN p = TimeFields /\ p.id = r.id /\ p.op = r.op /\ p.user = r.user
          /\ p.at = r.at /\ p.todo = r.todo /\ p.row = s /\ TT!GoOnAs(r, p)
      BY <1>1, <2>3 DEF TimeFields
    <3> HIDE DEF p
    <3>2. PICK q : /\ Continues(r, q) /\ DOMAIN q = TimeFields /\ q.op = r.op
                   /\ q.user = r.user /\ q.at = r.at /\ q.row = s /\ q.todo = Tail(r.todo)
      BY <2>2, <3>1, TimeGoesOn
    <3>3. q.todo = <<r.op>> /\ Head(q.todo) = r.op
      <4>1. CASE r.op = "approve" /\ r.todo = <<"submitted", "approve">>
        BY <3>2, <4>1
      <4>2. CASE r.op = "reject" /\ r.todo = <<"submitted", "reject">>
        BY <3>2, <4>2
      <4> QED BY <2>1, <4>1, <4>2
    <3>4. SheetRow(s) /\ s.user = r.user /\ s.week = TT!Day(r.at)
      BY DEF TT!SheetOf, TimeGood, TimeTables, OneSheetPerWeek
    <3>5. TimeRequest(q)
      BY <1>1, <2>1, <3>2, <3>3, <3>4 DEF TimeRequest, TimePlan, OwnSheet
    <3>6. \A t \in sheets : ~(t.user = r.user /\ t.week = TT!Day(r.at) /\ t.status = "approved")
      BY <2>3 DEF TT!SheetOf, TimeGood, TimeTables, OneSheetPerWeek
    <3>7. CountedBy(s.counted, s.user, s.since, s.counter)
      BY DEF TT!SheetOf, TimeGood, TimeTables, SheetsComplete
    <3> QED BY <1>2, <2>1, <2>2, <3>2, <3>3, <3>5, <3>6, <3>7, TimeLook
  <2> QED BY <1>3, <1>10, <2>2, <2>3 DEF TT!FindSubmitted
<1> QED BY <1>4, <1>5, <1>6, <1>7, <1>8, <1>9, <1>10

\* clockIn saves the session.
LEMMA TimeClockIn ==
    ASSUME TimeGood, NEW r \in flight, TT!SaveAttendance(r)
    PROVE  TimeGood'
<1> DEFINE new == [id |-> r.id, user |-> r.user, at |-> r.at, closed |-> 0]
<1>1. r.op = "clockIn" /\ r.todo = <<"clockIn">> /\ r.at \in StartTime /\ r.id \in 1 .. begun
  BY DEF TimeGood, TimeRequest, TimePlan, Numbered, TT!SaveAttendance, TT!IsAt
<1>2. Head(r.todo) = "clockIn" /\ Len(r.todo) = 1
  BY <1>1
<1>3. Leaves(r)
  BY <1>2, TimeLastAwait DEF TT!SaveAttendance
<1>4. /\ attendance' = attendance \cup {new} /\ entries' = entries /\ sheets' = sheets
      /\ flight' = flight \ {r} /\ begun' = begun /\ together' = together
      /\ failed \subseteq failed'
  BY <1>3 DEF TT!SaveAttendance, Leaves
<1>5. /\ SessionRow(new) /\ new.id = r.id /\ new.user = r.user /\ new.closed = 0
      /\ begun \in Nat
  BY <1>1 DEF SessionRow, TimeGood, Numbered
<1> HIDE DEF new
<1>6. Numbered' /\ (\A q \in flight' : TimeRequest(q)) /\ \A q \in flight' : q.id # r.id
  BY <1>3, <1>4, EndKeepsNumbers DEF TimeGood
<1>7. SessionsNumbered'
  BY <1>1, <1>4, <1>5, <1>6 DEF TimeGood, TimeTables, SessionsNumbered
<1>8. ClockInOverlaps'
  BY <1>4, <1>5, <1>6 DEF TimeGood, TimeTables, ClockInOverlaps, Numbered
<1>9. ClosersGoOn'
  BY <1>4, <1>5, <1>6 DEF TimeGood, TimeTables, ClosersGoOn, Numbered
<1>10. EntriesNumbered' /\ DeletesManual' /\ OneSheetPerWeek' /\ ApprovalOverlaps'
  BY <1>4 DEF TimeGood, TimeTables, EntriesNumbered, DeletesManual, OneSheetPerWeek,
              ApprovalOverlaps
<1>11. (TT!OneSessionUnlessRaced)'
  <2>1. \A a \in attendance : a.user = r.user => {a.id, r.id} \in together
    BY <1>2 DEF TimeGood, TimeTables, ClockInOverlaps
  <2>2. \A a, b : {a, b} = {b, a}
    OBVIOUS
  <2> QED BY <1>4, <1>5, <2>1, <2>2 DEF TimeGood, TimeTables, TT!OneSessionUnlessRaced,
                                        TT!Overlapped
<1>12. (TT!ClosedSessionIsCounted)'
  BY <1>1, <1>2, <1>4, <1>5 DEF TimeGood, TimeTables, TT!ClosedSessionIsCounted, ClosersGoOn
<1>13. OverlapsLater' /\ SheetsComplete'
  BY <1>4, CountsStay
<1> QED BY <1>6, <1>7, <1>8, <1>9, <1>10, <1>11, <1>12, <1>13 DEF TimeGood, TimeTables

\* clockOut closes the session that it has found ...
LEMMA TimeClose ==
    ASSUME TimeGood, NEW r \in flight, TT!Close(r)
    PROVE  TimeGood'
<1> DEFINE new == [r.row EXCEPT !.closed = r.id]
<1>1. /\ r.op = "clockOut" /\ r.todo = <<"close", "entry">> /\ DOMAIN r = TimeFields
      /\ r.id \in 1 .. begun /\ begun \in Nat
  BY DEF TimeGood, TimeRequest, TimePlan, Numbered, TT!Close, TT!IsAt
<1>2. Head(r.todo) = "close" /\ Len(r.todo) = 2
  BY <1>1
<1>3. PICK q : /\ Continues(r, q) /\ DOMAIN q = TimeFields /\ q.op = r.op
               /\ q.user = r.user /\ q.at = r.at /\ q.row = r.row /\ q.todo = Tail(r.todo)
  <2>1. TT!GoOnAs(r, r) /\ DOMAIN r = TimeFields
    BY DEF TT!Close, TT!GoOn, TimeGood, TimeRequest
  <2> QED BY <1>2, <2>1, TimeGoesOn
<1>4. q.todo = <<"entry">> /\ Head(q.todo) = "entry"
  BY <1>1, <1>3
<1>5. SessionRow(r.row)
  BY <1>2 DEF TimeGood, TimeRequest
<1>6. TimeRequest(q)
  BY <1>1, <1>3, <1>4, <1>5 DEF TimeRequest, TimePlan
<1>7. PICK a \in attendance : a.id = r.row.id /\ a.user = r.row.user
  BY <1>2 DEF TimeGood, TimeTables, ClosersGoOn
<1>8. /\ SessionRow(new) /\ new.id = a.id /\ new.user = a.user /\ new.closed = r.id
      /\ a.id \in 1 .. begun
  BY <1>5, <1>7 DEF SessionRow, TimeGood, TimeTables, SessionsNumbered
<1>9. /\ attendance' = {b \in attendance : b.id # a.id} \cup {new}
      /\ entries' = entries /\ sheets' = sheets
      /\ flight' = (flight \ {r}) \cup {q} /\ begun' = begun /\ together' = together
      /\ failed' = failed /\ q.id = r.id
  BY <1>3, <1>7 DEF TT!Close, Continues
<1> HIDE DEF new
<1>10. Numbered' /\ (\A p \in flight' : TimeRequest(p)) /\ \A p \in flight \ {r} : p.id # r.id
  BY <1>3, <1>6, <1>9, AwaitKeepsNumbers DEF TimeGood
<1>11. \A b \in attendance' : \E c \in attendance : b.id = c.id /\ b.user = c.user
  BY <1>8, <1>9
<1>12. \A b \in attendance : b = a \/ b \in attendance'
  BY <1>9 DEF TimeGood, TimeTables, SessionsNumbered
<1>13. SessionsNumbered'
  BY <1>1, <1>3, <1>8, <1>9 DEF TimeGood, TimeTables, SessionsNumbered
<1>14. ClockInOverlaps'
  BY <1>3, <1>4, <1>9, <1>11 DEF TimeGood, TimeTables, ClockInOverlaps
<1>15. ClosersGoOn'
  <2>1. \A c \in attendance : \E b \in attendance' : b.id = c.id /\ b.user = c.user
    BY <1>8, <1>9, <1>12
  <2>2. \A p \in flight : Head(p.todo) \in {"close", "entry"} =>
           \E c \in attendance : c.id = p.row.id /\ c.user = p.row.user
    BY DEF TimeGood, TimeTables, ClosersGoOn
  <2>3. \A p \in flight' : Head(p.todo) \in {"close", "entry"} =>
           \E b \in attendance' : b.id = p.row.id /\ b.user = p.row.user
    BY <1>2, <1>3, <1>9, <2>1, <2>2
  <2>4. \A c \in attendance : c.closed # r.id
    BY <1>2 DEF TimeGood, TimeTables, ClosersGoOn
  <2>5. \A p \in flight', b \in attendance' :
           b.closed = p.id => Head(p.todo) = "entry" /\ p.row.id = b.id
    BY <1>3, <1>4, <1>7, <1>8, <1>9, <1>10, <2>4 DEF TimeGood, TimeTables, ClosersGoOn
  <2> QED BY <2>3, <2>5 DEF ClosersGoOn
<1>16. EntriesNumbered' /\ DeletesManual'
  BY <1>1, <1>3, <1>9 DEF TimeGood, TimeTables, EntriesNumbered, DeletesManual
<1>17. OneSheetPerWeek' /\ ApprovalOverlaps'
  BY <1>3, <1>4, <1>9 DEF TimeGood, TimeTables, OneSheetPerWeek, ApprovalOverlaps
<1>18. (TT!OneSessionUnlessRaced)'
  BY <1>7, <1>8, <1>9 DEF TimeGood, TimeTables, TT!OneSessionUnlessRaced, TT!Overlapped
<1>19. (TT!ClosedSessionIsCounted)'
  BY <1>8, <1>9 DEF TimeGood, TimeTables, TT!ClosedSessionIsCounted
<1>20. OverlapsLater' /\ SheetsComplete'
  BY <1>4, <1>9, CountsStay
<1> QED BY <1>10, <1>13, <1>14, <1>15, <1>16, <1>17, <1>18, <1>19, <1>20
        DEF TimeGood, TimeTables

\* ... and saves its time entry; createManualEntry saves one as well.
LEMMA TimeNewEntry ==
    ASSUME TimeGood, NEW r \in flight, TT!AutomaticEntry(r) \/ TT!ManualEntry(r)
    PROVE  TimeGood'
<1>1. /\ r.id \in 1 .. begun /\ Len(r.todo) = 1
      /\ \/ r.op = "clockOut" /\ TT!AutomaticEntry(r) /\ Head(r.todo) = "entry"
         \/ r.op = "manual" /\ TT!ManualEntry(r) /\ Head(r.todo) = "manual"
  <2>1. TimePlan(r) /\ r.id \in 1 .. begun
    BY DEF TimeGood, TimeRequest, Numbered
  <2>2. CASE TT!AutomaticEntry(r)
    <3>1. r.op = "clockOut" /\ r.todo = <<"entry">>
      BY <2>1, <2>2 DEF TT!AutomaticEntry, TT!IsAt, TimePlan
    <3> QED BY <2>1, <2>2, <3>1
  <2>3. CASE TT!ManualEntry(r)
    <3>1. r.op = "manual" /\ r.todo = <<"manual">>
      BY <2>1, <2>3 DEF TT!ManualEntry, TT!IsAt, TimePlan
    <3> QED BY <2>1, <2>3, <3>1
  <2> QED BY <2>2, <2>3
<1>2. PICK e : /\ entries' = entries \cup {e} /\ e.id = r.id /\ e.at \in StartTime
               /\ e.source = "manual" => e.attendance = 0
               /\ Head(r.todo) = "entry" => e.attendance = r.row.id
  <2>1. CASE TT!AutomaticEntry(r) /\ Head(r.todo) = "entry"
    <3> DEFINE e == [id |-> r.id, user |-> r.user, at |-> r.row.at,
                     source |-> "automatic", attendance |-> r.row.id]
    <3>1. r.row.at \in StartTime
      BY <2>1 DEF TimeGood, TimeRequest, SessionRow
    <3>2. entries' = entries \cup {e}
      BY <2>1 DEF TT!AutomaticEntry
    <3>3. e.id = r.id /\ e.at \in StartTime /\ e.source # "manual" /\ e.attendance = r.row.id
      BY <3>1
    <3> HIDE DEF e
    <3> QED BY <3>2, <3>3
  <2>2. CASE r.op = "manual" /\ TT!ManualEntry(r) /\ Head(r.todo) = "manual"
    <3> DEFINE e == [id |-> r.id, user |-> r.user, at |-> r.at,
                     source |-> "manual", attendance |-> 0]
    <3>1. r.at \in StartTime
      BY <2>2 DEF TimeGood, TimeRequest
    <3>2. entries' = entries \cup {e}
      BY <2>2 DEF TT!ManualEntry
    <3>3. e.id = r.id /\ e.at \in StartTime /\ e.attendance = 0
      BY <3>1
    <3> HIDE DEF e
    <3> QED BY <2>2, <3>2, <3>3
  <2> QED BY <1>1, <2>1, <2>2
<1>3. Leaves(r)
  BY <1>1, TimeLastAwait DEF TT!AutomaticEntry, TT!ManualEntry
<1>4. /\ attendance' = attendance /\ sheets' = sheets
      /\ flight' = flight \ {r} /\ begun' = begun /\ together' = together
      /\ failed \subseteq failed'
  BY <1>3 DEF TT!AutomaticEntry, TT!ManualEntry, Leaves
<1>5. Numbered' /\ (\A q \in flight' : TimeRequest(q)) /\ \A q \in flight' : q.id # r.id
  BY <1>3, <1>4, EndKeepsNumbers DEF TimeGood
<1>6. SessionsNumbered' /\ ClockInOverlaps' /\ ClosersGoOn'
  BY <1>4 DEF TimeGood, TimeTables, SessionsNumbered, ClockInOverlaps, ClosersGoOn
<1>7. EntriesNumbered'
  BY <1>1, <1>2, <1>4, <1>5 DEF TimeGood, TimeTables, EntriesNumbered
<1>8. DeletesManual'
  BY <1>2, <1>4 DEF TimeGood, TimeTables, DeletesManual
<1>9. OneSheetPerWeek' /\ ApprovalOverlaps'
  BY <1>4 DEF TimeGood, TimeTables, OneSheetPerWeek, ApprovalOverlaps
<1>10. (TT!OneSessionUnlessRaced)'
  BY <1>4 DEF TimeGood, TimeTables, TT!OneSessionUnlessRaced, TT!Overlapped
<1>11. (TT!ClosedSessionIsCounted)'
  BY <1>2, <1>4 DEF TimeGood, TimeTables, TT!ClosedSessionIsCounted, ClosersGoOn
<1>12. OverlapsLater' /\ SheetsComplete'
  BY <1>2, <1>4, CountsStay
<1> QED BY <1>5, <1>6, <1>7, <1>8, <1>9, <1>10, <1>11, <1>12 DEF TimeGood, TimeTables

\* deleteEntry: the entry was made by hand, so it is that of no session.
LEMMA TimeDelete ==
    ASSUME TimeGood, NEW r \in flight, TT!Delete(r)
    PROVE  TimeGood'
<1>1. r.op = "delete" /\ r.todo = <<"delete">>
  BY DEF TimeGood, TimeRequest, TimePlan, TT!Delete, TT!IsAt
<1>2. Head(r.todo) = "delete" /\ Len(r.todo) = 1
  BY <1>1
<1>3. Leaves(r)
  BY <1>2, TimeLastAwait DEF TT!Delete
<1>4. /\ attendance' = attendance /\ sheets' = sheets /\ entries' = {e \in entries : e.id # r.at}
      /\ flight' = flight \ {r} /\ begun' = begun /\ together' = together
      /\ failed \subseteq failed'
  BY <1>3 DEF TT!Delete, Leaves
<1>5. Numbered' /\ (\A q \in flight' : TimeRequest(q)) /\ \A q \in flight' : q.id # r.id
  BY <1>3, <1>4, EndKeepsNumbers DEF TimeGood
<1>6. SessionsNumbered' /\ ClockInOverlaps' /\ ClosersGoOn'
  BY <1>4 DEF TimeGood, TimeTables, SessionsNumbered, ClockInOverlaps, ClosersGoOn
<1>7. EntriesNumbered' /\ DeletesManual'
  BY <1>4 DEF TimeGood, TimeTables, EntriesNumbered, DeletesManual
<1>8. OneSheetPerWeek' /\ ApprovalOverlaps'
  BY <1>4 DEF TimeGood, TimeTables, OneSheetPerWeek, ApprovalOverlaps
<1>9. (TT!OneSessionUnlessRaced)'
  BY <1>4 DEF TimeGood, TimeTables, TT!OneSessionUnlessRaced, TT!Overlapped
<1>10. (TT!ClosedSessionIsCounted)'
  <2>1. \A e \in entries : e.id = r.at => e.attendance = 0
    BY <1>1, <1>2 DEF TimeGood, TimeTables, DeletesManual, EntriesNumbered
  <2>2. \A a \in attendance : a.id # 0 /\ a.closed # r.id
    BY <1>2 DEF TimeGood, TimeTables, SessionsNumbered, SessionRow, ClosersGoOn
  <2> QED BY <1>4, <2>1, <2>2 DEF TimeGood, TimeTables, TT!ClosedSessionIsCounted
<1>11. OverlapsLater' /\ SheetsComplete'
  <2>1. \A e \in entries : e.id = r.at => e.source = "manual"
    BY <1>1, <1>2 DEF TimeGood, TimeTables, DeletesManual
  <2> QED BY <1>4, <2>1, CountsStay
<1> QED BY <1>5, <1>6, <1>7, <1>8, <1>9, <1>10, <1>11 DEF TimeGood, TimeTables

\* submitTimesheet, approve and reject save the row of the week.
LEMMA TimeSave ==
    ASSUME TimeGood, NEW r \in flight, TT!Submit(r) \/ TT!Approve(r) \/ TT!Reject(r)
    PROVE  TimeGood'
<1>1. /\ r.op \in {"submit", "approve", "reject"} /\ Len(r.todo) = 1 /\ Head(r.todo) = r.op
      /\ TimeRequest(r)
      /\ TT!Submit(r) => r.op = "submit"
      /\ ~TT!Submit(r) => r.op # "submit"
  <2>1. TimePlan(r) /\ TimeRequest(r)
    BY DEF TimeGood, TimeRequest
  <2>2. CASE TT!Submit(r)
    <3>1. r.op = "submit" /\ r.todo = <<"submit">>
      BY <2>1, <2>2 DEF TT!Submit, TT!IsAt, TimePlan
    <3>2. Len(r.todo) = 1 /\ Head(r.todo) = r.op
      BY <3>1
    <3> QED BY <2>1, <2>2, <3>1, <3>2 DEF TimeRequest
  <2>3. CASE TT!Approve(r)
    <3>1. r.op = "approve" /\ r.todo = <<"approve">>
      BY <2>1, <2>3 DEF TT!Approve, TT!IsAt, TimePlan
    <3>2. Len(r.todo) = 1 /\ Head(r.todo) = r.op
      BY <3>1
    <3> QED BY <2>1, <2>3, <3>1, <3>2 DEF TimeRequest, TT!Submit, TT!IsAt
  <2>4. CASE TT!Reject(r)
    <3>1. r.op = "reject" /\ r.todo = <<"reject">>
      BY <2>1, <2>4 DEF TT!Reject, TT!IsAt, TimePlan
    <3>2. Len(r.todo) = 1 /\ Head(r.todo) = r.op
      BY <3>1
    <3> QED BY <2>1, <2>4, <3>1, <3>2 DEF TimeRequest, TT!Submit, TT!IsAt
  <2> QED BY <2>2, <2>3, <2>4
<1>2. ASSUME NEW s, TT!SaveSheet(r, s), SheetRow(s), s.user = r.user, s.week = TT!Day(r.at),
             CountedBy(s.counted, s.user, s.since, s.counter)
      PROVE  TimeGood'
  <2> DEFINE new == [s EXCEPT !.by = r.id]
  <2>1. /\ SheetRow(new) /\ new.user = r.user /\ new.week = TT!Day(r.at) /\ new.by = r.id
        /\ CountedBy(new.counted, new.user, new.since, new.counter)
    BY <1>2 DEF SheetRow
  <2>2. Leaves(r)
    BY <1>1, <1>2, TimeLastAwait DEF TT!SaveSheet
  <2>3. /\ sheets' = (sheets \ TT!SheetOf(r)) \cup {new}
        /\ attendance' = attendance /\ entries' = entries
        /\ flight' = flight \ {r} /\ begun' = begun /\ together' = together
        /\ failed \subseteq failed'
    BY <1>2, <2>2 DEF TT!SaveSheet, Leaves
  <2> HIDE DEF new
  <2>4. Numbered' /\ (\A q \in flight' : TimeRequest(q)) /\ \A q \in flight' : q.id # r.id
    BY <2>2, <2>3, EndKeepsNumbers DEF TimeGood
  <2>5. SessionsNumbered' /\ ClockInOverlaps' /\ ClosersGoOn'
    BY <1>1, <2>3 DEF TimeGood, TimeTables, SessionsNumbered, ClockInOverlaps, ClosersGoOn
  <2>6. EntriesNumbered' /\ DeletesManual'
    BY <2>3 DEF TimeGood, TimeTables, EntriesNumbered, DeletesManual
  <2>7. OneSheetPerWeek'
    BY <2>1, <2>3 DEF TimeGood, TimeTables, OneSheetPerWeek, TT!SheetOf
  <2>8. \A q \in flight' : {q.id, r.id} \in together
    BY <2>3 DEF TimeGood, Numbered
  <2>9. ApprovalOverlaps'
    BY <2>1, <2>3, <2>8 DEF TimeGood, TimeTables, ApprovalOverlaps
  <2>10. (TT!OneSessionUnlessRaced)'
    BY <2>3 DEF TimeGood, TimeTables, TT!OneSessionUnlessRaced, TT!Overlapped
  <2>11. (TT!ClosedSessionIsCounted)'
    BY <1>1, <2>3 DEF TimeGood, TimeTables, TT!ClosedSessionIsCounted, ClosersGoOn
  <2>12. OverlapsLater'
    BY <2>3 DEF TimeGood, TimeTables, OverlapsLater
  <2>13. CountedBy(new.counted, new.user, new.since, new.counter)'
    BY <2>1, <2>3 DEF CountedBy
  <2>14. SheetsComplete'
    BY <2>3, <2>13, CountsKept DEF SheetsComplete, TimeGood, Numbered
  <2> QED BY <2>4, <2>5, <2>6, <2>7, <2>9, <2>10, <2>11, <2>12, <2>14 DEF TimeGood, TimeTables
<1>3. CASE TT!Submit(r) /\ r.row = TT!NoRow
  <2>1. CountedBy(r.counted, r.user, r.at, r.id)
    BY <1>1, <1>3 DEF TimeGood, TimeTables, SheetsComplete
  <2>2. CASE TT!Stop(r) /\ UNCHANGED TT!tables
    BY <1>1, <2>2, TimeStops, TimeEnd DEF TT!tables
  <2>3. ASSUME NEW s, s = [user |-> r.user, week |-> TT!Day(r.at), status |-> "submitted",
                           counted |-> r.counted, since |-> r.at, counter |-> r.id,
                           by |-> r.id], TT!SaveSheet(r, s)
        PROVE  TimeGood'
    BY <1>1, <1>2, <2>1, <2>3 DEF SheetRow
  <2> QED BY <1>3, <2>2, <2>3 DEF TT!Submit
<1>4. CASE TT!Submit(r) /\ r.row # TT!NoRow
  <2> DEFINE s == [r.row EXCEPT !.status = "submitted", !.counted = r.counted,
                                !.since = r.at, !.counter = r.id]
  <2>1. CountedBy(r.counted, r.user, r.at, r.id) /\ OwnSheet(r)
    BY <1>1, <1>4 DEF TimeRequest, TimeGood, TimeTables, SheetsComplete
  <2>2. /\ SheetRow(s) /\ s.user = r.user /\ s.week = TT!Day(r.at)
        /\ s.counted = r.counted /\ s.since = r.at /\ s.counter = r.id
    BY <2>1 DEF OwnSheet, SheetRow
  <2>3. TT!SaveSheet(r, s)
    BY <1>4 DEF TT!Submit
  <2> HIDE DEF s
  <2> QED BY <1>2, <2>1, <2>2, <2>3
<1>5. CASE ~TT!Submit(r)
  <2>1. PICK x : TT!SaveSheet(r, [r.row EXCEPT !.status = x])
    BY <1>5 DEF TT!Approve, TT!Reject
  <2> DEFINE s == [r.row EXCEPT !.status = x]
  <2>2. OwnSheet(r) /\ CountedBy(r.row.counted, r.row.user, r.row.since, r.row.counter)
    BY <1>1, <1>5 DEF TimeRequest, TimeGood, TimeTables, SheetsComplete
  <2>3. /\ SheetRow(s) /\ s.user = r.user /\ s.week = TT!Day(r.at)
        /\ CountedBy(s.counted, s.user, s.since, s.counter)
    BY <2>2 DEF OwnSheet, SheetRow
  <2>4. TT!SaveSheet(r, s)
    BY <2>1
  <2> HIDE DEF s
  <2> QED BY <1>2, <2>3, <2>4
<1> QED BY <1>3, <1>4, <1>5

LEMMA TimeStutters ==
    ASSUME TimeGood, UNCHANGED <<requests, time>>
    PROVE  TimeGood'
<1>1. /\ flight' = flight /\ begun' = begun /\ together' = together /\ failed' = failed
      /\ attendance' = attendance /\ entries' = entries /\ sheets' = sheets
  BY DEF requests, time
<1>2. Numbered' /\ \A q \in flight' : TimeRequest(q)
  BY <1>1 DEF TimeGood, Numbered
<1>3. SessionsNumbered' /\ ClockInOverlaps' /\ ClosersGoOn'
  BY <1>1 DEF TimeGood, TimeTables, SessionsNumbered, ClockInOverlaps, ClosersGoOn
<1>4. EntriesNumbered' /\ DeletesManual' /\ OneSheetPerWeek' /\ ApprovalOverlaps'
  BY <1>1 DEF TimeGood, TimeTables, EntriesNumbered, DeletesManual, OneSheetPerWeek,
              ApprovalOverlaps
<1>5. (TT!OneSessionUnlessRaced)' /\ (TT!ClosedSessionIsCounted)'
  BY <1>1 DEF TimeGood, TimeTables, TT!OneSessionUnlessRaced, TT!Overlapped,
              TT!ClosedSessionIsCounted
<1>6. OverlapsLater' /\ SheetsComplete'
  BY <1>1, CountsStay
<1> QED BY <1>2, <1>3, <1>4, <1>5, <1>6 DEF TimeGood, TimeTables

LEMMA TimeBegins == Init => TimeInv
<1> SUFFICES ASSUME Init PROVE TimeInv
  OBVIOUS
<1>1. /\ flight = {} /\ begun = 0 /\ together = {} /\ failed = {}
      /\ attendance = {} /\ entries = {} /\ sheets = {}
  BY DEF Init, TT!Init, TT!RequestsInit
<1>2. Numbered /\ \A r \in flight : TimeRequest(r)
  BY <1>1 DEF Numbered
<1>3. TimeTables
  BY <1>1 DEF TimeTables, SessionsNumbered, ClockInOverlaps, ClosersGoOn, EntriesNumbered,
              DeletesManual, OneSheetPerWeek, ApprovalOverlaps, OverlapsLater,
              SheetsComplete, TT!OneSessionUnlessRaced, TT!ClosedSessionIsCounted
<1> QED BY <1>1, <1>2, <1>3 DEF TimeInv, TimeGood

LEMMA TimeStep == TimeInv /\ [Next]_vars => TimeInv'
<1> SUFFICES ASSUME TimeInv, [Next]_vars PROVE TimeInv'
  OBVIOUS
<1>1. focus' = focus
  BY DEF Next, vars
<1>2. CASE focus # "time"
  <2>1. UNCHANGED <<attendance, entries, sheets>>
    BY <1>2 DEF Next, vars, time
  <2> QED BY <1>1, <1>2, <2>1 DEF TimeInv
<1>3. CASE focus = "time"
  <2> SUFFICES TimeGood'
    BY <1>1, <1>3 DEF TimeInv
  <2>1. TimeGood
    BY <1>3 DEF TimeInv
  <2>2. CASE TT!Next
    <3>1. CASE \E u \in Employee : TT!Asked(u)
      BY <2>1, <3>1, TimeArrival
    <3>2. ASSUME NEW r \in flight, TT!Handle(r)
          PROVE  TimeGood'
      BY <2>1, <3>2, TimeReads, TimeClockIn, TimeClose, TimeNewEntry, TimeDelete, TimeSave
         DEF TT!Handle
    <3> QED BY <2>2, <3>1, <3>2 DEF TT!Next
  <2>3. CASE UNCHANGED vars
    BY <2>1, <2>3, TimeStutters DEF vars
  <2> QED BY <1>3, <2>2, <2>3 DEF Next
<1> QED BY <1>2, <1>3

\* A user has two attendance rows only by two overlapping requests to clock in,
\* and a closed session has its time entry, but for a request that is under way
\* or failed, whatever the handlers' interleaving (time-tracking.service clockIn,
\* clockOut, deleteEntry).
THEOREM EverySessionIsCounted == Spec => []SessionsAreCounted
<1>1. TimeInv => SessionsAreCounted
  BY DEF TimeInv, TimeGood, TimeTables, SessionsAreCounted, TT!OneSessionUnlessRaced,
         TT!ClosedSessionIsCounted
<1> QED BY <1>1, TimeBegins, TimeStep, PTL DEF Spec

\* What a step does to an approved timesheet.
LEMMA ApprovedSheetStays ==
    ASSUME TimeInv, [Next]_vars, NEW s \in sheets, s.status = "approved", s \notin sheets'
    PROVE  \E r \in flight : TT!Ends(r) /\ TT!Overlapped(r.id, s.by)
<1>1. focus = "time" /\ TimeGood
  BY DEF TimeInv
<1>2. PICK r \in flight : TT!Handle(r)
  BY <1>1 DEF Next, vars, time, TT!Next, TT!Asked, TT!tables
<1>3. PICK t : TT!SaveSheet(r, t) /\ (TT!Submit(r) \/ TT!Approve(r) \/ TT!Reject(r))
  BY <1>2 DEF TT!Handle, TT!NoneOpen, TT!SaveAttendance, TT!Open, TT!Close, TT!AutomaticEntry,
              TT!ManualEntry, TT!FindManual, TT!Delete, TT!FindSheet, TT!Count,
              TT!FindSubmitted, TT!Submit, TT!Approve, TT!Reject, TT!tables
<1>4. Head(r.todo) \in {"submit", "approve", "reject"} /\ Len(r.todo) = 1
  <2>1. TimePlan(r)
    BY <1>1 DEF TimeGood, TimeRequest
  <2>2. Head(r.todo) \in {"submit", "approve", "reject"}
    BY <1>3 DEF TT!Submit, TT!Approve, TT!Reject, TT!IsAt
  <2>3. r.todo \in {<<"submit">>, <<"approve">>, <<"reject">>}
    BY <2>1, <2>2 DEF TimePlan
  <2>4. Len(r.todo) = 1
    BY <2>3
  <2> QED BY <2>2, <2>4
<1>5. s.user = r.user /\ s.week = TT!Day(r.at)
  BY <1>3 DEF TT!SaveSheet, TT!SheetOf
<1>6. TT!Overlapped(r.id, s.by)
  BY <1>1, <1>4, <1>5 DEF TimeGood, TimeTables, ApprovalOverlaps, TT!Overlapped
<1>7. Leaves(r)
  BY <1>3, <1>4, TimeLastAwait DEF TT!SaveSheet
<1>8. TT!Ends(r)
  BY <1>1, <1>7, EndKeepsNumbers DEF TimeGood, TT!Ends
<1> QED BY <1>6, <1>8

\* An approved timesheet changes only by a request that had read it before, and the
\* total of a timesheet takes in every entry of its seven days that was made before
\* it was submitted, whichever instants clients name as the start of their weeks,
\* but for requests that were under way at that time (time-tracking.service
\* submitTimesheet, approve, reject, deleteEntry).
THEOREM ApprovedTimesheetsAreFinal == Spec => TimesheetsAreFinal
<1>1. TimeInv => TT!CountIsComplete
  BY DEF TimeInv, TimeGood, TimeTables, SheetsComplete, CountedBy, TT!CountIsComplete,
         TT!Overlapped
<1>2. TimeInv /\ [Next]_vars =>
         [\A s \in sheets : s.status = "approved" /\ s \notin sheets'
            => \E r \in flight : TT!Ends(r) /\ TT!Overlapped(r.id, s.by)]_(TT!vars)
  BY ApprovedSheetStays
<1> QED BY <1>1, <1>2, TimeBegins, TimeStep, PTL DEF Spec, TimesheetsAreFinal, TT!ApprovedIsFinal

-----------------------------------------------------------------------------
(* Accounts, sessions and one-time tokens *)

AcctFields == {"id", "op", "who", "on", "key", "role", "purpose", "row", "todo"}

\* The awaits that end a handler, those that follow one another, and whose they are.
LastAwait ==
    {"issue", "revokeAll", "verify", "generate", "purge", "save", "deactivate", "reactivate",
     "role", "rotate"}

Await ==
    LastAwait \cup
    {"unique", "uniqueInOrg", "insert", "credentials", "stored", "owner", "revoke", "blacklist",
     "get", "del", "hash", "unverified", "load", "holder", "device"}

NextAwait(a, b) ==
    \/ a \in {"unique", "uniqueInOrg"} /\ b = "insert"
    \/ a = "insert" /\ b \in {"issue", "generate"}
    \/ a \in {"credentials", "revoke"} /\ b = "issue"
    \/ a = "stored" /\ b = "owner"
    \/ a = "owner" /\ b \in {"revoke", "device"}
    \/ a = "blacklist" /\ b = "revokeAll"
    \/ a = "get" /\ b = "del"
    \/ a = "del" /\ b \in {"verify", "hash", "owner"}
    \/ a = "hash" /\ b = "purge"
    \/ a = "unverified" /\ b = "generate"
    \/ a = "load" /\ b = "save"
    \/ a = "holder" /\ b = "device"
    \/ a = "device" /\ b = "rotate"

AwaitOf(r, a) ==
    /\ a \in {"stored", "revoke"} => r.op = "refresh"
    /\ a = "credentials" => r.op = "login"
    /\ a = "issue" => r.op \in {"register", "login", "refresh"}
    /\ a = "unique" => r.op = "register"
    /\ a = "uniqueInOrg" => r.op = "invite"
    /\ a = "insert" => r.op \in {"register", "invite"}
    /\ a = "generate" => r.op \in {"resend", "forgot", "token", "invite"}
    /\ a \in {"get", "del"} => \/ r.op \in {"verify", "accept", "reset"}
                               \/ r.op = "agent" /\ r.purpose = "invite"
    /\ a = "owner" => r.op = "refresh" \/ (r.op = "agent" /\ r.purpose = "invite")
    /\ a = "verify" => r.op \in {"verify", "accept"}
    /\ a \in {"load", "save"} => r.op = "update"
    /\ a \in {"deactivate", "reactivate", "role"} => r.op = a
    /\ a = "holder" => r.op = "agent" /\ r.purpose = ""
    /\ a = "device" => r.op = "agent"
    /\ a = "rotate" => r.op \in {"agent", "rotate"}

AcctPlan(r, todo) ==
    /\ todo \in Seq(Await) /\ todo # <<>>
    /\ \A i \in 1 .. Len(todo) :
          AwaitOf(r, todo[i]) /\ (todo[i] \in LastAwait <=> i = Len(todo))
    /\ \A i \in 1 .. Len(todo) - 1 : NextAwait(todo[i], todo[i + 1])

AcctRequest(r) == DOMAIN r = AcctFields /\ AcctPlan(r, r.todo)

\* r goes on as q, which is r but for what it has read.
AcctOn(r, q) ==
    /\ Continues(r, q) /\ AcctRequest(q)
    /\ q.op = r.op /\ q.who = r.who /\ q.on = r.on /\ q.key = r.key /\ q.role = r.role
    /\ q.purpose = r.purpose
    /\ NextAwait(Head(r.todo), Head(q.todo)) /\ AwaitOf(q, Head(q.todo))
    /\ q.row = IF Head(r.todo) = "load" THEN acct[r.on] ELSE r.row

LEMMA AcctPlans ==
    ASSUME NEW r, AcctPlan(r, r.todo)
    PROVE  /\ AwaitOf(r, Head(r.todo)) /\ (Head(r.todo) \in LastAwait <=> Len(r.todo) = 1)
           /\ Head(r.todo) \notin LastAwait =>
                 AcctPlan(r, Tail(r.todo)) /\ NextAwait(Head(r.todo), Head(Tail(r.todo)))
<1> DEFINE s == r.todo
           t == Tail(s)
<1>1. s \in Seq(Await) /\ s # <<>> /\ Head(s) = s[1] /\ Len(s) \in Nat \ {0}
  BY DEF AcctPlan
<1>2. AwaitOf(r, Head(s)) /\ (Head(s) \in LastAwait <=> Len(s) = 1)
  <2>1. 1 \in 1 .. Len(s)
    BY <1>1
  <2>2. AwaitOf(r, s[1]) /\ (s[1] \in LastAwait <=> 1 = Len(s))
    BY <2>1 DEF AcctPlan
  <2> QED BY <1>1, <2>2
<1>3. ASSUME Len(s) # 1
      PROVE  AcctPlan(r, t) /\ NextAwait(Head(s), Head(t))
  <2>1. /\ t \in Seq(Await) /\ t # <<>> /\ Len(t) = Len(s) - 1 /\ Head(t) = s[2]
        /\ \A i \in 1 .. Len(t) : t[i] = s[i + 1]
    <3>1. /\ t \in Seq(Await) /\ Len(t) = Len(s) - 1
          /\ \A i \in 1 .. Len(t) : t[i] = s[i + 1]
      BY <1>1, HeadTailProperties
    <3> HIDE DEF t
    <3>2. t # <<>> /\ Len(t) \in Nat \ {0}
      <4>1. Len(t) \in Nat \ {0}
        BY <1>1, <1>3, <3>1
      <4> QED BY <4>1, EmptySeq
    <3>3. 1 \in 1 .. Len(t) /\ Head(t) = t[1]
      BY <3>1, <3>2
    <3>4. t[1] = s[1 + 1] /\ 1 + 1 = 2
      BY <3>1, <3>3
    <3> QED BY <3>1, <3>2, <3>3, <3>4
  <2>2. NextAwait(Head(s), Head(t))
    BY <1>1, <1>3, <2>1 DEF AcctPlan
  <2>3. \A i \in 1 .. Len(t) :
           AwaitOf(r, t[i]) /\ (t[i] \in LastAwait <=> i = Len(t))
    BY <1>1, <1>3, <2>1 DEF AcctPlan
  <2>4. \A i \in 1 .. Len(t) - 1 : NextAwait(t[i], t[i + 1])
    BY <1>1, <1>3, <2>1 DEF AcctPlan
  <2> QED BY <2>1, <2>2, <2>3, <2>4 DEF AcctPlan
<1> QED BY <1>2, <1>3

\* Which awaits a request may have depends on its handler and purpose only.
LEMMA SameAwaits ==
    ASSUME NEW r, NEW q, q.op = r.op, q.purpose = r.purpose, NEW a, AwaitOf(r, a)
    PROVE  AwaitOf(q, a)
<1> DEFINE o == r.op
           p == r.purpose
<1>1. q.op = o /\ q.purpose = p /\ r.op = o /\ r.purpose = p
  OBVIOUS
<1> HIDE DEF o, p
<1> QED BY <1>1, Zenon DEF AwaitOf

LEMMA AcctGoesOn ==
    ASSUME NEW r \in flight, AcctRequest(r), AC!GoOn(r) \/ AC!LoadUser(r),
           AC!LoadUser(r) <=> Head(r.todo) = "load"
    PROVE  IF Head(r.todo) \in LastAwait THEN Leaves(r) ELSE \E q : AcctOn(r, q)
<1> DEFINE p == IF Head(r.todo) = "load" THEN [r EXCEPT !.row = acct[r.on]] ELSE r
           q == [p EXCEPT !.todo = Tail(@)]
<1>1. AC!GoOnAs(r, p)
  BY DEF AC!GoOn, AC!LoadUser
<1>2. /\ DOMAIN p = AcctFields /\ p.id = r.id /\ p.op = r.op /\ p.who = r.who /\ p.on = r.on
      /\ p.key = r.key /\ p.role = r.role /\ p.purpose = r.purpose /\ p.todo = r.todo
      /\ p.row = IF Head(r.todo) = "load" THEN acct[r.on] ELSE r.row
  BY DEF AcctRequest, AcctFields
<1> HIDE DEF p
<1>3. Head(r.todo) \in LastAwait <=> Len(r.todo) = 1
  BY AcctPlans DEF AcctRequest
<1>4. CASE Head(r.todo) \in LastAwait
  BY <1>1, <1>2, <1>3, <1>4 DEF AC!GoOnAs, Leaves
<1>5. CASE Head(r.todo) \notin LastAwait
  <2>1. flight' = (flight \ {r}) \cup {q} /\ UNCHANGED <<begun, together, failed>>
    BY <1>1, <1>2, <1>3, <1>5 DEF AC!GoOnAs
  <2>2. /\ DOMAIN q = AcctFields /\ q.id = r.id /\ q.op = r.op /\ q.who = r.who /\ q.on = r.on
        /\ q.key = r.key /\ q.role = r.role /\ q.purpose = r.purpose /\ q.todo = Tail(r.todo)
        /\ q.row = IF Head(r.todo) = "load" THEN acct[r.on] ELSE r.row
    BY <1>2 DEF AcctFields
  <2> HIDE DEF q
  <2>3. AcctPlan(r, q.todo) /\ NextAwait(Head(r.todo), Head(q.todo))
    BY <1>5, <2>2, AcctPlans DEF AcctRequest
  <2>4. AcctPlan(q, q.todo)
    <3>1. \A a : AwaitOf(r, a) => AwaitOf(q, a)
      BY <2>2, SameAwaits
    <3> QED BY <2>3, <3>1 DEF AcctPlan
  <2>5. AwaitOf(q, Head(q.todo))
    BY <2>4, AcctPlans
  <2> QED BY <1>5, <2>1, <2>2, <2>3, <2>4, <2>5 DEF AcctOn, AcctRequest, Continues
<1> QED BY <1>4, <1>5

\* The handlers of one, two, ... five awaits.
LEMMA AcctPlanOf1 ==
    ASSUME NEW r, NEW a, {a} \subseteq Await,
           AwaitOf(r, a),
           a \in LastAwait
    PROVE  AcctPlan(r, <<a>>) /\ Head(<<a>>) = a
<1> DEFINE t == <<a>>
<1>1. /\ t \in Seq(Await) /\ t # <<>> /\ Len(t) = 1 /\ Head(t) = a
      /\ t[1] = a
  OBVIOUS
<1> HIDE DEF t
<1> QED BY <1>1 DEF AcctPlan

LEMMA AcctPlanOf2 ==
    ASSUME NEW r, NEW a, NEW b, {a, b} \subseteq Await,
           AwaitOf(r, a), AwaitOf(r, b),
           {a} \cap LastAwait = {}, b \in LastAwait,
           NextAwait(a, b)
    PROVE  AcctPlan(r, <<a, b>>) /\ Head(<<a, b>>) = a
<1> DEFINE t == <<a, b>>
<1>1. /\ t \in Seq(Await) /\ t # <<>> /\ Len(t) = 2 /\ Head(t) = a
      /\ t[1] = a /\ t[2] = b
  OBVIOUS
<1> HIDE DEF t
<1> QED BY <1>1 DEF AcctPlan

LEMMA AcctPlanOf3 ==
    ASSUME NEW r, NEW a, NEW b, NEW c, {a, b, c} \subseteq Await,
           AwaitOf(r, a), AwaitOf(r, b), AwaitOf(r, c),
           {a, b} \cap LastAwait = {}, c \in LastAwait,
           NextAwait(a, b), NextAwait(b, c)
    PROVE  AcctPlan(r, <<a, b, c>>) /\ Head(<<a, b, c>>) = a
<1> DEFINE t == <<a, b, c>>
<1>1. /\ t \in Seq(Await) /\ t # <<>> /\ Len(t) = 3 /\ Head(t) = a
      /\ t[1] = a /\ t[2] = b /\ t[3] = c
  OBVIOUS
<1> HIDE DEF t
<1> QED BY <1>1 DEF AcctPlan

LEMMA AcctPlanOf4 ==
    ASSUME NEW r, NEW a, NEW b, NEW c, NEW d, {a, b, c, d} \subseteq Await,
           AwaitOf(r, a), AwaitOf(r, b), AwaitOf(r, c), AwaitOf(r, d),
           {a, b, c} \cap LastAwait = {}, d \in LastAwait,
           NextAwait(a, b), NextAwait(b, c), NextAwait(c, d)
    PROVE  AcctPlan(r, <<a, b, c, d>>) /\ Head(<<a, b, c, d>>) = a
<1> DEFINE t == <<a, b, c, d>>
<1>1. /\ t \in Seq(Await) /\ t # <<>> /\ Len(t) = 4 /\ Head(t) = a
      /\ t[1] = a /\ t[2] = b /\ t[3] = c /\ t[4] = d
  OBVIOUS
<1> HIDE DEF t
<1> QED BY <1>1 DEF AcctPlan

LEMMA AcctPlanOf5 ==
    ASSUME NEW r, NEW a, NEW b, NEW c, NEW d, NEW e, {a, b, c, d, e} \subseteq Await,
           AwaitOf(r, a), AwaitOf(r, b), AwaitOf(r, c), AwaitOf(r, d), AwaitOf(r, e),
           {a, b, c, d} \cap LastAwait = {}, e \in LastAwait,
           NextAwait(a, b), NextAwait(b, c), NextAwait(c, d), NextAwait(d, e)
    PROVE  AcctPlan(r, <<a, b, c, d, e>>) /\ Head(<<a, b, c, d, e>>) = a
<1> DEFINE t == <<a, b, c, d, e>>
<1>1. /\ t \in Seq(Await) /\ t # <<>> /\ Len(t) = 5 /\ Head(t) = a
      /\ t[1] = a /\ t[2] = b /\ t[3] = c /\ t[4] = d /\ t[5] = e
  OBVIOUS
<1> HIDE DEF t
<1> QED BY <1>1 DEF AcctPlan

LEMMA AcctHandlers ==
    ASSUME NEW r
    PROVE  /\ r.op = "register" => AcctPlan(r, AC!Register)
           /\ r.op = "login" => AcctPlan(r, AC!Login)
           /\ r.op = "logout" => AcctPlan(r, AC!Logout)
           /\ r.op = "refresh" => AcctPlan(r, AC!RefreshTokens)
           /\ r.op = "verify" => AcctPlan(r, AC!VerifyEmail)
           /\ r.op = "accept" => AcctPlan(r, AC!AcceptInvite)
           /\ r.op = "resend" => AcctPlan(r, AC!ResendVerification)
           /\ r.op = "forgot" => AcctPlan(r, AC!ForgotPassword)
           /\ r.op = "token" => AcctPlan(r, AC!GenerateInviteToken)
           /\ r.op = "reset" => AcctPlan(r, AC!ResetPassword)
           /\ r.op = "invite" => AcctPlan(r, AC!Invite)
           /\ r.op = "update" => AcctPlan(r, AC!UpdateUser)
           /\ r.op = "deactivate" => AcctPlan(r, AC!Deactivate)
           /\ r.op = "reactivate" => AcctPlan(r, AC!ReactivateUser)
           /\ r.op = "role" => AcctPlan(r, AC!UpdateUserRole)
           /\ r.op = "rotate" => AcctPlan(r, AC!RotateAgentToken)
           /\ r.op = "agent" /\ r.purpose = "" => AcctPlan(r, AC!RegisterPersonal)
           /\ r.op = "agent" /\ r.purpose = "invite" => AcctPlan(r, AC!RegisterInvited)
<1>1. r.op = "register" => AcctPlan(r, AC!Register)
  <2> HAVE r.op = "register"
  <2>1. /\ AwaitOf(r, "unique") /\ AwaitOf(r, "insert") /\ AwaitOf(r, "issue")
        /\ {"unique", "insert"} \cap LastAwait = {} /\ "issue" \in LastAwait
        /\ {"unique", "insert", "issue"} \subseteq Await
        /\ NextAwait("unique", "insert") /\ NextAwait("insert", "issue")
    BY DEF Await, AwaitOf, LastAwait, NextAwait
  <2> QED BY <2>1, AcctPlanOf3 DEF AC!Register
<1>2. r.op = "login" => AcctPlan(r, AC!Login)
  <2> HAVE r.op = "login"
  <2>1. /\ AwaitOf(r, "credentials") /\ AwaitOf(r, "issue")
        /\ {"credentials"} \cap LastAwait = {} /\ "issue" \in LastAwait
        /\ {"credentials", "issue"} \subseteq Await
        /\ NextAwait("credentials", "issue")
    BY DEF Await, AwaitOf, LastAwait, NextAwait
  <2> QED BY <2>1, AcctPlanOf2 DEF AC!Login
<1>3. r.op = "logout" => AcctPlan(r, AC!Logout)
  <2> HAVE r.op = "logout"
  <2>1. /\ AwaitOf(r, "blacklist") /\ AwaitOf(r, "revokeAll")
        /\ {"blacklist"} \cap LastAwait = {} /\ "revokeAll" \in LastAwait
        /\ {"blacklist", "revokeAll"} \subseteq Await
        /\ NextAwait("blacklist", "revokeAll")
    BY DEF Await, AwaitOf, LastAwait, NextAwait
  <2> QED BY <2>1, AcctPlanOf2 DEF AC!Logout
<1>4. r.op = "refresh" => AcctPlan(r, AC!RefreshTokens)
  <2> HAVE r.op = "refresh"
  <2>1. /\ AwaitOf(r, "stored") /\ AwaitOf(r, "owner") /\ AwaitOf(r, "revoke")
        /\ AwaitOf(r, "issue")
        /\ {"stored", "owner", "revoke"} \cap LastAwait = {} /\ "issue" \in LastAwait
        /\ {"stored", "owner", "revoke", "issue"} \subseteq Await
        /\ NextAwait("stored", "owner") /\ NextAwait("owner", "revoke")
        /\ NextAwait("revoke", "issue")
    BY DEF Await, AwaitOf, LastAwait, NextAwait
  <2> QED BY <2>1, AcctPlanOf4 DEF AC!RefreshTokens
<1>5. r.op = "verify" => AcctPlan(r, AC!VerifyEmail)
  <2> HAVE r.op = "verify"
  <2>1. /\ AwaitOf(r, "get") /\ AwaitOf(r, "del") /\ AwaitOf(r, "verify")
        /\ {"get", "del"} \cap LastAwait = {} /\ "verify" \in LastAwait
        /\ {"get", "del", "verify"} \subseteq Await
        /\ NextAwait("get", "del") /\ NextAwait("del", "verify")
    BY DEF Await, AwaitOf, LastAwait, NextAwait
  <2> QED BY <2>1, AcctPlanOf3 DEF AC!VerifyEmail
<1>6. r.op = "accept" => AcctPlan(r, AC!AcceptInvite)
  <2> HAVE r.op = "accept"
  <2>1. /\ AwaitOf(r, "get") /\ AwaitOf(r, "del") /\ AwaitOf(r, "verify")
        /\ {"get", "del"} \cap LastAwait = {} /\ "verify" \in LastAwait
        /\ {"get", "del", "verify"} \subseteq Await
        /\ NextAwait("get", "del") /\ NextAwait("del", "verify")
    BY DEF Await, AwaitOf, LastAwait, NextAwait
  <2> QED BY <2>1, AcctPlanOf3 DEF AC!AcceptInvite
<1>7. r.op = "resend" => AcctPlan(r, AC!ResendVerification)
  <2> HAVE r.op = "resend"
  <2>1. /\ AwaitOf(r, "unverified") /\ AwaitOf(r, "generate")
        /\ {"unverified"} \cap LastAwait = {} /\ "generate" \in LastAwait
        /\ {"unverified", "generate"} \subseteq Await
        /\ NextAwait("unverified", "generate")
    BY DEF Await, AwaitOf, LastAwait, NextAwait
  <2> QED BY <2>1, AcctPlanOf2 DEF AC!ResendVerification
<1>8. r.op = "forgot" => AcctPlan(r, AC!ForgotPassword)
  <2> HAVE r.op = "forgot"
  <2>1. /\ AwaitOf(r, "generate")
        /\ "generate" \in LastAwait
        /\ {"generate"} \subseteq Await
    BY DEF Await, AwaitOf, LastAwait
  <2> QED BY <2>1, AcctPlanOf1 DEF AC!ForgotPassword
<1>9. r.op = "token" => AcctPlan(r, AC!GenerateInviteToken)
  <2> HAVE r.op = "token"
  <2>1. /\ AwaitOf(r, "generate")
        /\ "generate" \in LastAwait
        /\ {"generate"} \subseteq Await
    BY DEF Await, AwaitOf, LastAwait
  <2> QED BY <2>1, AcctPlanOf1 DEF AC!GenerateInviteToken
<1>10. r.op = "reset" => AcctPlan(r, AC!ResetPassword)
  <2> HAVE r.op = "reset"
  <2>1. /\ AwaitOf(r, "get") /\ AwaitOf(r, "del") /\ AwaitOf(r, "hash")
        /\ AwaitOf(r, "purge")
        /\ {"get", "del", "hash"} \cap LastAwait = {} /\ "purge" \in LastAwait
        /\ {"get", "del", "hash", "purge"} \subseteq Await
        /\ NextAwait("get", "del") /\ NextAwait("del", "hash")
        /\ NextAwait("hash", "purge")
    BY DEF Await, AwaitOf, LastAwait, NextAwait
  <2> QED BY <2>1, AcctPlanOf4 DEF AC!ResetPassword
<1>11. r.op = "invite" => AcctPlan(r, AC!Invite)
  <2> HAVE r.op = "invite"
  <2>1. /\ AwaitOf(r, "uniqueInOrg") /\ AwaitOf(r, "insert") /\ AwaitOf(r, "generate")
        /\ {"uniqueInOrg", "insert"} \cap LastAwait = {} /\ "generate" \in LastAwait
        /\ {"uniqueInOrg", "insert", "generate"} \subseteq Await
        /\ NextAwait("uniqueInOrg", "insert") /\ NextAwait("insert", "generate")
    BY DEF Await, AwaitOf, LastAwait, NextAwait
  <2> QED BY <2>1, AcctPlanOf3 DEF AC!Invite
<1>12. r.op = "update" => AcctPlan(r, AC!UpdateUser)
  <2> HAVE r.op = "update"
  <2>1. /\ AwaitOf(r, "load") /\ AwaitOf(r, "save")
        /\ {"load"} \cap LastAwait = {} /\ "save" \in LastAwait
        /\ {"load", "save"} \subseteq Await
        /\ NextAwait("load", "save")
    BY DEF Await, AwaitOf, LastAwait, NextAwait
  <2> QED BY <2>1, AcctPlanOf2 DEF AC!UpdateUser
<1>13. r.op = "deactivate" => AcctPlan(r, AC!Deactivate)
  <2> HAVE r.op = "deactivate"
  <2>1. /\ AwaitOf(r, "deactivate")
        /\ "deactivate" \in LastAwait
        /\ {"deactivate"} \subseteq Await
    BY DEF Await, AwaitOf, LastAwait
  <2> QED BY <2>1, AcctPlanOf1 DEF AC!Deactivate
<1>14. r.op = "reactivate" => AcctPlan(r, AC!ReactivateUser)
  <2> HAVE r.op = "reactivate"
  <2>1. /\ AwaitOf(r, "reactivate")
        /\ "reactivate" \in LastAwait
        /\ {"reactivate"} \subseteq Await
    BY DEF Await, AwaitOf, LastAwait
  <2> QED BY <2>1, AcctPlanOf1 DEF AC!ReactivateUser
<1>15. r.op = "role" => AcctPlan(r, AC!UpdateUserRole)
  <2> HAVE r.op = "role"
  <2>1. /\ AwaitOf(r, "role")
        /\ "role" \in LastAwait
        /\ {"role"} \subseteq Await
    BY DEF Await, AwaitOf, LastAwait
  <2> QED BY <2>1, AcctPlanOf1 DEF AC!UpdateUserRole
<1>16. r.op = "rotate" => AcctPlan(r, AC!RotateAgentToken)
  <2> HAVE r.op = "rotate"
  <2>1. /\ AwaitOf(r, "rotate")
        /\ "rotate" \in LastAwait
        /\ {"rotate"} \subseteq Await
    BY DEF Await, AwaitOf, LastAwait
  <2> QED BY <2>1, AcctPlanOf1 DEF AC!RotateAgentToken
<1>17. r.op = "agent" /\ r.purpose = "" => AcctPlan(r, AC!RegisterPersonal)
  <2> HAVE r.op = "agent" /\ r.purpose = ""
  <2>1. /\ AwaitOf(r, "holder") /\ AwaitOf(r, "device") /\ AwaitOf(r, "rotate")
        /\ {"holder", "device"} \cap LastAwait = {} /\ "rotate" \in LastAwait
        /\ {"holder", "device", "rotate"} \subseteq Await
        /\ NextAwait("holder", "device") /\ NextAwait("device", "rotate")
    BY DEF Await, AwaitOf, LastAwait, NextAwait
  <2> QED BY <2>1, AcctPlanOf3 DEF AC!RegisterPersonal
<1>18. r.op = "agent" /\ r.purpose = "invite" => AcctPlan(r, AC!RegisterInvited)
  <2> HAVE r.op = "agent" /\ r.purpose = "invite"
  <2>1. /\ AwaitOf(r, "get") /\ AwaitOf(r, "del") /\ AwaitOf(r, "owner")
        /\ AwaitOf(r, "device") /\ AwaitOf(r, "rotate")
        /\ {"get", "del", "owner", "device"} \cap LastAwait = {} /\ "rotate" \in LastAwait
        /\ {"get", "del", "owner", "device", "rotate"} \subseteq Await
        /\ NextAwait("get", "del") /\ NextAwait("del", "owner")
        /\ NextAwait("owner", "device") /\ NextAwait("device", "rotate")
    BY DEF Await, AwaitOf, LastAwait, NextAwait
  <2> QED BY <2>1, AcctPlanOf5 DEF AC!RegisterInvited
<1> QED
  BY <1>1, <1>2, <1>3, <1>4, <1>5, <1>6, <1>7, <1>8, <1>9, <1>10,
     <1>11, <1>12, <1>13, <1>14, <1>15, <1>16, <1>17, <1>18

\* What is true of a request that arrives.
AcctArrives(r) ==
    /\ Arrives(r) /\ AcctRequest(r) /\ r.row = acct[1]
    /\ AwaitOf(r, Head(r.todo))
    /\ Head(r.todo) \in {"unique", "uniqueInOrg", "credentials", "generate", "stored", "get",
                         "holder", "blacklist", "unverified", "rotate", "load", "role",
                         "deactivate", "reactivate"}
    /\ r.op = "agent" => Head(r.todo) \in {"get", "holder"}
    /\ r.op = "refresh" => Head(r.todo) = "stored"
    /\ Head(r.todo) = "get" => \E t \in secret : t.key = r.key
    /\ Head(r.todo) = "stored" => \E p \in pairs : p.by = r.key
    /\ Head(r.todo) = "holder" => r.on \in DOMAIN acct /\ r.key = acct[r.on].token
    /\ r.op \in {"update", "role", "deactivate", "reactivate"} =>
          /\ r.who \in DOMAIN acct /\ acct[r.who].active /\ acct[r.who].role = "admin"
          /\ r.on \in DOMAIN acct /\ acct[r.on].org = acct[r.who].org

LEMMA AcctNewRequest ==
    ASSUME NEW r, AC!Arrive(r), DOMAIN r = AcctFields, AcctPlan(r, r.todo), r.id = begun + 1
    PROVE  Arrives(r) /\ AcctRequest(r) /\ AwaitOf(r, Head(r.todo))
BY AcctPlans DEF AC!Arrive, Arrives, AcctRequest

LEMMA AcctArrival ==
    ASSUME AC!Anonymous \/ \E u \in AC!Users : AC!Own(u) \/ AC!Administer(u)
    PROVE  \E r : AcctArrives(r)
<1> DEFINE R(op, who, u, key, role, purpose, todo) ==
        AC!Request(op, who, u, key, role, purpose, todo)
<1>1. ASSUME NEW op, NEW who, NEW u, NEW key, NEW role, NEW purpose, NEW todo,
             AC!Arrive(R(op, who, u, key, role, purpose, todo)),
             \A r : r.op = op /\ r.purpose = purpose => AcctPlan(r, todo),
             Head(todo) \in {"unique", "uniqueInOrg", "credentials", "generate", "stored", "get",
                             "holder", "blacklist", "unverified", "rotate", "load", "role",
                             "deactivate", "reactivate"},
             op = "agent" => Head(todo) \in {"get", "holder"},
             op = "refresh" => Head(todo) = "stored",
             Head(todo) = "get" => \E t \in secret : t.key = key,
             Head(todo) = "stored" => \E p \in pairs : p.by = key,
             Head(todo) = "holder" => u \in DOMAIN acct /\ key = acct[u].token,
             op \in {"update", "role", "deactivate", "reactivate"} =>
                /\ who \in DOMAIN acct /\ acct[who].active /\ acct[who].role = "admin"
                /\ u \in DOMAIN acct /\ acct[u].org = acct[who].org
      PROVE  \E r : AcctArrives(r)
  <2> DEFINE r == R(op, who, u, key, role, purpose, todo)
  <2>1. /\ DOMAIN r = AcctFields /\ r.id = begun + 1 /\ r.op = op /\ r.who = who /\ r.on = u
        /\ r.key = key /\ r.purpose = purpose /\ r.row = acct[1] /\ r.todo = todo
    BY DEF AC!Request, AcctFields
  <2>2. AC!Arrive(r)
    BY <1>1
  <2> HIDE DEF r
  <2>3. Arrives(r) /\ AcctRequest(r) /\ AwaitOf(r, Head(r.todo))
    BY <1>1, <2>1, <2>2, AcctNewRequest
  <2> QED BY <1>1, <2>1, <2>3 DEF AcctArrives
<1>2. /\ Head(AC!Register) = "unique" /\ Head(AC!Login) = "credentials"
      /\ Head(AC!Logout) = "blacklist" /\ Head(AC!RefreshTokens) = "stored"
      /\ Head(AC!VerifyEmail) = "get" /\ Head(AC!ResendVerification) = "unverified"
      /\ Head(AC!ForgotPassword) = "generate" /\ Head(AC!ResetPassword) = "get"
      /\ Head(AC!AcceptInvite) = "get" /\ Head(AC!Invite) = "uniqueInOrg"
      /\ Head(AC!UpdateUser) = "load" /\ Head(AC!Deactivate) = "deactivate"
      /\ Head(AC!ReactivateUser) = "reactivate" /\ Head(AC!UpdateUserRole) = "role"
      /\ Head(AC!RotateAgentToken) = "rotate" /\ Head(AC!GenerateInviteToken) = "generate"
      /\ Head(AC!RegisterPersonal) = "holder" /\ Head(AC!RegisterInvited) = "get"
  BY DEF AC!Register, AC!Login, AC!Logout, AC!RefreshTokens, AC!VerifyEmail,
         AC!ResendVerification, AC!ForgotPassword, AC!ResetPassword, AC!AcceptInvite, AC!Invite,
         AC!UpdateUser, AC!Deactivate, AC!ReactivateUser, AC!UpdateUserRole,
         AC!RotateAgentToken, AC!GenerateInviteToken, AC!RegisterPersonal, AC!RegisterInvited
<1> HIDE DEF R
<1> USE AcctHandlers
<1>3. ASSUME NEW u \in AC!Users,
             \/ AC!Arrive(R("login", 0, u, 0, "", "", AC!Login))
             \/ AC!Arrive(R("forgot", 0, u, 0, "", "reset", AC!ForgotPassword))
             \/ AC!Arrive(R("agent", 0, u, acct[u].token, "", "", AC!RegisterPersonal))
      PROVE  \E r : AcctArrives(r)
  BY <1>1, <1>2, <1>3 DEF AC!Users
<1>4. ASSUME NEW p \in pairs,
             AC!Arrive(R("refresh", 0, p.user, p.by, "", "", AC!RefreshTokens))
      PROVE  \E r : AcctArrives(r)
  BY <1>1, <1>2, <1>4
<1>5. ASSUME NEW t \in secret,
             \/ AC!Arrive(R("verify", 0, t.user, t.key, "", "verify", AC!VerifyEmail))
             \/ AC!Arrive(R("reset", 0, t.user, t.key, "", "reset", AC!ResetPassword))
             \/ AC!Arrive(R("accept", 0, t.user, t.key, "", "invite", AC!AcceptInvite))
             \/ AC!Arrive(R("agent", 0, t.user, t.key, "", "invite", AC!RegisterInvited))
      PROVE  \E r : AcctArrives(r)
  BY <1>1, <1>2, <1>5
<1>6. ASSUME NEW e \in Email,
             AC!Arrive(R("register", 0, begun + 3, e, "admin", "", AC!Register))
      PROVE  \E r : AcctArrives(r)
  BY <1>1, <1>2, <1>6
<1>7. ASSUME NEW u, NEW k,
             \/ AC!Arrive(R("logout", u, u, k, "", "", AC!Logout))
             \/ AC!Arrive(R("resend", u, u, 0, "", "verify", AC!ResendVerification))
             \/ AC!Arrive(R("token", u, u, 0, "", "invite", AC!GenerateInviteToken))
             \/ AC!Arrive(R("rotate", u, u, 0, "", "", AC!RotateAgentToken))
      PROVE  \E r : AcctArrives(r)
  BY <1>1, <1>2, <1>7
<1>8. ASSUME NEW u, NEW e, NEW x,
             AC!Arrive(R("invite", u, begun + 3, e, x, "invite", AC!Invite))
      PROVE  \E r : AcctArrives(r)
  BY <1>1, <1>2, <1>8
<1>9. ASSUME NEW u \in AC!Users, AC!IsAdmin(u), NEW v \in AC!Users, acct[v].org = acct[u].org,
             NEW x,
             \/ AC!Arrive(R("update", u, v, 0, x, "", AC!UpdateUser))
             \/ AC!Arrive(R("role", u, v, 0, x, "", AC!UpdateUserRole))
             \/ AC!Arrive(R("deactivate", u, v, 0, "", "", AC!Deactivate))
             \/ AC!Arrive(R("reactivate", u, v, 0, "", "", AC!ReactivateUser))
      PROVE  \E r : AcctArrives(r)
  BY <1>1, <1>2, <1>9 DEF AC!IsAdmin, AC!Validate, AC!Users
<1> QED
  BY <1>3, <1>4, <1>5, <1>6, <1>7, <1>8, <1>9
     DEF AC!Anonymous, AC!Own, AC!Administer, R

LEMMA AcctMoves ==
    ASSUME NEW r \in flight, AcctRequest(r), AC!Handle(r)
    PROVE  Leaves(r) \/ \E q : AcctOn(r, q)
<1>1. CASE AC!Stop(r) \/ AC!Throw(r)
  BY <1>1 DEF AC!Stop, AC!Throw, Leaves
<1>2. CASE AC!LoadUser(r)
  BY <1>2, AcctGoesOn DEF AC!LoadUser, AC!IsAt
<1>3. CASE AC!GoOn(r) /\ Head(r.todo) # "load"
  BY <1>3, AcctGoesOn DEF AC!LoadUser, AC!IsAt
<1>4. CASE AC!Unique(r) \/ AC!UniqueInOrg(r) \/ AC!Insert(r) \/ AC!Owner(r) \/ AC!Issue(r)
           \/ AC!Stored(r) \/ AC!Revoke(r) \/ AC!Blacklist(r) \/ AC!RevokeAll(r) \/ AC!Hash(r)
  BY <1>1, <1>3, <1>4
     DEF AC!IsAt, AC!Unique, AC!UniqueInOrg, AC!Insert, AC!Owner, AC!Issue, AC!Stored, AC!Revoke,
         AC!Blacklist, AC!RevokeAll, AC!Hash
<1>5. CASE AC!Purge(r) \/ AC!Generate(r) \/ AC!GetToken(r) \/ AC!DelToken(r) \/ AC!Verify(r)
           \/ AC!Unverified(r) \/ AC!SaveUser(r) \/ AC!DeactivateUser(r)
           \/ AC!Reactivate(r) \/ AC!SetRole(r) \/ AC!Holder(r) \/ AC!CreateDevice(r)
           \/ AC!Rotate(r)
  BY <1>1, <1>3, <1>5
     DEF AC!IsAt, AC!Purge, AC!Generate, AC!GetToken, AC!DelToken, AC!Verify, AC!Unverified,
         AC!SaveUser, AC!DeactivateUser, AC!Reactivate, AC!SetRole, AC!Holder, AC!CreateDevice,
         AC!Rotate, AC!Set
<1> QED BY <1>1, <1>2, <1>4, <1>5 DEF AC!Handle

-----------------------------------------------------------------------------
(* One-time tokens *)

\* A token's key is the number of the request that made it, which is over, and a
\* token that is there has let nobody through.  Who is about to delete a token
\* overlapped everybody it has let through by now.
Tokens ==
    /\ \A t \in secret : t.key \in 1 .. begun /\ \A x \in used : x[1] # t.key
    /\ \A x \in used : x[1] \in 1 .. begun
    /\ \A r \in flight, t \in secret : r.id # t.key
    /\ \A r \in flight, x \in used : r.id # x[1]
    /\ \A r \in flight : Head(r.todo) \in {"get", "del"} =>
          r.key \in 1 .. begun /\ \A q \in flight : q.id # r.key
    /\ \A r \in flight, x \in used :
          Head(r.todo) = "del" /\ x[1] = r.key => {x[2], r.id} \in together
    /\ AC!OneTimeTokens

LEMMA TokensKept ==
    ASSUME Numbered, Tokens, UNCHANGED <<secret, used>>, NEW r,
           \/ AcctArrives(r)
           \/ r \in flight /\ Leaves(r)
           \/ r \in flight /\ \E q :
                /\ AcctOn(r, q)
                /\ Head(q.todo) = "del" => \E t \in secret : t.key = r.key
    PROVE  Tokens'
<1>1. CASE AcctArrives(r)
  <2>1. /\ flight' = flight \cup {r} /\ begun' = begun + 1 /\ together \subseteq together'
        /\ secret' = secret /\ used' = used /\ begun \in Nat /\ r.id = begun + 1
        /\ Head(r.todo) # "del"
        /\ Head(r.todo) = "get" => \E t \in secret : t.key = r.key
    BY <1>1 DEF AcctArrives, Arrives, Numbered
  <2> QED BY <2>1 DEF Tokens, Numbered, AC!OneTimeTokens, AC!Overlapped
<1>2. CASE r \in flight /\ Leaves(r)
  <2>1. /\ flight' = flight \ {r} /\ begun' = begun /\ together' = together
        /\ secret' = secret /\ used' = used
    BY <1>2 DEF Leaves
  <2> QED BY <2>1 DEF Tokens, AC!OneTimeTokens, AC!Overlapped
<1>3. ASSUME r \in flight, NEW q, AcctOn(r, q),
             Head(q.todo) = "del" => \E t \in secret : t.key = r.key
      PROVE  Tokens'
  <2>1. /\ flight' = (flight \ {r}) \cup {q} /\ begun' = begun /\ together' = together
        /\ secret' = secret /\ used' = used /\ q.id = r.id /\ q.key = r.key
        /\ Head(q.todo) # "get" /\ (Head(q.todo) = "del" => Head(r.todo) = "get")
    BY <1>3 DEF AcctOn, NextAwait, Continues
  <2> QED BY <1>3, <2>1 DEF Tokens, AC!OneTimeTokens, AC!Overlapped
<1> QED BY <1>1, <1>2, <1>3

LEMMA TokensStep ==
    ASSUME Numbered, Tokens, NEW r \in flight, AcctRequest(r), AC!Handle(r)
    PROVE  Tokens'
<1>1. CASE AC!Generate(r)
  <2>1. Leaves(r)
    BY <1>1, AcctGoesOn DEF AC!Generate, AC!IsAt, AC!LoadUser, LastAwait
  <2> DEFINE t == [key |-> r.id, purpose |-> r.purpose, user |-> r.on]
  <2>2. /\ secret' = secret \cup {t} /\ t.key = r.id
        /\ used' = used /\ flight' = flight \ {r} /\ begun' = begun /\ together' = together
    BY <1>1, <2>1 DEF AC!Generate, Leaves
  <2> HIDE DEF t
  <2> QED BY <2>2 DEF Tokens, Numbered, AC!OneTimeTokens, AC!Overlapped
<1>2. CASE AC!DelToken(r)
  <2>1. PICK q : AcctOn(r, q)
    BY <1>2, AcctGoesOn DEF AC!DelToken, AC!IsAt, AC!LoadUser, LastAwait
  <2>2. /\ secret' = {t \in secret : t.key # r.key} /\ used' = used \cup {<<r.key, r.id>>}
        /\ Head(r.todo) = "del"
        /\ flight' = (flight \ {r}) \cup {q} /\ begun' = begun /\ together' = together
        /\ q.id = r.id /\ q.key = r.key /\ Head(q.todo) \notin {"get", "del"}
    BY <1>2, <2>1 DEF AC!DelToken, AC!IsAt, AcctOn, NextAwait, Continues
  <2>3. \A p \in flight : p # r => {r.id, p.id} \in together
    BY DEF Numbered
  <2>4. \A x \in used' : x \in used \/ (x[1] = r.key /\ x[2] = r.id)
    BY <2>2
  <2>5. \A p \in flight', x \in used' :
          Head(p.todo) = "del" /\ x[1] = p.key => {x[2], p.id} \in together'
    BY <2>2, <2>3, <2>4 DEF Tokens
  <2>6. (AC!OneTimeTokens)'
    <3>1. \A x \in used : x[1] = r.key => {x[2], r.id} \in together
      BY <2>2 DEF Tokens
    <3>2. \A a, b : {a, b} = {b, a}
      OBVIOUS
    <3> QED BY <2>2, <3>1, <3>2 DEF Tokens, AC!OneTimeTokens, AC!Overlapped
  <2> QED BY <2>2, <2>4, <2>5, <2>6 DEF Tokens
<1>3. CASE AC!GetToken(r)
  <2>1. CASE AC!Stop(r)
    BY <1>3, <2>1, TokensKept DEF AC!GetToken, AC!Stop, Leaves
  <2>2. CASE \E t \in secret : t.key = r.key
    BY <1>3, <2>2, AcctMoves, TokensKept DEF AC!GetToken
  <2> QED BY <1>3, <2>1, <2>2 DEF AC!GetToken
<1>4. CASE UNCHANGED <<secret, used>> /\ Head(r.todo) # "get"
  <2>1. \A q : AcctOn(r, q) => Head(q.todo) # "del"
    BY <1>4 DEF AcctOn, NextAwait
  <2> QED BY <1>4, <2>1, AcctMoves, TokensKept
<1>5. \/ AC!Generate(r) \/ AC!DelToken(r) \/ AC!GetToken(r)
      \/ UNCHANGED <<secret, used>> /\ Head(r.todo) # "get"
      \/ AC!Throw(r) /\ UNCHANGED <<secret, used>>
  <2>1. CASE AC!Unique(r) \/ AC!UniqueInOrg(r) \/ AC!Insert(r) \/ AC!Owner(r) \/ AC!Issue(r)
             \/ AC!Stored(r) \/ AC!Revoke(r) \/ AC!Blacklist(r) \/ AC!RevokeAll(r)
             \/ AC!Hash(r) \/ AC!Purge(r)
    BY <2>1 DEF AC!IsAt, AC!Unique, AC!UniqueInOrg, AC!Insert, AC!Owner, AC!Issue, AC!Stored,
                AC!Revoke, AC!Blacklist, AC!RevokeAll, AC!Hash, AC!Purge
  <2>2. CASE AC!Verify(r) \/ AC!Unverified(r) \/ AC!LoadUser(r) \/ AC!SaveUser(r)
             \/ AC!DeactivateUser(r) \/ AC!Reactivate(r) \/ AC!SetRole(r) \/ AC!Holder(r)
             \/ AC!CreateDevice(r) \/ AC!Rotate(r)
    BY <2>2 DEF AC!IsAt, AC!Verify, AC!Unverified, AC!LoadUser, AC!SaveUser, AC!DeactivateUser,
                AC!Reactivate, AC!SetRole, AC!Holder, AC!CreateDevice, AC!Rotate, AC!Set
  <2> QED BY <2>1, <2>2 DEF AC!Handle
<1>6. CASE AC!Throw(r) /\ UNCHANGED <<secret, used>>
  BY <1>6, TokensKept DEF AC!Throw, Leaves
<1> QED BY <1>1, <1>2, <1>3, <1>4, <1>5, <1>6

-----------------------------------------------------------------------------
(* The table of users *)

UserFields ==
    {"org", "email", "role", "active", "verified", "token", "by", "made", "invited"}

\* What no UPDATE writes.
SameUser(a, b) ==
    a.org = b.org /\ a.email = b.email /\ a.made = b.made /\ a.invited = b.invited

Edits == {"update", "role", "deactivate", "reactivate"}

\* The rows of users, and the one that update has read.
UserRows ==
    /\ 1 \in DOMAIN acct
    /\ \A u \in DOMAIN acct : DOMAIN acct[u] = UserFields
    /\ \A r \in flight :
          /\ DOMAIN r.row = UserFields
          /\ r.op \in Edits => r.on \in DOMAIN acct
          /\ Head(r.todo) = "save" => r.on \in DOMAIN acct /\ SameUser(r.row, acct[r.on])

\* What a request writes in the table.
NewUser(r, a) ==
    /\ DOMAIN a = UserFields
    /\ a.email = r.key /\ a.token = r.id /\ a.made = r.id /\ a.by = r.id
    /\ r.op = "invite" => a.invited

UserWrites(r) ==
    /\ DOMAIN acct \subseteq DOMAIN acct'
    /\ \A u \in DOMAIN acct' \ DOMAIN acct :
          u = r.on /\ NewUser(r, acct'[u]) /\ Head(r.todo) = "insert"
    /\ \A u \in DOMAIN acct :
          /\ DOMAIN acct'[u] = UserFields /\ SameUser(acct'[u], acct[u])
          /\ \/ acct'[u].token = acct[u].token
             \/ u = r.on /\ Head(r.todo) = "rotate" /\ acct'[u].token = r.id
          /\ \/ /\ acct'[u].active = acct[u].active /\ acct'[u].verified = acct[u].verified
                /\ acct'[u].role = acct[u].role /\ acct'[u].by = acct[u].by
             \/ /\ u = r.on /\ acct'[u].by = r.id
                /\ Head(r.todo) \in {"verify", "save", "deactivate", "reactivate", "role"}
                /\ Head(r.todo) = "verify" =>
                      acct'[u].active = acct[u].active /\ acct'[u].role = acct[u].role
                /\ Head(r.todo) = "save" =>
                      acct'[u].active = r.row.active /\ acct'[u].verified = r.row.verified

LEMMA UsersWritten ==
    ASSUME UserRows, NEW r \in flight, AcctRequest(r), AC!Handle(r)
    PROVE  UserWrites(r)
<1>1. CASE acct' = acct
  BY <1>1 DEF UserRows, UserWrites, SameUser
<1>2. ASSUME NEW a, AC!Set(r, a),
             r.on \in DOMAIN acct =>
                /\ DOMAIN a = UserFields /\ SameUser(a, acct[r.on])
                /\ a.token = acct[r.on].token
                /\ Head(r.todo) = "verify" =>
                      a.active = acct[r.on].active /\ a.role = acct[r.on].role
                /\ Head(r.todo) = "save" =>
                      a.active = r.row.active /\ a.verified = r.row.verified,
             Head(r.todo) \in {"verify", "save", "deactivate", "reactivate", "role"}
      PROVE  UserWrites(r)
  <2> DEFINE b == [a EXCEPT !.by = r.id]
  <2>1. acct' = [acct EXCEPT ![r.on] = b]
    BY <1>2 DEF AC!Set
  <2>2. r.on \in DOMAIN acct =>
           /\ DOMAIN b = UserFields /\ SameUser(b, acct[r.on]) /\ b.token = acct[r.on].token
           /\ b.by = r.id /\ b.active = a.active /\ b.verified = a.verified /\ b.role = a.role
    BY <1>2 DEF UserFields, SameUser
  <2> HIDE DEF b
  <2> QED BY <1>2, <2>1, <2>2 DEF UserWrites, UserRows, SameUser
<1>3. CASE AC!Insert(r) /\ acct' # acct
  <2> DEFINE org == IF r.op = "invite" THEN acct[r.who].org ELSE r.on
             a == AC!User(org, r.key, r.role, r.id, r.op = "invite")
  <2>1. /\ acct' = [u \in DOMAIN acct \cup {r.on} |->
                       IF u \in DOMAIN acct THEN acct[u] ELSE a]
        /\ Head(r.todo) = "insert"
    BY <1>3 DEF AC!Insert, AC!IsAt, AC!Users
  <2>2. NewUser(r, a)
    BY DEF NewUser, AC!User, UserFields
  <2> HIDE DEF a
  <2>3. /\ DOMAIN acct' = DOMAIN acct \cup {r.on}
        /\ \A u \in DOMAIN acct : acct'[u] = acct[u]
        /\ r.on \notin DOMAIN acct => acct'[r.on] = a
    BY <2>1
  <2> QED BY <2>1, <2>2, <2>3 DEF UserWrites, UserRows, SameUser
<1>4. CASE AC!Rotate(r)
  <2> DEFINE a == [acct[r.on] EXCEPT !.token = r.id]
  <2>1. acct' = [acct EXCEPT ![r.on] = a] /\ Head(r.todo) = "rotate"
    BY <1>4 DEF AC!Rotate, AC!IsAt
  <2>2. r.on \in DOMAIN acct =>
           /\ DOMAIN a = UserFields /\ SameUser(a, acct[r.on]) /\ a.token = r.id
           /\ a.active = acct[r.on].active /\ a.verified = acct[r.on].verified
           /\ a.role = acct[r.on].role /\ a.by = acct[r.on].by
    BY DEF UserRows, UserFields, SameUser
  <2> HIDE DEF a
  <2> QED BY <2>1, <2>2 DEF UserWrites, UserRows, SameUser
<1>5. CASE AC!Verify(r) \/ AC!DeactivateUser(r) \/ AC!Reactivate(r) \/ AC!SetRole(r)
  <2>1. r.on \in DOMAIN acct =>
           /\ DOMAIN [acct[r.on] EXCEPT !.verified = TRUE] = UserFields
           /\ SameUser([acct[r.on] EXCEPT !.verified = TRUE], acct[r.on])
           /\ [acct[r.on] EXCEPT !.verified = TRUE].token = acct[r.on].token
           /\ [acct[r.on] EXCEPT !.verified = TRUE].active = acct[r.on].active
           /\ [acct[r.on] EXCEPT !.verified = TRUE].role = acct[r.on].role
    BY DEF UserRows, UserFields, SameUser
  <2>2. \A x : r.on \in DOMAIN acct =>
           /\ DOMAIN [acct[r.on] EXCEPT !.active = x] = UserFields
           /\ SameUser([acct[r.on] EXCEPT !.active = x], acct[r.on])
           /\ [acct[r.on] EXCEPT !.active = x].token = acct[r.on].token
    BY DEF UserRows, UserFields, SameUser
  <2>3. r.on \in DOMAIN acct =>
           /\ DOMAIN [acct[r.on] EXCEPT !.role = r.role] = UserFields
           /\ SameUser([acct[r.on] EXCEPT !.role = r.role], acct[r.on])
           /\ [acct[r.on] EXCEPT !.role = r.role].token = acct[r.on].token
    BY DEF UserRows, UserFields, SameUser
  <2>4. CASE AC!Verify(r)
    BY <1>2, <2>1, <2>4 DEF AC!Verify, AC!IsAt
  <2>5. CASE AC!DeactivateUser(r)
    BY <1>2, <2>2, <2>5 DEF AC!DeactivateUser, AC!IsAt
  <2>6. CASE AC!Reactivate(r)
    BY <1>2, <2>2, <2>6 DEF AC!Reactivate, AC!IsAt
  <2>7. CASE AC!SetRole(r)
    BY <1>2, <2>3, <2>7 DEF AC!SetRole, AC!IsAt
  <2> QED BY <1>5, <2>4, <2>5, <2>6, <2>7
<1>6. CASE AC!SaveUser(r)
  <2> DEFINE a == [r.row EXCEPT !.role = r.role, !.token = acct[r.on].token]
  <2>1. DOMAIN r.row = UserFields /\ SameUser(r.row, acct[r.on])
    BY <1>6 DEF AC!SaveUser, AC!IsAt, UserRows
  <2>2. /\ DOMAIN a = UserFields /\ SameUser(a, acct[r.on]) /\ a.token = acct[r.on].token
        /\ a.active = r.row.active /\ a.verified = r.row.verified
    BY <2>1 DEF UserFields, SameUser
  <2>3. AC!Set(r, a) /\ Head(r.todo) = "save"
    BY <1>6 DEF AC!SaveUser, AC!IsAt
  <2> HIDE DEF a
  <2> QED BY <1>2, <2>2, <2>3
<1>7. \/ acct' = acct
      \/ AC!Insert(r) \/ AC!Rotate(r) \/ AC!Verify(r) \/ AC!DeactivateUser(r)
      \/ AC!Reactivate(r) \/ AC!SetRole(r) \/ AC!SaveUser(r)
  BY DEF AC!Handle, AC!Unique, AC!UniqueInOrg, AC!Owner, AC!Issue, AC!Stored,
         AC!Revoke, AC!Blacklist, AC!RevokeAll, AC!Hash, AC!Purge, AC!Generate, AC!GetToken,
         AC!DelToken, AC!Unverified, AC!LoadUser, AC!Holder, AC!CreateDevice
<1> QED BY <1>1, <1>3, <1>4, <1>5, <1>6, <1>7

LEMMA UserRowsKept ==
    ASSUME UserRows, NEW r,
           \/ AcctArrives(r) /\ acct' = acct
           \/ r \in flight /\ UserWrites(r) /\ (Leaves(r) \/ \E q : AcctOn(r, q))
    PROVE  UserRows'
<1>1. CASE AcctArrives(r) /\ acct' = acct
  BY <1>1 DEF UserRows, AcctArrives, Arrives, Edits
<1>2. ASSUME r \in flight, UserWrites(r),
             \A p \in flight' :
                /\ DOMAIN p.row = UserFields
                /\ p.op \in Edits => p.on \in DOMAIN acct
                /\ Head(p.todo) = "save" => p.on \in DOMAIN acct /\ SameUser(p.row, acct[p.on])
      PROVE  UserRows'
  <2>1. /\ DOMAIN acct \subseteq DOMAIN acct'
        /\ \A u \in DOMAIN acct' : DOMAIN acct'[u] = UserFields
        /\ \A u \in DOMAIN acct : SameUser(acct'[u], acct[u])
    BY <1>2 DEF UserWrites, NewUser
  <2> QED BY <1>2, <2>1 DEF UserRows, SameUser
<1>3. CASE r \in flight /\ UserWrites(r) /\ Leaves(r)
  BY <1>2, <1>3 DEF UserRows, Leaves
<1>4. ASSUME r \in flight, UserWrites(r), NEW q, AcctOn(r, q)
      PROVE  UserRows'
  <2>1. /\ flight' = (flight \ {r}) \cup {q} /\ q.on = r.on /\ q.op = r.op
        /\ q.row = IF Head(r.todo) = "load" THEN acct[r.on] ELSE r.row
        /\ Head(q.todo) = "save" => Head(r.todo) = "load"
        /\ Head(r.todo) = "load" => q.op = "update"
    BY <1>4 DEF AcctOn, Continues, NextAwait, AwaitOf
  <2>2. /\ DOMAIN q.row = UserFields
        /\ q.op \in Edits => q.on \in DOMAIN acct
        /\ Head(q.todo) = "save" => q.on \in DOMAIN acct /\ SameUser(q.row, acct[q.on])
    BY <1>4, <2>1 DEF UserRows, Edits, SameUser
  <2> QED BY <1>2, <1>4, <2>1, <2>2 DEF UserRows
<1> QED BY <1>1, <1>3, <1>4

-----------------------------------------------------------------------------
(* Personal agent tokens *)

Personal(r) == r.op = "agent" /\ r.purpose = ""

\* Nobody has a token whose number is that of a request that may still burn one.
TokensNumbered ==
    /\ \A u \in DOMAIN acct : acct[u].token \in 0 .. begun
    /\ \A d \in devices : d.with \in Int /\ d.with <= begun
                          /\ (d.with >= 0 => d.user \in DOMAIN acct)
    /\ \A r \in flight : Personal(r) => r.on \in DOMAIN acct /\ r.key \in 0 .. begun

BurnersNumbered ==
    \A r \in flight : r.op \in {"rotate", "agent"} =>
        /\ \A u \in DOMAIN acct : acct[u].token # r.id
        /\ \A d \in devices : d.with # r.id
        /\ \A q \in flight : Personal(q) => q.key # r.id

\* A personal token that has registered a device is burnt, is about to be burnt
\* by the request that used it, or that request failed.
UsedTokensBurn ==
    \A d \in devices : d.with >= 0 =>
        \/ d.by \in failed \cup {0} \/ acct[d.user].token # d.with
        \/ \E r \in flight : r.id = d.by /\ Head(r.todo) = "rotate" /\ r.on = d.user
                             /\ r.op = "agent"

DevicesOverlap ==
    \A r \in flight, d \in devices :
        Personal(r) /\ Head(r.todo) = "device" /\ d.user = r.on /\ d.with = r.key
           => {d.by, r.id} \in together \/ d.by \in failed \cup {0}

DeviceTokens ==
    TokensNumbered /\ BurnersNumbered /\ UsedTokensBurn /\ DevicesOverlap
    /\ AC!OneDevicePerToken

LEMMA DeviceTokensKept ==
    ASSUME Numbered, DeviceTokens, devices' = devices, NEW r,
           \/ AcctArrives(r) /\ acct' = acct
           \/ /\ r \in flight /\ UserWrites(r)
              /\ Head(r.todo) = "insert" => r.op \in {"register", "invite"}
              /\ \/ Leaves(r) /\ (Head(r.todo) = "rotate" => r.id \in failed' /\ acct' = acct)
                 \/ \E q : /\ AcctOn(r, q)
                           /\ Personal(r) /\ Head(q.todo) = "device" => acct[r.on].token = r.key
    PROVE  DeviceTokens'
<1>1. CASE AcctArrives(r) /\ acct' = acct
  <2>1. /\ flight' = flight \cup {r} /\ begun' = begun + 1 /\ together \subseteq together'
        /\ failed' = failed /\ begun \in Nat /\ r.id = begun + 1
        /\ r.op = "agent" => Head(r.todo) \in {"get", "holder"}
        /\ Personal(r) => r.on \in DOMAIN acct /\ r.key = acct[r.on].token
    BY <1>1 DEF AcctArrives, Arrives, Numbered, Personal, AwaitOf
  <2> DEFINE new == begun + 1
  <2>7. /\ \A n \in 0 .. begun : n \in 0 .. new /\ n # new
        /\ \A n \in 1 .. begun : n # new
        /\ \A n \in Int : n <= begun => n <= new /\ n # new
    BY <2>1
  <2>8. begun' = new /\ r.id = new
    BY <2>1
  <2> HIDE DEF new
  <2>2. TokensNumbered'
    BY <1>1, <2>1, <2>7, <2>8 DEF DeviceTokens, TokensNumbered, Personal
  <2>3. BurnersNumbered'
    <3> SUFFICES ASSUME NEW s \in flight', s.op \in {"rotate", "agent"}
                 PROVE  /\ \A u \in DOMAIN acct : acct[u].token # s.id
                        /\ \A d \in devices : d.with # s.id
                        /\ \A q \in flight' : Personal(q) => q.key # s.id
      BY <1>1 DEF BurnersNumbered, Personal
    <3>1. \A q \in flight' : Personal(q) => q.key \in 0 .. begun
      BY <1>1, <2>1 DEF DeviceTokens, TokensNumbered
    <3>2. CASE s = r
      BY <2>7, <2>8, <3>1, <3>2 DEF DeviceTokens, TokensNumbered
    <3>3. CASE s \in flight
      <4>1. s.id \in 1 .. begun
        BY <3>3 DEF Numbered
      <4>2. Personal(r) => r.key # s.id
        BY <2>1, <3>3 DEF DeviceTokens, BurnersNumbered
      <4> QED BY <2>1, <3>3, <4>2 DEF DeviceTokens, BurnersNumbered
    <3> QED BY <2>1, <3>2, <3>3
  <2>4. UsedTokensBurn'
    BY <1>1, <2>1 DEF DeviceTokens, UsedTokensBurn
  <2>5. DevicesOverlap'
    BY <1>1, <2>1 DEF DeviceTokens, DevicesOverlap, Personal
  <2>6. (AC!OneDevicePerToken)'
    BY <2>1 DEF DeviceTokens, AC!OneDevicePerToken, AC!Overlapped
  <2> QED BY <2>2, <2>3, <2>4, <2>5, <2>6 DEF DeviceTokens
<1>2. CASE /\ r \in flight /\ UserWrites(r)
           /\ Head(r.todo) = "insert" => r.op \in {"register", "invite"}
           /\ Head(r.todo) # "rotate" \/ acct' = acct
  <2>1. /\ DOMAIN acct \subseteq DOMAIN acct'
        /\ \A u \in DOMAIN acct : acct'[u].token = acct[u].token
        /\ \A u \in DOMAIN acct' \ DOMAIN acct :
              acct'[u].token = r.id /\ r.op \in {"register", "invite"}
    BY <1>2 DEF UserWrites, NewUser
  <2>2. r.id \in 0 .. begun /\ \A p \in flight : p.id = r.id => p = r
    <3>1. begun \in Nat /\ r.id \in 1 .. begun
      BY <1>2 DEF Numbered
    <3>2. \A p \in flight : p.id = r.id => p = r
      BY <1>2 DEF Numbered
    <3> QED BY <3>1, <3>2
  <2>3. CASE Leaves(r) /\ (Head(r.todo) = "rotate" => r.id \in failed' /\ acct' = acct)
    <3>1. /\ flight' = flight \ {r} /\ begun' = begun /\ together' = together
          /\ failed \subseteq failed' /\ devices' = devices
      BY <2>3 DEF Leaves
    <3>2. TokensNumbered'
      BY <2>1, <2>2, <3>1 DEF DeviceTokens, TokensNumbered, Personal
    <3>3. BurnersNumbered'
      BY <2>1, <2>2, <3>1 DEF DeviceTokens, BurnersNumbered, Personal
    <3>4. UsedTokensBurn'
      BY <2>1, <2>3, <3>1 DEF DeviceTokens, TokensNumbered, UsedTokensBurn
    <3>5. DevicesOverlap'
      BY <3>1 DEF DeviceTokens, DevicesOverlap, Personal
    <3>6. (AC!OneDevicePerToken)'
      BY <3>1 DEF DeviceTokens, AC!OneDevicePerToken, AC!Overlapped
    <3> QED BY <3>2, <3>3, <3>4, <3>5, <3>6 DEF DeviceTokens
  <2>4. ASSUME NEW q, AcctOn(r, q),
               Personal(r) /\ Head(q.todo) = "device" => acct[r.on].token = r.key
        PROVE  DeviceTokens'
    <3>1. /\ flight' = (flight \ {r}) \cup {q} /\ begun' = begun /\ together' = together
          /\ failed' = failed /\ q.id = r.id /\ q.key = r.key /\ q.on = r.on /\ q.op = r.op
          /\ Personal(q) <=> Personal(r)
          /\ Head(r.todo) # "rotate"
      BY <2>4 DEF AcctOn, NextAwait, Continues, Personal
    <3>2. TokensNumbered'
      BY <1>2, <2>1, <2>2, <3>1 DEF DeviceTokens, TokensNumbered, Personal
    <3>8. \A p \in flight' : \E x \in flight :
             p.id = x.id /\ p.op = x.op /\ p.key = x.key /\ (Personal(p) <=> Personal(x))
      BY <1>2, <3>1
    <3>9. \A u \in DOMAIN acct' : \/ u \in DOMAIN acct /\ acct'[u].token = acct[u].token
                                  \/ acct'[u].token = r.id /\ r.op \notin {"rotate", "agent"}
      BY <2>1
    <3>3. BurnersNumbered'
      BY <1>2, <2>2, <3>1, <3>8, <3>9 DEF DeviceTokens, BurnersNumbered
    <3>4. UsedTokensBurn'
      BY <2>1, <3>1 DEF DeviceTokens, TokensNumbered, UsedTokensBurn
    <3>5. \A d \in devices :
             Personal(q) /\ Head(q.todo) = "device" /\ d.user = q.on /\ d.with = q.key
                => {d.by, q.id} \in together \/ d.by \in failed \cup {0}
      <4> SUFFICES ASSUME NEW d \in devices, Personal(q), Head(q.todo) = "device",
                          d.user = q.on, d.with = q.key, d.by \notin failed \cup {0}
                   PROVE  {d.by, q.id} \in together
        OBVIOUS
      <4>1. d.with >= 0 /\ acct[d.user].token = d.with
        BY <1>2, <2>4, <3>1 DEF DeviceTokens, TokensNumbered
      <4>2. PICK p \in flight : p.id = d.by /\ Head(p.todo) = "rotate"
        BY <4>1 DEF DeviceTokens, UsedTokensBurn
      <4> QED BY <1>2, <3>1, <4>2 DEF Numbered
    <3>6. DevicesOverlap'
      BY <3>1, <3>5 DEF DeviceTokens, DevicesOverlap, Personal
    <3>7. (AC!OneDevicePerToken)'
      BY <3>1 DEF DeviceTokens, AC!OneDevicePerToken, AC!Overlapped
    <3> QED BY <3>2, <3>3, <3>4, <3>6, <3>7 DEF DeviceTokens
  <2> QED BY <1>1, <1>2, <2>3, <2>4
<1>3. Head(r.todo) # "rotate" \/ acct' = acct
  BY DEF AcctOn, NextAwait
<1> QED BY <1>1, <1>2, <1>3

LEMMA DeviceTokensStep ==
    ASSUME Numbered, UserRows, DeviceTokens, NEW r \in flight, AcctRequest(r), AC!Handle(r)
    PROVE  DeviceTokens'
<1>1. AwaitOf(r, Head(r.todo)) /\ UserWrites(r)
  BY AcctPlans, UsersWritten DEF AcctRequest
<1>2. Head(r.todo) = "insert" => r.op \in {"register", "invite"}
  BY <1>1 DEF AwaitOf
<1>3. CASE AC!Throw(r) /\ UNCHANGED <<acct, devices>>
  BY <1>1, <1>2, <1>3, DeviceTokensKept DEF AC!Throw, Leaves
<1>4. CASE devices' = devices /\ Head(r.todo) \notin {"rotate", "holder"}
  <2>1. \A q : AcctOn(r, q) => ~(Personal(r) /\ Head(q.todo) = "device")
    BY <1>1, <1>4 DEF AcctOn, NextAwait, AwaitOf, Personal
  <2> QED BY <1>1, <1>2, <1>4, <2>1, AcctMoves, DeviceTokensKept
<1>5. CASE AC!Holder(r)
  <2>1. CASE AC!Stop(r)
    <3>1. Leaves(r) /\ devices' = devices /\ Head(r.todo) # "rotate"
      BY <1>5, <2>1 DEF AC!Holder, AC!IsAt, AC!Stop, Leaves
    <3> QED BY <1>1, <1>2, <3>1, DeviceTokensKept
  <2>2. CASE acct[r.on].token = r.key
    <3>1. devices' = devices /\ Head(r.todo) = "holder"
      BY <1>5 DEF AC!Holder, AC!IsAt
    <3> QED BY <1>1, <1>2, <2>2, <3>1, AcctMoves, DeviceTokensKept
  <2> QED BY <1>5, <2>1, <2>2 DEF AC!Holder
<1>6. CASE AC!CreateDevice(r)
  <2> DEFINE d == [by |-> r.id, user |-> r.on,
                   with |-> IF r.purpose = "" THEN r.key ELSE 0 - 1]
  <2>1. devices' = devices \cup {d} /\ acct' = acct /\ Head(r.todo) = "device"
    BY <1>6 DEF AC!CreateDevice, AC!IsAt
  <2>2. PICK q : AcctOn(r, q)
    BY <1>6, <2>1, AcctGoesOn DEF AC!CreateDevice, AC!LoadUser, AC!IsAt, LastAwait
  <2>3. /\ flight' = (flight \ {r}) \cup {q} /\ begun' = begun /\ together' = together
        /\ failed' = failed /\ q.id = r.id /\ q.key = r.key /\ q.on = r.on /\ q.op = r.op
        /\ Personal(q) <=> Personal(r)
        /\ Head(q.todo) = "rotate" /\ r.op = "agent"
    BY <1>1, <2>1, <2>2 DEF AcctOn, NextAwait, Continues, Personal, AwaitOf
  <2>4. d.by = r.id /\ d.user = r.on /\ d.with = IF Personal(r) THEN r.key ELSE 0 - 1
    BY <2>3 DEF Personal
  <2>5. /\ begun \in Nat /\ r.id \in 1 .. begun
        /\ Personal(r) => r.key \in 0 .. begun /\ r.on \in DOMAIN acct
    BY DEF Numbered, DeviceTokens, TokensNumbered
  <2> HIDE DEF d
  <2>6. d.with \in Int /\ d.with <= begun /\ (d.with >= 0 => Personal(r) /\ d.with = r.key)
    BY <2>4, <2>5
  <2>7. TokensNumbered'
    BY <2>1, <2>3, <2>4, <2>5, <2>6 DEF DeviceTokens, TokensNumbered
  <2>8. BurnersNumbered'
    <3>1. \A p \in flight' : \E x \in flight :
             p.id = x.id /\ p.op = x.op /\ p.key = x.key /\ (Personal(p) <=> Personal(x))
      BY <2>3
    <3>2. \A p \in flight : p.op \in {"rotate", "agent"} => d.with # p.id
      BY <2>5, <2>6 DEF DeviceTokens, BurnersNumbered, Numbered
    <3> QED BY <2>1, <3>1, <3>2 DEF DeviceTokens, BurnersNumbered
  <2>9. UsedTokensBurn'
    BY <2>1, <2>3, <2>4 DEF DeviceTokens, UsedTokensBurn
  <2>10. DevicesOverlap'
    <3>1. \A p \in flight : p # r => {r.id, p.id} \in together
      BY DEF Numbered
    <3> QED BY <2>1, <2>3, <2>4, <3>1 DEF DeviceTokens, DevicesOverlap
  <2>11. (AC!OneDevicePerToken)'
    <3>1. \A e \in devices : e.user = d.user /\ e.with = d.with /\ d.with >= 0
             => {e.by, d.by} \in together \/ e.by \in failed \cup {0}
      BY <2>1, <2>4, <2>6 DEF DeviceTokens, DevicesOverlap
    <3>2. \A a, b : {a, b} = {b, a}
      OBVIOUS
    <3> QED BY <2>1, <2>3, <3>1, <3>2 DEF DeviceTokens, AC!OneDevicePerToken, AC!Overlapped
  <2> QED BY <2>7, <2>8, <2>9, <2>10, <2>11 DEF DeviceTokens
<1>7. CASE AC!Rotate(r)
  <2>1. Head(r.todo) = "rotate" /\ devices' = devices /\ acct' = [acct EXCEPT ![r.on].token = r.id]
    BY <1>7 DEF AC!Rotate, AC!IsAt
  <2>2. Leaves(r)
    BY <1>7, <2>1, AcctGoesOn DEF AC!Rotate, AC!LoadUser, AC!IsAt, LastAwait
  <2>3. /\ flight' = flight \ {r} /\ begun' = begun /\ together' = together
        /\ failed \subseteq failed' /\ r.op \in {"agent", "rotate"}
    BY <1>1, <2>1, <2>2 DEF Leaves, AwaitOf
  <2>4. /\ DOMAIN acct' = DOMAIN acct
        /\ r.on \in DOMAIN acct => acct'[r.on].token = r.id
        /\ \A u \in DOMAIN acct : acct'[u].token = acct[u].token \/ acct'[u].token = r.id
    BY <2>1 DEF UserRows, UserFields
  <2>5. begun \in Nat /\ r.id \in 1 .. begun /\ \A p \in flight' : p.id # r.id
    BY <2>2, EndKeepsNumbers DEF Numbered
  <2>6. TokensNumbered'
    BY <2>1, <2>3, <2>4, <2>5 DEF DeviceTokens, TokensNumbered
  <2>7. BurnersNumbered'
    BY <2>1, <2>3, <2>4, <2>5 DEF DeviceTokens, BurnersNumbered
  <2>8. UsedTokensBurn'
    BY <2>1, <2>3, <2>4 DEF DeviceTokens, UsedTokensBurn, TokensNumbered, BurnersNumbered
  <2>9. DevicesOverlap'
    BY <2>1, <2>3 DEF DeviceTokens, DevicesOverlap
  <2>10. (AC!OneDevicePerToken)'
    BY <2>1, <2>3 DEF DeviceTokens, AC!OneDevicePerToken, AC!Overlapped
  <2> QED BY <2>6, <2>7, <2>8, <2>9, <2>10 DEF DeviceTokens
<1>8. \/ AC!CreateDevice(r) \/ AC!Rotate(r) \/ AC!Holder(r)
      \/ AC!Throw(r) /\ UNCHANGED <<acct, devices>>
      \/ devices' = devices /\ Head(r.todo) \notin {"rotate", "holder"}
  <2>1. CASE AC!Unique(r) \/ AC!UniqueInOrg(r) \/ AC!Insert(r) \/ AC!Owner(r) \/ AC!Issue(r)
             \/ AC!Stored(r) \/ AC!Revoke(r) \/ AC!Blacklist(r) \/ AC!RevokeAll(r)
             \/ AC!Hash(r) \/ AC!Purge(r) \/ AC!Generate(r)
    BY <2>1 DEF AC!IsAt, AC!Unique, AC!UniqueInOrg, AC!Insert, AC!Owner, AC!Issue, AC!Stored,
                AC!Revoke, AC!Blacklist, AC!RevokeAll, AC!Hash, AC!Purge, AC!Generate
  <2>2. CASE AC!GetToken(r) \/ AC!DelToken(r) \/ AC!Verify(r) \/ AC!Unverified(r)
             \/ AC!LoadUser(r) \/ AC!SaveUser(r) \/ AC!DeactivateUser(r) \/ AC!Reactivate(r)
             \/ AC!SetRole(r)
    BY <2>2 DEF AC!IsAt, AC!GetToken, AC!DelToken, AC!Verify, AC!Unverified, AC!LoadUser,
                AC!SaveUser, AC!DeactivateUser, AC!Reactivate, AC!SetRole, AC!Set
  <2> QED BY <2>1, <2>2 DEF AC!Handle
<1> QED BY <1>3, <1>4, <1>5, <1>6, <1>7, <1>8

-----------------------------------------------------------------------------
(* Token pairs and closed sessions *)

PairFields == {"by", "user", "from", "refresh", "access"}

\* A pair has the number of the request that issued it, which is over, as is the
\* one that issued the pair it was exchanged for.
PairsNumbered ==
    /\ \A p \in pairs : DOMAIN p = PairFields /\ p.by \in 0 .. begun /\ p.from \in 0 .. begun
    /\ \A p \in pairs, r \in flight : p.by # r.id /\ p.from # r.id
    /\ \A r \in flight : r.op = "refresh" =>
          r.key \in 0 .. begun /\ \A q \in flight : q.id # r.key

PairsUnique == \A p, q \in pairs : p.by = q.by /\ p.user = q.user => p = q

\* The pair that was exchanged is dead, and so is the one that is about to be.
ExchangedIsDead ==
    /\ \A p, s \in pairs :
          p.from # p.by /\ s.by = p.from /\ s.user = p.user => s.refresh # "live"
    /\ \A r \in flight, s \in pairs :
          r.op = "refresh" /\ Head(r.todo) = "issue" /\ s.by = r.key /\ s.user = r.on
             => s.refresh # "live"

\* Who has found the pair unrevoked overlapped every exchange of it by now.
ExchangesOverlap ==
    \A r \in flight, p \in pairs :
        r.op = "refresh" /\ Head(r.todo) \in {"owner", "revoke", "issue"}
        /\ p.from = r.key /\ p.user = r.on /\ p.from # p.by => {p.by, r.id} \in together

\* Who is handled now came after a closing or overlapped it.
ClosedNumbered ==
    \A c \in closed : /\ c.id \in 1 .. begun
                      /\ \A r \in flight : r.id > c.id \/ {r.id, c.id} \in together

Sessions ==
    PairsNumbered /\ PairsUnique /\ ExchangedIsDead /\ ExchangesOverlap /\ ClosedNumbered
    /\ AC!RotationIsLinear /\ AC!ClosedSessionsStayClosed

\* The rows are those that were there, or less alive.
PairsWeaken ==
    /\ \A p \in pairs' : \E s \in pairs :
          /\ DOMAIN p = PairFields /\ p.by = s.by /\ p.user = s.user /\ p.from = s.from
          /\ p.refresh = "live" => s.refresh = "live"
    /\ PairsUnique'

LEMMA PairsMarked ==
    ASSUME PairsNumbered, PairsUnique, NEW P, NEW s, s # "live", AC!Mark(P, s)
    PROVE  /\ PairsWeaken
           /\ \A p \in pairs' : p.refresh = "live" => p \in pairs /\ p \notin P
<1> DEFINE F(p) == IF p \in P /\ p.refresh # "gone" THEN [p EXCEPT !.refresh = s] ELSE p
<1>1. pairs' = {F(p) : p \in pairs}
  BY DEF AC!Mark
<1>2. \A p \in pairs :
         /\ DOMAIN F(p) = PairFields /\ F(p).by = p.by /\ F(p).user = p.user
         /\ F(p).from = p.from
         /\ F(p).refresh = "live" => F(p) = p /\ p \notin P
  BY DEF PairsNumbered, PairFields
<1> HIDE DEF F
<1> QED BY <1>1, <1>2 DEF PairsWeaken, PairsUnique

LEMMA PairsStay ==
    ASSUME PairsNumbered, PairsUnique, pairs' = pairs
    PROVE  PairsWeaken
BY DEF PairsNumbered, PairsUnique, PairsWeaken

LEMMA PairsBlacklisted ==
    ASSUME PairsNumbered, PairsUnique, NEW r, AC!Blacklist(r)
    PROVE  PairsWeaken
<1> DEFINE F(p) == IF p.by = r.key /\ p.user = r.on THEN [p EXCEPT !.access = FALSE] ELSE p
<1>1. pairs' = {F(p) : p \in pairs}
  BY DEF AC!Blacklist
<1>2. \A p \in pairs :
         /\ DOMAIN F(p) = PairFields /\ F(p).by = p.by /\ F(p).user = p.user
         /\ F(p).from = p.from /\ F(p).refresh = p.refresh
  BY DEF PairsNumbered, PairFields
<1> HIDE DEF F
<1> QED BY <1>1, <1>2 DEF PairsWeaken, PairsUnique

\* A step that issues no pair.
LEMMA SessionsKept ==
    ASSUME Numbered, Sessions, PairsWeaken, NEW r,
           \/ AcctArrives(r) /\ closed' = closed
           \/ /\ r \in flight /\ Leaves(r)
              /\ \/ closed' = closed
                 \/ \E u : /\ closed' = closed \cup {[id |-> r.id, user |-> u]}
                           /\ \A p \in pairs' : p.user = u => p.refresh # "live"
           \/ /\ r \in flight /\ closed' = closed /\ AwaitOf(r, Head(r.todo))
              /\ \E q : /\ AcctOn(r, q)
                        /\ Head(r.todo) = "stored" => \E p \in pairs :
                              p.by = r.key /\ p.user = r.on /\ p.refresh = "live"
                        /\ Head(r.todo) = "revoke" => \A p \in pairs' :
                              p.by = r.key /\ p.user = r.on => p.refresh # "live"
    PROVE  Sessions'
<1>1. (AC!RotationIsLinear)'
  <2>1. together \subseteq together'
    BY DEF AcctArrives, Arrives, Leaves, AcctOn, Continues
  <2> QED BY <2>1 DEF Sessions, PairsWeaken, PairsUnique, AC!RotationIsLinear, AC!Overlapped
<1>2. PairsUnique'
  BY DEF PairsWeaken
<1>3. CASE AcctArrives(r) /\ closed' = closed
  <2> DEFINE new == begun + 1
  <2>1. /\ flight' = flight \cup {r} /\ begun' = new /\ together \subseteq together'
        /\ r.id = new
        /\ Head(r.todo) \notin {"owner", "revoke", "issue"}
        /\ r.op = "refresh" => \E p \in pairs : p.by = r.key
    BY <1>3 DEF AcctArrives, Arrives
  <2>2. /\ \A n \in 0 .. begun : n \in 0 .. new /\ n # new
        /\ \A n \in 1 .. begun : n \in 1 .. new /\ n # new /\ new > n
    BY DEF Numbered
  <2> HIDE DEF new
  <2>3. PairsNumbered'
    BY <2>1, <2>2 DEF Sessions, PairsNumbered, PairsWeaken, Numbered
  <2>4. ExchangedIsDead'
    BY <2>1 DEF Sessions, ExchangedIsDead, PairsWeaken
  <2>5. ExchangesOverlap'
    BY <2>1 DEF Sessions, ExchangesOverlap, PairsWeaken
  <2>6. ClosedNumbered'
    BY <1>3, <2>1, <2>2 DEF Sessions, ClosedNumbered
  <2>7. (AC!ClosedSessionsStayClosed)'
    BY <1>3, <2>1 DEF Sessions, PairsWeaken, AC!ClosedSessionsStayClosed, AC!Overlapped
  <2> QED BY <1>1, <1>2, <2>3, <2>4, <2>5, <2>6, <2>7 DEF Sessions
<1>4. CASE r \in flight /\ Leaves(r)
  <2>1. flight' = flight \ {r} /\ begun' = begun /\ together' = together
    BY <1>4 DEF Leaves
  <2>2. PairsNumbered'
    BY <2>1 DEF Sessions, PairsNumbered, PairsWeaken
  <2>3. ExchangedIsDead'
    BY <2>1 DEF Sessions, ExchangedIsDead, PairsWeaken
  <2>4. ExchangesOverlap'
    BY <2>1 DEF Sessions, ExchangesOverlap, PairsWeaken
  <2>5. CASE closed' = closed
    <3>1. ClosedNumbered'
      BY <2>1, <2>5 DEF Sessions, ClosedNumbered
    <3>2. (AC!ClosedSessionsStayClosed)'
      BY <2>1, <2>5 DEF Sessions, PairsWeaken, AC!ClosedSessionsStayClosed, AC!Overlapped
    <3> QED BY <1>1, <1>2, <2>2, <2>3, <2>4, <3>1, <3>2 DEF Sessions
  <2>6. ASSUME NEW u, closed' = closed \cup {[id |-> r.id, user |-> u]},
               \A p \in pairs' : p.user = u => p.refresh # "live"
        PROVE  Sessions'
    <3> DEFINE c == [id |-> r.id, user |-> u]
    <3>1. closed' = closed \cup {c} /\ c.id = r.id /\ c.user = u
      BY <2>6
    <3> HIDE DEF c
    <3>2. r.id \in 1 .. begun /\ \A q \in flight : q # r => {q.id, r.id} \in together
      BY <1>4 DEF Numbered
    <3>3. ClosedNumbered'
      BY <2>1, <3>1, <3>2 DEF Sessions, ClosedNumbered
    <3>4. (AC!ClosedSessionsStayClosed)'
      BY <2>1, <2>6, <3>1 DEF Sessions, PairsWeaken, AC!ClosedSessionsStayClosed, AC!Overlapped
    <3> QED BY <1>1, <1>2, <2>2, <2>3, <2>4, <3>3, <3>4 DEF Sessions
  <2>7. closed' = closed \/ \E u : /\ closed' = closed \cup {[id |-> r.id, user |-> u]}
                                   /\ \A p \in pairs' : p.user = u => p.refresh # "live"
    <3>1. \A q : ~AcctOn(r, q)
      BY <1>4, <2>1 DEF AcctOn, Continues, Numbered
    <3> QED BY <1>4, <3>1
  <2> QED BY <2>5, <2>6, <2>7
<1>5. ASSUME r \in flight, closed' = closed, AwaitOf(r, Head(r.todo)), NEW q, AcctOn(r, q),
             Head(r.todo) = "stored" =>
                \E p \in pairs : p.by = r.key /\ p.user = r.on /\ p.refresh = "live",
             Head(r.todo) = "revoke" =>
                \A p \in pairs' : p.by = r.key /\ p.user = r.on => p.refresh # "live"
      PROVE  Sessions'
  <2>1. /\ flight' = (flight \ {r}) \cup {q} /\ begun' = begun /\ together' = together
        /\ q.id = r.id /\ q.key = r.key /\ q.on = r.on /\ q.op = r.op
    BY <1>5 DEF AcctOn, Continues
  <2>2. r.op = "refresh" /\ Head(q.todo) \in {"owner", "revoke", "issue"} =>
           /\ Head(r.todo) \in {"stored", "owner", "revoke"}
           /\ Head(q.todo) = "issue" => Head(r.todo) = "revoke"
    BY <1>5 DEF AcctOn, NextAwait, AwaitOf
  <2>3. PairsNumbered'
    BY <1>5, <2>1 DEF Sessions, PairsNumbered, PairsWeaken
  <2>4. ExchangedIsDead'
    <3>1. \A p, s \in pairs' :
             p.from # p.by /\ s.by = p.from /\ s.user = p.user => s.refresh # "live"
      BY DEF Sessions, ExchangedIsDead, PairsWeaken
    <3>2. \A p \in flight', s \in pairs' :
             p.op = "refresh" /\ Head(p.todo) = "issue" /\ s.by = p.key /\ s.user = p.on
                => s.refresh # "live"
      BY <1>5, <2>1, <2>2 DEF Sessions, ExchangedIsDead, PairsWeaken
    <3> QED BY <3>1, <3>2 DEF ExchangedIsDead
  <2>5. ExchangesOverlap'
    <3>1. \A p \in pairs : Head(r.todo) = "stored" /\ p.from = r.key /\ p.user = r.on
             => p.from = p.by
      BY <1>5 DEF Sessions, ExchangedIsDead
    <3>2. \A p \in pairs :
             r.op = "refresh" /\ Head(q.todo) \in {"owner", "revoke", "issue"}
             /\ p.from = r.key /\ p.user = r.on /\ p.from # p.by => {p.by, r.id} \in together
      BY <1>5, <2>2, <3>1 DEF Sessions, ExchangesOverlap
    <3> QED BY <2>1, <3>2 DEF Sessions, ExchangesOverlap, PairsWeaken
  <2>6. ClosedNumbered'
    BY <1>5, <2>1 DEF Sessions, ClosedNumbered
  <2>7. (AC!ClosedSessionsStayClosed)'
    BY <1>5, <2>1 DEF Sessions, PairsWeaken, AC!ClosedSessionsStayClosed, AC!Overlapped
  <2> QED BY <1>1, <1>2, <2>3, <2>4, <2>5, <2>6, <2>7 DEF Sessions
<1> QED BY <1>3, <1>4, <1>5

LEMMA SessionsStep ==
    ASSUME Numbered, Sessions, NEW r \in flight, AcctRequest(r), AC!Handle(r)
    PROVE  Sessions'
<1>1. AwaitOf(r, Head(r.todo))
  BY AcctPlans DEF AcctRequest
<1>2. PairsNumbered /\ PairsUnique
  BY DEF Sessions
<1>3. CASE AC!Throw(r) /\ UNCHANGED <<pairs, closed>>
  BY <1>2, <1>3, PairsStay, SessionsKept DEF AC!Throw, Leaves
<1>4. CASE UNCHANGED <<pairs, closed>> /\ Head(r.todo) \notin {"stored", "revoke"}
  BY <1>1, <1>2, <1>4, PairsStay, AcctMoves, SessionsKept
<1>5. CASE AC!Stored(r)
  <2>1. UNCHANGED <<pairs, closed>> /\ Head(r.todo) # "revoke" /\ PairsWeaken
    BY <1>2, <1>5, PairsStay DEF AC!Stored, AC!IsAt
  <2>2. CASE AC!Stop(r)
    BY <2>1, <2>2, SessionsKept DEF AC!Stop, Leaves
  <2>3. CASE \E p \in pairs : p.by = r.key /\ p.user = r.on /\ p.refresh = "live"
    BY <1>1, <2>1, <2>3, AcctMoves, SessionsKept
  <2> QED BY <1>5, <2>2, <2>3 DEF AC!Stored
<1>6. CASE AC!Revoke(r)
  <2> DEFINE P == {p \in pairs : p.by = r.key /\ p.user = r.on}
  <2>1. AC!Mark(P, "revoked") /\ closed' = closed /\ Head(r.todo) = "revoke"
    BY <1>6 DEF AC!Revoke, AC!IsAt
  <2>2. /\ PairsWeaken
        /\ \A p \in pairs' : p.refresh = "live" => p \in pairs /\ p \notin P
    <3> HIDE DEF P
    <3> QED BY <1>2, <2>1, PairsMarked
  <2>3. \A p \in pairs' : p.by = r.key /\ p.user = r.on => p.refresh # "live"
    BY <2>2
  <2> QED BY <1>1, <2>1, <2>2, <2>3, AcctMoves, SessionsKept
<1>7. CASE AC!Blacklist(r)
  <2>1. closed' = closed /\ Head(r.todo) = "blacklist"
    BY <1>7 DEF AC!Blacklist, AC!IsAt
  <2> QED BY <1>1, <1>2, <1>7, <2>1, PairsBlacklisted, AcctMoves, SessionsKept
<1>8. CASE AC!RevokeAll(r) \/ AC!Purge(r)
  <2> DEFINE P == {p \in pairs : p.user = r.on}
  <2>1. PICK s : /\ s # "live" /\ AC!Mark(P, s)
                 /\ closed' = closed \cup {[id |-> r.id, user |-> r.on]}
                 /\ Head(r.todo) \in {"revokeAll", "purge"}
    BY <1>8 DEF AC!RevokeAll, AC!Purge, AC!IsAt
  <2>2. /\ PairsWeaken
        /\ \A p \in pairs' : p.refresh = "live" => p \in pairs /\ p \notin P
    <3> HIDE DEF P
    <3> QED BY <1>2, <2>1, PairsMarked
  <2>3. \A p \in pairs' : p.user = r.on => p.refresh # "live"
    BY <2>2
  <2>4. Leaves(r)
    BY <1>8, <2>1, AcctGoesOn DEF AC!RevokeAll, AC!Purge, AC!LoadUser, AC!IsAt, LastAwait
  <2> QED BY <2>1, <2>2, <2>3, <2>4, SessionsKept
<1>9. CASE AC!Issue(r)
  <2> DEFINE new == AC!TokenPair(r.id, r.on, IF r.op = "refresh" THEN r.key ELSE r.id)
  <2>1. pairs' = pairs \cup {new} /\ closed' = closed /\ Head(r.todo) = "issue"
    BY <1>9 DEF AC!Issue, AC!IsAt
  <2>2. /\ DOMAIN new = PairFields /\ new.by = r.id /\ new.user = r.on
        /\ new.from = IF r.op = "refresh" THEN r.key ELSE r.id
    BY DEF AC!TokenPair, PairFields
  <2> HIDE DEF new
  <2>3. Leaves(r)
    BY <1>9, <2>1, AcctGoesOn DEF AC!Issue, AC!LoadUser, AC!IsAt, LastAwait
  <2>4. /\ flight' = flight \ {r} /\ begun' = begun /\ together' = together
        /\ begun \in Nat /\ r.id \in 1 .. begun /\ r.id \in 0 .. begun
    BY <2>3 DEF Leaves, Numbered
  <2>5. \A q \in flight' : q.id # r.id /\ {q.id, r.id} \in together /\ {r.id, q.id} \in together
    BY <2>4 DEF Numbered
  <2>6. PairsNumbered'
    BY <2>1, <2>2, <2>4, <2>5 DEF Sessions, PairsNumbered
  <2>7. PairsUnique'
    BY <2>1, <2>2 DEF Sessions, PairsNumbered, PairsUnique
  <2>8. ExchangedIsDead'
    BY <2>1, <2>2, <2>4 DEF Sessions, PairsNumbered, ExchangedIsDead
  <2>9. ExchangesOverlap'
    BY <2>1, <2>2, <2>4, <2>5 DEF Sessions, ExchangesOverlap
  <2>10. ClosedNumbered'
    BY <2>1, <2>4 DEF Sessions, ClosedNumbered
  <2>11. (AC!RotationIsLinear)'
    <3>1. r.op = "refresh" => \A p \in pairs : p.from = r.key /\ p.user = r.on /\ p.from # p.by
             => {p.by, r.id} \in together
      BY <2>1 DEF Sessions, ExchangesOverlap
    <3>2. \A a, b : {a, b} = {b, a}
      OBVIOUS
    <3> QED BY <2>1, <2>2, <2>4, <3>1, <3>2 DEF Sessions, AC!RotationIsLinear, AC!Overlapped
  <2>12. (AC!ClosedSessionsStayClosed)'
    BY <2>1, <2>2, <2>4 DEF Sessions, ClosedNumbered, AC!ClosedSessionsStayClosed, AC!Overlapped
  <2> QED BY <2>6, <2>7, <2>8, <2>9, <2>10, <2>11, <2>12 DEF Sessions
<1>10. \/ AC!Stored(r) \/ AC!Revoke(r) \/ AC!Blacklist(r) \/ AC!RevokeAll(r) \/ AC!Purge(r)
       \/ AC!Issue(r)
       \/ AC!Throw(r) /\ UNCHANGED <<pairs, closed>>
       \/ UNCHANGED <<pairs, closed>> /\ Head(r.todo) \notin {"stored", "revoke"}
  <2>1. CASE AC!Unique(r) \/ AC!UniqueInOrg(r) \/ AC!Insert(r) \/ AC!Owner(r) \/ AC!Hash(r)
             \/ AC!Generate(r) \/ AC!GetToken(r) \/ AC!DelToken(r) \/ AC!Verify(r)
             \/ AC!Unverified(r)
    BY <2>1 DEF AC!IsAt, AC!Unique, AC!UniqueInOrg, AC!Insert, AC!Owner, AC!Hash, AC!Generate,
                AC!GetToken, AC!DelToken, AC!Verify, AC!Unverified, AC!Set
  <2>2. CASE AC!LoadUser(r) \/ AC!SaveUser(r) \/ AC!DeactivateUser(r) \/ AC!Reactivate(r)
             \/ AC!SetRole(r) \/ AC!Holder(r) \/ AC!CreateDevice(r) \/ AC!Rotate(r)
    BY <2>2 DEF AC!IsAt, AC!LoadUser, AC!SaveUser, AC!DeactivateUser, AC!Reactivate, AC!SetRole,
                AC!Holder, AC!CreateDevice, AC!Rotate, AC!Set
  <2> QED BY <2>1, <2>2 DEF AC!Handle
<1> QED BY <1>3, <1>4, <1>5, <1>6, <1>7, <1>8, <1>9, <1>10

-----------------------------------------------------------------------------
(* Writes of the table of users *)

\* Who is about to insert an account overlapped every sign-up with its address.
SignUpsOverlap ==
    \A r \in flight, u \in DOMAIN acct :
        r.op = "register" /\ Head(r.todo) = "insert" /\ acct[u].email = r.key
           => acct[u].invited \/ {acct[u].made, r.id} \in together

\* A row that update has read is the user's, but for what it overlapped.
SavesOverlap ==
    \A r \in flight : Head(r.todo) = "save" =>
        \/ r.row.active = acct[r.on].active /\ r.row.verified = acct[r.on].verified
        \/ {r.id, acct[r.on].by} \in together

\* Who edits a user is an admin of his organization, but for what he overlapped.
AdminsStay ==
    \A r \in flight : r.op \in Edits =>
        /\ r.who \in DOMAIN acct /\ acct[r.who].org = acct[r.on].org
        /\ \/ acct[r.who].active /\ acct[r.who].role = "admin"
           \/ {r.id, acct[r.who].by} \in together

UserWritesOverlap == SignUpsOverlap /\ SavesOverlap /\ AdminsStay /\ AC!EmailIsOneAccount

LEMMA UserWritesKept ==
    ASSUME Numbered, UserRows, UserWritesOverlap, NEW r,
           \/ AcctArrives(r) /\ acct' = acct
           \/ /\ r \in flight /\ UserWrites(r) /\ AwaitOf(r, Head(r.todo))
              /\ Leaves(r) \/ \E q : AcctOn(r, q)
              /\ \/ \A q : ~AcctOn(r, q) \/ Head(r.todo) # "unique"
                 \/ \A u \in DOMAIN acct : acct[u].email # r.key
    PROVE  UserWritesOverlap'
<1>1. CASE AcctArrives(r) /\ acct' = acct
  <2>1. /\ flight' = flight \cup {r} /\ together \subseteq together'
        /\ Head(r.todo) \notin {"insert", "save"}
        /\ r.op \in Edits =>
              /\ r.who \in DOMAIN acct /\ acct[r.who].active /\ acct[r.who].role = "admin"
              /\ r.on \in DOMAIN acct /\ acct[r.on].org = acct[r.who].org
    BY <1>1 DEF AcctArrives, Arrives, Edits
  <2>2. SignUpsOverlap'
    BY <1>1, <2>1 DEF UserWritesOverlap, SignUpsOverlap
  <2>3. SavesOverlap'
    BY <1>1, <2>1 DEF UserWritesOverlap, SavesOverlap
  <2>4. AdminsStay'
    BY <1>1, <2>1 DEF UserWritesOverlap, AdminsStay
  <2>5. (AC!EmailIsOneAccount)'
    BY <1>1, <2>1 DEF UserWritesOverlap, AC!EmailIsOneAccount, AC!Overlapped, AC!Users
  <2> QED BY <2>2, <2>3, <2>4, <2>5 DEF UserWritesOverlap
<1>2. CASE /\ r \in flight /\ UserWrites(r) /\ AwaitOf(r, Head(r.todo))
           /\ Leaves(r) \/ \E q : AcctOn(r, q)
           /\ \/ \A q : ~AcctOn(r, q) \/ Head(r.todo) # "unique"
              \/ \A u \in DOMAIN acct : acct[u].email # r.key
  <2>1. /\ DOMAIN acct \subseteq DOMAIN acct'
        /\ \A u \in DOMAIN acct : SameUser(acct'[u], acct[u])
        /\ \A u \in DOMAIN acct :
              \/ /\ acct'[u].active = acct[u].active /\ acct'[u].verified = acct[u].verified
                 /\ acct'[u].role = acct[u].role /\ acct'[u].by = acct[u].by
              \/ acct'[u].by = r.id
    BY <1>2 DEF UserWrites
  <2>2. ASSUME NEW u \in DOMAIN acct', u \notin DOMAIN acct
        PROVE  /\ acct'[u].email = r.key /\ acct'[u].made = r.id /\ u = r.on
               /\ \/ acct'[u].invited
                  \/ r.op = "register" /\ Head(r.todo) = "insert"
    BY <1>2, <2>2 DEF UserWrites, NewUser, AwaitOf
  <2>3. \A p \in flight : p # r => {r.id, p.id} \in together /\ {p.id, r.id} \in together
    BY <1>2 DEF Numbered
  <2>4. together' = together /\ \A p \in flight' : (p \in flight /\ p # r) \/ AcctOn(r, p)
    BY <1>2 DEF Leaves, AcctOn, Continues, AcctArrives, Arrives, Numbered
  <2>5. (AC!EmailIsOneAccount)'
    <3>1. ASSUME NEW u \in DOMAIN acct', u \notin DOMAIN acct, NEW v \in DOMAIN acct,
                 acct'[u].email = acct'[v].email
          PROVE  acct'[u].invited \/ acct'[v].invited
                 \/ {acct'[u].made, acct'[v].made} \in together
      <4>1. acct'[v].email = acct[v].email /\ acct'[v].made = acct[v].made
            /\ acct'[v].invited = acct[v].invited
        BY <2>1 DEF SameUser
      <4>2. \A a, b : {a, b} = {b, a}
        OBVIOUS
      <4>3. CASE r.op = "register" /\ Head(r.todo) = "insert"
        BY <1>2, <2>2, <3>1, <4>1, <4>2, <4>3 DEF UserWritesOverlap, SignUpsOverlap
      <4> QED BY <2>2, <3>1, <4>3
    <3>2. ASSUME NEW u \in DOMAIN acct, NEW v \in DOMAIN acct, u # v,
                 acct'[u].email = acct'[v].email
          PROVE  acct'[u].invited \/ acct'[v].invited
                 \/ {acct'[u].made, acct'[v].made} \in together
      BY <2>1, <3>2 DEF UserWritesOverlap, AC!EmailIsOneAccount, AC!Overlapped, AC!Users, SameUser
    <3>3. \A a, b : {a, b} = {b, a}
      OBVIOUS
    <3> QED BY <2>1, <2>2, <2>4, <3>1, <3>2, <3>3 DEF AC!EmailIsOneAccount, AC!Overlapped, AC!Users
  <2>6. SignUpsOverlap'
    <3> SUFFICES ASSUME NEW p \in flight', NEW u \in DOMAIN acct', p.op = "register",
                        Head(p.todo) = "insert", acct'[u].email = p.key
                 PROVE  acct'[u].invited \/ {acct'[u].made, p.id} \in together
      BY <2>4 DEF SignUpsOverlap
    <3>1. CASE p \in flight /\ p # r
      <4>1. CASE u \in DOMAIN acct
        BY <2>1, <3>1, <4>1 DEF UserWritesOverlap, SignUpsOverlap, SameUser
      <4>2. CASE u \notin DOMAIN acct
        BY <2>2, <2>3, <3>1, <4>2
      <4> QED BY <4>1, <4>2
    <3>2. CASE AcctOn(r, p)
      <4>1. p.key = r.key /\ Head(r.todo) = "unique"
        BY <1>2, <3>2 DEF AcctOn, NextAwait, AwaitOf
      <4>2. u \in DOMAIN acct /\ acct'[u].email = acct[u].email
        BY <1>2, <2>1, <4>1 DEF UserWrites, SameUser
      <4> QED BY <1>2, <3>2, <4>1, <4>2
    <3> QED BY <2>4, <3>1, <3>2
  <2>7. SavesOverlap'
    <3> SUFFICES ASSUME NEW p \in flight', Head(p.todo) = "save"
                 PROVE  \/ /\ p.row.active = acct'[p.on].active
                           /\ p.row.verified = acct'[p.on].verified
                        \/ {p.id, acct'[p.on].by} \in together
      BY <2>4 DEF SavesOverlap
    <3>1. CASE p \in flight /\ p # r
      <4>1. p.on \in DOMAIN acct
        BY <3>1 DEF UserRows
      <4> QED BY <2>1, <2>3, <3>1, <4>1 DEF UserWritesOverlap, SavesOverlap
    <3>2. CASE AcctOn(r, p)
      <4>1. p.on = r.on /\ Head(r.todo) = "load" /\ p.row = acct[r.on] /\ r.op = "update"
        BY <1>2, <3>2 DEF AcctOn, NextAwait, AwaitOf
      <4>2. r.on \in DOMAIN acct
        BY <1>2, <4>1 DEF UserRows, Edits
      <4> QED BY <1>2, <4>1, <4>2 DEF UserWrites
    <3> QED BY <2>4, <3>1, <3>2
  <2>8. AdminsStay'
    <3> SUFFICES ASSUME NEW p \in flight', p.op \in Edits
                 PROVE  /\ p.who \in DOMAIN acct' /\ acct'[p.who].org = acct'[p.on].org
                        /\ \/ acct'[p.who].active /\ acct'[p.who].role = "admin"
                           \/ {p.id, acct'[p.who].by} \in together
      BY <2>4 DEF AdminsStay
    <3>1. PICK x \in flight : /\ x.op = p.op /\ x.who = p.who /\ x.on = p.on /\ x.id = p.id
                              /\ x # r \/ AcctOn(r, p)
      BY <1>2, <2>4 DEF AcctOn, Continues
    <3>2. /\ p.who \in DOMAIN acct /\ p.on \in DOMAIN acct /\ acct[p.who].org = acct[p.on].org
          /\ \/ acct[p.who].active /\ acct[p.who].role = "admin"
             \/ {p.id, acct[p.who].by} \in together
      BY <3>1 DEF UserRows, UserWritesOverlap, AdminsStay
    <3>3. p.who \in DOMAIN acct' /\ acct'[p.who].org = acct'[p.on].org
      BY <2>1, <3>2 DEF SameUser
    <3>4. CASE x # r
      BY <2>1, <2>3, <3>1, <3>2, <3>3, <3>4
    <3>5. CASE AcctOn(r, p)
      <4>1. Head(r.todo) \notin {"verify", "save", "deactivate", "reactivate", "role"}
        BY <3>5 DEF AcctOn, NextAwait
      <4> QED BY <1>2, <3>2, <3>3, <4>1 DEF UserWrites
    <3> QED BY <3>1, <3>4, <3>5
  <2> QED BY <2>5, <2>6, <2>7, <2>8 DEF UserWritesOverlap
<1> QED BY <1>1, <1>2

LEMMA UserWritesStep ==
    ASSUME Numbered, UserRows, UserWritesOverlap, NEW r \in flight, AcctRequest(r), AC!Handle(r)
    PROVE  UserWritesOverlap'
<1>1. AwaitOf(r, Head(r.todo)) /\ UserWrites(r) /\ (Leaves(r) \/ \E q : AcctOn(r, q))
  BY AcctPlans, AcctMoves, UsersWritten DEF AcctRequest
<1>2. CASE Head(r.todo) # "unique" \/ \A u \in DOMAIN acct : acct[u].email # r.key
  BY <1>1, <1>2, UserWritesKept
<1>3. CASE Head(r.todo) = "unique" /\ \E u \in DOMAIN acct : acct[u].email = r.key
  <2>1. AC!Unique(r) \/ AC!Throw(r)
    BY <1>3 DEF AC!Handle, AC!IsAt, AC!UniqueInOrg, AC!Insert, AC!Owner, AC!Issue, AC!Stored,
                AC!Revoke, AC!Blacklist, AC!RevokeAll, AC!Hash, AC!Purge, AC!Generate,
                AC!GetToken, AC!DelToken, AC!Verify, AC!Unverified, AC!LoadUser, AC!SaveUser,
                AC!DeactivateUser, AC!Reactivate, AC!SetRole, AC!Holder, AC!CreateDevice,
                AC!Rotate
  <2>2. Leaves(r)
    BY <1>3, <2>1 DEF AC!Unique, AC!Stop, AC!Throw, AC!Users, Leaves
  <2>3. \A q : ~AcctOn(r, q)
    BY <2>2 DEF Leaves, AcctOn, Continues, Numbered
  <2> QED BY <1>1, <2>3, UserWritesKept
<1> QED BY <1>2, <1>3

-----------------------------------------------------------------------------
(* The invariant of the accounts *)

AcctGood ==
    /\ Numbered /\ \A r \in flight : AcctRequest(r)
    /\ Tokens /\ UserRows /\ DeviceTokens /\ Sessions /\ UserWritesOverlap

AcctInit ==
    /\ acct = [u \in {1, 2} |-> AC!User(1, u, "admin", 0, FALSE)]
    /\ secret = {} /\ used = {} /\ closed = {}
    /\ pairs = {AC!TokenPair(0, 1, 0), AC!TokenPair(0, 2, 0)}
    /\ devices = {[by |-> 0, user |-> 2, with |-> 0]}

\* The service starts with two users and leaves the tables to its own handlers.
AcctInv ==
    /\ focus # "accounts" => AcctInit
    /\ focus = "accounts" => AcctGood

\* What the properties say of the tables as they are at first.
LEMMA AcctInitTables ==
    ASSUME AcctInit
    PROVE  /\ DOMAIN acct = {1, 2} /\ secret = {} /\ used = {} /\ closed = {}
           /\ \A u \in {1, 2} : /\ DOMAIN acct[u] = UserFields /\ acct[u].email = u
                                /\ acct[u].token = 0
           /\ \A p \in pairs : /\ DOMAIN p = PairFields /\ p.by = 0 /\ p.from = 0
                               /\ p.user \in {1, 2}
           /\ \A p, q \in pairs : p.user = q.user => p = q
           /\ \A d \in devices : d.by = 0 /\ d.user = 2 /\ d.with = 0
           /\ \A d, e \in devices : d = e
           /\ AC!OneTimeTokens /\ AC!OneDevicePerToken /\ AC!RotationIsLinear
           /\ AC!ClosedSessionsStayClosed /\ AC!EmailIsOneAccount
<1>1. /\ DOMAIN acct = {1, 2} /\ secret = {} /\ used = {} /\ closed = {}
      /\ \A u \in {1, 2} : /\ DOMAIN acct[u] = UserFields /\ acct[u].email = u
                           /\ acct[u].token = 0
  BY DEF AcctInit, AC!User, UserFields
<1>2. /\ \A p \in pairs : /\ DOMAIN p = PairFields /\ p.by = 0 /\ p.from = 0
                          /\ p.user \in {1, 2}
      /\ \A p, q \in pairs : p.user = q.user => p = q
  BY DEF AcctInit, AC!TokenPair, PairFields
<1>3. /\ \A d \in devices : d.by = 0 /\ d.user = 2 /\ d.with = 0
      /\ \A d, e \in devices : d = e
  BY DEF AcctInit
<1>4. /\ AC!OneTimeTokens /\ AC!OneDevicePerToken /\ AC!RotationIsLinear
      /\ AC!ClosedSessionsStayClosed /\ AC!EmailIsOneAccount
  BY <1>1, <1>2, <1>3
     DEF AC!OneTimeTokens, AC!OneDevicePerToken, AC!RotationIsLinear,
         AC!ClosedSessionsStayClosed, AC!EmailIsOneAccount, AC!Users
<1> QED BY <1>1, <1>2, <1>3, <1>4

LEMMA AcctBegins == Init => AcctInv
<1> SUFFICES ASSUME Init PROVE AcctInv
  OBVIOUS
<1>1. AcctInit /\ flight = {} /\ begun = 0 /\ together = {} /\ failed = {}
  BY DEF Init, AC!Init, AC!RequestsInit, AcctInit
<1>2. Numbered /\ (\A r \in flight : AcctRequest(r)) /\ Tokens
  BY <1>1, AcctInitTables DEF Numbered, Tokens
<1>3. UserRows /\ UserWritesOverlap
  BY <1>1, AcctInitTables
     DEF UserRows, UserWritesOverlap, SignUpsOverlap, SavesOverlap, AdminsStay
<1>4. DeviceTokens
  BY <1>1, AcctInitTables
     DEF DeviceTokens, TokensNumbered, BurnersNumbered, UsedTokensBurn, DevicesOverlap
<1>5. Sessions
  BY <1>1, AcctInitTables
     DEF Sessions, PairsNumbered, PairsUnique, ExchangedIsDead, ExchangesOverlap,
         ClosedNumbered
<1> QED BY <1>1, <1>2, <1>3, <1>4, <1>5 DEF AcctInv, AcctGood

LEMMA AcctNewGood ==
    ASSUME AcctGood, NEW r, AcctArrives(r), UNCHANGED accounts
    PROVE  AcctGood'
<1>1. /\ acct' = acct /\ secret' = secret /\ used' = used /\ pairs' = pairs
      /\ closed' = closed /\ devices' = devices
      /\ Arrives(r) /\ AcctRequest(r) /\ flight' = flight \cup {r}
  BY DEF accounts, AcctArrives, Arrives
<1>2. Numbered' /\ \A q \in flight' : AcctRequest(q)
  BY <1>1, ArrivalKeepsNumbers DEF AcctGood
<1>3. Tokens' /\ UserRows'
  BY <1>1, TokensKept, UserRowsKept DEF AcctGood
<1>4. DeviceTokens' /\ UserWritesOverlap'
  BY <1>1, DeviceTokensKept, UserWritesKept DEF AcctGood
<1>5. PairsWeaken
  BY <1>1, PairsStay DEF AcctGood, Sessions
<1>6. Sessions'
  BY <1>1, <1>5, SessionsKept DEF AcctGood
<1> QED BY <1>2, <1>3, <1>4, <1>6 DEF AcctGood

LEMMA AcctHandled ==
    ASSUME AcctGood, NEW r \in flight, AC!Handle(r)
    PROVE  AcctGood'
<1>1. AcctRequest(r) /\ (Leaves(r) \/ \E q : AcctOn(r, q))
  BY AcctMoves DEF AcctGood
<1>2. Numbered'
  BY <1>1, EndKeepsNumbers, AwaitKeepsNumbers DEF AcctGood, AcctOn
<1>3. \A p \in flight' : AcctRequest(p)
  BY <1>1 DEF AcctGood, Leaves, AcctOn, Continues
<1>4. UserRows'
  BY <1>1, UsersWritten, UserRowsKept DEF AcctGood
<1>5. Tokens' /\ DeviceTokens'
  BY <1>1, TokensStep, DeviceTokensStep DEF AcctGood
<1>6. Sessions' /\ UserWritesOverlap'
  BY <1>1, SessionsStep, UserWritesStep DEF AcctGood
<1> QED BY <1>2, <1>3, <1>4, <1>5, <1>6 DEF AcctGood

LEMMA AcctStutters ==
    ASSUME AcctGood, UNCHANGED <<requests, accounts>>
    PROVE  AcctGood'
<1>1. /\ flight' = flight /\ begun' = begun /\ together' = together /\ failed' = failed
      /\ acct' = acct /\ secret' = secret /\ used' = used /\ pairs' = pairs
      /\ closed' = closed /\ devices' = devices
  BY DEF requests, accounts
<1>2. Numbered' /\ (\A q \in flight' : AcctRequest(q)) /\ Tokens'
  BY <1>1 DEF AcctGood, Numbered, Tokens, AC!OneTimeTokens, AC!Overlapped
<1>3. UserRows'
  BY <1>1 DEF AcctGood, UserRows
<1>4. UserWritesOverlap'
  BY <1>1 DEF AcctGood, UserWritesOverlap, SignUpsOverlap, SavesOverlap, AdminsStay,
              AC!EmailIsOneAccount, AC!Overlapped, AC!Users
<1>5. TokensNumbered' /\ BurnersNumbered' /\ UsedTokensBurn' /\ DevicesOverlap'
  BY <1>1 DEF AcctGood, DeviceTokens, TokensNumbered, BurnersNumbered, UsedTokensBurn,
              DevicesOverlap
<1>6. (AC!OneDevicePerToken)' /\ (AC!RotationIsLinear)' /\ (AC!ClosedSessionsStayClosed)'
  BY <1>1 DEF AcctGood, DeviceTokens, Sessions, AC!OneDevicePerToken, AC!RotationIsLinear,
              AC!ClosedSessionsStayClosed, AC!Overlapped
<1>7. PairsNumbered' /\ PairsUnique' /\ ExchangedIsDead' /\ ExchangesOverlap' /\ ClosedNumbered'
  BY <1>1 DEF AcctGood, Sessions, PairsNumbered, PairsUnique, ExchangedIsDead,
              ExchangesOverlap, ClosedNumbered
<1> QED BY <1>2, <1>3, <1>4, <1>5, <1>6, <1>7 DEF AcctGood, DeviceTokens, Sessions

LEMMA AcctStep == AcctInv /\ [Next]_vars => AcctInv'
<1> SUFFICES ASSUME AcctInv, [Next]_vars PROVE AcctInv'
  OBVIOUS
<1>1. focus' = focus
  BY DEF Next, vars
<1>2. CASE focus # "accounts"
  <2>1. UNCHANGED accounts
    BY <1>2 DEF Next, vars
  <2> QED BY <1>1, <1>2, <2>1 DEF AcctInv, AcctInit, accounts
<1>3. CASE focus = "accounts"
  <2> SUFFICES AcctGood'
    BY <1>1, <1>3 DEF AcctInv
  <2>1. AcctGood
    BY <1>3 DEF AcctInv
  <2>2. CASE AC!Next
    <3>1. CASE /\ AC!Anonymous \/ \E u \in AC!Users : AC!Own(u) \/ AC!Administer(u)
               /\ UNCHANGED accounts
      BY <2>1, <3>1, AcctArrival, AcctNewGood
    <3>2. ASSUME NEW r \in flight, AC!Handle(r)
          PROVE  AcctGood'
      BY <2>1, <3>2, AcctHandled
    <3> QED BY <2>2, <3>1, <3>2 DEF AC!Next, accounts
  <2>3. CASE UNCHANGED vars
    BY <2>1, <2>3, AcctStutters DEF vars
  <2> QED BY <1>3, <2>2, <2>3 DEF Next
<1> QED BY <1>2, <1>3

\* What may be used once is: a token from an e-mail lets two requests through
\* only if they overlapped (token.service consume), and a personal agent token
\* registers one device, unless requests overlapped or one failed half-way
\* (agent.service registerAgent), however many requests there are.
THEOREM OneTimeSecrets == Spec => []SecretsAreUsedOnce
<1>1. AcctInv => SecretsAreUsedOnce
  BY AcctInitTables DEF AcctInv, AcctGood, Tokens, DeviceTokens, SecretsAreUsedOnce
<1> QED BY <1>1, AcctBegins, AcctStep, PTL DEF Spec

\* A refresh token is exchanged twice only by requests that overlapped, and
\* after a logout or a password reset no older one is live, but those of
\* requests under way meanwhile (auth.service refreshTokens, logout,
\* resetPassword).
THEOREM ClosedSessionsEnd == Spec => []SessionsEnd
<1>1. AcctInv => SessionsEnd
  BY AcctInitTables DEF AcctInv, AcctGood, Sessions, SessionsEnd
<1> QED BY <1>1, AcctBegins, AcctStep, PTL DEF Spec

\* The step that writes a user's flags or role is an await of one request.
LEMMA FlagsAreWritten ==
    ASSUME AcctInv, [Next]_vars, acct' # acct
    PROVE  /\ AcctGood
           /\ \E r \in flight : /\ AcctRequest(r) /\ AwaitOf(r, Head(r.todo)) /\ UserWrites(r)
                                /\ \/ Leaves(r) /\ AC!Ends(r)
                                   \/ \E q : AcctOn(r, q)
<1>1. focus = "accounts" /\ AcctGood
  BY DEF AcctInv, Next, vars, accounts
<1>2. PICK r \in flight : AC!Handle(r)
  BY <1>1 DEF Next, vars, accounts, AC!Next
<1>3. AcctRequest(r) /\ AwaitOf(r, Head(r.todo)) /\ UserWrites(r)
  BY <1>1, <1>2, AcctPlans, UsersWritten DEF AcctGood, AcctRequest
<1>4. Leaves(r) \/ \E q : AcctOn(r, q)
  BY <1>2, <1>3, AcctMoves
<1>5. Leaves(r) => AC!Ends(r)
  BY <1>1, EndKeepsNumbers DEF AcctGood, AC!Ends
<1> QED BY <1>1, <1>3, <1>4, <1>5

\* PATCH /users/:id undoes only what it overlapped.
LEMMA SaveUndoes ==
    ASSUME AcctInv, [Next]_vars, NEW r \in flight, NEW u \in DOMAIN acct,
           r.op = "update", AC!Ends(r),
           acct'[u].active # acct[u].active \/ acct'[u].verified # acct[u].verified
    PROVE  AC!Overlapped(r.id, acct[u].by)
<1>1. PICK p \in flight :
         /\ AcctRequest(p) /\ AwaitOf(p, Head(p.todo)) /\ UserWrites(p)
         /\ Leaves(p) \/ \E q : AcctOn(p, q)
  BY FlagsAreWritten
<1>2. AcctGood
  BY FlagsAreWritten
<1>3. p = r
  <2>1. \A q : AcctOn(p, q) => q \in flight' /\ q.id = p.id
    BY DEF AcctOn, Continues
  <2>2. r \notin flight'
    BY DEF AC!Ends
  <2>3. CASE Leaves(p)
    BY <2>2, <2>3 DEF Leaves
  <2>4. ASSUME NEW q, AcctOn(p, q) PROVE p = r
    BY <2>2, <2>4 DEF AcctOn, Continues
  <2> QED BY <1>1, <2>3, <2>4
<1>4. u = r.on /\ Head(r.todo) = "save" /\ acct'[u].active = r.row.active
      /\ acct'[u].verified = r.row.verified
  BY <1>1, <1>3 DEF UserWrites, AwaitOf
<1> QED BY <1>2, <1>4 DEF AcctGood, UserWritesOverlap, SavesOverlap, AC!Overlapped

\* An organization loses its last active admin by his own request or by a race.
LEMMA LastAdminRaces ==
    ASSUME AcctInv, [Next]_vars, NEW o, AC!HasAdmin(acct, o), ~AC!HasAdmin(acct', o)
    PROVE  \E r \in flight : /\ AC!Ends(r)
                             /\ r.who = r.on \/ AC!Overlapped(r.id, acct[r.who].by)
<1>1. PICK v \in DOMAIN acct : acct[v].org = o /\ acct[v].active /\ acct[v].role = "admin"
  BY DEF AC!HasAdmin
<1>2. acct' # acct
  OBVIOUS
<1>3. PICK r \in flight : /\ AcctRequest(r) /\ AwaitOf(r, Head(r.todo)) /\ UserWrites(r)
                          /\ \/ Leaves(r) /\ AC!Ends(r)
                             \/ \E q : AcctOn(r, q)
  BY <1>2, FlagsAreWritten
<1>4. AcctGood
  BY <1>2, FlagsAreWritten
<1>5. /\ \A u \in DOMAIN acct : u \in DOMAIN acct' /\ acct'[u].org = acct[u].org
      /\ ~(acct'[v].active /\ acct'[v].role = "admin")
  BY <1>1, <1>3 DEF UserWrites, SameUser, AC!HasAdmin
<1>6. v = r.on /\ Head(r.todo) \in {"save", "deactivate", "reactivate", "role"}
  BY <1>1, <1>3, <1>5 DEF UserWrites
<1>7. r.op \in Edits /\ AC!Ends(r)
  BY <1>3, <1>6 DEF AwaitOf, Edits, AcctOn, NextAwait
<1>8. /\ r.who \in DOMAIN acct /\ acct[r.who].org = o
      /\ \/ acct[r.who].active /\ acct[r.who].role = "admin"
         \/ {r.id, acct[r.who].by} \in together
  BY <1>1, <1>4, <1>6, <1>7 DEF AcctGood, UserWritesOverlap, AdminsStay
<1>9. r.who # r.on => acct'[r.who].active = acct[r.who].active
                      /\ acct'[r.who].role = acct[r.who].role
  BY <1>3, <1>8 DEF UserWrites
<1>10. r.who # r.on => ~(acct[r.who].active /\ acct[r.who].role = "admin")
  BY <1>5, <1>8, <1>9 DEF AC!HasAdmin
<1> QED BY <1>7, <1>8, <1>10 DEF AC!Overlapped

\* PATCH /users/:id undoes only writes that it overlapped, an organization loses
\* its last admin only by his own request or by two that overlapped, and one
\* address has two accounts only by an invitation or by two sign-ups that
\* overlapped, whatever the handlers' interleaving (users.service update,
\* admin.service, auth.service register).
THEOREM AccountWritesAreKept == Spec => AccountsKeepWrites
<1>1. AcctInv => AC!EmailIsOneAccount
  BY AcctInitTables DEF AcctInv, AcctGood, UserWritesOverlap
<1>2. AcctInv /\ [Next]_vars =>
         [\A r \in flight, u \in AC!Users :
             r.op = "update" /\ AC!Ends(r)
             /\ (acct'[u].active # acct[u].active \/ acct'[u].verified # acct[u].verified)
                 => AC!Overlapped(r.id, acct[u].by)]_(AC!vars)
  BY SaveUndoes DEF AC!Users
<1>3. AcctInv /\ [Next]_vars =>
         [\A o \in {acct[u].org : u \in AC!Users} :
             AC!HasAdmin(acct, o) /\ ~AC!HasAdmin(acct', o)
                 => \E r \in flight : AC!Ends(r)
                      /\ (r.who = r.on \/ AC!Overlapped(r.id, acct[r.who].by))]_(AC!vars)
  BY LastAdminRaces
<1> QED
  BY <1>1, <1>2, <1>3, AcctBegins, AcctStep, PTL
     DEF Spec, AccountsKeepWrites, AC!SavesUndoOnlyOverlapping, AC!LastAdminLeavesByRace

-----------------------------------------------------------------------------
(* Rows that people edit *)

RecFields == {"id", "op", "kind", "on", "parent", "cols", "row", "todo"}
RowFields == {"kind", "id", "parent", "a", "b", "by"}

Created == DOMAIN RC!Create
Updated == DOMAIN RC!Update
Removed == DOMAIN RC!Remove

\* How far a handler has come.
RecCreates ==
    {<<"parent", "post", "insert">>, <<"parent", "insert">>, <<"post", "insert">>,
     <<"config", "config", "post", "insert">>, <<"config", "post", "insert">>, <<"insert">>}
RecUpdates == {<<"parent", "load", "save">>, <<"load", "save">>, <<"save">>}
RecDeletes == {<<"parent", "load", "delete">>, <<"load", "delete">>, <<"delete">>}
RecUpserts == {<<"find", "upsert">>, <<"upsert">>}

RecPlan(r) ==
    \/ r.op = "create" /\ r.todo \in RecCreates
    \/ r.op \in {"update", "move", "archive"} /\ r.todo \in RecUpdates
    \/ r.op = "update" /\ r.todo = <<"update">>
    \/ r.op = "delete" /\ r.todo \in RecDeletes
    \/ r.op = "slack" /\ r.todo \in RecUpserts

\* What an await says of the handler, and which of them are the last.
RecAwait(r) ==
    LET a == Head(r.todo)
    IN  /\ a = "insert" => r.op = "create"
        /\ a = "save" => r.op \in {"update", "move", "archive"}
        /\ a = "update" => r.op = "update"
        /\ a = "load" => r.op \in {"update", "move", "archive", "delete"}
        /\ a = "delete" => r.op = "delete"
        /\ a \in {"find", "upsert"} => r.op = "slack"
        /\ Len(r.todo) = 1 <=> a \in {"insert", "save", "update", "delete", "upsert"}

\* What is left of a plan is one.
LEMMA RecTails ==
    /\ \A t \in RecCreates : Len(t) # 1 =>
          Tail(t) \in RecCreates /\ Head(Tail(t)) \notin {"save", "update"}
    /\ \A t \in RecUpdates : Len(t) # 1 =>
          /\ Tail(t) \in RecUpdates /\ Head(Tail(t)) # "update"
          /\ Head(Tail(t)) = "save" => Head(t) = "load"
    /\ \A t \in RecDeletes : Len(t) # 1 =>
          Tail(t) \in RecDeletes /\ Head(Tail(t)) \notin {"save", "update"}
    /\ \A t \in RecUpserts : Len(t) # 1 =>
          Tail(t) \in RecUpserts /\ Head(Tail(t)) \notin {"save", "update"}
<1>1. \A t \in RecCreates : Len(t) # 1 =>
         Tail(t) \in RecCreates /\ Head(Tail(t)) \notin {"save", "update"}
  <2>1. Len(<<"insert">>) = 1
    OBVIOUS
  <2>2. /\ Tail(<<"parent", "post", "insert">>) = <<"post", "insert">>
        /\ Head(<<"post", "insert">>) = "post"
    OBVIOUS
  <2>3. /\ Tail(<<"parent", "insert">>) = <<"insert">>
        /\ Head(<<"insert">>) = "insert"
    OBVIOUS
  <2>4. /\ Tail(<<"post", "insert">>) = <<"insert">>
        /\ Head(<<"insert">>) = "insert"
    OBVIOUS
  <2>5. /\ Tail(<<"config", "config", "post", "insert">>) = <<"config", "post", "insert">>
        /\ Head(<<"config", "post", "insert">>) = "config"
    OBVIOUS
  <2>6. /\ Tail(<<"config", "post", "insert">>) = <<"post", "insert">>
        /\ Head(<<"post", "insert">>) = "post"
    OBVIOUS
  <2>7. \A x \in {"load", "post", "insert", "delete", "upsert"} :
            x \notin {"save", "update"} /\ "save" # "update"
    OBVIOUS
  <2> QED BY <2>1, <2>2, <2>3, <2>4, <2>5, <2>6, <2>7, Zenon DEF RecCreates
<1>2. \A t \in RecUpdates : Len(t) # 1 =>
         /\ Tail(t) \in RecUpdates /\ Head(Tail(t)) # "update"
         /\ Head(Tail(t)) = "save" => Head(t) = "load"
  <2>1. Len(<<"save">>) = 1
    OBVIOUS
  <2>2. /\ Tail(<<"parent", "load", "save">>) = <<"load", "save">>
        /\ Head(<<"load", "save">>) = "load"
        /\ Head(<<"parent", "load", "save">>) = "parent"
    OBVIOUS
  <2>3. /\ Tail(<<"load", "save">>) = <<"save">>
        /\ Head(<<"save">>) = "save"
        /\ Head(<<"load", "save">>) = "load"
    OBVIOUS
  <2>4. \A x \in {"load", "post", "insert", "delete", "upsert"} :
            x \notin {"save", "update"} /\ "save" # "update"
    OBVIOUS
  <2> QED BY <2>1, <2>2, <2>3, <2>4, Zenon DEF RecUpdates
<1>3. \A t \in RecDeletes : Len(t) # 1 =>
         Tail(t) \in RecDeletes /\ Head(Tail(t)) \notin {"save", "update"}
  <2>1. Len(<<"delete">>) = 1
    OBVIOUS
  <2>2. /\ Tail(<<"parent", "load", "delete">>) = <<"load", "delete">>
        /\ Head(<<"load", "delete">>) = "load"
    OBVIOUS
  <2>3. /\ Tail(<<"load", "delete">>) = <<"delete">>
        /\ Head(<<"delete">>) = "delete"
    OBVIOUS
  <2>4. \A x \in {"load", "post", "insert", "delete", "upsert"} :
            x \notin {"save", "update"} /\ "save" # "update"
    OBVIOUS
  <2> QED BY <2>1, <2>2, <2>3, <2>4, Zenon DEF RecDeletes
<1>4. \A t \in RecUpserts : Len(t) # 1 =>
         Tail(t) \in RecUpserts /\ Head(Tail(t)) \notin {"save", "update"}
  <2>1. Len(<<"upsert">>) = 1
    OBVIOUS
  <2>2. /\ Tail(<<"find", "upsert">>) = <<"upsert">>
        /\ Head(<<"upsert">>) = "upsert"
    OBVIOUS
  <2>3. \A x \in {"load", "post", "insert", "delete", "upsert"} :
            x \notin {"save", "update"} /\ "save" # "update"
    OBVIOUS
  <2> QED BY <2>1, <2>2, <2>3, Zenon DEF RecUpserts
<1> QED BY <1>1, <1>2, <1>3, <1>4

LEMMA RecPlans ==
    ASSUME NEW r, RecPlan(r)
    PROVE  /\ RecAwait(r)
           /\ Len(r.todo) # 1 => \A q : q.op = r.op /\ q.todo = Tail(r.todo) =>
                /\ RecPlan(q) /\ RecAwait(q) /\ Head(q.todo) # "update"
                /\ Head(q.todo) = "save" => Head(r.todo) = "load"
<1>1. ASSUME NEW q, RecPlan(q) PROVE RecAwait(q)
  <2>1. CASE q.op = "create" /\ q.todo \in RecCreates
    <3>1. /\ Head(q.todo) \in {"parent", "post", "config", "insert"}
          /\ Len(q.todo) = 1 <=> Head(q.todo) = "insert"
      BY <2>1 DEF RecCreates
    <3> QED BY <2>1, <3>1 DEF RecAwait
  <2>2. CASE q.op \in {"update", "move", "archive"} /\ q.todo \in RecUpdates
    <3>1. /\ Head(q.todo) \in {"parent", "load", "save"}
          /\ Len(q.todo) = 1 <=> Head(q.todo) = "save"
      BY <2>2 DEF RecUpdates
    <3> QED BY <2>2, <3>1 DEF RecAwait
  <2>3. CASE q.op = "update" /\ q.todo = <<"update">>
    <3>1. Head(q.todo) = "update" /\ Len(q.todo) = 1
      BY <2>3
    <3> QED BY <2>3, <3>1 DEF RecAwait
  <2>4. CASE q.op = "delete" /\ q.todo \in RecDeletes
    <3>1. /\ Head(q.todo) \in {"parent", "load", "delete"}
          /\ Len(q.todo) = 1 <=> Head(q.todo) = "delete"
      BY <2>4 DEF RecDeletes
    <3> QED BY <2>4, <3>1 DEF RecAwait
  <2>5. CASE q.op = "slack" /\ q.todo \in RecUpserts
    <3>1. /\ Head(q.todo) \in {"find", "upsert"}
          /\ Len(q.todo) = 1 <=> Head(q.todo) = "upsert"
      BY <2>5 DEF RecUpserts
    <3> QED BY <2>5, <3>1 DEF RecAwait
  <2> QED BY <1>1, <2>1, <2>2, <2>3, <2>4, <2>5 DEF RecPlan
<1>2. ASSUME Len(r.todo) # 1, NEW q, q.op = r.op, q.todo = Tail(r.todo)
      PROVE  /\ RecPlan(q) /\ Head(q.todo) # "update"
             /\ Head(q.todo) = "save" => Head(r.todo) = "load"
  <2>1. CASE r.op = "create" /\ r.todo \in RecCreates
    <3>1. Tail(r.todo) \in RecCreates /\ Head(Tail(r.todo)) \notin {"save", "update"}
      BY <1>2, <2>1, RecTails
    <3> QED BY <1>2, <2>1, <3>1 DEF RecPlan
  <2>2. CASE r.op \in {"update", "move", "archive"} /\ r.todo \in RecUpdates
    <3>1. /\ Tail(r.todo) \in RecUpdates /\ Head(Tail(r.todo)) # "update"
          /\ Head(Tail(r.todo)) = "save" => Head(r.todo) = "load"
      BY <1>2, <2>2, RecTails
    <3>2. q.op = r.op /\ q.todo \in RecUpdates
      BY <1>2, <3>1
    <3>3. RecPlan(q)
      BY <2>2, <3>2 DEF RecPlan
    <3>4. /\ Head(q.todo) # "update"
          /\ Head(q.todo) = "save" => Head(r.todo) = "load"
      <4>1. Head(q.todo) = Head(Tail(r.todo))
        BY <1>2
      <4> QED BY <3>1, <4>1
    <3> QED BY <3>3, <3>4
  <2>3. CASE r.op = "update" /\ r.todo = <<"update">>
    BY <1>2, <2>3
  <2>4. CASE r.op = "delete" /\ r.todo \in RecDeletes
    <3>1. Tail(r.todo) \in RecDeletes /\ Head(Tail(r.todo)) \notin {"save", "update"}
      BY <1>2, <2>4, RecTails
    <3> QED BY <1>2, <2>4, <3>1 DEF RecPlan
  <2>5. CASE r.op = "slack" /\ r.todo \in RecUpserts
    <3>1. Tail(r.todo) \in RecUpserts /\ Head(Tail(r.todo)) \notin {"save", "update"}
      BY <1>2, <2>5, RecTails
    <3> QED BY <1>2, <2>5, <3>1 DEF RecPlan
  <2> QED BY <2>1, <2>2, <2>3, <2>4, <2>5 DEF RecPlan
<1> QED BY <1>1, <1>2

\* The tables refer to tables that others do not refer to or that lose no rows.
LEMMA RecTables ==
    /\ Created = {"project", "task", "milestone", "comment", "geofence", "rule", "endpoint",
                  "delivery", "notice"}
    /\ Updated = {"project", "task", "milestone", "geofence", "rule", "endpoint",
                  "organization"}
    /\ Removed = {"task", "milestone", "geofence", "rule", "endpoint", "slack"}
    /\ DOMAIN RC!Refers = Created \cup {"organization", "slack"}
    /\ \A k \in DOMAIN RC!Refers :
          RC!HasParent(k) <=> k \in {"task", "milestone", "comment", "delivery"}
    /\ RC!Parent("task") = "project" /\ RC!Parent("milestone") = "project"
    /\ RC!Parent("comment") = "task" /\ RC!Parent("delivery") = "endpoint"
<1>1. /\ Created = {"project", "task", "milestone", "comment", "geofence", "rule", "endpoint",
                    "delivery", "notice"}
      /\ Updated = {"project", "task", "milestone", "geofence", "rule", "endpoint",
                    "organization"}
      /\ Removed = {"task", "milestone", "geofence", "rule", "endpoint", "slack"}
      /\ DOMAIN RC!Refers = Created \cup {"organization", "slack"}
  BY DEF Created, Updated, Removed, RC!Create, RC!Update, RC!Remove, RC!Refers
<1>2. \A k \in DOMAIN RC!Refers :
          RC!HasParent(k) <=> k \in {"task", "milestone", "comment", "delivery"}
  BY DEF RC!HasParent, RC!Refers, RC!Organization, RC!Project, RC!Task, RC!Milestone,
         RC!TaskComment, RC!Geofence, RC!AlertRule, RC!WebhookEndpoint, RC!WebhookDelivery,
         RC!SlackIntegration
<1>3. /\ RC!Refers["task"] = {"project"} /\ RC!Refers["milestone"] = {"project"}
      /\ RC!Refers["comment"] = {"task"} /\ RC!Refers["delivery"] = {"endpoint"}
  BY DEF RC!Refers, RC!Task, RC!Milestone, RC!TaskComment, RC!WebhookDelivery
<1>4. \A x : (CHOOSE p \in {x} : TRUE) = x
  OBVIOUS
<1> QED BY <1>1, <1>2, <1>3, <1>4 DEF RC!Parent

\* A row that is there, and the one that a request has read.
RecRow(x) ==
    /\ DOMAIN x = RowFields /\ x.kind \in DOMAIN RC!Refers /\ x.id \in 0 .. begun

HasRead(r) == r.row # RC!NoRow

RecRequest(r) ==
    /\ DOMAIN r = RecFields /\ RecPlan(r) /\ r.on \in 0 .. begun
    /\ HasRead(r) => /\ DOMAIN r.row = RowFields /\ r.row.kind = r.kind /\ r.row.id = r.on
                     /\ r.op # "create"
    /\ Head(r.todo) = "save" => HasRead(r)
    /\ Head(r.todo) = "update" => ~HasRead(r)
    /\ r.op = "create" => r.kind \in Created /\ r.on = r.id /\ r.cols = RC!Column
    /\ r.op \in {"update", "move", "archive"} => r.kind \in Updated
    /\ r.op = "delete" => r.kind \in Removed
    /\ r.op = "slack" => r.kind = "slack" /\ r.cols = RC!Column

SameRequest(r, q) ==
    /\ q.op = r.op /\ q.kind = r.kind /\ q.on = r.on /\ q.parent = r.parent /\ q.cols = r.cols

\* The steps of a handler: it goes on as q, it ends without a write, it writes
\* the row x, or it deletes its row and those that refer to it.
RecGoesOn(r, q) ==
    /\ Continues(r, q) /\ RecRequest(q) /\ SameRequest(r, q) /\ UNCHANGED <<rows, gone>>
    /\ q.row = r.row \/ q.row \in RC!OnRow(r)

RecEnds(r) == Leaves(r) /\ UNCHANGED <<rows, gone>>

\* What has been written differs from what was there in columns that were asked
\* for, or that the request had read; a row comes into being or is written again.
RecWrites(r, x) ==
    /\ Leaves(r) /\ gone' = gone /\ rows' = (rows \ RC!OnRow(r)) \cup {x}
    /\ DOMAIN x = RowFields /\ x.kind = r.kind /\ x.id = r.on /\ x.by = r.id
    /\ RC!HasParent(r.kind) => x.parent \in RC!Ids(RC!Parent(r.kind))
    /\ \A y \in RC!OnRow(r) : \A c \in RC!Column \ r.cols :
          IF HasRead(r) THEN x[c] = r.row[c] ELSE x[c] = y[c]
    /\ ~HasRead(r) /\ r.kind # "slack" => r.op = "create" \/ RC!OnRow(r) # {}

RecDeletesRow(r) ==
    /\ Leaves(r) /\ r.op = "delete"
    /\ rows' = {x \in rows \ RC!OnRow(r) :
                  ~(RC!HasParent(x.kind) /\ RC!Parent(x.kind) = r.kind /\ x.parent = r.on)}
    /\ gone' = gone \cup
                 {[kind |-> r.kind, id |-> r.on, parent |-> r.parent, by |-> r.id]}

\* A row has its number to itself, and the number of who is about to create one
\* is taken by no other row, past or present, and named by no other request.
RowsUnique == \A x, y \in rows : x.kind = y.kind /\ x.id = y.id => x = y

RowsNumbered ==
    /\ \A x \in rows : RecRow(x)
    /\ \A g \in gone : g.id \in 0 .. begun
    /\ \A r \in flight : r.op = "create" =>
          /\ \A x \in rows \cup gone : x.kind = r.kind => x.id # r.id
          /\ \A q \in flight : q.kind = r.kind /\ q # r => q.on # r.id

\* What a request has read is what is there, or it overlapped the write or the
\* deletion since.
ReadsOverlap ==
    /\ \A r \in flight, x \in rows :
          HasRead(r) /\ x.kind = r.kind /\ x.id = r.on
             => x = r.row \/ {r.id, x.by} \in together
    /\ \A r \in flight : HasRead(r) =>
          \/ RC!OnRow(r) # {}
          \/ \E h \in gone : h.kind = r.kind /\ h.id = r.on /\ {r.id, h.by} \in together

\* What may be saved refers to a table that loses no rows.
ReadsHaveParents ==
    \A r \in flight :
        HasRead(r) /\ RC!HasParent(r.kind) => r.row.parent \in RC!Ids(RC!Parent(r.kind))

RecGood ==
    /\ Numbered /\ \A r \in flight : RecRequest(r)
    /\ RowsUnique /\ RowsNumbered /\ ReadsOverlap /\ ReadsHaveParents /\ RC!NoOrphans

RecInv ==
    /\ focus # "records" =>
          /\ gone = {}
          /\ rows = {RC!Row(k, 0, 0, 0) : k \in Kind \cap {"organization", "project"}}
    /\ focus = "records" => RecGood

LEMMA RecAwaitOver ==
    ASSUME NEW r \in flight, NEW p, RC!GoOnAs(r, p), RecRequest(r), UNCHANGED <<rows, gone>>,
           DOMAIN p = RecFields, p.id = r.id, SameRequest(r, p), p.todo = r.todo,
           p.row = r.row \/ p.row \in RC!OnRow(r), p.row # r.row => r.op # "create",
           Head(r.todo) = "load" => HasRead(p), \A x \in rows : RecRow(x),
           Head(r.todo) \notin {"insert", "save", "update", "delete", "upsert"}
    PROVE  \E q : RecGoesOn(r, q)
<1> DEFINE q == [p EXCEPT !.todo = Tail(@)]
<1>1. Len(r.todo) # 1
  BY RecPlans DEF RecRequest, RecAwait
<1>2. Continues(r, q)
  BY <1>1 DEF RC!GoOnAs, Continues, RecFields
<1>3. /\ DOMAIN q = RecFields /\ SameRequest(r, q) /\ q.todo = Tail(r.todo) /\ q.row = p.row
      /\ q.id = r.id
  BY DEF RecFields, SameRequest
<1> HIDE DEF q
<1>4. /\ RecPlan(q) /\ Head(q.todo) # "update"
      /\ Head(q.todo) = "save" => Head(r.todo) = "load"
  BY <1>1, <1>3, RecPlans DEF RecRequest, SameRequest
<1>5. HasRead(q) <=> HasRead(p)
  BY <1>3 DEF HasRead
<1>6. HasRead(q) => /\ DOMAIN q.row = RowFields /\ q.row.kind = q.kind /\ q.row.id = q.on
                    /\ q.op # "create"
  BY <1>3 DEF RecRequest, HasRead, RC!OnRow, SameRequest, RecRow
<1>7. begun' = begun
  BY <1>2 DEF Continues
<1>8. RecRequest(q)
  BY <1>3, <1>4, <1>5, <1>6 DEF RecRequest, SameRequest
<1> QED BY <1>2, <1>3, <1>8 DEF RecGoesOn

LEMMA RecHandled ==
    ASSUME RecGood, NEW r \in flight, RC!Handle(r)
    PROVE  \/ RecEnds(r) \/ RecDeletesRow(r)
           \/ \E q : RecGoesOn(r, q)
           \/ \E x : RecWrites(r, x)
<1>1. RecRequest(r) /\ RecAwait(r) /\ \A x \in rows : RecRow(x)
  BY RecPlans DEF RecGood, RecRequest, RowsNumbered
<1>2. CASE (RC!Stop(r) \/ RC!Throw(r)) /\ UNCHANGED <<rows, gone>>
  BY <1>2 DEF RC!Stop, RC!Throw, RecEnds, Leaves
<1>3. ASSUME RC!GoOn(r), UNCHANGED <<rows, gone>>,
             Head(r.todo) \notin {"load", "insert", "save", "update", "delete", "upsert"}
      PROVE  \E q : RecGoesOn(r, q)
  BY <1>1, <1>3, RecAwaitOver DEF RC!GoOn, RecRequest, SameRequest
<1>4. ASSUME NEW x \in RC!OnRow(r), RC!GoOnAs(r, [r EXCEPT !.row = x]),
             UNCHANGED <<rows, gone>>, Head(r.todo) \in {"load", "find"}
      PROVE  \E q : RecGoesOn(r, q)
  <2> DEFINE p == [r EXCEPT !.row = x]
  <2>1. /\ DOMAIN p = RecFields /\ p.id = r.id /\ SameRequest(r, p) /\ p.todo = r.todo
        /\ p.row = x
    BY <1>1 DEF RecRequest, RecFields, SameRequest
  <2>2. RC!GoOnAs(r, p)
    BY <1>4
  <2> HIDE DEF p
  <2>3. x \in rows /\ x.kind = r.kind /\ x.id = r.on /\ DOMAIN x = RowFields
    BY <1>1 DEF RC!OnRow, RecRow
  <2>4. HasRead(p)
    BY <2>1, <2>3 DEF HasRead, RC!NoRow, RowFields
  <2>5. r.op # "create"
    BY <1>1, <1>4 DEF RecAwait
  <2> QED BY <1>1, <1>4, <2>1, <2>2, <2>4, <2>5, RecAwaitOver
<1>5. RC!GoOn(r) /\ Len(r.todo) = 1 => Leaves(r)
  BY DEF RC!GoOn, RC!GoOnAs, Leaves
<1>6. CASE RC!FindParent(r) \/ RC!Load(r) \/ RC!Find(r) \/ RC!FindConfig(r) \/ RC!Post(r)
  BY <1>2, <1>3, <1>4, <1>6
     DEF RC!FindParent, RC!Load, RC!Find, RC!FindConfig, RC!Post, RC!IsAt
<1>7. CASE RC!Insert(r)
  <2>1. Head(r.todo) = "insert" /\ Len(r.todo) = 1 /\ r.op = "create"
    BY <1>1, <1>7 DEF RC!Insert, RC!IsAt, RecAwait
  <2>2. CASE RC!Stop(r) /\ UNCHANGED <<rows, gone>>
    BY <1>2, <2>2
  <2> DEFINE x == RC!Row(r.kind, r.on, r.parent, r.id)
  <2>3. CASE /\ RC!GoOn(r) /\ RC!ParentExists(r) /\ gone' = gone
             /\ rows' = rows \cup {x}
    <3>1. /\ DOMAIN x = RowFields /\ x.kind = r.kind /\ x.id = r.on /\ x.by = r.id
          /\ x.parent = r.parent
      BY DEF RC!Row, RowFields
    <3> HIDE DEF x
    <3>2. RC!OnRow(r) = {}
      BY <1>1, <2>1 DEF RC!OnRow, RecRequest, RecGood, RowsNumbered
    <3>3. RC!HasParent(r.kind) => x.parent \in RC!Ids(RC!Parent(r.kind))
      BY <2>3, <3>1 DEF RC!ParentExists
    <3> QED BY <1>5, <2>1, <2>3, <3>1, <3>2, <3>3 DEF RecWrites
  <2> QED BY <1>7, <2>2, <2>3 DEF RC!Insert
<1>8. ASSUME NEW y, NEW p, RC!Write(r, RC!Assigned(p)), Len(r.todo) = 1,
             p.row = y, p.cols = r.cols, p.id = r.id,
             DOMAIN y = RowFields, y.kind = r.kind, y.id = r.on,
             IF HasRead(r) THEN y = r.row ELSE y \in RC!OnRow(r),
             RC!HasParent(r.kind) => y.parent \in RC!Ids(RC!Parent(r.kind))
      PROVE  \E x : RecWrites(r, x)
  <2> DEFINE z == RC!Assigned(p)
             x == [z EXCEPT !.by = r.id]
  <2>2. /\ DOMAIN z = RowFields /\ z.kind = r.kind /\ z.id = r.on /\ z.parent = y.parent
        /\ "a" \notin r.cols => z.a = y.a
        /\ "b" \notin r.cols => z.b = y.b
    BY <1>8 DEF RC!Assigned, RowFields
  <2>3. Leaves(r) /\ gone' = gone /\ rows' = (rows \ RC!OnRow(r)) \cup {x}
    BY <1>5, <1>8 DEF RC!Write
  <2> HIDE DEF z
  <2>4. /\ DOMAIN x = RowFields /\ x.kind = r.kind /\ x.id = r.on /\ x.parent = y.parent
        /\ x.by = r.id /\ x.a = z.a /\ x.b = z.b
    BY <2>2 DEF RowFields
  <2> HIDE DEF x
  <2>5. \A c \in RC!Column \ r.cols : x[c] = y[c]
    BY <2>2, <2>4 DEF RC!Column
  <2>6. \A u \in RC!OnRow(r) : ~HasRead(r) => u = y
    BY <1>8 DEF RC!OnRow, RecGood, RowsUnique
  <2>7. \A u \in RC!OnRow(r) : \A c \in RC!Column \ r.cols :
           IF HasRead(r) THEN x[c] = r.row[c] ELSE x[c] = u[c]
    BY <1>8, <2>5, <2>6
  <2> QED BY <1>8, <2>3, <2>4, <2>7 DEF RecWrites
<1>9. \A y \in RC!OnRow(r) :
         /\ DOMAIN y = RowFields /\ y.kind = r.kind /\ y.id = r.on
         /\ RC!HasParent(r.kind) => y.parent \in RC!Ids(RC!Parent(r.kind))
  BY <1>1 DEF RC!OnRow, RecRow, RecGood, RC!NoOrphans
<1>10. ASSUME RC!Write(r, RC!Assigned(r)), HasRead(r), Len(r.todo) = 1
       PROVE  \E x : RecWrites(r, x)
  <2>2. /\ DOMAIN r.row = RowFields /\ r.row.kind = r.kind /\ r.row.id = r.on
        /\ RC!HasParent(r.kind) => r.row.parent \in RC!Ids(RC!Parent(r.kind))
    BY <1>1, <1>10 DEF RecRequest, RecGood, ReadsHaveParents
  <2> QED BY <1>8, <1>10, <2>2
<1>11. CASE RC!Save(r)
  BY <1>1, <1>10, <1>11 DEF RC!Save, RC!IsAt, RecAwait, RecRequest
<1>12. CASE RC!UpdateColumns(r)
  <2>1. PICK y \in RC!OnRow(r) : RC!Write(r, RC!Assigned([r EXCEPT !.row = y]))
    BY <1>12 DEF RC!UpdateColumns
  <2>2. Len(r.todo) = 1
    BY <1>1, <1>12 DEF RC!UpdateColumns, RC!IsAt, RecAwait
  <2>3. ~HasRead(r)
    BY <1>1, <1>12 DEF RC!UpdateColumns, RC!IsAt, RecRequest
  <2> DEFINE p == [r EXCEPT !.row = y]
  <2>4. RC!Write(r, RC!Assigned(p)) /\ p.row = y /\ p.cols = r.cols /\ p.id = r.id
    BY <1>1, <2>1 DEF RecRequest, RecFields
  <2> HIDE DEF p
  <2> QED BY <1>8, <1>9, <2>2, <2>3, <2>4
<1>13. CASE RC!Upsert(r)
  <2>1. Len(r.todo) = 1 /\ r.kind = "slack" /\ r.cols = RC!Column
    BY <1>1, <1>13 DEF RC!Upsert, RC!IsAt, RecAwait, RecRequest
  <2>2. CASE HasRead(r)
    BY <1>10, <1>13, <2>1, <2>2 DEF RC!Upsert, HasRead
  <2>3. CASE ~HasRead(r) /\ RC!OnRow(r) # {}
    BY <1>2, <1>13, <2>3 DEF RC!Upsert, HasRead
  <2>4. CASE ~HasRead(r) /\ RC!OnRow(r) = {}
    <3> DEFINE z == RC!Row(r.kind, r.on, 0, r.id)
               x == [z EXCEPT !.by = r.id]
    <3>1. Leaves(r) /\ gone' = gone /\ rows' = (rows \ RC!OnRow(r)) \cup {x}
      BY <1>5, <1>13, <2>1, <2>4 DEF RC!Upsert, RC!Write, HasRead
    <3>2. DOMAIN x = RowFields /\ x.kind = r.kind /\ x.id = r.on /\ x.by = r.id
      BY DEF RC!Row, RowFields
    <3> HIDE DEF x
    <3>3. ~RC!HasParent(r.kind)
      BY <2>1, RecTables
    <3> QED BY <2>1, <2>4, <3>1, <3>2, <3>3 DEF RecWrites
  <2> QED BY <2>2, <2>3, <2>4
<1>14. CASE RC!Delete(r)
  BY <1>1, <1>5, <1>14 DEF RC!Delete, RC!IsAt, RecAwait, RecDeletesRow
<1>15. CASE RC!Throw(r) /\ UNCHANGED <<rows, gone>>
  BY <1>2, <1>15
<1> QED BY <1>6, <1>7, <1>11, <1>12, <1>13, <1>14, <1>15 DEF RC!Handle

\* A request arrives; it names rows that are there or were.
RecArrives(r) ==
    /\ Arrives(r) /\ UNCHANGED <<rows, gone>> /\ ~HasRead(r) /\ (RecRequest(r))'
    /\ \/ r.op = "create"
       \/ r.on = 0 /\ r.kind = "slack"
       \/ \E x \in rows \cup gone : x.kind = r.kind /\ x.id = r.on

\* What is left of the rows and what has come to them.
LEMMA RecRowsAfter ==
    ASSUME RecGood, NEW r \in flight, NEW x, RecWrites(r, x)
    PROVE  /\ x \in rows'
           /\ \A y \in rows' : y = x \/ (y \in rows /\ ~(y.kind = r.kind /\ y.id = r.on))
           /\ \A y \in rows : y \in rows' \/ (y.kind = r.kind /\ y.id = r.on)
           /\ \A k, i : i \in RC!Ids(k) => i \in (RC!Ids(k))'
<1>1. /\ x \in rows' /\ \A y \in rows' : y = x \/ (y \in rows /\ ~(y.kind = r.kind /\ y.id = r.on))
      /\ \A y \in rows : y \in rows' \/ (y.kind = r.kind /\ y.id = r.on)
      /\ x.kind = r.kind /\ x.id = r.on
  BY DEF RecWrites, RC!OnRow
<1>2. \A k, i : i \in RC!Ids(k) => i \in (RC!Ids(k))'
  BY <1>1 DEF RC!Ids
<1> QED BY <1>1, <1>2

LEMMA RecArrivalKept ==
    ASSUME RecGood, NEW r, RecArrives(r)
    PROVE  RecGood'
<1>1. /\ rows' = rows /\ gone' = gone /\ flight' = flight \cup {r} /\ r.id = begun + 1
      /\ begun' = begun + 1 /\ together \subseteq together' /\ begun \in Nat
  BY DEF RecArrives, Arrives, RecGood, Numbered
<1>2. Numbered'
  BY ArrivalKeepsNumbers DEF RecGood, RecArrives
<1> DEFINE new == begun + 1
<1>3. /\ \A n \in 0 .. begun : n \in 0 .. new /\ n # new
      /\ \A n \in 1 .. begun : n # new
      /\ 0 # new
  BY <1>1
<1>4. begun' = new /\ r.id = new
  BY <1>1
<1> HIDE DEF new
<1>5. \A q \in flight' : (RecRequest(q))'
  BY <1>1, <1>3, <1>4 DEF RecGood, RecArrives, RecRequest
<1>6. RowsUnique' /\ (RC!NoOrphans)'
  BY <1>1 DEF RecGood, RowsUnique, RC!NoOrphans, RC!Ids
<1>7. RowsNumbered'
  <2>1. /\ \A x \in rows' : (RecRow(x))'
        /\ \A g \in gone' : g.id \in 0 .. begun'
    BY <1>1, <1>3, <1>4 DEF RecGood, RowsNumbered, RecRow
  <2>2. \A x \in rows \cup gone : x.id # new
    BY <1>3 DEF RecGood, RowsNumbered, RecRow
  <2>3. \A q \in flight : q.id # new /\ q.on # new
    BY <1>3 DEF RecGood, Numbered, RecRequest
  <2>4. \A q \in flight : q.op = "create" /\ q.kind = r.kind => r.on # q.id
    <3> SUFFICES ASSUME NEW q \in flight, q.op = "create", q.kind = r.kind, r.on = q.id
                 PROVE  FALSE
      OBVIOUS
    <3>1. CASE r.op = "create"
      BY <1>4, <2>3, <3>1 DEF RecArrives, RecRequest
    <3>2. CASE r.on = 0
      <4>1. begun \in Nat /\ q.id \in 1 .. begun
        BY DEF RecGood, Numbered
      <4> QED BY <3>2, <4>1
    <3>3. CASE \E x \in rows \cup gone : x.kind = r.kind /\ x.id = r.on
      BY <3>3 DEF RecGood, RowsNumbered
    <3> QED BY <3>1, <3>2, <3>3 DEF RecArrives
  <2>5. \A q \in flight' : q.op = "create" =>
           /\ \A x \in rows' \cup gone' : x.kind = q.kind => x.id # q.id
           /\ \A p \in flight' : p.kind = q.kind /\ p # q => p.on # q.id
    BY <1>1, <1>4, <2>2, <2>3, <2>4 DEF RecGood, RowsNumbered
  <2> QED BY <2>1, <2>5 DEF RowsNumbered
<1>8. ReadsOverlap' /\ ReadsHaveParents'
  BY <1>1 DEF RecGood, RecArrives, ReadsOverlap, ReadsHaveParents, HasRead, RC!OnRow, RC!Ids
<1> QED BY <1>2, <1>5, <1>6, <1>7, <1>8 DEF RecGood

\* A step of the handler r that writes no row.
LEMMA RecAwaitKept ==
    ASSUME RecGood, NEW r \in flight, RecEnds(r) \/ \E q : RecGoesOn(r, q)
    PROVE  RecGood'
<1>1. CASE RecEnds(r)
  <2>1. /\ rows' = rows /\ gone' = gone /\ flight' = flight \ {r} /\ begun' = begun
        /\ together' = together
    BY <1>1 DEF RecEnds, Leaves
  <2>2. Numbered'
    BY <1>1, EndKeepsNumbers DEF RecGood, RecEnds
  <2>3. \A q \in flight' : (RecRequest(q))'
    BY <2>1 DEF RecGood, RecRequest
  <2>4. RowsUnique' /\ (RC!NoOrphans)' /\ RowsNumbered'
    BY <2>1 DEF RecGood, RowsUnique, RC!NoOrphans, RC!Ids, RowsNumbered, RecRow
  <2>5. ReadsOverlap' /\ ReadsHaveParents'
    BY <2>1 DEF RecGood, ReadsOverlap, ReadsHaveParents, HasRead, RC!OnRow, RC!Ids
  <2> QED BY <2>2, <2>3, <2>4, <2>5 DEF RecGood
<1>2. ASSUME NEW q, RecGoesOn(r, q)
      PROVE  RecGood'
  <2>1. /\ rows' = rows /\ gone' = gone /\ flight' = (flight \ {r}) \cup {q} /\ begun' = begun
        /\ together' = together /\ q.id = r.id /\ RecRequest(q) /\ q.op = r.op
        /\ q.kind = r.kind /\ q.on = r.on
        /\ q.row = r.row \/ q.row \in RC!OnRow(r)
    BY <1>2 DEF RecGoesOn, Continues, SameRequest
  <2>2. Numbered'
    BY <1>2, AwaitKeepsNumbers DEF RecGood, RecGoesOn
  <2>3. \A p \in flight' : (RecRequest(p))'
    BY <2>1 DEF RecGood, RecRequest
  <2>4. RowsUnique' /\ (RC!NoOrphans)'
    BY <2>1 DEF RecGood, RowsUnique, RC!NoOrphans, RC!Ids
  <2>5. RowsNumbered'
    BY <2>1 DEF RecGood, RowsNumbered, RecRow, Numbered
  <2>6. ReadsOverlap'
    <3>1. HasRead(q) => /\ \A x \in rows : x.kind = q.kind /\ x.id = q.on
                              => x = q.row \/ {q.id, x.by} \in together
                        /\ \/ RC!OnRow(q) # {}
                           \/ \E h \in gone : h.kind = q.kind /\ h.id = q.on
                                                /\ {q.id, h.by} \in together
      BY <2>1 DEF RecGood, ReadsOverlap, RowsUnique, RC!OnRow, HasRead
    <3>2. \A p \in flight' : p = q \/ p \in flight
      BY <2>1
    <3>3. ASSUME NEW p \in flight', HasRead(p)
          PROVE  /\ \A x \in rows : x.kind = p.kind /\ x.id = p.on
                        => x = p.row \/ {p.id, x.by} \in together
                 /\ \/ RC!OnRow(p) # {}
                    \/ \E h \in gone : h.kind = p.kind /\ h.id = p.on
                                          /\ {p.id, h.by} \in together
      <4>1. CASE p = q
        BY <3>1, <3>3, <4>1
      <4>2. CASE p \in flight
        BY <3>3, <4>2 DEF RecGood, ReadsOverlap
      <4> QED BY <3>2, <4>1, <4>2
    <3> QED BY <2>1, <3>3 DEF ReadsOverlap, HasRead, RC!OnRow
  <2>7. ReadsHaveParents'
    <3>1. HasRead(q) /\ RC!HasParent(q.kind) => q.row.parent \in RC!Ids(RC!Parent(q.kind))
      BY <2>1 DEF RecGood, ReadsHaveParents, HasRead, RC!NoOrphans, RC!OnRow
    <3> QED BY <2>1, <3>1 DEF RecGood, ReadsHaveParents, HasRead, RC!Ids
  <2> QED BY <2>2, <2>3, <2>4, <2>5, <2>6, <2>7 DEF RecGood
<1> QED BY <1>1, <1>2

\* A step that writes a row.
LEMMA RecWriteKept ==
    ASSUME RecGood, NEW r \in flight, NEW x, RecWrites(r, x)
    PROVE  RecGood'
<1>1. /\ gone' = gone /\ flight' = flight \ {r} /\ begun' = begun /\ together' = together
      /\ DOMAIN x = RowFields /\ x.kind = r.kind /\ x.id = r.on /\ x.by = r.id
      /\ RC!HasParent(r.kind) => x.parent \in RC!Ids(RC!Parent(r.kind))
  BY DEF RecWrites, Leaves
<1>2. Numbered' /\ \A q \in flight' : q # r /\ q.id # r.id /\ {q.id, r.id} \in together
  BY EndKeepsNumbers DEF RecGood, RecWrites, Numbered, Leaves
<1>3. \A q \in flight' : (RecRequest(q))'
  BY <1>1 DEF RecGood, RecRequest
<1>4. RowsUnique'
  BY <1>1, RecRowsAfter DEF RecGood, RowsUnique
<1>5. (RC!NoOrphans)' /\ ReadsHaveParents'
  BY <1>1, RecRowsAfter DEF RecGood, RC!NoOrphans, ReadsHaveParents, HasRead
<1>6. RowsNumbered'
  <2>1. RecRow(x)
    BY <1>1, RecTables DEF RecGood, RecRequest, RecRow, RecPlan
  <2> QED BY <1>1, <2>1, RecRowsAfter DEF RecGood, RowsNumbered, RecRow
<1>7. ReadsOverlap'
  <2>1. \A q \in flight', y \in rows' :
           HasRead(q) /\ y.kind = q.kind /\ y.id = q.on
              => y = q.row \/ {q.id, y.by} \in together
    BY <1>1, <1>2, RecRowsAfter DEF RecGood, ReadsOverlap
  <2>2. \A q \in flight : RC!OnRow(q) # {} => (RC!OnRow(q))' # {}
    BY <1>1, RecRowsAfter DEF RC!OnRow
  <2> QED BY <1>1, <2>1, <2>2 DEF RecGood, ReadsOverlap, HasRead
<1> QED BY <1>2, <1>3, <1>4, <1>5, <1>6, <1>7 DEF RecGood

\* A step that deletes a row and those that refer to it.
LEMMA RecDeleteKept ==
    ASSUME RecGood, NEW r \in flight, RecDeletesRow(r)
    PROVE  RecGood'
<1> DEFINE h == [kind |-> r.kind, id |-> r.on, parent |-> r.parent, by |-> r.id]
<1>1. /\ gone' = gone \cup {h} /\ flight' = flight \ {r} /\ begun' = begun
      /\ together' = together /\ h.kind = r.kind /\ h.id = r.on /\ h.by = r.id
      /\ r.kind \in Removed /\ r.on \in 0 .. begun /\ rows' \subseteq rows
      /\ \A x \in rows : x \in rows' \/ (x.kind = r.kind /\ x.id = r.on)
                         \/ (RC!HasParent(x.kind) /\ RC!Parent(x.kind) = r.kind /\ x.parent = r.on)
      /\ \A x \in rows' : ~(RC!HasParent(x.kind) /\ RC!Parent(x.kind) = r.kind /\ x.parent = r.on)
  BY DEF RecDeletesRow, Leaves, RC!OnRow, RecGood, RecRequest
<1> HIDE DEF h
<1>2. Numbered' /\ \A q \in flight' : q # r /\ q.id # r.id /\ {q.id, r.id} \in together
  BY EndKeepsNumbers DEF RecGood, RecDeletesRow, Numbered, Leaves
<1>3. \A q \in flight' : (RecRequest(q))'
  BY <1>1 DEF RecGood, RecRequest
<1>4. RowsUnique'
  BY <1>1 DEF RecGood, RowsUnique
<1>5. RowsNumbered'
  <2>1. \A q \in flight : q.op = "create" /\ q.kind = r.kind /\ q # r => r.on # q.id
    BY DEF RecGood, RowsNumbered
  <2> QED BY <1>1, <2>1 DEF RecGood, RowsNumbered, RecRow
\* The rows that go with it are comments or deliveries, which no row refers to
\* and no request has read.
<1>6. \A x \in rows : x \in rows' \/ (x.kind = r.kind /\ x.id = r.on)
                      \/ (x.kind \in {"comment", "delivery"} /\ x.parent = r.on)
  BY <1>1, RecTables DEF RecGood, RowsNumbered, RecRow
<1>7. \A q \in flight : HasRead(q) =>
         q.kind \in DOMAIN RC!Refers /\ q.kind \notin {"comment", "delivery"}
  BY RecTables DEF RecGood, RecRequest, RecPlan
<1>8. ReadsOverlap'
  <2>1. \A q \in flight' : HasRead(q) /\ RC!OnRow(q) # {} =>
           (RC!OnRow(q))' # {} \/ (q.kind = r.kind /\ q.on = r.on)
    BY <1>1, <1>6, <1>7 DEF RC!OnRow
  <2> QED BY <1>1, <1>2, <2>1 DEF RecGood, ReadsOverlap, HasRead
<1>9. ReadsHaveParents'
  <2>1. \A q \in flight : HasRead(q) /\ RC!HasParent(q.kind) => RC!Parent(q.kind) = "project"
    BY <1>7, RecTables
  <2>2. \A i : i \in RC!Ids("project") => i \in (RC!Ids("project"))'
    BY <1>1, <1>6, RecTables DEF RC!Ids
  <2> QED BY <1>1, <2>1, <2>2 DEF RecGood, ReadsHaveParents, HasRead
<1>10. (RC!NoOrphans)'
  <2> SUFFICES ASSUME NEW x \in rows', RC!HasParent(x.kind)
               PROVE  x.parent \in (RC!Ids(RC!Parent(x.kind)))'
    BY DEF RC!NoOrphans
  <2>1. /\ RC!Parent(x.kind) \in {"project", "task", "endpoint"}
    BY <1>1, RecTables DEF RecGood, RowsNumbered, RecRow
  <2>2. PICK y \in rows : y.kind = RC!Parent(x.kind) /\ y.id = x.parent
    BY <1>1 DEF RecGood, RC!NoOrphans, RC!Ids
  <2>3. y \in rows'
    BY <1>1, <1>6, <2>1, <2>2
  <2> QED BY <2>2, <2>3 DEF RC!Ids
<1> QED BY <1>2, <1>3, <1>4, <1>5, <1>8, <1>9, <1>10 DEF RecGood

LEMMA RecArrival ==
    ASSUME RecGood, NEW k, RC!Asked(k)
    PROVE  \E r : RecArrives(r)
<1> DEFINE R(op, num, p, cols, todo) == RC!Request(op, k, num, p, cols, todo)
<1>1. ASSUME NEW op, NEW num, NEW p, NEW cols, NEW todo, RC!Arrive(R(op, num, p, cols, todo)),
             UNCHANGED <<rows, gone>>,
             \A r : r.op = op /\ r.todo = todo => RecPlan(r),
             Head(todo) # "save",
             op = "create" => k \in Created /\ num = begun + 1 /\ cols = RC!Column,
             op \in {"update", "move", "archive"} => k \in Updated,
             op = "delete" => k \in Removed,
             op = "slack" => k = "slack" /\ cols = RC!Column,
             \/ op = "create"
             \/ num = 0 /\ k = "slack"
             \/ \E x \in rows \cup gone : x.kind = k /\ x.id = num
      PROVE  \E r : RecArrives(r)
  <2> PICK r : r = R(op, num, p, cols, todo)
    OBVIOUS
  <2>1. /\ DOMAIN r = RecFields /\ r.id = begun + 1 /\ r.op = op /\ r.kind = k /\ r.on = num
        /\ r.parent = p /\ r.cols = cols /\ r.row = RC!NoRow /\ r.todo = todo
    BY DEF RC!Request, RecFields
  <2>2. RC!Arrive(r)
    BY <1>1
  <2>3. Arrives(r)
    BY <2>1, <2>2 DEF RC!Arrive, Arrives
  <2>4. begun' = begun + 1 /\ r.on \in 0 .. begun + 1
    <3>1. begun \in Nat /\ \A x \in rows \cup gone : x.id \in 0 .. begun
      BY DEF RecGood, Numbered, RowsNumbered, RecRow
    <3>2. \/ num = begun + 1 \/ num = 0 \/ num \in 0 .. begun
      BY <1>1, <3>1
    <3> QED BY <2>1, <2>3, <3>1, <3>2 DEF Arrives
  <2>5. ~HasRead(r) /\ RecPlan(r)
    BY <1>1, <2>1 DEF HasRead
  <2>6. (RecRequest(r))'
    BY <1>1, <2>1, <2>4, <2>5 DEF RecRequest, HasRead
  <2> QED BY <1>1, <2>1, <2>3, <2>5, <2>6 DEF RecArrives
<1>2. /\ \A c \in Created : RC!Create[c] \in RecCreates
      /\ \A c \in Updated \ {"organization"} : RC!Update[c] \in RecUpdates
      /\ RC!Update["organization"] = <<"update">>
      /\ \A c \in Removed : RC!Remove[c] \in RecDeletes
      /\ RC!MoveTask \in RecUpdates /\ RC!ArchiveProject \in RecUpdates
      /\ RC!SaveSlackConfig \in RecUpserts
  <2>1. \A c \in Created : RC!Create[c] \in RecCreates
    BY RecTables DEF RecCreates, RC!Create, RC!CreateProject, RC!CreateTask, RC!CreateMilestone,
          RC!AddComment, RC!CreateGeofence, RC!CreateRule, RC!CreateEndpoint, RC!TestEndpoint,
          RC!TestSlack
  <2>2. /\ \A c \in Updated \ {"organization"} : RC!Update[c] \in RecUpdates
        /\ RC!Update["organization"] = <<"update">>
    BY RecTables DEF RecUpdates, RC!Update, RC!UpdateProject, RC!UpdateTask, RC!UpdateMilestone,
          RC!UpdateGeofence, RC!UpdateRule, RC!UpdateEndpoint, RC!UpdateOrganization
  <2>3. \A c \in Removed : RC!Remove[c] \in RecDeletes
    BY RecTables DEF RecDeletes, RC!Remove, RC!DeleteTask, RC!DeleteMilestone,
          RC!DeleteGeofence, RC!DeleteRule, RC!DeleteEndpoint, RC!DeleteSlackConfig
  <2>4. /\ RC!MoveTask \in RecUpdates /\ RC!ArchiveProject \in RecUpdates
        /\ RC!SaveSlackConfig \in RecUpserts
    BY DEF RecUpdates, RecUpserts, RC!MoveTask, RC!ArchiveProject, RC!SaveSlackConfig
  <2> QED BY <2>1, <2>2, <2>3, <2>4
<1>3. \A c \in Created : Head(RC!Create[c]) # "save"
  <2>1. \A t \in RecCreates : Head(t) # "save"
    BY DEF RecCreates
  <2> QED BY <1>2, <2>1
<1>4. \A c \in Updated : Head(RC!Update[c]) # "save"
  BY RecTables DEF RC!Update, RC!UpdateProject, RC!UpdateTask, RC!UpdateMilestone,
          RC!UpdateGeofence, RC!UpdateRule, RC!UpdateEndpoint, RC!UpdateOrganization
<1>5. \A c \in Removed : Head(RC!Remove[c]) # "save"
  <2>1. \A t \in RecDeletes : Head(t) # "save"
    BY DEF RecDeletes
  <2> QED BY <1>2, <2>1
<1>6. /\ Head(RC!MoveTask) # "save" /\ Head(RC!ArchiveProject) # "save"
      /\ Head(RC!SaveSlackConfig) # "save"
  BY DEF RC!MoveTask, RC!ArchiveProject, RC!SaveSlackConfig
<1> HIDE DEF R
<1>7. UNCHANGED <<rows, gone>>
  BY DEF RC!Asked
<1>8. ASSUME NEW p, k \in Created,
             RC!Arrive(R("create", begun + 1, p, RC!Column, RC!Create[k]))
      PROVE  \E r : RecArrives(r)
  BY <1>1, <1>2, <1>3, <1>7, <1>8 DEF RecPlan
<1>9. ASSUME NEW x \in rows \cup gone, x.kind = k, NEW cols, k \in Updated,
             RC!Arrive(R("update", x.id, x.parent, cols, RC!Update[k]))
      PROVE  \E r : RecArrives(r)
  <2>1. \A r : r.op = "update" /\ r.todo = RC!Update[k] => RecPlan(r)
    BY <1>2, <1>9 DEF RecPlan
  <2> QED BY <1>1, <1>4, <1>7, <1>9, <2>1
<1>10. ASSUME NEW x \in rows \cup gone, x.kind = k, NEW cols,
              \/ k = "task" /\ RC!Arrive(R("move", x.id, x.parent, cols, RC!MoveTask))
              \/ k = "project" /\ RC!Arrive(R("archive", x.id, x.parent, cols, RC!ArchiveProject))
       PROVE  \E r : RecArrives(r)
  <2>1. k \in Updated
    BY <1>10, RecTables
  <2> QED BY <1>1, <1>2, <1>6, <1>7, <1>10, <2>1 DEF RecPlan
<1>11. ASSUME NEW x \in rows \cup gone, x.kind = k, NEW cols, k \in Removed,
              RC!Arrive(R("delete", x.id, x.parent, cols, RC!Remove[k]))
       PROVE  \E r : RecArrives(r)
  BY <1>1, <1>2, <1>5, <1>7, <1>11 DEF RecPlan
<1>12. CASE k = "slack" /\ RC!Arrive(R("slack", 0, 0, RC!Column, RC!SaveSlackConfig))
  BY <1>1, <1>2, <1>6, <1>7, <1>12 DEF RecPlan
<1> QED
  BY <1>8, <1>9, <1>10, <1>11, <1>12
     DEF RC!Asked, RC!Known, R, Created, Updated, Removed

LEMMA RecStutters ==
    ASSUME RecGood, UNCHANGED <<requests, records>>
    PROVE  RecGood'
<1>1. /\ flight' = flight /\ begun' = begun /\ together' = together /\ failed' = failed
      /\ rows' = rows /\ gone' = gone
  BY DEF requests, records
<1>2. Numbered' /\ \A q \in flight' : (RecRequest(q))'
  BY <1>1 DEF RecGood, Numbered, RecRequest
<1>3. RowsUnique' /\ (RC!NoOrphans)' /\ RowsNumbered'
  BY <1>1 DEF RecGood, RowsUnique, RC!NoOrphans, RC!Ids, RowsNumbered, RecRow
<1>4. ReadsOverlap' /\ ReadsHaveParents'
  BY <1>1 DEF RecGood, ReadsOverlap, ReadsHaveParents, HasRead, RC!OnRow, RC!Ids
<1> QED BY <1>2, <1>3, <1>4 DEF RecGood

LEMMA RecBegins == Init => RecInv
<1> SUFFICES ASSUME Init PROVE RecInv
  OBVIOUS
<1>1. /\ flight = {} /\ begun = 0 /\ together = {} /\ gone = {}
      /\ rows = {RC!Row(k, 0, 0, 0) : k \in Kind \cap {"organization", "project"}}
  BY DEF Init, RC!Init, RC!RequestsInit
<1>2. \A x \in rows : /\ DOMAIN x = RowFields /\ x.id = 0
                      /\ x = RC!Row(x.kind, 0, 0, 0)
                      /\ x.kind \in {"organization", "project"}
  BY <1>1 DEF RC!Row, RowFields
<1>3. Numbered /\ (\A r \in flight : RecRequest(r)) /\ ReadsOverlap /\ ReadsHaveParents
  BY <1>1 DEF Numbered, ReadsOverlap, ReadsHaveParents
<1>4. RowsUnique
  BY <1>2 DEF RowsUnique
<1>5. RowsNumbered /\ RC!NoOrphans
  BY <1>1, <1>2, RecTables DEF RowsNumbered, RecRow, RC!NoOrphans
<1> QED BY <1>1, <1>3, <1>4, <1>5 DEF RecInv, RecGood

LEMMA RecStep == RecInv /\ [Next]_vars => RecInv'
<1> SUFFICES ASSUME RecInv, [Next]_vars PROVE RecInv'
  OBVIOUS
<1>1. focus' = focus
  BY DEF Next, vars
<1>2. CASE focus # "records"
  <2>1. rows' = rows /\ gone' = gone
    BY <1>2 DEF Next, vars, records
  <2> QED BY <1>1, <1>2, <2>1 DEF RecInv
<1>3. CASE focus = "records"
  <2> SUFFICES RecGood'
    BY <1>1, <1>3 DEF RecInv
  <2>1. RecGood
    BY <1>3 DEF RecInv
  <2>2. CASE RC!Next
    <3>1. ASSUME NEW k, RC!Asked(k)
          PROVE  RecGood'
      BY <2>1, <3>1, RecArrival, RecArrivalKept
    <3>2. ASSUME NEW r \in flight, RC!Handle(r)
          PROVE  RecGood'
      BY <2>1, <3>2, RecHandled, RecAwaitKept, RecWriteKept, RecDeleteKept
    <3> QED BY <2>2, <3>1, <3>2 DEF RC!Next
  <2>3. CASE UNCHANGED vars
    BY <2>1, <2>3, RecStutters DEF vars
  <2> QED BY <1>3, <2>2, <2>3 DEF Next
<1> QED BY <1>2, <1>3

\* The step that completes a request in flight is one of its own.
LEMMA RecCompletes ==
    ASSUME RecInv, [Next]_vars, NEW r \in flight, RC!Ends(r), rows' # rows
    PROVE  RecGood /\ (RecDeletesRow(r) \/ \E x : RecWrites(r, x))
<1>1. focus = "records" /\ RecGood
  BY DEF RecInv, Next, vars, records
<1>2. PICK p \in flight : RC!Handle(p)
  BY <1>1 DEF Next, vars, records, RC!Next, RC!Asked
<1>3. RecDeletesRow(p) \/ \E x : RecWrites(p, x)
  BY <1>1, <1>2, RecHandled DEF RecEnds, RecGoesOn
<1>4. p = r
  BY <1>3 DEF RecDeletesRow, RecWrites, Leaves, RC!Ends
<1> QED BY <1>1, <1>3, <1>4

\* A column that was not asked for is written back over a write that overlapped.
LEMMA RecOverwrites ==
    ASSUME RecInv, [Next]_vars, NEW r \in flight, NEW x \in rows, NEW y \in rows',
           y.kind = x.kind, y.id = x.id, x # y, RC!Ends(r), x \in RC!OnRow(r),
           (x.a # y.a /\ "a" \notin r.cols) \/ (x.b # y.b /\ "b" \notin r.cols)
    PROVE  RC!Overlapped(r.id, x.by)
<1>1. rows' # rows
  <2>1. CASE focus = "records"
    BY <2>1 DEF RecInv, RecGood, RowsUnique
  <2>2. CASE focus # "records"
    <3>1. rows = {RC!Row(k, 0, 0, 0) : k \in Kind \cap {"organization", "project"}}
      BY <2>2 DEF RecInv
    <3>2. \A u, v \in rows : u.kind = v.kind => u = v
      BY <3>1 DEF RC!Row
    <3> QED BY <3>2
  <2> QED BY <2>1, <2>2
<1>2. RecGood /\ (RecDeletesRow(r) \/ \E z : RecWrites(r, z))
  BY <1>1, RecCompletes
<1>3. x.kind = r.kind /\ x.id = r.on
  BY DEF RC!OnRow
<1>4. ~RecDeletesRow(r)
  BY <1>3 DEF RecDeletesRow, RC!OnRow
<1>5. RecWrites(r, y)
  BY <1>2, <1>3, <1>4, RecRowsAfter
<1>6. PICK c \in RC!Column \ r.cols : x[c] # y[c]
  BY DEF RC!Column
<1>7. HasRead(r) /\ x[c] # r.row[c]
  BY <1>5, <1>6 DEF RecWrites
<1> QED BY <1>2, <1>3, <1>7 DEF RecGood, ReadsOverlap, RC!Overlapped

\* A deleted row comes back by a request that had read it and that the deletion
\* overlapped.
LEMMA RecRevives ==
    ASSUME RecInv, [Next]_vars, NEW r \in flight, NEW g \in gone, RC!Ends(r),
           r.kind = g.kind, r.on = g.id, g.kind # "slack", RC!OnRow(r) = {},
           NEW y \in rows', y.kind = r.kind, y.id = r.on
    PROVE  \E h \in gone : h.kind = g.kind /\ h.id = g.id /\ RC!Overlapped(r.id, h.by)
<1>1. y \notin rows
  BY DEF RC!OnRow
<1>2. RecGood /\ (RecDeletesRow(r) \/ \E x : RecWrites(r, x))
  BY <1>1, RecCompletes
<1>3. ~RecDeletesRow(r)
  BY <1>1 DEF RecDeletesRow
<1>4. HasRead(r)
  BY <1>2, <1>3 DEF RecWrites, RecGood, RecRequest, RowsNumbered
<1> QED BY <1>2, <1>4 DEF RecGood, ReadsOverlap, RC!Overlapped

\* A save loses another's write, and a deleted row comes back, only if the two
\* requests overlapped; no row outlives the one it refers to, whatever the
\* handlers' interleaving (the update and delete routes of projects.service,
\* gps.service, alerts.service and integrations.service).
THEOREM RecordWritesAreKept == Spec => RecordsKeepWrites
<1>1. RecInv => RC!NoOrphans
  <2>1. ASSUME rows = {RC!Row(k, 0, 0, 0) : k \in Kind \cap {"organization", "project"}}
        PROVE  RC!NoOrphans
    <3>1. \A x \in rows : x.kind \in {"organization", "project"}
      BY <2>1 DEF RC!Row
    <3> QED BY <3>1, RecTables DEF RC!NoOrphans
  <2> QED BY <2>1 DEF RecInv, RecGood
<1>2. RecInv /\ [Next]_vars =>
         [\A r \in flight, x \in rows, y \in rows' :
            y.kind = x.kind /\ y.id = x.id /\ x # y /\ RC!Ends(r) /\ x \in RC!OnRow(r)
            /\ ((x.a # y.a /\ "a" \notin r.cols) \/ (x.b # y.b /\ "b" \notin r.cols))
                => RC!Overlapped(r.id, x.by)]_(RC!vars)
  BY RecOverwrites
<1>3. RecInv /\ [Next]_vars =>
         [\A r \in flight, g \in gone :
            RC!Ends(r) /\ r.kind = g.kind /\ r.on = g.id /\ g.kind # "slack"
            /\ RC!OnRow(r) = {} /\ (\E y \in rows' : y.kind = r.kind /\ y.id = r.on)
                => \E h \in gone : h.kind = g.kind /\ h.id = g.id
                                   /\ RC!Overlapped(r.id, h.by)]_(RC!vars)
  BY RecRevives
<1> QED
  BY <1>1, <1>2, <1>3, RecBegins, RecStep, PTL
     DEF Spec, RecordsKeepWrites, RC!NoLostUpdate, RC!DeletedStaysDeleted

-----------------------------------------------------------------------------
(* Billing *)

BilFields == {"id", "op", "event", "customer", "found", "todo"}

Customer == Nat \ {0}
SubStatus == {"active", "past_due", "unpaid", "canceled"}
BilEvent ==
    [type : {"completed", "updated", "deleted", "payment_failed"}, sub : Nat,
     customer : Customer, status : SubStatus]

\* How far a handler has come.
BilCheckouts ==
    {<<"find", "customer", "store", "session">>, <<"customer", "store", "session">>,
     <<"store", "session">>, <<"session">>}
BilWebhooks == {<<"find", "update">>, <<"update">>, <<"complete">>}

BilPlan(r) ==
    \/ r.op = "checkout" /\ r.todo \in BilCheckouts
    \/ r.op = "event" /\ r.todo \in BilWebhooks

BilRequest(r) ==
    /\ DOMAIN r = BilFields /\ BilPlan(r)
    /\ r.customer \in Nat /\ (Head(r.todo) \in {"store", "session"} => r.customer # 0)
    /\ r.found.status \in {"trialing", "active", "past_due", "canceled"}
    /\ r.op = "event" => /\ r.event \in 1 .. Len(events)
                         /\ events[r.event].type = "completed" <=> Head(r.todo) = "complete"

\* A payment that failed is told by the update that comes with it.
Tells(n) == events[n].type # "payment_failed"

EventsKept ==
    /\ events \in Seq(BilEvent) /\ subs \in Seq([customer : Customer, status : SubStatus])
    /\ checkouts \subseteq Customer /\ due \subseteq 1 .. Len(events)
    /\ \A n \in 1 .. Len(events) :
          /\ events[n].sub \in 1 .. Len(subs)
          /\ events[n].type = "completed" => events[n].status = "active"
          /\ events[n].type = "deleted" <=> events[n].status = "canceled"
          /\ ~Tells(n) => /\ n + 1 \in 1 .. Len(events) /\ events[n + 1].type = "updated"
                          /\ events[n + 1].sub = events[n].sub
                          /\ events[n].status = "past_due"
                          /\ events[n + 1].status = "past_due"

\* The last event that tells of a subscription has its status, and nothing
\* happens to one that has been canceled.
LastEventTells ==
    /\ \A s \in 1 .. Len(subs) : \E n \in 1 .. Len(events) :
          /\ Tells(n) /\ events[n].sub = s /\ events[n].status = subs[s].status
          /\ \A m \in 1 .. Len(events) : m > n /\ Tells(m) => events[m].sub # s
    /\ \A n, m \in 1 .. Len(events) :
          n < m /\ events[n].sub = events[m].sub => events[n].status # "canceled"

\* The row says of its subscription what the first k events do; of a failed
\* payment it may know before the update.
RowFollows(k) ==
    row.sub # 0 => \E n \in 1 .. k :
        /\ Tells(n) /\ events[n].sub = row.sub
        /\ \A m \in 1 .. k : m > n /\ Tells(m) => events[m].sub # row.sub
        /\ \/ row.status = events[n].status
           \/ events[n].status = "unpaid" /\ row.status \in {"active", "past_due"}
           \/ Len(subs) > 1 /\ row.status = "past_due"
           \/ ~Tells(k) /\ events[k].sub = row.sub /\ row.status = "past_due"

\* What is due is what comes after the first k events; who handles an event
\* handles the next one, and what it has found is still there.
Handled(k) ==
    /\ k <= Len(events) /\ due = (k + 1) .. Len(events) /\ RowFollows(k)
    /\ \A r \in flight : r.op = "event" => r.event = k + 1
    /\ \A r, q \in flight : r.op = "event" /\ q.op = "event" => r = q
    /\ \A r \in flight : Head(r.todo) = "update" =>
          /\ r.found.status = row.status
          /\ Tells(r.event) => events[r.event].sub = row.sub

InOrder == ~disorder => \E k \in Nat : Handled(k)

BilRow ==
    /\ DOMAIN row = {"customer", "sub", "status"} /\ row.customer \in Nat
    /\ row.status \in {"trialing", "active", "past_due", "canceled"}

\* A second customer beside a: an overlap with who created it, or a failed.
Excused(a, b) == {a, b} \in together \/ (a < b /\ a \in failed)

\* Who created a customer stored it, is about to or failed, as long as the row
\* has none; and who is about to create one has not, and is excused.
CustomerKept ==
    /\ OverlapsLater /\ customers \subseteq 1 .. begun /\ BL!OneCustomer
    /\ \A a \in customers : \/ row.customer # 0 \/ a \in failed
                            \/ \E r \in flight : r.id = a /\ Head(r.todo) = "store"
    /\ \A r \in flight : Head(r.todo) \in {"find", "customer"} => r.id \notin customers
    /\ \A r \in flight : Head(r.todo) = "customer" /\ r.customer = 0 =>
          \A a \in customers : Excused(a, r.id)

BilGood ==
    /\ Numbered /\ \A r \in flight : BilRequest(r)
    /\ EventsKept /\ LastEventTells /\ InOrder /\ BilRow /\ CustomerKept

BilInit ==
    /\ row = [customer |-> 0, sub |-> 0, status |-> "trialing"]
    /\ customers = {} /\ checkouts = {} /\ subs = <<>> /\ events = <<>> /\ due = {}
    /\ disorder = FALSE

BilInv ==
    /\ focus # "billing" => BilInit
    /\ focus = "billing" => BilGood

\* What an await says of the handler, and what is left of a plan.
BilAwait(r) ==
    /\ Head(r.todo) \in {"find", "customer", "store", "session", "update", "complete"}
    /\ Head(r.todo) \in {"customer", "store", "session"} => r.op = "checkout"
    /\ Head(r.todo) \in {"update", "complete"} => r.op = "event"
    /\ Len(r.todo) = 1 <=> Head(r.todo) \in {"session", "update", "complete"}

BilTail(r, t) ==
    /\ r.op = "checkout" => t \in BilCheckouts /\ Head(r.todo) \in {"find", "customer", "store"}
    /\ r.op = "event" => t \in BilWebhooks /\ Head(r.todo) = "find" /\ Head(t) = "update"
    /\ r.op = "checkout" /\ Head(r.todo) = "find" => Head(t) = "customer"
    /\ Head(r.todo) = "customer" => Head(t) = "store"
    /\ Head(r.todo) = "store" => Head(t) = "session"

LEMMA BilTails ==
    /\ \A t \in BilCheckouts :
          /\ Head(t) \in {"find", "customer", "store", "session"}
          /\ Len(t) = 1 <=> Head(t) = "session"
    /\ \A t \in BilCheckouts : Len(t) # 1 =>
          /\ Tail(t) \in BilCheckouts
          /\ Head(t) = "find" => Head(Tail(t)) = "customer"
          /\ Head(t) = "customer" => Head(Tail(t)) = "store"
          /\ Head(t) = "store" => Head(Tail(t)) = "session"
    /\ \A t \in BilWebhooks :
          /\ Head(t) \in {"find", "update", "complete"}
          /\ Len(t) = 1 <=> Head(t) \in {"update", "complete"}
    /\ \A t \in BilWebhooks : Len(t) # 1 =>
          Tail(t) \in BilWebhooks /\ Head(Tail(t)) = "update"
<1>1. \A t \in BilCheckouts :
         /\ Head(t) \in {"find", "customer", "store", "session"}
         /\ Len(t) = 1 <=> Head(t) = "session"
  BY DEF BilCheckouts
<1>2. \A t \in BilWebhooks :
         /\ Head(t) \in {"find", "update", "complete"}
         /\ Len(t) = 1 <=> Head(t) \in {"update", "complete"}
  BY DEF BilWebhooks
<1>3. \A t \in BilCheckouts : Len(t) # 1 =>
         /\ Tail(t) \in BilCheckouts
         /\ Head(t) = "find" => Head(Tail(t)) = "customer"
         /\ Head(t) = "customer" => Head(Tail(t)) = "store"
         /\ Head(t) = "store" => Head(Tail(t)) = "session"
  <2>1. Len(<<"session">>) = 1
    OBVIOUS
  <2>2. /\ Tail(<<"find", "customer", "store", "session">>)
             = <<"customer", "store", "session">>
        /\ Head(<<"find", "customer", "store", "session">>) = "find"
    OBVIOUS
  <2>3. /\ Tail(<<"customer", "store", "session">>) = <<"store", "session">>
        /\ Head(<<"customer", "store", "session">>) = "customer"
    OBVIOUS
  <2>4. /\ Tail(<<"store", "session">>) = <<"session">>
        /\ Head(<<"store", "session">>) = "store" /\ Head(<<"session">>) = "session"
    OBVIOUS
  <2>5. /\ "find" # "customer" /\ "find" # "store" /\ "customer" # "store"
        /\ "customer" # "find" /\ "store" # "find" /\ "store" # "customer"
    OBVIOUS
  <2> QED BY <2>1, <2>2, <2>3, <2>4, <2>5, Zenon DEF BilCheckouts
<1>4. \A t \in BilWebhooks : Len(t) # 1 =>
         Tail(t) \in BilWebhooks /\ Head(Tail(t)) = "update"
  <2>1. Len(<<"update">>) = 1 /\ Len(<<"complete">>) = 1
    OBVIOUS
  <2>2. Tail(<<"find", "update">>) = <<"update">> /\ Head(<<"update">>) = "update"
    OBVIOUS
  <2> QED BY <2>1, <2>2, Zenon DEF BilWebhooks
<1> QED BY <1>1, <1>2, <1>3, <1>4

LEMMA BilPlans ==
    ASSUME NEW r, BilPlan(r)
    PROVE  BilAwait(r) /\ (Len(r.todo) # 1 => BilTail(r, Tail(r.todo)))
<1>1. CASE r.op = "checkout" /\ r.todo \in BilCheckouts
  <2>1. BilAwait(r)
    BY <1>1, BilTails DEF BilAwait
  <2> QED BY <1>1, <2>1, BilTails DEF BilTail
<1>2. CASE r.op = "event" /\ r.todo \in BilWebhooks
  <2>1. BilAwait(r)
    BY <1>2, BilTails DEF BilAwait
  <2> QED BY <1>2, <2>1, BilTails DEF BilTail
<1> QED BY <1>1, <1>2 DEF BilPlan

-----------------------------------------------------------------------------
\* The steps of a handler: it goes on as q, or it ends.
BilGoesOn(r, q) ==
    /\ Continues(r, q) /\ BilRequest(q) /\ q.op = r.op /\ q.event = r.event
    /\ UNCHANGED <<checkouts, subs, events, due, disorder>>
    /\ \/ /\ Head(r.todo) = "find" /\ Head(q.todo) = "customer" /\ q.customer = row.customer
          /\ UNCHANGED <<row, customers>>
       \/ /\ Head(r.todo) = "customer" /\ Head(q.todo) = "store" /\ r.customer = 0
          /\ customers' = customers \cup {r.id} /\ row' = row
       \/ /\ Head(r.todo) = "customer" /\ Head(q.todo) = "session" /\ r.customer # 0
          /\ UNCHANGED <<row, customers>>
       \/ /\ Head(r.todo) = "store" /\ Head(q.todo) = "session" /\ r.customer \in Customer
          /\ row' = [row EXCEPT !.customer = r.customer] /\ customers' = customers
       \/ /\ Head(r.todo) = "find" /\ Head(q.todo) = "update" /\ r.op = "event"
          /\ q.found = row /\ BL!Matches(events[r.event])
          /\ UNCHANGED <<row, customers>>

BilLeaves(r) ==
    /\ Leaves(r) /\ UNCHANGED <<row, customers, subs, events, due, disorder>>
    /\ \/ checkouts' = checkouts
       \/ checkouts' = checkouts \cup {r.customer} /\ r.customer \in Customer
    /\ Head(r.todo) \in {"customer", "store"} => failed' = failed \cup {r.id}

\* The event is accepted: it was a checkout, it is of no concern, or it says
\* what becomes of the row.
BilAccepts(r) ==
    /\ Leaves(r) /\ r.op = "event" /\ due' = due \ {r.event}
    /\ UNCHANGED <<customers, checkouts, subs, events, disorder>>
    /\ LET e == events[r.event]
       IN  \/ /\ Head(r.todo) = "complete"
              /\ row' = [customer |-> e.customer, sub |-> e.sub, status |-> "active"]
           \/ Head(r.todo) = "find" /\ ~BL!Matches(e) /\ row' = row
           \/ /\ Head(r.todo) = "update"
              /\ row' = [row EXCEPT !.status = BL!StatusFor(e, r.found)]

LEMMA BilHandled ==
    ASSUME BilGood, NEW r \in flight,
           \/ BL!FindRow(r) \/ BL!CreateCustomer(r) \/ BL!StoreCustomer(r)
           \/ BL!CreateSession(r) \/ BL!CheckoutCompleted(r) \/ BL!FindSubscription(r)
           \/ BL!UpdateStatus(r)
           \/ BL!Throw(r) /\ UNCHANGED <<row, BL!stripe, disorder>>
    PROVE  (\E q : BilGoesOn(r, q)) \/ BilLeaves(r) \/ BilAccepts(r)
<1>1. /\ BilRequest(r) /\ BilPlan(r) /\ BilAwait(r)
      /\ Len(r.todo) # 1 => BilTail(r, Tail(r.todo))
  BY BilPlans DEF BilGood, BilRequest
<1>2. /\ DOMAIN row = {"customer", "sub", "status"} /\ row.customer \in Nat
      /\ row.status \in {"trialing", "active", "past_due", "canceled"}
      /\ r.id \in 1 .. begun /\ begun \in Nat
  BY DEF BilGood, BilRow, Numbered
<1>3. CASE BL!FindRow(r)
  <2>1. /\ r.op = "checkout" /\ Head(r.todo) = "find"
        /\ BL!GoOnAs(r, [r EXCEPT !.customer = row.customer])
        /\ UNCHANGED <<row, customers, checkouts, subs, events, due, disorder>>
    BY <1>3 DEF BL!FindRow, BL!IsAt, BL!stripe
  <2> DEFINE q == [[r EXCEPT !.customer = row.customer] EXCEPT !.todo = Tail(@)]
  <2>2. /\ DOMAIN q = BilFields /\ q.id = r.id /\ q.op = r.op /\ q.event = r.event
        /\ q.customer = row.customer /\ q.found = r.found /\ q.todo = Tail(r.todo)
    BY <1>1 DEF BilRequest, BilFields
  <2>3. Len(r.todo) # 1
    BY <1>1, <2>1 DEF BilAwait
  <2>4. Continues(r, q)
    BY <1>1, <2>1, <2>2, <2>3 DEF BL!GoOnAs, Continues, BilRequest, BilFields
  <2> HIDE DEF q
  <2>5. q.todo \in BilCheckouts /\ Head(q.todo) = "customer"
    BY <1>1, <2>1, <2>2, <2>3 DEF BilTail
  <2>6. BilRequest(q)
    BY <1>1, <1>2, <2>1, <2>2, <2>5 DEF BilRequest, BilPlan
  <2> QED BY <2>1, <2>2, <2>4, <2>5, <2>6 DEF BilGoesOn
<1>4. CASE BL!CreateCustomer(r) /\ r.customer = 0
  <2>1. /\ r.op = "checkout" /\ Head(r.todo) = "customer" /\ customers' = customers \cup {r.id}
        /\ BL!GoOnAs(r, [r EXCEPT !.customer = r.id])
        /\ UNCHANGED <<row, checkouts, subs, events, due, disorder>>
    BY <1>1, <1>4 DEF BL!CreateCustomer, BL!IsAt, BL!None, BilAwait
  <2> DEFINE q == [[r EXCEPT !.customer = r.id] EXCEPT !.todo = Tail(@)]
  <2>2. /\ DOMAIN q = BilFields /\ q.id = r.id /\ q.op = r.op /\ q.event = r.event
        /\ q.customer = r.id /\ q.found = r.found /\ q.todo = Tail(r.todo)
    BY <1>1 DEF BilRequest, BilFields
  <2>3. Len(r.todo) # 1
    BY <1>1, <2>1 DEF BilAwait
  <2>4. Continues(r, q)
    BY <1>1, <2>1, <2>2, <2>3 DEF BL!GoOnAs, Continues, BilRequest, BilFields
  <2> HIDE DEF q
  <2>5. q.todo \in BilCheckouts /\ Head(q.todo) = "store"
    BY <1>1, <2>1, <2>2, <2>3 DEF BilTail
  <2>6. r.id \in Nat /\ r.id # 0
    BY <1>2
  <2>7. BilRequest(q)
    BY <1>1, <2>1, <2>2, <2>5, <2>6 DEF BilRequest, BilPlan
  <2> QED BY <1>4, <2>1, <2>2, <2>4, <2>5, <2>7 DEF BilGoesOn
<1>5. CASE BL!CreateCustomer(r) /\ r.customer # 0
  <2>1. /\ r.op = "checkout" /\ Head(r.todo) = "customer"
        /\ BL!GoOnAs(r, [r EXCEPT !.todo = <<"customer", "session">>])
        /\ UNCHANGED <<row, customers, checkouts, subs, events, due, disorder>>
    BY <1>1, <1>5 DEF BL!CreateCustomer, BL!IsAt, BL!None, BilAwait
  <2> DEFINE p == [r EXCEPT !.todo = <<"customer", "session">>]
             q == [p EXCEPT !.todo = Tail(@)]
  <2>2. /\ DOMAIN q = BilFields /\ q.id = r.id /\ q.op = r.op /\ q.event = r.event
        /\ q.customer = r.customer /\ q.found = r.found
        /\ q.todo = Tail(<<"customer", "session">>) /\ p.todo = <<"customer", "session">>
    BY <1>1 DEF BilRequest, BilFields
  <2>3. /\ Len(<<"customer", "session">>) # 1 /\ Head(<<"session">>) = "session"
        /\ Tail(<<"customer", "session">>) = <<"session">>
    OBVIOUS
  <2>4. Continues(r, q)
    <3>1. Len(p.todo) # 1
      BY <2>2, <2>3
    <3>2. flight' = (flight \ {r}) \cup {q} /\ UNCHANGED <<begun, together, failed>>
      BY <2>1, <3>1 DEF BL!GoOnAs
    <3> QED BY <2>2, <3>2 DEF Continues
  <2> HIDE DEF p, q
  <2>5. q.todo \in BilCheckouts /\ Head(q.todo) = "session"
    <3>1. q.todo = <<"session">>
      BY <2>2, <2>3, Zenon
    <3> QED BY <2>3, <3>1, Zenon DEF BilCheckouts
  <2>6. BilRequest(q)
    BY <1>1, <1>5, <2>1, <2>2, <2>5 DEF BilRequest, BilPlan
  <2> QED BY <1>5, <2>1, <2>2, <2>4, <2>5, <2>6 DEF BilGoesOn
<1>6. CASE BL!StoreCustomer(r)
  <2>1. /\ r.op = "checkout" /\ Head(r.todo) = "store" /\ BL!GoOnAs(r, r)
        /\ row' = [row EXCEPT !.customer = r.customer]
        /\ UNCHANGED <<customers, checkouts, subs, events, due, disorder>>
    BY <1>1, <1>6 DEF BL!StoreCustomer, BL!IsAt, BL!GoOn, BL!stripe, BilAwait
  <2> DEFINE q == [r EXCEPT !.todo = Tail(@)]
  <2>2. /\ DOMAIN q = BilFields /\ q.id = r.id /\ q.op = r.op /\ q.event = r.event
        /\ q.customer = r.customer /\ q.found = r.found /\ q.todo = Tail(r.todo)
    BY <1>1 DEF BilRequest, BilFields
  <2>3. Len(r.todo) # 1
    BY <1>1, <2>1 DEF BilAwait
  <2>4. Continues(r, q)
    BY <1>1, <2>1, <2>2, <2>3 DEF BL!GoOnAs, Continues, BilRequest, BilFields
  <2> HIDE DEF q
  <2>5. q.todo \in BilCheckouts /\ Head(q.todo) = "session"
    BY <1>1, <2>1, <2>2, <2>3 DEF BilTail
  <2>6. BilRequest(q)
    BY <1>1, <2>1, <2>2, <2>5 DEF BilRequest, BilPlan
  <2> QED BY <1>1, <2>1, <2>2, <2>4, <2>5, <2>6 DEF BilGoesOn, BilRequest, Customer
<1>7. CASE BL!CreateSession(r)
  BY <1>1, <1>7 DEF BL!CreateSession, BL!IsAt, BL!GoOn, BL!GoOnAs, BilAwait, BilRequest,
     BilLeaves, Leaves, Customer
<1>8. CASE BL!CheckoutCompleted(r)
  BY <1>1, <1>8 DEF BL!CheckoutCompleted, BL!IsAt, BL!GoOn, BL!GoOnAs, BL!Accepted, BilAwait,
     BilAccepts, Leaves
<1>9. CASE BL!FindSubscription(r) /\ BL!Matches(events[r.event])
  <2>1. /\ r.op = "event" /\ Head(r.todo) = "find" /\ BL!GoOnAs(r, [r EXCEPT !.found = row])
        /\ UNCHANGED <<row, customers, checkouts, subs, events, due, disorder>>
    BY <1>9 DEF BL!FindSubscription, BL!IsAt
  <2> DEFINE q == [[r EXCEPT !.found = row] EXCEPT !.todo = Tail(@)]
  <2>2. /\ DOMAIN q = BilFields /\ q.id = r.id /\ q.op = r.op /\ q.event = r.event
        /\ q.customer = r.customer /\ q.found = row /\ q.todo = Tail(r.todo)
    BY <1>1 DEF BilRequest, BilFields
  <2>3. Len(r.todo) # 1
    BY <1>1, <2>1 DEF BilAwait
  <2>4. Continues(r, q)
    BY <1>1, <2>1, <2>2, <2>3 DEF BL!GoOnAs, Continues, BilRequest, BilFields
  <2> HIDE DEF q
  <2>5. q.todo \in BilWebhooks /\ Head(q.todo) = "update"
    BY <1>1, <2>1, <2>2, <2>3 DEF BilTail
  <2>6. BilRequest(q)
    BY <1>1, <1>2, <2>1, <2>2, <2>5 DEF BilRequest, BilPlan
  <2> QED BY <1>9, <2>1, <2>2, <2>4, <2>5, <2>6 DEF BilGoesOn
<1>10. CASE BL!FindSubscription(r) /\ ~BL!Matches(events[r.event])
  BY <1>1, <1>10 DEF BL!FindSubscription, BL!IsAt, BL!Stop, BL!Accepted, BilAccepts, Leaves
<1>11. CASE BL!UpdateStatus(r)
  BY <1>1, <1>11 DEF BL!UpdateStatus, BL!IsAt, BL!GoOn, BL!GoOnAs, BL!Accepted, BilAwait,
     BilAccepts, Leaves
<1>12. CASE BL!Throw(r) /\ UNCHANGED <<row, BL!stripe, disorder>>
  BY <1>12 DEF BL!Throw, BL!stripe, BilLeaves, Leaves
<1> QED BY <1>3, <1>4, <1>5, <1>6, <1>7, <1>8, <1>9, <1>10, <1>11, <1>12

\* A request arrives: somebody pays, or Stripe delivers an event.
BilArrives(r) ==
    /\ Arrives(r) /\ (BilRequest(r))' /\ Head(r.todo) \in {"find", "complete"}
    /\ UNCHANGED <<row, customers, checkouts, subs, events, due>>
    /\ \/ r.op = "checkout" /\ disorder' = disorder
       \/ /\ r.op = "event" /\ r.event \in due
          /\ ~disorder' => /\ ~disorder /\ \A n \in due : ~(n < r.event)
                           /\ \A q \in flight : q.op # "event"

\* Something happens to a subscription at Stripe, which says so last of all.
BilSays(s) ==
    /\ events' \in Seq(BilEvent) /\ Len(events') \in {Len(events) + 1, Len(events) + 2}
    /\ \A n \in 1 .. Len(events) : events'[n] = events[n]
    /\ \A n \in Len(events) + 1 .. Len(events') :
          /\ events'[n].sub = s
          /\ events'[n].type = "completed" => events'[n].status = "active"
          /\ events'[n].type = "deleted" <=> events'[n].status = "canceled"
          /\ n # Len(events') => /\ events'[n].status = "past_due"
                                 /\ events'[n].type = "payment_failed"
                                 /\ events'[n + 1].status = "past_due"
                                 /\ events'[n + 1].type = "updated"
          /\ n = Len(events') => /\ events'[n].type # "payment_failed"
                                 /\ events'[n].status = subs'[s].status
    /\ subs' \in Seq([customer : Customer, status : SubStatus])
    /\ s \in 1 .. Len(subs') /\ Len(subs) <= Len(subs')
    /\ \A t \in 1 .. Len(subs') : t # s => t \in 1 .. Len(subs) /\ subs'[t] = subs[t]
    /\ s \in 1 .. Len(subs) => subs[s].status # "canceled"
    /\ due' = due \cup (Len(events) + 1 .. Len(events'))
    /\ checkouts' \subseteq checkouts /\ UNCHANGED <<requests, row, customers, disorder>>

LEMMA BilArrival ==
    ASSUME BilGood, BL!Checkout \/ \E n \in due : BL!Deliver(n)
    PROVE  \E r : BilArrives(r)
<1>1. /\ begun \in Nat /\ events \in Seq(BilEvent) /\ due \subseteq 1 .. Len(events)
      /\ row.status \in {"trialing", "active", "past_due", "canceled"}
  BY DEF BilGood, Numbered, EventsKept, BilRow
<1>2. CASE BL!Checkout
  <2>1. PICK r : r = [id |-> begun + 1, op |-> "checkout", event |-> 0, customer |-> 0,
                      found |-> row, todo |-> <<"find", "customer", "store", "session">>]
    OBVIOUS
  <2>2. /\ DOMAIN r = BilFields /\ r.id = begun + 1 /\ r.op = "checkout" /\ r.customer = 0
        /\ r.found = row /\ r.todo \in BilCheckouts /\ Head(r.todo) = "find"
    BY <2>1 DEF BilFields, BilCheckouts
  <2>3. BL!Arrive(r) /\ UNCHANGED <<row, BL!stripe, disorder>>
    BY <1>2, <2>1 DEF BL!Checkout, BL!None
  <2>4. Arrives(r) /\ UNCHANGED <<row, customers, checkouts, subs, events, due, disorder>>
    BY <2>2, <2>3 DEF BL!Arrive, BL!stripe, Arrives
  <2>5. (BilRequest(r))'
    BY <1>1, <2>2, <2>4 DEF BilRequest, BilPlan
  <2> QED BY <2>2, <2>4, <2>5 DEF BilArrives
<1>3. ASSUME NEW n \in due, BL!Deliver(n)
      PROVE  \E r : BilArrives(r)
  <2>1. PICK r : r = [id |-> begun + 1, op |-> "event", event |-> n, customer |-> 0,
                      found |-> row, todo |-> BL!Awaits(events[n].type)]
    OBVIOUS
  <2>2. /\ DOMAIN r = BilFields /\ r.id = begun + 1 /\ r.op = "event" /\ r.customer = 0
        /\ r.event = n /\ r.found = row /\ r.todo = BL!Awaits(events[n].type)
    BY <2>1 DEF BilFields
  <2>3. /\ r.todo \in BilWebhooks /\ Head(r.todo) \in {"find", "complete"}
        /\ events[n].type = "completed" <=> Head(r.todo) = "complete"
    BY <2>2 DEF BL!Awaits, BilWebhooks
  <2>4. /\ BL!Arrive(r) /\ UNCHANGED <<row, BL!stripe>>
        /\ disorder' = (disorder \/ (\E e \in due : e < n) \/ (\E q \in flight : q.op = "event"))
    BY <1>3, <2>1 DEF BL!Deliver, BL!None
  <2>5. Arrives(r) /\ UNCHANGED <<row, customers, checkouts, subs, events, due>>
    BY <2>2, <2>4 DEF BL!Arrive, BL!stripe, Arrives
  <2>6. (BilRequest(r))'
    BY <1>1, <2>2, <2>3, <2>5 DEF BilRequest, BilPlan
  <2>7. ~disorder' => /\ ~disorder /\ \A e \in due : ~(e < r.event)
                      /\ \A q \in flight : q.op # "event"
    BY <2>2, <2>4, Zenon
  <2> QED BY <1>3, <2>2, <2>3, <2>5, <2>6, <2>7 DEF BilArrives
<1> QED BY <1>2, <1>3

\* What happens is added to the events that were there.
LEMMA BilHappens ==
    ASSUME events \in Seq(BilEvent), NEW es \in Seq(BilEvent), BL!Happens(es)
    PROVE  /\ events' \in Seq(BilEvent) /\ Len(events') = Len(events) + Len(es)
           /\ due' = due \cup (Len(events) + 1 .. Len(events'))
           /\ \A n \in 1 .. Len(events) : events'[n] = events[n]
           /\ \A n \in Len(events) + 1 .. Len(events') : events'[n] = es[n - Len(events)]
<1>1. /\ events' = events \o es
      /\ due' = due \cup (Len(events) + 1 .. Len(events) + Len(es))
  BY DEF BL!Happens
<1> QED BY <1>1, ConcatProperties

LEMMA BilStripe ==
    ASSUME BilGood,
           \/ \E c \in checkouts : BL!Completed(c)
           \/ \E s \in 1 .. Len(subs), st \in {"active", "past_due", "unpaid", "canceled"} :
                BL!Becomes(s, st)
    PROVE  \E s : BilSays(s)
<1>1. /\ events \in Seq(BilEvent) /\ subs \in Seq([customer : Customer, status : SubStatus])
      /\ checkouts \subseteq Customer
  BY DEF BilGood, EventsKept
<1>2. ASSUME NEW c \in checkouts, BL!Completed(c)
      PROVE  BilSays(Len(subs) + 1)
  <2> DEFINE e == BL!Event("completed", Len(subs) + 1, c, "active")
             x == [customer |-> c, status |-> "active"]
  <2>1. /\ checkouts' \subseteq checkouts /\ subs' = Append(subs, x) /\ BL!Happens(<<e>>)
        /\ UNCHANGED <<requests, row, customers, disorder>>
    BY <1>2 DEF BL!Completed, BL!requests, requests
  <2>2. /\ e \in BilEvent /\ e.type = "completed" /\ e.sub = Len(subs) + 1
        /\ e.status = "active" /\ x \in [customer : Customer, status : SubStatus]
        /\ x.status = "active"
    BY <1>1 DEF BL!Event, BilEvent, SubStatus
  <2> HIDE DEF e, x
  <2>3. <<e>> \in Seq(BilEvent) /\ Len(<<e>>) = 1 /\ <<e>>[1] = e
    BY <2>2
  <2>4. /\ events' \in Seq(BilEvent) /\ Len(events') = Len(events) + 1
        /\ due' = due \cup (Len(events) + 1 .. Len(events'))
        /\ \A n \in 1 .. Len(events) : events'[n] = events[n]
        /\ \A n \in Len(events) + 1 .. Len(events') : n = Len(events') /\ events'[n] = e
    <3>1. /\ events' \in Seq(BilEvent) /\ Len(events') = Len(events) + 1
          /\ due' = due \cup (Len(events) + 1 .. Len(events'))
          /\ \A n \in 1 .. Len(events) : events'[n] = events[n]
          /\ \A n \in Len(events) + 1 .. Len(events') : events'[n] = <<e>>[n - Len(events)]
      BY <1>1, <2>1, <2>3, BilHappens
    <3> QED BY <1>1, <2>3, <3>1
  <2>5. /\ subs' \in Seq([customer : Customer, status : SubStatus])
        /\ Len(subs') = Len(subs) + 1 /\ subs'[Len(subs) + 1] = x
        /\ \A t \in 1 .. Len(subs) : subs'[t] = subs[t]
    BY <1>1, <2>1, <2>2
  <2> QED BY <1>1, <2>1, <2>2, <2>4, <2>5 DEF BilSays
<1>3. ASSUME NEW s \in 1 .. Len(subs), NEW st \in SubStatus, BL!Becomes(s, st)
      PROVE  BilSays(s)
  <2>0. s \in Nat /\ subs[s] \in [customer : Customer, status : SubStatus]
    <3>1. Len(subs) \in Nat
      BY <1>1
    <3>2. s \in Nat
      BY <3>1
    <3>3. subs[s] \in [customer : Customer, status : SubStatus]
      BY <1>1, ElementOfSeq, Zenon
    <3> QED BY <3>2, <3>3
  <2> DEFINE c == subs[s].customer
             e(type) == BL!Event(type, s, c, st)
  <2>1. /\ subs[s].status # "canceled" /\ subs' = [subs EXCEPT ![s].status = st]
        /\ checkouts' \subseteq checkouts /\ UNCHANGED <<requests, row, customers, disorder>>
        /\ st = "canceled" => BL!Happens(<<e("deleted")>>)
        /\ st = "past_due" => BL!Happens(<<e("payment_failed"), e("updated")>>)
        /\ st \notin {"canceled", "past_due"} => BL!Happens(<<e("updated")>>)
    BY <1>3 DEF BL!Becomes, BL!requests, requests
  <2>2. \A type \in {"deleted", "updated", "payment_failed"} :
           /\ e(type) \in BilEvent /\ e(type).type = type /\ e(type).sub = s
           /\ e(type).status = st
    <3>1. c \in Customer /\ s \in Nat
      BY <2>0
    <3> QED BY <3>1 DEF BL!Event, BilEvent, SubStatus
  <2>3. /\ subs' \in Seq([customer : Customer, status : SubStatus]) /\ Len(subs') = Len(subs)
        /\ \A t \in 1 .. Len(subs) : t # s => subs'[t] = subs[t]
        /\ subs'[s].status = st
    <3>1. [subs[s] EXCEPT !.status = st] \in [customer : Customer, status : SubStatus]
      BY <2>0
    <3>2. [subs[s] EXCEPT !.status = st].status = st
      BY <2>0
    <3> DEFINE x == [subs[s] EXCEPT !.status = st]
    <3>3. subs' = [subs EXCEPT ![s] = x]
      BY <2>1
    <3> HIDE DEF x
    <3>4. x \in [customer : Customer, status : SubStatus]
      BY <3>1 DEF x
    <3>5. /\ subs' \in Seq([customer : Customer, status : SubStatus]) /\ Len(subs') = Len(subs)
          /\ \A t \in 1 .. Len(subs) : subs'[t] = IF t = s THEN x ELSE subs[t]
      BY <1>1, <3>3, <3>4, ExceptSeq
    <3> QED BY <3>2, <3>5 DEF x
  <2> HIDE DEF c, e
  <2>4. ASSUME NEW type \in {"deleted", "updated"}, BL!Happens(<<e(type)>>)
        PROVE  /\ events' \in Seq(BilEvent) /\ Len(events') = Len(events) + 1
               /\ due' = due \cup (Len(events) + 1 .. Len(events'))
               /\ \A n \in 1 .. Len(events) : events'[n] = events[n]
               /\ \A n \in Len(events) + 1 .. Len(events') :
                     n = Len(events') /\ events'[n] = e(type)
    <3>1. <<e(type)>> \in Seq(BilEvent) /\ Len(<<e(type)>>) = 1 /\ <<e(type)>>[1] = e(type)
      BY <2>2
    <3>2. /\ events' \in Seq(BilEvent) /\ Len(events') = Len(events) + 1
          /\ due' = due \cup (Len(events) + 1 .. Len(events'))
          /\ \A n \in 1 .. Len(events) : events'[n] = events[n]
          /\ \A n \in Len(events) + 1 .. Len(events') : events'[n] = <<e(type)>>[n - Len(events)]
      BY <1>1, <2>4, <3>1, BilHappens
    <3> QED BY <1>1, <3>1, <3>2
  <2>5. CASE st = "canceled"
    BY <1>1, <2>1, <2>2, <2>3, <2>4, <2>5 DEF BilSays
  <2>6. CASE st \notin {"canceled", "past_due"}
    BY <1>1, <2>1, <2>2, <2>3, <2>4, <2>6 DEF BilSays
  <2>7. CASE st = "past_due"
    <3> DEFINE es == <<e("payment_failed"), e("updated")>>
    <3>1. /\ es \in Seq(BilEvent) /\ Len(es) = 2
          /\ es[1] = e("payment_failed") /\ es[2] = e("updated")
      BY <2>2
    <3> HIDE DEF es
    <3>2. /\ events' \in Seq(BilEvent) /\ Len(events') = Len(events) + 2
          /\ due' = due \cup (Len(events) + 1 .. Len(events'))
          /\ \A n \in 1 .. Len(events) : events'[n] = events[n]
          /\ \A n \in Len(events) + 1 .. Len(events') : events'[n] = es[n - Len(events)]
      BY <1>1, <2>1, <2>7, <3>1, BilHappens DEF es
    <3>3. /\ events'[Len(events) + 1] = e("payment_failed")
          /\ events'[Len(events) + 2] = e("updated")
      <4>1. /\ Len(events) + 1 \in Len(events) + 1 .. Len(events')
            /\ Len(events) + 2 \in Len(events) + 1 .. Len(events')
            /\ (Len(events) + 1) - Len(events) = 1 /\ (Len(events) + 2) - Len(events) = 2
        BY <1>1, <3>2
      <4> QED BY <3>1, <3>2, <4>1, Zenon
    <3>4. \A n \in Len(events) + 1 .. Len(events') :
             \/ n = Len(events) + 1 /\ n # Len(events')
             \/ n = Len(events) + 2 /\ n = Len(events')
      BY <1>1, <3>2
    <3>5. /\ e("payment_failed").sub = s /\ e("payment_failed").status = "past_due"
          /\ e("payment_failed").type = "payment_failed"
          /\ e("updated").sub = s /\ e("updated").status = "past_due"
          /\ e("updated").type = "updated"
      BY <2>2, <2>7
    <3>6. Len(events) + 2 = Len(events') /\ (Len(events) + 1) + 1 = Len(events) + 2
      BY <1>1, <3>2
    <3>7. ASSUME NEW n \in Len(events) + 1 .. Len(events')
          PROVE  /\ events'[n].sub = s
                 /\ events'[n].type \notin {"completed", "deleted"}
                 /\ events'[n].status = "past_due"
                 /\ n # Len(events') => /\ events'[n].type = "payment_failed"
                                        /\ events'[n + 1].status = "past_due"
                                        /\ events'[n + 1].type = "updated"
                 /\ n = Len(events') => events'[n].type # "payment_failed"
      BY <3>3, <3>4, <3>5, <3>6
    <3>8. \A n \in Len(events) + 1 .. Len(events') :
             /\ events'[n].sub = s
             /\ events'[n].type = "completed" => events'[n].status = "active"
             /\ events'[n].type = "deleted" <=> events'[n].status = "canceled"
             /\ n # Len(events') => /\ events'[n].status = "past_due"
                                    /\ events'[n].type = "payment_failed"
                                    /\ events'[n + 1].status = "past_due"
                                    /\ events'[n + 1].type = "updated"
             /\ n = Len(events') => /\ events'[n].type # "payment_failed"
                                    /\ events'[n].status = subs'[s].status
      BY <2>3, <2>7, <3>7
    <3>9. s \in 1 .. Len(subs') /\ Len(subs) <= Len(subs')
      BY <1>1, <2>3
    <3> QED BY <2>1, <2>3, <3>2, <3>8, <3>9 DEF BilSays
  <2> QED BY <2>5, <2>6, <2>7
<1> QED BY <1>2, <1>3 DEF SubStatus

\* A handler's step leaves what Stripe has said alone.
LEMMA BilQuiet ==
    ASSUME EventsKept, LastEventTells, events' = events, subs' = subs,
           checkouts' \subseteq Customer, due' \subseteq due
    PROVE  EventsKept' /\ LastEventTells'
<1>1. EventsKept'
  BY DEF EventsKept, Tells
<1>2. LastEventTells'
  <2>1. \A n : Tells(n)' <=> Tells(n)
    BY DEF Tells
  <2>2. \A s \in 1 .. Len(subs) : \E n \in 1 .. Len(events) :
           /\ Tells(n)' /\ events[n].sub = s /\ events[n].status = subs[s].status
           /\ \A m \in 1 .. Len(events) : m > n /\ Tells(m)' => events[m].sub # s
    BY <2>1 DEF LastEventTells
  <2>3. \A n, m \in 1 .. Len(events) :
           n < m /\ events[n].sub = events[m].sub => events[n].status # "canceled"
    BY DEF LastEventTells
  <2> QED BY <2>2, <2>3 DEF LastEventTells
<1> QED BY <1>1, <1>2

\* What is said last of a subscription is its status.
LEMMA BilSaysLast ==
    ASSUME EventsKept, LastEventTells, NEW s, BilSays(s)
    PROVE  EventsKept' /\ LastEventTells'
<1>1. /\ events \in Seq(BilEvent) /\ Len(events) \in Nat /\ Len(subs) \in Nat
      /\ events' \in Seq(BilEvent) /\ Len(events') \in Nat /\ Len(subs') \in Nat
      /\ Len(events) < Len(events') /\ Len(subs) <= Len(subs') /\ s \in 1 .. Len(subs')
  BY DEF EventsKept, BilSays
<1>2. \A n \in 1 .. Len(events') : n \in 1 .. Len(events) \/ n \in Len(events) + 1 .. Len(events')
  BY <1>1
<1>3. EventsKept'
  <2>1. /\ subs' \in Seq([customer : Customer, status : SubStatus])
        /\ checkouts' \subseteq Customer
        /\ due' \subseteq 1 .. Len(events')
    <3>1. /\ due \subseteq 1 .. Len(events) /\ due' = due \cup (Len(events) + 1 .. Len(events'))
          /\ subs' \in Seq([customer : Customer, status : SubStatus])
          /\ checkouts' \subseteq checkouts /\ checkouts \subseteq Customer
      BY DEF EventsKept, BilSays
    <3>2. ASSUME NEW n \in due' PROVE n \in 1 .. Len(events')
      <4>1. n \in 1 .. Len(events) \/ n \in Len(events) + 1 .. Len(events')
        BY <3>1, <3>2
      <4> QED BY <1>1, <4>1
    <3> QED BY <3>1, <3>2
  <2>2. ASSUME NEW n \in 1 .. Len(events)
        PROVE  /\ events'[n].sub \in 1 .. Len(subs')
               /\ events'[n].type = "completed" => events'[n].status = "active"
               /\ events'[n].type = "deleted" <=> events'[n].status = "canceled"
               /\ events'[n].type = "payment_failed" =>
                     /\ n + 1 \in 1 .. Len(events') /\ events'[n + 1].type = "updated"
                     /\ events'[n + 1].sub = events'[n].sub
                     /\ events'[n].status = "past_due" /\ events'[n + 1].status = "past_due"
    <3>1. events'[n] = events[n] /\ events[n].sub \in 1 .. Len(subs)
      BY DEF BilSays, EventsKept
    <3>2. /\ events[n].type = "completed" => events[n].status = "active"
          /\ events[n].type = "deleted" <=> events[n].status = "canceled"
      BY DEF EventsKept
    <3>3. ASSUME events[n].type = "payment_failed"
          PROVE  /\ n + 1 \in 1 .. Len(events') /\ events'[n + 1] = events[n + 1]
                 /\ events[n + 1].type = "updated" /\ events[n + 1].sub = events[n].sub
                 /\ events[n].status = "past_due" /\ events[n + 1].status = "past_due"
      <4>1. /\ n + 1 \in 1 .. Len(events) /\ events[n + 1].type = "updated"
            /\ events[n + 1].sub = events[n].sub
            /\ events[n].status = "past_due" /\ events[n + 1].status = "past_due"
        BY <3>3 DEF EventsKept, Tells
      <4>2. events'[n + 1] = events[n + 1]
        BY <4>1 DEF BilSays
      <4> QED BY <1>1, <4>1, <4>2
    <3> QED BY <1>1, <3>1, <3>2, <3>3
  <2>3. ASSUME NEW n \in Len(events) + 1 .. Len(events')
        PROVE  /\ events'[n].sub \in 1 .. Len(subs')
               /\ events'[n].type = "completed" => events'[n].status = "active"
               /\ events'[n].type = "deleted" <=> events'[n].status = "canceled"
               /\ events'[n].type = "payment_failed" =>
                     /\ n + 1 \in 1 .. Len(events') /\ events'[n + 1].type = "updated"
                     /\ events'[n + 1].sub = events'[n].sub
                     /\ events'[n].status = "past_due" /\ events'[n + 1].status = "past_due"
    <3>1. n # Len(events') =>
             n + 1 \in 1 .. Len(events') /\ n + 1 \in Len(events) + 1 .. Len(events')
      BY <1>1
    <3> QED BY <1>1, <3>1 DEF BilSays
  <2>4. \A n \in 1 .. Len(events') :
               /\ events'[n].sub \in 1 .. Len(subs')
               /\ events'[n].type = "completed" => events'[n].status = "active"
               /\ events'[n].type = "deleted" <=> events'[n].status = "canceled"
               /\ events'[n].type = "payment_failed" =>
                     /\ n + 1 \in 1 .. Len(events') /\ events'[n + 1].type = "updated"
                     /\ events'[n + 1].sub = events'[n].sub
                     /\ events'[n].status = "past_due" /\ events'[n + 1].status = "past_due"
    BY <1>2, <2>2, <2>3, Zenon
  <2> QED BY <1>1, <2>1, <2>4 DEF EventsKept, Tells
<1>4. ASSUME NEW t \in 1 .. Len(subs')
      PROVE  \E n \in 1 .. Len(events') :
                /\ events'[n].type # "payment_failed" /\ events'[n].sub = t
                /\ events'[n].status = subs'[t].status
                /\ \A m \in 1 .. Len(events') :
                      m > n /\ events'[m].type # "payment_failed" => events'[m].sub # t
  <2>1. CASE t = s
    <3>1. Len(events') \in Len(events) + 1 .. Len(events') /\ Len(events') \in 1 .. Len(events')
          /\ \A m \in 1 .. Len(events') : ~(m > Len(events'))
      BY <1>1
    <3> QED BY <2>1, <3>1 DEF BilSays
  <2>2. CASE t # s
    <3>1. t \in 1 .. Len(subs) /\ subs'[t] = subs[t]
      BY <2>2 DEF BilSays
    <3>2. PICK n \in 1 .. Len(events) :
             /\ Tells(n) /\ events[n].sub = t /\ events[n].status = subs[t].status
             /\ \A m \in 1 .. Len(events) : m > n /\ Tells(m) => events[m].sub # t
      BY <3>1 DEF LastEventTells
    <3>3. n \in 1 .. Len(events') /\ events'[n] = events[n]
      BY <1>1 DEF BilSays
    <3>4. \A m \in Len(events) + 1 .. Len(events') : events'[m].sub # t
      BY <2>2 DEF BilSays
    <3>5. \A m \in 1 .. Len(events) : events'[m] = events[m]
      BY DEF BilSays
    <3>6. \A m \in 1 .. Len(events') :
             m > n /\ events'[m].type # "payment_failed" => events'[m].sub # t
      BY <1>2, <3>2, <3>4, <3>5 DEF Tells
    <3> QED BY <3>1, <3>2, <3>3, <3>6 DEF Tells
  <2> QED BY <2>1, <2>2
<1>5. ASSUME NEW n \in 1 .. Len(events'), NEW m \in 1 .. Len(events'), n < m,
             events'[n].sub = events'[m].sub, events'[n].status = "canceled"
      PROVE  FALSE
  <2>1. CASE m \in 1 .. Len(events)
    <3>1. n \in 1 .. Len(events)
      BY <1>1, <1>5, <2>1
    <3>2. events'[n] = events[n] /\ events'[m] = events[m]
      BY <2>1, <3>1 DEF BilSays
    <3> QED BY <1>5, <2>1, <3>1, <3>2 DEF LastEventTells
  <2>2. CASE m \in Len(events) + 1 .. Len(events') /\ n \in 1 .. Len(events)
    <3>1. events'[n] = events[n] /\ events[n].sub = s /\ events[n].status = "canceled"
      BY <1>5, <2>2 DEF BilSays
    <3>2. s \in 1 .. Len(subs) /\ subs[s].status # "canceled"
      BY <2>2, <3>1 DEF EventsKept, BilSays
    <3>3. PICK l \in 1 .. Len(events) :
             /\ Tells(l) /\ events[l].sub = s /\ events[l].status = subs[s].status
             /\ \A j \in 1 .. Len(events) : j > l /\ Tells(j) => events[j].sub # s
      BY <3>2 DEF LastEventTells
    <3>4. Tells(n) /\ n # l
      BY <2>2, <3>1, <3>2, <3>3 DEF EventsKept, Tells
    <3>5. n < l
      <4>1. ~(n > l)
        BY <2>2, <3>1, <3>3, <3>4
      <4> QED BY <1>1, <2>2, <3>4, <4>1
    <3> QED BY <2>2, <3>1, <3>3, <3>5 DEF LastEventTells
  <2>3. CASE n \in Len(events) + 1 .. Len(events')
    <3>1. n # Len(events')
      BY <1>1, <1>5
    <3> QED BY <1>5, <2>3, <3>1 DEF BilSays
  <2> QED BY <1>2, <2>1, <2>2, <2>3
<1>6. LastEventTells'
  BY <1>4, <1>5 DEF LastEventTells, Tells
<1> QED BY <1>3, <1>6

\* The other parts of the invariant, as Stripe goes on ...
LEMMA BilSaysKept ==
    ASSUME BilGood, NEW s, BilSays(s)
    PROVE  BilGood'
<1>0. EventsKept' /\ LastEventTells'
  BY BilSaysLast DEF BilGood
<1>1. /\ events \in Seq(BilEvent) /\ Len(events) \in Nat /\ Len(subs) \in Nat
      /\ events' \in Seq(BilEvent) /\ Len(events') \in Nat /\ Len(subs') \in Nat
      /\ Len(events) < Len(events') /\ Len(subs) <= Len(subs')
      /\ \A n \in 1 .. Len(events) : events'[n] = events[n]
  BY DEF BilGood, EventsKept, BilSays
<1>2. /\ flight' = flight /\ begun' = begun /\ together' = together /\ failed' = failed
      /\ row' = row /\ customers' = customers /\ disorder' = disorder
  BY DEF BilSays, requests
<1>3. Numbered' /\ BilRow' /\ CustomerKept'
  BY <1>2 DEF BilGood, Numbered, BilRow, CustomerKept, OverlapsLater, Excused, BL!OneCustomer,
     BL!Overlapped
<1>4. \A r \in flight' : (BilRequest(r))'
  <2>1. ASSUME NEW r \in flight
        PROVE  (BilRequest(r))'
    <3>1. BilRequest(r)
      BY DEF BilGood
    <3>2. r.op = "event" => r.event \in 1 .. Len(events') /\ events'[r.event] = events[r.event]
      BY <1>1, <3>1 DEF BilRequest
    <3> QED BY <3>1, <3>2 DEF BilRequest
  <2> QED BY <1>2, <2>1
<1>5. InOrder'
  <2>1. ASSUME NEW k \in Nat, Handled(k)
        PROVE  (Handled(k))'
    <3>1. k <= Len(events') /\ due' = (k + 1) .. Len(events')
      <4>1. /\ k <= Len(events) /\ due = (k + 1) .. Len(events)
            /\ due' = due \cup (Len(events) + 1 .. Len(events'))
        BY <2>1 DEF Handled, BilSays
      <4> QED BY <1>1, <4>1
    <3>2. \A n \in 1 .. k : n \in 1 .. Len(events) /\ events'[n] = events[n]
      BY <1>1, <2>1 DEF Handled
    <3>3. \A r \in flight : Head(r.todo) = "update" =>
             r.event \in 1 .. Len(events) /\ events'[r.event] = events[r.event]
      <4>1. \A r \in flight : BilRequest(r) /\ (Head(r.todo) = "update" => r.op = "event")
        BY BilPlans DEF BilGood, BilRequest, BilAwait
      <4> QED BY <1>1, <4>1 DEF BilRequest
    <3>4. (RowFollows(k))'
      <4>1. ASSUME row.sub # 0
            PROVE  \E n \in 1 .. k :
                     /\ events'[n].type # "payment_failed" /\ events'[n].sub = row.sub
                     /\ \A m \in 1 .. k : m > n /\ events'[m].type # "payment_failed"
                                             => events'[m].sub # row.sub
                     /\ \/ row.status = events'[n].status
                        \/ events'[n].status = "unpaid" /\ row.status \in {"active", "past_due"}
                        \/ Len(subs') > 1 /\ row.status = "past_due"
                        \/ /\ events'[k].type = "payment_failed" /\ events'[k].sub = row.sub
                           /\ row.status = "past_due"
        <5>1. PICK n \in 1 .. k :
                     /\ Tells(n) /\ events[n].sub = row.sub
                     /\ \A m \in 1 .. k : m > n /\ Tells(m) => events[m].sub # row.sub
                     /\ \/ row.status = events[n].status
                        \/ events[n].status = "unpaid" /\ row.status \in {"active", "past_due"}
                        \/ Len(subs) > 1 /\ row.status = "past_due"
                        \/ ~Tells(k) /\ events[k].sub = row.sub /\ row.status = "past_due"
          BY <2>1, <4>1 DEF Handled, RowFollows
        <5>2. events'[n] = events[n] /\ events'[k] = events[k]
          BY <3>2
        <5>3. Len(subs) > 1 => Len(subs') > 1
          BY <1>1
        <5>4. \A m \in 1 .. k : m > n /\ events'[m].type # "payment_failed"
                                             => events'[m].sub # row.sub
          BY <3>2, <5>1 DEF Tells
        <5> QED BY <5>1, <5>2, <5>3, <5>4 DEF Tells
      <4> QED BY <1>2, <4>1 DEF RowFollows, Tells
    <3>5. \A r \in flight : Head(r.todo) = "update" =>
             /\ r.found.status = row.status
             /\ events'[r.event].type # "payment_failed" => events'[r.event].sub = row.sub
      BY <2>1, <3>3 DEF Handled, Tells
    <3> QED BY <1>2, <2>1, <3>1, <3>4, <3>5 DEF Handled, Tells
  <2> QED BY <1>2, <2>1 DEF BilGood, InOrder
<1> QED BY <1>0, <1>1, <1>3, <1>4, <1>5 DEF BilGood

\* ... as a request arrives ...
LEMMA BilArrivalKept ==
    ASSUME BilGood, NEW r, BilArrives(r)
    PROVE  BilGood'
<1>1. Arrives(r) /\ Numbered /\ Numbered' /\ \A q \in flight : q # r /\ q.id # r.id
  BY ArrivalKeepsNumbers DEF BilGood, BilArrives
<1>2. /\ flight' = flight \cup {r} /\ begun' = begun + 1 /\ failed' = failed
      /\ together' = together \cup {{r.id, q.id} : q \in flight}
      /\ row' = row /\ customers' = customers /\ checkouts' = checkouts /\ subs' = subs
      /\ events' = events /\ due' = due
  BY <1>1 DEF BilArrives, Arrives
<1>3. EventsKept' /\ LastEventTells' /\ BilRow'
  BY <1>2, BilQuiet DEF BilGood, BilRow, EventsKept
<1>4. \A q \in flight' : (BilRequest(q))'
  BY <1>2 DEF BilGood, BilRequest, BilArrives
<1>5. CustomerKept'
  <2>1. /\ OverlapsLater /\ customers \subseteq 1 .. begun /\ BL!OneCustomer /\ begun \in Nat
        /\ \A a \in customers : \/ row.customer # 0 \/ a \in failed
                                \/ \E q \in flight : q.id = a /\ Head(q.todo) = "store"
        /\ \A q \in flight : Head(q.todo) \in {"find", "customer"} => q.id \notin customers
        /\ \A q \in flight : Head(q.todo) = "customer" /\ q.customer = 0 =>
              \A a \in customers : Excused(a, q.id)
        /\ r.id = begun + 1 /\ Head(r.todo) # "customer"
    BY <1>1 DEF BilGood, CustomerKept, Numbered, BilArrives, Arrives
  <2>2. OverlapsLater'
    BY <1>1, <2>1, ArrivalOverlaps
  <2>3. customers' \subseteq 1 .. begun' /\ r.id \notin customers
    BY <1>2, <2>1
  <2>4. BL!OneCustomer'
    BY <1>2, <2>1 DEF BL!OneCustomer, BL!Overlapped
  <2>5. \A q \in flight' : Head(q.todo) = "customer" /\ q.customer = 0 =>
           \A a \in customers' : (Excused(a, q.id))'
    BY <1>2, <2>1 DEF Excused
  <2> QED BY <1>2, <2>1, <2>2, <2>3, <2>4, <2>5 DEF CustomerKept
<1>6. ASSUME NEW k \in Nat, ~disorder', Handled(k)
      PROVE  (Handled(k))'
  <2>1. (RowFollows(k))' /\ k <= Len(events') /\ due' = (k + 1) .. Len(events')
    BY <1>2, <1>6 DEF Handled, RowFollows, Tells
  <2>2. Head(r.todo) # "update"
    BY DEF BilArrives
  <2>3. \A q \in flight' : Head(q.todo) = "update" =>
           /\ q.found.status = row'.status
           /\ events'[q.event].type # "payment_failed" => events'[q.event].sub = row'.sub
    BY <1>2, <1>6, <2>2 DEF Handled, Tells
  <2>4. r.op = "event" => r.event = k + 1 /\ \A q \in flight : q.op # "event"
    <3> SUFFICES ASSUME r.op = "event" PROVE r.event = k + 1 /\ \A q \in flight : q.op # "event"
      OBVIOUS
    <3>1. r.event \in due /\ (\A n \in due : ~(n < r.event)) /\ \A q \in flight : q.op # "event"
      BY <1>6 DEF BilArrives
    <3>2. due = (k + 1) .. Len(events) /\ Len(events) \in Nat
      BY <1>6 DEF Handled, BilGood, EventsKept
    <3> QED BY <3>1, <3>2
  <2>5. \A q \in flight' : q.op = "event" => q.event = k + 1
    BY <1>2, <1>6, <2>4 DEF Handled
  <2>6. \A p, q \in flight' : p.op = "event" /\ q.op = "event" => p = q
    BY <1>2, <1>6, <2>4 DEF Handled
  <2> QED BY <2>1, <2>3, <2>5, <2>6 DEF Handled, Tells
<1>7. InOrder'
  BY <1>6 DEF BilGood, InOrder, BilArrives
<1> QED BY <1>1, <1>3, <1>4, <1>5, <1>7 DEF BilGood

\* ... as a handler goes on ...
LEMMA BilAwaitKept ==
    ASSUME BilGood, NEW r \in flight, NEW q, BilGoesOn(r, q)
    PROVE  BilGood'
<1>1. Continues(r, q) /\ Numbered /\ Numbered' /\ \A p \in flight \ {r} : p # q /\ p.id # q.id
  BY AwaitKeepsNumbers DEF BilGood, BilGoesOn
<1>2. /\ flight' = (flight \ {r}) \cup {q} /\ begun' = begun /\ failed' = failed
      /\ together' = together /\ checkouts' = checkouts /\ subs' = subs
      /\ events' = events /\ due' = due /\ disorder' = disorder
      /\ q.op = r.op /\ q.event = r.event /\ BilRequest(q)
  BY <1>1 DEF BilGoesOn, Continues
<1>3. /\ DOMAIN row = {"customer", "sub", "status"} /\ row.customer \in Nat
      /\ row.status \in {"trialing", "active", "past_due", "canceled"}
  BY DEF BilGood, BilRow
<1>4. /\ DOMAIN row' = {"customer", "sub", "status"} /\ row'.customer \in Nat
      /\ row'.sub = row.sub /\ row'.status = row.status
      /\ row.customer # 0 => row'.customer # 0
  BY <1>3 DEF BilGoesOn, Customer
<1>5. EventsKept' /\ LastEventTells' /\ BilRow'
  BY <1>2, <1>3, <1>4, BilQuiet DEF BilGood, BilRow, EventsKept
<1>6. \A p \in flight' : (BilRequest(p))'
  BY <1>2 DEF BilGood, BilRequest
<1>7. CustomerKept'
  <2>1. /\ OverlapsLater /\ customers \subseteq 1 .. begun /\ BL!OneCustomer
        /\ r.id \in 1 .. begun /\ begun \in Nat /\ q.id = r.id
    BY <1>1 DEF BilGood, CustomerKept, Numbered, Continues
  <2>2. \A a \in customers : \/ row.customer # 0 \/ a \in failed
                             \/ \E p \in flight : p.id = a /\ Head(p.todo) = "store"
    BY DEF BilGood, CustomerKept
  <2>3. \A p \in flight : Head(p.todo) \in {"find", "customer"} => p.id \notin customers
    BY DEF BilGood, CustomerKept
  <2>4. \A p \in flight : Head(p.todo) = "customer" /\ p.customer = 0 =>
           \A a \in customers : Excused(a, p.id)
    BY DEF BilGood, CustomerKept
  <2>5. OverlapsLater'
    BY <1>2, <2>1 DEF OverlapsLater
  <2>6. CASE Head(r.todo) = "find" /\ Head(q.todo) = "customer"
             /\ q.customer = row.customer /\ UNCHANGED <<row, customers>>
    <3>1. \A a \in customers : \/ row.customer # 0 \/ a \in failed
                               \/ \E p \in flight' : p.id = a /\ Head(p.todo) = "store"
      BY <1>2, <2>2, <2>6
    <3>2. \A p \in flight' : Head(p.todo) \in {"find", "customer"} => p.id \notin customers
      BY <1>2, <2>1, <2>3, <2>6
    <3>3. ASSUME NEW a \in customers, row.customer = 0
          PROVE  Excused(a, r.id)
      <4>1. a \in 1 .. begun /\ a # r.id
        BY <2>1, <2>3, <2>6
      <4>2. CASE a > r.id
        BY <2>1, <4>1, <4>2 DEF OverlapsLater, Excused
      <4>3. CASE a < r.id /\ a \in failed
        BY <4>3 DEF Excused
      <4>4. CASE \E p \in flight : p.id = a /\ Head(p.todo) = "store"
        BY <2>6, <4>4 DEF BilGood, Numbered, Excused
      <4> QED BY <2>1, <2>2, <3>3, <4>1, <4>2, <4>3, <4>4
    <3>4. \A p \in flight' : Head(p.todo) = "customer" /\ p.customer = 0 =>
             \A a \in customers : Excused(a, p.id)
      BY <1>2, <2>1, <2>4, <2>6, <3>3
    <3> QED BY <1>2, <2>1, <2>5, <2>6, <3>1, <3>2, <3>4
            DEF CustomerKept, BL!OneCustomer, BL!Overlapped, Excused
  <2>7. CASE Head(r.todo) = "customer" /\ Head(q.todo) = "store" /\ r.customer = 0
             /\ customers' = customers \cup {r.id} /\ row' = row
    <3>1. ASSUME NEW a \in customers'
          PROVE  \/ row.customer # 0 \/ a \in failed
                 \/ \E p \in flight' : p.id = a /\ Head(p.todo) = "store"
      <4>1. CASE a = r.id
        BY <1>2, <2>1, <2>7, <4>1
      <4>2. CASE a \in customers
        BY <1>2, <2>2, <2>7, <4>2
      <4> QED BY <2>7, <4>1, <4>2
    <3>2. \A p \in flight' : Head(p.todo) \in {"find", "customer"} =>
             p \in flight /\ p.id # r.id /\ p.id \notin customers'
      BY <1>1, <1>2, <2>1, <2>3, <2>7
    <3>3. ASSUME NEW p \in flight', Head(p.todo) = "customer", p.customer = 0,
                 NEW a \in customers'
          PROVE  Excused(a, p.id)
      <4>1. p \in flight /\ p.id # r.id
        BY <3>2, <3>3
      <4>2. CASE a = r.id
        BY <2>7, <4>1, <4>2 DEF BilGood, Numbered, Excused
      <4>3. CASE a \in customers
        BY <2>4, <3>3, <4>1, <4>3
      <4> QED BY <2>7, <4>2, <4>3
    <3>4. ASSUME NEW a \in customers', NEW b \in customers', a < b
          PROVE  {a, b} \in together \/ a \in failed
      <4>1. \A c \in customers : Excused(c, r.id) /\ c \in Nat
        BY <2>1, <2>4, <2>7
      <4>2. CASE a \in customers /\ b \in customers
        BY <2>1, <3>4, <4>2 DEF BL!OneCustomer, BL!Overlapped
      <4>3. CASE a \in customers /\ b = r.id
        BY <4>1, <4>3 DEF Excused
      <4>4. CASE a = r.id /\ b \in customers
        <5>1. Excused(b, r.id) /\ a = r.id
          BY <4>1, <4>4
        <5>2. a \in Nat /\ b \in Nat
          <6>1. r.id \in Nat
            BY <2>1
          <6>2. b \in Nat
            BY <4>1, <4>4
          <6> QED BY <4>4, <6>1, <6>2
        <5>3. {b, a} \in together
          BY <3>4, <5>1, <5>2 DEF Excused
        <5>4. {a, b} = {b, a}
          OBVIOUS
        <5> QED BY <5>3, <5>4, Zenon
      <4>5. ~(r.id < r.id)
        BY <2>1
      <4> QED BY <2>7, <3>4, <4>2, <4>3, <4>4, <4>5
    <3>5. customers' \subseteq 1 .. begun
      BY <2>1, <2>7
    <3> QED BY <1>2, <2>5, <2>7, <3>1, <3>2, <3>3, <3>4, <3>5
            DEF CustomerKept, BL!OneCustomer, BL!Overlapped, Excused
  <2>8. CASE Head(r.todo) = "store" /\ Head(q.todo) = "session" /\ r.customer \in Customer
             /\ row' = [row EXCEPT !.customer = r.customer] /\ customers' = customers
    <3>1. row'.customer # 0
      BY <1>3, <2>8 DEF Customer
    <3>2. \A p \in flight' : Head(p.todo) \in {"find", "customer"} => p \in flight
      BY <1>2, <2>8
    <3> QED BY <1>2, <2>1, <2>3, <2>4, <2>5, <2>8, <3>1, <3>2
            DEF CustomerKept, BL!OneCustomer, BL!Overlapped, Excused
  <2>9. CASE /\ Head(r.todo) # "store" /\ Head(q.todo) \in {"session", "update"}
             /\ UNCHANGED <<row, customers>>
    <3>1. \A a \in customers : \/ row.customer # 0 \/ a \in failed
                               \/ \E p \in flight' : p.id = a /\ Head(p.todo) = "store"
      BY <1>2, <2>2, <2>9
    <3>2. \A p \in flight' : Head(p.todo) \in {"find", "customer"} => p \in flight
      BY <1>2, <2>9
    <3> QED BY <1>2, <2>1, <2>3, <2>4, <2>5, <2>9, <3>1, <3>2
            DEF CustomerKept, BL!OneCustomer, BL!Overlapped, Excused
  <2> QED BY <2>6, <2>7, <2>8, <2>9 DEF BilGoesOn
<1>8. ASSUME NEW k \in Nat, Handled(k)
      PROVE  (Handled(k))'
  <2>1. (RowFollows(k))' /\ k <= Len(events') /\ due' = (k + 1) .. Len(events')
    BY <1>2, <1>4, <1>8 DEF Handled, RowFollows, Tells
  <2>2. Head(q.todo) = "update" =>
           /\ q.found.status = row.status /\ q.op = "event"
           /\ events[q.event].type # "payment_failed" => events[q.event].sub = row.sub
    <3>1. Head(q.todo) = "update" =>
             r.op = "event" /\ q.found = row /\ BL!Matches(events[r.event])
      BY DEF BilGoesOn
    <3> QED BY <1>2, <3>1 DEF BL!Matches
  <2>3. \A p \in flight' : Head(p.todo) = "update" =>
           /\ p.found.status = row.status
           /\ events[p.event].type # "payment_failed" => events[p.event].sub = row.sub
    BY <1>2, <1>8, <2>2 DEF Handled, Tells
  <2>4. \A p \in flight' : p.op = "event" => p.event = k + 1
    BY <1>2, <1>8 DEF Handled
  <2>5. \A p, o \in flight' : p.op = "event" /\ o.op = "event" => p = o
    BY <1>2, <1>8 DEF Handled
  <2> QED BY <1>2, <1>4, <2>1, <2>3, <2>4, <2>5 DEF Handled, Tells
<1>9. InOrder'
  BY <1>2, <1>8 DEF BilGood, InOrder
<1> QED BY <1>1, <1>5, <1>6, <1>7, <1>9 DEF BilGood

\* ... as one ends ...
LEMMA BilEndKept ==
    ASSUME BilGood, NEW r \in flight, BilLeaves(r)
    PROVE  BilGood'
<1>1. Leaves(r) /\ Numbered'
  BY EndKeepsNumbers DEF BilGood, BilLeaves
<1>2. /\ flight' = flight \ {r} /\ begun' = begun /\ failed \subseteq failed'
      /\ together' = together /\ customers' = customers /\ subs' = subs /\ row' = row
      /\ events' = events /\ due' = due /\ disorder' = disorder /\ checkouts' \subseteq Customer
  BY <1>1 DEF BilGood, EventsKept, BilLeaves, Leaves
<1>3. EventsKept' /\ LastEventTells' /\ BilRow'
  BY <1>2, BilQuiet DEF BilGood, BilRow, EventsKept
<1>4. \A p \in flight' : (BilRequest(p))'
  BY <1>2 DEF BilGood, BilRequest
<1>5. CustomerKept'
  <2>1. Head(r.todo) = "store" => r.id \in failed'
    BY DEF BilLeaves
  <2>2. \A a \in customers : \/ row.customer # 0 \/ a \in failed'
                             \/ \E p \in flight' : p.id = a /\ Head(p.todo) = "store"
    BY <1>2, <2>1 DEF BilGood, CustomerKept
  <2>3. OverlapsLater'
    BY <1>2 DEF BilGood, CustomerKept, OverlapsLater
  <2> QED BY <1>2, <2>2, <2>3 DEF BilGood, CustomerKept, BL!OneCustomer, BL!Overlapped, Excused
<1>6. ASSUME NEW k \in Nat, Handled(k)
      PROVE  (Handled(k))'
  BY <1>2, <1>6 DEF Handled, RowFollows, Tells
<1>7. InOrder'
  BY <1>2, <1>6 DEF BilGood, InOrder
<1> QED BY <1>1, <1>3, <1>4, <1>5, <1>7 DEF BilGood

\* ... and as an event is accepted: the row then follows one event more.
LEMMA BilRowFollows ==
    ASSUME BilGood, NEW r \in flight, BilAccepts(r), NEW k \in Nat, Handled(k), r.event = k + 1
    PROVE  (RowFollows(k + 1))'
<1> DEFINE j == k + 1
           e == events[j]
<1>1. /\ j \in 1 .. Len(events) /\ events' = events /\ subs' = subs
      /\ e.type = "completed" <=> Head(r.todo) = "complete"
  BY DEF BilGood, BilRequest, BilAccepts
<1>2. /\ e \in BilEvent /\ e.sub \in 1 .. Len(subs) /\ Len(subs) \in Nat
      /\ e.type = "completed" => e.status = "active"
      /\ e.type = "deleted" <=> e.status = "canceled"
  <2>1. e \in BilEvent
    BY <1>1, ElementOfSeq, Zenon DEF BilGood, EventsKept
  <2>2. Len(subs) \in Nat
    BY DEF BilGood, EventsKept
  <2> QED BY <1>1, <2>1, <2>2 DEF BilGood, EventsKept
<1>3. /\ DOMAIN row = {"customer", "sub", "status"}
      /\ row.status \in {"trialing", "active", "past_due", "canceled"}
  BY DEF BilGood, BilRow
<1>4. k \in Nat /\ j \in Nat /\ \A n \in 1 .. j : n \in 1 .. k \/ n = j
  OBVIOUS
<1>5. ASSUME row.sub # 0
      PROVE  \E n \in 1 .. k :
               /\ n \in 1 .. Len(events) /\ n \in 1 .. j /\ n < j
               /\ Tells(n) /\ events[n].sub = row.sub /\ row.sub \in 1 .. Len(subs)
               /\ \A m \in 1 .. k : m > n /\ Tells(m) => events[m].sub # row.sub
               /\ \/ row.status = events[n].status
                  \/ events[n].status = "unpaid" /\ row.status \in {"active", "past_due"}
                  \/ Len(subs) > 1 /\ row.status = "past_due"
                  \/ /\ ~Tells(k) /\ events[k].sub = row.sub /\ row.status = "past_due"
                     /\ e.type = "updated" /\ e.sub = row.sub
  <2>1. PICK n \in 1 .. k :
               /\ Tells(n) /\ events[n].sub = row.sub
               /\ \A m \in 1 .. k : m > n /\ Tells(m) => events[m].sub # row.sub
               /\ \/ row.status = events[n].status
                  \/ events[n].status = "unpaid" /\ row.status \in {"active", "past_due"}
                  \/ Len(subs) > 1 /\ row.status = "past_due"
                  \/ ~Tells(k) /\ events[k].sub = row.sub /\ row.status = "past_due"
    BY <1>5 DEF Handled, RowFollows
  <2>2. /\ n \in 1 .. Len(events) /\ n \in 1 .. j /\ n < j
        /\ k \in 1 .. Len(events)
    <3>1. Len(events) \in Nat
      BY DEF BilGood, EventsKept
    <3> QED BY <1>1, <1>4, <3>1
  <2>3. events[n].sub \in 1 .. Len(subs)
    BY <2>2 DEF BilGood, EventsKept
  <2>4. ~Tells(k) => e.type = "updated" /\ e.sub = events[k].sub
    BY <2>2 DEF BilGood, EventsKept
  <2> QED BY <2>1, <2>2, <2>3, <2>4
<1> HIDE DEF j
<1>6. ASSUME row'.sub # 0
      PROVE  \E n \in 1 .. j :
        /\ Tells(n) /\ events[n].sub = row'.sub
        /\ \A m \in 1 .. j : m > n /\ Tells(m) => events[m].sub # row'.sub
        /\ \/ row'.status = events[n].status
           \/ events[n].status = "unpaid" /\ row'.status \in {"active", "past_due"}
           \/ Len(subs) > 1 /\ row'.status = "past_due"
           \/ ~Tells(j) /\ events[j].sub = row'.sub /\ row'.status = "past_due"
  <2>1. j \in 1 .. j /\ \A m \in 1 .. j : ~(m > j)
    BY <1>1, <1>4 DEF j
  <2>2. CASE Head(r.todo) = "complete"
    <3>1. row'.sub = e.sub /\ row'.status = e.status
      BY <1>1, <1>2, <2>2 DEF BilAccepts, j
    <3> QED BY <1>1, <2>1, <2>2, <3>1 DEF Tells
  <2>3. CASE Head(r.todo) = "find"
    <3>1. row' = row /\ ~BL!Matches(e)
      BY <2>3 DEF BilAccepts, j
    <3>2. Tells(j) => e.sub # row.sub
      BY <3>1 DEF BL!Matches, Tells
    <3>3. ~(e.type = "updated" /\ e.sub = row.sub)
      BY <3>1 DEF BL!Matches
    <3> QED BY <1>4, <1>5, <1>6, <3>1, <3>2, <3>3
  <2>4. CASE Head(r.todo) = "update" /\ ~Tells(j)
    <3>1. row'.sub = row.sub /\ row'.status = "past_due"
      BY <1>3, <2>4 DEF BilAccepts, BL!StatusFor, Tells, j
    <3>2. PICK n \in 1 .. j :
             /\ Tells(n) /\ events[n].sub = row.sub /\ row.sub \in 1 .. Len(subs)
             /\ \A m \in 1 .. k : m > n /\ Tells(m) => events[m].sub # row.sub
      BY <1>5, <1>6, <3>1
    <3>3. e.sub # row.sub => Len(subs) > 1
      BY <1>2, <3>2
    <3>4. \A m \in 1 .. j : m > n /\ Tells(m) => events[m].sub # row.sub
      BY <1>4, <2>4, <3>2
    <3> QED BY <3>1, <3>2, <3>3, <3>4, <2>4
  <2>5. CASE Head(r.todo) = "update" /\ Tells(j)
    <3>1. /\ row'.sub = row.sub /\ row'.status = BL!StatusFor(e, r.found)
          /\ r.found.status = row.status /\ e.sub = row.sub
          /\ e.type \in {"updated", "deleted"}
      <4>1. row' = [row EXCEPT !.status = BL!StatusFor(e, r.found)]
        BY <2>5 DEF BilAccepts, j
      <4>2. r.found.status = row.status /\ (Tells(r.event) => events[r.event].sub = row.sub)
        BY <2>5 DEF Handled
      <4>3. e.type \in {"updated", "deleted"}
        BY <1>1, <1>2, <2>5 DEF BilEvent, Tells
      <4> QED BY <1>3, <2>5, <4>1, <4>2, <4>3 DEF j
    <3>2. PICK n \in 1 .. k :
             /\ n \in 1 .. Len(events) /\ n < j /\ events[n].sub = row.sub
             /\ \/ row.status = events[n].status
                \/ row.status \in {"active", "past_due"}
      BY <1>5, <1>6, <3>1
    <3>3. events[n].status # "canceled"
      BY <1>1, <3>1, <3>2 DEF BilGood, LastEventTells
    <3>4. events[n] \in BilEvent
      BY <3>2, ElementOfSeq, Zenon DEF BilGood, EventsKept
    <3>5. row.status \in {"active", "past_due"}
      BY <1>3, <3>2, <3>3, <3>4 DEF BilEvent, SubStatus
    <3>6. \/ row'.status = e.status
          \/ e.status = "unpaid" /\ row'.status \in {"active", "past_due"}
      BY <1>2, <3>1, <3>5 DEF BL!StatusFor, BilEvent, SubStatus
    <3> QED BY <2>1, <2>5, <3>1, <3>6
  <2> QED BY <2>2, <2>3, <2>4, <2>5 DEF BilAccepts
<1> QED BY <1>1, <1>6 DEF RowFollows, Tells, j

LEMMA BilAcceptKept ==
    ASSUME BilGood, NEW r \in flight, BilAccepts(r)
    PROVE  BilGood'
<1>1. Leaves(r) /\ Numbered'
  BY EndKeepsNumbers DEF BilGood, BilAccepts
<1>2. /\ flight' = flight \ {r} /\ begun' = begun /\ failed \subseteq failed'
      /\ together' = together /\ customers' = customers /\ subs' = subs
      /\ events' = events /\ due' = due \ {r.event} /\ disorder' = disorder
      /\ checkouts' = checkouts /\ r.op = "event" /\ r.event \in 1 .. Len(events)
      /\ BilRequest(r) /\ BilAwait(r)
  BY <1>1, BilPlans DEF BilAccepts, Leaves, BilGood, BilRequest
<1>3. EventsKept' /\ LastEventTells'
  BY <1>2, BilQuiet DEF BilGood, EventsKept
<1>4. BilRow' /\ (row.customer # 0 => row'.customer # 0)
  <2>1. events[r.event] \in BilEvent
    BY <1>2, ElementOfSeq, Zenon DEF BilGood, EventsKept
  <2>2. BL!StatusFor(events[r.event], r.found) \in {"trialing", "active", "past_due", "canceled"}
    BY <1>2 DEF BL!StatusFor, BilRequest
  <2>3. /\ DOMAIN row = {"customer", "sub", "status"} /\ row.customer \in Nat
        /\ row.status \in {"trialing", "active", "past_due", "canceled"}
    BY DEF BilGood, BilRow
  <2>4. CASE row' = [customer |-> events[r.event].customer, sub |-> events[r.event].sub,
                     status |-> "active"]
    BY <2>1, <2>4 DEF BilRow, BilEvent, Customer
  <2>5. CASE row' = [row EXCEPT !.status = BL!StatusFor(events[r.event], r.found)]
    BY <2>2, <2>3, <2>5 DEF BilRow
  <2>6. CASE row' = row
    BY <2>3, <2>6 DEF BilRow
  <2> QED BY <2>4, <2>5, <2>6 DEF BilAccepts
<1>5. \A p \in flight' : (BilRequest(p))'
  BY <1>2 DEF BilGood, BilRequest
<1>6. CustomerKept'
  <2>1. Head(r.todo) # "store"
    BY <1>2 DEF BilAwait
  <2>2. \A a \in customers : \/ row'.customer # 0 \/ a \in failed'
                             \/ \E p \in flight' : p.id = a /\ Head(p.todo) = "store"
    BY <1>2, <1>4, <2>1 DEF BilGood, CustomerKept
  <2>3. OverlapsLater'
    BY <1>2 DEF BilGood, CustomerKept, OverlapsLater
  <2> QED BY <1>2, <2>2, <2>3 DEF BilGood, CustomerKept, BL!OneCustomer, BL!Overlapped, Excused
<1>7. ASSUME NEW k \in Nat, Handled(k)
      PROVE  (Handled(k + 1))'
  <2>1. r.event = k + 1 /\ \A p \in flight' : p.op # "event"
    BY <1>2, <1>7 DEF Handled
  <2>2. (RowFollows(k + 1))'
    BY <1>7, <2>1, BilRowFollows
  <2>3. k + 1 <= Len(events) /\ due' = (k + 1 + 1) .. Len(events)
    <3>1. Len(events) \in Nat /\ due = (k + 1) .. Len(events)
      BY <1>7 DEF Handled, BilGood, EventsKept
    <3> QED BY <1>2, <2>1, <3>1
  <2>4. \A p \in flight' : Head(p.todo) # "update"
    BY <1>2, <2>1, BilPlans DEF BilGood, BilRequest, BilAwait
  <2> QED BY <1>2, <2>1, <2>2, <2>3, <2>4 DEF Handled
<1>8. InOrder'
  <2>1. \A k \in Nat : k + 1 \in Nat
    OBVIOUS
  <2> QED BY <1>2, <1>7, <2>1 DEF BilGood, InOrder
<1> QED BY <1>1, <1>3, <1>4, <1>5, <1>6, <1>8 DEF BilGood

LEMMA BilStutters ==
    ASSUME BilGood, UNCHANGED <<requests, billing>>
    PROVE  BilGood'
<1>1. /\ flight' = flight /\ begun' = begun /\ together' = together /\ failed' = failed
      /\ row' = row /\ customers' = customers /\ checkouts' = checkouts /\ subs' = subs
      /\ events' = events /\ due' = due /\ disorder' = disorder
  BY DEF requests, billing
<1>2. EventsKept' /\ LastEventTells'
  BY <1>1, BilQuiet DEF BilGood, EventsKept
<1>3. Numbered' /\ (\A r \in flight' : (BilRequest(r))') /\ BilRow' /\ CustomerKept'
  <2>1. Numbered' /\ BilRow'
    BY <1>1 DEF BilGood, Numbered, BilRow
  <2>2. \A r \in flight' : (BilRequest(r))'
    BY <1>1 DEF BilGood, BilRequest
  <2>3. CustomerKept'
    BY <1>1 DEF BilGood, CustomerKept, OverlapsLater, Excused, BL!OneCustomer, BL!Overlapped
  <2> QED BY <2>1, <2>2, <2>3
<1>4. InOrder'
  BY <1>1 DEF BilGood, InOrder, Handled, RowFollows, Tells
<1> QED BY <1>2, <1>3, <1>4 DEF BilGood

LEMMA BilBegins == Init => BilInv
<1> SUFFICES ASSUME Init PROVE BilInv
  OBVIOUS
<1>1. /\ flight = {} /\ begun = 0 /\ together = {} /\ failed = {}
      /\ row = [customer |-> 0, sub |-> 0, status |-> "trialing"]
      /\ customers = {} /\ checkouts = {} /\ subs = <<>> /\ events = <<>> /\ due = {}
      /\ disorder = FALSE
  BY DEF Init, BL!Init, BL!RequestsInit, BL!None
<1>2. Len(events) = 0 /\ Len(subs) = 0
  BY <1>1
<1>3. EventsKept /\ LastEventTells
  BY <1>1, <1>2 DEF EventsKept, LastEventTells
<1>4. Numbered /\ (\A r \in flight : BilRequest(r)) /\ BilRow /\ CustomerKept
  BY <1>1 DEF Numbered, BilRow, CustomerKept, OverlapsLater, BL!OneCustomer
<1>5. Handled(0)
  BY <1>1, <1>2 DEF Handled, RowFollows
<1>6. InOrder
  BY <1>5 DEF InOrder
<1> QED BY <1>1, <1>3, <1>4, <1>6 DEF BilInv, BilInit, BilGood

LEMMA BilStep == BilInv /\ [Next]_vars => BilInv'
<1> SUFFICES ASSUME BilInv, [Next]_vars PROVE BilInv'
  OBVIOUS
<1>1. focus' = focus
  BY DEF Next, vars
<1>2. CASE focus # "billing"
  <2>1. UNCHANGED billing
    BY <1>2 DEF Next, vars
  <2> QED BY <1>1, <1>2, <2>1 DEF BilInv, BilInit, billing
<1>3. CASE focus = "billing"
  <2> SUFFICES BilGood'
    BY <1>1, <1>3 DEF BilInv
  <2>1. BilGood
    BY <1>3 DEF BilInv
  <2>2. CASE BL!Next
    <3>1. CASE BL!Checkout \/ \E n \in due : BL!Deliver(n)
      BY <2>1, <3>1, BilArrival, BilArrivalKept
    <3>2. CASE \/ \E c \in checkouts : BL!Completed(c)
               \/ \E s \in 1 .. Len(subs),
                     st \in {"active", "past_due", "unpaid", "canceled"} : BL!Becomes(s, st)
      BY <2>1, <3>2, BilStripe, BilSaysKept
    <3>3. ASSUME NEW r \in flight,
                 \/ BL!FindRow(r) \/ BL!CreateCustomer(r) \/ BL!StoreCustomer(r)
                 \/ BL!CreateSession(r) \/ BL!CheckoutCompleted(r) \/ BL!FindSubscription(r)
                 \/ BL!UpdateStatus(r)
                 \/ BL!Throw(r) /\ UNCHANGED <<row, BL!stripe, disorder>>
          PROVE  BilGood'
      BY <2>1, <3>3, BilHandled, BilAwaitKept, BilEndKept, BilAcceptKept
    <3> QED BY <2>2, <3>1, <3>2, <3>3 DEF BL!Next
  <2>3. CASE UNCHANGED vars
    BY <2>1, <2>3, BilStutters DEF vars
  <2> QED BY <1>3, <2>2, <2>3 DEF Next
<1> QED BY <1>2, <1>3

\* Once every event is accepted, in Stripe's order, the subscription row says
\* what Stripe says; and the organization has two customers only if the two
\* checkouts that created them overlapped or the earlier one failed half-way
\* (createCheckoutSession and handleWebhook of billing.service).
THEOREM RowSaysWhatStripeSays == Spec => []StatusFollowsStripe
<1>1. ASSUME BilGood, due = {}, ~disorder, row.sub # 0
      PROVE  \/ row.status = subs[row.sub].status
             \/ subs[row.sub].status = "unpaid" /\ row.status \in {"active", "past_due"}
             \/ Len(subs) > 1 /\ row.status = "past_due"
  <2>1. Len(events) \in Nat
    BY <1>1 DEF BilGood, EventsKept
  <2>2. Handled(Len(events))
    <3>1. PICK k \in Nat : Handled(k)
      BY <1>1 DEF BilGood, InOrder
    <3>2. k = Len(events)
      BY <1>1, <2>1, <3>1 DEF Handled
    <3> QED BY <3>1, <3>2
  <2>3. PICK n \in 1 .. Len(events) :
          /\ Tells(n) /\ events[n].sub = row.sub
          /\ \A m \in 1 .. Len(events) : m > n /\ Tells(m) => events[m].sub # row.sub
          /\ \/ row.status = events[n].status
             \/ events[n].status = "unpaid" /\ row.status \in {"active", "past_due"}
             \/ Len(subs) > 1 /\ row.status = "past_due"
             \/ ~Tells(Len(events))
    BY <1>1, <2>2 DEF Handled, RowFollows
  <2>4. Tells(Len(events))
    <3>1. Len(events) \in 1 .. Len(events) /\ Len(events) + 1 \notin 1 .. Len(events)
      BY <2>1, <2>3
    <3> QED BY <1>1, <3>1 DEF BilGood, EventsKept
  <2>5. row.sub \in 1 .. Len(subs)
    BY <1>1, <2>3 DEF BilGood, EventsKept
  <2>6. PICK l \in 1 .. Len(events) :
          /\ Tells(l) /\ events[l].sub = row.sub /\ events[l].status = subs[row.sub].status
          /\ \A m \in 1 .. Len(events) : m > l /\ Tells(m) => events[m].sub # row.sub
    BY <1>1, <2>5 DEF BilGood, LastEventTells
  <2>7. l = n
    BY <2>1, <2>3, <2>6
  <2> QED BY <2>3, <2>4, <2>6, <2>7
<1>2. ASSUME BilGood PROVE BL!OneCustomer
  BY <1>2 DEF BilGood, CustomerKept, BL!OneCustomer
<1>3. BilInv => StatusFollowsStripe
  <2>1. BilInit => BL!StatusFollowsStripe /\ BL!OneCustomer
    BY DEF BilInit, BL!StatusFollowsStripe, BL!OneCustomer, BL!None
  <2>2. BilGood => BL!StatusFollowsStripe /\ BL!OneCustomer
    BY <1>1, <1>2 DEF BL!StatusFollowsStripe, BL!None
  <2> QED BY <2>1, <2>2 DEF BilInv, StatusFollowsStripe
<1> QED BY <1>3, BilBegins, BilStep, PTL DEF Spec

-----------------------------------------------------------------------------
(* Retention *)

RetentionTypes ==
    /\ images \subseteq Screenshot /\ shots \subseteq Screenshot
    /\ listed \in [Replica -> SUBSET Screenshot]
    /\ on \in [Replica -> Screenshot \cup {0}]
    /\ imageDone \in [Replica -> BOOLEAN] /\ errors \in Nat

\* A replica that is past the call for the image deletes the row of an image that
\* is gone: no replica puts an image back.
DeletedBeforeRow ==
    backend = "s3" =>
        \A r \in Replica : on[r] # 0 /\ imageDone[r] => on[r] \notin images

RetentionInv ==
    RetentionTypes /\ DeletedBeforeRow /\ RT!ImagesHaveRows /\ RT!RowsHaveImages

LEMMA RetentionStep ==
    ASSUME RetentionInv, RT!Next
    PROVE  RetentionInv'
<1> USE DEF RetentionInv, RetentionTypes, DeletedBeforeRow, RT!ImagesHaveRows,
            RT!RowsHaveImages
<1> PICK r \in Replica :
        \/ RT!CleanupOldScreenshots(r) \/ RT!DeleteS3Object(r) \/ RT!DeleteRow(r)
        \/ RT!Fails(r) \/ RT!Dies(r)
        \/ \E s \in Screenshot : RT!Take(r, s)
  BY DEF RT!Next
<1>1. CASE RT!CleanupOldScreenshots(r)
  BY <1>1 DEF RT!CleanupOldScreenshots
<1>2. CASE RT!DeleteS3Object(r)
  BY <1>2 DEF RT!DeleteS3Object
<1>3. CASE RT!DeleteRow(r)
  BY <1>3 DEF RT!DeleteRow
<1>4. CASE RT!Fails(r)
  BY <1>4 DEF RT!Fails
<1>5. CASE RT!Dies(r)
  BY <1>5 DEF RT!Dies
<1>6. ASSUME NEW s \in Screenshot, RT!Take(r, s)
      PROVE  RetentionInv'
  BY <1>6 DEF RT!Take
<1> QED BY <1>1, <1>2, <1>3, <1>4, <1>5, <1>6

\* The nightly clean-up, in any number of replicas at once and with failures and
\* crashes between any two calls (maintenance.service cleanupOldScreenshots):
\* on S3 no image is left without its row, and a row without its image is being
\* deleted or was left by an error.
THEOREM CleanupLeavesNothingBehind == Spec => []ImagesHaveRows
<1>1. Init => RetentionInv
  BY DEF Init, RT!Init, RetentionInv, RetentionTypes, DeletedBeforeRow,
         RT!ImagesHaveRows, RT!RowsHaveImages
<1>2. RetentionInv /\ [Next]_vars => RetentionInv'
  <2> SUFFICES ASSUME RetentionInv, [Next]_vars PROVE RetentionInv'
    OBVIOUS
  <2>1. RT!Next \/ UNCHANGED cleanup
    BY DEF Next, vars
  <2>2. CASE RT!Next
    BY <2>2, RetentionStep
  <2>3. CASE UNCHANGED cleanup
    BY <2>3 DEF cleanup, RetentionInv, RetentionTypes, DeletedBeforeRow,
                RT!ImagesHaveRows, RT!RowsHaveImages
  <2> QED BY <2>1, <2>2, <2>3
<1>3. RetentionInv => ImagesHaveRows
  BY DEF RetentionInv, ImagesHaveRows
<1> QED BY <1>1, <1>2, <1>3, PTL DEF Spec

-----------------------------------------------------------------------------
(* WebSession *)

Jwt == [period : Nat, refresh : Nat, error : BOOLEAN]

Calls == [id : Nat, by : {"api", "provider", "page"},
          at : {"jwt", "replace", "answer", "api"}, jwt : Jwt]

SessionTypes ==
    /\ cookie \in Jwt /\ now \in Nat /\ issued \in Nat /\ live \subseteq Nat \ {0}
    /\ calls \subseteq Calls
    /\ asked \in Nat /\ refusals \in Nat

\* None of the reasons to sign a user out is there.
Undisturbed == ~left /\ ~revoked /\ ~expired /\ refusals = 0 /\ ~atOnce /\ ~lost

\* Then one request at a time is between getSession and its answer; until the API
\* has replaced the token it carries the cookie, that of a page all the time, and
\* the live refresh token is in the cookie or in the answer that is about to set it.
OneLiveToken ==
    Undisturbed =>
        /\ cookie # WS!NoCookie /\ ~cookie.error
        /\ \A c, d \in calls : c.at # "api" /\ d.at # "api" => c = d
        /\ \A c \in calls : c.at \in {"jwt", "replace"} => c.jwt = cookie
        /\ \A c \in calls : c.at = "answer" =>
              ~c.jwt.error /\ c.jwt.refresh \in live /\ (c.by = "page" => c.jwt = cookie)
        /\ cookie.refresh \in live \/ \E c \in calls : c.at = "answer" /\ c.by # "page"

SessionInv == SessionTypes /\ OneLiveToken

LEMMA SessionStep ==
    ASSUME SessionInv, WS!Next
    PROVE  SessionInv'
<1> USE DEF SessionInv
<1>1. ASSUME NEW by \in {"api", "provider", "page"}, WS!AskSession(by)
      PROVE  SessionInv'
  <2> DEFINE c == [id |-> asked + 1, by |-> by, at |-> "jwt", jwt |-> cookie]
  <2>1. c \in Calls
    BY DEF SessionTypes, Calls
  <2>2. SessionTypes'
    BY <1>1, <2>1 DEF WS!AskSession, WS!API, SessionTypes
  <2>3. Undisturbed' => Undisturbed /\ \A d \in calls : d.at = "api"
    BY <1>1 DEF WS!AskSession, WS!API, Undisturbed, SessionTypes, Calls
  <2>4. OneLiveToken'
    BY <1>1, <2>3 DEF WS!AskSession, WS!API, SessionTypes, OneLiveToken
  <2> QED BY <2>2, <2>4
<1>2. CASE WS!NearExpiry \/ WS!Unload
  <2>1. /\ UNCHANGED <<live, issued, revoked, expired, cookie, asked, refusals, left, atOnce, lost>>
        /\ now' \in Nat
        /\ calls' = calls \/ (calls' = {} /\ cookie = WS!NoCookie)
    BY <1>2 DEF WS!NearExpiry, WS!Unload, WS!API, WS!counts, SessionTypes
  <2>2. SessionTypes'
    BY <2>1 DEF SessionTypes
  <2>3. OneLiveToken'
    BY <2>1 DEF OneLiveToken, Undisturbed
  <2> QED BY <2>2, <2>3
<1>0. CASE WS!Revoke \/ WS!SignOut \/ \E t \in live : WS!Expire(t)
  <2>1. WS!NoCookie \in Jwt
    BY DEF Jwt, WS!NoCookie
  <2>2. ~Undisturbed'
    BY <1>0 DEF WS!Revoke, WS!SignOut, WS!Expire, Undisturbed
  <2>3. SessionTypes'
    BY <1>0, <2>1 DEF WS!Revoke, WS!SignOut, WS!Expire, WS!SignedOut, WS!API, WS!counts,
                      SessionTypes
  <2> QED BY <2>2, <2>3 DEF OneLiveToken
<1>3. ASSUME NEW c \in calls, WS!Keep(c) \/ WS!Find(c)
      PROVE  SessionInv'
  <2>1. PICK a \in {"answer", "replace"} :
            /\ calls' = (calls \ {c}) \cup {[c EXCEPT !.at = a, !.jwt = c.jwt]}
            /\ c.at = "jwt" /\ (a = "replace" => c.jwt.refresh \in live)
            /\ UNCHANGED <<live, issued, revoked, expired, cookie, now, asked, refusals, left,
                           atOnce, lost>>
    BY <1>3 DEF WS!Keep, WS!Find, WS!To, WS!API, WS!counts
  <2>2. [c EXCEPT !.at = a, !.jwt = c.jwt] \in Calls
    BY DEF SessionTypes, Calls
  <2>3. SessionTypes'
    BY <2>1, <2>2 DEF SessionTypes
  <2>4. OneLiveToken'
    <3> SUFFICES ASSUME Undisturbed
                 PROVE  OneLiveToken'
      BY <2>1 DEF OneLiveToken, Undisturbed
    <3> DEFINE k == [c EXCEPT !.at = a, !.jwt = c.jwt]
    <3>1. k.at = a /\ k.jwt = c.jwt /\ k.at # "api"
      BY DEF SessionTypes, Calls
    <3> HIDE DEF k
    <3>2. calls' = (calls \ {c}) \cup {k} /\ live' = live /\ cookie' = cookie
      BY <2>1 DEF k
    <3>3. \A d \in calls : d.at # "api" => d = c
      BY <2>1 DEF OneLiveToken
    <3>4. c.jwt = cookie
      BY <2>1 DEF OneLiveToken
    <3>5. cookie # WS!NoCookie /\ ~cookie.error
      BY DEF OneLiveToken
    <3>6. cookie.refresh \in live \/ \E d \in calls : d.at = "answer" /\ d.by # "page"
      BY DEF OneLiveToken
    <3>7. \A d \in calls' : d.at # "api" => d = k
      BY <3>2, <3>3
    <3>8. cookie.refresh \in live
      BY <2>1, <3>3, <3>6
    <3> QED BY <3>1, <3>2, <3>4, <3>5, <3>7, <3>8 DEF OneLiveToken
  <2> QED BY <2>3, <2>4
<1>4. ASSUME NEW c \in calls, WS!Replace(c)
      PROVE  SessionInv'
  <2> DEFINE t == [c.jwt EXCEPT !.period = now, !.refresh = issued + 1]
  <2> DEFINE d == [c EXCEPT !.at = "answer", !.jwt = t]
  <2>1. /\ c.at = "replace" /\ issued' = issued + 1 /\ calls' = (calls \ {c}) \cup {d}
        /\ live' = (live \ {c.jwt.refresh}) \cup (IF revoked THEN {} ELSE {issued + 1})
        /\ lost' = (lost \/ c.by = "page")
        /\ UNCHANGED <<revoked, expired, cookie, now, asked, refusals, left, atOnce>>
    BY <1>4 DEF WS!Replace, WS!Refreshed, WS!To, WS!counts
  <2>2. t \in Jwt /\ t.refresh = issued + 1 /\ t.error = c.jwt.error
    <3>1. c.jwt \in Jwt /\ now \in Nat /\ issued + 1 \in Nat
      BY DEF SessionTypes, Calls
    <3> QED BY <3>1 DEF Jwt
  <2> HIDE DEF t
  <2>3. d \in Calls /\ d.at = "answer" /\ d.by = c.by /\ d.jwt = t
    BY <2>2 DEF SessionTypes, Calls
  <2> HIDE DEF d
  <2>4. SessionTypes'
    <3>0. live' \subseteq live \cup {issued + 1}
      BY <2>1
    <3>1. live' \subseteq Nat \ {0}
      BY <3>0 DEF SessionTypes
    <3> QED BY <2>1, <2>3, <3>1 DEF SessionTypes
  <2>5. OneLiveToken'
    BY <2>1, <2>2, <2>3 DEF SessionTypes, OneLiveToken, Undisturbed
  <2> QED BY <2>4, <2>5
<1>5. ASSUME NEW c \in calls, WS!Failed(c)
      PROVE  SessionInv'
  <2> DEFINE t == [c.jwt EXCEPT !.error = TRUE]
  <2> DEFINE d == [c EXCEPT !.at = "answer", !.jwt = t]
  <2>1. /\ c.at = "jwt" /\ calls' = (calls \ {c}) \cup {d}
        /\ \/ c.jwt.refresh \notin live /\ UNCHANGED refusals
           \/ refusals' = refusals + 1
        /\ UNCHANGED <<live, issued, revoked, expired, cookie, now, asked, left, atOnce, lost>>
    BY <1>5 DEF WS!Failed, WS!To, WS!API
  <2>2. t \in Jwt /\ d \in Calls
    BY DEF SessionTypes, Calls, Jwt
  <2> HIDE DEF d, t
  <2>3. SessionTypes'
    BY <2>1, <2>2 DEF SessionTypes
  <2>4. ~Undisturbed'
    BY <2>1 DEF SessionTypes, OneLiveToken, Undisturbed
  <2> QED BY <2>3, <2>4 DEF OneLiveToken
<1>6. ASSUME NEW c \in calls, WS!GetSession(c)
      PROVE  SessionInv'
  <2> DEFINE d == [c EXCEPT !.at = "api", !.jwt = c.jwt]
  <2>1. /\ c.at = "answer" /\ c.by # "page"
        /\ \/ c.jwt.error /\ cookie' = WS!NoCookie /\ calls' = calls \ {c} /\ c.by = "api"
           \/ cookie' = c.jwt /\ calls' = (calls \ {c}) \cup {d}
           \/ cookie' = c.jwt /\ calls' = calls \ {c}
        /\ UNCHANGED <<live, issued, revoked, expired, now, asked, refusals, left, atOnce,
                       lost>>
    BY <1>6 DEF WS!GetSession, WS!SignedOut, WS!To, WS!API, WS!counts
  <2>2. d \in Calls /\ d.at = "api" /\ c.jwt \in Jwt /\ WS!NoCookie \in Jwt
    BY DEF SessionTypes, Calls, Jwt, WS!NoCookie
  <2> HIDE DEF d
  <2>3. SessionTypes'
    BY <2>1, <2>2 DEF SessionTypes
  <2>4. Undisturbed' => Undisturbed /\ ~c.jwt.error /\ c.jwt # WS!NoCookie
    BY <2>1 DEF SessionTypes, OneLiveToken, Undisturbed, WS!NoCookie
  <2>5. OneLiveToken'
    BY <2>1, <2>2, <2>4 DEF OneLiveToken
  <2> QED BY <2>3, <2>5
<1>8. ASSUME NEW c \in calls, WS!RenderPage(c)
      PROVE  SessionInv'
  <2>1. /\ c.at = "answer" /\ c.by = "page" /\ calls' = calls \ {c}
        /\ UNCHANGED <<live, issued, revoked, expired, cookie, now, asked, refusals, left,
                       atOnce, lost>>
    BY <1>8 DEF WS!RenderPage, WS!API, WS!counts
  <2> QED BY <2>1 DEF SessionTypes, OneLiveToken, Undisturbed
<1>7. ASSUME NEW c \in calls, WS!Called(c)
      PROVE  SessionInv'
  <2>1. /\ c.at = "api" /\ calls' = calls \ {c}
        /\ IF revoked THEN cookie' = WS!NoCookie ELSE UNCHANGED cookie
        /\ UNCHANGED <<live, issued, revoked, expired, now, asked, refusals, left, atOnce,
                       lost>>
    BY <1>7 DEF WS!Called, WS!SignedOut, WS!API, WS!counts
  <2>2. WS!NoCookie \in Jwt
    BY DEF Jwt, WS!NoCookie
  <2> QED BY <2>1, <2>2 DEF SessionTypes, OneLiveToken, Undisturbed
<1> QED BY <1>0, <1>1, <1>2, <1>3, <1>4, <1>5, <1>6, <1>7, <1>8 DEF WS!Next

\* Whatever number of requests, exchanges and renewals (lib/auth.ts, lib/api.ts,
\* app/page.tsx, live/page.tsx): the dashboard signs a user out only if the session
\* ended, an exchange failed, two requests asked for the session at the same time,
\* or a server component exchanged the token and could not keep the new one.
THEOREM SignOutHasAReason == Spec => []SignedOutForAReason
<1>1. Init => SessionInv
  <2> SUFFICES ASSUME Init PROVE SessionInv
    OBVIOUS
  <2>1. cookie = [period |-> 1, refresh |-> 1, error |-> FALSE]
    BY DEF Init, WS!Init, WS!Token
  <2>2. cookie \in Jwt /\ cookie # WS!NoCookie
    BY <2>1 DEF Jwt, WS!NoCookie
  <2>3. SessionTypes
    BY <2>1, <2>2 DEF Init, WS!Init, SessionTypes
  <2> QED BY <2>1, <2>2, <2>3 DEF Init, WS!Init, SessionInv, OneLiveToken
<1>2. SessionInv /\ [Next]_vars => SessionInv'
  <2> SUFFICES ASSUME SessionInv, [Next]_vars PROVE SessionInv'
    OBVIOUS
  <2>1. WS!Next \/ UNCHANGED browser
    BY DEF Next, vars
  <2>2. CASE UNCHANGED browser
    BY <2>2 DEF browser, SessionInv, SessionTypes, OneLiveToken, Undisturbed
  <2> QED BY <2>1, <2>2, SessionStep
<1>3. SessionInv => SignedOutForAReason
  BY DEF SessionInv, SessionTypes, OneLiveToken, Undisturbed, SignedOutForAReason,
         WS!SignedOutForAReason
<1> QED BY <1>1, <1>2, <1>3, PTL DEF Spec

-----------------------------------------------------------------------------
(* Streaming *)

StreamTypes ==
    /\ up \subseteq ST!Socket /\ connections \subseteq ST!Socket /\ closing \subseteq ST!Socket
    /\ agentSockets \in ST!Socket \cup {0}
    /\ stage \in [ST!Socket -> {"none", "find", "create", "done"}]
    /\ session \in [ST!Socket -> {"none", "active", "closed"}]
    /\ faults \in Nat

\* What the stage of handleConnection says about the socket and its entries; a
\* socket that dropped before the end of it is the exception `early'.
StageInv ==
    /\ \A s \in ST!Socket : stage[s] = "none" => s \notin up /\ s \notin connections
    /\ \A s \in ST!Socket : session[s] = "active" => stage[s] = "done"
    /\ faults = 0 =>
        /\ \A s \in ST!Socket : stage[s] \in {"find", "create"} => s \in up \cup early
        /\ \A s \in up : stage[s] \in {"create", "done"} => s \in connections

\* The agent's entry is the socket that connected last, unless a later disconnect
\* of another one has taken it.
EntryInv ==
    faults = 0 /\ early = {} =>
        /\ connections \subseteq up
        /\ \A s \in up : stage[s] \in {"create", "done"} => agentSockets \in up \/ s \in crossed

GatewayInv == StreamTypes /\ StageInv /\ EntryInv /\ ST!NoGhostSession

\* One frame at a time: what it has read is what was counted.
MeterInv ==
    /\ counted \in Nat /\ relayed \in Nat
    /\ \A f \in frames : f.read \in Nat \cup {0 - 1}
    /\ ~overlapped =>
        /\ \A f, g \in frames : f = g
        /\ \A f \in frames : f.read < 0 \/ f.read = counted
        /\ relayed <= counted /\ relayed < Cap

LEMMA HangUpStep ==
    ASSUME GatewayInv, NEW s \in up, ST!HangUp(s),
           stage' = stage /\ early' = IF stage[s] # "done" THEN early \cup {s} ELSE early,
           UNCHANGED <<session, faults>>
    PROVE  GatewayInv'
<1> USE DEF GatewayInv
<1>1. /\ up' = up \ {s} /\ connections' = connections \ {s}
      /\ s \in connections => /\ agentSockets' = 0 /\ closing' = closing \cup {s}
                              /\ crossed' = crossed \cup (connections \ {s})
      /\ s \notin connections => UNCHANGED <<agentSockets, closing, crossed>>
  BY DEF ST!HangUp
<1>2. StreamTypes'
  BY <1>1 DEF StreamTypes
<1>3. StageInv'
  BY <1>1 DEF StreamTypes, StageInv
<1>4. EntryInv'
  BY <1>1 DEF StreamTypes, StageInv, EntryInv
<1>5. ST!NoGhostSession'
  BY <1>1 DEF StreamTypes, StageInv, ST!NoGhostSession
<1> QED BY <1>2, <1>3, <1>4, <1>5

LEMMA GatewayStep ==
    ASSUME GatewayInv, ST!Next
    PROVE  GatewayInv'
<1> USE DEF GatewayInv
<1>1. ASSUME NEW s \in ST!Socket, ST!Connect(s) \/ ST!FindUser(s) \/ ST!CreateSession(s)
      PROVE  GatewayInv'
  <2>1. StreamTypes'
    BY <1>1 DEF ST!Connect, ST!FindUser, ST!CreateSession, StreamTypes
  <2>2. StageInv'
    BY <1>1 DEF ST!Connect, ST!FindUser, ST!CreateSession, StreamTypes, StageInv
  <2>3. EntryInv'
    BY <1>1 DEF ST!Connect, ST!FindUser, ST!CreateSession, StreamTypes, StageInv, EntryInv
  <2>4. ST!NoGhostSession'
    BY <1>1 DEF ST!Connect, ST!FindUser, ST!CreateSession, StreamTypes, StageInv,
                ST!NoGhostSession
  <2> QED BY <2>1, <2>2, <2>3, <2>4
<1>2. ASSUME NEW s \in ST!Socket, ST!Drop(s)
      PROVE  GatewayInv'
  BY <1>2, HangUpStep DEF ST!Drop
<1>3. ASSUME NEW s \in ST!Socket, ST!RefuseSocket(s)
      PROVE  GatewayInv'
  BY <1>3 DEF ST!RefuseSocket, ST!HangUp, StreamTypes, StageInv, EntryInv, ST!NoGhostSession
<1>4. ASSUME NEW s \in ST!Socket, ST!CloseSession(s)
      PROVE  GatewayInv'
  BY <1>4 DEF ST!CloseSession, StreamTypes, StageInv, EntryInv, ST!NoGhostSession
<1>5. CASE ST!Restart
  BY <1>5 DEF ST!Restart, StreamTypes, StageInv, EntryInv, ST!NoGhostSession
<1>6. CASE UNCHANGED <<up, stage, connections, agentSockets, closing, session, early, crossed,
                       faults>>
  BY <1>6 DEF StreamTypes, StageInv, EntryInv, ST!NoGhostSession
<1>7. ASSUME NEW m, ST!UpdateSessionMode(m)
      PROVE  GatewayInv'
  BY <1>6, <1>7 DEF ST!UpdateSessionMode
<1>8. ASSUME NEW s, ST!Frame(s) \/ ST!ReadCount(s) \/ ST!StoreCount(s)
      PROVE  GatewayInv'
  BY <1>6, <1>8 DEF ST!Frame, ST!ReadCount, ST!StoreCount, ST!gateway
<1> QED BY <1>1, <1>2, <1>3, <1>4, <1>5, <1>7, <1>8 DEF ST!Next

LEMMA MeterStep ==
    ASSUME MeterInv, ST!Next
    PROVE  MeterInv'
<1>1. ASSUME NEW s, ST!Frame(s)
      PROVE  MeterInv'
  <2> DEFINE f == [id |-> arrived + 1, read |-> 0 - 1]
  <2>1. f.read = 0 - 1
    OBVIOUS
  <2>2. /\ frames' = frames \cup {f} /\ UNCHANGED <<counted, relayed>>
        /\ ~overlapped' => ~overlapped /\ frames = {}
    BY <1>1 DEF ST!Frame
  <2> HIDE DEF f
  <2> QED BY <2>1, <2>2 DEF MeterInv
<1>2. ASSUME NEW f \in frames, ST!ReadCount(f)
      PROVE  MeterInv'
  <2> DEFINE g == [f EXCEPT !.read = counted]
  <2>1. frames' = (frames \ {f}) \cup {g} /\ UNCHANGED <<counted, relayed, overlapped>>
    BY <1>2 DEF ST!ReadCount
  <2>2. g.read = counted \/ g.read = f.read
    OBVIOUS
  <2> HIDE DEF g
  <2> QED BY <2>1, <2>2 DEF MeterInv
<1>3. ASSUME NEW f \in frames, ST!StoreCount(f)
      PROVE  MeterInv'
  BY <1>3 DEF ST!StoreCount, ST!WithinCap, MeterInv
<1>4. CASE ST!Restart
  BY <1>4 DEF ST!Restart, MeterInv
<1>5. CASE UNCHANGED <<counted, frames, relayed, overlapped>>
  BY <1>5 DEF MeterInv
<1>6. ASSUME NEW s, \/ ST!Connect(s) \/ ST!FindUser(s) \/ ST!CreateSession(s) \/ ST!Drop(s)
                    \/ ST!RefuseSocket(s) \/ ST!CloseSession(s) \/ ST!UpdateSessionMode(s)
      PROVE  MeterInv'
  BY <1>5, <1>6 DEF ST!Connect, ST!FindUser, ST!CreateSession, ST!Drop, ST!RefuseSocket,
                    ST!CloseSession, ST!UpdateSessionMode, ST!metering
<1> QED BY <1>1, <1>2, <1>3, <1>4, <1>6 DEF ST!Next

\* For any number of sockets and frames (streaming.gateway handleConnection and
\* handleDisconnect, streaming.service trackBandwidth): a control message reaches
\* a connected agent and no session row outlives its socket, but in the cases
\* that the properties name, and the daily cap holds for frames handled one by one.
THEOREM ConnectedAgentIsReachable == Spec => []AgentIsReachable
<1> DEFINE Inv == GatewayInv /\ MeterInv
<1>1. Init => Inv
  BY DEF Init, ST!Init, GatewayInv, StreamTypes, StageInv, EntryInv, MeterInv,
         ST!NoGhostSession
<1>2. Inv /\ [Next]_vars => Inv'
  <2> SUFFICES ASSUME Inv, [Next]_vars PROVE Inv'
    OBVIOUS
  <2>1. ST!Next \/ UNCHANGED stream
    BY DEF Next, vars
  <2>2. CASE UNCHANGED stream
    <3>1. UNCHANGED <<up, stage, connections, agentSockets, closing, session, early, crossed,
                      faults, counted, frames, relayed, overlapped>>
      BY <2>2 DEF stream
    <3> QED BY <3>1 DEF GatewayInv, StreamTypes, StageInv, EntryInv, MeterInv, ST!NoGhostSession
  <2> QED BY <2>1, <2>2, GatewayStep, MeterStep
<1>3. Inv => AgentIsReachable
  BY DEF GatewayInv, StreamTypes, EntryInv, MeterInv, AgentIsReachable, ST!AgentIsReachable,
         ST!CapHolds
<1> QED BY <1>1, <1>2, <1>3, PTL DEF Spec

-----------------------------------------------------------------------------
(* LiveWatch *)

WatchTypes ==
    /\ view \in [Viewer -> Device \cup {"user", "closed"}]
    /\ store \in [Device -> 0 .. TTL] /\ burst \in [Device -> BOOLEAN]
    /\ quiet \in Nat /\ closes \in Nat /\ losses \in Nat /\ dark \in [Viewer -> Nat]

\* While nobody watches and nothing is under way a flag only grows older, and
\* when its life is over the last poll has found it gone.
QuietInv ==
    quiet > 0 =>
        /\ posts = {} /\ \A v \in Viewer : LW!Closed(v)
        /\ \A d \in Device : store[d] = 0 \/ store[d] + quiet <= TTL
        /\ quiet > TTL => \A d \in Device : ~burst[d]

NoStop == \A p \in posts : p.start

\* The keep-alive of the browser is under way.
Asks(v) == \E p \in posts : p.from = v /\ p.on = view[v] /\ p.start

\* A view has its flag, or will have it again with the request that is under
\* way, or a stop that somebody's close has sent can still be paid with that close.
PaidFor(v) ==
    \/ dark[v] < closes
    \/ NoStop /\ (Asks(v) \/ store[view[v]] > 0)

DarkInv ==
    /\ \A v \in Viewer : LW!Closed(v) => dark[v] = 0
    /\ ~NoStop => closes > 0
    /\ losses = 0 /\ ~slow =>
        \A v \in Viewer : /\ dark[v] <= closes
                          /\ view[v] \in Device => PaidFor(v)

WatchInv == WatchTypes /\ QuietInv /\ DarkInv

LEMMA OpenOrClose ==
    ASSUME WatchInv, NEW v \in Viewer,
           (\E o \in Device \cup {"user"} : LW!Open(v, o)) \/ LW!Close(v) \/ LW!Die(v)
    PROVE  WatchInv'
<1> USE DEF WatchInv
<1>1. ASSUME NEW o \in Device \cup {"user"}, LW!Open(v, o)
      PROVE  WatchInv'
  <2> DEFINE p == [from |-> v, on |-> o, start |-> TRUE]
  <2>1. /\ view[v] = "closed" /\ view' = [view EXCEPT ![v] = o] /\ posts' = posts \cup {p}
        /\ quiet' = 0 /\ UNCHANGED <<recent, store, burst, losses, dark, closes, slow>>
    BY <1>1 DEF LW!Open, LW!Closed, LW!Post
  <2>2. p.from = v /\ p.on = o /\ p.start
    OBVIOUS
  <2> HIDE DEF p
  <2>3. WatchTypes' /\ QuietInv'
    BY <2>1 DEF WatchTypes, QuietInv
  <2>4. NoStop' <=> NoStop
    BY <2>1, <2>2 DEF NoStop
  <2>5. /\ view'[v] = o /\ \A w \in Viewer \ {v} : view'[w] = view[w]
        /\ o # "closed"
    BY <2>1 DEF WatchTypes
  <2>6. ASSUME losses' = 0, ~slow', NEW w \in Viewer, view'[w] \in Device
        PROVE  PaidFor(w)'
    <3>1. CASE w = v
      <4>1. dark[v] = 0 /\ closes \in Nat
        BY <2>1 DEF DarkInv, WatchTypes, LW!Closed
      <4>2. Asks(v)'
        BY <2>1, <2>2, <2>5 DEF Asks
      <4> QED BY <2>1, <2>4, <3>1, <4>1, <4>2 DEF PaidFor, DarkInv
    <3>2. CASE w # v
      <4>1. PaidFor(w) /\ (Asks(w) => Asks(w)') /\ view'[w] = view[w]
        BY <2>1, <2>5, <2>6, <3>2 DEF DarkInv, Asks
      <4> QED BY <2>1, <2>4, <4>1 DEF PaidFor
    <3> QED BY <3>1, <3>2
  <2>7. DarkInv'
    BY <2>1, <2>4, <2>5, <2>6 DEF DarkInv, LW!Closed
  <2> QED BY <2>3, <2>7
<1>2. CASE LW!Close(v) \/ LW!Die(v)
  <2>1. /\ view[v] # "closed"
        /\ view' = [view EXCEPT ![v] = "closed"] /\ dark' = [dark EXCEPT ![v] = 0]
        /\ UNCHANGED <<recent, store, burst, quiet, slow>>
        /\ \/ closes' = closes + 1 /\ UNCHANGED losses
           \/ losses' = losses + 1 /\ UNCHANGED <<closes, posts>>
    BY <1>2 DEF LW!Close, LW!Die, LW!Fault, LW!Closed
  <2>2. WatchTypes'
    BY <2>1 DEF WatchTypes
  <2>3. QuietInv'
    <3>1. quiet = 0
      BY <2>1 DEF WatchTypes, QuietInv, LW!Closed
    <3> QED BY <2>1, <3>1 DEF QuietInv
  <2>4. \A w \in Viewer \ {v} : view'[w] = view[w] /\ dark'[w] = dark[w]
    BY <2>1 DEF WatchTypes
  <2>5. view'[v] = "closed" /\ dark'[v] = 0
    BY <2>1 DEF WatchTypes
  <2>6. ~NoStop' => closes' > 0
    BY <2>1 DEF NoStop, DarkInv, WatchTypes
  <2>7. losses' = 0 => losses = 0 /\ closes' = closes + 1
    BY <2>1 DEF WatchTypes
  <2>8. ASSUME losses' = 0, ~slow', NEW w \in Viewer
        PROVE  dark'[w] < closes'
    BY <2>1, <2>4, <2>5, <2>7, <2>8 DEF DarkInv, WatchTypes
  <2>9. DarkInv'
    BY <2>1, <2>2, <2>4, <2>5, <2>6, <2>8 DEF DarkInv, PaidFor, WatchTypes, LW!Closed
  <2> QED BY <2>2, <2>3, <2>9
<1> QED BY <1>1, <1>2

LEMMA PostArrives ==
    ASSUME WatchInv, NEW p \in posts, LW!Start(p) \/ LW!Stop(p) \/ LW!Lose(p)
    PROVE  WatchInv'
<1> USE DEF WatchInv
<1>1. quiet = 0
  BY DEF WatchTypes, QuietInv
<1>2. /\ posts' = posts \ {p}
      /\ UNCHANGED <<view, recent, burst, opens, quiet, dark, closes, slow>>
      /\ store' \in [Device -> 0 .. TTL] /\ losses' \in Nat
      /\ losses' = 0 => losses = 0
  BY DEF LW!Start, LW!Stop, LW!Lose, LW!Fault, LW!history, LW!MarkWatched, WatchTypes
<1>3. WatchTypes' /\ QuietInv'
  BY <1>1, <1>2 DEF WatchTypes, QuietInv
<1>4. NoStop => NoStop'
  BY <1>2 DEF NoStop
<1>5. ASSUME losses' = 0, ~slow', NEW v \in Viewer, view'[v] \in Device
      PROVE  PaidFor(v)'
  <2>1. PaidFor(v) /\ UNCHANGED <<dark, closes, view>>
    BY <1>2, <1>5 DEF DarkInv
  <2>2. CASE dark[v] < closes
    BY <2>1, <2>2 DEF PaidFor
  <2>3. CASE NoStop /\ (Asks(v) \/ store[view[v]] > 0)
    <3>1. LW!Start(p)
      BY <1>2, <1>5, <2>3 DEF NoStop, LW!Stop, LW!Lose, LW!Fault, WatchTypes
    <3>2. \A d \in Device : store'[d] = store[d] \/ store'[d] = TTL
      BY <3>1 DEF LW!Start, LW!MarkWatched, WatchTypes
    <3>3. view[v] \in Device /\ view[v] # "user" /\ TTL > 0
      BY <1>5, <2>1
    <3>4. CASE store[view[v]] > 0
      BY <1>4, <2>1, <2>3, <3>2, <3>3, <3>4 DEF PaidFor
    <3>5. ASSUME NEW q \in posts, q.from = v, q.on = view[v], q.start
          PROVE  PaidFor(v)'
      <4>1. CASE q # p
        <5>1. Asks(v)'
          BY <1>2, <2>1, <3>5, <4>1 DEF Asks
        <5> QED BY <1>4, <2>3, <5>1 DEF PaidFor
      <4>2. CASE q = p
        <5>1. store'[view[v]] = TTL
          BY <3>1, <3>3, <3>5, <4>2 DEF LW!Start, LW!MarkWatched, WatchTypes
        <5> QED BY <1>4, <2>1, <2>3, <3>3, <5>1 DEF PaidFor
      <4> QED BY <4>1, <4>2
    <3> QED BY <2>3, <3>4, <3>5 DEF Asks
  <2> QED BY <2>1, <2>2, <2>3 DEF PaidFor
<1>6. DarkInv'
  BY <1>2, <1>4, <1>5 DEF DarkInv, LW!Closed
<1> QED BY <1>3, <1>6

LEMMA PeriodPasses ==
    ASSUME WatchInv, LW!Period
    PROVE  WatchInv'
<1> USE DEF WatchInv
<1>1. /\ \A d \in Device : burst[d] = (store[d] > 0)
      /\ store' = [d \in Device |-> IF store[d] > 0 THEN store[d] - 1 ELSE 0]
      /\ posts' = posts \cup LW!KeepAlive
      /\ dark' = [v \in Viewer |-> IF ~LW!IsDark(v) THEN 0
                                   ELSE IF dark[v] <= MaxOpens THEN dark[v] + 1 ELSE dark[v]]
      /\ UNCHANGED <<view, recent, burst, opens, losses, closes>>
  BY DEF LW!Period, LW!IsWatched
<1>2. quiet' = IF posts = {} /\ \A v \in Viewer : LW!Closed(v)
                 THEN (IF quiet <= TTL THEN quiet + 1 ELSE quiet) ELSE 0
  BY DEF LW!Period
<1>3. ~slow' => ~slow /\ posts = {}
  BY DEF LW!Period
<1>4. WatchTypes'
  BY <1>1, <1>2 DEF WatchTypes
<1>5. QuietInv'
  <2> SUFFICES ASSUME quiet' > 0
               PROVE  /\ posts' = {} /\ \A v \in Viewer : LW!Closed(v)'
                      /\ \A d \in Device : store'[d] = 0 \/ store'[d] + quiet' <= TTL
                      /\ quiet' > TTL => \A d \in Device : ~burst'[d]
    BY DEF QuietInv
  <2>1. /\ posts = {} /\ \A v \in Viewer : LW!Closed(v)
        /\ quiet' = IF quiet <= TTL THEN quiet + 1 ELSE quiet
    BY <1>2
  <2>2. posts' = {} /\ \A v \in Viewer : LW!Closed(v)'
    BY <1>1, <2>1 DEF LW!KeepAlive, LW!Closed
  <2>3. \A d \in Device : store[d] \in 0 .. TTL /\ (store[d] = 0 \/ store[d] + quiet <= TTL)
    BY DEF WatchTypes, QuietInv
  <2>4. \A d \in Device : store'[d] = 0 \/ store'[d] + quiet' <= TTL
    BY <1>1, <2>1, <2>3 DEF WatchTypes
  <2>5. ASSUME quiet' > TTL, NEW d \in Device
        PROVE  ~burst'[d]
    BY <1>1, <2>1, <2>3, <2>5 DEF WatchTypes
  <2> QED BY <2>2, <2>4, <2>5
<1>6. DarkInv'
  <2>1. NoStop' <=> NoStop
    BY <1>1 DEF NoStop, LW!KeepAlive, LW!Post
  <2>2. \A v \in Viewer : LW!Closed(v) => ~LW!IsDark(v)
    BY DEF LW!Closed, LW!IsDark
  <2>3. \A v \in Viewer : LW!Closed(v)' => dark'[v] = 0
    BY <1>1, <2>2 DEF LW!Closed
  <2>4. ASSUME losses' = 0, ~slow', NEW v \in Viewer
        PROVE  dark'[v] <= closes' /\ (view'[v] \in Device => PaidFor(v)')
    <3>1. posts = {} /\ NoStop' /\ dark[v] <= closes /\ (view[v] \in Device => PaidFor(v))
      BY <1>1, <1>3, <2>1, <2>4 DEF DarkInv, NoStop
    <3>2. LW!IsDark(v) => dark[v] < closes
      BY <3>1 DEF LW!IsDark, LW!IsWatched, PaidFor, Asks
    <3>3. dark'[v] <= closes'
      BY <1>1, <3>1, <3>2 DEF WatchTypes
    <3>4. view[v] \in Device => Asks(v)'
      <4> SUFFICES ASSUME view[v] \in Device PROVE Asks(v)'
        OBVIOUS
      <4> DEFINE q == [from |-> v, on |-> view[v], start |-> TRUE]
      <4>1. q \in LW!KeepAlive
        BY DEF LW!KeepAlive, LW!Closed, LW!Post
      <4>2. q.from = v /\ q.on = view[v] /\ q.start
        OBVIOUS
      <4> HIDE DEF q
      <4> QED BY <1>1, <4>1, <4>2 DEF Asks
    <3> QED BY <1>1, <3>1, <3>3, <3>4 DEF PaidFor
  <2> QED BY <1>1, <2>1, <2>3, <2>4 DEF DarkInv
<1> QED BY <1>4, <1>5, <1>6

LEMMA WatchStep ==
    ASSUME WatchInv, LW!Next
    PROVE  WatchInv'
<1> USE DEF WatchInv
<1>1. ASSUME NEW d \in Device, LW!Seen(d) \/ LW!Commands(d)
      PROVE  WatchInv'
  <2>1. /\ UNCHANGED <<view, posts, store, opens, losses, quiet, dark, closes, slow>>
        /\ burst' \in [Device -> BOOLEAN]
        /\ \A e \in Device : burst'[e] => burst[e] \/ store[e] > 0
    <3> DEFINE b == store[d] > 0
    <3>1. /\ UNCHANGED <<view, posts, store, opens, losses, quiet, dark, closes, slow>>
          /\ burst' = burst \/ burst' = [burst EXCEPT ![d] = b]
      BY <1>1 DEF LW!Seen, LW!Commands, LW!history, LW!IsWatched
    <3>2. b \in BOOLEAN /\ (b => store[d] > 0)
      OBVIOUS
    <3> HIDE DEF b
    <3> QED BY <3>1, <3>2 DEF WatchTypes
  <2>2. WatchTypes'
    BY <2>1 DEF WatchTypes
  <2>3. QuietInv'
    BY <2>1 DEF WatchTypes, QuietInv, LW!Closed
  <2>4. DarkInv'
    BY <2>1 DEF DarkInv, NoStop, PaidFor, Asks, LW!Closed
  <2> QED BY <2>2, <2>3, <2>4
<1>2. CASE LW!Restart
  <2>1. /\ store' = [d \in Device |-> 0] /\ losses' = losses + 1
        /\ UNCHANGED <<view, posts, burst, opens, quiet, dark, closes, slow>>
    BY <1>2 DEF LW!Restart, LW!Fault, LW!history
  <2>2. WatchTypes' /\ QuietInv'
    BY <2>1 DEF WatchTypes, QuietInv, LW!Closed
  <2>3. DarkInv'
    BY <2>1 DEF WatchTypes, DarkInv, NoStop, LW!Closed
  <2> QED BY <2>2, <2>3
<1> QED BY <1>1, <1>2, OpenOrClose, PostArrives, PeriodPasses DEF LW!Next

\* For any number of viewers and devices and any life of the flag
\* (live-watch-cache.service, streaming.controller, live-screenshot-view): bursts
\* end a flag's life after the last view and request, and a view is without its
\* flag for at most as many periods in a row as views were closed.
THEOREM LiveViewsEndAndComeBack == Spec => []LiveViewsEnd
<1>1. Init => WatchInv
  BY DEF Init, LW!Init, WatchInv, WatchTypes, QuietInv, DarkInv, NoStop, LW!Closed
<1>2. WatchInv /\ [Next]_vars => WatchInv'
  <2> SUFFICES ASSUME WatchInv, [Next]_vars PROVE WatchInv'
    OBVIOUS
  <2>1. LW!Next \/ UNCHANGED watch
    BY DEF Next, vars
  <2>2. CASE UNCHANGED watch
    <3>1. UNCHANGED <<view, posts, recent, store, burst, losses, quiet, dark, closes, slow>>
      BY <2>2 DEF watch
    <3> QED BY <3>1 DEF WatchInv, WatchTypes, QuietInv, DarkInv, NoStop, PaidFor, Asks,
                       LW!Closed
  <2> QED BY <2>1, <2>2, WatchStep
<1>3. WatchInv => LiveViewsEnd
  BY DEF WatchInv, WatchTypes, QuietInv, DarkInv, LiveViewsEnd, LW!BurstsEnd, LW!ViewComesBack
<1> QED BY <1>1, <1>2, <1>3, PTL DEF Spec
=============================================================================
