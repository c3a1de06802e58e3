---------------------------- MODULE TimeTracking ----------------------------
(***************************************************************************)
(* time-tracking.service: clocking in and out, time entries and weekly     *)
(* timesheets.  Time is counted in half days of UTC from a Monday on.  A   *)
(* timesheet is for the day its request names, and its total, the set of   *)
(* the entries it counts, for seven days from the instant that is named.   *)
(* Findings of the repositories are TypeORM's: a condition with the value  *)
(* null is left out of the query, so `clockOut: null' finds any row of the *)
(* user, and save writes every column that differs from the table.         *)
(***************************************************************************)
EXTENDS Requests, Integers

CONSTANTS
    Employee,
    StartTime, \* the instants at which people act, in half days
    Zone,      \* by how much the clocks of their browsers are ahead of UTC
    Named      \* the instants that other clients than the dashboard submit

VARIABLES
    attendance,  \* rows [id, user, at, closed]; closed is the request, or 0
    entries,     \* rows [id, user, at, source, attendance]
    sheets       \* rows [user, week, status, counted]; and, history, since which
                 \* instant and by which request the entries were counted, and
                 \* by which the row was written

vars == <<requests, attendance, entries, sheets>>
tables == <<attendance, entries, sheets>>

Init == RequestsInit /\ attendance = {} /\ entries = {} /\ sheets = {}

Day(t) == t \div 2
Midnight(day) == 2 * day

\* getWeekStart of the dashboard: back to the Monday of the browser's calendar,
\* at the same time of its day, and then the date that it is in UTC.
GetWeekStart(t, zone) == Midnight(Day(t - 2 * (Day(t + zone) % 7)))

\* What submit is called with: the route takes any string for a date or a time.
WeekStart == {GetWeekStart(t, z) : t \in StartTime, z \in Zone} \cup Named

InWeek(at, since) == since <= at /\ at <= since + 14     \* Between: both ends

-----------------------------------------------------------------------------
\* The handlers and their awaits.

ClockIn         == <<"noneOpen", "clockIn">>
ClockOut        == <<"open", "close", "entry">>
CreateManualEntry == <<"manual">>
DeleteEntry     == <<"manualEntry", "delete">>
SubmitTimesheet == <<"sheet", "count", "submit">>
ApproveTimesheet == <<"submitted", "approve">>
RejectTimesheet == <<"submitted", "reject">>

NoRow == [id |-> 0]

\* at is an instant or an entry; row and counted what has been read.
Request(op, u, at, todo) ==
    [id |-> begun + 1, op |-> op, user |-> u, at |-> at, row |-> NoRow,
     counted |-> {}, todo |-> todo]

\* The routes; a manager or an admin may decide on any timesheet.
Asked(u) ==
    /\ \/ \E t \in StartTime : Arrive(Request("clockIn", u, t, ClockIn))
       \/ Arrive(Request("clockOut", u, 0, ClockOut))
       \/ \E t \in StartTime : Arrive(Request("manual", u, t, CreateManualEntry))
       \/ \E e \in entries : e.user = u /\ Arrive(Request("delete", u, e.id, DeleteEntry))
       \/ \E t \in WeekStart : Arrive(Request("submit", u, t, SubmitTimesheet))
       \/ \E s \in sheets : s.user = u
            /\ \/ Arrive(Request("approve", u, Midnight(s.week), ApproveTimesheet))
               \/ Arrive(Request("reject", u, Midnight(s.week), RejectTimesheet))
    /\ UNCHANGED tables

-----------------------------------------------------------------------------
\* Clocking in and out.

Found(u) == {a \in attendance : a.user = u}

NoneOpen(r) ==
    /\ IsAt(r, "noneOpen")
    /\ IF Found(r.user) = {} THEN GoOn(r) ELSE Stop(r)
    /\ UNCHANGED tables

SaveAttendance(r) ==
    /\ IsAt(r, "clockIn") /\ GoOn(r)
    /\ attendance' = attendance \cup
         {[id |-> r.id, user |-> r.user, at |-> r.at, closed |-> 0]}
    /\ UNCHANGED <<entries, sheets>>

Open(r) ==
    /\ IsAt(r, "open")
    /\ \/ Found(r.user) = {} /\ Stop(r)
       \/ \E a \in Found(r.user) : GoOnAs(r, [r EXCEPT !.row = a])
    /\ UNCHANGED tables

Close(r) ==
    /\ IsAt(r, "close") /\ GoOn(r)
    /\ attendance' = {a \in attendance : a.id # r.row.id}
                     \cup {[r.row EXCEPT !.closed = r.id]}
    /\ UNCHANGED <<entries, sheets>>

AutomaticEntry(r) ==
    /\ IsAt(r, "entry") /\ GoOn(r)
    /\ entries' = entries \cup {[id |-> r.id, user |-> r.user, at |-> r.row.at,
                                 source |-> "automatic", attendance |-> r.row.id]}
    /\ UNCHANGED <<attendance, sheets>>

-----------------------------------------------------------------------------
\* Entries made by hand.

ManualEntry(r) ==
    /\ IsAt(r, "manual") /\ GoOn(r)
    /\ entries' = entries \cup {[id |-> r.id, user |-> r.user, at |-> r.at,
                                 source |-> "manual", attendance |-> 0]}
    /\ UNCHANGED <<attendance, sheets>>

MutFindManual(r) ==          \* the source is not looked at
    /\ IsAt(r, "manualEntry")
    /\ IF \E e \in entries : e.id = r.at THEN GoOn(r) ELSE Stop(r)
    /\ UNCHANGED tables

FindManual(r) ==
    /\ IsAt(r, "manualEntry")
    /\ IF \E e \in entries : e.id = r.at /\ e.source = "manual" THEN GoOn(r) ELSE Stop(r)
    /\ UNCHANGED tables

Delete(r) ==
    /\ IsAt(r, "delete") /\ GoOn(r)
    /\ entries' = {e \in entries : e.id # r.at}
    /\ UNCHANGED <<attendance, sheets>>

-----------------------------------------------------------------------------
\* Timesheets.

SheetOf(r) == {s \in sheets : s.user = r.user /\ s.week = Day(r.at)}

MutFindSheet(r) ==           \* an approved timesheet may be submitted again
    /\ IsAt(r, "sheet")
    /\ \/ SheetOf(r) = {} /\ GoOn(r)
       \/ \E s \in SheetOf(r) :
            IF s.status = "submitted" THEN Stop(r) ELSE GoOnAs(r, [r EXCEPT !.row = s])
    /\ UNCHANGED tables

FindSheet(r) ==
    /\ IsAt(r, "sheet")
    /\ \/ SheetOf(r) = {} /\ GoOn(r)
       \/ \E s \in SheetOf(r) :
            IF s.status \in {"approved", "submitted"} THEN Stop(r)
            ELSE GoOnAs(r, [r EXCEPT !.row = s])
    /\ UNCHANGED tables

Count(r) ==
    /\ IsAt(r, "count")
    /\ GoOnAs(r, [r EXCEPT !.counted =
         {e \in entries : e.user = r.user /\ InWeek(e.at, r.at)}])
    /\ UNCHANGED tables

\* The row of a timesheet is replaced by s; a second row for the week is
\* refused by the unique index.
SaveSheet(r, s) ==
    /\ sheets' = (sheets \ SheetOf(r)) \cup {[s EXCEPT !.by = r.id]}
    /\ GoOn(r)
    /\ UNCHANGED <<attendance, entries>>

Submit(r) ==
    /\ IsAt(r, "submit")
    /\ IF r.row = NoRow
         THEN IF SheetOf(r) # {} THEN Stop(r) /\ UNCHANGED tables
              ELSE SaveSheet(r, [user |-> r.user, week |-> Day(r.at), status |-> "submitted",
                                 counted |-> r.counted, since |-> r.at, counter |-> r.id,
                                 by |-> r.id])
         ELSE SaveSheet(r, [r.row EXCEPT !.status = "submitted", !.counted = r.counted,
                                         !.since = r.at, !.counter = r.id])

FindSubmitted(r) ==
    /\ IsAt(r, "submitted")
    /\ \E s \in SheetOf(r) :
         IF s.status = "submitted" THEN GoOnAs(r, [r EXCEPT !.row = s]) ELSE Stop(r)
    /\ UNCHANGED tables

Approve(r) == IsAt(r, "approve") /\ SaveSheet(r, [r.row EXCEPT !.status = "approved"])
Reject(r) == IsAt(r, "reject") /\ SaveSheet(r, [r.row EXCEPT !.status = "rejected"])

-----------------------------------------------------------------------------
Handle(r) ==
    \/ NoneOpen(r) \/ SaveAttendance(r) \/ Open(r) \/ Close(r) \/ AutomaticEntry(r)
    \/ ManualEntry(r) \/ FindManual(r) \/ Delete(r)
    \/ FindSheet(r) \/ Count(r) \/ Submit(r) \/ FindSubmitted(r) \/ Approve(r) \/ Reject(r)
    \/ Throw(r) /\ UNCHANGED tables

Next == (\E u \in Employee : Asked(u)) \/ (\E r \in flight : Handle(r))

Spec == Init /\ [][Next]_vars

-----------------------------------------------------------------------------
\* A user gets a second attendance row only by two requests to clock in that
\* were handled at the same time (clockIn looks first and inserts later, and
\* no index forbids it).
OneSessionUnlessRaced ==
    \A a, b \in attendance : a.user = b.user /\ a # b => Overlapped(a.id, b.id)

\* A session that was closed has its time entry, unless the request that
\* closed it is still under way or failed between its two saves: nobody can
\* delete the entry of a session.
ClosedSessionIsCounted ==
    \A a \in attendance :
        a.closed # 0 => \/ \E e \in entries : e.attendance = a.id
                        \/ a.closed \in failed \/ \E r \in flight : r.id = a.closed

\* An approved timesheet changes only by a request that had read it before
\* the approval was saved.
ApprovedIsFinal ==
    [][\A s \in sheets :
        s.status = "approved" /\ s \notin sheets'
            => \E r \in flight : Ends(r) /\ Overlapped(r.id, s.by)]_vars

\* A timesheet is complete: it counts every entry of the seven days since the
\* instant it was submitted for that a request had made before, unless that
\* request was still under way; and what it counts is still there, but for
\* entries made by hand, which can be deleted from under an approved timesheet.
CountIsComplete ==
    \A s \in sheets :
        /\ \A e \in entries :
             e.user = s.user /\ InWeek(e.at, s.since) /\ e.id < s.counter
                 => e \in s.counted \/ Overlapped(e.id, s.counter)
        /\ \A e \in s.counted : e \in entries \/ e.source = "manual"

\* 'Already clocked in' (time-tracking.service.ts:47): who is refused is.
RefusedIsClockedIn ==
    [][\A r \in flight :
        IsAt(r, "noneOpen") /\ Ends(r) /\ r.id \notin failed'
            => \E a \in attendance : a.user = r.user /\ a.closed = 0]_vars
=============================================================================
