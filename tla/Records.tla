------------------------------ MODULE Records -------------------------------
(***************************************************************************)
(* The tables that people edit through plain create, update and delete     *)
(* routes: projects, tasks, milestones and comments (projects.service),    *)
(* geofences (gps.service), alert rules (alerts.service), webhook          *)
(* endpoints, their deliveries and the Slack configuration                 *)
(* (integrations.service).  An update loads the row, assigns the columns   *)
(* that the request names and saves it; TypeORM's save writes every column *)
(* that differs from the table by then, and inserts the row if it is gone. *)
(* A row has two columns, whose values are the requests that set them.     *)
(***************************************************************************)
EXTENDS Requests

CONSTANT Kind    \* the tables of one behaviour, the parents of each included

Column == {"a", "b"}

\* The tables, each with those of them that its rows refer to and go with.
Organization     == {}
Project          == {}
Task             == {"project"}
Milestone        == {"project"}
TaskComment      == {"task"}
Geofence         == {}
AlertRule        == {}
WebhookEndpoint  == {}
WebhookDelivery  == {"endpoint"}
SlackIntegration == {}

\* Deliveries to Slack are rows without an endpoint: notices here.
Refers ==
    [organization |-> Organization, project |-> Project, task |-> Task,
     milestone |-> Milestone, comment |-> TaskComment, geofence |-> Geofence,
     rule |-> AlertRule, endpoint |-> WebhookEndpoint, delivery |-> WebhookDelivery,
     slack |-> SlackIntegration, notice |-> {}]

HasParent(k) == Refers[k] # {}
Parent(k) == CHOOSE p \in Refers[k] : TRUE

VARIABLES
    rows,   \* [kind, id, parent, a, b, by], by (history) the last that wrote it
    gone    \* history: rows that were deleted, [kind, id, parent, by]

vars == <<requests, rows, gone>>

Row(k, id, p, by) == [kind |-> k, id |-> id, parent |-> p, a |-> by, b |-> by, by |-> by]

\* An organization and its first project.
Init ==
    /\ RequestsInit /\ gone = {}
    /\ rows = {Row(k, 0, 0, 0) : k \in Kind \cap {"organization", "project"}}

-----------------------------------------------------------------------------
\* The handlers and their awaits.  findProjectInOrg is the await "parent".

CreateProject   == <<"insert">>
UpdateProject   == <<"load", "save">>
ArchiveProject  == <<"load", "save">>       \* sets the status
CreateTask      == <<"parent", "insert">>
UpdateTask      == <<"parent", "load", "save">>
MoveTask        == <<"parent", "load", "save">>
DeleteTask      == <<"parent", "load", "delete">>
CreateMilestone == <<"parent", "insert">>
UpdateMilestone == <<"parent", "load", "save">>
DeleteMilestone == <<"parent", "load", "delete">>
AddComment      == <<"parent", "insert">>   \* the task, its project being there
CreateGeofence  == <<"insert">>
UpdateGeofence  == <<"load", "save">>
DeleteGeofence  == <<"load", "delete">>
CreateRule      == <<"insert">>
UpdateRule      == <<"load", "save">>
DeleteRule      == <<"load", "delete">>
CreateEndpoint  == <<"insert">>
UpdateEndpoint  == <<"load", "save">>
DeleteEndpoint  == <<"load", "delete">>
TestEndpoint    == <<"parent", "post", "insert">>
SaveSlackConfig == <<"find", "upsert">>
DeleteSlackConfig == <<"load", "delete">>
TestSlack       == <<"config", "config", "post", "insert">>
UpdateOrganization == <<"update">>          \* an UPDATE of what is sent

Create == [project |-> CreateProject, task |-> CreateTask, milestone |-> CreateMilestone,
           comment |-> AddComment, geofence |-> CreateGeofence, rule |-> CreateRule,
           endpoint |-> CreateEndpoint, delivery |-> TestEndpoint, notice |-> TestSlack]
Update == [project |-> UpdateProject, task |-> UpdateTask, milestone |-> UpdateMilestone,
           geofence |-> UpdateGeofence, rule |-> UpdateRule, endpoint |-> UpdateEndpoint,
           organization |-> UpdateOrganization]
Remove == [task |-> DeleteTask, milestone |-> DeleteMilestone, geofence |-> DeleteGeofence,
           rule |-> DeleteRule, endpoint |-> DeleteEndpoint, slack |-> DeleteSlackConfig]

NoRow == [id |-> 0 - 1]

\* A request about row `on' of table k, or for a new one under parent p.
Request(op, k, on, p, cols, todo) ==
    [id |-> begun + 1, op |-> op, kind |-> k, on |-> on, parent |-> p, cols |-> cols,
     row |-> NoRow, todo |-> todo]

Ids(k) == {x.id : x \in {y \in rows : y.kind = k}}

\* Clients name rows that they have seen, which may be gone by now.
Known(k) == {x \in rows \cup gone : x.kind = k}

\* The slack row's id is 0: there is one of an organization at most.
Asked(k) ==
    /\ \/ /\ k \in DOMAIN Create
          /\ \E p \in IF HasParent(k) THEN {x.id : x \in Known(Parent(k))} ELSE {0} :
               Arrive(Request("create", k, begun + 1, p, Column, Create[k]))
       \/ /\ k \in DOMAIN Update
          /\ \E x \in Known(k), c \in Column :
               Arrive(Request("update", k, x.id, x.parent, {c}, Update[k]))
       \/ /\ k = "task"
          /\ \E x \in Known(k) :
               Arrive(Request("move", k, x.id, x.parent, Column, MoveTask))
       \/ /\ k = "project"
          /\ \E x \in Known(k) :
               Arrive(Request("archive", k, x.id, x.parent, {"a"}, ArchiveProject))
       \/ /\ k \in DOMAIN Remove
          /\ \E x \in Known(k) :
               Arrive(Request("delete", k, x.id, x.parent, {}, Remove[k]))
       \/ k = "slack" /\ Arrive(Request("slack", k, 0, 0, Column, SaveSlackConfig))
    /\ UNCHANGED <<rows, gone>>

-----------------------------------------------------------------------------
\* The awaits.

OnRow(r) == {x \in rows : x.kind = r.kind /\ x.id = r.on}
ParentExists(r) == HasParent(r.kind) => r.parent \in Ids(Parent(r.kind))

FindParent(r) ==
    /\ IsAt(r, "parent")
    /\ IF ParentExists(r) THEN GoOn(r) ELSE Stop(r)
    /\ UNCHANGED <<rows, gone>>

Load(r) ==
    /\ IsAt(r, "load")
    /\ \/ OnRow(r) = {} /\ Stop(r)
       \/ \E x \in OnRow(r) : GoOnAs(r, [r EXCEPT !.row = x])
    /\ UNCHANGED <<rows, gone>>

Find(r) ==
    /\ IsAt(r, "find")
    /\ \/ OnRow(r) = {} /\ GoOn(r)
       \/ \E x \in OnRow(r) : GoOnAs(r, [r EXCEPT !.row = x])
    /\ UNCHANGED <<rows, gone>>

\* testSlack and sendSlackNotification look for the configuration.
FindConfig(r) ==
    /\ IsAt(r, "config")
    /\ IF Ids("slack") = {} THEN Stop(r) ELSE GoOn(r)
    /\ UNCHANGED <<rows, gone>>

\* _postToEndpoint: whatever the answer, a delivery is recorded after it.
Post(r) == IsAt(r, "post") /\ GoOn(r) /\ UNCHANGED <<rows, gone>>

\* A new row; without its parent the foreign key refuses it.
Insert(r) ==
    /\ IsAt(r, "insert")
    /\ IF ParentExists(r)
         THEN GoOn(r) /\ rows' = rows \cup {Row(r.kind, r.on, r.parent, r.id)}
         ELSE Stop(r) /\ UNCHANGED rows
    /\ UNCHANGED gone

\* The row as loaded, with the columns of the request.
Assigned(r) ==
    [r.row EXCEPT !.a = IF "a" \in r.cols THEN r.id ELSE @,
                  !.b = IF "b" \in r.cols THEN r.id ELSE @]

Write(r, x) ==
    /\ GoOn(r) /\ rows' = (rows \ OnRow(r)) \cup {[x EXCEPT !.by = r.id]} /\ UNCHANGED gone

MutSave(r) ==                \* columns that were not sent are set too
    /\ IsAt(r, "save")
    /\ Write(r, [r.row EXCEPT !.a = r.id, !.b = r.id])

Save(r) == IsAt(r, "save") /\ Write(r, Assigned(r))

UpdateColumns(r) ==
    IsAt(r, "update") /\ \E x \in OnRow(r) : Write(r, Assigned([r EXCEPT !.row = x]))

\* saveSlackConfig; the index refuses a second row of an organization.
Upsert(r) ==
    /\ IsAt(r, "upsert")
    /\ IF r.row = NoRow
         THEN IF OnRow(r) = {} THEN Write(r, Row(r.kind, r.on, 0, r.id))
              ELSE Stop(r) /\ UNCHANGED <<rows, gone>>
         ELSE Write(r, Assigned(r))

\* DELETE, and ON DELETE CASCADE.
Delete(r) ==
    /\ IsAt(r, "delete") /\ GoOn(r)
    /\ rows' = {x \in rows \ OnRow(r) :
                  ~(HasParent(x.kind) /\ Parent(x.kind) = r.kind /\ x.parent = r.on)}
    /\ gone' = gone \cup
                 {[kind |-> r.kind, id |-> r.on, parent |-> r.parent, by |-> r.id]}

Handle(r) ==
    \/ FindParent(r) \/ Load(r) \/ Find(r) \/ FindConfig(r) \/ Post(r) \/ Insert(r)
    \/ Save(r) \/ UpdateColumns(r) \/ Upsert(r) \/ Delete(r)
    \/ Throw(r) /\ UNCHANGED <<rows, gone>>

Next == (\E k \in Kind : Asked(k)) \/ (\E r \in flight : Handle(r))

Spec == Init /\ [][Next]_vars

-----------------------------------------------------------------------------
\* A save changes a column that its request did not name only back over the
\* write of a request that was handled at the same time.
NoLostUpdate ==
    [][\A r \in flight, x \in rows, y \in rows' :
        y.kind = x.kind /\ y.id = x.id /\ x # y /\ Ends(r) /\ x \in OnRow(r)
        /\ ((x.a # y.a /\ "a" \notin r.cols) \/ (x.b # y.b /\ "b" \notin r.cols))
            => Overlapped(r.id, x.by)]_vars

\* A deleted row comes back only by the save of a request that had loaded it
\* before and was handled at the same time as the deletion.  (The Slack row
\* has one id for all its lives.)
DeletedStaysDeleted ==
    [][\A r \in flight, g \in gone :
        Ends(r) /\ r.kind = g.kind /\ r.on = g.id /\ g.kind # "slack"
        /\ OnRow(r) = {} /\ (\E y \in rows' : y.kind = r.kind /\ y.id = r.on)
            => \E h \in gone : h.kind = g.kind /\ h.id = g.id /\ Overlapped(r.id, h.by)]_vars

\* A comment has its task and a delivery its endpoint: the row that an insert
\* refers to may be deleted after the handler has seen it.
NoOrphans == \A x \in rows : HasParent(x.kind) => x.parent \in Ids(Parent(x.kind))
=============================================================================
