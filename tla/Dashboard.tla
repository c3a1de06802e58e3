----------------------------- MODULE Dashboard ------------------------------
(***************************************************************************)
(* The dashboard in one browser: what its pages show of the server's       *)
(* tables, through the hooks of apps/web/hooks and the cache of TanStack   *)
(* Query behind them.  A query hook has a key and reads tables; a mutation *)
(* hook writes tables and invalidates keys once the server has answered; a *)
(* view shows queries and offers mutations.  One query is watched in a     *)
(* behaviour: the cache keeps the others apart from it, and of the         *)
(* mutations only those that write what it reads, or invalidate it, are    *)
(* made.  Data are the set of writes that had happened when the server     *)
(* read the tables.                                                        *)
(*                                                                         *)
(* useComments and useAddComment are left out: the API has no such route   *)
(* as they call, every call is refused.  No view uses useCreateEntry,      *)
(* useUpdateProject, useTasks, useUpdateTask, useDeleteTask, useMilestones *)
(* useProductivity or useAppUsage.  useCheckout and the billing portal     *)
(* leave the site.                                                         *)
(***************************************************************************)
EXTENDS Naturals, FiniteSets, Sequences, SequencesExt

CONSTANTS
    MaxWrites,  \* bound: writes sent, by this browser or by others
    MaxHops,    \* bound: navigations
    MaxFaults   \* bound: requests that are lost or fail

-----------------------------------------------------------------------------
\* The query hooks.

Query(key, reads)       == [key |-> key, reads |-> reads, kind |-> "plain"]
Polled(key, reads)      == [key |-> key, reads |-> reads, kind |-> "polled"]
AlwaysStale(key, reads) == [key |-> key, reads |-> reads, kind |-> "stale"]
\* Polled, but its function looks for the result beside the `data' of the answer
\* and returns undefined, which TanStack Query takes for an error.
Undefined(key, reads)   == [key |-> key, reads |-> reads, kind |-> "undefined"]

MutUseClockStatus == Query(<<"clock-status">>, {"attendance"})       \* not polled
UseClockStatus    == Polled(<<"clock-status">>, {"attendance"})
UseTimeEntries    == Query(<<"time-entries", "params">>, {"entries"})
UseTimesheets     == Query(<<"timesheets">>, {"sheets"})
UseTeamTimesheets == Query(<<"team-timesheets", "params">>, {"sheets"})
UsePayrollReport  == Query(<<"payroll-report", "params">>, {"approved"})
UseProjects       == Query(<<"projects">>, {"projects"})
UseProject        == Query(<<"projects", "id">>, {"projects", "tasks", "milestones"})
UseAlertRules     == Query(<<"alert-rules">>, {"rules"})
UseAlertEvents    == Polled(<<"alert-events", "user">>, {"events", "eventRules"})
UseUnreadCount    == Undefined(<<"alert-unread-count">>, {"events"})
UseGpsLocations   == Query(<<"gps-locations", "params">>, {"locations"})
UseGpsLive        == Polled(<<"gps-live">>, {"locations"})
UseGeofences      == Query(<<"geofences">>, {"geofences"})
UseWebhooks       == Query(<<"integrations", "webhooks">>, {"endpoints"})
UseDeliveries     == Query(<<"integrations", "webhooks", "id", "deliveries">>, {"deliveries"})
UseSlackConfig    == Query(<<"integrations", "slack">>, {"slack"})
UseOrgStats       == Query(<<"admin-stats">>, {"users", "projects", "tasks", "subscription"})
UseAdminUsers     == Query(<<"admin-users">>, {"users"})
UseAuditLog       == Query(<<"audit-log", "params">>, {"audit"})
UseOrganization   == Query(<<"organization">>, {"organization"})
UseUsers          == Query(<<"users">>, {"users"})
UseSubscription   == Query(<<"subscription">>, {"subscription"})
UseInvoices       == Query(<<"billing-invoices">>, {"invoices"})
UseAgentDevices   == Query(<<"agent-devices">>, {"devices"})
UsePersonalAgentToken == AlwaysStale(<<"personal-agent-token">>, {"agentToken"})
UseLiveStatus     == Polled(<<"monitoring-live">>, {"devices", "activity"})
UseActivity       == Query(<<"monitoring-activity", "params">>, {"activity"})
UseScreenshots    == Query(<<"monitoring-screenshots", "params">>, {"screenshots"})
UseProductivityReport  == Query(<<"analytics-productivity-report", "params">>, {"activity"})
UseProductivitySummary == Query(<<"analytics-productivity-summary", "params">>, {"activity"})
UseCategoryBreakdown   == Query(<<"analytics-category-breakdown", "params">>, {"activity"})
UseHeatmap        == Query(<<"analytics-heatmap", "params">>, {"activity"})

-----------------------------------------------------------------------------
\* The mutation hooks; onSuccess invalidates the keys with these prefixes.

Mutation(name, writes, invalidates) ==
    [name |-> name, writes |-> writes, invalidates |-> invalidates]

MutUseClockOut == Mutation("useClockOut", {"attendance", "entries"}, {<<"clock-status">>})
UseClockIn  == Mutation("useClockIn", {"attendance"}, {<<"clock-status">>, <<"attendance">>})
UseClockOut == Mutation("useClockOut", {"attendance", "entries"},
                        {<<"clock-status">>, <<"attendance">>, <<"time-entries">>})
UseDeleteEntry       == Mutation("useDeleteEntry", {"entries"}, {<<"time-entries">>})
UseSubmitTimesheet   == Mutation("useSubmitTimesheet", {"sheets"}, {<<"timesheets">>})
Reviewed(name)       == Mutation(name, {"sheets", "approved", "audit"},
                                 {<<"timesheets">>, <<"team-timesheets">>})
UseApproveTimesheet  == Reviewed("useApproveTimesheet")
UseRejectTimesheet   == Reviewed("useRejectTimesheet")
UseBulkApproveTimesheets == Reviewed("useBulkApproveTimesheets")
UseCreateProject     == Mutation("useCreateProject", {"projects"}, {<<"projects">>})
UseDeleteProject     == Mutation("useDeleteProject", {"projects"}, {<<"projects">>})
OfProject(name, table) == Mutation(name, {table}, {<<"projects", "id">>})
UseCreateTask        == OfProject("useCreateTask", "tasks")
UseMoveTask          == OfProject("useMoveTask", "tasks")
UseCreateMilestone   == OfProject("useCreateMilestone", "milestones")
UseUpdateMilestone   == OfProject("useUpdateMilestone", "milestones")
UseDeleteMilestone   == OfProject("useDeleteMilestone", "milestones")
UseCreateAlertRule   == Mutation("useCreateAlertRule", {"rules"}, {<<"alert-rules">>})
UseUpdateAlertRule   == Mutation("useUpdateAlertRule", {"rules"}, {<<"alert-rules">>})
UseDeleteAlertRule   == Mutation("useDeleteAlertRule", {"rules", "eventRules"}, {<<"alert-rules">>})
UseMarkSeen          == Mutation("useMarkSeen", {"events"},
                                 {<<"alert-events">>, <<"alert-unread-count">>})
UseCreateGeofence    == Mutation("useCreateGeofence", {"geofences"}, {<<"geofences">>})
UseUpdateGeofence    == Mutation("useUpdateGeofence", {"geofences"}, {<<"geofences">>})
UseDeleteGeofence    == Mutation("useDeleteGeofence", {"geofences"}, {<<"geofences">>})
UseCreateWebhook     == Mutation("useCreateWebhook", {"endpoints"}, {<<"integrations", "webhooks">>})
UseUpdateWebhook     == Mutation("useUpdateWebhook", {"endpoints"}, {<<"integrations", "webhooks">>})
UseDeleteWebhook     == Mutation("useDeleteWebhook", {"endpoints", "deliveries"},
                                 {<<"integrations", "webhooks">>})
UseTestWebhook       == Mutation("useTestWebhook", {"deliveries"}, {})
UseSaveSlack         == Mutation("useSaveSlack", {"slack"}, {<<"integrations", "slack">>})
UseDeleteSlack       == Mutation("useDeleteSlack", {"slack"}, {<<"integrations", "slack">>})
OfUsers(name, key)   == Mutation(name, {"users", "audit"}, {key})
UseChangeUserRole    == OfUsers("useChangeUserRole", <<"admin-users">>)
UseDeactivateUser    == OfUsers("useDeactivateUser", <<"admin-users">>)
UseReactivateUser    == OfUsers("useReactivateUser", <<"admin-users">>)
UseInviteUser        == OfUsers("useInviteUser", <<"users">>)
UseUpdateOrganization == Mutation("useUpdateOrganization", {"organization"}, {<<"organization">>})
\* Its onSuccess puts the answer into the cache instead.
UseRotatePersonalAgentToken == Mutation("useRotatePersonalAgentToken", {"agentToken"}, {})
-----------------------------------------------------------------------------
\* The views: the queries they show and the mutations they offer, by buttons
\* that are disabled while the mutation is pending and by ones that are not.

View(shows, guarded, free) == [shows |-> shows, guarded |-> guarded, free |-> free]

NotificationBell == View({UseAlertEvents, UseUnreadCount}, {}, {UseMarkSeen})

\* Every page has the header, and the header the bell.
Page(views) ==
    LET all == views \cup {NotificationBell}
    IN  View(UNION {v.shows : v \in all}, UNION {v.guarded : v \in all},
             UNION {v.free : v \in all})

ClockWidget      == View({UseClockStatus}, {UseClockIn, UseClockOut}, {})
EntriesTable     == View({UseTimeEntries}, {UseDeleteEntry}, {})
TimesheetsView   == View({UseTimesheets},
                         {UseSubmitTimesheet, UseApproveTimesheet, UseRejectTimesheet}, {})
ReviewTable      == View({UseTeamTimesheets}, {UseApproveTimesheet, UseRejectTimesheet,
                                               UseBulkApproveTimesheets}, {})
TeamPage         == Page({ReviewTable})
ApprovalsPage    == Page({ReviewTable})
ReportsPage      == Page({View({UsePayrollReport}, {}, {})})
TimeTrackingPage == Page({ClockWidget, EntriesTable, TimesheetsView})
ProjectCard      == View({}, {}, {UseDeleteProject})
CreateProjectDialog == View({}, {UseCreateProject}, {})
ProjectList      == View({UseProjects}, {}, {})
CreateTaskDialog == View({}, {UseCreateTask}, {})
KanbanBoard      == View({}, {}, {UseMoveTask})
MilestoneItem    == View({}, {UseUpdateMilestone}, {UseDeleteMilestone})
CreateMilestoneDialog == View({}, {UseCreateMilestone}, {})
ProjectsPage     == Page({ProjectList, ProjectCard, CreateProjectDialog})
ProjectPage      == Page({View({UseProject}, {}, {}), KanbanBoard, CreateTaskDialog,
                          MilestoneItem, CreateMilestoneDialog})
OverviewPage     == Page({View({UseLiveStatus, UseTimesheets, UseProjects}, {}, {})})
LiveStatusBoard  == View({UseLiveStatus}, {}, {})
ActivityTimeline == View({UseActivity}, {}, {})
ScreenshotGallery == View({UseScreenshots}, {}, {})
Devices          == View({UseAgentDevices}, {}, {})
MonitoringPage   == Page({Devices, LiveStatusBoard, ActivityTimeline, ScreenshotGallery})
EmployeePage     == Page({Devices, ActivityTimeline, ScreenshotGallery})
ScreenshotsPage  == Page({Devices, ScreenshotGallery})
LivePage         == View({UseLiveStatus}, {}, {})        \* without the header
LiveLocations    == View({UseGpsLive}, {}, {})
LocationHistory  == View({UseGpsLocations}, {}, {})
GeofenceManager  == View({UseGeofences},
                         {UseCreateGeofence, UseUpdateGeofence, UseDeleteGeofence}, {})
GpsPage          == Page({LiveLocations, LocationHistory, GeofenceManager})
AddRuleModal     == View({}, {UseCreateAlertRule}, {})
RuleRow          == View({}, {UseUpdateAlertRule, UseDeleteAlertRule}, {})
RulesTab         == View({UseAlertRules}, {}, {})
EventsTab        == View({UseAlertEvents}, {UseMarkSeen}, {})
AlertsPage       == Page({RulesTab, RuleRow, AddRuleModal, EventsTab})
DeliveryLog      == View({UseDeliveries}, {}, {})
WebhookList      == View({UseWebhooks}, {UseCreateWebhook, UseUpdateWebhook,
                                         UseDeleteWebhook, UseTestWebhook}, {})
SlackSection     == View({UseSlackConfig}, {UseSaveSlack, UseDeleteSlack}, {})
IntegrationsPage == Page({WebhookList, DeliveryLog, SlackSection})
StatsTab         == View({UseOrgStats}, {}, {})
UsersTab         == View({UseAdminUsers}, {},
                         {UseChangeUserRole, UseDeactivateUser, UseReactivateUser})
AuditTab         == View({UseAuditLog}, {}, {})
AdminPage        == Page({StatsTab, UsersTab, AuditTab})
UsersPage        == Page({View({UseUsers}, {UseInviteUser}, {})})
OrganizationPage == Page({View({UseOrganization}, {UseUpdateOrganization}, {})})
BillingPage      == Page({View({UseSubscription, UseInvoices, UseUsers}, {}, {})})
AgentPage        == Page({View({UseAgentDevices, UsePersonalAgentToken},
                               {UseRotatePersonalAgentToken}, {})})
ProductivityStackedChart == View({UseProductivityReport}, {}, {})
CategoryDonut    == View({UseCategoryBreakdown}, {}, {})
ProductivityHeatmap == View({UseHeatmap}, {}, {})
TeamProductivityTable == View({UseProductivitySummary}, {}, {})
AnalyticsPage    == Page({ProductivityStackedChart, CategoryDonut, ProductivityHeatmap,
                          TeamProductivityTable})

Pages ==
    [team |-> TeamPage, approvals |-> ApprovalsPage, reports |-> ReportsPage,
     timeTracking |-> TimeTrackingPage, projects |-> ProjectsPage, project |-> ProjectPage,
     overview |-> OverviewPage, monitoring |-> MonitoringPage, employee |-> EmployeePage,
     screenshots |-> ScreenshotsPage, live |-> LivePage, gps |-> GpsPage,
     alerts |-> AlertsPage, integrations |-> IntegrationsPage, admin |-> AdminPage,
     users |-> UsersPage, organization |-> OrganizationPage, billing |-> BillingPage,
     agent |-> AgentPage, analytics |-> AnalyticsPage]

Queries == UNION {Pages[p].shows : p \in DOMAIN Pages}

Refreshes(hook, q) == \E k \in hook.invalidates : IsPrefix(k, q.key)
Affects(hook, q) == hook.writes \cap q.reads # {} \/ Refreshes(hook, q)

\* A page as the query q sees it; of pages that are alike one is enough.
Sees(q, p) ==
    [shown |-> q \in Pages[p].shows,
     guarded |-> {h \in Pages[p].guarded : Affects(h, q)},
     free |-> {h \in Pages[p].free : Affects(h, q)}]
SeenPages ==
    [q \in Queries |->
        LET looks == {Sees(q, p) : p \in DOMAIN Pages}
        IN  {CHOOSE p \in DOMAIN Pages : Sees(q, p) = l : l \in looks}]
OffersOn ==
    [q \in Queries |-> [p \in SeenPages[q] |-> Sees(q, p).guarded \cup Sees(q, p).free]]

-----------------------------------------------------------------------------
\* The cache.

None  == {0}             \* no data yet; writes are numbered from 1
Idle  == [is |-> "idle"]
Asked == [is |-> "asked"]
Read(data) == [is |-> "read", data |-> data]

VARIABLES
    watched,  \* the query observed
    page,     \* the page on the screen
    data,     \* its data in the cache, the writes that they show, or None
    invalid,  \* invalidated since
    old,      \* older than staleTime
    fetch,    \* the request for it: Idle, Asked or answered by the server
    sent,     \* mutations under way: [id, hook, done, saw, here], done once applied,
              \* saw what a rotation answers with, here while the component that
              \* started it is on the screen
    written,  \* the writes that the server has applied
    own,      \* history: those of this browser that are over, [id, hook]
    missed,   \* history: writes whose end did not make the cache ask again
    count, hops, faults    \* bounded counters

vars == <<watched, page, data, invalid, old, fetch, sent, written, own, missed,
          count, hops, faults>>

Mounted == watched \in Pages[page].shows

Init ==
    /\ watched \in Queries
    /\ page \in {p \in SeenPages[watched] : watched \in Pages[p].shows}
    /\ data = None /\ invalid = FALSE /\ old = FALSE /\ fetch = Asked
    /\ sent = {} /\ written = {} /\ own = {} /\ missed = {}
    /\ count = 0 /\ hops = 0 /\ faults = 0

cached   == <<data, invalid, old>>
writes   == <<sent, written, own, missed>>
counters == <<count, hops, faults>>

\* refetchOnMount, refetchOnWindowFocus: only for what is not fresh.
NotFresh == data = None \/ invalid \/ old

\* A component that mounts joins a request that is under way.
Navigate(p) ==
    /\ hops < MaxHops /\ p # page
    /\ page' = p /\ hops' = hops + 1
    /\ sent' = {[s EXCEPT !.here = FALSE] : s \in sent}
    /\ fetch' = IF watched \in Pages[p].shows /\ NotFresh /\ fetch = Idle THEN Asked ELSE fetch
    /\ UNCHANGED <<cached, watched, written, own, missed, count, faults>>

Focus ==
    /\ Mounted /\ NotFresh /\ fetch = Idle
    /\ fetch' = Asked
    /\ UNCHANGED <<cached, watched, page, writes, counters>>

Poll ==
    /\ Mounted /\ watched.kind \in {"polled", "undefined"} /\ fetch = Idle
    /\ fetch' = Asked
    /\ UNCHANGED <<cached, watched, page, writes, counters>>

\* The Run Report button: refetch() cancels a request that is under way.
RunReport ==
    /\ page = "reports" /\ watched = UsePayrollReport /\ data # None
    /\ fetch' = Asked
    /\ UNCHANGED <<cached, watched, page, writes, counters>>

\* staleTime.
Age ==
    /\ data # None /\ ~old
    /\ old' = TRUE
    /\ UNCHANGED <<watched, page, data, invalid, fetch, writes, counters>>

ServerReads ==
    /\ fetch = Asked
    /\ fetch' = Read(written)
    /\ UNCHANGED <<cached, watched, page, writes, counters>>

Put(d) == data' = d /\ invalid' = FALSE /\ old' = (watched.kind = "stale")

Answer ==
    /\ fetch.is = "read" /\ fetch' = Idle
    /\ \/ watched.kind # "undefined" /\ Put(fetch.data)
       \/ watched.kind = "undefined" /\ UNCHANGED cached
    /\ UNCHANGED <<watched, page, writes, counters>>

\* retry: 1, as long as the query is mounted; then the error is shown.
FetchFails ==
    /\ fetch # Idle /\ faults < MaxFaults
    /\ faults' = faults + 1
    /\ fetch' \in {Idle} \cup (IF Mounted THEN {Asked} ELSE {})
    /\ UNCHANGED <<cached, watched, page, writes, count, hops>>

-----------------------------------------------------------------------------
\* The mutations.

\* A guarded button is disabled while its mutation is pending, as long as the
\* component that started it is on the screen.
Mutate(h) ==
    /\ count < MaxWrites
    /\ h \in Sees(watched, page).free \/ ~\E s \in sent : s.hook = h /\ s.here
    /\ count' = count + 1
    /\ sent' = sent \cup {[id |-> count', hook |-> h, done |-> FALSE, saw |-> {}, here |-> TRUE]}
    /\ UNCHANGED <<cached, watched, page, fetch, written, own, missed, hops, faults>>

Apply(s) ==
    /\ ~s.done
    /\ written' = written \cup {s.id}
    /\ sent' = (sent \ {s}) \cup {[s EXCEPT !.done = TRUE,
                    !.saw = IF s.hook = UseRotatePersonalAgentToken THEN written' ELSE {}]}
    /\ UNCHANGED <<cached, watched, page, fetch, own, missed, counters>>

\* The server refuses, or cannot be reached: onError shows a toast.
Refuse(s) ==
    /\ ~s.done
    /\ sent' = sent \ {s}
    /\ UNCHANGED <<cached, watched, page, fetch, written, own, missed, counters>>

End(s) == sent' = sent \ {s} /\ own' = own \cup {[id |-> s.id, hook |-> s.hook]}

\* onError although something was written: the answer is lost, or one of the
\* requests of a bulk approval failed and the others did not.
EndsInError(s) ==
    /\ s.done /\ faults < MaxFaults
    /\ End(s) /\ faults' = faults + 1 /\ missed' = missed \cup {s.id}
    /\ UNCHANGED <<cached, watched, page, fetch, written, count, hops>>

\* onSuccess, also of a component that is no longer on the screen.
\* invalidateQueries marks the query; a mounted one is asked for again, for
\* which a request under way is given up unless it is the first.
Settle(s) ==
    /\ s.done /\ s.hook # UseRotatePersonalAgentToken
    /\ End(s)
    /\ invalid' = IF Refreshes(s.hook, watched) THEN data # None ELSE invalid
    /\ LET again == Refreshes(s.hook, watched) /\ Mounted /\ (data # None \/ fetch = Idle)
       IN  /\ fetch' = IF again THEN Asked ELSE fetch
           /\ missed' = IF fetch # Idle /\ ~again THEN missed \cup {s.id} ELSE missed
    /\ UNCHANGED <<watched, page, data, old, written, counters>>

\* setQueryData does not give up a request that is under way.
SettleRotation(s) ==
    /\ s.done /\ s.hook = UseRotatePersonalAgentToken
    /\ End(s)
    /\ Put(s.saw)
    /\ missed' = missed \cup (IF fetch # Idle THEN {s.id} ELSE {})
                        \cup {w.id : w \in {v \in own : v.id \notin s.saw}}
    /\ UNCHANGED <<watched, page, fetch, written, counters>>

\* Other people, agents and providers write what the query reads.
OthersWrite ==
    /\ count < MaxWrites
    /\ count' = count + 1 /\ written' = written \cup {count + 1}
    /\ UNCHANGED <<cached, watched, page, fetch, sent, own, missed, hops, faults>>

Next ==
    \/ \E p \in SeenPages[watched] : Navigate(p)
    \/ Focus \/ Poll \/ RunReport \/ Age \/ ServerReads \/ Answer \/ FetchFails
    \/ \E h \in OffersOn[watched][page] : Mutate(h)
    \/ \E s \in sent : \/ Apply(s) \/ Refuse(s) \/ EndsInError(s)
                        \/ Settle(s) \/ SettleRotation(s)
    \/ OthersWrite

Spec == Init /\ [][Next]_vars

FairSpec == Spec /\ WF_vars(ServerReads) /\ WF_vars(Answer) /\ WF_vars(Poll)

-----------------------------------------------------------------------------
\* Writes and queries that show them, which the hooks do not connect.
Review == {UseApproveTimesheet, UseRejectTimesheet, UseBulkApproveTimesheets}
AdminOfUsers == {UseChangeUserRole, UseDeactivateUser, UseReactivateUser}

Unconnected ==
    (Review \X {UsePayrollReport, UseAuditLog})
    \cup {<<UseSubmitTimesheet, UseTeamTimesheets>>, <<UseTestWebhook, UseDeliveries>>,
          <<UseDeleteAlertRule, UseAlertEvents>>}
    \cup (AdminOfUsers \X {UseUsers, UseOrgStats, UseAuditLog})
    \cup ({UseInviteUser} \X {UseAdminUsers, UseOrgStats, UseAuditLog})
    \cup ({UseCreateProject, UseDeleteProject, UseCreateTask, UseMoveTask} \X {UseOrgStats})

\* What the user did and saw confirmed is on the screen once the page is at
\* rest.  The exceptions: the pairs above, which the hooks do not connect; a
\* write whose answer was an error although something was written; and a
\* write that was confirmed while the query was being loaded for the first
\* time or in the background, or a token while it was reloaded (the request
\* under way may have been read before the write, and its answer counts as
\* fresh), or whose confirmation a token's earlier rotation overtook.  It says
\* nothing of the badge, whose query never has data (UseUnreadCount).
ShowsOwnWrites ==
    Mounted /\ fetch = Idle /\ data # None /\ ~invalid =>
        \A w \in own : w.hook.writes \cap watched.reads # {} =>
            \/ w.id \in data \/ w.id \in missed \/ <<w.hook, watched>> \in Unconnected

\* The pages that poll catch up with every write, of whomever, also after
\* failed requests, for as long as they are on the screen; all but the badge.
PollCatchesUp ==
    \A w \in 1 .. MaxWrites :
        (/\ w \in written /\ Mounted
         /\ watched \in {UseClockStatus, UseGpsLive, UseAlertEvents, UseLiveStatus})
            ~> (~Mounted \/ (data # None /\ w \in data))
=============================================================================
