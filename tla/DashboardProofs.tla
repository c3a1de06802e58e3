---------------------------- MODULE DashboardProofs ----------------------------
(***************************************************************************)
(* A theorem about Dashboard, for any number of writes, navigations and    *)
(* faults: what the user did and saw confirmed is on the screen.  It has   *)
(* two parts.  The table: a mutation that writes what a query reads        *)
(* invalidates the query, but for the pairs in Unconnected.  And the       *)
(* cache: what has been invalidated is asked for again, and no answer that *)
(* was read before the write takes the place of one that was read after.   *)
(***************************************************************************)
EXTENDS Dashboard, SequenceTheorems, TLAPS

-----------------------------------------------------------------------------
(* The table of hooks and pages *)

AllQueries ==
    {UseClockStatus, UseTimeEntries, UseTimesheets, UseTeamTimesheets,
     UsePayrollReport, UseProjects, UseProject, UseAlertRules, UseAlertEvents, UseUnreadCount,
     UseGpsLocations, UseGpsLive, UseGeofences, UseWebhooks, UseDeliveries, UseSlackConfig,
     UseOrgStats, UseAdminUsers, UseAuditLog, UseOrganization, UseUsers, UseSubscription,
     UseInvoices, UseAgentDevices, UsePersonalAgentToken, UseLiveStatus, UseActivity,
     UseScreenshots, UseProductivityReport, UseProductivitySummary, UseCategoryBreakdown,
     UseHeatmap}

AllHooks ==
    {UseClockIn, UseClockOut, UseDeleteEntry, UseSubmitTimesheet,
     UseApproveTimesheet, UseRejectTimesheet, UseBulkApproveTimesheets, UseCreateProject,
     UseDeleteProject, UseCreateTask, UseMoveTask, UseCreateMilestone, UseUpdateMilestone,
     UseDeleteMilestone, UseCreateAlertRule, UseUpdateAlertRule, UseDeleteAlertRule,
     UseMarkSeen, UseCreateGeofence, UseUpdateGeofence, UseDeleteGeofence, UseCreateWebhook,
     UseUpdateWebhook, UseDeleteWebhook, UseTestWebhook, UseSaveSlack, UseDeleteSlack,
     UseChangeUserRole, UseDeactivateUser, UseReactivateUser, UseInviteUser,
     UseUpdateOrganization, UseRotatePersonalAgentToken}

\* A view or page shows and offers hooks of these.
Known(v) ==
    v.shows \subseteq AllQueries /\ v.guarded \subseteq AllHooks /\ v.free \subseteq AllHooks

\* The hooks, read off the table.
LEMMA QueryReads ==
    /\ UseClockStatus.reads = {"attendance"} /\ UseTimeEntries.reads = {"entries"}
    /\ UseTimesheets.reads = {"sheets"} /\ UseTeamTimesheets.reads = {"sheets"}
    /\ UsePayrollReport.reads = {"approved"} /\ UseProjects.reads = {"projects"}
    /\ UseProject.reads = {"projects", "tasks", "milestones"} /\ UseAlertRules.reads = {"rules"}
    /\ UseAlertEvents.reads = {"events", "eventRules"} /\ UseUnreadCount.reads = {"events"}
    /\ UseGpsLocations.reads = {"locations"} /\ UseGpsLive.reads = {"locations"}
    /\ UseGeofences.reads = {"geofences"} /\ UseWebhooks.reads = {"endpoints"}
    /\ UseDeliveries.reads = {"deliveries"} /\ UseSlackConfig.reads = {"slack"}
    /\ UseOrgStats.reads = {"projects", "tasks", "users", "subscription"}
    /\ UseAdminUsers.reads = {"users"} /\ UseAuditLog.reads = {"audit"}
    /\ UseOrganization.reads = {"organization"} /\ UseUsers.reads = {"users"}
    /\ UseSubscription.reads = {"subscription"} /\ UseInvoices.reads = {"invoices"}
    /\ UseAgentDevices.reads = {"devices"} /\ UsePersonalAgentToken.reads = {"agentToken"}
    /\ UseLiveStatus.reads = {"devices", "activity"} /\ UseActivity.reads = {"activity"}
    /\ UseScreenshots.reads = {"screenshots"} /\ UseProductivityReport.reads = {"activity"}
    /\ UseProductivitySummary.reads = {"activity"} /\ UseCategoryBreakdown.reads = {"activity"}
    /\ UseHeatmap.reads = {"activity"}
BY DEF Query, Polled, AlwaysStale, Undefined,
       UseClockStatus, UseTimeEntries, UseTimesheets, UseTeamTimesheets, UsePayrollReport,
       UseProjects, UseProject, UseAlertRules, UseAlertEvents, UseUnreadCount, UseGpsLocations,
       UseGpsLive, UseGeofences, UseWebhooks, UseDeliveries, UseSlackConfig, UseOrgStats,
       UseAdminUsers, UseAuditLog, UseOrganization, UseUsers, UseSubscription, UseInvoices,
       UseAgentDevices, UsePersonalAgentToken, UseLiveStatus, UseActivity, UseScreenshots,
       UseProductivityReport, UseProductivitySummary, UseCategoryBreakdown, UseHeatmap

\* The keys of the queries, and the tables and keys of the hooks.
LEMMA QueryKeys ==
    /\ UseClockStatus.key = <<"clock-status">>
    /\ UseTimeEntries.key = <<"time-entries", "params">> /\ UseTimesheets.key = <<"timesheets">>
    /\ UseTeamTimesheets.key = <<"team-timesheets", "params">>
    /\ UsePayrollReport.key = <<"payroll-report", "params">> /\ UseProjects.key = <<"projects">>
    /\ UseProject.key = <<"projects", "id">> /\ UseAlertRules.key = <<"alert-rules">>
    /\ UseAlertEvents.key = <<"alert-events", "user">>
    /\ UseUnreadCount.key = <<"alert-unread-count">>
    /\ UseGpsLocations.key = <<"gps-locations", "params">> /\ UseGpsLive.key = <<"gps-live">>
    /\ UseGeofences.key = <<"geofences">> /\ UseWebhooks.key = <<"integrations", "webhooks">>
    /\ UseDeliveries.key = <<"integrations", "webhooks", "id", "deliveries">>
    /\ UseSlackConfig.key = <<"integrations", "slack">> /\ UseOrgStats.key = <<"admin-stats">>
    /\ UseAdminUsers.key = <<"admin-users">> /\ UseAuditLog.key = <<"audit-log", "params">>
    /\ UseOrganization.key = <<"organization">> /\ UseUsers.key = <<"users">>
    /\ UseSubscription.key = <<"subscription">> /\ UseInvoices.key = <<"billing-invoices">>
    /\ UseAgentDevices.key = <<"agent-devices">>
    /\ UsePersonalAgentToken.key = <<"personal-agent-token">>
    /\ UseLiveStatus.key = <<"monitoring-live">>
    /\ UseActivity.key = <<"monitoring-activity", "params">>
    /\ UseScreenshots.key = <<"monitoring-screenshots", "params">>
    /\ UseProductivityReport.key = <<"analytics-productivity-report", "params">>
    /\ UseProductivitySummary.key = <<"analytics-productivity-summary", "params">>
    /\ UseCategoryBreakdown.key = <<"analytics-category-breakdown", "params">>
    /\ UseHeatmap.key = <<"analytics-heatmap", "params">>
BY DEF Query, Polled, AlwaysStale, Undefined,
       UseClockStatus, UseTimeEntries, UseTimesheets, UseTeamTimesheets, UsePayrollReport,
       UseProjects, UseProject, UseAlertRules, UseAlertEvents, UseUnreadCount, UseGpsLocations,
       UseGpsLive, UseGeofences, UseWebhooks, UseDeliveries, UseSlackConfig, UseOrgStats,
       UseAdminUsers, UseAuditLog, UseOrganization, UseUsers, UseSubscription, UseInvoices,
       UseAgentDevices, UsePersonalAgentToken, UseLiveStatus, UseActivity, UseScreenshots,
       UseProductivityReport, UseProductivitySummary, UseCategoryBreakdown, UseHeatmap

LEMMA HookWrites ==
    /\ UseClockIn.writes = {"attendance"} /\ UseClockOut.writes = {"attendance", "entries"}
    /\ UseDeleteEntry.writes = {"entries"} /\ UseSubmitTimesheet.writes = {"sheets"}
    /\ UseApproveTimesheet.writes = {"sheets", "approved", "audit"}
    /\ UseRejectTimesheet.writes = {"sheets", "approved", "audit"}
    /\ UseBulkApproveTimesheets.writes = {"sheets", "approved", "audit"}
    /\ UseCreateProject.writes = {"projects"} /\ UseDeleteProject.writes = {"projects"}
    /\ UseCreateTask.writes = {"tasks"} /\ UseMoveTask.writes = {"tasks"}
    /\ UseCreateMilestone.writes = {"milestones"} /\ UseUpdateMilestone.writes = {"milestones"}
    /\ UseDeleteMilestone.writes = {"milestones"} /\ UseCreateAlertRule.writes = {"rules"}
    /\ UseUpdateAlertRule.writes = {"rules"}
    /\ UseDeleteAlertRule.writes = {"rules", "eventRules"} /\ UseMarkSeen.writes = {"events"}
    /\ UseCreateGeofence.writes = {"geofences"} /\ UseUpdateGeofence.writes = {"geofences"}
    /\ UseDeleteGeofence.writes = {"geofences"} /\ UseCreateWebhook.writes = {"endpoints"}
    /\ UseUpdateWebhook.writes = {"endpoints"}
    /\ UseDeleteWebhook.writes = {"endpoints", "deliveries"}
    /\ UseTestWebhook.writes = {"deliveries"} /\ UseSaveSlack.writes = {"slack"}
    /\ UseDeleteSlack.writes = {"slack"} /\ UseChangeUserRole.writes = {"users", "audit"}
    /\ UseDeactivateUser.writes = {"users", "audit"}
    /\ UseReactivateUser.writes = {"users", "audit"}
    /\ UseInviteUser.writes = {"users", "audit"}
    /\ UseUpdateOrganization.writes = {"organization"}
    /\ UseRotatePersonalAgentToken.writes = {"agentToken"}
BY DEF Mutation, Reviewed, OfProject, OfUsers,
       UseClockIn, UseClockOut, UseDeleteEntry, UseSubmitTimesheet, UseApproveTimesheet,
       UseRejectTimesheet, UseBulkApproveTimesheets, UseCreateProject, UseDeleteProject,
       UseCreateTask, UseMoveTask, UseCreateMilestone, UseUpdateMilestone, UseDeleteMilestone,
       UseCreateAlertRule, UseUpdateAlertRule, UseDeleteAlertRule, UseMarkSeen,
       UseCreateGeofence, UseUpdateGeofence, UseDeleteGeofence, UseCreateWebhook,
       UseUpdateWebhook, UseDeleteWebhook, UseTestWebhook, UseSaveSlack, UseDeleteSlack,
       UseChangeUserRole, UseDeactivateUser, UseReactivateUser, UseInviteUser,
       UseUpdateOrganization, UseRotatePersonalAgentToken

LEMMA HookInvalidates ==
    /\ UseClockIn.invalidates = {<<"clock-status">>, <<"attendance">>}
    /\ UseClockOut.invalidates = {<<"clock-status">>, <<"attendance">>, <<"time-entries">>}
    /\ UseDeleteEntry.invalidates = {<<"time-entries">>}
    /\ UseSubmitTimesheet.invalidates = {<<"timesheets">>}
    /\ UseApproveTimesheet.invalidates = {<<"timesheets">>, <<"team-timesheets">>}
    /\ UseRejectTimesheet.invalidates = {<<"timesheets">>, <<"team-timesheets">>}
    /\ UseBulkApproveTimesheets.invalidates = {<<"timesheets">>, <<"team-timesheets">>}
    /\ UseCreateProject.invalidates = {<<"projects">>}
    /\ UseDeleteProject.invalidates = {<<"projects">>}
    /\ UseCreateTask.invalidates = {<<"projects", "id">>}
    /\ UseMoveTask.invalidates = {<<"projects", "id">>}
    /\ UseCreateMilestone.invalidates = {<<"projects", "id">>}
    /\ UseUpdateMilestone.invalidates = {<<"projects", "id">>}
    /\ UseDeleteMilestone.invalidates = {<<"projects", "id">>}
    /\ UseCreateAlertRule.invalidates = {<<"alert-rules">>}
    /\ UseUpdateAlertRule.invalidates = {<<"alert-rules">>}
    /\ UseDeleteAlertRule.invalidates = {<<"alert-rules">>}
    /\ UseMarkSeen.invalidates = {<<"alert-events">>, <<"alert-unread-count">>}
    /\ UseCreateGeofence.invalidates = {<<"geofences">>}
    /\ UseUpdateGeofence.invalidates = {<<"geofences">>}
    /\ UseDeleteGeofence.invalidates = {<<"geofences">>}
    /\ UseCreateWebhook.invalidates = {<<"integrations", "webhooks">>}
    /\ UseUpdateWebhook.invalidates = {<<"integrations", "webhooks">>}
    /\ UseDeleteWebhook.invalidates = {<<"integrations", "webhooks">>}
    /\ UseTestWebhook.invalidates = {}
    /\ UseSaveSlack.invalidates = {<<"integrations", "slack">>}
    /\ UseDeleteSlack.invalidates = {<<"integrations", "slack">>}
    /\ UseChangeUserRole.invalidates = {<<"admin-users">>}
    /\ UseDeactivateUser.invalidates = {<<"admin-users">>}
    /\ UseReactivateUser.invalidates = {<<"admin-users">>}
    /\ UseInviteUser.invalidates = {<<"users">>}
    /\ UseUpdateOrganization.invalidates = {<<"organization">>}
    /\ UseRotatePersonalAgentToken.invalidates = {}
BY DEF Mutation, Reviewed, OfProject, OfUsers,
       UseClockIn, UseClockOut, UseDeleteEntry, UseSubmitTimesheet, UseApproveTimesheet,
       UseRejectTimesheet, UseBulkApproveTimesheets, UseCreateProject, UseDeleteProject,
       UseCreateTask, UseMoveTask, UseCreateMilestone, UseUpdateMilestone, UseDeleteMilestone,
       UseCreateAlertRule, UseUpdateAlertRule, UseDeleteAlertRule, UseMarkSeen,
       UseCreateGeofence, UseUpdateGeofence, UseDeleteGeofence, UseCreateWebhook,
       UseUpdateWebhook, UseDeleteWebhook, UseTestWebhook, UseSaveSlack, UseDeleteSlack,
       UseChangeUserRole, UseDeactivateUser, UseReactivateUser, UseInviteUser,
       UseUpdateOrganization, UseRotatePersonalAgentToken

\* Who reads the tables that the hooks write.
LEMMA Readers ==
    ASSUME NEW q \in AllQueries
    PROVE
      /\ "attendance" \in q.reads => q \in {UseClockStatus}
      /\ "entries" \in q.reads => q \in {UseTimeEntries}
      /\ "sheets" \in q.reads => q \in {UseTimesheets, UseTeamTimesheets}
      /\ "approved" \in q.reads => q \in {UsePayrollReport}
      /\ "projects" \in q.reads => q \in {UseProjects, UseProject, UseOrgStats}
      /\ "tasks" \in q.reads => q \in {UseProject, UseOrgStats}
      /\ "milestones" \in q.reads => q \in {UseProject}
      /\ "rules" \in q.reads => q \in {UseAlertRules}
      /\ "events" \in q.reads => q \in {UseAlertEvents, UseUnreadCount}
      /\ "eventRules" \in q.reads => q \in {UseAlertEvents}
      /\ "geofences" \in q.reads => q \in {UseGeofences}
      /\ "endpoints" \in q.reads => q \in {UseWebhooks}
      /\ "deliveries" \in q.reads => q \in {UseDeliveries}
      /\ "slack" \in q.reads => q \in {UseSlackConfig}
      /\ "users" \in q.reads => q \in {UseOrgStats, UseAdminUsers, UseUsers}
      /\ "audit" \in q.reads => q \in {UseAuditLog}
      /\ "organization" \in q.reads => q \in {UseOrganization}
      /\ "agentToken" \in q.reads => q \in {UsePersonalAgentToken}
BY QueryReads DEF AllQueries

\* When a key is a prefix of another one.
LEMMA PrefixByElements ==
    ASSUME NEW S, NEW s \in Seq(S), NEW t \in Seq(S), Len(s) <= Len(t),
           \A i \in 1 .. Len(s) : s[i] = t[i]
    PROVE  IsPrefix(s, t)
<1>1. Len(s) \in Nat /\ Len(t) \in Nat
  BY LenProperties
<1>2. SubSeq(s, 1, Len(s)) = SubSeq(t, 1, Len(s))
  BY <1>1
<1>. QED
  BY <1>1, <1>2 DEF IsPrefix

\* The shapes in which keys begin with keys.
LEMMA KeyPrefixes ==
    ASSUME NEW a, NEW b, NEW c, NEW d
    PROVE  /\ IsPrefix(<<a>>, <<a>>) /\ IsPrefix(<<a>>, <<a, b>>)
           /\ IsPrefix(<<a, b>>, <<a, b>>) /\ IsPrefix(<<a, b>>, <<a, b, c, d>>)
<1>. DEFINE S == {a, b, c, d}
            one == <<a>>  two == <<a, b>>  four == <<a, b, c, d>>
<1>1. one \in Seq(S) /\ two \in Seq(S) /\ four \in Seq(S)
  OBVIOUS
<1>2. Len(one) = 1 /\ Len(two) = 2 /\ Len(four) = 4
  OBVIOUS
<1>3. one[1] = two[1] /\ two[1] = four[1] /\ two[2] = four[2]
  OBVIOUS
<1>. HIDE DEF S, one, two, four
<1>4. \A i \in 1 .. 1 : i = 1
  OBVIOUS
<1>5. \A i \in 1 .. 2 : i = 1 \/ i = 2
  OBVIOUS
<1>6. IsPrefix(one, one) /\ IsPrefix(one, two)
  BY <1>1, <1>2, <1>3, <1>4, PrefixByElements
<1>7. IsPrefix(two, two) /\ IsPrefix(two, four)
  BY <1>1, <1>2, <1>3, <1>5, PrefixByElements
<1>. QED
  BY <1>6, <1>7 DEF one, two, four

\* The invalidated keys and the keys of the queries that begin with them.
LEMMA KeyMatches ==
    /\ IsPrefix(<<"clock-status">>, UseClockStatus.key)
    /\ IsPrefix(<<"time-entries">>, UseTimeEntries.key)
    /\ IsPrefix(<<"timesheets">>, UseTimesheets.key)
    /\ IsPrefix(<<"team-timesheets">>, UseTeamTimesheets.key)
    /\ IsPrefix(<<"projects">>, UseProjects.key)
    /\ IsPrefix(<<"projects">>, UseProject.key)
    /\ IsPrefix(<<"projects", "id">>, UseProject.key)
    /\ IsPrefix(<<"alert-rules">>, UseAlertRules.key)
    /\ IsPrefix(<<"alert-events">>, UseAlertEvents.key)
    /\ IsPrefix(<<"alert-unread-count">>, UseUnreadCount.key)
    /\ IsPrefix(<<"geofences">>, UseGeofences.key)
    /\ IsPrefix(<<"integrations", "webhooks">>, UseWebhooks.key)
    /\ IsPrefix(<<"integrations", "webhooks">>, UseDeliveries.key)
    /\ IsPrefix(<<"integrations", "slack">>, UseSlackConfig.key)
    /\ IsPrefix(<<"admin-users">>, UseAdminUsers.key)
    /\ IsPrefix(<<"users">>, UseUsers.key)
    /\ IsPrefix(<<"organization">>, UseOrganization.key)
<1>1. /\ IsPrefix(<<"clock-status">>, <<"clock-status">>)
      /\ IsPrefix(<<"timesheets">>, <<"timesheets">>)
      /\ IsPrefix(<<"projects">>, <<"projects">>)
      /\ IsPrefix(<<"alert-rules">>, <<"alert-rules">>)
      /\ IsPrefix(<<"alert-unread-count">>, <<"alert-unread-count">>)
      /\ IsPrefix(<<"geofences">>, <<"geofences">>)
      /\ IsPrefix(<<"admin-users">>, <<"admin-users">>)
      /\ IsPrefix(<<"users">>, <<"users">>)
      /\ IsPrefix(<<"organization">>, <<"organization">>)
  BY KeyPrefixes
<1>2. /\ IsPrefix(<<"time-entries">>, <<"time-entries", "params">>)
      /\ IsPrefix(<<"team-timesheets">>, <<"team-timesheets", "params">>)
      /\ IsPrefix(<<"projects">>, <<"projects", "id">>)
      /\ IsPrefix(<<"alert-events">>, <<"alert-events", "user">>)
  BY KeyPrefixes
<1>3. /\ IsPrefix(<<"projects", "id">>, <<"projects", "id">>)
      /\ IsPrefix(<<"integrations", "webhooks">>, <<"integrations", "webhooks">>)
      /\ IsPrefix(<<"integrations", "slack">>, <<"integrations", "slack">>)
  BY KeyPrefixes
<1>4. /\ IsPrefix(<<"integrations", "webhooks">>, <<"integrations", "webhooks", "id", "deliveries">>)
  BY KeyPrefixes
<1>. QED
  BY QueryKeys, <1>1, <1>2, <1>3, <1>4

\* What is invalidated with a key.
LEMMA Matches ==
    ASSUME NEW h
    PROVE
      /\ <<"clock-status">> \in h.invalidates => Refreshes(h, UseClockStatus)
      /\ <<"time-entries">> \in h.invalidates => Refreshes(h, UseTimeEntries)
      /\ <<"timesheets">> \in h.invalidates => Refreshes(h, UseTimesheets)
      /\ <<"team-timesheets">> \in h.invalidates => Refreshes(h, UseTeamTimesheets)
      /\ <<"projects">> \in h.invalidates => Refreshes(h, UseProjects) /\ Refreshes(h, UseProject)
      /\ <<"projects", "id">> \in h.invalidates => Refreshes(h, UseProject)
      /\ <<"alert-rules">> \in h.invalidates => Refreshes(h, UseAlertRules)
      /\ <<"alert-events">> \in h.invalidates => Refreshes(h, UseAlertEvents)
      /\ <<"alert-unread-count">> \in h.invalidates => Refreshes(h, UseUnreadCount)
      /\ <<"geofences">> \in h.invalidates => Refreshes(h, UseGeofences)
      /\ <<"integrations", "webhooks">> \in h.invalidates
             => Refreshes(h, UseWebhooks) /\ Refreshes(h, UseDeliveries)
      /\ <<"integrations", "slack">> \in h.invalidates => Refreshes(h, UseSlackConfig)
      /\ <<"admin-users">> \in h.invalidates => Refreshes(h, UseAdminUsers)
      /\ <<"users">> \in h.invalidates => Refreshes(h, UseUsers)
      /\ <<"organization">> \in h.invalidates => Refreshes(h, UseOrganization)
BY KeyMatches DEF Refreshes

\* A hook that writes what a query reads invalidates it, but for the pairs in
\* Unconnected and for the rotation, which puts its answer into the cache.
Connected(h, q) ==
    h.writes \cap q.reads # {} => Refreshes(h, q) \/ <<h, q>> \in Unconnected

THEOREM TableConnects ==
    ASSUME NEW h \in AllHooks, h # UseRotatePersonalAgentToken, NEW q \in AllQueries
    PROVE  Connected(h, q)
<1>. SUFFICES ASSUME NEW t \in h.writes, t \in q.reads
              PROVE  Refreshes(h, q) \/ <<h, q>> \in Unconnected
  BY DEF Connected
<1>1. CASE h = UseClockIn
  BY <1>1, HookWrites, HookInvalidates, Readers, Matches
<1>2. CASE h = UseClockOut
  BY <1>2, HookWrites, HookInvalidates, Readers, Matches
<1>3. CASE h = UseDeleteEntry
  BY <1>3, HookWrites, HookInvalidates, Readers, Matches
<1>4. CASE h = UseSubmitTimesheet
  BY <1>4, HookWrites, HookInvalidates, Readers, Matches DEF Unconnected
<1>5. CASE h = UseApproveTimesheet
  BY <1>5, HookWrites, HookInvalidates, Readers, Matches DEF Unconnected, Review
<1>6. CASE h = UseRejectTimesheet
  BY <1>6, HookWrites, HookInvalidates, Readers, Matches DEF Unconnected, Review
<1>7. CASE h = UseBulkApproveTimesheets
  BY <1>7, HookWrites, HookInvalidates, Readers, Matches DEF Unconnected, Review
<1>8. CASE h = UseCreateProject
  BY <1>8, HookWrites, HookInvalidates, Readers, Matches DEF Unconnected
<1>9. CASE h = UseDeleteProject
  BY <1>9, HookWrites, HookInvalidates, Readers, Matches DEF Unconnected
<1>10. CASE h = UseCreateTask
  BY <1>10, HookWrites, HookInvalidates, Readers, Matches DEF Unconnected
<1>11. CASE h = UseMoveTask
  BY <1>11, HookWrites, HookInvalidates, Readers, Matches DEF Unconnected
<1>12. CASE h = UseCreateMilestone
  BY <1>12, HookWrites, HookInvalidates, Readers, Matches
<1>13. CASE h = UseUpdateMilestone
  BY <1>13, HookWrites, HookInvalidates, Readers, Matches
<1>14. CASE h = UseDeleteMilestone
  BY <1>14, HookWrites, HookInvalidates, Readers, Matches
<1>15. CASE h = UseCreateAlertRule
  BY <1>15, HookWrites, HookInvalidates, Readers, Matches
<1>16. CASE h = UseUpdateAlertRule
  BY <1>16, HookWrites, HookInvalidates, Readers, Matches
<1>17. CASE h = UseDeleteAlertRule
  BY <1>17, HookWrites, HookInvalidates, Readers, Matches DEF Unconnected
<1>18. CASE h = UseMarkSeen
  BY <1>18, HookWrites, HookInvalidates, Readers, Matches
<1>19. CASE h = UseCreateGeofence
  BY <1>19, HookWrites, HookInvalidates, Readers, Matches
<1>20. CASE h = UseUpdateGeofence
  BY <1>20, HookWrites, HookInvalidates, Readers, Matches
<1>21. CASE h = UseDeleteGeofence
  BY <1>21, HookWrites, HookInvalidates, Readers, Matches
<1>22. CASE h = UseCreateWebhook
  BY <1>22, HookWrites, HookInvalidates, Readers, Matches
<1>23. CASE h = UseUpdateWebhook
  BY <1>23, HookWrites, HookInvalidates, Readers, Matches
<1>24. CASE h = UseDeleteWebhook
  BY <1>24, HookWrites, HookInvalidates, Readers, Matches
<1>25. CASE h = UseTestWebhook
  BY <1>25, HookWrites, HookInvalidates, Readers, Matches DEF Unconnected
<1>26. CASE h = UseSaveSlack
  BY <1>26, HookWrites, HookInvalidates, Readers, Matches
<1>27. CASE h = UseDeleteSlack
  BY <1>27, HookWrites, HookInvalidates, Readers, Matches
<1>28. CASE h = UseChangeUserRole
  BY <1>28, HookWrites, HookInvalidates, Readers, Matches DEF Unconnected, AdminOfUsers
<1>29. CASE h = UseDeactivateUser
  BY <1>29, HookWrites, HookInvalidates, Readers, Matches DEF Unconnected, AdminOfUsers
<1>30. CASE h = UseReactivateUser
  BY <1>30, HookWrites, HookInvalidates, Readers, Matches DEF Unconnected, AdminOfUsers
<1>31. CASE h = UseInviteUser
  BY <1>31, HookWrites, HookInvalidates, Readers, Matches DEF Unconnected
<1>32. CASE h = UseUpdateOrganization
  BY <1>32, HookWrites, HookInvalidates, Readers, Matches
<1>. QED
  BY <1>1, <1>2, <1>3, <1>4, <1>5, <1>6, <1>7, <1>8, <1>9, <1>10, <1>11, <1>12, <1>13, <1>14, <1>15,
     <1>16, <1>17, <1>18, <1>19, <1>20, <1>21, <1>22, <1>23, <1>24, <1>25, <1>26, <1>27, <1>28,
     <1>29, <1>30, <1>31, <1>32 DEF AllHooks

\* Views, and pages made of them, have only hooks of the table.
LEMMA ViewKnown ==
    ASSUME NEW shows \in SUBSET AllQueries, NEW guarded \in SUBSET AllHooks,
           NEW free \in SUBSET AllHooks
    PROVE  Known(View(shows, guarded, free))
BY DEF Known, View

LEMMA ViewsKnown ==
    \A v \in {NotificationBell, ClockWidget, EntriesTable, TimesheetsView, ReviewTable, ProjectCard,
              CreateProjectDialog, ProjectList, CreateTaskDialog, KanbanBoard, MilestoneItem,
              CreateMilestoneDialog, LiveStatusBoard, ActivityTimeline, ScreenshotGallery,
              Devices, LivePage, LiveLocations, LocationHistory, GeofenceManager, AddRuleModal,
              RuleRow, RulesTab, EventsTab, DeliveryLog, WebhookList, SlackSection, StatsTab,
              UsersTab, AuditTab, ProductivityStackedChart, CategoryDonut, ProductivityHeatmap,
              TeamProductivityTable} : Known(v)
BY ViewKnown DEF AllQueries, AllHooks,
       NotificationBell, ClockWidget, EntriesTable, TimesheetsView, ReviewTable, ProjectCard,
       CreateProjectDialog, ProjectList, CreateTaskDialog, KanbanBoard, MilestoneItem,
       CreateMilestoneDialog, LiveStatusBoard, ActivityTimeline, ScreenshotGallery, Devices,
       LivePage, LiveLocations, LocationHistory, GeofenceManager, AddRuleModal, RuleRow,
       RulesTab, EventsTab, DeliveryLog, WebhookList, SlackSection, StatsTab, UsersTab,
       AuditTab, ProductivityStackedChart, CategoryDonut, ProductivityHeatmap,
       TeamProductivityTable

LEMMA PageKnown ==
    ASSUME NEW views, \A v \in views : Known(v)
    PROVE  Known(Page(views))
<1>. DEFINE all == views \cup {NotificationBell}
<1>1. \A v \in all : Known(v)
  BY ViewsKnown
<1>2. Page(views) = View(UNION {v.shows : v \in all}, UNION {v.guarded : v \in all},
                         UNION {v.free : v \in all})
  BY DEF Page
<1>3. /\ UNION {v.shows : v \in all} \subseteq AllQueries
      /\ UNION {v.guarded : v \in all} \subseteq AllHooks
      /\ UNION {v.free : v \in all} \subseteq AllHooks
  BY <1>1 DEF Known
<1>. QED
  BY <1>2, <1>3, ViewKnown

LEMMA PagesKnown ==
    \A p \in DOMAIN Pages : Known(Pages[p])
<1>1. Known(TeamPage)
  BY ViewsKnown, PageKnown DEF TeamPage
<1>2. Known(ApprovalsPage)
  BY ViewsKnown, PageKnown DEF ApprovalsPage
<1>3. Known(ReportsPage)
  <2>1. Known(View({UsePayrollReport}, {}, {}))
    BY ViewKnown DEF AllQueries, AllHooks
  <2>. QED
    BY <2>1, ViewsKnown, PageKnown DEF ReportsPage
<1>4. Known(TimeTrackingPage)
  BY ViewsKnown, PageKnown DEF TimeTrackingPage
<1>5. Known(ProjectsPage)
  BY ViewsKnown, PageKnown DEF ProjectsPage
<1>6. Known(ProjectPage)
  <2>1. Known(View({UseProject}, {}, {}))
    BY ViewKnown DEF AllQueries, AllHooks
  <2>. QED
    BY <2>1, ViewsKnown, PageKnown DEF ProjectPage
<1>7. Known(OverviewPage)
  <2>1. Known(View({UseLiveStatus, UseTimesheets, UseProjects}, {}, {}))
    BY ViewKnown DEF AllQueries, AllHooks
  <2>. QED
    BY <2>1, ViewsKnown, PageKnown DEF OverviewPage
<1>8. Known(MonitoringPage)
  BY ViewsKnown, PageKnown DEF MonitoringPage
<1>9. Known(EmployeePage)
  BY ViewsKnown, PageKnown DEF EmployeePage
<1>10. Known(ScreenshotsPage)
  BY ViewsKnown, PageKnown DEF ScreenshotsPage
<1>11. Known(LivePage)
  BY ViewsKnown
<1>12. Known(GpsPage)
  BY ViewsKnown, PageKnown DEF GpsPage
<1>13. Known(AlertsPage)
  BY ViewsKnown, PageKnown DEF AlertsPage
<1>14. Known(IntegrationsPage)
  BY ViewsKnown, PageKnown DEF IntegrationsPage
<1>15. Known(AdminPage)
  BY ViewsKnown, PageKnown DEF AdminPage
<1>16. Known(UsersPage)
  <2>1. Known(View({UseUsers}, {UseInviteUser}, {}))
    BY ViewKnown DEF AllQueries, AllHooks
  <2>. QED
    BY <2>1, ViewsKnown, PageKnown DEF UsersPage
<1>17. Known(OrganizationPage)
  <2>1. Known(View({UseOrganization}, {UseUpdateOrganization}, {}))
    BY ViewKnown DEF AllQueries, AllHooks
  <2>. QED
    BY <2>1, ViewsKnown, PageKnown DEF OrganizationPage
<1>18. Known(BillingPage)
  <2>1. Known(View({UseSubscription, UseInvoices, UseUsers}, {}, {}))
    BY ViewKnown DEF AllQueries, AllHooks
  <2>. QED
    BY <2>1, ViewsKnown, PageKnown DEF BillingPage
<1>19. Known(AgentPage)
  <2>1. Known(View({UseAgentDevices, UsePersonalAgentToken}, {UseRotatePersonalAgentToken}, {}))
    BY ViewKnown DEF AllQueries, AllHooks
  <2>. QED
    BY <2>1, ViewsKnown, PageKnown DEF AgentPage
<1>20. Known(AnalyticsPage)
  BY ViewsKnown, PageKnown DEF AnalyticsPage
<1>. QED
  BY <1>1, <1>2, <1>3, <1>4, <1>5, <1>6, <1>7, <1>8, <1>9, <1>10, <1>11, <1>12, <1>13, <1>14, <1>15,
     <1>16, <1>17, <1>18, <1>19, <1>20 DEF Pages

\* What a behaviour watches and what its pages offer.
LEMMA Watched ==
    ASSUME NEW q \in Queries
    PROVE  /\ q \in AllQueries
           /\ SeenPages[q] \subseteq DOMAIN Pages
           /\ \A p \in SeenPages[q] : OffersOn[q][p] \subseteq AllHooks
<1>1. q \in AllQueries
  BY PagesKnown DEF Queries, Known
<1>2. SeenPages[q] \subseteq DOMAIN Pages
  <2>. DEFINE looks == {Sees(q, p) : p \in DOMAIN Pages}
              chosen(l) == CHOOSE p \in DOMAIN Pages : Sees(q, p) = l
  <2>1. SeenPages[q] = {chosen(l) : l \in looks}
    BY DEF SeenPages
  <2>2. ASSUME NEW l \in looks
        PROVE  chosen(l) \in DOMAIN Pages
    <3>1. PICK p \in DOMAIN Pages : Sees(q, p) = l
      OBVIOUS
    <3>. QED
      BY <3>1
  <2>. QED
    BY <2>1, <2>2
<1>3. ASSUME NEW p \in SeenPages[q]
      PROVE  OffersOn[q][p] \subseteq AllHooks
  <2>1. OffersOn[q][p] = Sees(q, p).guarded \cup Sees(q, p).free
    BY DEF OffersOn
  <2>2. Known(Pages[p])
    BY <1>2, PagesKnown
  <2>. QED
    BY <2>1, <2>2 DEF Sees, Known
<1>. QED
  BY <1>1, <1>2, <1>3

-----------------------------------------------------------------------------
(* The cache *)

CacheType ==
    /\ watched \in Queries /\ page \in SeenPages[watched]
    /\ fetch \in {Idle, Asked} \/ fetch = Read(fetch.data)
    /\ sent \subseteq [id : Nat, hook : AllHooks, done : BOOLEAN, saw : SUBSET Nat, here : BOOLEAN]
    /\ own \subseteq [id : Nat, hook : AllHooks]
    /\ written \subseteq Nat /\ count \in Nat

\* Only what the server has applied is confirmed or counts as done, and a
\* rotation answers with a token that has its own write.
Applied ==
    /\ \A w \in own : w.id \in written
    /\ \A s \in sent : s.done => /\ s.id \in written
                                 /\ s.hook = UseRotatePersonalAgentToken => s.id \in s.saw

\* A confirmed write that is to be seen, is in the answer under way and in the
\* data, unless they are known to be out of date.
Due(w) == w.hook.writes \cap watched.reads # {} /\ w.id \notin missed
              /\ <<w.hook, watched>> \notin Unconnected
Reflects ==
    \A w \in own : Due(w) => /\ fetch.is = "read" => w.id \in fetch.data
                             /\ data # None /\ ~invalid => w.id \in data

CacheInv == CacheType /\ Applied /\ Reflects

\* A step that confirms nothing, takes back nothing and leaves the server's
\* writes, the data and their validity as they were or fresher.
LEMMA Unsettled ==
    ASSUME CacheInv, UNCHANGED <<watched, own>>, missed \subseteq missed',
           written \subseteq written', data' = data, invalid' = invalid,
           fetch' = fetch \/ fetch' \in {Idle, Asked} \/ fetch' = Read(written)
    PROVE  Reflects' /\ \A w \in own' : w.id \in written'
<1>1. \A w \in own' : Due(w)' => Due(w)
  BY DEF Due
<1>2. \A w \in own' : w.id \in written /\ w.id \in written'
  BY DEF CacheInv, Applied
<1>3. ASSUME NEW w \in own', Due(w)', fetch'.is = "read"
      PROVE  w.id \in fetch'.data
  <2>1. CASE fetch' = fetch
    BY <1>1, <1>3, <2>1 DEF CacheInv, Reflects
  <2>2. CASE fetch' = Read(written)
    BY <1>2, <2>2 DEF Read
  <2>. QED
    BY <1>3, <2>1, <2>2 DEF Idle, Asked
<1>. QED
  BY <1>1, <1>2, <1>3 DEF CacheInv, Reflects

\* Nothing is confirmed when the page opens.
LEMMA InitCache == Init => CacheInv
<1>. SUFFICES ASSUME Init
              PROVE  CacheInv
  OBVIOUS
<1>. QED
  BY DEF Init, CacheInv, CacheType, Applied, Reflects, Idle, Asked

\* Navigation, focus, polling, reports and time.
LEMMA PageSteps ==
    ASSUME CacheInv,
           (\E p \in SeenPages[watched] : Navigate(p)) \/ Focus \/ Poll \/ RunReport \/ Age
    PROVE  CacheInv'
<1>1. CASE \E p \in SeenPages[watched] : Navigate(p)
  <2>1. PICK p \in SeenPages[watched] : Navigate(p)
    BY <1>1
  <2>2. Reflects' /\ \A w \in own' : w.id \in written'
    BY <2>1, Unsettled DEF Navigate, cached, Idle, Asked
  <2>3. \A t \in sent' : \E s \in sent : t = [s EXCEPT !.here = FALSE]
    BY <2>1 DEF Navigate
  <2>4. CacheType'
    <3>1. sent' \subseteq [id : Nat, hook : AllHooks, done : BOOLEAN, saw : SUBSET Nat,
                           here : BOOLEAN]
      <4>1. \A s \in [id : Nat, hook : AllHooks, done : BOOLEAN, saw : SUBSET Nat, here : BOOLEAN] :
                [s EXCEPT !.here = FALSE]
                    \in [id : Nat, hook : AllHooks, done : BOOLEAN, saw : SUBSET Nat, here : BOOLEAN]
        OBVIOUS
      <4>. QED
        BY <2>3, <4>1, Zenon DEF CacheInv, CacheType
    <3>2. /\ UNCHANGED <<watched, own, written, count>> /\ page' = p
          /\ fetch' = fetch \/ fetch' = Asked
      BY <2>1 DEF Navigate
    <3>. QED
      BY <3>1, <3>2 DEF CacheInv, CacheType
  <2>5. Applied'
    BY <2>1, <2>2, <2>3 DEF Navigate, CacheInv, CacheType, Applied
  <2>. QED
    BY <2>2, <2>4, <2>5 DEF CacheInv
<1>2. CASE Focus \/ Poll \/ RunReport \/ Age
  <2>1. /\ UNCHANGED <<watched, page, sent, written, own, missed, count, data, invalid>>
        /\ fetch' = fetch \/ fetch' = Asked
    BY <1>2 DEF Focus, Poll, RunReport, Age, cached, writes, counters
  <2>2. Reflects' /\ \A w \in own' : w.id \in written'
    BY <2>1, Unsettled
  <2>. QED
    BY <2>1, <2>2 DEF CacheInv, CacheType, Applied
<1>. QED
  BY <1>1, <1>2

\* The request for the query.
LEMMA FetchSteps ==
    ASSUME CacheInv, ServerReads \/ Answer \/ FetchFails
    PROVE  CacheInv'
<1>1. CASE ServerReads
  <2>1. /\ UNCHANGED <<watched, page, sent, written, own, missed, count, data, invalid>>
        /\ fetch' = Read(written) /\ fetch' = Read(fetch'.data)
    BY <1>1 DEF ServerReads, cached, writes, counters, Read
  <2>2. Reflects' /\ \A w \in own' : w.id \in written'
    BY <2>1, Unsettled
  <2>. QED
    BY <2>1, <2>2 DEF CacheInv, CacheType, Applied
<1>2. CASE Answer
  <2>1. /\ UNCHANGED <<watched, page, sent, written, own, missed, count>>
        /\ fetch.is = "read" /\ fetch' = Idle
        /\ data' = fetch.data \/ (data' = data /\ invalid' = invalid)
    BY <1>2 DEF Answer, Put, cached, writes, counters
  <2>2. Reflects'
    BY <2>1 DEF CacheInv, Reflects, Due, Idle
  <2>. QED
    BY <2>1, <2>2 DEF CacheInv, CacheType, Applied
<1>3. CASE FetchFails
  <2>1. /\ UNCHANGED <<watched, page, sent, written, own, missed, count, data, invalid>>
        /\ fetch' \in {Idle, Asked}
    BY <1>3 DEF FetchFails, cached, writes
  <2>2. Reflects' /\ \A w \in own' : w.id \in written'
    BY <2>1, Unsettled
  <2>. QED
    BY <2>1, <2>2 DEF CacheInv, CacheType, Applied
<1>. QED
  BY <1>1, <1>2, <1>3

\* Writes are sent, applied and refused, by this browser and by others.
LEMMA WriteSteps ==
    ASSUME CacheInv,
           \/ \E h \in OffersOn[watched][page] : Mutate(h)
           \/ \E s \in sent : Apply(s) \/ Refuse(s)
           \/ OthersWrite
    PROVE  CacheInv'
<1>1. CASE \E h \in OffersOn[watched][page] : Mutate(h)
  <2>1. PICK h \in OffersOn[watched][page] : Mutate(h)
    BY <1>1
  <2>2. h \in AllHooks
    BY <2>1, Watched DEF CacheInv, CacheType
  <2>. DEFINE new == [id |-> count + 1, hook |-> h, done |-> FALSE, saw |-> {}, here |-> TRUE]
  <2>3. /\ UNCHANGED <<watched, page, fetch, written, own, missed, data, invalid>>
        /\ sent' = sent \cup {new} /\ count' = count + 1
    BY <2>1 DEF Mutate, cached
  <2>4. Reflects' /\ \A w \in own' : w.id \in written'
    BY <2>3, Unsettled
  <2>5. new \in [id : Nat, hook : AllHooks, done : BOOLEAN, saw : SUBSET Nat, here : BOOLEAN]
    BY <2>2 DEF CacheInv, CacheType
  <2>6. new.done = FALSE
    OBVIOUS
  <2>. HIDE DEF new
  <2>7. CacheType'
    BY <2>3, <2>5 DEF CacheInv, CacheType
  <2>. QED
    BY <2>3, <2>4, <2>6, <2>7 DEF CacheInv, Applied
<1>2. CASE \E s \in sent : Apply(s)
  <2>1. PICK s \in sent : Apply(s)
    BY <1>2
  <2>. DEFINE saw == IF s.hook = UseRotatePersonalAgentToken THEN written' ELSE {}
              applied == [s EXCEPT !.done = TRUE, !.saw = saw]
  <2>2. /\ UNCHANGED <<watched, page, fetch, own, missed, count, data, invalid>>
        /\ written' = written \cup {s.id} /\ sent' = (sent \ {s}) \cup {applied}
    BY <2>1 DEF Apply, cached, counters
  <2>3. Reflects' /\ \A w \in own' : w.id \in written'
    BY <2>2, Unsettled
  <2>4. s \in [id : Nat, hook : AllHooks, done : BOOLEAN, saw : SUBSET Nat, here : BOOLEAN]
    BY DEF CacheInv, CacheType
  <2>5. written' \subseteq Nat
    BY <2>2, <2>4 DEF CacheInv, CacheType
  <2>6. /\ applied \in [id : Nat, hook : AllHooks, done : BOOLEAN, saw : SUBSET Nat, here : BOOLEAN]
        /\ applied.id = s.id /\ applied.hook = s.hook /\ applied.saw = saw
    BY <2>4, <2>5
  <2>7. /\ applied.id \in written'
        /\ (applied.hook = UseRotatePersonalAgentToken => applied.id \in applied.saw)
    BY <2>2, <2>6
  <2>. HIDE DEF applied
  <2>8. CacheType'
    BY <2>2, <2>5, <2>6 DEF CacheInv, CacheType
  <2>9. Applied'
    BY <2>2, <2>3, <2>7 DEF CacheInv, Applied
  <2>. QED
    BY <2>3, <2>8, <2>9 DEF CacheInv
<1>3. CASE \E s \in sent : Refuse(s)
  <2>1. /\ UNCHANGED <<watched, page, fetch, written, own, missed, count, data, invalid>>
        /\ sent' \subseteq sent
    BY <1>3 DEF Refuse, cached, counters
  <2>2. Reflects' /\ \A w \in own' : w.id \in written'
    BY <2>1, Unsettled
  <2>. QED
    BY <2>1, <2>2 DEF CacheInv, CacheType, Applied
<1>4. CASE OthersWrite
  <2>1. /\ UNCHANGED <<watched, page, fetch, sent, own, missed, data, invalid>>
        /\ written' = written \cup {count + 1} /\ count' = count + 1
    BY <1>4 DEF OthersWrite, cached
  <2>2. Reflects' /\ \A w \in own' : w.id \in written'
    BY <2>1, Unsettled
  <2>. QED
    BY <2>1, <2>2 DEF CacheInv, CacheType, Applied
<1>. QED
  BY <1>1, <1>2, <1>3, <1>4

\* What every end of an applied mutation does.
LEMMA Ends ==
    ASSUME CacheInv, NEW s \in sent, s.done, End(s),
           UNCHANGED <<watched, page, written, count>>,
           fetch' = fetch \/ fetch' = Asked
    PROVE  /\ CacheType' /\ Applied'
           /\ \A w \in own' : w \in own \/ w = [id |-> s.id, hook |-> s.hook]
           /\ s.id \in written /\ s.hook \in AllHooks
<1>1. s \in [id : Nat, hook : AllHooks, done : BOOLEAN, saw : SUBSET Nat, here : BOOLEAN]
  BY DEF CacheInv, CacheType
<1>2. s.id \in written
  BY DEF CacheInv, Applied
<1>. DEFINE over == [id |-> s.id, hook |-> s.hook]
<1>3. over \in [id : Nat, hook : AllHooks] /\ over.id = s.id
  BY <1>1
<1>4. sent' = sent \ {s} /\ own' = own \cup {over}
  BY DEF End
<1>. HIDE DEF over
<1>5. CacheType'
  BY <1>3, <1>4 DEF CacheInv, CacheType
<1>6. Applied'
  BY <1>2, <1>3, <1>4 DEF CacheInv, Applied
<1>. QED
  BY <1>1, <1>2, <1>4, <1>5, <1>6 DEF over

\* Confirmed writes: an error leaves them missed, onSuccess makes the cache ask
\* again, the rotation puts the new token in the cache.
LEMMA EndSteps ==
    ASSUME CacheInv, NEW s \in sent, EndsInError(s) \/ Settle(s) \/ SettleRotation(s)
    PROVE  CacheInv'
<1>1. CASE EndsInError(s)
  <2>1. /\ s.done /\ End(s) /\ missed' = missed \cup {s.id}
        /\ UNCHANGED <<watched, page, fetch, written, count, data, invalid>>
    BY <1>1 DEF EndsInError, cached
  <2>2. /\ CacheType' /\ Applied'
        /\ \A w \in own' : w \in own \/ w = [id |-> s.id, hook |-> s.hook]
    BY <2>1, Ends
  <2>3. Reflects'
    BY <2>1, <2>2 DEF CacheInv, Reflects, Due
  <2>. QED
    BY <2>2, <2>3 DEF CacheInv
<1>2. CASE Settle(s)
  <2>. DEFINE again == Refreshes(s.hook, watched) /\ Mounted /\ (data # None \/ fetch = Idle)
  <2>1. /\ s.done /\ End(s) /\ s.hook # UseRotatePersonalAgentToken
        /\ UNCHANGED <<watched, page, written, count, data>>
        /\ invalid' = IF Refreshes(s.hook, watched) THEN data # None ELSE invalid
        /\ fetch' = IF again THEN Asked ELSE fetch
        /\ missed' = IF fetch # Idle /\ ~again THEN missed \cup {s.id} ELSE missed
    BY <1>2 DEF Settle, counters
  <2>2. /\ CacheType' /\ Applied'
        /\ \A w \in own' : w \in own \/ w = [id |-> s.id, hook |-> s.hook]
        /\ s.hook \in AllHooks
    BY <2>1, Ends
  <2>3. Connected(s.hook, watched)
    BY <2>1, <2>2, Watched, TableConnects DEF CacheInv, CacheType
  <2>. HIDE DEF again
  <2>4. ASSUME NEW w \in own', Due(w)', fetch'.is = "read"
        PROVE  w.id \in fetch'.data
    <3>1. fetch' = fetch /\ ~again /\ fetch # Idle
      BY <2>1, <2>4 DEF Idle, Asked
    <3>2. w \in own /\ Due(w)
      BY <2>1, <2>2, <2>4, <3>1 DEF Due
    <3>. QED
      BY <2>4, <3>1, <3>2 DEF CacheInv, Reflects
  <2>5. ASSUME NEW w \in own', Due(w)', data' # None, ~invalid'
        PROVE  w.id \in data'
    <3>1. ~Refreshes(s.hook, watched) /\ ~invalid
      BY <2>1, <2>5
    <3>2. w \in own /\ Due(w)
      BY <2>1, <2>2, <2>3, <2>5, <3>1 DEF Due, Connected
    <3>. QED
      BY <2>1, <2>5, <3>1, <3>2 DEF CacheInv, Reflects
  <2>. QED
    BY <2>2, <2>4, <2>5 DEF CacheInv, Reflects
<1>3. CASE SettleRotation(s)
  <2>1. /\ s.done /\ End(s) /\ s.hook = UseRotatePersonalAgentToken /\ data' = s.saw
        /\ missed' = missed \cup (IF fetch # Idle THEN {s.id} ELSE {})
                            \cup {w.id : w \in {v \in own : v.id \notin s.saw}}
        /\ UNCHANGED <<watched, page, fetch, written, count>>
    BY <1>3 DEF SettleRotation, Put, counters
  <2>2. /\ CacheType' /\ Applied'
        /\ \A w \in own' : w \in own \/ w = [id |-> s.id, hook |-> s.hook]
    BY <2>1, Ends
  <2>3. s.id \in s.saw
    BY <2>1 DEF CacheInv, Applied
  <2>4. ASSUME NEW w \in own', Due(w)', fetch'.is = "read"
        PROVE  w.id \in fetch'.data
    <3>1. fetch' = fetch /\ fetch # Idle
      BY <2>1, <2>4 DEF Idle
    <3>2. w \in own /\ Due(w)
      BY <2>1, <2>2, <2>4, <3>1 DEF Due
    <3>. QED
      BY <2>4, <3>1, <3>2 DEF CacheInv, Reflects
  <2>5. ASSUME NEW w \in own', Due(w)'
        PROVE  w.id \in data'
    BY <2>1, <2>2, <2>3, <2>5 DEF Due
  <2>. QED
    BY <2>2, <2>4, <2>5 DEF CacheInv, Reflects
<1>. QED
  BY <1>1, <1>2, <1>3

\* Every step keeps the invariant.
LEMMA NextCache == CacheInv /\ [Next]_vars => CacheInv'
<1>. SUFFICES ASSUME CacheInv, [Next]_vars
              PROVE  CacheInv'
  OBVIOUS
<1>1. CASE UNCHANGED vars
  BY <1>1 DEF vars, CacheInv, CacheType, Applied, Reflects, Due
<1>2. CASE Next
  BY <1>2, PageSteps, FetchSteps, WriteSteps, EndSteps DEF Next
<1>. QED
  BY <1>1, <1>2

\* What the user did and saw confirmed is on the screen once the page is at
\* rest, but for the exceptions that ShowsOwnWrites names: the onSuccess of the
\* mutation hooks in apps/web/hooks invalidates what the write changes, and the
\* cache asks for it again.
THEOREM OwnWritesAreShown == Spec => []ShowsOwnWrites
<1>1. CacheInv => ShowsOwnWrites
  BY DEF CacheInv, Reflects, Due, ShowsOwnWrites
<1>. QED
  BY <1>1, InitCache, NextCache, PTL DEF Spec
=============================================================================
