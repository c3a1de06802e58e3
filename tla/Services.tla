------------------------------ MODULE Services ------------------------------
(***************************************************************************)
(* The services of the API that keep rows for people, its stream gateway,  *)
(* live views and clean-up, and the browser's session, each by itself:     *)
(* they share no tables that one changes and another relies on, so a       *)
(* behaviour has one of them in focus and the others stay as they began.   *)
(***************************************************************************)
EXTENDS Requests

CONSTANTS
    Email, Roles,                                    \* Accounts
    Employee, StartTime, Zone, Named, MaxClockRequests, \* TimeTracking
    Kind,                                            \* Records
    MaxEvents, MaxBillingRequests,                   \* Billing
    MaxSockets, MaxFrames, Cap, MaxFaults,           \* Streaming
    Viewer, Device, TTL, MaxOpens,                   \* LiveWatch
    MaxCalls, MaxPeriods,                            \* WebSession
    Replica, Screenshot, Batch, MaxNights, MaxErrors \* Retention

\* Screenshots are numbered from 1, no device has a name with another meaning,
\* a flag lives for a while, the daily cap is not zero, and time is counted from
\* some instant on.
ASSUME ServicesAssumption ==
    /\ {MaxSockets, MaxFaults, MaxErrors} \subseteq Nat
    /\ Screenshot \subseteq Nat \ {0} /\ {"user", "closed"} \cap Device = {}
    /\ TTL \in Nat \ {0} /\ Cap \in Nat \ {0}
    /\ StartTime \cup Zone \cup Named \subseteq Nat

VARIABLES
    focus,
    acct, secret, used, pairs, closed, devices,
    attendance, entries, sheets,
    rows, gone,
    row, customers, checkouts, subs, events, due, disorder,
    up, stage, connections, agentSockets, closing, session, mode, counted, frames, relayed,
    arrived, faults, early, crossed, overlapped,
    view, posts, recent, store, burst, opens, losses, quiet, dark, closes, slow,
    cookie, now, live, issued, calls, asked, refusals, revoked, expired, left, atOnce, lost,
    backend, images, shots, listed, on, imageDone, nights, errors

AC == INSTANCE Accounts
TT == INSTANCE TimeTracking WITH MaxRequests <- MaxClockRequests
RC == INSTANCE Records
BL == INSTANCE Billing WITH MaxRequests <- MaxBillingRequests
ST == INSTANCE Streaming
LW == INSTANCE LiveWatch
WS == INSTANCE WebSession
RT == INSTANCE Retention

\* The tables and memory of each, without the requests they have in common.
accounts == <<acct, secret, used, pairs, closed, devices>>
time     == <<attendance, entries, sheets>>
records  == <<rows, gone>>
billing  == <<row, customers, checkouts, subs, events, due, disorder>>
stream   == <<up, stage, connections, agentSockets, closing, session, mode, counted, frames,
              relayed, arrived, faults, early, crossed, overlapped>>
watch    == <<view, posts, recent, store, burst, opens, losses, quiet, dark, closes, slow>>
browser  == <<cookie, now, live, issued, calls, asked, refusals, revoked, expired, left,
              atOnce, lost>>
cleanup  == <<backend, images, shots, listed, on, imageDone, nights, errors>>

vars == <<requests, focus, accounts, time, records, billing, stream, watch, browser, cleanup>>

Init ==
    /\ focus \in {"accounts", "time", "records", "billing", "streaming", "watch",
                  "session", "retention"}
    /\ AC!Init /\ TT!Init /\ RC!Init /\ BL!Init /\ ST!Init /\ LW!Init /\ WS!Init /\ RT!Init
    /\ focus = "retention" \/ backend = "s3"

Next ==
    /\ UNCHANGED focus
    /\ \/ /\ focus = "accounts" /\ AC!Next
          /\ UNCHANGED <<time, records, billing, stream, watch, browser, cleanup>>
       \/ /\ focus = "time" /\ TT!Next
          /\ UNCHANGED <<accounts, records, billing, stream, watch, browser, cleanup>>
       \/ /\ focus = "records" /\ RC!Next
          /\ UNCHANGED <<accounts, time, billing, stream, watch, browser, cleanup>>
       \/ /\ focus = "billing" /\ BL!Next
          /\ UNCHANGED <<accounts, time, records, stream, watch, browser, cleanup>>
       \/ /\ focus = "streaming" /\ ST!Next
          /\ UNCHANGED <<requests, accounts, time, records, billing, watch, browser, cleanup>>
       \/ /\ focus = "watch" /\ LW!Next
          /\ UNCHANGED <<requests, accounts, time, records, billing, stream, browser, cleanup>>
       \/ /\ focus = "session" /\ WS!Next
          /\ UNCHANGED <<requests, accounts, time, records, billing, stream, watch, cleanup>>
       \/ /\ focus = "retention" /\ RT!Next
          /\ UNCHANGED <<requests, accounts, time, records, billing, stream, watch, browser>>

Spec == Init /\ [][Next]_vars

-----------------------------------------------------------------------------
\* The properties, from the parts the modules explain.

\* What may be used once is: a token from an e-mail lets two requests through
\* only if they overlapped (token.service consume), and a personal agent token
\* registers one device, unless requests overlapped or one failed half-way
\* (agent.service registerAgent).
SecretsAreUsedOnce == AC!OneTimeTokens /\ AC!OneDevicePerToken

\* A refresh token is exchanged twice only by requests that overlapped, and
\* after a logout or a password reset no older one is live, but those of
\* requests under way meanwhile (auth.service refreshTokens, logout).
SessionsEnd == AC!RotationIsLinear /\ AC!ClosedSessionsStayClosed

\* PATCH /users/:id undoes only writes that it overlapped, an organization loses
\* its last admin only by his own request or by two that overlapped, and one
\* address has two accounts only by an invitation or by two sign-ups that
\* overlapped (users.service update, admin.service, auth.service register).
AccountsKeepWrites ==
    AC!SavesUndoOnlyOverlapping /\ AC!LastAdminLeavesByRace /\ []AC!EmailIsOneAccount

\* A user has two attendance rows only by two overlapping requests to clock in,
\* and a closed session has its time entry, but for a request that is under way
\* or failed (time-tracking.service clockIn, clockOut, deleteEntry).
SessionsAreCounted == TT!OneSessionUnlessRaced /\ TT!ClosedSessionIsCounted

\* An approved timesheet changes only by a request that had read it before; a
\* timesheet counts every entry of its seven days but those of requests that it
\* overlapped, whatever day it is submitted for, and of what it counts only
\* entries made by hand go (time-tracking.service submitTimesheet, approve,
\* reject, deleteEntry).
TimesheetsAreFinal == TT!ApprovedIsFinal /\ []TT!CountIsComplete

\* A save loses another's write, and a deleted row comes back, only if the two
\* requests overlapped; no row outlives the one it refers to (the update and
\* delete routes of projects, geofences, rules, webhooks and Slack).
RecordsKeepWrites == RC!NoLostUpdate /\ RC!DeletedStaysDeleted /\ []RC!NoOrphans

\* With events in order the row has Stripe's status, and the organization has
\* two customers there only if the two checkouts that created them overlapped or
\* the earlier failed (billing.service handleWebhook, createCheckoutSession).
StatusFollowsStripe == BL!StatusFollowsStripe /\ BL!OneCustomer

\* A control message reaches a connected agent, and a stream session does not
\* outlive its socket, unless another of its sockets ended, one dropped during
\* the handshake, or a statement failed (streaming.gateway); the daily cap holds
\* for frames handled one by one (streaming.service trackBandwidth).
AgentIsReachable == ST!AgentIsReachable /\ ST!NoGhostSession /\ ST!CapHolds

\* Bursts end when nobody watches, and a live view loses its flag to another's
\* stop for one period at most each (live-watch-cache, streaming.controller,
\* live-screenshot-view).
LiveViewsEnd == LW!BurstsEnd /\ LW!ViewComesBack

\* The dashboard signs out only users whose session ended, whose exchange
\* failed, whose requests overlapped, or whose new token a server component got
\* and could not keep (lib/auth.ts, lib/api.ts, app/page.tsx, live/page.tsx).
SignedOutForAReason == WS!SignedOutForAReason

\* The clean-up leaves no image without a row on S3, and a row without its image
\* is on its way out (maintenance.service).
ImagesHaveRows == RT!ImagesHaveRows /\ RT!RowsHaveImages
=============================================================================
