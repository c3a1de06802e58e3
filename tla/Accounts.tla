------------------------------ MODULE Accounts ------------------------------
(***************************************************************************)
(* Accounts, sessions and one-time tokens of the API, and how an agent     *)
(* gets and uses its device token: auth.service, token.service,            *)
(* users.service, admin.service, AgentService.registerAgent, the JWT,      *)
(* roles and agent guards.  Handlers interleave at every await             *)
(* (Requests).  Times are left out: an entry with a TTL may expire at any  *)
(* moment, and a wrong password or an expired token is a request that ends *)
(* at that await.  A request whose token is gone when it arrives changes   *)
(* nothing and is not modelled.                                            *)
(***************************************************************************)
EXTENDS Requests

CONSTANTS
    Email,   \* the addresses people sign up and are invited with
    Roles    \* the roles an admin may give: UserRole or a part of it

VARIABLES
    acct,     \* the users table: id -> row
    secret,   \* one-time tokens in Redis: [key, purpose, user]
    used,     \* history: <<key, request>> when a token let a request through
    pairs,    \* the token pairs issued, with the state of their refresh_tokens row
    closed,   \* history: completed logouts and password resets, [id, user]
    devices   \* agent_devices: [by, user, with], with the personal token used

vars == <<requests, acct, secret, used, pairs, closed, devices>>

\* A row of users.  by (history) is the request that last wrote active, role
\* or verified, made the one that inserted the row.
User(org, email, role, id, invited) ==
    [org |-> org, email |-> email, role |-> role, active |-> TRUE,
     verified |-> FALSE, token |-> id, by |-> id, made |-> id,
     invited |-> invited]

\* What generateTokens signs and stores: an access token and a refresh token.
TokenPair(id, u, from) ==
    [by |-> id, user |-> u, from |-> from, refresh |-> "live", access |-> TRUE]

\* A workspace with two admins, signed in once each; the second has an agent.
Init ==
    /\ RequestsInit
    /\ acct = [u \in {1, 2} |-> User(1, u, "admin", 0, FALSE)]
    /\ secret = {} /\ used = {} /\ closed = {}
    /\ pairs = {TokenPair(0, 1, 0), TokenPair(0, 2, 0)}
    /\ devices = {[by |-> 0, user |-> 2, with |-> 0]}

-----------------------------------------------------------------------------
\* The handlers: their awaits, in order.

Register         == <<"unique", "insert", "issue">>
Login            == <<"credentials", "issue">>
Logout           == <<"blacklist", "revokeAll">>
RefreshTokens    == <<"stored", "owner", "revoke", "issue">>
VerifyEmail      == <<"get", "del", "verify">>
ResendVerification == <<"unverified", "generate">>
ForgotPassword   == <<"generate">>
ResetPassword    == <<"get", "del", "hash", "purge">>
AcceptInvite     == <<"get", "del", "verify">>
Invite           == <<"uniqueInOrg", "insert", "generate">>
UpdateUser       == <<"load", "save">>
Deactivate       == <<"deactivate">>
ReactivateUser   == <<"reactivate">>
UpdateUserRole   == <<"role">>
RotateAgentToken == <<"rotate">>
GenerateInviteToken == <<"generate">>
RegisterPersonal == <<"holder", "device", "rotate">>
RegisterInvited  == <<"get", "del", "owner", "device", "rotate">>

\* A request: the user it acts for, the user it is about, a token or an
\* address, the role it gives, the purpose of its token, the row it has read.
Request(op, who, on, key, role, purpose, todo) ==
    [id |-> begun + 1, op |-> op, who |-> who, on |-> on, key |-> key,
     role |-> role, purpose |-> purpose, row |-> acct[1], todo |-> todo]

\* JwtStrategy.validate: the access token is not blacklisted, the user active.
Validate(u) ==
    acct[u].active /\ \E p \in pairs : p.user = u /\ p.access

\* RolesGuard, which reads the role of the row that validate has loaded.
IsAdmin(u) == Validate(u) /\ acct[u].role = "admin"

Users == DOMAIN acct

Anonymous ==
    \/ \E e \in Email :
         Arrive(Request("register", 0, begun + 3, e, "admin", "", Register))
    \/ \E u \in Users : Arrive(Request("login", 0, u, 0, "", "", Login))
    \/ \E u \in Users :
         Arrive(Request("forgot", 0, u, 0, "", "reset", ForgotPassword))
    \/ \E p \in pairs : p.refresh = "live"
         /\ Arrive(Request("refresh", 0, p.user, p.by, "", "", RefreshTokens))
    \/ \E t \in secret :
         \/ t.purpose = "verify"
            /\ Arrive(Request("verify", 0, t.user, t.key, "", "verify", VerifyEmail))
         \/ t.purpose = "reset"
            /\ Arrive(Request("reset", 0, t.user, t.key, "", "reset", ResetPassword))
         \/ t.purpose = "invite"
            /\ Arrive(Request("accept", 0, t.user, t.key, "", "invite", AcceptInvite))
         \/ t.purpose = "invite"
            /\ Arrive(Request("agent", 0, t.user, t.key, "", "invite", RegisterInvited))
    \/ \E u \in Users :
         Arrive(Request("agent", 0, u, acct[u].token, "", "", RegisterPersonal))

Own(u) ==
    /\ Validate(u)
    /\ \/ \E p \in pairs : p.user = u /\ p.access
            /\ Arrive(Request("logout", u, u, p.by, "", "", Logout))
       \/ Arrive(Request("resend", u, u, 0, "", "verify", ResendVerification))
       \/ Arrive(Request("token", u, u, 0, "", "invite", GenerateInviteToken))
       \/ Arrive(Request("rotate", u, u, 0, "", "", RotateAgentToken))

Administer(u) ==
    /\ IsAdmin(u)
    /\ \/ \E e \in Email, r \in Roles :
            Arrive(Request("invite", u, begun + 3, e, r, "invite", Invite))
       \/ \E v \in Users : acct[v].org = acct[u].org /\
            \/ \E r \in Roles :
                 \/ Arrive(Request("update", u, v, 0, r, "", UpdateUser))
                 \/ Arrive(Request("role", u, v, 0, r, "", UpdateUserRole))
            \/ v # u /\ Arrive(Request("deactivate", u, v, 0, "", "", Deactivate))
            \/ Arrive(Request("reactivate", u, v, 0, "", "", ReactivateUser))

-----------------------------------------------------------------------------
\* The awaits.

\* register looks for the address in all organizations, invite in its own.
Unique(r) ==
    /\ IsAt(r, "unique")
    /\ IF \E u \in Users : acct[u].email = r.key THEN Stop(r) ELSE GoOn(r)
    /\ UNCHANGED <<acct, secret, used, pairs, closed, devices>>

UniqueInOrg(r) ==
    /\ IsAt(r, "uniqueInOrg")
    /\ IF \E u \in Users : acct[u].org = acct[r.who].org /\ acct[u].email = r.key
         THEN Stop(r) ELSE GoOn(r)
    /\ UNCHANGED <<acct, secret, used, pairs, closed, devices>>

\* The unique index is on (organization_id, email); register has a new one.
Insert(r) ==
    LET org == IF r.op = "invite" THEN acct[r.who].org ELSE r.on
    IN  /\ IsAt(r, "insert")
        /\ IF \E u \in Users : acct[u].org = org /\ acct[u].email = r.key
             THEN Stop(r) /\ UNCHANGED acct
             ELSE /\ GoOn(r)
                  /\ acct' = [u \in Users \cup {r.on} |-> IF u \in Users THEN acct[u]
                       ELSE User(org, r.key, r.role, r.id, r.op = "invite")]
        /\ UNCHANGED <<secret, used, pairs, closed, devices>>

\* login and refreshTokens look the user up and stop if it is not active.
Owner(r) ==
    /\ IsAt(r, "credentials") \/ IsAt(r, "owner")
    /\ IF acct[r.on].active THEN GoOn(r) ELSE Stop(r)
    /\ UNCHANGED <<acct, secret, used, pairs, closed, devices>>

\* generateTokens
Issue(r) ==
    /\ IsAt(r, "issue")
    /\ pairs' = pairs \cup
         {TokenPair(r.id, r.on, IF r.op = "refresh" THEN r.key ELSE r.id)}
    /\ GoOn(r)
    /\ UNCHANGED <<acct, secret, used, closed, devices>>

Stored(r) ==
    /\ IsAt(r, "stored")
    /\ IF \E p \in pairs : p.by = r.key /\ p.user = r.on /\ p.refresh = "live"
         THEN GoOn(r) ELSE Stop(r)
    /\ UNCHANGED <<acct, secret, used, pairs, closed, devices>>

\* The rows of pairs in P that are live get the state s.
Mark(P, s) ==
    pairs' = {IF p \in P /\ p.refresh # "gone" THEN [p EXCEPT !.refresh = s] ELSE p :
                p \in pairs}

Revoke(r) ==
    /\ IsAt(r, "revoke")
    /\ Mark({p \in pairs : p.by = r.key /\ p.user = r.on}, "revoked")
    /\ GoOn(r)
    /\ UNCHANGED <<acct, secret, used, closed, devices>>

\* logout: this access token is refused from now on, then every refresh
\* token of the user is revoked.
Blacklist(r) ==
    /\ IsAt(r, "blacklist")
    /\ pairs' = {IF p.by = r.key /\ p.user = r.on THEN [p EXCEPT !.access = FALSE]
                 ELSE p : p \in pairs}
    /\ GoOn(r)
    /\ UNCHANGED <<acct, secret, used, closed, devices>>

RevokeAll(r) ==
    /\ IsAt(r, "revokeAll")
    /\ Mark({p \in pairs : p.user = r.on}, "revoked")
    /\ closed' = closed \cup {[id |-> r.id, user |-> r.on]}
    /\ GoOn(r)
    /\ UNCHANGED <<acct, secret, used, devices>>

\* resetPassword: a new hash (hashes are not distinguished), then the rows
\* are deleted.
Hash(r) ==
    /\ IsAt(r, "hash") /\ GoOn(r)
    /\ UNCHANGED <<acct, secret, used, pairs, closed, devices>>

MutPurge(r) ==               \* only rows that were revoked are deleted
    /\ IsAt(r, "purge")
    /\ Mark({p \in pairs : p.user = r.on /\ p.refresh = "revoked"}, "gone")
    /\ closed' = closed \cup {[id |-> r.id, user |-> r.on]}
    /\ GoOn(r)
    /\ UNCHANGED <<acct, secret, used, devices>>

Purge(r) ==
    /\ IsAt(r, "purge")
    /\ Mark({p \in pairs : p.user = r.on}, "gone")
    /\ closed' = closed \cup {[id |-> r.id, user |-> r.on]}
    /\ GoOn(r)
    /\ UNCHANGED <<acct, secret, used, devices>>

Generate(r) ==
    /\ IsAt(r, "generate")
    /\ secret' = secret \cup {[key |-> r.id, purpose |-> r.purpose, user |-> r.on]}
    /\ GoOn(r)
    /\ UNCHANGED <<acct, used, pairs, closed, devices>>

\* consume: two calls of Redis.
GetToken(r) ==
    /\ IsAt(r, "get")
    /\ IF \E t \in secret : t.key = r.key THEN GoOn(r) ELSE Stop(r)
    /\ UNCHANGED <<acct, secret, used, pairs, closed, devices>>

MutDelToken(r) ==            \* the token is left for its TTL
    /\ IsAt(r, "del") /\ GoOn(r)
    /\ used' = used \cup {<<r.key, r.id>>}
    /\ UNCHANGED <<acct, secret, pairs, closed, devices>>

DelToken(r) ==
    /\ IsAt(r, "del")
    /\ secret' = {t \in secret : t.key # r.key}
    /\ used' = used \cup {<<r.key, r.id>>}
    /\ GoOn(r)
    /\ UNCHANGED <<acct, pairs, closed, devices>>

\* An UPDATE of one row by request r.
Set(r, row) ==
    /\ acct' = [acct EXCEPT ![r.on] = [row EXCEPT !.by = r.id]]
    /\ GoOn(r)
    /\ UNCHANGED <<secret, used, pairs, closed, devices>>

Verify(r) == IsAt(r, "verify") /\ Set(r, [acct[r.on] EXCEPT !.verified = TRUE])

Unverified(r) ==
    /\ IsAt(r, "unverified")
    /\ IF acct[r.on].verified THEN Stop(r) ELSE GoOn(r)
    /\ UNCHANGED <<acct, secret, used, pairs, closed, devices>>

\* update: the row is loaded, and what differs from the table when it is
\* saved is written, the columns that the request did not name included.
\* agent_token is not among those that are loaded.
LoadUser(r) ==
    /\ IsAt(r, "load")
    /\ GoOnAs(r, [r EXCEPT !.row = acct[r.on]])
    /\ UNCHANGED <<acct, secret, used, pairs, closed, devices>>

MutSaveUser(r) ==            \* columns that were not sent get their defaults
    IsAt(r, "save") /\ Set(r, [acct[r.on] EXCEPT !.role = r.role, !.active = TRUE,
                                                 !.verified = FALSE])

SaveUser(r) ==
    IsAt(r, "save") /\ Set(r, [r.row EXCEPT !.role = r.role, !.token = acct[r.on].token])

DeactivateUser(r) ==
    IsAt(r, "deactivate") /\ Set(r, [acct[r.on] EXCEPT !.active = FALSE])

Reactivate(r) ==
    IsAt(r, "reactivate") /\ Set(r, [acct[r.on] EXCEPT !.active = TRUE])

SetRole(r) == IsAt(r, "role") /\ Set(r, [acct[r.on] EXCEPT !.role = r.role])

Holder(r) ==
    /\ IsAt(r, "holder")
    /\ IF acct[r.on].token = r.key /\ acct[r.on].active THEN GoOn(r) ELSE Stop(r)
    /\ UNCHANGED <<acct, secret, used, pairs, closed, devices>>

\* with is the personal token, or -1 for a registration by invite token.
CreateDevice(r) ==
    /\ IsAt(r, "device")
    /\ devices' = devices \cup
         {[by |-> r.id, user |-> r.on,
           with |-> IF r.purpose = "" THEN r.key ELSE 0 - 1]}
    /\ GoOn(r)
    /\ UNCHANGED <<acct, secret, used, pairs, closed>>

Rotate(r) ==
    /\ IsAt(r, "rotate")
    /\ acct' = [acct EXCEPT ![r.on].token = r.id]
    /\ GoOn(r)
    /\ UNCHANGED <<secret, used, pairs, closed, devices>>

Handle(r) ==
    /\ \/ Unique(r) \/ UniqueInOrg(r) \/ Insert(r) \/ Owner(r) \/ Issue(r)
       \/ Stored(r) \/ Revoke(r) \/ Blacklist(r) \/ RevokeAll(r) \/ Hash(r)
       \/ Purge(r) \/ Generate(r) \/ GetToken(r) \/ DelToken(r) \/ Verify(r)
       \/ Unverified(r) \/ LoadUser(r) \/ SaveUser(r) \/ DeactivateUser(r)
       \/ Reactivate(r) \/ SetRole(r) \/ Holder(r) \/ CreateDevice(r) \/ Rotate(r)
       \/ Throw(r) /\ UNCHANGED <<acct, secret, used, pairs, closed, devices>>

Next ==
    \/ /\ Anonymous \/ \E u \in Users : Own(u) \/ Administer(u)
       /\ UNCHANGED <<acct, secret, used, pairs, closed, devices>>
    \/ \E r \in flight : Handle(r)

Spec == Init /\ [][Next]_vars

-----------------------------------------------------------------------------
\* A one-time token (verification, reset, invitation) lets two requests
\* through only if the two were handled at the same time: consume gets and
\* deletes the key in two calls of Redis.
OneTimeTokens ==
    \A x, y \in used : x[1] = y[1] /\ x # y => Overlapped(x[2], y[2])

\* A refresh token is exchanged for two pairs only by requests that were
\* handled at the same time: refreshTokens finds it unrevoked and revokes it
\* two awaits later.
RotationIsLinear ==
    \A p, q \in pairs :
        p.from = q.from /\ p.user = q.user /\ p # q /\ p.from # p.by /\ q.from # q.by
            => Overlapped(p.by, q.by)

\* After a logout or a password reset the user's live refresh tokens are of
\* later requests, or of requests that were under way meanwhile (a refresh or
\* login that had passed its check stores its token after the revocation).
ClosedSessionsStayClosed ==
    \A c \in closed, p \in pairs :
        p.user = c.user /\ p.refresh = "live" => p.by > c.id \/ Overlapped(p.by, c.id)

\* A personal agent token registers one device: registerAgent burns it at the
\* end, so a second device needs a request that overlapped the first or one
\* that failed between inserting the device and rotating the token.
OneDevicePerToken ==
    \A d, e \in devices :
        d.with = e.with /\ d.user = e.user /\ d # e /\ d.with >= 0
            => Overlapped(d.by, e.by) \/ {d.by, e.by} \cap (failed \cup {0}) # {}

\* One address has two accounts only by an invitation into another
\* organization (the unique index is per organization) or by two sign-ups
\* handled at the same time.
EmailIsOneAccount ==
    \A u, v \in Users :
        u # v /\ acct[u].email = acct[v].email
            => acct[u].invited \/ acct[v].invited
               \/ Overlapped(acct[u].made, acct[v].made)

\* PATCH /users/:id saves the row it has loaded: it changes a user's active or
\* verified flag, which it was not asked to, only back over a write of a
\* request that it overlapped.
SavesUndoOnlyOverlapping ==
    [][\A r \in flight, u \in Users :
        r.op = "update" /\ Ends(r)
        /\ (acct'[u].active # acct[u].active \/ acct'[u].verified # acct[u].verified)
            => Overlapped(r.id, acct[u].by)]_vars

HasAdmin(a, o) == \E u \in DOMAIN a : a[u].org = o /\ a[u].active /\ a[u].role = "admin"

\* An organization loses its last active admin only by an admin's request
\* about himself (a change of his own role) or by a request that overlapped
\* the one that took his own rights: two admins who deactivate each other.
LastAdminLeavesByRace ==
    [][\A o \in {acct[u].org : u \in Users} :
        HasAdmin(acct, o) /\ ~HasAdmin(acct', o)
            => \E r \in flight : Ends(r)
                 /\ (r.who = r.on \/ Overlapped(r.id, acct[r.who].by))]_vars

=============================================================================
