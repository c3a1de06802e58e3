----------------------------- MODULE WebSession -----------------------------
(***************************************************************************)
(* The session of one browser.  NextAuth keeps the API's access and        *)
(* refresh token in a cookie, and its jwt callback exchanges the refresh   *)
(* token when the access token is about to expire.  Three ask for the      *)
(* session: the interceptor before every request to the API, of which a    *)
(* page sends several at once; SessionProvider, when it mounts and on      *)
(* focus; and the server components of / and /live.  The answer to the     *)
(* first two sets the cookie to what the callback made of the cookie that  *)
(* the request carried; a server component cannot set one.                 *)
(***************************************************************************)
EXTENDS Naturals, FiniteSets

CONSTANTS
    MaxCalls,    \* bound: requests to the API
    MaxPeriods,  \* bound: times an access token comes close to its end
    MaxFaults    \* bound: exchanges that fail though the token is good

VARIABLES
    cookie,    \* the session: [period, refresh, error], or NoCookie
    now,       \* the period of access tokens that are not about to expire
    live,      \* refresh tokens that the API accepts
    issued,    \* how many it issued
    calls,     \* under way: [id, by, at, jwt], jwt the cookie it carries
    asked, refusals,
    revoked,   \* history: the API closed the account's sessions
    expired,   \* history: a refresh token was not used for seven days
    left,      \* history: the user signed out
    atOnce,    \* history: two requests asked for the session at the same time
    lost       \* history: a server component exchanged the refresh token

vars == <<cookie, now, live, issued, calls, asked, refusals, revoked, expired, left,
          atOnce, lost>>

NoCookie == [period |-> 0, refresh |-> 0, error |-> FALSE]
Token(p, r) == [period |-> p, refresh |-> r, error |-> FALSE]

\* authorize and the first jwt callback: the user has just signed in.
Init ==
    /\ cookie = Token(1, 1) /\ now = 1 /\ live = {1} /\ issued = 1
    /\ calls = {} /\ asked = 0 /\ refusals = 0
    /\ revoked = FALSE /\ expired = FALSE
    /\ left = FALSE /\ atOnce = FALSE /\ lost = FALSE

API    == <<live, issued, revoked, expired>>
counts == <<asked, refusals, left, atOnce, lost>>

\* getSession of the interceptor and of SessionProvider, getServerSession of
\* the pages.
AskSession(by) ==
    /\ cookie # NoCookie /\ asked < MaxCalls
    /\ asked' = asked + 1
    /\ calls' = calls \cup {[id |-> asked + 1, by |-> by, at |-> "jwt", jwt |-> cookie]}
    /\ atOnce' = (atOnce \/ \E c \in calls : c.at # "api")
    /\ UNCHANGED <<API, cookie, now, refusals, left, lost>>

To(c, at, jwt) == calls' = (calls \ {c}) \cup {[c EXCEPT !.at = at, !.jwt = jwt]}

\* The jwt callback: a token that is not about to expire is kept.
Keep(c) ==
    /\ c.at = "jwt" /\ c.jwt.period = now
    /\ To(c, "answer", c.jwt)
    /\ UNCHANGED <<API, cookie, now, counts>>

\* refreshAccessToken.  The API finds the token, then replaces it; a second
\* exchange that finds it meanwhile gets a token of its own.
Find(c) ==
    /\ c.at = "jwt" /\ c.jwt.period # now /\ c.jwt.refresh \in live
    /\ To(c, "replace", c.jwt)
    /\ UNCHANGED <<API, cookie, now, counts>>

MutRefreshed(jwt, p, r) == [jwt EXCEPT !.period = p]     \* the new token is not kept

\* What it returns on success; an error that the token has stays there.
Refreshed(jwt, p, r) == [jwt EXCEPT !.period = p, !.refresh = r]

Replace(c) ==
    /\ c.at = "replace"
    /\ issued' = issued + 1
    /\ live' = (live \ {c.jwt.refresh}) \cup (IF revoked THEN {} ELSE {issued + 1})
    /\ To(c, "answer", Refreshed(c.jwt, now, issued + 1))
    /\ lost' = (lost \/ c.by = "page")
    /\ UNCHANGED <<cookie, now, revoked, expired, asked, refusals, left, atOnce>>

Failed(c) ==
    /\ c.at = "jwt" /\ c.jwt.period # now
    /\ \/ c.jwt.refresh \notin live /\ UNCHANGED refusals
       \/ refusals < MaxFaults /\ refusals' = refusals + 1
    /\ To(c, "answer", [c.jwt EXCEPT !.error = TRUE])
    /\ UNCHANGED <<API, cookie, now, asked, left, atOnce, lost>>

SignedOut == cookie' = NoCookie

\* The answer's cookie is set.  If it has an error the interceptor signs out;
\* SessionProvider only shows the session.
GetSession(c) ==
    /\ c.at = "answer" /\ cookie # NoCookie
    /\ \/ c.by = "api" /\ c.jwt.error /\ SignedOut /\ calls' = calls \ {c}
       \/ c.by = "api" /\ ~c.jwt.error /\ cookie' = c.jwt /\ To(c, "api", c.jwt)
       \/ c.by = "provider" /\ cookie' = c.jwt /\ calls' = calls \ {c}
    /\ UNCHANGED <<API, now, counts>>

\* The page is rendered, or redirects, with the session that the callback made;
\* nothing keeps it: the browser has its cookie of before.
RenderPage(c) ==
    /\ c.at = "answer" /\ c.by = "page" /\ calls' = calls \ {c}
    /\ UNCHANGED <<API, cookie, now, counts>>

\* The API's answer: 401 signs out.  Access tokens outlive their period by
\* the five minutes that the callback leaves them.
Called(c) ==
    /\ c.at = "api" /\ calls' = calls \ {c}
    /\ IF revoked THEN SignedOut ELSE UNCHANGED cookie
    /\ UNCHANGED <<API, now, counts>>

\* The page is gone after a sign-out, and its requests with it.
Unload == cookie = NoCookie /\ calls # {} /\ calls' = {} /\ UNCHANGED <<API, cookie, now, counts>>

NearExpiry ==
    /\ now < MaxPeriods /\ \A c \in calls : c.at # "api"
    /\ now' = now + 1
    /\ UNCHANGED <<API, cookie, calls, counts>>

\* Password reset or deactivation, elsewhere.
Revoke ==
    /\ ~revoked /\ revoked' = TRUE /\ live' = {}
    /\ UNCHANGED <<issued, expired, cookie, now, calls, counts>>

\* expiresAt: the API takes a refresh token for seven days.
Expire(t) ==
    /\ live' = live \ {t} /\ expired' = TRUE
    /\ UNCHANGED <<issued, revoked, cookie, now, calls, counts>>

\* The header's sign-out; the API is not told.
SignOut ==
    /\ cookie # NoCookie
    /\ SignedOut /\ left' = TRUE
    /\ UNCHANGED <<API, now, calls, asked, refusals, atOnce, lost>>

Next ==
    \/ \E by \in {"api", "provider", "page"} : AskSession(by)
    \/ NearExpiry \/ Revoke \/ (\E t \in live : Expire(t)) \/ SignOut \/ Unload
    \/ \E c \in calls : \/ Keep(c) \/ Find(c) \/ Replace(c) \/ Failed(c)
                        \/ GetSession(c) \/ RenderPage(c) \/ Called(c)

Spec == Init /\ [][Next]_vars

-----------------------------------------------------------------------------
\* The dashboard throws its user out only if the API closed the session, the
\* refresh token was not used for seven days, an exchange of tokens failed, two
\* requests asked for the session at the same time (both may carry the token
\* that only one can exchange, or an answer to the earlier overwrites the cookie
\* of the later), or a server component made the exchange and the new token was
\* lost with its answer.  A user whose requests come one at a time stays signed
\* in as long as none of them is for / or /live when the token is due.
SignedOutForAReason ==
    cookie = NoCookie =>
        left \/ revoked \/ expired \/ refusals > 0 \/ atOnce \/ lost
=============================================================================
