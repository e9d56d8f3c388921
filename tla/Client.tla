-------------------------------- MODULE Client --------------------------------
(***************************************************************************)
(* The session of the native client: who is signed in as far as the pages  *)
(* know (AuthProvider, LoginPage, RequireAuth), the query cache, and the   *)
(* media token the <audio> URLs carry (shared/api/client.ts), against      *)
(* requests that are answered late, refused or lost.                       *)
(*                                                                         *)
(* A request is sent with the cookie the browser holds at that moment and  *)
(* answered in a later step, in any order.  Sessions are numbered in the   *)
(* order of their logins; 0 is no session and no token.                    *)
(***************************************************************************)
EXTENDS Naturals, Sequences, FiniteSets

CONSTANTS
    Users,
    Nobody,
    TTL,           \* expires_in of a media token, in ticks
    Margin,        \* MEDIA_TOKEN_REFRESH_MARGIN_MS, in ticks
    Period,        \* the interval of the poll, in ticks
    MaxSessions,   \* bound of the model: logins
    MaxFlight      \* bound of the model: requests in flight

ASSUME ClientAssumption ==
    /\ Nobody \notin Users
    /\ TTL \in Nat /\ Margin \in 1..(TTL - 1)
    /\ Period \in Nat \ {0} /\ 2 * Period <= Margin
    /\ MaxSessions \in Nat \ {0} /\ MaxFlight \in Nat

VARIABLES
    owner, live,       \* the server's sessions: their accounts, those it accepts
    cookie,            \* the session the browser's cookie names
    user,              \* the signed-in user, and its copy in localStorage
    loading, form,     \* whoami has not settled; the app was opened on /login
    busy,              \* the login form waits for its answer
    token, age,        \* mediaToken, by its session, and the ticks since it was minted
    wait,              \* the ticks to the next poll, while signed in
    cache,             \* the accounts whose data the query cache holds
    flight             \* the requests in flight

server == <<owner, live>>
vars == <<server, cookie, user, loading, form, busy, token, age, wait, cache, flight>>

Sessions == 0..MaxSessions
Request  == [kind : {"whoami", "login", "logout", "token", "query", "detached"},
             as : Sessions, name : Users \cup {Nobody}]

TypeOK ==
    /\ owner \in Seq(Users) /\ Len(owner) <= MaxSessions /\ live \subseteq DOMAIN owner
    /\ cookie \in 0..Len(owner)
    /\ user \in Users \cup {Nobody}
    /\ loading \in BOOLEAN /\ form \in BOOLEAN /\ busy \in BOOLEAN
    /\ token \in 0..Len(owner) /\ age \in 0..TTL /\ (token = 0 => age = 0)
    /\ wait \in 0..Period
    /\ cache \subseteq Users
    /\ flight \subseteq Request

-------------------------------------------------------------------------------
(* Requests *)

Sent(kind, as, name) == [kind |-> kind, as |-> as, name |-> name]

\* (mutant) The cached data goes, the fetches under way still land in the cache.
KeepFetches(F) == F

\* queryClient.clear(): the fetches under way no longer have a query to fill.
Detached(F) == {IF r.kind = "query" THEN [r EXCEPT !.kind = "detached"] ELSE r : r \in F}

\* The server refuses a session it does not accept; a fetch may always fail.
Refusable(r) == r.as \notin live

\* onUnauthorized, called by json() for a 401 of any request: the poll stops with
\* the user, the media token stays.
Unauthorized(F) ==
    /\ user' = Nobody /\ wait' = 0 /\ cache' = {}
    /\ flight' = Detached(F)

Rest(r) == flight \ {r}

-------------------------------------------------------------------------------
(* The media token *)

\* (mutant) The token is fetched again once it has expired.
FreshToTheEnd(a) == token # 0 /\ a < TTL

Fresh(a) == token # 0 /\ a < TTL - Margin

Forced(as) == {Sent("token", as, Nobody)}

\* ensureMediaToken at an age of the token: what it adds to the requests in flight.
Ensure(a, as) == IF Fresh(a) THEN {} ELSE Forced(as)

TokenMinted(r) ==
    /\ r.kind = "token" /\ r.as \in live
    /\ token' = r.as /\ age' = 0
    /\ flight' = Rest(r)
    /\ UNCHANGED <<server, cookie, user, loading, form, busy, wait, cache>>

\* clearMediaToken
DropToken == token' = 0 /\ age' = 0

\* A failed fetch drops the token it could not replace, even a live one.
TokenFailed(r) ==
    /\ r.kind = "token"
    /\ DropToken
    /\ \/ flight' = Rest(r) /\ UNCHANGED <<user, wait, cache>>
       \/ Refusable(r) /\ Unauthorized(Rest(r))
    /\ UNCHANGED <<server, cookie, loading, form, busy>>

\* Time passes between any two steps, while a token is on its way too: but a start
\* takes less than a tick, and a poll that is due is not put off.
Tick ==
    /\ \A r \in flight : r.kind # "whoami"
    /\ user = Nobody \/ wait > 0
    /\ age' = IF token = 0 \/ age = TTL THEN age ELSE age + 1
    /\ wait' = IF user = Nobody THEN wait ELSE wait - 1
    /\ UNCHANGED <<server, cookie, user, loading, form, busy, token, cache, flight>>

\* The interval of a signed-in user fires: the token asked for before has settled.
Poll ==
    /\ user # Nobody /\ wait = 0
    /\ \A r \in flight : r.kind # "token"
    /\ wait' = Period
    /\ flight' = flight \cup Ensure(age, cookie)
    /\ UNCHANGED <<server, cookie, user, loading, form, busy, token, age, cache>>

-------------------------------------------------------------------------------
(* AuthProvider *)

WhoamiOk(r) ==
    /\ r.kind = "whoami" /\ r.as \in live
    /\ user' = owner[r.as] /\ wait' = Period /\ loading' = FALSE
    /\ flight' = Rest(r) \cup Ensure(age, cookie)
    /\ UNCHANGED <<server, cookie, form, busy, token, age, cache>>

WhoamiRefused(r) ==
    /\ r.kind = "whoami" /\ Refusable(r)
    /\ Unauthorized(Rest(r))
    /\ loading' = FALSE
    /\ UNCHANGED <<server, cookie, form, busy, token, age>>

\* (mutant) Any error drops the cached user.
AfterNone == Nobody

\* Without the network the cached user stays signed in.
AfterFailure == user

WhoamiFailed(r) ==
    /\ r.kind = "whoami"
    /\ user' = AfterFailure /\ loading' = FALSE
    /\ flight' = Rest(r)
    /\ UNCHANGED <<server, cookie, form, busy, token, age, wait, cache>>

LoginOk(r) ==
    /\ r.kind = "login" /\ Len(owner) < MaxSessions
    /\ owner' = Append(owner, r.name) /\ live' = live \cup {Len(owner')}
    /\ cookie' = Len(owner')
    /\ user' = r.name /\ wait' = Period /\ cache' = {} /\ busy' = FALSE
    /\ flight' = Detached(Rest(r)) \cup Forced(cookie')
    /\ UNCHANGED <<loading, form, token, age>>

\* A wrong password is a 401 like any other.
LoginRefused(r) ==
    /\ r.kind = "login" /\ busy' = FALSE
    /\ \/ flight' = Rest(r) /\ UNCHANGED <<user, wait, cache>>
       \/ Unauthorized(Rest(r))
    /\ UNCHANGED <<server, cookie, loading, form, token, age>>

\* Whatever became of the request, the local state goes.
LogoutDone(r) ==
    /\ r.kind = "logout"
    /\ \/ live' = live \ {r.as} /\ cookie' = 0
       \/ UNCHANGED <<live, cookie>>
    /\ DropToken /\ user' = Nobody /\ wait' = 0 /\ cache' = {}
    /\ flight' = Detached(Rest(r))
    /\ UNCHANGED <<owner, loading, form, busy>>

-------------------------------------------------------------------------------
(* The pages *)

\* RequireAuth shows a page.
InApp == ~loading /\ user # Nobody

\* LoginPage shows its form: also while whoami is under way.
LoginForm == IF loading THEN form ELSE user = Nobody

Submit(u) ==
    /\ LoginForm /\ ~busy
    /\ Len(owner) < MaxSessions /\ Cardinality(flight) < MaxFlight
    /\ busy' = TRUE
    /\ flight' = flight \cup {Sent("login", cookie, u)}
    /\ UNCHANGED <<server, cookie, user, loading, form, token, age, wait, cache>>

Logout ==
    /\ InApp /\ Cardinality(flight) < MaxFlight
    /\ flight' = flight \cup {Sent("logout", cookie, Nobody)}
    /\ UNCHANGED <<server, cookie, user, loading, form, busy, token, age, wait, cache>>

\* A page asks for the account's data.
Query ==
    /\ InApp /\ Cardinality(flight) < MaxFlight
    /\ flight' = flight \cup {Sent("query", cookie, Nobody)}
    /\ UNCHANGED <<server, cookie, user, loading, form, busy, token, age, wait, cache>>

QueryOk(r) ==
    /\ r.kind \in {"query", "detached"} /\ r.as \in live
    /\ cache' = IF r.kind = "query" THEN cache \cup {owner[r.as]} ELSE cache
    /\ flight' = Rest(r)
    /\ UNCHANGED <<server, cookie, user, loading, form, busy, token, age, wait>>

QueryFailed(r) ==
    /\ r.kind \in {"query", "detached"}
    /\ \/ flight' = Rest(r) /\ UNCHANGED <<user, wait, cache>>
       \/ Refusable(r) /\ Unauthorized(Rest(r))
    /\ UNCHANGED <<server, cookie, loading, form, busy, token, age>>

\* The server ends a session: its refresh failed, or it was revoked elsewhere.
SessionDies(s) ==
    /\ s \in live /\ live' = live \ {s}
    /\ UNCHANGED <<owner, cookie, user, loading, form, busy, token, age, wait, cache, flight>>

-------------------------------------------------------------------------------

\* A start: what the last run left in the cookie jar and in localStorage.
Init ==
    /\ \E u \in Users : owner = <<u>> /\ user \in {Nobody, u}
    /\ live \in SUBSET {1} /\ cookie \in {0, 1}
    /\ loading = TRUE /\ form \in BOOLEAN /\ busy = FALSE
    /\ token = 0 /\ age = 0 /\ cache = {}
    /\ wait = IF user = Nobody THEN 0 ELSE Period
    /\ flight = {Sent("whoami", cookie, Nobody)}

Answer(r) ==
    \/ TokenMinted(r) \/ TokenFailed(r)
    \/ WhoamiOk(r) \/ WhoamiRefused(r) \/ WhoamiFailed(r)
    \/ LoginOk(r) \/ LoginRefused(r) \/ LogoutDone(r)
    \/ QueryOk(r) \/ QueryFailed(r)

Network == \E r \in flight : Answer(r)

Next ==
    \/ Network
    \/ Tick \/ Poll \/ Logout \/ Query
    \/ (\E u \in Users : Submit(u))
    \/ (\E s \in DOMAIN owner : SessionDies(s))

Spec == Init /\ [][Next]_vars

-------------------------------------------------------------------------------
(* Properties *)

\* The cache never holds the data of two accounts: what was asked for under one
\* cookie does not arrive in the pages of the next.
OneAccount == Cardinality(cache) <= 1

\* A signed-in client never plays with an expired token of its own session: a poll
\* finds it in its margin, and the answer to that poll is there before the expiry.
NoDeadToken == InApp /\ token # 0 /\ token = cookie => age < TTL

\* A failed fetch signs nobody out: it takes the user's own logout, a rejected
\* login, or an answer about a session the server does not accept.
SignedOutForCause ==
    [][user # Nobody /\ user' = Nobody =>
          \E r \in flight \ flight' : r.kind \in {"login", "logout"} \/ r.as \notin live]_vars

===============================================================================
