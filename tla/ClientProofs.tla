------------------------------ MODULE ClientProofs ------------------------------
(***************************************************************************)
(* The client's session is sound for any number of accounts, logins and    *)
(* requests in flight, and any life of the media token beyond its margin.  *)
(***************************************************************************)
EXTENDS Client, FiniteSetTheorems, TLAPS

\* A fetch that may still fill the cache was sent under the cookie of today.
OwnQueries == \A r \in flight : r.kind = "query" => r.as = cookie

\* A login is for an account.
Named == \A r \in flight : r.kind = "login" => r.name \in Users

\* What the cache holds is of the account the cookie names.
OwnCache == \A u \in cache : cookie # 0 /\ u = owner[cookie]

\* whoami settles before the first token ages.
BootFirst == \A r \in flight : r.kind = "whoami" => age = 0

\* Once a poll has found the token of the cookie in its margin, a new one is on the
\* way; until then the token comes at most one poll deep into the margin.
Renewed ==
    user # Nobody /\ token # 0 /\ token = cookie =>
        \/ age + wait < TTL - Margin + Period
        \/ /\ age + wait < TTL - Margin + 2 * Period
           /\ \E r \in flight : r.kind = "token"

IInv == TypeOK /\ OwnQueries /\ Named /\ OwnCache /\ BootFirst /\ Renewed

-------------------------------------------------------------------------------

\* A request that is sent is a request.
LEMMA SentType ==
    ASSUME NEW k \in {"whoami", "login", "logout", "token", "query", "detached"},
           NEW as \in Sessions, NEW n \in Users \cup {Nobody}
    PROVE  Sent(k, as, n) \in Request /\ Sent(k, as, n).kind = k /\ Sent(k, as, n).as = as
BY DEF Sent, Request

\* Clearing the cache leaves no fetch that could fill it, and the others alone.
LEMMA DetachedFacts ==
    ASSUME NEW F \in SUBSET Request
    PROVE  /\ Detached(F) \subseteq Request
           /\ \A r \in Detached(F) : r.kind # "query"
           /\ \A r \in Detached(F) : r.kind # "detached" => r \in F
           /\ \A r \in Detached(F) \ F : \E q \in F : q.kind = "query" /\ q.as = r.as
           /\ \A r \in F : r.kind # "query" => r \in Detached(F)
<1>1. ASSUME NEW x \in Detached(F)
      PROVE  /\ x \in Request /\ x.kind # "query" /\ (x.kind # "detached" => x \in F)
             /\ x \notin F => \E q \in F : q.kind = "query" /\ q.as = x.as
  <2>1. PICK r \in F : x = IF r.kind = "query" THEN [r EXCEPT !.kind = "detached"] ELSE r
    BY DEF Detached
  <2>2. CASE r.kind = "query"
    <3>1. x \in Request /\ x.kind = "detached" /\ x.as = r.as
      BY <2>1, <2>2 DEF Request
    <3> QED
      BY <2>2, <3>1
  <2> QED
    BY <2>1, <2>2
<1>2. \A r \in F : r.kind # "query" => r \in Detached(F)
  BY DEF Detached
<1> QED
  BY <1>1, <1>2

\* The requests an ensureMediaToken adds ask for a token.
LEMMA EnsureFacts ==
    ASSUME NEW a, NEW as \in Sessions
    PROVE  /\ Ensure(a, as) \subseteq Request
           /\ \A r \in Ensure(a, as) : r.kind = "token"
           /\ ~Fresh(a) => \E r \in Ensure(a, as) : r.kind = "token"
<1>1. Sent("token", as, Nobody) \in Request /\ Sent("token", as, Nobody).kind = "token"
  BY DEF Sent, Request
<1> QED
  BY <1>1 DEF Ensure, Forced

\* The session of a cookie is one of the sessions.
LEMMA Bounds ==
    ASSUME TypeOK
    PROVE  cookie \in Sessions /\ token \in Sessions /\ Len(owner) \in Nat
           /\ DOMAIN owner = 1..Len(owner)
BY ClientAssumption DEF TypeOK, Sessions

-------------------------------------------------------------------------------

LEMMA InitHolds == Init => IInv
<1> SUFFICES ASSUME Init PROVE IInv
  OBVIOUS
<1>1. PICK u \in Users : owner = <<u>> /\ user \in {Nobody, u}
  BY DEF Init
<1>2. owner \in Seq(Users) /\ Len(owner) = 1 /\ DOMAIN owner = {1}
  BY <1>1
<1>3. cookie \in Sessions /\ Sent("whoami", cookie, Nobody) \in Request
  BY ClientAssumption DEF Init, Sessions, Sent, Request
<1>4. live \subseteq DOMAIN owner /\ cookie \in 0..Len(owner) /\ 1 <= MaxSessions
  BY <1>2, ClientAssumption DEF Init
<1>5. /\ user \in Users \cup {Nobody} /\ loading \in BOOLEAN /\ form \in BOOLEAN
      /\ busy \in BOOLEAN /\ cache \subseteq Users /\ flight \subseteq Request
  BY <1>1, <1>3 DEF Init
<1>8. wait \in 0..Period
  BY ClientAssumption DEF Init
<1>6. token \in 0..Len(owner) /\ age \in 0..TTL /\ (token = 0 => age = 0)
  BY <1>2, ClientAssumption DEF Init
<1>7. TypeOK
  BY <1>2, <1>4, <1>5, <1>6, <1>8 DEF TypeOK
<1> QED
  BY <1>3, <1>7, ClientAssumption
  DEF Sent, IInv, OwnQueries, Named, OwnCache, BootFirst, Renewed, Init

\* Signing out leaves nothing of the account behind.
LEMMA UnauthorizedKeeps ==
    ASSUME IInv, NEW F \in SUBSET flight, Unauthorized(F),
           UNCHANGED <<server, cookie, form, busy, token, age>>, loading' \in BOOLEAN
    PROVE  IInv'
<1>1. F \subseteq Request
  BY DEF IInv, TypeOK
<1>2. flight' = Detached(F) /\ user' = Nobody /\ wait' = 0 /\ cache' = {}
  BY DEF Unauthorized
<1>3. /\ flight' \subseteq Request
      /\ \A r \in flight' : r.kind # "query"
      /\ \A r \in flight' : r.kind \in {"whoami", "login"} => r \in flight
  BY <1>1, <1>2, DetachedFacts
<1>4. TypeOK'
  BY <1>2, <1>3, ClientAssumption DEF IInv, TypeOK, server
<1>5. OwnQueries' /\ OwnCache' /\ Renewed'
  BY <1>2, <1>3 DEF OwnQueries, OwnCache, Renewed
<1>6. BootFirst'
  BY <1>3 DEF IInv, BootFirst
<1>7. Named'
  BY <1>3 DEF IInv, Named
<1> QED
  BY <1>4, <1>5, <1>6, <1>7 DEF IInv

\* A request that is answered goes; nothing else moves.
LEMMA RestKeeps ==
    ASSUME IInv, NEW r \in flight, r.kind # "token", flight' = Rest(r),
           UNCHANGED <<server, cookie, user, token, age, wait, cache>>,
           loading' \in BOOLEAN, form' \in BOOLEAN, busy' \in BOOLEAN
    PROVE  IInv'
<1>1. flight' \subseteq flight /\ \A q \in flight : q.kind = "token" => q \in flight'
  BY DEF Rest
<1>2. TypeOK'
  BY <1>1 DEF IInv, TypeOK, server
<1>3. OwnQueries' /\ Named' /\ OwnCache' /\ BootFirst'
  BY <1>1 DEF IInv, OwnQueries, Named, OwnCache, BootFirst, server
<1>4. Renewed'
  BY <1>1 DEF IInv, Renewed
<1> QED
  BY <1>2, <1>3, <1>4 DEF IInv

-------------------------------------------------------------------------------

\* Every step keeps the invariant.
LEMMA StepKeeps == IInv /\ [Next]_vars => IInv'
<1> SUFFICES ASSUME IInv, [Next]_vars PROVE IInv'
  OBVIOUS
<1> USE Bounds, ClientAssumption
<1>b. /\ TypeOK /\ cookie \in Sessions /\ token \in Sessions /\ Len(owner) \in Nat
      /\ DOMAIN owner = 1..Len(owner) /\ flight \subseteq Request
      /\ 0 \in 0..Period /\ Period \in 0..Period
  BY DEF IInv, TypeOK
<1>1. ASSUME NEW r \in flight, TokenMinted(r) PROVE IInv'
  <2>1. flight' \subseteq flight
    BY <1>1 DEF TokenMinted, Rest
  <2>2. TypeOK'
    BY <1>1, <1>b, <2>1 DEF TokenMinted, TypeOK, server
  <2>3. OwnQueries' /\ Named' /\ OwnCache' /\ BootFirst'
    BY <1>1, <2>1 DEF TokenMinted, IInv, OwnQueries, Named, OwnCache, BootFirst, server
  <2>4. Renewed'
    BY <1>1, <1>b DEF TokenMinted, Renewed, TypeOK
  <2> QED
    BY <2>2, <2>3, <2>4 DEF IInv
<1>2. ASSUME NEW r \in flight, TokenFailed(r) PROVE IInv'
  <2>1. flight' \subseteq Request /\ user' \in Users \cup {Nobody} /\ cache' \subseteq cache
        /\ wait' \in 0..Period
        /\ \A q \in flight' : /\ q.kind = "query" => q \in flight
                              /\ q.kind \in {"whoami", "login"} => q \in flight
    <3>1. Rest(r) \subseteq flight /\ Rest(r) \in SUBSET Request
      BY <1>b DEF Rest
    <3> QED
      BY <1>2, <1>b, <3>1, DetachedFacts DEF TokenFailed, Unauthorized, TypeOK
  <2>2. TypeOK'
    BY <1>2, <1>b, <2>1 DEF TokenFailed, DropToken, TypeOK, server
  <2>3. OwnQueries' /\ Named' /\ OwnCache' /\ BootFirst' /\ Renewed'
    BY <1>2, <2>1
    DEF TokenFailed, DropToken, IInv, OwnQueries, Named, OwnCache, BootFirst, Renewed, server
  <2> QED
    BY <2>2, <2>3 DEF IInv
<1>3. CASE Poll
  <2>1. /\ flight' \subseteq Request /\ flight \subseteq flight'
        /\ \A q \in flight' : q \in flight \/ q.kind = "token"
    BY <1>3, <1>b, EnsureFacts DEF Poll
  <2>2. TypeOK'
    BY <1>3, <1>b, <2>1 DEF Poll, TypeOK, server
  <2>3. OwnQueries' /\ Named' /\ OwnCache' /\ BootFirst'
    BY <1>3, <2>1 DEF Poll, IInv, OwnQueries, Named, OwnCache, BootFirst, server
  <2>4. Renewed'
    <3> SUFFICES ASSUME token # 0, token = cookie
                 PROVE  \/ age + Period < TTL - Margin + Period
                        \/ /\ age + Period < TTL - Margin + 2 * Period
                           /\ \E q \in flight' : q.kind = "token"
      BY <1>3 DEF Poll, Renewed
    <3>1. age < TTL - Margin + Period
      BY <1>3, <1>b DEF Poll, IInv, Renewed, TypeOK
    <3>2. CASE Fresh(age)
      BY <3>2, <1>b DEF Fresh, TypeOK
    <3>3. CASE ~Fresh(age)
      <4>1. \E q \in flight' : q.kind = "token"
        BY <1>3, <1>b, <3>3, EnsureFacts DEF Poll
      <4> QED
        BY <1>b, <3>1, <4>1 DEF TypeOK
    <3> QED
      BY <3>2, <3>3
  <2> QED
    BY <2>2, <2>3, <2>4 DEF IInv
<1>t. CASE Tick
  <2>1. age' \in 0..TTL /\ (token = 0 => age' = 0) /\ age' <= age + 1 /\ wait' \in 0..Period
    BY <1>t, <1>b DEF Tick, TypeOK
  <2>2. TypeOK'
    BY <1>t, <1>b, <2>1 DEF Tick, TypeOK, server
  <2>3. OwnQueries' /\ Named' /\ OwnCache' /\ BootFirst'
    BY <1>t DEF Tick, IInv, OwnQueries, Named, OwnCache, BootFirst, server
  <2>4. user # Nobody => age' + wait' <= age + wait
    BY <1>t, <1>b, <2>1 DEF Tick, TypeOK
  <2>5. Renewed'
    BY <1>t, <1>b, <2>1, <2>4 DEF Tick, TypeOK, IInv, Renewed
  <2> QED
    BY <2>2, <2>3, <2>5 DEF IInv
<1>4. ASSUME NEW r \in flight, WhoamiOk(r) PROVE IInv'
  <2>1. flight' \subseteq Request /\ \A q \in flight' : q \in flight \/ q.kind = "token"
    BY <1>4, <1>b, EnsureFacts DEF WhoamiOk, Rest
  <2>2. owner[r.as] \in Users
    BY <1>4, <1>b DEF WhoamiOk, TypeOK
  <2>3. TypeOK'
    BY <1>4, <1>b, <2>1, <2>2 DEF WhoamiOk, TypeOK, server
  <2>4. OwnQueries' /\ Named' /\ OwnCache' /\ BootFirst'
    BY <1>4, <2>1 DEF WhoamiOk, IInv, OwnQueries, Named, OwnCache, BootFirst, server
  <2>5. age = 0
    BY <1>4 DEF WhoamiOk, IInv, BootFirst
  <2>6. Renewed'
    BY <1>4, <2>5, <1>b DEF WhoamiOk, Renewed, TypeOK
  <2> QED
    BY <2>3, <2>4, <2>6 DEF IInv
<1>5. ASSUME NEW r \in flight, WhoamiRefused(r) PROVE IInv'
  BY <1>5, UnauthorizedKeeps DEF WhoamiRefused, Rest
<1>6. ASSUME NEW r \in flight, WhoamiFailed(r) PROVE IInv'
  BY <1>6, RestKeeps, <1>b DEF WhoamiFailed, AfterFailure, TypeOK
<1>7. ASSUME NEW r \in flight, LoginOk(r) PROVE IInv'
  <2>1. r.name \in Users /\ r \in Request
    BY <1>7, <1>b DEF LoginOk, IInv, Named
  <2>2. /\ owner' \in Seq(Users) /\ Len(owner') = Len(owner) + 1
        /\ Len(owner') <= MaxSessions /\ cookie' = Len(owner) + 1 /\ cookie' \in Sessions
    BY <1>7, <1>b, <2>1 DEF LoginOk, TypeOK, Sessions
  <2>3. live' \subseteq DOMAIN owner'
    BY <1>7, <1>b, <2>2 DEF LoginOk, TypeOK
  <2>4. Rest(r) \in SUBSET Request /\ Rest(r) \subseteq flight
    BY <1>b DEF Rest
  <2>5. Forced(cookie') \subseteq Request /\ \A q \in Forced(cookie') : q.kind = "token"
    BY <2>2 DEF Forced, Sent, Request
  <2>6. /\ flight' \subseteq Request
        /\ \A q \in flight' : /\ q.kind # "query"
                              /\ q.kind \in {"whoami", "login"} => q \in flight
    BY <1>7, <2>4, <2>5, DetachedFacts DEF LoginOk
  <2>7. TypeOK'
    <3>1. /\ user' \in Users \cup {Nobody} /\ busy' \in BOOLEAN /\ cache' \subseteq Users
          /\ loading' \in BOOLEAN /\ form' \in BOOLEAN
          /\ age' \in 0..TTL /\ (token' = 0 => age' = 0) /\ wait' \in 0..Period
      BY <1>7, <1>b, <2>1 DEF LoginOk, TypeOK
    <3>2. cookie' \in 0..Len(owner') /\ token' \in 0..Len(owner')
      BY <1>7, <1>b, <2>2 DEF LoginOk, TypeOK
    <3> QED
      BY <2>2, <2>3, <2>6, <3>1, <3>2 DEF TypeOK
  <2>8. OwnQueries' /\ Named' /\ OwnCache' /\ BootFirst'
    BY <1>7, <2>6 DEF LoginOk, IInv, OwnQueries, Named, OwnCache, BootFirst
  <2>9. token' # cookie'
    BY <1>7, <1>b, <2>2 DEF LoginOk, TypeOK
  <2> QED
    BY <2>7, <2>8, <2>9 DEF IInv, Renewed
<1>8. ASSUME NEW r \in flight, LoginRefused(r) PROVE IInv'
  <2>1. CASE flight' = Rest(r) /\ UNCHANGED <<user, wait, cache>>
    BY <1>8, <2>1, <1>b, RestKeeps DEF LoginRefused, TypeOK
  <2>2. CASE Unauthorized(Rest(r))
    <3>1. Rest(r) \in SUBSET flight /\ Rest(r) \in SUBSET Request
      BY <1>b DEF Rest
    <3>2. /\ flight' \subseteq Request
          /\ \A q \in flight' : /\ q.kind # "query"
                                /\ q.kind \in {"whoami", "login"} => q \in flight
          /\ user' = Nobody /\ cache' = {} /\ wait' = 0
      BY <2>2, <3>1, DetachedFacts DEF Unauthorized
    <3>3. TypeOK'
      BY <1>8, <1>b, <3>2 DEF LoginRefused, TypeOK, server
    <3> QED
      BY <1>8, <3>2, <3>3
      DEF LoginRefused, IInv, OwnQueries, Named, OwnCache, BootFirst, Renewed
  <2> QED
    BY <1>8, <2>1, <2>2 DEF LoginRefused
<1>9. ASSUME NEW r \in flight, LogoutDone(r) PROVE IInv'
  <2>1. Rest(r) \in SUBSET flight /\ Rest(r) \in SUBSET Request
    BY <1>b DEF Rest
  <2>2. /\ flight' \subseteq Request
        /\ \A q \in flight' : /\ q.kind # "query"
                              /\ q.kind \in {"whoami", "login"} => q \in flight
    BY <1>9, <2>1, DetachedFacts DEF LogoutDone
  <2>3. TypeOK'
    BY <1>9, <1>b, <2>2 DEF LogoutDone, DropToken, TypeOK
  <2> QED
    BY <1>9, <2>2, <2>3
    DEF LogoutDone, DropToken, IInv, OwnQueries, Named, OwnCache, BootFirst, Renewed
<1>10. ASSUME NEW r \in flight, QueryOk(r) PROVE IInv'
  <2>1. flight' \subseteq flight /\ \A q \in flight : q.kind = "token" => q \in flight'
    BY <1>10 DEF QueryOk, Rest
  <2>2. r.as \in 1..Len(owner) /\ owner[r.as] \in Users
    BY <1>10, <1>b DEF QueryOk, TypeOK
  <2>3. TypeOK'
    BY <1>10, <1>b, <2>1, <2>2 DEF QueryOk, TypeOK, server
  <2>4. OwnQueries' /\ Named' /\ BootFirst'
    BY <1>10, <2>1 DEF QueryOk, IInv, OwnQueries, Named, BootFirst
  <2>5. OwnCache'
    BY <1>10, <2>2 DEF QueryOk, IInv, OwnQueries, OwnCache, server
  <2>6. Renewed'
    BY <1>10, <2>1 DEF QueryOk, IInv, Renewed
  <2> QED
    BY <2>3, <2>4, <2>5, <2>6 DEF IInv
<1>11. ASSUME NEW r \in flight, QueryFailed(r) PROVE IInv'
  <2>1. CASE flight' = Rest(r) /\ UNCHANGED <<user, wait, cache>>
    BY <1>11, <2>1, <1>b, RestKeeps DEF QueryFailed, TypeOK
  <2>2. CASE Unauthorized(Rest(r))
    BY <1>11, <2>2, <1>b, UnauthorizedKeeps DEF QueryFailed, Rest, TypeOK
  <2> QED
    BY <1>11, <2>1, <2>2 DEF QueryFailed
<1>12. ASSUME NEW q \in Request, flight' = flight \cup {q},
              q.kind = "login" => q.name \in Users,
              q.kind = "query" => q.as = cookie, q.kind # "whoami",
              UNCHANGED <<server, cookie, user, loading, form, token, age, wait, cache>>,
              busy' \in BOOLEAN
       PROVE  IInv'
  <2>1. TypeOK'
    BY <1>12, <1>b DEF TypeOK, server
  <2>2. OwnQueries' /\ Named' /\ OwnCache' /\ BootFirst' /\ Renewed'
    BY <1>12 DEF IInv, OwnQueries, Named, OwnCache, BootFirst, Renewed, server
  <2> QED
    BY <2>1, <2>2 DEF IInv
<1>13. ASSUME NEW u \in Users, Submit(u) PROVE IInv'
  <2>1. Sent("login", cookie, u) \in Request /\ Sent("login", cookie, u).kind = "login"
        /\ Sent("login", cookie, u).name = u
    BY <1>b DEF Sent, Request
  <2> QED
    BY <1>12, <1>13, <2>1 DEF Submit
<1>14. CASE Logout \/ Query
  <2>1. ASSUME NEW k \in {"logout", "query"}
        PROVE  /\ Sent(k, cookie, Nobody) \in Request /\ Sent(k, cookie, Nobody).kind = k
               /\ Sent(k, cookie, Nobody).as = cookie
    BY <1>b DEF Sent, Request
  <2>2. busy' \in BOOLEAN
    BY <1>14, <1>b DEF Logout, Query, TypeOK
  <2>3. CASE Logout
    BY <1>12, <2>1, <2>2, <2>3 DEF Logout
  <2>4. CASE Query
    BY <1>12, <2>1, <2>2, <2>4 DEF Query
  <2> QED
    BY <1>14, <2>3, <2>4
<1>15. ASSUME NEW s \in DOMAIN owner, SessionDies(s) PROVE IInv'
  <2>1. TypeOK'
    BY <1>15, <1>b DEF SessionDies, TypeOK
  <2> QED
    BY <1>15, <2>1
    DEF SessionDies, IInv, OwnQueries, Named, OwnCache, BootFirst, Renewed
<1>16. CASE UNCHANGED vars
  BY <1>16
  DEF vars, server, IInv, TypeOK, OwnQueries, Named, OwnCache, BootFirst, Renewed
<1>17. CASE Network
  BY <1>17, <1>1, <1>2, <1>4, <1>5, <1>6, <1>7, <1>8, <1>9, <1>10, <1>11
  DEF Network, Answer
<1> QED
  BY <1>3, <1>t, <1>13, <1>14, <1>15, <1>16, <1>17 DEF Next

\* What the invariant says of the cache and of the token.
LEMMA Consequences ==
    ASSUME IInv PROVE TypeOK /\ OneAccount /\ NoDeadToken
<1>1. OneAccount
  <2>1. CASE cache = {}
    BY <2>1, FS_EmptySet DEF OneAccount
  <2>2. CASE cache # {}
    <3>1. cache = {owner[cookie]}
      BY <2>2 DEF IInv, OwnCache
    <3> QED
      BY <3>1, FS_Singleton DEF OneAccount
  <2> QED
    BY <2>1, <2>2
<1>2. NoDeadToken
  BY ClientAssumption DEF IInv, TypeOK, Renewed, NoDeadToken, InApp
<1> QED
  BY <1>1, <1>2 DEF IInv

\* Nobody is signed out by a step that answers neither a login nor a logout nor a
\* request of a session the server refuses.
LEMMA StepHasCause ==
    ASSUME IInv, [Next]_vars, user # Nobody, user' = Nobody
    PROVE  \E r \in flight \ flight' : r.kind \in {"login", "logout"} \/ r.as \notin live
<1>1. PICK r \in flight : Answer(r)
  BY DEF Next, Network, Tick, Poll, Logout, Query, Submit, SessionDies, vars
<1>2. flight \subseteq Request
  BY DEF IInv, TypeOK
<1>3. Rest(r) \in SUBSET flight /\ Rest(r) \in SUBSET Request /\ r \notin Rest(r)
  BY <1>2 DEF Rest
<1>4. r.kind \in {"login", "logout"} \/ r.as \notin live
  <2>1. ~TokenMinted(r) /\ ~WhoamiFailed(r) /\ ~QueryOk(r)
    BY DEF TokenMinted, WhoamiFailed, AfterFailure, QueryOk
  <2>2. ~WhoamiOk(r)
    BY ClientAssumption, Bounds DEF WhoamiOk, IInv, TypeOK
  <2> QED
    BY <1>1, <2>1, <2>2
    DEF Answer, LoginOk, LoginRefused, LogoutDone, TokenFailed, WhoamiRefused, QueryFailed,
        Refusable
<1>5. flight' = Detached(Rest(r))
  <2>1. ~TokenMinted(r) /\ ~WhoamiFailed(r) /\ ~QueryOk(r)
    BY DEF TokenMinted, WhoamiFailed, AfterFailure, QueryOk
  <2>2. ~WhoamiOk(r)
    BY ClientAssumption, Bounds DEF WhoamiOk, IInv, TypeOK
  <2>3. ~LoginOk(r)
    BY ClientAssumption DEF LoginOk, IInv, Named
  <2> QED
    BY <1>1, <2>1, <2>2, <2>3
    DEF Answer, LoginRefused, LogoutDone, TokenFailed, WhoamiRefused, QueryFailed,
        Unauthorized
<1>6. CASE r \notin flight'
  BY <1>4, <1>6
<1>7. CASE r \in flight'
  <2>1. PICK q \in Rest(r) : q.kind = "query" /\ q.as = r.as
    BY <1>3, <1>5, <1>7, DetachedFacts
  <2>2. q \in flight \ flight'
    BY <1>3, <1>5, <2>1, DetachedFacts
  <2>3. r.kind = "detached"
    BY <1>3, <1>5, <1>7, DetachedFacts
  <2> QED
    BY <1>4, <2>1, <2>2, <2>3
<1> QED
  BY <1>6, <1>7

-------------------------------------------------------------------------------

\* The state of the session is of the right kind.
THEOREM TypeCorrect == Spec => []TypeOK
<1>1. Init /\ [][Next]_vars => []IInv
  BY InitHolds, StepKeeps, PTL
<1>2. IInv => TypeOK
  BY Consequences
<1> QED
  BY <1>1, <1>2, PTL DEF Spec

\* Whatever is answered late, refused or lost, the pages of one account never
\* find the data of another in the cache.
THEOREM AccountsApart == Spec => []OneAccount
<1>1. Init /\ [][Next]_vars => []IInv
  BY InitHolds, StepKeeps, PTL
<1>2. IInv => OneAccount
  BY Consequences
<1> QED
  BY <1>1, <1>2, PTL DEF Spec

\* No token of the session on show expires before the poll has replaced it.
THEOREM TokenAlive == Spec => []NoDeadToken
<1>1. Init /\ [][Next]_vars => []IInv
  BY InitHolds, StepKeeps, PTL
<1>2. IInv => NoDeadToken
  BY Consequences
<1> QED
  BY <1>1, <1>2, PTL DEF Spec

\* A lost request signs nobody out.
THEOREM CauseOfSignOut == Spec => SignedOutForCause
<1>1. Init /\ [][Next]_vars => []IInv
  BY InitHolds, StepKeeps, PTL
<1>2. IInv /\ [Next]_vars =>
        [user # Nobody /\ user' = Nobody =>
            \E r \in flight \ flight' : r.kind \in {"login", "logout"} \/ r.as \notin live]_vars
  BY StepHasCause
<1> QED
  BY <1>1, <1>2, PTL DEF Spec, SignedOutForCause

=================================================================================
