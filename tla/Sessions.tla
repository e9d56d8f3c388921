------------------------------- MODULE Sessions -------------------------------
(***************************************************************************)
(* Sessions and the single-flight refresh (backend/src/auth.py, homeauth.py,*)
(* auth_routes.py over the sessions table).  HomeAuth rotates the refresh   *)
(* cookie on every use and revokes the old one; the SPA's parallel requests *)
(* all find the same access token near its expiry.  A request is a thread   *)
(* that runs current_user, or current_user and then logout.                 *)
(***************************************************************************)
EXTENDS Naturals, FiniteSets

CONSTANTS
    Sids,       \* session ids (random, never reused)
    Threads,    \* requests in progress
    Locks,      \* lock objects
    NoSid,
    NoLock,
    MaxCookie   \* bound of the model: how often a session's cookie is rotated

ASSUME SessionsAssumption ==
    /\ NoSid \notin Sids
    /\ NoLock \notin Locks
    /\ MaxCookie \in Nat \ {0}

VARIABLES
    row,        \* the sessions row: cookie, access token fresh or near expiry, past its TTL
    upstream,   \* HomeAuth (external): the cookie it would accept, 0 when none
    lockOf,     \* _refresh_locks
    touched,    \* the keys of _last_touch
    thread,
    lost,       \* history: sessions of which an answer of HomeAuth got lost
    swept       \* history: sessions the periodic sweep deleted

vars == <<row, upstream, lockOf, touched, thread, lost, swept>>

\* A session id nobody has, a deleted one, and a live row.  Cookie 0: HomeAuth
\* set none at login.
Absent == [st |-> "absent", cookie |-> 0, fresh |-> FALSE, aged |-> FALSE]

Gone == [Absent EXCEPT !.st = "gone"]

Idle == [at |-> "idle", sid |-> NoSid, wants |-> "use", lock |-> NoLock,
         cookie |-> 0]

\* Between entering the per-session lock and leaving it.
Inside == {"reread", "missing", "post", "store", "reject", "forget"}

Stages == Inside \cup {"idle", "expired", "drop", "lock", "acquire", "touch",
                       "out_read", "out_revoke", "out_delete"}

RowRecord == [st : {"absent", "live", "gone"}, cookie : 0..MaxCookie,
              fresh : BOOLEAN, aged : BOOLEAN]

ThreadRecord == [at : Stages, sid : Sids \cup {NoSid}, wants : {"use", "logout"},
                 lock : Locks \cup {NoLock}, cookie : 0..MaxCookie]

TypeOK ==
    /\ row \in [Sids -> RowRecord]
    /\ upstream \in [Sids -> 0..MaxCookie]
    /\ lockOf \in [Sids -> Locks \cup {NoLock}]
    /\ touched \subseteq Sids
    /\ thread \in [Threads -> ThreadRecord]
    /\ lost \subseteq Sids
    /\ swept \subseteq Sids

Init ==
    /\ row = [s \in Sids |-> Absent]
    /\ upstream = [s \in Sids |-> 0]
    /\ lockOf = [s \in Sids |-> NoLock]
    /\ touched = {}
    /\ thread = [t \in Threads |-> Idle]
    /\ lost = {}
    /\ swept = {}

Live(s) == row[s].st = "live"

At(t, stage) == thread[t].at = stage

Sid(t) == thread[t].sid

Goto(t, stage) == thread' = [thread EXCEPT ![t].at = stage]

\* The request is over: answered, or refused with 401 or 503.
Finish(t) == thread' = [thread EXCEPT ![t] = Idle]

\* db.delete_session
DeleteRow(s) == row' = [row EXCEPT ![s] = IF Live(s) THEN Gone ELSE @]

\* _drop_refresh_lock
DropBookkeeping(s) ==
    /\ lockOf' = [lockOf EXCEPT ![s] = NoLock]
    /\ touched' = touched \ {s}

-------------------------------------------------------------------------------
(* HomeAuth and time *)

\* POST /login: a new session around HomeAuth's answer.
Login(s) ==
    /\ row[s].st = "absent"
    /\ \E cookie \in {0, 1} :
          /\ upstream' = [upstream EXCEPT ![s] = cookie]
          /\ row' = [row EXCEPT ![s] = [st |-> "live", cookie |-> cookie,
                                        fresh |-> TRUE, aged |-> FALSE]]
    /\ UNCHANGED <<lockOf, touched, thread, lost, swept>>

\* The access token comes within the refresh leeway of its expiry.
AccessExpires(s) ==
    /\ Live(s)
    /\ row[s].fresh
    /\ row' = [row EXCEPT ![s].fresh = FALSE]
    /\ UNCHANGED <<upstream, lockOf, touched, thread, lost, swept>>

\* SESSION_TTL_DAYS pass.
Ages(s) ==
    /\ Live(s)
    /\ ~row[s].aged
    /\ row' = [row EXCEPT ![s].aged = TRUE]
    /\ UNCHANGED <<upstream, lockOf, touched, thread, lost, swept>>

\* HomeAuth ends the session on its own: expired, or revoked by somebody.
RevokedUpstream(s) ==
    /\ upstream[s] # 0
    /\ upstream' = [upstream EXCEPT ![s] = 0]
    /\ UNCHANGED <<row, lockOf, touched, thread, lost, swept>>

-------------------------------------------------------------------------------
(* current_user *)

Begin(t, s) ==
    /\ At(t, "idle")
    /\ row[s].st # "absent"
    /\ \E wants \in {"use", "logout"} :
          thread' = [thread EXCEPT ![t] =
                       [Idle EXCEPT !.sid = s, !.wants = wants,
                          !.at = IF ~Live(s) THEN "idle"
                                 ELSE IF row[s].aged THEN "expired"
                                 ELSE IF row[s].fresh THEN "touch" ELSE "lock"]]
    /\ UNCHANGED <<row, upstream, lockOf, touched, lost, swept>>

\* _get_live_session on a row past its lifetime, then its bookkeeping.
DeleteExpired(t) ==
    /\ At(t, "expired")
    /\ DeleteRow(Sid(t))
    /\ Goto(t, "drop")
    /\ UNCHANGED <<upstream, lockOf, touched, lost, swept>>

Drop(t) ==
    /\ At(t, "drop")
    /\ DropBookkeeping(Sid(t))
    /\ Finish(t)
    /\ UNCHANGED <<row, upstream, lost, swept>>

InUse == {lockOf[s] : s \in Sids} \cup {thread[t].lock : t \in Threads}

\* _refresh_lock_for: the session's lock, or a new object.
GetLock(t) ==
    /\ At(t, "lock")
    /\ \E lock \in Locks :
          /\ IF lockOf[Sid(t)] # NoLock THEN lock = lockOf[Sid(t)] ELSE lock \notin InUse
          /\ thread' = [thread EXCEPT ![t].at = "acquire", ![t].lock = lock]
          /\ lockOf' = [lockOf EXCEPT ![Sid(t)] = lock]
    /\ UNCHANGED <<row, upstream, touched, lost, swept>>

Held(lock) == \E t \in Threads : thread[t].lock = lock /\ thread[t].at \in Inside

Acquire(t) ==
    /\ At(t, "acquire")
    /\ ~Held(thread[t].lock)
    /\ Goto(t, "reread")
    /\ UNCHANGED <<row, upstream, lockOf, touched, lost, swept>>

\* The row under the lock: gone, refreshed by somebody else, without a cookie to
\* refresh with, or still to be refreshed with the cookie it has now.
Reread(t) ==
    /\ At(t, "reread")
    /\ LET s == Sid(t)
       IN  IF ~Live(s) THEN Goto(t, "missing")
           ELSE IF row[s].fresh THEN Goto(t, "touch")
           ELSE IF row[s].cookie = 0 THEN Finish(t)
           ELSE thread' = [thread EXCEPT ![t].at = "post",
                                         ![t].cookie = row[s].cookie]
    /\ UNCHANGED <<row, upstream, lockOf, touched, lost, swept>>

Missing(t) ==
    /\ At(t, "missing")
    /\ DropBookkeeping(Sid(t))
    /\ Finish(t)
    /\ UNCHANGED <<row, upstream, lost, swept>>

\* HomeAuth accepts the cookie and replaces it, or lets it stand; the answer arrives
\* or is lost to a timeout, which homeauth.refresh reports as unreachable: 503,
\* nothing stored.
PostAccepted(t) ==
    /\ At(t, "post")
    /\ thread[t].cookie = upstream[Sid(t)]
    /\ \E next \in {thread[t].cookie, thread[t].cookie + 1} \cap (0..MaxCookie) :
          /\ upstream' = [upstream EXCEPT ![Sid(t)] = next]
          /\ \/ /\ thread' = [thread EXCEPT ![t].at = "store", ![t].cookie = next]
                /\ UNCHANGED lost
             \/ /\ Finish(t)
                /\ lost' = lost \cup {Sid(t)}
    /\ UNCHANGED <<row, lockOf, touched, swept>>

PostUnreachable(t) ==
    /\ At(t, "post")
    /\ Finish(t)
    /\ UNCHANGED <<row, upstream, lockOf, touched, lost, swept>>

\* 401: not the cookie HomeAuth accepts.
PostRefused(t) ==
    /\ At(t, "post")
    /\ thread[t].cookie # upstream[Sid(t)]
    /\ Goto(t, "reject")
    /\ UNCHANGED <<row, upstream, lockOf, touched, lost, swept>>

\* Any other status of 400 and above - an overload, a bug, a proxy - takes the
\* same branch.
PostFails(t) ==
    /\ At(t, "post")
    /\ Goto(t, "reject")
    /\ UNCHANGED <<row, upstream, lockOf, touched, lost, swept>>

RejectDelete(t) ==
    /\ At(t, "reject")
    /\ DeleteRow(Sid(t))
    /\ Goto(t, "forget")
    /\ UNCHANGED <<upstream, lockOf, touched, lost, swept>>

RejectForget(t) ==
    /\ At(t, "forget")
    /\ DropBookkeeping(Sid(t))
    /\ Finish(t)
    /\ UNCHANGED <<row, upstream, lost, swept>>

\* (mutant) The tokens are stored as a whole row.
StoreWhole(t) ==
    /\ At(t, "store")
    /\ row' = [row EXCEPT ![Sid(t)] = [st |-> "live", cookie |-> thread[t].cookie,
                                       fresh |-> TRUE, aged |-> FALSE]]
    /\ Goto(t, "touch")
    /\ UNCHANGED <<upstream, lockOf, touched, lost, swept>>

\* (mutant) The rotated cookie is not kept.
StoreTokenOnly(t) ==
    /\ At(t, "store")
    /\ row' = IF Live(Sid(t)) THEN [row EXCEPT ![Sid(t)].fresh = TRUE] ELSE row
    /\ Goto(t, "touch")
    /\ UNCHANGED <<upstream, lockOf, touched, lost, swept>>

\* db.update_session_tokens: an UPDATE, nothing to do on a missing row.
Store(t) ==
    /\ At(t, "store")
    /\ row' = IF Live(Sid(t))
              THEN [row EXCEPT ![Sid(t)].cookie = thread[t].cookie,
                               ![Sid(t)].fresh = TRUE]
              ELSE row
    /\ Goto(t, "touch")
    /\ UNCHANGED <<upstream, lockOf, touched, lost, swept>>

\* _touch_session_throttled; then the route runs.
Touch(t) ==
    /\ At(t, "touch")
    /\ touched' = touched \cup {Sid(t)}
    /\ IF thread[t].wants = "logout" THEN Goto(t, "out_read") ELSE Finish(t)
    /\ UNCHANGED <<row, upstream, lockOf, lost, swept>>

-------------------------------------------------------------------------------
(* logout *)

LogoutRead(t) ==
    /\ At(t, "out_read")
    /\ IF Live(Sid(t))
       THEN thread' = [thread EXCEPT ![t].at = "out_revoke",
                                     ![t].cookie = row[Sid(t)].cookie]
       ELSE Goto(t, "drop")
    /\ UNCHANGED <<row, upstream, lockOf, touched, lost, swept>>

\* Best effort: HomeAuth may be out of reach, or not know the cookie any more.
LogoutRevoke(t) ==
    /\ At(t, "out_revoke")
    /\ \/ UNCHANGED upstream
       \/ /\ thread[t].cookie = upstream[Sid(t)]
          /\ upstream' = [upstream EXCEPT ![Sid(t)] = 0]
    /\ Goto(t, "out_delete")
    /\ UNCHANGED <<row, lockOf, touched, lost, swept>>

LogoutDelete(t) ==
    /\ At(t, "out_delete")
    /\ DeleteRow(Sid(t))
    /\ Goto(t, "drop")
    /\ UNCHANGED <<upstream, lockOf, touched, lost, swept>>

-------------------------------------------------------------------------------

\* The reaper loop's db.delete_expired_sessions.
Sweep ==
    /\ \E s \in Sids : Live(s) /\ row[s].aged
    /\ row' = [s \in Sids |-> IF Live(s) /\ row[s].aged THEN Gone ELSE row[s]]
    /\ swept' = swept \cup {s \in Sids : Live(s) /\ row[s].aged}
    /\ UNCHANGED <<upstream, lockOf, touched, thread, lost>>

\* Rows survive, memory does not; an answer not yet stored is lost.
Restart ==
    /\ lockOf' = [s \in Sids |-> NoLock]
    /\ touched' = {}
    /\ thread' = [t \in Threads |-> Idle]
    /\ lost' = lost \cup {Sid(t) : t \in {u \in Threads : At(u, "store")}}
    /\ UNCHANGED <<row, upstream, swept>>

Post(t) == PostAccepted(t) \/ PostUnreachable(t) \/ PostRefused(t) \/ PostFails(t)

Step(t) ==
    \/ DeleteExpired(t) \/ Drop(t)
    \/ GetLock(t) \/ Acquire(t) \/ Reread(t) \/ Missing(t)
    \/ Post(t) \/ RejectDelete(t) \/ RejectForget(t) \/ Store(t) \/ Touch(t)
    \/ LogoutRead(t) \/ LogoutRevoke(t) \/ LogoutDelete(t)

Next ==
    \/ \E s \in Sids :
          Login(s) \/ AccessExpires(s) \/ Ages(s) \/ RevokedUpstream(s)
    \/ \E t \in Threads : Step(t) \/ \E s \in Sids : Begin(t, s)
    \/ Sweep
    \/ Restart

Spec == Init /\ [][Next]_vars

-------------------------------------------------------------------------------

\* Refreshes are single-flighted per session, although a session's lock object is
\* dropped and replaced while threads still hold or await the old one
\* (_refresh_if_needed, _drop_refresh_lock).
OneRefresher ==
    \A t, u \in Threads :
        t # u /\ Sid(t) = Sid(u) =>
            ~(/\ thread[t].at \in {"post", "store", "reject"}
              /\ thread[u].at \in {"post", "store", "reject"})

\* The cookie a refresh presents is the one HomeAuth accepts, unless HomeAuth ended
\* the session or one of its answers got lost: the losers of the race "reuse the
\* winner's fresh tokens" (auth.py on _refresh_locks).
NoRotatedCookie ==
    \A t \in Threads :
        At(t, "post") =>
            LET s == Sid(t)
            IN  upstream[s] \in {0, thread[t].cookie} \/ s \in lost

\* A deleted session stays deleted, whatever refreshes are still in flight
\* (update_session_tokens after a logout).
GoneStaysGone ==
    [][\A s \in Sids : row[s].st = "gone" => row'[s].st = "gone"]_vars

===============================================================================
