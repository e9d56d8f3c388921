----------------------------- MODULE AccessProofs -----------------------------
(***************************************************************************)
(* What stands in front of the API.  First, single flight of the session   *)
(* refresh, for every number of sessions, requests and lock objects; then  *)
(* the rate limiter keeps its budget and its word, for every number of     *)
(* keys, callers and events, every window and every lag up to the window.  *)
(***************************************************************************)
EXTENDS Sessions, SlidingWindow, TLAPS

Presenting == {"post", "store", "reject"}

\* Who waits for a lock or holds one has the session's current lock, as long as the
\* session lives: a lock is only replaced behind a deleted row.
CurrentLock ==
    \A t \in Threads :
        thread[t].at \in {"acquire", "reread"} \cup Presenting =>
            /\ Sid(t) \in Sids
            /\ thread[t].lock # NoLock
            /\ Live(Sid(t)) => thread[t].lock = lockOf[Sid(t)]

LockExcludes ==
    \A t, u \in Threads :
        /\ t # u
        /\ thread[t].at \in Inside
        /\ thread[u].at \in Inside
        => thread[t].lock # thread[u].lock

\* Bookkeeping is dropped behind a deleted row only.
DropsBehindDeletion ==
    \A t \in Threads :
        /\ thread[t].at # "idle" => Sid(t) \in Sids /\ row[Sid(t)].st # "absent"
        /\ thread[t].at \in {"drop", "missing", "forget"} => ~Live(Sid(t))

FInv == TypeOK /\ CurrentLock /\ LockExcludes /\ DropsBehindDeletion /\ OneRefresher

-------------------------------------------------------------------------------


\* Tokens on their way from HomeAuth into the row, and the row's cookie while none are.
StoresCurrent ==
    \A t \in Threads :
        At(t, "store") => upstream[Sid(t)] \in {0, thread[t].cookie} \/ Sid(t) \in lost

RowCurrent ==
    \A s \in Sids :
        Live(s) /\ (\A t \in Threads : At(t, "store") => Sid(t) # s) =>
            upstream[s] \in {0, row[s].cookie} \/ s \in lost

CInv == NoRotatedCookie /\ StoresCurrent /\ RowCurrent

LEMMA IdleTyped == Idle \in ThreadRecord
BY SessionsAssumption DEF Idle, ThreadRecord, Stages, Inside

LEMMA GoneTyped == Gone \in RowRecord /\ Absent \in RowRecord
<1>1. 0 \in 0..MaxCookie BY SessionsAssumption
<1>2. Absent \in RowRecord BY <1>1 DEF Absent, RowRecord
<1> QED BY <1>2 DEF Gone, RowRecord

LEMMA GotoTyped ==
    ASSUME TypeOK, NEW t \in Threads, NEW x \in Stages, Goto(t, x)
    PROVE  thread' \in [Threads -> ThreadRecord]
BY DEF TypeOK, Goto, ThreadRecord

LEMMA LockTyped ==
    ASSUME TypeOK, NEW t \in Threads, NEW lock \in Locks, NEW x \in Stages,
           thread' = [thread EXCEPT ![t].at = x, ![t].lock = lock]
    PROVE  thread' \in [Threads -> ThreadRecord]
BY DEF TypeOK, ThreadRecord

LEMMA FinishTyped ==
    ASSUME TypeOK, NEW t \in Threads, Finish(t)
    PROVE  thread' \in [Threads -> ThreadRecord]
BY IdleTyped DEF TypeOK, Finish

LEMMA DeleteRowTyped ==
    ASSUME TypeOK, NEW s, DeleteRow(s)
    PROVE  row' \in [Sids -> RowRecord]
BY GoneTyped DEF TypeOK, DeleteRow

LEMMA StepTypes ==
    ASSUME TypeOK, NEW t \in Threads, Step(t), Sid(t) \in Sids \/ At(t, "idle") PROVE TypeOK'
<1> USE SessionsAssumption, GotoTyped, FinishTyped, DeleteRowTyped DEF TypeOK, At, Sid, DropBookkeeping, Stages, Inside
<1>1. CASE DeleteExpired(t)
  BY <1>1 DEF DeleteExpired
<1>2. CASE Drop(t)
  BY <1>2 DEF Drop
<1>3. CASE GetLock(t)
  <2>1. PICK lock \in Locks :
           /\ thread' = [thread EXCEPT ![t].at = "acquire", ![t].lock = lock]
           /\ lockOf' = [lockOf EXCEPT ![Sid(t)] = lock]
    BY <1>3 DEF GetLock
  <2>2. thread' \in [Threads -> ThreadRecord] BY <2>1, LockTyped
  <2>3. lockOf' \in [Sids -> Locks \cup {NoLock}] BY <2>1
  <2> QED BY <1>3, <2>2, <2>3 DEF GetLock
<1>4. CASE Acquire(t)
  BY <1>4 DEF Acquire
<1>5. CASE Reread(t)
  BY <1>5 DEF Reread, RowRecord, ThreadRecord
<1>6. CASE Missing(t)
  BY <1>6 DEF Missing
<1>7. CASE PostAccepted(t)
  BY <1>7 DEF PostAccepted, ThreadRecord
<1>8. CASE PostUnreachable(t)
  BY <1>8 DEF PostUnreachable
<1>9. CASE PostRefused(t)
  BY <1>9 DEF PostRefused
<1>10. CASE PostFails(t)
  BY <1>10 DEF PostFails
<1>11. CASE RejectDelete(t)
  BY <1>11 DEF RejectDelete
<1>12. CASE RejectForget(t)
  BY <1>12 DEF RejectForget
<1>13. CASE Store(t)
  BY <1>13 DEF Store, RowRecord, ThreadRecord, Live
<1>14. CASE Touch(t)
  BY <1>14 DEF Touch
<1>15. CASE LogoutRead(t)
  BY <1>15 DEF LogoutRead, RowRecord, ThreadRecord
<1>16. CASE LogoutRevoke(t)
  BY <1>16 DEF LogoutRevoke
<1>17. CASE LogoutDelete(t)
  BY <1>17 DEF LogoutDelete
<1> QED BY <1>1, <1>2, <1>3, <1>4, <1>5, <1>6, <1>7, <1>8, <1>9, <1>10, <1>11, <1>12, <1>13, <1>14, <1>15, <1>16, <1>17 DEF Step, Post

LEMMA StepKeeps ==
    ASSUME FInv, TypeOK', NEW t \in Threads, Step(t) PROVE FInv'
<1> USE SessionsAssumption DEF TypeOK, RowRecord, ThreadRecord, At, Sid, Goto, Finish, DeleteRow, DropBookkeeping, Live, Idle, Stages, Inside, Gone, Absent, FInv, CurrentLock, LockExcludes, DropsBehindDeletion, OneRefresher, Presenting
<1>1. CASE DeleteExpired(t)
  BY <1>1 DEF DeleteExpired
<1>2. CASE Drop(t)
  BY <1>2 DEF Drop
<1>3. CASE GetLock(t)
  BY <1>3 DEF GetLock, InUse
<1>4. CASE Acquire(t)
  BY <1>4 DEF Acquire, Held
<1>5. CASE Reread(t)
  <2>1. CurrentLock' BY <1>5 DEF Reread
  <2>2. LockExcludes' BY <1>5 DEF Reread
  <2>3. DropsBehindDeletion' BY <1>5 DEF Reread
  <2>4. OneRefresher' BY <1>5 DEF Reread
  <2> QED BY <2>1, <2>2, <2>3, <2>4
<1>6. CASE Missing(t)
  BY <1>6 DEF Missing
<1>7. CASE PostAccepted(t)
  <2>1. CASE Finish(t) BY <1>7, <2>1 DEF PostAccepted
  <2>2. ASSUME NEW next,
               thread' = [thread EXCEPT ![t].at = "store", ![t].cookie = next]
        PROVE  FInv'
    BY <1>7, <2>2 DEF PostAccepted
  <2> QED BY <1>7, <2>1, <2>2 DEF PostAccepted
<1>8. CASE PostUnreachable(t)
  BY <1>8 DEF PostUnreachable
<1>9. CASE PostRefused(t)
  BY <1>9 DEF PostRefused
<1>10. CASE PostFails(t)
  BY <1>10 DEF PostFails
<1>11. CASE RejectDelete(t)
  BY <1>11 DEF RejectDelete
<1>12. CASE RejectForget(t)
  BY <1>12 DEF RejectForget
<1>13. CASE Store(t)
  BY <1>13 DEF Store
<1>14. CASE Touch(t)
  <2>1. CASE Finish(t) BY <1>14, <2>1 DEF Touch
  <2>2. CASE Goto(t, "out_read") BY <1>14, <2>2 DEF Touch
  <2> QED BY <1>14, <2>1, <2>2 DEF Touch
<1>15. CASE LogoutRead(t)
  <2>1. CurrentLock' BY <1>15 DEF LogoutRead
  <2>2. LockExcludes' BY <1>15 DEF LogoutRead
  <2>3. DropsBehindDeletion' BY <1>15 DEF LogoutRead
  <2>4. OneRefresher' BY <1>15 DEF LogoutRead
  <2> QED BY <2>1, <2>2, <2>3, <2>4
<1>16. CASE LogoutRevoke(t)
  BY <1>16 DEF LogoutRevoke
<1>17. CASE LogoutDelete(t)
  BY <1>17 DEF LogoutDelete
<1> QED BY <1>1, <1>2, <1>3, <1>4, <1>5, <1>6, <1>7, <1>8, <1>9, <1>10, <1>11, <1>12, <1>13, <1>14, <1>15, <1>16, <1>17 DEF Step, Post

LEMMA FlagTyped ==
    ASSUME NEW r \in RowRecord
    PROVE  [r EXCEPT !.fresh = FALSE] \in RowRecord /\ [r EXCEPT !.aged = TRUE] \in RowRecord
BY DEF RowRecord

LEMMA ClockTypes ==
    ASSUME TypeOK, NEW s \in Sids, AccessExpires(s) \/ Ages(s) PROVE TypeOK'
<1>1. [row[s] EXCEPT !.fresh = FALSE] \in RowRecord /\ [row[s] EXCEPT !.aged = TRUE] \in RowRecord
  BY FlagTyped DEF TypeOK
<1>2. row' \in [Sids -> RowRecord]
  BY <1>1 DEF TypeOK, AccessExpires, Ages
<1> QED BY <1>2 DEF TypeOK, AccessExpires, Ages

\* Login, the clock, HomeAuth, the sweep and a new request leave the threads inside
\* a refresh alone, or end them all.
LEMMA OthersKeep ==
    ASSUME FInv, Next, ~\E t \in Threads : Step(t) PROVE FInv'
<1> USE SessionsAssumption DEF TypeOK, RowRecord, ThreadRecord, At, Sid, Live, Idle, Stages, Inside, Gone, Absent, FInv, CurrentLock, LockExcludes, DropsBehindDeletion, OneRefresher, Presenting
<1>1. ASSUME NEW s \in Sids, Login(s) PROVE FInv'
  <2>0. TypeOK' BY <1>1 DEF Login
  <2>1. CurrentLock' BY <1>1 DEF Login
  <2>2. LockExcludes' BY <1>1 DEF Login
  <2>3. DropsBehindDeletion' BY <1>1 DEF Login
  <2>4. OneRefresher' BY <1>1 DEF Login
  <2> QED BY <2>0, <2>1, <2>2, <2>3, <2>4
<1>2. ASSUME NEW s \in Sids, AccessExpires(s) PROVE FInv'
  <2>0. TypeOK' BY <1>2, ClockTypes
  <2>1. CurrentLock' BY <1>2 DEF AccessExpires
  <2>2. LockExcludes' BY <1>2 DEF AccessExpires
  <2>3. DropsBehindDeletion' BY <1>2 DEF AccessExpires
  <2>4. OneRefresher' BY <1>2 DEF AccessExpires
  <2> QED BY <2>0, <2>1, <2>2, <2>3, <2>4
<1>3. ASSUME NEW s \in Sids, Ages(s) PROVE FInv'
  <2>0. TypeOK' BY <1>3, ClockTypes
  <2>1. CurrentLock' BY <1>3 DEF Ages
  <2>2. LockExcludes' BY <1>3 DEF Ages
  <2>3. DropsBehindDeletion' BY <1>3 DEF Ages
  <2>4. OneRefresher' BY <1>3 DEF Ages
  <2> QED BY <2>0, <2>1, <2>2, <2>3, <2>4
<1>4. ASSUME NEW s \in Sids, RevokedUpstream(s) PROVE FInv'
  <2>0. TypeOK' BY <1>4 DEF RevokedUpstream
  <2>1. CurrentLock' BY <1>4 DEF RevokedUpstream
  <2>2. LockExcludes' BY <1>4 DEF RevokedUpstream
  <2>3. DropsBehindDeletion' BY <1>4 DEF RevokedUpstream
  <2>4. OneRefresher' BY <1>4 DEF RevokedUpstream
  <2> QED BY <2>0, <2>1, <2>2, <2>3, <2>4
<1>5. ASSUME NEW t \in Threads, NEW s \in Sids, Begin(t, s) PROVE FInv'
  <2>1. PICK wants \in {"use", "logout"} :
           thread' = [thread EXCEPT ![t] =
                        [Idle EXCEPT !.sid = s, !.wants = wants,
                           !.at = IF ~Live(s) THEN "idle"
                                  ELSE IF row[s].aged THEN "expired"
                                  ELSE IF row[s].fresh THEN "touch" ELSE "lock"]]
    BY <1>5 DEF Begin
  <2>2. TypeOK' BY <1>5, <2>1, IdleTyped DEF Begin
  <2>3. thread'[t].at \in {"idle", "expired", "touch", "lock"} BY <2>1
  <2>4. CurrentLock' BY <1>5, <2>1, <2>3 DEF Begin
  <2>5. LockExcludes' BY <1>5, <2>1, <2>3 DEF Begin
  <2>6. DropsBehindDeletion' BY <1>5, <2>1, <2>3 DEF Begin
  <2>7. OneRefresher' BY <1>5, <2>1, <2>3 DEF Begin
  <2> QED BY <2>2, <2>4, <2>5, <2>6, <2>7
<1>6. CASE Sweep
  <2>0. row' \in [Sids -> RowRecord] BY <1>6, GoneTyped DEF Sweep
  <2>1. CurrentLock' BY <1>6 DEF Sweep
  <2>2. LockExcludes' BY <1>6 DEF Sweep
  <2>3. DropsBehindDeletion' BY <1>6 DEF Sweep
  <2>4. OneRefresher' BY <1>6 DEF Sweep
  <2> QED BY <1>6, <2>0, <2>1, <2>2, <2>3, <2>4 DEF Sweep
<1>7. CASE Restart
  <2>1. TypeOK' BY <1>7, IdleTyped DEF Restart
  <2> QED BY <1>7, <2>1 DEF Restart
<1> QED BY <1>1, <1>2, <1>3, <1>4, <1>5, <1>6, <1>7 DEF Next

LEMMA FInvInductive == FInv /\ [Next]_vars => FInv'
<1> SUFFICES ASSUME FInv, [Next]_vars PROVE FInv'
  OBVIOUS
<1>1. ASSUME NEW t \in Threads, Step(t) PROVE FInv'
  <2>1. Sid(t) \in Sids \/ At(t, "idle")
    BY DEF FInv, DropsBehindDeletion, At, Sid
  <2>2. TypeOK' BY <1>1, <2>1, StepTypes DEF FInv
  <2> QED BY <1>1, <2>2, StepKeeps
<1>2. CASE UNCHANGED vars
  BY <1>2 DEF vars, FInv, TypeOK, CurrentLock, LockExcludes, DropsBehindDeletion, OneRefresher, At, Sid, Live
<1> QED BY <1>1, <1>2, OthersKeep

LEMMA FInvInitially == Init => FInv
BY SessionsAssumption, IdleTyped, GoneTyped
DEF Init, FInv, TypeOK, CurrentLock, LockExcludes, DropsBehindDeletion, OneRefresher, Idle, Sid, Inside, Presenting

-------------------------------------------------------------------------------

\* Type correctness of the session model.
THEOREM TypeCorrect == Spec => []TypeOK
<1>1. FInv => TypeOK BY DEF FInv
<1> QED BY <1>1, FInvInitially, FInvInductive, PTL DEF Spec

\* The refresh cookie of a session is presented by one request at a time, for any
\* number of requests: _drop_refresh_lock, which replaces the lock others hold or
\* wait for, runs only when they will find the session gone.
THEOREM SingleFlight == Spec => []OneRefresher
<1>1. FInv => OneRefresher BY DEF FInv
<1> QED BY <1>1, FInvInitially, FInvInductive, PTL DEF Spec

LEMMA StepKeepsCookies ==
    ASSUME FInv, CInv, TypeOK', NEW t \in Threads, Step(t) PROVE CInv'
<1> USE SessionsAssumption DEF TypeOK, RowRecord, ThreadRecord, At, Sid, Goto, Finish, DeleteRow, DropBookkeeping, Live, Idle, Stages, Inside, Gone, Absent, FInv, CurrentLock, LockExcludes, DropsBehindDeletion, OneRefresher, Presenting, CInv, NoRotatedCookie, StoresCurrent, RowCurrent
<1>1. CASE DeleteExpired(t)
  <2>1. NoRotatedCookie' BY <1>1 DEF DeleteExpired
  <2>2. StoresCurrent' BY <1>1 DEF DeleteExpired
  <2>3. RowCurrent' BY <1>1 DEF DeleteExpired
  <2> QED BY <2>1, <2>2, <2>3
<1>2. CASE Drop(t)
  BY <1>2 DEF Drop
<1>3. CASE GetLock(t)
  BY <1>3 DEF GetLock
<1>4. CASE Acquire(t)
  BY <1>4 DEF Acquire
<1>5. CASE Reread(t)
  <2>1. NoRotatedCookie' BY <1>5 DEF Reread
  <2>2. StoresCurrent' BY <1>5 DEF Reread
  <2>3. RowCurrent' BY <1>5 DEF Reread
  <2> QED BY <2>1, <2>2, <2>3
<1>6. CASE Missing(t)
  BY <1>6 DEF Missing
<1>7. CASE PostAccepted(t)
  <2>1. PICK next \in {thread[t].cookie, thread[t].cookie + 1} :
           /\ upstream' = [upstream EXCEPT ![Sid(t)] = next]
           /\ \/ /\ thread' = [thread EXCEPT ![t].at = "store", ![t].cookie = next]
                 /\ UNCHANGED lost
              \/ /\ Finish(t)
                 /\ lost' = lost \cup {Sid(t)}
    BY <1>7 DEF PostAccepted
  <2>2. CASE Finish(t) /\ lost' = lost \cup {Sid(t)}
    <3>1. NoRotatedCookie' BY <1>7, <2>1, <2>2 DEF PostAccepted
    <3>2. StoresCurrent' BY <1>7, <2>1, <2>2 DEF PostAccepted
    <3>3. RowCurrent' BY <1>7, <2>1, <2>2 DEF PostAccepted
    <3> QED BY <3>1, <3>2, <3>3
  <2>3. CASE /\ thread' = [thread EXCEPT ![t].at = "store", ![t].cookie = next]
             /\ UNCHANGED lost
    <3>1. NoRotatedCookie' BY <1>7, <2>1, <2>3 DEF PostAccepted
    <3>2. StoresCurrent' BY <1>7, <2>1, <2>3 DEF PostAccepted
    <3>3. RowCurrent'
      <4> SUFFICES ASSUME NEW s \in Sids, Live(s)',
                          \A u \in Threads : At(u, "store")' => Sid(u)' # s
                   PROVE  upstream'[s] \in {0, row'[s].cookie} \/ s \in lost'
        BY DEF RowCurrent
      <4>1. thread'[t].at = "store" /\ thread'[t].sid = thread[t].sid BY <2>3
      <4>2. \A u \in Threads \ {t} : thread'[u] = thread[u] BY <2>3
      <4>3. s # Sid(t) BY <4>1
      <4>4. upstream'[s] = upstream[s] BY <2>1, <4>3
      <4>5. UNCHANGED <<row, lost>> /\ At(t, "post") BY <1>7, <2>3 DEF PostAccepted
      <4>6. \A u \in Threads : At(u, "store") => Sid(u) # s BY <4>2, <4>5
      <4> QED BY <4>4, <4>5, <4>6
    <3> QED BY <3>1, <3>2, <3>3
  <2> QED BY <2>1, <2>2, <2>3
<1>8. CASE PostUnreachable(t)
  BY <1>8 DEF PostUnreachable
<1>9. CASE PostRefused(t)
  <2>1. NoRotatedCookie' BY <1>9 DEF PostRefused
  <2>2. StoresCurrent' BY <1>9 DEF PostRefused
  <2>3. RowCurrent' BY <1>9 DEF PostRefused
  <2> QED BY <2>1, <2>2, <2>3
<1>10. CASE PostFails(t)
  BY <1>10 DEF PostFails
<1>11. CASE RejectDelete(t)
  <2>1. NoRotatedCookie' BY <1>11 DEF RejectDelete
  <2>2. StoresCurrent' BY <1>11 DEF RejectDelete
  <2>3. RowCurrent' BY <1>11 DEF RejectDelete
  <2> QED BY <2>1, <2>2, <2>3
<1>12. CASE RejectForget(t)
  BY <1>12 DEF RejectForget
<1>13. CASE Store(t)
  BY <1>13 DEF Store
<1>14. CASE Touch(t)
  <2>1. NoRotatedCookie' BY <1>14 DEF Touch
  <2>2. StoresCurrent' BY <1>14 DEF Touch
  <2>3. RowCurrent' BY <1>14 DEF Touch
  <2> QED BY <2>1, <2>2, <2>3
<1>15. CASE LogoutRead(t)
  <2>1. NoRotatedCookie' BY <1>15 DEF LogoutRead
  <2>2. StoresCurrent' BY <1>15 DEF LogoutRead
  <2>3. RowCurrent' BY <1>15 DEF LogoutRead
  <2> QED BY <2>1, <2>2, <2>3
<1>16. CASE LogoutRevoke(t)
  <2>1. NoRotatedCookie' BY <1>16 DEF LogoutRevoke
  <2>2. StoresCurrent' BY <1>16 DEF LogoutRevoke
  <2>3. RowCurrent' BY <1>16 DEF LogoutRevoke
  <2> QED BY <2>1, <2>2, <2>3
<1>17. CASE LogoutDelete(t)
  <2>1. NoRotatedCookie' BY <1>17 DEF LogoutDelete
  <2>2. StoresCurrent' BY <1>17 DEF LogoutDelete
  <2>3. RowCurrent' BY <1>17 DEF LogoutDelete
  <2> QED BY <2>1, <2>2, <2>3
<1> QED BY <1>1, <1>2, <1>3, <1>4, <1>5, <1>6, <1>7, <1>8, <1>9, <1>10, <1>11, <1>12, <1>13, <1>14, <1>15, <1>16, <1>17 DEF Step, Post

LEMMA OthersKeepCookies ==
    ASSUME FInv, CInv, Next, ~\E t \in Threads : Step(t) PROVE CInv'
<1> USE SessionsAssumption DEF TypeOK, RowRecord, ThreadRecord, At, Sid, Live, Idle, Stages, Inside, Gone, Absent, FInv, DropsBehindDeletion, CInv, NoRotatedCookie, StoresCurrent, RowCurrent
<1>1. ASSUME NEW s \in Sids, Login(s) PROVE CInv'
  <2>1. NoRotatedCookie' BY <1>1 DEF Login
  <2>2. StoresCurrent' BY <1>1 DEF Login
  <2>3. RowCurrent' BY <1>1 DEF Login
  <2> QED BY <2>1, <2>2, <2>3
<1>2. ASSUME NEW s \in Sids, AccessExpires(s) PROVE CInv'
  <2>1. NoRotatedCookie' BY <1>2 DEF AccessExpires
  <2>2. StoresCurrent' BY <1>2 DEF AccessExpires
  <2>3. RowCurrent' BY <1>2 DEF AccessExpires
  <2> QED BY <2>1, <2>2, <2>3
<1>3. ASSUME NEW s \in Sids, Ages(s) PROVE CInv'
  <2>1. NoRotatedCookie' BY <1>3 DEF Ages
  <2>2. StoresCurrent' BY <1>3 DEF Ages
  <2>3. RowCurrent' BY <1>3 DEF Ages
  <2> QED BY <2>1, <2>2, <2>3
<1>4. ASSUME NEW s \in Sids, RevokedUpstream(s) PROVE CInv'
  <2>1. NoRotatedCookie' BY <1>4 DEF RevokedUpstream
  <2>2. StoresCurrent' BY <1>4 DEF RevokedUpstream
  <2>3. RowCurrent' BY <1>4 DEF RevokedUpstream
  <2> QED BY <2>1, <2>2, <2>3
<1>5. ASSUME NEW t \in Threads, NEW s \in Sids, Begin(t, s) PROVE CInv'
  <2>1. ~At(t, "post")' /\ ~At(t, "store")' BY <1>5 DEF Begin
  <2>2. \A u \in Threads \ {t} : thread'[u] = thread[u] BY <1>5 DEF Begin
  <2>3. ~At(t, "store") BY <1>5 DEF Begin
  <2>4. UNCHANGED <<row, upstream, lost>> BY <1>5 DEF Begin
  <2>5. NoRotatedCookie' BY <2>1, <2>2, <2>3, <2>4
  <2>6. StoresCurrent' BY <2>1, <2>2, <2>3, <2>4
  <2>7. RowCurrent' BY <2>1, <2>2, <2>3, <2>4
  <2> QED BY <2>5, <2>6, <2>7
<1>6. CASE Sweep
  <2>1. NoRotatedCookie' BY <1>6 DEF Sweep
  <2>2. StoresCurrent' BY <1>6 DEF Sweep
  <2>3. RowCurrent' BY <1>6 DEF Sweep
  <2> QED BY <2>1, <2>2, <2>3
<1>7. CASE Restart
  <2>1. NoRotatedCookie' BY <1>7 DEF Restart
  <2>2. StoresCurrent' BY <1>7 DEF Restart
  <2>3. RowCurrent' BY <1>7 DEF Restart
  <2> QED BY <2>1, <2>2, <2>3
<1> QED BY <1>1, <1>2, <1>3, <1>4, <1>5, <1>6, <1>7 DEF Next

LEMMA CInvInductive == FInv /\ FInv' /\ CInv /\ [Next]_vars => CInv'
<1> SUFFICES ASSUME FInv, FInv', CInv, [Next]_vars PROVE CInv'
  OBVIOUS
<1>1. ASSUME NEW t \in Threads, Step(t) PROVE CInv'
  BY <1>1, StepKeepsCookies DEF FInv
<1>2. CASE UNCHANGED vars
  BY <1>2 DEF vars, CInv, NoRotatedCookie, StoresCurrent, RowCurrent, At, Sid, Live
<1> QED BY <1>1, <1>2, OthersKeepCookies

\* The cookie a refresh presents is never one that a concurrent refresh has already
\* spent: the loser of the race reads the row again under the lock.
THEOREM NoSpentCookie == Spec => []NoRotatedCookie
<1>1. Init => CInv
  BY DEF Init, CInv, NoRotatedCookie, StoresCurrent, RowCurrent, At, Sid, Live, Idle, Absent
<1>2. CInv => NoRotatedCookie BY DEF CInv
<1> QED BY <1>1, <1>2, FInvInitially, FInvInductive, CInvInductive, PTL DEF Spec

-------------------------------------------------------------------------------

\* No step brings a deleted session back, the tokens of a late refresh included.
THEOREM DeletedForGood == Spec => GoneStaysGone
<1>1. FInv /\ [Next]_vars => [\A s \in Sids : row[s].st = "gone" => row'[s].st = "gone"]_vars
  <2> SUFFICES ASSUME FInv, Next, NEW s \in Sids, row[s].st = "gone"
               PROVE  row'[s].st = "gone"
    OBVIOUS
  <2> USE DEF FInv, TypeOK, RowRecord, Live, Gone, Absent
  <2>1. ASSUME NEW t \in Threads, Step(t) PROVE row'[s].st = "gone"
    BY <2>1 DEF Step, Post, DeleteExpired, Drop, GetLock, Acquire, Reread, Missing,
        PostAccepted, PostUnreachable, PostRefused, PostFails, RejectDelete,
        RejectForget, Store, Touch, LogoutRead, LogoutRevoke, LogoutDelete, DeleteRow
  <2>2. ASSUME NEW t \in Threads, NEW u \in Sids, Begin(t, u) PROVE row'[s].st = "gone"
    BY <2>2 DEF Begin
  <2>3. ASSUME NEW u \in Sids, Login(u) \/ AccessExpires(u) \/ Ages(u) \/ RevokedUpstream(u)
        PROVE  row'[s].st = "gone"
    BY <2>3 DEF Login, AccessExpires, Ages, RevokedUpstream
  <2>4. CASE Sweep \/ Restart
    BY <2>4 DEF Sweep, Restart
  <2> QED BY <2>1, <2>2, <2>3, <2>4 DEF Next
<1> QED BY <1>1, FInvInitially, FInvInductive, PTL DEF Spec, GoneStaysGone

-------------------------------------------------------------------------------
(* The sliding window *)


\* Stamps are read before the event is let through, at most Skew earlier, and
\* events are let through in order.
Stamped ==
    \A k \in Keys :
        /\ \A i \in 1..Len(events[k]) :
              /\ events[k][i] <= admitted[k][i]
              /\ admitted[k][i] <= events[k][i] + Skew
              /\ admitted[k][i] <= clock
        /\ \A i \in 1..Len(events[k]), j \in 1..Len(events[k]) :
              i <= j => admitted[k][i] <= admitted[k][j]

\* Whatever left a deque was let through more than a window less the lag ago.
GoneLongAgo ==
    \A k \in Keys : \A i \in 1..gone[k] : clock - admitted[k][i] > Window - Skew

WaitingBriefly ==
    \A c \in Callers :
        caller[c].at = "waiting" =>
            caller[c].now <= clock /\ clock <= caller[c].now + Skew

NeverOverfull == \A k \in Keys : Len(events[k]) - gone[k] <= MaxEvents

WindowInv == WindowTypeOK /\ Stamped /\ GoneLongAgo /\ WaitingBriefly /\ NeverOverfull

-------------------------------------------------------------------------------

LEMMA AppendFacts ==
    ASSUME NEW s \in Seq(Nat), NEW x \in Nat
    PROVE  /\ Append(s, x) \in Seq(Nat)
           /\ Len(Append(s, x)) = Len(s) + 1
           /\ \A i \in 1..Len(s) : Append(s, x)[i] = s[i]
           /\ Append(s, x)[Len(s) + 1] = x
OBVIOUS

LEMMA WaitingTypes ==
    ASSUME WindowTypeOK, NEW c \in Callers, caller[c].at = "waiting"
    PROVE  caller[c].key \in Keys /\ caller[c].now \in Nat
BY DEF WindowTypeOK, Out

\* What one turn under the lock does, in terms of the key and the instant.
Turn(c, k, now, g, h) ==
    /\ g = (IF k \in Swept(now) THEN Len(events[k]) ELSE gone[k])
    /\ h \in g..Len(events[k])
    /\ Evicts(k, g, h, now - Window)
    /\ lastPrune' = IF PruneDue(now) THEN now ELSE lastPrune
    /\ known' = (known \ Swept(now)) \cup {k}
    /\ gone' = [q \in Keys |-> IF q = k THEN h
                               ELSE IF q \in Swept(now)
                                    THEN Len(events[q]) ELSE gone[q]]
    /\ \/ Full(Len(events[k]) - h) /\ Refuse(c, k, now, h)
       \/ ~Full(Len(events[k]) - h) /\ Admit(c, k, now)
    /\ clock' = clock

LEMMA CheckIsTurn ==
    ASSUME WindowTypeOK, NEW c \in Callers, Check(c)
    PROVE  \E k \in Keys, now, g, h \in Nat :
              /\ caller[c].at = "waiting"
              /\ caller[c].key = k
              /\ caller[c].now = now
              /\ Turn(c, k, now, g, h)
<1>1. caller[c].at = "waiting" /\ caller[c].key \in Keys /\ caller[c].now \in Nat
  BY WaitingTypes DEF Check
<1>2. PICK k \in Keys, now \in Nat : caller[c].key = k /\ caller[c].now = now
  BY <1>1
<1>3. PICK g \in Nat : g = IF k \in Swept(now) THEN Len(events[k]) ELSE gone[k]
  BY DEF WindowTypeOK
<1>4. PICK h \in g..Len(events[k]) : Turn(c, k, now, g, h)
  BY <1>2, <1>3 DEF Check, Turn
<1>5. h \in Nat
  BY <1>4 DEF WindowTypeOK
<1> QED BY <1>1, <1>2, <1>3, <1>4, <1>5

\* The sweep, like the eviction, only drops what is older than the window.
LEMMA EvictedLongAgo ==
    ASSUME WindowInv, NEW c \in Callers, NEW k \in Keys, NEW now \in Nat,
           caller[c].at = "waiting", caller[c].now = now,
           NEW g \in Nat, NEW h \in Nat, Turn(c, k, now, g, h),
           NEW q \in Keys, NEW i \in 1..gone'[q]
    PROVE  /\ i \in 1..Len(events[q])
           /\ clock - admitted[q][i] > Window - Skew
<1>1. /\ k \in Keys /\ now \in Nat /\ now <= clock
      /\ clock \in Nat /\ Window \in Nat /\ Skew \in Nat
  BY WindowAssumption DEF WindowInv, WaitingBriefly, WindowTypeOK
<1>2. /\ events[q] \in Seq(Nat) /\ admitted[q] \in Seq(Nat)
      /\ Len(events[q]) \in Nat /\ Len(admitted[q]) = Len(events[q])
      /\ gone[q] \in Nat /\ gone[q] <= Len(events[q])
  BY DEF WindowInv, WindowTypeOK
<1>3. \A n \in 1..Len(events[q]) :
         /\ events[q][n] \in Nat /\ admitted[q][n] \in Nat
         /\ admitted[q][n] <= events[q][n] + Skew
         /\ \A m \in 1..Len(events[q]) :
                n <= m => admitted[q][n] <= admitted[q][m]
  BY <1>2 DEF WindowInv, Stamped
<1>4. ASSUME NEW n \in 1..Len(events[q]), events[q][n] < now - Window
      PROVE  clock - admitted[q][n] > Window - Skew
  <2>1. /\ events[q][n] \in Nat /\ admitted[q][n] \in Nat
        /\ admitted[q][n] <= events[q][n] + Skew
    BY <1>3
  <2> QED BY <1>1, <1>4, <2>1
<1>5. \A n \in 1..gone[q] : clock - admitted[q][n] > Window - Skew
  BY DEF WindowInv, GoneLongAgo
<1>6. q \in Swept(now) =>
         \A n \in 1..Len(events[q]) : clock - admitted[q][n] > Window - Skew
  <2> SUFFICES ASSUME q \in Swept(now), NEW n \in 1..Len(events[q])
               PROVE  clock - admitted[q][n] > Window - Skew
    OBVIOUS
  <2>1. CASE gone[q] < Len(events[q])
    <3>1. events[q][Len(events[q])] < now - Window
      BY <2>1 DEF Swept, AgedOut
    <3>2. Len(events[q]) \in 1..Len(events[q])
      BY <1>2, <2>1
    <3>3. clock - admitted[q][Len(events[q])] > Window - Skew
      BY <1>4, <3>1, <3>2
    <3>4. /\ admitted[q][n] <= admitted[q][Len(events[q])]
          /\ admitted[q][n] \in Nat /\ admitted[q][Len(events[q])] \in Nat
      <4>1. n <= Len(events[q])
        BY <1>2
      <4> QED BY <1>3, <3>2, <4>1
    <3> QED BY <1>1, <3>3, <3>4
  <2>2. CASE gone[q] = Len(events[q])
    BY <1>5, <2>2
  <2> QED BY <1>2, <2>1, <2>2
<1>7. CASE q # k
  BY <1>2, <1>5, <1>6, <1>7 DEF Turn
<1>8. CASE q = k
  <2>1. gone'[q] = h /\ h <= Len(events[q]) /\ g <= h
    BY <1>1, <1>2, <1>8 DEF Turn
  <2>2. CASE i <= g
    BY <1>2, <1>5, <1>6, <1>8, <2>1, <2>2 DEF Turn
  <2>3. CASE i > g
    <3>1. events[q][i] < now - Window
      BY <1>8, <2>1, <2>3 DEF Turn, Evicts, Expired
    <3>2. i \in 1..Len(events[q])
      BY <1>2, <2>1, <2>3
    <3> QED BY <1>4, <3>1, <3>2
  <2> QED BY <2>2, <2>3
<1> QED BY <1>7, <1>8

LEMMA TurnTypes ==
    ASSUME WindowInv, NEW c \in Callers, NEW k \in Keys, NEW now \in Nat,
           caller[c].at = "waiting", caller[c].now = now,
           NEW g \in Nat, NEW h \in Nat, Turn(c, k, now, g, h)
    PROVE  WindowTypeOK' /\ NeverOverfull'
<1>1. /\ k \in Keys /\ now \in Nat /\ now <= clock
      /\ clock \in Nat /\ Window \in Nat /\ MaxEvents \in Nat \ {0}
  BY WindowAssumption DEF WindowInv, WaitingBriefly, WindowTypeOK
<1>2. h <= Len(events[k]) /\ gone[k] <= h
  BY <1>1 DEF Turn, WindowInv, WindowTypeOK
<1>3. clock' \in Nat /\ lastPrune' \in Nat /\ known' \subseteq Keys
  BY <1>1 DEF Turn, WindowInv, WindowTypeOK, Swept
<1>4. gone' \in [Keys -> Nat]
  BY <1>1 DEF Turn, WindowInv, WindowTypeOK
<1>5. \A q \in Keys : gone'[q] <= Len(events[q])
  BY <1>1, <1>2 DEF Turn, WindowInv, WindowTypeOK
<1>6. CASE Admit(c, k, now)
  <2>1. /\ events' = [events EXCEPT ![k] = Append(events[k], now)]
        /\ admitted' = [admitted EXCEPT ![k] = Append(admitted[k], clock)]
    BY <1>6 DEF Admit
  <2>2. /\ Append(events[k], now) \in Seq(Nat)
        /\ Len(Append(events[k], now)) = Len(events[k]) + 1
        /\ Append(admitted[k], clock) \in Seq(Nat)
        /\ Len(Append(admitted[k], clock)) = Len(admitted[k]) + 1
    BY <1>1, AppendFacts DEF WindowInv, WindowTypeOK
  <2>3. /\ events' \in [Keys -> Seq(Nat)]
        /\ admitted' \in [Keys -> Seq(Nat)]
        /\ \A q \in Keys : q # k => events'[q] = events[q]
                                    /\ admitted'[q] = admitted[q]
        /\ Len(events'[k]) = Len(events[k]) + 1
        /\ Len(admitted'[k]) = Len(admitted[k]) + 1
    BY <1>1, <2>1, <2>2 DEF WindowInv, WindowTypeOK
  <2>4. \A q \in Keys : /\ Len(events'[q]) = Len(admitted'[q])
                        /\ gone'[q] <= Len(events'[q])
    <3>1. /\ Len(events'[k]) = Len(admitted'[k])
          /\ gone'[k] <= Len(events'[k])
      BY <1>1, <1>4, <1>5, <2>3 DEF WindowInv, WindowTypeOK
    <3>2. ASSUME NEW q \in Keys, q # k
          PROVE  /\ Len(events'[q]) = Len(admitted'[q])
                 /\ gone'[q] <= Len(events'[q])
      BY <1>5, <2>3, <3>2 DEF WindowInv, WindowTypeOK
    <3> QED BY <3>1, <3>2
  <2>5. caller' \in [Callers -> {Out}
          \cup [at : {"waiting"}, key : Keys, now : Nat]
          \cup [at : {"refused"}, key : Keys, until : Nat, seen : Nat]]
    BY <1>6 DEF Admit, WindowInv, WindowTypeOK
  <2>6. \A q \in Keys : Len(events'[q]) - gone'[q] <= MaxEvents
    <3>1. ~Full(Len(events[k]) - h)
      BY <1>6, <2>3, <1>1 DEF Turn, Refuse, WindowInv, WindowTypeOK
    <3>2. gone'[k] = h
      BY <1>1 DEF Turn
    <3>3. Len(events'[k]) - gone'[k] <= MaxEvents
      BY <1>1, <1>2, <2>3, <3>1, <3>2 DEF Full, WindowInv, WindowTypeOK
    <3>4. \A q \in Keys : q # k => gone[q] <= gone'[q]
      BY <1>1 DEF Turn, WindowInv, WindowTypeOK
    <3>5. \A q \in Keys : q # k => Len(events'[q]) - gone'[q] <= MaxEvents
      BY <1>1, <1>4, <2>3, <3>4 DEF WindowInv, WindowTypeOK, NeverOverfull
    <3> QED BY <3>3, <3>5
  <2> QED BY <1>3, <1>4, <2>3, <2>4, <2>5, <2>6 DEF WindowTypeOK, NeverOverfull
<1>7. CASE Refuse(c, k, now, h) /\ Full(Len(events[k]) - h)
  <2>1. h < Len(events[k]) /\ events[k][h + 1] \in Nat
    BY <1>1, <1>2, <1>7 DEF Full, WindowInv, WindowTypeOK
  <2>2. clock + RetryAfter(now, events[k][h + 1]) \in Nat
    BY <1>1, <2>1 DEF RetryAfter
  <2>3. Refused(k, clock + RetryAfter(now, events[k][h + 1]), Len(events[k]))
          \in [at : {"refused"}, key : Keys, until : Nat, seen : Nat]
    BY <1>1, <2>2 DEF Refused, WindowInv, WindowTypeOK
  <2>4. caller' \in [Callers -> {Out}
          \cup [at : {"waiting"}, key : Keys, now : Nat]
          \cup [at : {"refused"}, key : Keys, until : Nat, seen : Nat]]
    BY <1>7, <2>3 DEF Refuse, WindowInv, WindowTypeOK
  <2>5. events' = events /\ admitted' = admitted
    BY <1>7 DEF Refuse
  <2>6. \A q \in Keys : gone[q] <= gone'[q]
    BY <1>1, <1>2 DEF Turn, WindowInv, WindowTypeOK
  <2>7. NeverOverfull'
    BY <1>1, <1>4, <2>5, <2>6 DEF NeverOverfull, WindowInv, WindowTypeOK
  <2> QED BY <1>3, <1>4, <1>5, <2>4, <2>5, <2>7 DEF WindowTypeOK, WindowInv
<1> QED BY <1>6, <1>7 DEF Turn

LEMMA TurnStamps ==
    ASSUME WindowInv, NEW c \in Callers, NEW k \in Keys, NEW now \in Nat,
           caller[c].at = "waiting", caller[c].now = now,
           NEW g \in Nat, NEW h \in Nat, Turn(c, k, now, g, h)
    PROVE  Stamped' /\ GoneLongAgo' /\ WaitingBriefly'
<1>1. /\ k \in Keys /\ now \in Nat /\ now <= clock /\ clock <= now + Skew
      /\ clock \in Nat /\ Window \in Nat /\ Skew \in Nat /\ clock' = clock
  BY WindowAssumption DEF WindowInv, WaitingBriefly, WindowTypeOK, Turn
<1>2. \A q \in Keys : \A i \in 1..gone'[q] :
         i \in 1..Len(events[q]) /\ clock - admitted[q][i] > Window - Skew
  BY EvictedLongAgo
<1>3. WaitingBriefly'
  <2> SUFFICES ASSUME NEW d \in Callers, caller'[d].at = "waiting"
               PROVE  caller'[d] = caller[d]
    BY <1>1 DEF WaitingBriefly, WindowInv
  <2> QED BY DEF Turn, Refuse, Admit, Refused, Out, WindowInv, WindowTypeOK
<1>4. CASE events' = events /\ admitted' = admitted
  BY <1>1, <1>2, <1>3, <1>4 DEF Stamped, GoneLongAgo, WindowInv
<1>5. CASE Admit(c, k, now)
  <2>1. /\ events[k] \in Seq(Nat) /\ admitted[k] \in Seq(Nat)
        /\ Len(admitted[k]) = Len(events[k])
    BY <1>1 DEF WindowInv, WindowTypeOK
  <2>2. \A q \in Keys : q # k => events'[q] = events[q]
                                 /\ admitted'[q] = admitted[q]
    BY <1>1, <1>5 DEF Admit, WindowInv, WindowTypeOK
  <2>3. /\ events'[k] = Append(events[k], now)
        /\ admitted'[k] = Append(admitted[k], clock)
    BY <1>1, <1>5 DEF Admit, WindowInv, WindowTypeOK
  <2>4. /\ Len(events'[k]) = Len(events[k]) + 1
        /\ events'[k][Len(events[k]) + 1] = now
        /\ admitted'[k][Len(events[k]) + 1] = clock
        /\ \A i \in 1..Len(events[k]) : /\ events'[k][i] = events[k][i]
                                        /\ admitted'[k][i] = admitted[k][i]
    BY <1>1, <2>1, <2>3
  <2>5. \A i \in 1..Len(events'[k]) :
           i \in 1..Len(events[k]) \/ i = Len(events[k]) + 1
    BY <2>1, <2>4
  <2>6. \A i \in 1..Len(events[k]) :
           /\ admitted[k][i] <= clock /\ events[k][i] <= admitted[k][i]
           /\ admitted[k][i] <= events[k][i] + Skew
    BY <1>1 DEF WindowInv, Stamped
  <2>7. \A i \in 1..Len(events'[k]) :
           /\ events'[k][i] <= admitted'[k][i]
           /\ admitted'[k][i] <= events'[k][i] + Skew
           /\ admitted'[k][i] <= clock
    <3>1. ASSUME NEW i \in 1..Len(events[k])
          PROVE  /\ events'[k][i] <= admitted'[k][i]
                 /\ admitted'[k][i] <= events'[k][i] + Skew
                 /\ admitted'[k][i] <= clock
      BY <2>4, <2>6
    <3>2. /\ events'[k][Len(events[k]) + 1] <= admitted'[k][Len(events[k]) + 1]
          /\ admitted'[k][Len(events[k]) + 1]
                <= events'[k][Len(events[k]) + 1] + Skew
          /\ admitted'[k][Len(events[k]) + 1] <= clock
      BY <1>1, <2>4
    <3> QED BY <2>5, <3>1, <3>2
  <2>8. ASSUME NEW i \in 1..Len(events'[k]), NEW j \in 1..Len(events'[k]), i <= j
        PROVE  admitted'[k][i] <= admitted'[k][j]
    <3>1. CASE j = Len(events[k]) + 1
      BY <1>1, <2>4, <2>7, <3>1
    <3>2. CASE j \in 1..Len(events[k])
      <4>1. i \in 1..Len(events[k])
        BY <2>1, <2>8, <3>2
      <4> QED BY <1>1, <2>4, <2>8, <3>2, <4>1 DEF WindowInv, Stamped
    <3> QED BY <2>5, <3>1, <3>2
  <2>9. Stamped'
    BY <1>1, <2>2, <2>7, <2>8 DEF Stamped, WindowInv
  <2>10. GoneLongAgo'
    BY <1>1, <1>2, <2>2, <2>4 DEF GoneLongAgo
  <2> QED BY <1>3, <2>9, <2>10
<1> QED BY <1>4, <1>5 DEF Turn, Refuse

LEMMA WindowStep == WindowInv /\ [WindowNext]_windowVars => WindowInv'
<1> SUFFICES ASSUME WindowInv, [WindowNext]_windowVars PROVE WindowInv'
  OBVIOUS
<1>1. CASE UNCHANGED windowVars
  BY <1>1 DEF windowVars, WindowInv, WindowTypeOK, Stamped, GoneLongAgo, WaitingBriefly, NeverOverfull
<1>2. CASE Tick
  <2>1. /\ clock \in Nat /\ clock' = clock + 1 /\ Window \in Nat /\ Skew \in Nat
        /\ UNCHANGED <<lastPrune, known, events, gone, admitted, caller>>
    BY <1>2, WindowAssumption DEF Tick, WindowInv, WindowTypeOK
  <2>2. WindowTypeOK' /\ NeverOverfull'
    BY <2>1 DEF WindowInv, WindowTypeOK, NeverOverfull
  <2>3. \A k \in Keys : \A i \in 1..Len(events[k]) : admitted[k][i] \in Nat
    BY DEF WindowInv, WindowTypeOK
  <2>4. Stamped'
    BY <2>1, <2>3 DEF WindowInv, Stamped
  <2>5. GoneLongAgo'
    <3> SUFFICES ASSUME NEW k \in Keys, NEW i \in 1..gone'[k]
                 PROVE  clock' - admitted'[k][i] > Window - Skew
      BY Zenon DEF GoneLongAgo
    <3>1. i \in 1..gone[k] /\ i \in 1..Len(events[k])
      BY <2>1 DEF WindowInv, WindowTypeOK
    <3>2. admitted[k][i] \in Nat /\ clock - admitted[k][i] > Window - Skew
      BY <2>3, <3>1 DEF WindowInv, GoneLongAgo
    <3> QED BY <2>1, <3>2
  <2>6. WaitingBriefly'
    <3> SUFFICES ASSUME NEW c \in Callers, caller[c].at = "waiting"
                 PROVE  caller[c].now <= clock + 1 /\ clock + 1 <= caller[c].now + Skew
      BY <2>1 DEF WaitingBriefly
    <3>1. caller[c].now \in Nat /\ clock - caller[c].now < Skew
      BY <1>2, WaitingTypes DEF Tick, WindowInv
    <3> QED BY <2>1, <3>1 DEF WindowInv, WaitingBriefly
  <2> QED BY <2>2, <2>4, <2>5, <2>6 DEF WindowInv
<1>3. ASSUME NEW c \in Callers, ReadClock(c) PROVE WindowInv'
  <2>1. PICK k \in Keys : caller' = [caller EXCEPT ![c] = Waiting(k, clock)]
    BY <1>3 DEF ReadClock
  <2>2. /\ clock \in Nat /\ Skew \in Nat
        /\ UNCHANGED <<clock, lastPrune, known, events, gone, admitted>>
    BY <1>3, WindowAssumption DEF ReadClock, WindowInv, WindowTypeOK
  <2>3. WindowTypeOK'
    BY <2>1, <2>2 DEF WindowInv, WindowTypeOK, Waiting
  <2>4. WaitingBriefly'
    BY <2>1, <2>2 DEF WindowInv, WindowTypeOK, WaitingBriefly, Waiting
  <2> QED
    BY <2>2, <2>3, <2>4 DEF WindowInv, Stamped, GoneLongAgo, NeverOverfull
<1>4. ASSUME NEW c \in Callers, Check(c) PROVE WindowInv'
  <2>1. WindowTypeOK
    BY DEF WindowInv
  <2>2. PICK k \in Keys, now, g, h \in Nat :
           /\ caller[c].at = "waiting"
           /\ caller[c].now = now
           /\ Turn(c, k, now, g, h)
    BY <1>4, <2>1, CheckIsTurn
  <2> QED BY <2>1, <2>2, TurnTypes, TurnStamps DEF WindowInv
<1> QED BY <1>1, <1>2, <1>3, <1>4 DEF WindowNext

LEMMA WindowInitHolds == WindowInit => WindowInv
BY WindowAssumption
   DEF WindowInit, WindowInv, WindowTypeOK, Stamped, GoneLongAgo, WaitingBriefly, NeverOverfull, Out

\* Every reachable state is well typed.
THEOREM WindowTypeCorrect == WindowSpec => []WindowTypeOK
<1>1. WindowInv => WindowTypeOK
  BY DEF WindowInv
<1> QED BY <1>1, WindowInitHolds, WindowStep, PTL DEF WindowSpec

-------------------------------------------------------------------------------

\* An admission finds fewer than MaxEvents in the deque, so the event MaxEvents
\* places earlier is one that has left it.
LEMMA TurnBudget ==
    ASSUME WindowInv, BudgetKept, NEW c \in Callers, NEW k \in Keys, NEW now \in Nat,
           caller[c].at = "waiting", caller[c].now = now,
           NEW g \in Nat, NEW h \in Nat, Turn(c, k, now, g, h)
    PROVE  BudgetKept'
<1>1. /\ clock \in Nat /\ Window \in Nat /\ Skew \in Nat /\ MaxEvents \in Nat \ {0}
      /\ events[k] \in Seq(Nat) /\ admitted[k] \in Seq(Nat)
      /\ Len(admitted[k]) = Len(events[k]) /\ gone'[k] = h
  BY WindowAssumption DEF WindowInv, WindowTypeOK, Turn
<1>2. CASE admitted' = admitted
  BY <1>2 DEF BudgetKept
<1>3. CASE Admit(c, k, now) /\ ~Full(Len(events[k]) - h)
  <2>1. \A q \in Keys : q # k => admitted'[q] = admitted[q]
    BY <1>3 DEF Admit, WindowInv, WindowTypeOK
  <2>2. admitted'[k] = Append(admitted[k], clock)
    BY <1>3 DEF Admit, WindowInv, WindowTypeOK
  <2>3. /\ Len(admitted'[k]) = Len(admitted[k]) + 1
        /\ admitted'[k][Len(admitted[k]) + 1] = clock
        /\ \A i \in 1..Len(admitted[k]) : admitted'[k][i] = admitted[k][i]
    BY <1>1, <2>2
  <2>4. ASSUME NEW i \in 1..Len(admitted'[k]), i + MaxEvents <= Len(admitted'[k])
        PROVE  admitted'[k][i + MaxEvents] - admitted'[k][i] > Window - Skew
    <3>1. i \in 1..Len(admitted[k])
      BY <1>1, <2>3, <2>4
    <3>2. CASE i + MaxEvents <= Len(admitted[k])
      <4>1. i + MaxEvents \in 1..Len(admitted[k])
        BY <1>1, <3>1, <3>2
      <4>2. admitted[k][i + MaxEvents] - admitted[k][i] > Window - Skew
        BY <3>1, <3>2 DEF BudgetKept
      <4> QED BY <2>3, <3>1, <4>1, <4>2
    <3>3. CASE i + MaxEvents = Len(admitted[k]) + 1
      <4>1. i \in 1..gone'[k]
        BY <1>1, <1>3, <3>1, <3>3 DEF Full
      <4>2. clock - admitted[k][i] > Window - Skew
        BY <4>1, EvictedLongAgo
      <4> QED BY <2>3, <3>1, <3>3, <4>2
    <3> QED BY <1>1, <2>3, <2>4, <3>2, <3>3
  <2> QED BY <2>1, <2>4 DEF BudgetKept
<1> QED BY <1>2, <1>3 DEF Turn, Refuse

\* The budget is kept whatever the callers, keys, sizes and lags.
THEOREM BudgetCorrect == WindowSpec => []BudgetKept
<1>1. WindowInit => BudgetKept
  BY DEF WindowInit, BudgetKept
<1>2. WindowInv /\ BudgetKept /\ [WindowNext]_windowVars => BudgetKept'
  <2> SUFFICES ASSUME WindowInv, BudgetKept, [WindowNext]_windowVars PROVE BudgetKept'
    OBVIOUS
  <2>1. CASE admitted' = admitted
    BY <2>1 DEF BudgetKept
  <2>2. ASSUME NEW c \in Callers, Check(c) PROVE BudgetKept'
    <3>1. PICK k \in Keys, now, g, h \in Nat :
             /\ caller[c].at = "waiting"
             /\ caller[c].now = now
             /\ Turn(c, k, now, g, h)
      BY <2>2, CheckIsTurn DEF WindowInv
    <3> QED BY <3>1, TurnBudget
  <2> QED BY <2>1, <2>2 DEF WindowNext, Tick, ReadClock, windowVars
<1> QED BY <1>1, <1>2, WindowInitHolds, WindowStep, PTL DEF WindowSpec

-------------------------------------------------------------------------------

LEMMA RefusalBacked ==
    ASSUME WindowInv, NEW c \in Callers, NEW k \in Keys, NEW now \in Nat,
           NEW g \in Nat, NEW h \in Nat, Turn(c, k, now, g, h),
           Full(Len(events[k]) - h)
    PROVE  /\ Len(admitted[k]) - MaxEvents + 1 >= 1
           /\ admitted[k][Len(admitted[k]) - MaxEvents + 1] >= now - Window
<1>1. /\ events[k] \in Seq(Nat) /\ admitted[k] \in Seq(Nat)
      /\ Len(admitted[k]) = Len(events[k]) /\ Len(events[k]) \in Nat
      /\ MaxEvents \in Nat \ {0} /\ Window \in Nat
  BY WindowAssumption DEF WindowInv, WindowTypeOK
<1>2. \A n \in 1..Len(events[k]) :
         /\ events[k][n] \in Nat /\ admitted[k][n] \in Nat
         /\ events[k][n] <= admitted[k][n]
         /\ \A m \in 1..Len(events[k]) :
               n <= m => admitted[k][n] <= admitted[k][m]
  <2>1. \A n \in 1..Len(events[k]) : events[k][n] \in Nat /\ admitted[k][n] \in Nat
    BY <1>1
  <2> QED BY <2>1 DEF WindowInv, Stamped
<1>3. PICK size \in Nat : size = Len(events[k])
  BY <1>1
<1>4. /\ h <= size
      /\ h < size => ~(events[k][h + 1] < now - Window)
  BY <1>1, <1>3 DEF Turn, Evicts, Expired
<1>5. size - h >= MaxEvents
  BY <1>3 DEF Full
<1>6. PICK i, j \in Int : i = size - MaxEvents + 1 /\ j = h + 1
  BY <1>1
<1>7. i \in 1..size /\ j \in 1..size /\ j <= i /\ h < size
  BY <1>1, <1>4, <1>5, <1>6
<1>8. i = Len(admitted[k]) - MaxEvents + 1
  BY <1>1, <1>3, <1>6
<1>9. /\ events[k][j] \in Nat /\ admitted[k][j] \in Nat /\ admitted[k][i] \in Nat
      /\ events[k][j] <= admitted[k][j] /\ admitted[k][j] <= admitted[k][i]
  BY <1>2, <1>3, <1>7
<1>10. PICK stamp, through, last \in Nat :
          stamp = events[k][j] /\ through = admitted[k][j] /\ last = admitted[k][i]
  BY <1>9
<1>11. stamp <= through /\ through <= last /\ ~(stamp < now - Window)
  BY <1>4, <1>6, <1>7, <1>9, <1>10
<1>12. last >= now - Window
  BY <1>1, <1>11
<1> QED BY <1>7, <1>8, <1>10, <1>12

\* A refusal is backed by MaxEvents admissions of the window before it.
THEOREM RefusalCorrect == WindowSpec => RefusedForCause
<1>1. ASSUME WindowInv, NEW d \in Callers, Check(d), NEW c \in Callers PROVE Backed(c)
  <2>1. PICK k \in Keys, now, g, h \in Nat :
           /\ caller[d].at = "waiting"
           /\ caller[d].key = k
           /\ caller[d].now = now
           /\ Turn(d, k, now, g, h)
    BY <1>1, CheckIsTurn DEF WindowInv
  <2>2. CASE Full(Len(events[k]) - h) /\ Refuse(d, k, now, h)
    <3>1. /\ Len(admitted[k]) - MaxEvents + 1 >= 1
          /\ admitted[k][Len(admitted[k]) - MaxEvents + 1] >= now - Window
      BY <1>1, <2>1, <2>2, RefusalBacked
    <3>2. CASE c = d
      BY <2>1, <3>1, <3>2 DEF Backed
    <3>3. CASE c # d
      BY <1>1, <2>2, <3>3 DEF Backed, Refuse, WindowInv, WindowTypeOK
    <3> QED BY <3>2, <3>3
  <2>3. CASE Admit(d, k, now)
    BY <1>1, <2>3 DEF Backed, Admit, Out, WindowInv, WindowTypeOK
  <2> QED BY <2>1, <2>2, <2>3 DEF Turn
<1>2. WindowInv /\ [WindowNext]_windowVars => [\A c \in Callers : Backed(c)]_windowVars
  <2> SUFFICES ASSUME WindowInv, WindowNext PROVE \A c \in Callers : Backed(c)
    OBVIOUS
  <2>1. ASSUME NEW d \in Callers, ReadClock(d), NEW c \in Callers PROVE Backed(c)
    BY <2>1 DEF Backed, ReadClock, Waiting, WindowInv, WindowTypeOK
  <2>2. ASSUME Tick, NEW c \in Callers PROVE Backed(c)
    BY <2>2 DEF Backed, Tick
  <2> QED BY <1>1, <2>1, <2>2 DEF WindowNext
<1>3. QED
  BY <1>2, WindowInitHolds, WindowStep, PTL DEF WindowSpec, RefusedForCause

-------------------------------------------------------------------------------

\* A refused caller was told an instant by which either somebody else has taken a
\* turn, or the event in its way is older than the window, or it is gone already.
KeepsWord(c) ==
    LET k == caller[c].key
    IN  caller[c].at = "refused" =>
          /\ caller[c].seen <= Len(events[k])
          /\ Len(events[k]) = caller[c].seen =>
                \/ Len(events[k]) - gone[k] < MaxEvents
                \/ /\ gone[k] < Len(events[k])
                   /\ events[k][gone[k] + 1] < caller[c].until - Window

WordInv == \A c \in Callers : KeepsWord(c)

LEMMA RefusedTypes ==
    ASSUME WindowTypeOK, NEW c \in Callers, caller[c].at = "refused"
    PROVE  caller[c].key \in Keys /\ caller[c].until \in Nat /\ caller[c].seen \in Nat
BY DEF WindowTypeOK, Out

\* Deques only lose events at the front and gain them at the back.
LEMMA TurnMoves ==
    ASSUME WindowInv, NEW c \in Callers, NEW k \in Keys, NEW now \in Nat,
           NEW g \in Nat, NEW h \in Nat, Turn(c, k, now, g, h), NEW q \in Keys
    PROVE  /\ gone[q] \in Nat /\ gone'[q] \in Nat /\ Len(events[q]) \in Nat
           /\ gone[q] <= gone'[q] /\ gone'[q] <= Len(events[q])
           /\ events'[q] = events[q] \/ Len(events'[q]) = Len(events[q]) + 1
<1>1. /\ gone[q] \in Nat /\ gone[q] <= Len(events[q]) /\ Len(events[q]) \in Nat
      /\ gone[k] \in Nat /\ gone[k] <= Len(events[k]) /\ Len(events[k]) \in Nat
  BY DEF WindowInv, WindowTypeOK
<1>2. gone[k] <= g /\ g <= h /\ h <= Len(events[k])
  BY <1>1 DEF Turn
<1>3. gone'[q] = IF q = k THEN h ELSE IF q \in Swept(now) THEN Len(events[q]) ELSE gone[q]
  BY DEF Turn
<1>4. events'[q] = events[q] \/ Len(events'[q]) = Len(events[q]) + 1
  <2>1. CASE Admit(c, k, now)
    <3>1. events[k] \in Seq(Nat) /\ events \in [Keys -> Seq(Nat)]
      BY DEF WindowInv, WindowTypeOK
    <3>2. Len(Append(events[k], now)) = Len(events[k]) + 1
      BY <3>1, AppendFacts
    <3> QED BY <2>1, <3>1, <3>2 DEF Admit
  <2> QED BY <2>1 DEF Turn, Refuse
<1> QED BY <1>1, <1>2, <1>3, <1>4

LEMMA TurnKeepsWord ==
    ASSUME WindowInv, WordInv, NEW c \in Callers, NEW k \in Keys, NEW now \in Nat,
           caller[c].at = "waiting", caller[c].now = now,
           NEW g \in Nat, NEW h \in Nat, Turn(c, k, now, g, h)
    PROVE  WordInv'
<1>1. /\ clock \in Nat /\ Window \in Nat /\ MaxEvents \in Nat \ {0} /\ now <= clock
      /\ WindowTypeOK
  BY WindowAssumption DEF WindowInv, WaitingBriefly, WindowTypeOK
\* Who was refused before: at most MaxEvents stood in the deque then.
<1>2. ASSUME NEW d \in Callers, d # c PROVE KeepsWord(d)'
  <2>1. caller'[d] = caller[d]
    BY <1>1, <1>2 DEF Turn, Refuse, Admit, WindowTypeOK
  <2>2. CASE caller[d].at # "refused"
    BY <2>1, <2>2 DEF KeepsWord
  <2>3. CASE caller[d].at = "refused"
    <3>1. PICK q \in Keys, until, seen \in Nat :
             q = caller[d].key /\ until = caller[d].until /\ seen = caller[d].seen
      BY <1>1, <2>3, RefusedTypes
    <3>2. /\ seen <= Len(events[q])
          /\ Len(events[q]) = seen =>
                \/ Len(events[q]) - gone[q] < MaxEvents
                \/ gone[q] < Len(events[q]) /\ events[q][gone[q] + 1] < until - Window
      BY <2>3, <3>1 DEF WordInv, KeepsWord
    <3>3. /\ gone[q] \in Nat /\ gone'[q] \in Nat /\ Len(events[q]) \in Nat
          /\ gone[q] <= gone'[q] /\ gone'[q] <= Len(events[q])
          /\ events'[q] = events[q] \/ Len(events'[q]) = Len(events[q]) + 1
      BY TurnMoves
    <3>4. Len(events[q]) - gone[q] <= MaxEvents
      BY DEF WindowInv, NeverOverfull
    <3>5. /\ seen <= Len(events'[q])
          /\ Len(events'[q]) = seen =>
                \/ Len(events'[q]) - gone'[q] < MaxEvents
                \/ gone'[q] < Len(events'[q]) /\ events'[q][gone'[q] + 1] < until - Window
      <4>1. CASE events'[q] = events[q] /\ gone'[q] = gone[q]
        BY <3>2, <4>1
      <4>2. CASE events'[q] = events[q] /\ gone'[q] # gone[q]
        BY <1>1, <3>2, <3>3, <3>4, <4>2
      <4>3. CASE Len(events'[q]) = Len(events[q]) + 1
        BY <3>2, <3>3, <4>3
      <4> QED BY <3>3, <4>1, <4>2, <4>3
    <3> QED BY <2>1, <3>1, <3>5 DEF KeepsWord
  <2> QED BY <2>2, <2>3
\* Who is refused now: the oldest event left is out of the window by then.
<1>3. KeepsWord(c)'
  <2>1. CASE Admit(c, k, now)
    BY <1>1, <2>1 DEF Admit, KeepsWord, Out, WindowTypeOK
  <2>2. CASE Full(Len(events[k]) - h) /\ Refuse(c, k, now, h)
    <3> DEFINE oldest == events[k][h + 1]
               until == clock + RetryAfter(now, oldest)
    <3>1. /\ Len(events[k]) \in Nat /\ h < Len(events[k]) /\ gone'[k] = h
          /\ events' = events
      BY <1>1, <2>2, TurnMoves DEF Full, Turn, Refuse
    <3>2. oldest \in Nat
      BY <1>1, <3>1 DEF WindowTypeOK
    <3>3. oldest < until - Window
      BY <1>1, <3>2 DEF RetryAfter
    <3> HIDE DEF oldest, until
    <3>4. caller'[c] = Refused(k, until, Len(events[k]))
      BY <1>1, <2>2 DEF Refuse, WindowTypeOK, oldest, until
    <3>5. /\ caller'[c].key = k /\ caller'[c].until = until
          /\ caller'[c].seen = Len(events[k])
      BY <3>4 DEF Refused
    <3> QED BY <3>1, <3>3, <3>5 DEF KeepsWord, oldest
  <2> QED BY <2>1, <2>2 DEF Turn
<1> QED BY <1>2, <1>3 DEF WordInv

\* Retry-After is honest: who comes back then finds room, unless others of the same key
\* were in between, however they and the sweeps overtake each other.
THEOREM RetryCorrect == WindowSpec => []RetryAfterHonoured
<1>1. WindowInit => WordInv
  BY DEF WindowInit, WordInv, KeepsWord, Out
<1>2. WindowInv /\ WordInv /\ [WindowNext]_windowVars => WordInv'
  <2> SUFFICES ASSUME WindowInv, WordInv, [WindowNext]_windowVars PROVE WordInv'
    OBVIOUS
  <2>1. CASE Tick \/ UNCHANGED windowVars
    BY <2>1 DEF Tick, windowVars, WordInv, KeepsWord
  <2>2. ASSUME NEW c \in Callers, ReadClock(c) PROVE WordInv'
    BY <2>2 DEF ReadClock, Waiting, WordInv, KeepsWord, WindowInv, WindowTypeOK
  <2>3. ASSUME NEW c \in Callers, Check(c) PROVE WordInv'
    <3>1. PICK k \in Keys, now, g, h \in Nat :
             /\ caller[c].at = "waiting"
             /\ caller[c].now = now
             /\ Turn(c, k, now, g, h)
      BY <2>3, CheckIsTurn DEF WindowInv
    <3> QED BY <3>1, TurnKeepsWord
  <2> QED BY <2>1, <2>2, <2>3 DEF WindowNext
<1>3. WindowInv /\ WordInv => RetryAfterHonoured
  <2> SUFFICES ASSUME WindowInv, WordInv, NEW c \in Callers, caller[c].at = "refused",
                      Len(events[caller[c].key]) = caller[c].seen,
                      clock >= caller[c].until
               PROVE  Room(caller[c].key, clock)
    BY DEF RetryAfterHonoured
  <2>1. PICK k \in Keys, until \in Nat : k = caller[c].key /\ until = caller[c].until
    BY RefusedTypes DEF WindowInv
  <2>2. /\ clock \in Nat /\ Window \in Nat /\ MaxEvents \in Nat
        /\ gone[k] \in Nat /\ Len(events[k]) \in Nat /\ events[k] \in Seq(Nat)
    BY WindowAssumption DEF WindowInv, WindowTypeOK
  <2>3. \/ Len(events[k]) - gone[k] < MaxEvents
        \/ gone[k] < Len(events[k]) /\ events[k][gone[k] + 1] < until - Window
    BY <2>1 DEF WordInv, KeepsWord
  <2>4. gone[k] < Len(events[k]) => events[k][gone[k] + 1] \in Nat
    BY <2>2
  <2>5. CASE Len(events[k]) - gone[k] < MaxEvents
    BY <2>1, <2>2, <2>5 DEF Room, Full
  <2>6. CASE gone[k] < Len(events[k]) /\ events[k][gone[k] + 1] < until - Window
    <3> DEFINE oldest == events[k][gone[k] + 1]
    <3>1. oldest \in Nat /\ oldest < until - Window /\ clock >= until
      BY <2>1, <2>4, <2>6
    <3> HIDE DEF oldest
    <3>2. oldest < clock - Window
      BY <2>1, <2>2, <3>1
    <3> QED BY <2>1, <3>2 DEF Room, Expired, oldest
  <2> QED BY <2>3, <2>5, <2>6
<1> QED BY <1>1, <1>2, <1>3, WindowInitHolds, WindowStep, PTL DEF WindowSpec
===============================================================================
