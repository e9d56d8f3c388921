----------------------------- MODULE SlidingWindow -----------------------------
(***************************************************************************)
(* SlidingWindowLimiter (backend/src/rate_limit.py), the limiter behind    *)
(* extractions, expensive routes and logins.  A caller reads the monotonic *)
(* clock BEFORE it takes the lock, so the instants that arrive in a key's  *)
(* deque need not be in order.  Everything under the lock is one action.   *)
(* Instants are whole numbers.                                             *)
(***************************************************************************)
EXTENDS Integers, Sequences

CONSTANTS
    Keys,
    Callers,    \* threads of the request pool
    MaxEvents,
    Window,
    Skew,       \* longest time a caller is kept between its clock and its turn
    MaxTime     \* bound of the model: the last instant

ASSUME WindowAssumption ==
    /\ MaxEvents \in Nat \ {0}
    /\ Window \in Nat
    /\ Skew \in Nat
    /\ Skew <= Window
    /\ MaxTime \in Nat

VARIABLES
    clock,      \* time.monotonic()
    lastPrune,  \* _last_prune
    known,      \* the keys of _events
    events,     \* every instant ever appended to a key's deque ...
    gone,       \* ... of which the first gone[k] have left it again
    admitted,   \* history: when each of those events was let through
    caller

windowVars == <<clock, lastPrune, known, events, gone, admitted, caller>>

Out == [at |-> "out"]

Waiting(k, now) == [at |-> "waiting", key |-> k, now |-> now]

\* A refused caller knows when to come back; `seen` is history.
Refused(k, until, seen) ==
    [at |-> "refused", key |-> k, until |-> until, seen |-> seen]

WindowTypeOK ==
    /\ clock \in Nat
    /\ lastPrune \in Nat
    /\ known \subseteq Keys
    /\ events \in [Keys -> Seq(Nat)]
    /\ admitted \in [Keys -> Seq(Nat)]
    /\ \A k \in Keys : Len(events[k]) = Len(admitted[k])
    /\ gone \in [Keys -> Nat]
    /\ \A k \in Keys : gone[k] <= Len(events[k])
    /\ caller \in [Callers -> {Out}
          \cup [at : {"waiting"}, key : Keys, now : Nat]
          \cup [at : {"refused"}, key : Keys, until : Nat, seen : Nat]]

WindowInit ==
    /\ clock = 0
    /\ lastPrune = 0
    /\ known = {}
    /\ events = [k \in Keys |-> <<>>]
    /\ gone = [k \in Keys |-> 0]
    /\ admitted = [k \in Keys |-> <<>>]
    /\ caller = [c \in Callers |-> Out]

\* Nobody waits for the lock longer than Skew.
Tick ==
    /\ clock < MaxTime
    /\ \A c \in Callers :
          caller[c].at = "waiting" => clock - caller[c].now < Skew
    /\ clock' = clock + 1
    /\ UNCHANGED <<lastPrune, known, events, gone, admitted, caller>>

ReadClock(c) ==
    /\ caller[c].at # "waiting"
    /\ \E k \in Keys : caller' = [caller EXCEPT ![c] = Waiting(k, clock)]
    /\ UNCHANGED <<clock, lastPrune, known, events, gone, admitted>>

PruneDue(now) == now - lastPrune >= Window

\* The key's deque is empty or its newest event has aged out.
AgedOut(k, cutoff) ==
    k \in known /\ (gone[k] < Len(events[k]) => events[k][Len(events[k])] < cutoff)

\* What _prune leaves, when it is due.
Swept(now) == {k \in Keys : PruneDue(now) /\ AgedOut(k, now - Window)}

\* (mutant) An instant too early.
ExpiredEarly(instant, cutoff) == instant <= cutoff

Expired(instant, cutoff) == instant < cutoff

\* `h` events are gone once the expired ones at the front of the deque are, when
\* `g` were gone before.
Evicts(k, g, h, cutoff) ==
    /\ h \in g..Len(events[k])
    /\ \A i \in (g + 1)..h : Expired(events[k][i], cutoff)
    /\ h < Len(events[k]) => ~Expired(events[k][h + 1], cutoff)

\* (mutant) Rounded down.
RetryShort(now, oldest) == Window - (now - oldest)

RetryAfter(now, oldest) ==
    LET retry == Window - (now - oldest)
    IN  IF retry + 1 > 1 THEN retry + 1 ELSE 1

Full(n) == n >= MaxEvents

Admit(c, k, now) ==
    /\ events' = [events EXCEPT ![k] = Append(@, now)]
    /\ admitted' = [admitted EXCEPT ![k] = Append(@, clock)]
    /\ caller' = [caller EXCEPT ![c] = Out]

Refuse(c, k, now, h) ==
    /\ caller' = [caller EXCEPT ![c] =
                    Refused(k, clock + RetryAfter(now, events[k][h + 1]),
                            Len(events[k]))]
    /\ UNCHANGED <<events, admitted>>

\* The body of the lock.
Check(c) ==
    /\ caller[c].at = "waiting"
    /\ LET k   == caller[c].key
           now == caller[c].now
           g   == IF k \in Swept(now) THEN Len(events[k]) ELSE gone[k]
       IN  \E h \in g..Len(events[k]) :
              /\ Evicts(k, g, h, now - Window)
              /\ lastPrune' = IF PruneDue(now) THEN now ELSE lastPrune
              /\ known' = (known \ Swept(now)) \cup {k}
              /\ gone' = [q \in Keys |-> IF q = k THEN h
                                         ELSE IF q \in Swept(now)
                                              THEN Len(events[q]) ELSE gone[q]]
              /\ \/ Full(Len(events[k]) - h) /\ Refuse(c, k, now, h)
                 \/ ~Full(Len(events[k]) - h) /\ Admit(c, k, now)
    /\ UNCHANGED clock

WindowNext == Tick \/ \E c \in Callers : ReadClock(c) \/ Check(c)

WindowSpec == WindowInit /\ [][WindowNext]_windowVars

-------------------------------------------------------------------------------

\* However callers overtake each other, a key's budget is kept in real time: the
\* event MaxEvents places later is let through more than a window later, less the
\* time callers may lag behind their clock (check: the stamp is read before the
\* lock, the deque is cut at its left end only, the sweep looks at its last event).
BudgetKept ==
    \A k \in Keys :
        \A i \in 1..Len(admitted[k]) :
            i + MaxEvents <= Len(admitted[k])
                => admitted[k][i + MaxEvents] - admitted[k][i] > Window - Skew

Backed(c) ==
    caller'[c].at = "refused" /\ caller[c].at = "waiting" =>
        LET k == caller[c].key
            i == Len(admitted[k]) - MaxEvents + 1
        IN  i >= 1 /\ admitted[k][i] >= caller[c].now - Window

\* Nobody is refused for less: the whole budget was let through within the window
\* before the refused caller's clock.
RefusedForCause == [][\A c \in Callers : Backed(c)]_windowVars

\* The deque has room for an event at `now`, after eviction.
Room(k, now) ==
    \/ ~Full(Len(events[k]) - gone[k])
    \/ Expired(events[k][gone[k] + 1], now - Window)

\* Retry-After is honest: who comes back then is let through, unless others of
\* the same key were in between (check's retry_after).
RetryAfterHonoured ==
    \A c \in Callers :
        caller[c].at = "refused" =>
            LET k == caller[c].key
            IN  Len(events[k]) = caller[c].seen /\ clock >= caller[c].until
                    => Room(k, clock)

===============================================================================
