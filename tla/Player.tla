-------------------------------- MODULE Player --------------------------------
(***************************************************************************)
(* The audio player of the web client (frontend/src/features/player): the  *)
(* queue, the order it is played in, the <audio> element, the radio that   *)
(* extends a finished queue, and the surfaces that drive them - player     *)
(* bar, now-playing view, hotkeys, the system's media keys, the pages.     *)
(*                                                                         *)
(* Positions and indices count from 1; 0 stands for the code's -1.  React  *)
(* commits a handler's state updates together and runs the load effect     *)
(* with them, so a handler is one step; what the browser, the network or   *)
(* the session does in between are steps of their own.                     *)
(***************************************************************************)
EXTENDS Naturals, SequencesExt

CONSTANTS
    Tracks,        \* (video_id, codec, bitrate) keys
    Previews,      \* the tracks of codec 'preview', streamed and never stored
    NoTrack,
    Queues,        \* the queues a page may hand to play()
    MaxQueue,      \* bound of the model: entries of the queue
    MaxFailures    \* MAX_CONSECUTIVE_LOAD_FAILURES

ASSUME PlayerAssumption ==
    /\ IsFiniteSet(Tracks) /\ NoTrack \notin Tracks
    /\ Previews \subseteq Tracks
    /\ Queues \subseteq Seq(Tracks) \ {<<>>}
    /\ MaxQueue \in Nat /\ MaxFailures \in Nat \ {0}

VARIABLES
    queue, order, pos,       \* order[pos] is the queue index being played
    shuffle, repeat,
    src, media, playing,     \* the <audio> element: "empty", "loading", "ready", "ended", "failed"
    failures,                \* consecutiveFailuresRef
    radio,                   \* the call of triggerAutoRadio in progress: the queue it saw
    seen,                    \* autoRadioSeenRef
    user                     \* somebody is signed in

element == <<src, media, playing>>
lineup  == <<queue, order, pos>>
modes   == <<shuffle, repeat>>
vars    == <<lineup, modes, element, failures, radio, seen, user>>

Repeats == {"off", "all", "one"}

\* autoRadioBusyRef is down.  (A call is only made with a track, so it saw a queue.)
NoCall == <<>>

-------------------------------------------------------------------------------

\* The track at a position, none when the position is past the order.
TrackAt(q, o, p) == IF p \in DOMAIN o THEN q[o[p]] ELSE NoTrack

Current == TrackAt(queue, order, pos)

\* shuffleArray: any arrangement of the given indices.
Shuffled(S) == SetToSeqs(S)

\* buildOrder
Orders(n, startAt, on) ==
    IF on THEN {<<startAt>> \o s : s \in Shuffled((1..n) \ {startAt})}
          ELSE {[i \in 1..n |-> i]}

\* (mutant) An effect keyed on the position instead of the track.
ReloadsOnPos(q, o, p) == TrackAt(q, o, p) # NoTrack /\ p # pos

\* The load effect runs when the key of the current track changes.
Reloads(q, o, p) == TrackAt(q, o, p) \notin {NoTrack, Current}

\* Commits a new line; the element is loaded with its track, or left as given.
Load(q, o, p, m, on) ==
    /\ queue' = q /\ order' = o /\ pos' = p
    /\ IF Reloads(q, o, p)
       THEN src' = TrackAt(q, o, p) /\ media' = "loading" /\ playing' = TRUE
       ELSE src' = src /\ media' = m /\ playing' = on

SetLine(q, o, p) == Load(q, o, p, media, playing)

-------------------------------------------------------------------------------
(* The operations of the provider *)

Play(q, startAt) ==
    /\ seen' = {}
    /\ \E o \in Orders(Len(q), startAt, shuffle) :
          SetLine(q, o, IF shuffle THEN 1 ELSE startAt)
    /\ UNCHANGED <<modes, failures, radio, user>>

\* (mutant) playNext numbers the new entry after the order, which removals shorten.
InsertedByOrder(p) == InsertAt(order, p, Len(order) + 1)

\* The new entry of the queue enters the order at p.
Inserted(p) == InsertAt(order, p, Len(queue) + 1)

Enqueue(t) ==
    IF pos = 0 THEN Play(<<t>>, 1)
    ELSE /\ Len(queue) < MaxQueue
         /\ SetLine(Append(queue, t), Append(order, Len(queue) + 1), pos)
         /\ UNCHANGED <<modes, failures, radio, seen, user>>

\* splice clamps a position past the end.
PlayNext(t) ==
    IF pos = 0 THEN Play(<<t>>, 1)
    ELSE /\ Len(queue) < MaxQueue
         /\ SetLine(Append(queue, t),
                    Inserted(IF pos < Len(order) THEN pos + 1 ELSE Len(order) + 1), pos)
         /\ UNCHANGED <<modes, failures, radio, seen, user>>

\* (mutant) The position is not moved along with the entries before it.
ShiftNone(i) == pos

\* Where the current entry is once entry i is gone.
Shift(i) == IF i < pos THEN pos - 1 ELSE pos

\* Only the order loses the entry; the queue keeps its track.
RemoveFromQueueAt(i) ==
    /\ i \in DOMAIN order /\ i # pos
    /\ SetLine(queue, RemoveAt(order, i), Shift(i))
    /\ UNCHANGED <<modes, failures, radio, seen, user>>

JumpTo(i) ==
    /\ i \in DOMAIN order
    /\ SetLine(queue, order, i)
    /\ UNCHANGED <<modes, failures, radio, seen, user>>

\* el.play() resumes, replays a finished track, or is refused.
TogglePlay ==
    /\ Current # NoTrack
    /\ \/ playing /\ playing' = FALSE /\ UNCHANGED media
       \/ /\ ~playing /\ media \in {"loading", "ready", "ended"}
          /\ playing' = TRUE
          /\ media' = IF media = "ended" THEN "ready" ELSE media
    /\ UNCHANGED <<lineup, modes, src, failures, radio, seen, user>>

\* advanceOrReshuffle, on an element left as given when no track is loaded.
Advance(m, on) ==
    IF pos = 0 \/ pos < Len(order)
    THEN Load(queue, order, IF pos = 0 THEN 0 ELSE pos + 1, m, on)
    ELSE IF shuffle /\ Len(queue) > 1
    THEN \E s \in Shuffled(DOMAIN queue \ {order[pos]}) :
            Load(queue, Append(s, order[pos]), 1, m, on)
    ELSE Load(queue, order, IF repeat = "all" THEN 1 ELSE pos, m, on)

NextTrack ==
    /\ Advance(media, playing)
    /\ UNCHANGED <<modes, failures, radio, seen, user>>

\* More than three seconds in, prev restarts the track.
Prev ==
    /\ \/ /\ media \in {"ready", "ended"}
          /\ media' = "ready"
          /\ UNCHANGED <<lineup, src, playing>>
       \/ SetLine(queue, order,
                  IF pos > 1 THEN pos - 1
                  ELSE IF pos = 1 /\ repeat = "all" THEN Len(order) ELSE pos)
    /\ UNCHANGED <<modes, failures, radio, seen, user>>

Silence ==
    /\ queue' = <<>> /\ order' = <<>> /\ pos' = 0
    /\ src' = NoTrack /\ media' = "empty" /\ playing' = FALSE

Stop == Silence /\ UNCHANGED <<modes, failures, radio, seen, user>>

\* The order is rebuilt from its own length around the current queue index.
ToggleShuffle ==
    /\ shuffle' = ~shuffle
    /\ \E o \in Orders(Len(order), order[pos], ~shuffle) :
          SetLine(queue, o, IF shuffle THEN order[pos] ELSE 1)
    /\ UNCHANGED <<repeat, failures, radio, seen, user>>

CycleRepeat ==
    /\ repeat' = CASE repeat = "off" -> "all" [] repeat = "all" -> "one"
                   [] OTHER -> "off"
    /\ UNCHANGED <<lineup, shuffle, element, failures, radio, seen, user>>

-------------------------------------------------------------------------------
(* Who calls them *)

\* The bar is rendered for a user with a track.
Bar == user /\ Current # NoTrack

CanGoNext == pos < Len(order) \/ (shuffle /\ Len(queue) > 1) \/ repeat = "all"

CanGoPrev == pos > 1 \/ repeat = "all"

\* Prev is enabled three seconds in as well.
Transport ==
    /\ Bar
    /\ \/ ToggleShuffle
       \/ (CanGoPrev \/ media \in {"ready", "ended"}) /\ Prev
       \/ TogglePlay
       \/ CanGoNext /\ NextTrack
       \/ CycleRepeat

CloseButton == Bar /\ Stop

QueuePanel == Bar /\ \E i \in DOMAIN order : JumpTo(i) \/ RemoveFromQueueAt(i)

\* A swipe over the cover asks no button whether it is enabled.
Swipe == Bar /\ (NextTrack \/ Prev)

\* Keys work without a user, as long as a track is loaded.
Hotkey ==
    /\ Current # NoTrack
    /\ TogglePlay \/ Prev \/ NextTrack \/ ToggleShuffle \/ CycleRepeat

\* The system's media keys stay registered while the provider is mounted.
MediaKey == TogglePlay \/ Prev \/ NextTrack \/ Stop

\* Lists hand over a queue and the entry that was tapped.
Page == user /\ \E q \in Queues : \E i \in DOMAIN q : Play(q, i)

TrackMenu == user /\ \E t \in Tracks : PlayNext(t) \/ Enqueue(t)

-------------------------------------------------------------------------------
(* The element, the radio and the session *)

LoadedMetadata ==
    /\ media = "loading"
    /\ media' = "ready" /\ failures' = 0
    /\ UNCHANGED <<lineup, modes, src, playing, radio, seen, user>>

\* The browser refuses to start by itself.
PlayRejected ==
    /\ media = "loading" /\ playing
    /\ playing' = FALSE
    /\ UNCHANGED <<lineup, modes, src, media, failures, radio, seen, user>>

AtTail == pos >= Len(order) /\ ~(shuffle /\ Len(queue) > 1) /\ repeat # "all"

\* (mutant) The queue in scope when the call was made.
QueueAtCall == radio

\* queueRef, refreshed on every render: the queue as it is now.
LatestQueue == queue

\* triggerAutoRadio up to its await.
AskRadio ==
    /\ radio' = IF radio = NoCall /\ Current # NoTrack THEN queue ELSE radio
    /\ UNCHANGED lineup

Ended ==
    /\ media = "ready" /\ playing
    /\ CASE repeat = "one" -> UNCHANGED <<lineup, element, radio>>
         [] repeat # "one" /\ AtTail ->
              AskRadio /\ src' = src /\ media' = "ended" /\ playing' = FALSE
         [] OTHER -> Advance("ended", FALSE) /\ UNCHANGED radio
    /\ UNCHANGED <<modes, failures, seen, user>>

\* (mutant) Nobody counts.
NoGivingUp == FALSE

\* This failure is one too many.
GivingUp == failures + 1 >= MaxFailures

\* onError for the current track, before or while it plays.  A load that fails takes
\* its play() with it.
LoadFailed ==
    /\ media \in {"loading", "ready"} /\ Current # NoTrack
    /\ failures' = IF failures + 1 >= MaxFailures THEN 0 ELSE failures + 1
    /\ IF GivingUp \/ AtTail
       THEN /\ IF GivingUp THEN UNCHANGED <<lineup, radio>> ELSE AskRadio
            /\ src' = src /\ media' = "failed"
            /\ playing' = (playing /\ media = "ready" /\ ~GivingUp)
       ELSE Advance("failed", playing /\ media = "ready") /\ UNCHANGED radio
    /\ UNCHANGED <<modes, seen, user>>

\* Nothing genuinely loaded: the event is ignored.
StrayError ==
    /\ media \in {"loading", "ready"} /\ Current = NoTrack
    /\ media' = "failed" /\ playing' = (playing /\ media = "ready")
    /\ UNCHANGED <<lineup, modes, src, failures, radio, seen, user>>

\* What the feed offers that is neither in the queue q nor was offered before.
Fresh(q, feed) == feed \ (ToSet(q) \cup seen)

\* Appends what is fresh to the line that is read after the await; the position is
\* simply set.  Catalog rows are never previews.
RadioAnswer ==
    /\ radio # NoCall
    /\ LET q == LatestQueue
       IN  \E feed \in SUBSET (Tracks \ Previews) : \E new \in SetToSeqs(Fresh(q, feed)) :
              /\ Len(q) + Len(new) <= MaxQueue
              /\ seen' = seen \cup ToSet(new)
              /\ IF new = <<>> THEN UNCHANGED <<lineup, element>>
                 ELSE SetLine(q \o new, order \o [i \in 1..Len(new) |-> Len(q) + i],
                              Len(order) + 1)
    /\ radio' = NoCall
    /\ UNCHANGED <<modes, failures, user>>

RadioFailed ==
    /\ radio # NoCall /\ radio' = NoCall
    /\ UNCHANGED <<lineup, modes, element, failures, seen, user>>

\* A logout or a 401 clears the user and the effect stops the player.
SignedOut ==
    /\ user /\ user' = FALSE
    /\ Silence
    /\ UNCHANGED <<modes, failures, radio, seen>>

SignedIn ==
    /\ ~user /\ user' = TRUE
    /\ UNCHANGED <<lineup, modes, element, failures, radio, seen>>

-------------------------------------------------------------------------------

\* A mounted provider: nothing stored, or a snapshot restored paused without its
\* previews.  The stored order is a permutation of the restored queue or falls back
\* to the identity.
Init ==
    /\ queue \in SeqOf(Tracks \ Previews, MaxQueue)
    /\ order \in SetToSeqs(DOMAIN queue)
    /\ pos \in IF queue = <<>> THEN {0} ELSE DOMAIN order
    /\ shuffle \in IF queue = <<>> THEN {FALSE} ELSE BOOLEAN
    /\ repeat \in IF queue = <<>> THEN {"off"} ELSE Repeats
    /\ src = Current /\ playing = FALSE
    /\ media = IF queue = <<>> THEN "empty" ELSE "loading"
    /\ failures = 0 /\ radio = NoCall /\ seen = {}
    /\ user \in BOOLEAN

UserAct ==
    \/ Transport \/ CloseButton \/ QueuePanel \/ Swipe
    \/ Hotkey \/ MediaKey \/ Page \/ TrackMenu
    \/ SignedOut \/ SignedIn

Browser == LoadedMetadata \/ PlayRejected \/ Ended \/ LoadFailed \/ StrayError

Next == UserAct \/ Browser \/ RadioAnswer \/ RadioFailed

Spec == Init /\ [][Next]_vars

-------------------------------------------------------------------------------

\* The play order never names an entry twice, whatever is shuffled, inserted,
\* removed and appended by the radio meanwhile (PlayerCtx, "keeping `order` a
\* valid permutation"): no entry is played twice in a round.
NoEntryTwice == IsInjective(order)

\* The element holds the current track - the one every surface shows - whatever
\* moves the line.  One line is the exception: entries were removed from a shuffled
\* order and shuffle was turned off, so the position lies past the shorter order
\* (see ShuffleKeepsCurrent); that track plays on unseen.
HeardIsShown ==
    src = Current \/ (~shuffle /\ pos > Len(order) /\ Len(order) < Len(queue))

\* Shuffling changes what comes next and not what plays (toggleShuffle: "Rebuild
\* `order` around the currently playing track", "pos must = the queue index of the
\* current track").
ShuffleKeepsCurrent == [][ToggleShuffle => Current' = Current]_vars

\* Editing what comes next leaves what is playing alone.
EditsKeepTrack ==
    [][\/ Current = NoTrack
       \/ Current' = Current /\ UNCHANGED element
       \/ \A t \in Tracks, i \in 1..MaxQueue :
             ~(Enqueue(t) \/ PlayNext(t) \/ RemoveFromQueueAt(i))]_vars

\* Only the listener takes entries out of the line: by removing one, playing
\* something else, stopping, signing out or toggling shuffle.  Every other step keeps
\* them all - a reshuffle at the tail, a failed load, and the radio's answer over the
\* edits made while it was asked (triggerAutoRadio: "so concurrent edits aren't
\* clobbered").
LineSurvives ==
    [][\/ IsPrefix(queue, queue') /\ ToSet(order) \subseteq ToSet(order')
       \/ Page \/ Stop \/ SignedOut \/ ToggleShuffle
       \/ \E i \in DOMAIN order : RemoveFromQueueAt(i)]_vars

\* Skipping for ever takes a track that loads or a user who keeps asking: a queue
\* of unplayable tracks does not race on (MAX_CONSECUTIVE_LOAD_FAILURES).
NoSkipStorm ==
    []<><<LoadFailed>>_vars => []<><<LoadedMetadata \/ UserAct>>_vars

===============================================================================
