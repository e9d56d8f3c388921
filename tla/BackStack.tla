------------------------------- MODULE BackStack -------------------------------
(***************************************************************************)
(* The overlays of the web client and the stack of close handlers the      *)
(* hardware back button runs (shared/lib/backStack.ts).  A layer registers *)
(* its handler in an effect, so a commit and the registration it brings    *)
(* are two steps; React runs the effects it still owes before it renders   *)
(* again.  Drill-downs (categories, radios, open albums) keep one handler  *)
(* while they are open; the other layers pass a new function at each       *)
(* render, and so leave the stack and enter it again on top.               *)
(***************************************************************************)
EXTENDS Filter, SequencesExt

CONSTANTS MaxTaps,   \* bound of the model: what the user opens or visits
          MaxDepth   \* bound of the model: pages in the history

ASSUME BackStackAssumption == MaxTaps \in Nat /\ MaxDepth \in Nat \ {0}

VARIABLES depth,   \* pages in the history, 0 once the app is left
          open,    \* layers whose state says open
          music,   \* the player has a track: the bar is on screen
          stack,   \* the close handlers
          owed,    \* components rendered in the last commit, effects not yet run
          taps     \* what the user has opened so far

overlayVars == <<depth, open, music, stack, owed, taps>>

\* The order in which the effects of one commit run: children first.
Layers == <<"drawer", "menu", "dialog", "drill", "playing">>
Owners == {"header", "page", "bar"}
Owner(l) == CASE l \in {"drawer", "menu"} -> "header"
              [] l \in {"dialog", "drill"} -> "page"
              [] OTHER -> "bar"
PageRender == {"page", "header"}   \* a page renders its header with it

\* The layers on screen: the now-playing view needs a track to show.
Mounted == IF music THEN open ELSE open \ {"playing"}

-------------------------------------------------------------------------------
(* useBackClose: what a commit does to the stack when its effects run *)

\* (mutant) A handler that leaves takes the top of the stack, whoever it is.
UnregisterTop(gone) ==
    SubSeq(stack, 1, Len(stack) - Cardinality(Range(stack) \cap gone))

Unregister(gone) == Among(stack, Range(Layers) \ gone)

Effects ==
    LET gone == {l \in Range(stack) :
                    Owner(l) \in owed /\ ~(l = "drill" /\ l \in Mounted)}
        left == Unregister(gone)
        came == Among(Layers, {l \in Mounted \ Range(left) : Owner(l) \in owed})
    IN  left \o came

\* A render: the effects still owed run first.
Commit(layers, owners) ==
    /\ open' = layers
    /\ stack' = Effects
    /\ owed' = owners

Tap == depth > 0 /\ taps < MaxTaps /\ taps' = taps + 1

\* Nothing of the page is under a scrim; the now-playing view covers all.
Uncovered == Mounted \cap {"drawer", "menu", "dialog", "playing"} = {}

-------------------------------------------------------------------------------
(* The user *)

OpenInPage(l) ==
    /\ Tap /\ Uncovered /\ l \notin open
    /\ Commit(open \cup {l}, IF Owner(l) = "header" THEN {"header"} ELSE PageRender)
    /\ UNCHANGED <<depth, music>>

\* The player bar lies outside the page, over its scrims.
OpenPlaying ==
    /\ Tap /\ music /\ "playing" \notin open
    /\ Commit(open \cup {"playing"}, {"bar"})
    /\ UNCHANGED <<depth, music>>

RenderedBy(l) == IF Owner(l) = "page" THEN PageRender ELSE {Owner(l)}

\* A close button or the scrim; the now-playing view lies over the others.
CloseLayer(l) ==
    /\ depth > 0 /\ l \in Mounted
    /\ "playing" \in Mounted => l = "playing"
    /\ Commit(open \ {l}, RenderedBy(l))
    /\ UNCHANGED <<depth, music, taps>>

\* Escape reaches the listener of every overlay; drill-downs have none.
Escape ==
    LET heard == Mounted \ {"drill"} IN
    /\ depth > 0 /\ heard # {}
    /\ Commit(open \ heard, UNION {RenderedBy(l) : l \in heard})
    /\ UNCHANGED <<depth, music, taps>>

\* A link of the page, of the menu or of the bottom bar mounts another page:
\* the overlays of this one go with it.
Visit ==
    /\ Tap /\ depth < MaxDepth /\ "playing" \notin Mounted /\ "dialog" \notin open
    /\ depth' = depth + 1
    /\ Commit(open \cap {"playing"}, PageRender)
    /\ UNCHANGED music

\* The hardware button: the handler on top, else the history, else the app is
\* left.  The handler of a layer that is closed already changes nothing.
Back ==
    /\ depth > 0
    /\ IF stack # <<>>
       THEN /\ IF Last(stack) \in open
               THEN Commit(open \ {Last(stack)}, RenderedBy(Last(stack)))
               ELSE UNCHANGED <<open, stack, owed>>
            /\ UNCHANGED depth
       ELSE depth' = depth - 1 /\ Commit(open \cap {"playing"}, PageRender)
    /\ UNCHANGED <<music, taps>>

-------------------------------------------------------------------------------
(* React and the player *)

RunEffects ==
    /\ owed # {}
    /\ stack' = Effects /\ owed' = {}
    /\ UNCHANGED <<depth, open, music, taps>>

\* Query data, the online status, a change of the player's state.
Render(owners) ==
    /\ depth > 0
    /\ Commit(open, owners)
    /\ UNCHANGED <<depth, music, taps>>

\* The queue ends or is closed; something is played.
TrackChanges ==
    /\ Tap
    /\ music' = ~music
    /\ Commit(open, {"bar"})
    /\ UNCHANGED depth

OverlaysInit ==
    /\ depth = 1 /\ open = {} /\ stack = <<>> /\ owed = {} /\ taps = 0
    /\ music \in BOOLEAN

OverlayTap ==
    \/ \E l \in {"drawer", "menu", "dialog", "drill"} : OpenInPage(l)
    \/ OpenPlaying
    \/ \E l \in Range(Layers) : CloseLayer(l)
    \/ Escape
    \/ Visit

OverlaysNext ==
    \/ OverlayTap
    \/ Back
    \/ RunEffects
    \/ \E owners \in {{"header"}, PageRender, {"bar"}} : Render(owners)
    \/ TrackChanges

OverlaysSpec == OverlaysInit /\ [][OverlaysNext]_overlayVars

-------------------------------------------------------------------------------
(* Properties *)

\* Once the effects have run, the stack holds the handlers of the layers on
\* screen and no other, whatever was opened, closed, rendered again or taken
\* away with its page in between.
StackHoldsOpen == owed = {} => ToSet(stack) = Mounted

===============================================================================
