------------------------------ MODULE PlaylistPage ------------------------------
(***************************************************************************)
(* The page of one playlist (PlaylistDetailPage) as its owner uses it: the *)
(* order shown is local and optimistic, requests are sent without waiting  *)
(* for each other, and a query refetched after each success brings the     *)
(* server's order back.  Playlists describes what the server does.         *)
(***************************************************************************)
EXTENDS Filter, SequencesExt

CONSTANTS
    Songs, NoSong, \* the tracks of the playlist when the page opens
    MaxSends,      \* bound of the model: requests in flight
    MaxGestures    \* bound of the model: requests in all

ASSUME PlaylistPageAssumption ==
    /\ IsFiniteSet(Songs) /\ NoSong \notin Songs
    /\ MaxSends \in Nat \ {0} /\ MaxGestures \in Nat \ {0}

VARIABLES
    list, stamp,   \* the server's order and its updated_at
    gone,          \* the playlist was deleted
    data, fetch,   \* the query: the answer it has, its request ("idle", "asked", "read", "refused")
    shown,         \* localTracks
    drag,          \* where the row being dragged was picked up, 0 for none
    sends,         \* mutations in flight, in the order they were made
    undo,          \* toasts that offer to add a track again
    view,          \* what the page shows: "loading", "rows", "error", "left", "crashed"
    gestures,      \* requests made so far
    straight       \* history: the page was told truly how its requests ended

stored == <<list, stamp, gone>>
cache  == <<data, fetch>>
pageVars == <<stored, cache, shown, drag, sends, undo, view, gestures, straight>>

-------------------------------------------------------------------------------
(* The query.  A refetch keeps the data shown; one that fails hides it. *)

NoAnswer == [tracks |-> <<>>, stamp |-> 0]
Idle     == [st |-> "idle", got |-> NoAnswer]
Asked    == [st |-> "asked", got |-> NoAnswer]

\* invalidateQueries: a fetch under way is dropped for a new one.
Invalidated == IF view \in {"left", "crashed"} THEN fetch ELSE Asked

Read ==
    /\ fetch.st = "asked"
    /\ fetch' = IF gone THEN [Idle EXCEPT !.st = "refused"]
                ELSE [st |-> "read", got |-> [tracks |-> list, stamp |-> stamp]]
    /\ UNCHANGED <<stored, data, shown, drag, sends, undo, view, gestures, straight>>

\* An answer equal to the data is no new data, and localTracks stays as it is.
Fetched ==
    /\ fetch.st = "read" /\ fetch' = Idle
    /\ data' = fetch.got
    /\ shown' = IF fetch.got = data /\ view # "loading" THEN shown ELSE fetch.got.tracks
    /\ view' = IF view \in {"loading", "error"} THEN "rows" ELSE view
    /\ UNCHANGED <<stored, drag, sends, undo, gestures, straight>>

\* Refused, or no answer and no answer to the retry: the downloaded copy or the error.
FetchFailed ==
    /\ fetch.st # "idle" /\ fetch' = Idle
    /\ view' = IF view \in {"loading", "rows"} THEN "error" ELSE view
    /\ drag' = 0
    /\ UNCHANGED <<stored, data, shown, sends, undo, gestures, straight>>

\* The browser is online again.
Reconnect ==
    /\ view = "error" /\ fetch.st = "idle" /\ fetch' = Asked
    /\ UNCHANGED <<stored, data, shown, drag, sends, undo, view, gestures, straight>>

-------------------------------------------------------------------------------
(* Gestures *)

Mutation(op, order, song) ==
    [op |-> op, order |-> order, song |-> song, st |-> "sent", base |-> <<>>, latest |-> TRUE]

\* A new reorder takes the hook over: the callbacks of the one before are those of
\* the page as it was then.
Superseded(op) ==
    [i \in DOMAIN sends |->
        IF sends[i].op = op /\ sends[i].latest
        THEN [sends[i] EXCEPT !.latest = FALSE, !.base = data.tracks] ELSE sends[i]]

Mutate(op, order, song) ==
    /\ Len(sends) < MaxSends /\ gestures < MaxGestures
    /\ sends' = Append(Superseded(op), Mutation(op, order, song))
    /\ gestures' = gestures + 1

Moved(s, from, to) == InsertAt(RemoveAt(s, from), to, s[from])

\* handleDrop
Drop(from, to) ==
    IF from = to THEN UNCHANGED <<shown, sends, gestures>>
    ELSE /\ shown' = Moved(shown, from, to)
         /\ Mutate("reorder", shown', NoSong)

\* The buttons of a row; they are off at the ends of the list.
MoveBy(i) ==
    /\ view = "rows"
    /\ \E to \in {i - 1, i + 1} \cap DOMAIN shown : Drop(i, to)
    /\ UNCHANGED <<stored, cache, drag, undo, view, straight>>

DragStart ==
    /\ view = "rows" /\ drag = 0 /\ \E i \in DOMAIN shown : drag' = i
    /\ UNCHANGED <<stored, cache, shown, sends, undo, view, gestures, straight>>

\* The row is dropped where the list stands now.  A position past the end of a
\* list that became shorter puts no track in it, and the page cannot draw that.
DragEnd ==
    /\ view = "rows" /\ drag # 0 /\ drag' = 0
    /\ \/ UNCHANGED <<shown, sends, view, gestures>>
       \/ \E to \in DOMAIN shown :
             IF drag \in DOMAIN shown
             THEN Drop(drag, to) /\ UNCHANGED view
             ELSE view' = "crashed" /\ UNCHANGED <<shown, sends, gestures>>
    /\ UNCHANGED <<stored, cache, undo, straight>>

RemoveRow ==
    /\ view = "rows" /\ \E i \in DOMAIN shown : Mutate("remove", <<>>, shown[i])
    /\ UNCHANGED <<stored, cache, shown, drag, undo, view, straight>>

\* The toast outlives the page.
Undo ==
    /\ \E s \in undo : Mutate("add", <<>>, s) /\ undo' = undo \ {s}
    /\ UNCHANGED <<stored, cache, shown, drag, view, straight>>

\* EditDialog: one save at a time
SaveEdit ==
    /\ view = "rows" /\ \A i \in DOMAIN sends : sends[i].op # "edit"
    /\ Mutate("edit", <<>>, NoSong)
    /\ UNCHANGED <<stored, cache, shown, drag, undo, view, straight>>

\* Armed by a first tap; disabled while one is pending
DeletePlaylist ==
    /\ view = "rows" /\ \A i \in DOMAIN sends : sends[i].op # "delete"
    /\ Mutate("delete", <<>>, NoSong)
    /\ UNCHANGED <<stored, cache, shown, drag, undo, view, straight>>

Gesture == (\E i \in DOMAIN shown : MoveBy(i)) \/ DragStart \/ DragEnd
           \/ RemoveRow \/ Undo \/ SaveEdit \/ DeletePlaylist

-------------------------------------------------------------------------------
(* The requests.  Each goes its own way: they are served in any order. *)

Without(i) == RemoveAt(sends, i)

\* What the server makes of the list (Playlists).
Reordered(order) ==
    Among(order, Range(list)) \o Among(list, Songs \ Range(order))

\* A track that is not in the list is not removed.
Refused(r) == gone \/ (r.op = "remove" /\ ~Contains(list, r.song))

Applied(r) ==
    CASE r.op = "reorder" -> Reordered(r.order)
      [] r.op = "remove"  -> Among(list, Songs \ {r.song})
      [] r.op = "add"     -> Append(list, r.song)
      [] OTHER -> list

\* An add of a track that is in the list and a reorder of an empty one write nothing.
Moot(r) ==
    \/ r.op = "add" /\ Contains(list, r.song)
    \/ r.op = "reorder" /\ list = <<>>

Serve(i) ==
    /\ sends[i].st = "sent"
    /\ IF Refused(sends[i])
       THEN sends' = [sends EXCEPT ![i].st = "failed"] /\ UNCHANGED stored
       ELSE /\ sends' = [sends EXCEPT ![i].st = "done"]
            /\ IF Moot(sends[i])
               THEN UNCHANGED stored
               ELSE /\ list' = Applied(sends[i]) /\ gone' = (sends[i].op = "delete")
                    /\ stamp' = stamp + 1
    /\ UNCHANGED <<cache, shown, drag, undo, view, gestures, straight>>

\* The request, or the answer to it, is lost.
Lose(i) ==
    /\ sends[i].st \in {"sent", "done"}
    /\ sends' = [sends EXCEPT ![i].st = "failed"]
    /\ straight' = (straight /\ sends[i].st # "done")
    /\ UNCHANGED <<stored, cache, shown, drag, undo, view, gestures>>

\* onSuccess
Succeeded(i) ==
    /\ sends[i].st = "done" /\ sends' = Without(i)
    /\ IF sends[i].op = "delete"
       THEN view' = "left" /\ UNCHANGED fetch
       ELSE fetch' = Invalidated /\ UNCHANGED view
    /\ undo' = IF sends[i].op = "remove" THEN undo \cup {sends[i].song} ELSE undo
    /\ UNCHANGED <<stored, data, shown, drag, gestures, straight>>

\* (mutant) The order that was not saved stays.
OrderKept(r) == shown

\* onError of reorder: back to the order last fetched, as the page of that callback knew it.
SnappedBack(r) ==
    IF r.op # "reorder" THEN shown ELSE IF r.latest THEN data.tracks ELSE r.base

Failed(i) ==
    /\ sends[i].st = "failed" /\ sends' = Without(i)
    /\ shown' = SnappedBack(sends[i])
    /\ straight' = (straight /\ (sends[i].op = "reorder" => sends[i].latest))
    /\ UNCHANGED <<stored, cache, drag, undo, view, gestures>>

-------------------------------------------------------------------------------
PageInit ==
    /\ list \in SetToSeqs(Songs) /\ gone = FALSE
    /\ stamp = 0 /\ data = NoAnswer /\ fetch = Asked /\ shown = <<>>
    /\ drag = 0 /\ sends = <<>> /\ undo = {} /\ view = "loading"
    /\ gestures = 0 /\ straight = TRUE

Query   == Read \/ Fetched \/ FetchFailed \/ Reconnect
Network == \E i \in DOMAIN sends : Serve(i) \/ Lose(i) \/ Succeeded(i) \/ Failed(i)

PageNext == Gesture \/ Query \/ Network

PageSpec == PageInit /\ [][PageNext]_pageVars

-------------------------------------------------------------------------------
(* Properties *)

\* Nothing is in flight and the rows are on show.
Quiet == sends = <<>> /\ fetch.st = "idle" /\ view = "rows"

\* Once everything asked for is answered, the page shows the playlist as the
\* server has it, in whatever order overlapping moves, removals and refetches were
\* served, also when the last move, a removal or an addition was refused or lost on
\* its way: the optimistic order does not outlive the requests
\* (PlaylistDetailPage.tsx:50-57, 69-76).  Not claimed of a lost answer to a change
\* that was made, nor of a move that fails once a later one has been made: the page
\* is then not told what became of them (straight).
PageAgrees == Quiet /\ straight => shown = list

===============================================================================
