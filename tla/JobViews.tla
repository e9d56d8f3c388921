------------------------------- MODULE JobViews -------------------------------
(***************************************************************************)
(* What the web client shows of the server's jobs: the rows of the queue   *)
(* (useJobs, QueueList, JobRow), in a drawer over every page, and the card *)
(* that imports a candidate of the catalogue (useExternalDownload), both   *)
(* over useLiveJobProgress.                                                *)
(***************************************************************************)
EXTENDS JobServer

VARIABLES
    drawer,          \* the queue is on show
    polled,          \* the answer of the ['jobs'] query
    live, sock,      \* per row of the queue: useLiveJobProgress and its socket
    card             \* the card: its job, what it was told of it, its socket, its request

rows     == <<drawer, polled, live, sock>>
viewVars == <<server, rows, card>>

NewCard == [job |-> NoJob, live |-> "none", sock |-> "off", posting |-> FALSE]

-------------------------------------------------------------------------------
(* useLiveJobProgress *)

\* (mutant) A terminal event is not mirrored into the status.
EventIgnored(j) == "active"

\* The terminal event, mirrored into the status.
Mirrored(j) == st[j]

-------------------------------------------------------------------------------
(* The rows of the queue *)

\* JobRow subscribes while its job is active as far as the polled list says.
Enabled(j) == polled[j] = "active"

Display(j) == IF live[j] # "none" THEN live[j] ELSE polled[j]

\* The heartbeat, or the refetch an invalidation asks for.
Poll ==
    /\ polled' = [j \in Jobs |-> IF j \in deleted THEN "none" ELSE st[j]]
    /\ UNCHANGED <<server, drawer, live, sock, card>>

ToggleDrawer ==
    /\ drawer' = ~drawer
    /\ live' = [j \in Jobs |-> "none"] /\ sock' = [j \in Jobs |-> "off"]
    /\ UNCHANGED <<server, polled, card>>

RowSubscribe(j) ==
    /\ drawer /\ Enabled(j) /\ sock[j] = "off"
    /\ sock' = [sock EXCEPT ![j] = "wait"]
    /\ UNCHANGED <<server, drawer, polled, live, card>>

RowSnapshot(j) ==
    /\ sock[j] = "wait" /\ Enabled(j)
    /\ live' = [live EXCEPT ![j] = Snapshot(j, @)]
    /\ sock' = [sock EXCEPT ![j] = Opened(j)]
    /\ UNCHANGED <<server, drawer, polled, card>>

RowEvent(j) ==
    /\ sock[j] = "open" /\ Ends(j) /\ Enabled(j)
    /\ live' = [live EXCEPT ![j] = Mirrored(j)]
    /\ sock' = [sock EXCEPT ![j] = "closed"]
    /\ UNCHANGED <<server, drawer, polled, card>>

\* No second socket is opened for a row that lost its own.
RowDrop(j) ==
    /\ sock[j] \in {"wait", "open"}
    /\ sock' = [sock EXCEPT ![j] = "lost"]
    /\ UNCHANGED <<server, drawer, polled, live, card>>

\* (mutant) The overlay stays when the row is no longer active.
Overlay(j) == live[j]

\* The overlay is reset once the job has settled.
NoOverlay(j) == "none"

RowDisable(j) ==
    /\ ~Enabled(j) /\ sock[j] # "off"
    /\ sock' = [sock EXCEPT ![j] = "off"]
    /\ live' = [live EXCEPT ![j] = NoOverlay(j)]
    /\ UNCHANGED <<server, drawer, polled, card>>

RowCancel(j) ==
    /\ drawer /\ Enabled(j)
    /\ Cancel(j)
    /\ UNCHANGED <<rows, card>>

\* The options of the old job are replayed as a new one.
RowRetry(j) ==
    /\ drawer /\ polled[j] \in Terminal /\ j \notin deleted
    /\ \E k \in Jobs : Create(k)
    /\ UNCHANGED <<rows, card>>

\* Armed by a first tap (ConfirmButton).
RowDelete(j) ==
    /\ drawer /\ polled[j] \in Terminal
    /\ Delete(j)
    /\ UNCHANGED <<rows, card>>

-------------------------------------------------------------------------------
(* The card of a candidate *)

IsPending == card.posting \/ (card.job # NoJob /\ card.live \notin {"done", "error"})

CardStart ==
    /\ ~IsPending
    /\ card' = [card EXCEPT !.posting = TRUE]
    /\ UNCHANGED <<server, rows>>

\* The socket of the new job replaces the old one; what was told of the old job stays.
CardPosted ==
    /\ card.posting
    /\ \E j \in Jobs :
          /\ Create(j)
          /\ card' = [card EXCEPT !.job = j, !.posting = FALSE, !.sock = "wait"]
    /\ UNCHANGED rows

CardFailed ==
    /\ card.posting
    /\ card' = [card EXCEPT !.posting = FALSE]
    /\ UNCHANGED <<server, rows>>

CardSnapshot ==
    /\ card.sock = "wait"
    /\ card' = [card EXCEPT !.live = Snapshot(card.job, @), !.sock = Opened(card.job)]
    /\ UNCHANGED <<server, rows>>

CardEvent ==
    /\ card.sock = "open" /\ Ends(card.job)
    /\ card' = [card EXCEPT !.live = Mirrored(card.job), !.sock = "closed"]
    /\ UNCHANGED <<server, rows>>

CardDrop ==
    /\ card.sock \in {"wait", "open"}
    /\ card' = [card EXCEPT !.sock = "lost"]
    /\ UNCHANGED <<server, rows>>

\* The carousel, or the page it is on, goes away.
CardGone ==
    /\ card # NewCard /\ card' = NewCard
    /\ UNCHANGED <<server, rows>>

-------------------------------------------------------------------------------
ViewsInit ==
    /\ ServerInit
    /\ drawer = FALSE /\ polled = st /\ live = st /\ sock = [j \in Jobs |-> "off"]
    /\ card = NewCard

Ending(j) == JobEnds(j) /\ UNCHANGED <<rows, card>>

Restarting ==
    /\ ServerRestart
    /\ sock' = [j \in Jobs |-> Cut(sock[j])] /\ card' = [card EXCEPT !.sock = Cut(@)]
    /\ UNCHANGED <<drawer, polled, live>>

RowTold(j)   == RowSubscribe(j) \/ RowSnapshot(j) \/ RowEvent(j) \/ RowDisable(j)
RowTapped(j) == RowCancel(j) \/ RowRetry(j) \/ RowDelete(j)
CardTold     == CardPosted \/ CardFailed \/ CardSnapshot \/ CardEvent

ViewsNext ==
    \/ \E j \in Jobs : Ending(j) \/ RowTold(j) \/ RowTapped(j) \/ RowDrop(j)
    \/ CardStart \/ CardTold \/ CardDrop \/ CardGone
    \/ Poll \/ ToggleDrawer \/ Restarting

\* The poll goes on, sockets deliver, requests are answered.
ViewsFairness ==
    /\ \A j \in Jobs : WF_viewVars(RowTold(j))
    /\ WF_viewVars(CardTold) /\ WF_viewVars(Poll)

ViewsSpec == ViewsInit /\ [][ViewsNext]_viewVars /\ ViewsFairness

-------------------------------------------------------------------------------
(* Properties *)

\* A row of the queue comes to show how its job ended, although the events a row
\* is told overlay the list it polls, and its socket may be lost or never opened.
RowsSettle ==
    \A j \in Jobs : st[j] \in Terminal ~> (Display(j) = st[j] \/ j \in deleted)

\* The card stops being pending, unless its socket was lost, the job deleted or the
\* page left.
Freed(j) == ~IsPending \/ card.sock = "lost" \/ card.job # j \/ j \in deleted

\* A card whose job is done or has failed stops being pending: the terminal event is
\* mirrored into the status (useLiveJobProgress.ts:72-75).  One whose job was cancelled
\* does not: no status but these two ends it.
CardSettles ==
    \A j \in Jobs : (card.job = j /\ st[j] \in {"done", "error"}) ~> Freed(j)

===============================================================================
