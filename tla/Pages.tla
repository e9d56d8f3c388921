--------------------------------- MODULE Pages ---------------------------------
(***************************************************************************)
(* The pages of the web client under its router: the queue and the cards   *)
(* (JobViews), a playlist (PlaylistPage), the albums (Albums), the bulk    *)
(* import (BulkImport), and the overlays that any of them may open         *)
(* (BackStack).  One page is mounted at a time and a page keeps its state  *)
(* in its own components, so the parts share no variable: a behaviour is   *)
(* about one part, and the others stay as they start.                      *)
(***************************************************************************)
EXTENDS JobViews, PlaylistPage, Albums, BulkImport, BackStack

VARIABLE part   \* the part the behaviour is about

pagesVars == <<part, viewVars, pageVars, albumVars, importVars, overlayVars>>

Parts == {"queue", "playlist", "albums", "import", "overlays"}

Queue(A) ==
    part = "queue" /\ A /\ UNCHANGED <<part, pageVars, albumVars, importVars, overlayVars>>
Playlist(A) ==
    part = "playlist" /\ A /\ UNCHANGED <<part, viewVars, albumVars, importVars, overlayVars>>
AlbumsPage(A) ==
    part = "albums" /\ A /\ UNCHANGED <<part, viewVars, pageVars, importVars, overlayVars>>
Import(A) ==
    part = "import" /\ A /\ UNCHANGED <<part, viewVars, pageVars, albumVars, overlayVars>>
Overlays(A) ==
    part = "overlays" /\ A /\ UNCHANGED <<part, viewVars, pageVars, albumVars, importVars>>

\* A part that the behaviour is not about starts in one way only.
PagesInit ==
    /\ part \in Parts
    /\ ViewsInit /\ ImportInit /\ PageInit /\ AlbumsInit /\ OverlaysInit
    /\ part # "playlist" => list = CHOOSE s \in SetToSeqs(Songs) : TRUE
    /\ part # "albums" =>
          /\ library = CHOOSE l \in Libraries : TRUE
          /\ edition = CHOOSE e \in Editions : TRUE
          /\ catalog = {t.id : t \in Range(library)}
    /\ part # "overlays" => music = FALSE

PagesNext ==
    \/ Queue(ViewsNext)
    \/ Playlist(PageNext)
    \/ AlbumsPage(AlbumsNext)
    \/ Import(ImportNext)
    \/ Overlays(OverlaysNext)

\* The fairness of each part.
PagesFairness ==
    /\ \A j \in Jobs : WF_pagesVars(Queue(RowTold(j)))
    /\ WF_pagesVars(Queue(CardTold)) /\ WF_pagesVars(Queue(Poll))
    /\ \A j \in Imports : WF_pagesVars(Import(Worker(j)))
    /\ WF_pagesVars(Import(Answered)) /\ WF_pagesVars(Import(SockOpens))
    /\ WF_pagesVars(Import(Told))

PagesSpec == PagesInit /\ [][PagesNext]_pagesVars /\ PagesFairness
===============================================================================
