-------------------------------- MODULE Capture --------------------------------
(***************************************************************************)
(* The capture page (CapturePage, SearchBar, useCapture): a URL is         *)
(* analysed, an option is chosen, a job is started and followed over its   *)
(* socket until its file is saved or its tracks are in the library.  A     *)
(* page that is left loses its state, what is in flight for it stays in    *)
(* flight.                                                                 *)
(***************************************************************************)
EXTENDS JobServer, FiniteSets

CONSTANTS
    Urls,
    KindOf,        \* what the analysis of a URL finds: "music", "video", "playlist"
    NoUrl,
    MaxScans       \* bound of the model: analyses in flight

ASSUME CaptureAssumption ==
    /\ KindOf \in [Urls -> {"music", "video", "playlist"}]
    /\ NoUrl \notin Urls /\ MaxScans \in Nat \ {0}

VARIABLES
    mounted,                  \* the page is on show
    input,                    \* the URL in the search bar, NoUrl when it holds none
    committed,                \* the URL analysed last
    phase,
    format, audio, mode,      \* a format and an audio preset are selected, audioMode
    scan,                     \* analyses in flight
    post,                     \* the request in flight that starts a job: of this page, or of one left
    job,                      \* jobId, whose socket is wsRef
    csock, left,              \* the socket per job, those of a page that was left
    saving                    \* a file is being saved

choice == <<format, audio, mode>>
follow == <<job, csock, left>>
vars   == <<server, mounted, input, committed, choice, phase, scan, post, follow, saving>>

\* The panel has no formats to offer; it has, and none is selected; one is.
Formats == {"bare", "unset", "set"}

Phases == {"idle", "analyzing", "ready", "downloading", "done", "error"}
Kind(u) == IF u = NoUrl THEN "none" ELSE KindOf[u]

TypeOK ==
    /\ ServerTypeOK
    /\ mounted \in BOOLEAN /\ input \in Urls \cup {NoUrl} /\ committed \in Urls \cup {NoUrl}
    /\ phase \in Phases
    /\ format \in Formats /\ audio \in BOOLEAN /\ mode \in {"library", "file"}
    /\ scan \subseteq Urls /\ post \in {"none", "here", "left"}
    /\ job \in Jobs \cup {NoJob} /\ csock \in [Jobs -> Sockets \ {"lost"}]
    /\ left \subseteq Jobs /\ saving \in BOOLEAN

-------------------------------------------------------------------------------
(* The input and its analysis *)

Close(s) == IF s = "off" THEN s ELSE "closed"

Idle == /\ phase' = "idle" /\ committed' = NoUrl
        /\ format' = "bare" /\ audio' = FALSE /\ mode' = "library"

\* The socket of wsRef is closed; its onclose still fires.
Reset == /\ Idle /\ job' = NoJob
         /\ csock' = [j \in Jobs |-> IF j = job THEN Close(csock[j]) ELSE csock[j]]

\* What is typed is analysed by Enter only; a panel on show stays there.
Type(u) ==
    /\ mounted /\ input' = u
    /\ UNCHANGED <<server, mounted, committed, choice, phase, scan, post, follow, saving>>

\* Enter, a suggestion or a result with a URL: it is analysed, whatever goes on.
Submit(u) ==
    /\ mounted /\ Cardinality(scan \cup {u}) <= MaxScans
    /\ input' = u /\ phase' = "analyzing" /\ scan' = scan \cup {u}
    /\ UNCHANGED <<server, mounted, committed, choice, post, follow, saving>>

\* A text is searched for.
Search ==
    /\ mounted
    /\ input' = NoUrl /\ Reset
    /\ UNCHANGED <<server, mounted, scan, post, left, saving>>

\* (mutant) The audio mode stays what it was.
ModeKept(u) == mode

\* A video that is no music cannot go to the library.
ModeFor(u) == IF KindOf[u] = "video" THEN "file" ELSE mode

\* The answers come in any order; each sets what it is about, and none clears the audio.
\* The first format is selected, if there is one.
Analysed(u) ==
    /\ mounted /\ u \in scan
    /\ scan' = scan \ {u}
    /\ phase' = "ready" /\ committed' = u
    /\ IF KindOf[u] = "playlist" THEN UNCHANGED <<format, mode>>
       ELSE format' \in {"bare", "set"} /\ mode' = ModeFor(u)
    /\ UNCHANGED <<server, mounted, input, audio, post, follow, saving>>

AnalysisFailed(u) ==
    /\ mounted /\ u \in scan
    /\ scan' = scan \ {u} /\ phase' = "error"
    /\ UNCHANGED <<server, mounted, input, committed, choice, post, follow, saving>>

-------------------------------------------------------------------------------
(* The options on show *)

\* While a text that is no URL is typed the panel is hidden as well: the user, who need
\* not do anything, then does nothing with it.
ShowMeta == mounted /\ phase \in {"ready", "downloading", "done"}

Panel(kind) == ShowMeta /\ Kind(committed) = kind

\* "add to library" and the audio presets are offered for music, the formats for a video.
SelectAudio(m) ==
    /\ Panel("music")
    /\ audio' = TRUE /\ mode' = m
    /\ format' = IF format = "set" THEN "unset" ELSE format
    /\ UNCHANGED <<server, mounted, input, committed, phase, scan, post, follow, saving>>

SelectFormat ==
    /\ Panel("video") /\ format # "bare"
    /\ format' = "set" /\ audio' = FALSE
    /\ UNCHANGED <<server, mounted, input, committed, phase, mode, scan, post, follow, saving>>

\* What the panel highlights: the library button, an audio preset, a format.
Highlighted ==
    CASE Panel("music") /\ mode = "library" -> "library"
      [] Panel("music") /\ mode = "file" -> IF audio THEN "audio" ELSE "none"
      [] Panel("video") -> IF format = "set" THEN "video" ELSE "none"
      [] OTHER -> "none"

\* What the request asks for.
Asked ==
    IF audio THEN IF mode = "library" THEN "library" ELSE "audio" ELSE "video"

-------------------------------------------------------------------------------
(* startDownload and the socket *)

CanStart ==
    /\ ShowMeta /\ phase = "ready"
    /\ Kind(committed) = "playlist" \/ format = "set" \/ audio

\* The URL that is sent is the input's, whatever was analysed, with what the panel asks
\* for; without a URL it fails.  One request is in flight at a time (a bound of the model).
StartDownload ==
    /\ CanStart /\ post = "none"
    /\ phase' = "downloading" /\ post' = "here"
    /\ UNCHANGED <<server, mounted, input, committed, choice, scan, follow, saving>>

\* The answer brings the job.  A page left meanwhile opens a socket nobody will close.
Posted ==
    /\ post # "none" /\ post' = "none"
    /\ \E j \in Jobs :
          /\ Create(j)
          /\ csock' = [csock EXCEPT ![j] = "wait"]
          /\ IF post = "here" THEN job' = j /\ UNCHANGED left
                              ELSE left' = left \cup {j} /\ UNCHANGED job
    /\ UNCHANGED <<mounted, input, committed, choice, phase, scan, saving>>

PostFailed ==
    /\ post # "none" /\ post' = "none"
    /\ phase' = IF post = "here" THEN "error" ELSE phase
    /\ UNCHANGED <<server, mounted, input, committed, choice, scan, follow, saving>>

\* A terminal snapshot changes no phase: it waits for the close.
CaptureSnapshot(j) ==
    /\ csock[j] = "wait"
    /\ csock' = [csock EXCEPT ![j] = Opened(j)]
    /\ UNCHANGED <<server, mounted, input, committed, choice, phase, scan, post, job, left, saving>>

PhaseAt(end) == CASE end = "done" -> "done" [] end = "error" -> "error" [] OTHER -> "idle"

\* The terminal event; if the job made a file it is saved, whichever page is open.
CaptureEvent(j) ==
    /\ csock[j] = "open" /\ Ends(j)
    /\ csock' = [csock EXCEPT ![j] = "off"]
    /\ phase' = IF j \in left THEN phase ELSE PhaseAt(st[j])
    /\ saving' \in {saving, saving \/ (st[j] = "done" /\ j \notin left)}
    /\ UNCHANGED <<server, mounted, input, committed, choice, scan, post, job, left>>

Saved ==
    /\ saving /\ saving' = FALSE
    /\ UNCHANGED <<server, mounted, input, committed, choice, phase, scan, post, follow>>

\* The token or the saver fails.
NotSaved ==
    /\ saving /\ saving' = FALSE /\ phase' = "error"
    /\ UNCHANGED <<server, mounted, input, committed, choice, scan, post, follow>>

CaptureDrop(j) ==
    /\ csock[j] \in {"wait", "open"}
    /\ csock' = [csock EXCEPT ![j] = "closed"]
    /\ UNCHANGED <<server, mounted, input, committed, choice, phase, scan, post, job, left, saving>>

\* (mutant) A close that no terminal event came before changes nothing.
PhaseKept == phase

\* A close that no terminal event came before ends the download on display.
PhaseOnClose == IF phase = "downloading" THEN "error" ELSE phase

SocketClosed(j) ==
    /\ csock[j] = "closed"
    /\ csock' = [csock EXCEPT ![j] = "off"]
    /\ phase' = IF j \in left THEN phase ELSE PhaseOnClose
    /\ UNCHANGED <<server, mounted, input, committed, choice, scan, post, job, left, saving>>

\* Abort asks for the job of the last answer, be it the one on display or not.
Abort ==
    /\ mounted /\ phase \in {"downloading", "done"} /\ job # NoJob
    /\ Cancel(job)
    /\ UNCHANGED <<mounted, input, committed, choice, phase, scan, post, follow, saving>>

-------------------------------------------------------------------------------
(* The page and the server *)

\* The page closes the socket it refers to; the others are left open.
Leave ==
    /\ mounted /\ mounted' = FALSE
    /\ input' = NoUrl /\ Idle /\ job' = NoJob /\ scan' = {} /\ saving' = FALSE
    /\ post' = IF post = "here" THEN "left" ELSE post
    /\ csock' = [j \in Jobs |-> IF j = job THEN "off" ELSE csock[j]]
    /\ left' = {j \in Jobs : csock'[j] # "off"}
    /\ UNCHANGED server

Enter ==
    /\ ~mounted /\ mounted' = TRUE
    /\ UNCHANGED <<server, input, committed, choice, phase, scan, post, follow, saving>>

\* A job ends, or is cancelled from the queue.  (A restart, or a job deleted before
\* its socket is accepted, is to the page a socket that drops.)
Served ==
    /\ \E j \in Jobs : JobEnds(j) \/ Cancel(j)
    /\ UNCHANGED <<mounted, input, committed, choice, phase, scan, post, follow, saving>>

-------------------------------------------------------------------------------
Init ==
    /\ ServerInit
    /\ mounted = TRUE /\ input = NoUrl /\ committed = NoUrl /\ phase = "idle"
    /\ format = "bare" /\ audio = FALSE /\ mode = "library"
    /\ scan = {} /\ post = "none" /\ saving = FALSE
    /\ job = NoJob /\ csock = [j \in Jobs |-> "off"] /\ left = {}

Option    == SelectFormat \/ \E m \in {"library", "file"} : SelectAudio(m)
Socket(j) == CaptureSnapshot(j) \/ CaptureEvent(j) \/ SocketClosed(j)
Ending(j) == JobEnds(j) /\ UNCHANGED <<mounted, input, committed, choice, phase, scan, post, follow, saving>>

Next ==
    \/ Search \/ \E u \in Urls \cup {NoUrl} : Type(u)
    \/ \E u \in Urls : Submit(u) \/ Analysed(u) \/ AnalysisFailed(u)
    \/ Option \/ StartDownload \/ Abort \/ Posted \/ PostFailed
    \/ \E j \in Jobs : Socket(j) \/ CaptureDrop(j)
    \/ Saved \/ NotSaved \/ Enter \/ Leave \/ Served

\* Requests are answered, sockets deliver, jobs end (EveryJobSettles of DownloadJobs).
Fairness ==
    /\ \A j \in Jobs : WF_vars(Ending(j)) /\ WF_vars(Socket(j))
    /\ WF_vars(Posted \/ PostFailed)

Spec == Init /\ [][Next]_vars /\ Fairness

-------------------------------------------------------------------------------
(* Properties *)

\* The request would bring this URL to the library as a track of its own.
ToLibrary(u) == CanStart /\ Kind(committed) # "playlist" /\ input = u /\ Asked = "library"

\* While the panel on show is that of the URL in the input, no video goes to the library
\* (useCapture.ts:140-142), whatever was analysed and selected before: an audio preset
\* left from another URL does not take it there.  An input that is not the panel's is
\* sent with the panel's choices, and may be a video.
ShownIsMusic == \A u \in Urls : ToLibrary(u) /\ committed = u => Kind(u) # "video"

\* The page is never frozen on "downloading" (useCapture.ts:161-163): the request
\* fails, the job ends, or the close of its socket ends the display.
NoFrozenDownload == phase = "downloading" ~> phase # "downloading"

\* In the mode "library", which the panel then highlights, the download of a music URL
\* goes to the library (useCapture.ts:57-58).
HighlightedIsSent == CanStart /\ Panel("music") /\ Highlighted = "library" => Asked = "library"

===============================================================================
