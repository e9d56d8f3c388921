------------------------------ MODULE CaptureProofs -----------------------------
(***************************************************************************)
(* The capture page, for any number of jobs, URLs and analyses in flight:  *)
(* its state stays of the right kind, and no video whose panel is on show   *)
(* goes to the library.                                                    *)
(***************************************************************************)
EXTENDS Capture, TLAPS

\* While a video is on show the audio mode is the file.
VideoToFile == Kind(committed) = "video" => mode = "file"

IInv == TypeOK /\ VideoToFile

-------------------------------------------------------------------------------

LEMMA JobNumbers == Jobs \subseteq Nat /\ NoJob \notin Jobs
BY JobServerAssumption DEF Jobs, NoJob

LEMMA InitHolds == Init => IInv
BY CaptureAssumption
DEF Init, IInv, TypeOK, ServerInit, ServerTypeOK, VideoToFile, Kind, Formats, Phases, Sockets, Status

\* A step of the server keeps its jobs of the right kind.
LEMMA ServerKeeps ==
    ASSUME ServerTypeOK, NEW j \in Jobs, Create(j) \/ JobEnds(j) \/ Cancel(j)
    PROVE  ServerTypeOK'
<1>1. CASE Create(j)
  BY <1>1 DEF ServerTypeOK, Create, Status, Terminal
<1>2. CASE JobEnds(j)
  BY <1>2 DEF ServerTypeOK, JobEnds, Status, Terminal
<1>3. CASE Cancel(j)
  BY <1>3 DEF ServerTypeOK, Cancel, Status, Terminal
<1> QED
  BY <1>1, <1>2, <1>3

LEMMA StepKeeps == IInv /\ [Next]_vars => IInv'
<1> SUFFICES ASSUME IInv, [Next]_vars PROVE IInv'
  OBVIOUS
<1> USE CaptureAssumption DEF IInv
<1>s. ASSUME UNCHANGED server PROVE ServerTypeOK'
  BY <1>s DEF server, TypeOK, ServerTypeOK
<1>1. CASE Search
  <2>1. csock' \in [Jobs -> Sockets \ {"lost"}]
    BY <1>1 DEF Search, Reset, Close, Sockets, TypeOK
  <2> QED
    BY <1>1, <1>s, <2>1 DEF Search, Reset, Idle, TypeOK, VideoToFile, Kind, Formats, Phases
<1>19. ASSUME NEW u \in Urls \cup {NoUrl}, Type(u) PROVE IInv'
  BY <1>19, <1>s DEF Type, TypeOK, VideoToFile, Kind, Formats, Phases, choice, follow
<1>2. ASSUME NEW u \in Urls, Submit(u) PROVE IInv'
  BY <1>2, <1>s DEF Submit, TypeOK, VideoToFile, Kind, Formats, Phases, choice, follow
<1>3. ASSUME NEW u \in Urls, Analysed(u) PROVE IInv'
  <2>1. CASE KindOf[u] = "playlist"
    BY <1>3, <1>s, <2>1 DEF Analysed, TypeOK, VideoToFile, Kind, Formats, Phases, follow
  <2>2. CASE KindOf[u] # "playlist"
    BY <1>3, <1>s, <2>2 DEF Analysed, ModeFor, TypeOK, VideoToFile, Kind, Formats, Phases, follow
  <2> QED
    BY <2>1, <2>2
<1>4. ASSUME NEW u \in Urls, AnalysisFailed(u) PROVE IInv'
  BY <1>4, <1>s DEF AnalysisFailed, TypeOK, VideoToFile, Kind, Formats, Phases, choice, follow
<1>5. CASE Option
  <2>1. CASE SelectFormat
    BY <1>s, <2>1 DEF SelectFormat, TypeOK, VideoToFile, Kind, Formats, Phases, follow
  <2>2. ASSUME NEW m \in {"library", "file"}, SelectAudio(m) PROVE IInv'
    BY <1>s, <2>2 DEF SelectAudio, Panel, TypeOK, VideoToFile, Kind, Formats, Phases, follow
  <2> QED
    BY <1>5, <2>1, <2>2 DEF Option
<1>6. CASE StartDownload
  BY <1>6, <1>s DEF StartDownload, TypeOK, VideoToFile, Kind, Formats, Phases, choice, follow
<1>7. CASE Abort
  <2>1. job \in Jobs
    BY <1>7 DEF Abort, TypeOK
  <2>2. ServerTypeOK'
    BY <1>7, <2>1, ServerKeeps DEF Abort, TypeOK
  <2> QED
    BY <1>7, <2>2 DEF Abort, TypeOK, VideoToFile, Kind, choice, follow
<1>8. CASE Posted
  <2>1. PICK j \in Jobs :
          /\ Create(j)
          /\ csock' = [csock EXCEPT ![j] = "wait"]
          /\ \/ job' = j /\ UNCHANGED left
             \/ left' = left \cup {j} /\ UNCHANGED job
    BY <1>8 DEF Posted
  <2>2. ServerTypeOK'
    BY <2>1, ServerKeeps DEF TypeOK
  <2>3. csock' \in [Jobs -> Sockets \ {"lost"}]
    BY <2>1 DEF TypeOK, Sockets
  <2> QED
    BY <1>8, <2>1, <2>2, <2>3 DEF Posted, TypeOK, VideoToFile, Kind, choice
<1>9. CASE PostFailed
  BY <1>9, <1>s DEF PostFailed, TypeOK, VideoToFile, Kind, Formats, Phases, choice, follow
<1>10. ASSUME NEW j \in Jobs, CaptureSnapshot(j) PROVE IInv'
  BY <1>10, <1>s
  DEF CaptureSnapshot, Opened, Sockets, TypeOK, VideoToFile, Kind, Formats, Phases, choice
<1>11. ASSUME NEW j \in Jobs, CaptureEvent(j) PROVE IInv'
  BY <1>11, <1>s
  DEF CaptureEvent, PhaseAt, Sockets, TypeOK, VideoToFile, Kind, Formats, Phases, choice
<1>12. ASSUME NEW j \in Jobs, SocketClosed(j) PROVE IInv'
  BY <1>12, <1>s
  DEF SocketClosed, PhaseOnClose, Sockets, TypeOK, VideoToFile, Kind, Formats, Phases, choice
<1>13. ASSUME NEW j \in Jobs, CaptureDrop(j) PROVE IInv'
  BY <1>13, <1>s DEF CaptureDrop, Sockets, TypeOK, VideoToFile, Kind, Formats, Phases, choice
<1>14. CASE Saved \/ NotSaved
  BY <1>14, <1>s DEF Saved, NotSaved, TypeOK, VideoToFile, Kind, Formats, Phases, choice, follow
<1>15. CASE Enter
  BY <1>15, <1>s DEF Enter, TypeOK, VideoToFile, Kind, choice, follow
<1>16. CASE Leave
  <2>1. csock' \in [Jobs -> Sockets \ {"lost"}]
    BY <1>16 DEF Leave, Sockets, TypeOK
  <2> QED
    BY <1>16, <1>s, <2>1 DEF Leave, Idle, TypeOK, VideoToFile, Kind, Formats, Phases
<1>17. CASE Served
  <2>1. PICK j \in Jobs : JobEnds(j) \/ Cancel(j)
    BY <1>17 DEF Served
  <2>2. ServerTypeOK'
    BY <2>1, ServerKeeps DEF TypeOK
  <2> QED
    BY <1>17, <2>2 DEF Served, TypeOK, VideoToFile, Kind, choice, follow
<1>18. CASE UNCHANGED vars
  BY <1>18, <1>s DEF vars, TypeOK, VideoToFile, Kind, choice, follow
<1> QED
  BY <1>1, <1>2, <1>3, <1>4, <1>5, <1>6, <1>7, <1>8, <1>9, <1>10, <1>11, <1>12, <1>13,
     <1>14, <1>15, <1>16, <1>17, <1>18, <1>19 DEF Next, Socket

LEMMA Consequence == IInv => TypeOK /\ ShownIsMusic
BY DEF IInv, VideoToFile, ShownIsMusic, ToLibrary, Asked

-------------------------------------------------------------------------------

\* The state of the page is of the right kind.
THEOREM TypeCorrect == Spec => []TypeOK
<1>1. IInv => TypeOK
  BY Consequence
<1> QED
  BY InitHolds, StepKeeps, <1>1, PTL DEF Spec

\* No order of analyses, options and downloads brings the video on show to the library:
\* its answer turns the audio mode to the file, and nothing on its panel turns it back.
THEOREM NoVideoInLibrary == Spec => []ShownIsMusic
<1>1. IInv => ShownIsMusic
  BY Consequence
<1> QED
  BY InitHolds, StepKeeps, <1>1, PTL DEF Spec

=================================================================================
