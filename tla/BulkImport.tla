------------------------------ MODULE BulkImport ------------------------------
(***************************************************************************)
(* The page that imports a wish list (pages/ImportPage.tsx) and the job    *)
(* behind it (start_tracklist_import): each wanted track is imported, is   *)
(* not found on YouTube Music, or fails.  (One in the catalog already is   *)
(* counted the way an imported one is, under a name of its own.)  The      *)
(* page follows the job over a progress socket; the hub sends a socket     *)
(* only what is put after it has subscribed.  The job goes on without the  *)
(* page, and another import may be started while an abandoned one runs.    *)
(***************************************************************************)
EXTENDS Filter, SequencesExt

CONSTANTS MaxTracks,   \* bound of the model: tracks of a list
          MaxImports   \* bound of the model: imports, numbered as they are created

ASSUME BulkImportAssumption == MaxTracks \in Nat /\ MaxImports \in Nat \ {0}

VARIABLES
    status,  \* per job, how it stands
    log,     \* per job, what became of the tracks it has been through
    size,    \* per job, the tracks of its list
    phase,   \* what the page shows
    counts, skips,   \* the tallies and the list under them
    posting, \* the request to start is in flight
    line,    \* the page's socket: its job, "off", "wait" or "open", the events on the way
    stray,   \* the jobs that sockets of pages left behind still follow
    since    \* history: the tracks its job had been through when it subscribed

importJobs == <<status, log, size>>
report     == <<phase, counts, skips>>
importVars == <<importJobs, report, posting, line, stray, since>>

Imports  == 1..MaxImports
Results  == {"imported", "no_match", "skipped"}
Skipping == {"no_match", "skipped"}
Phases   == {"idle", "running", "done", "error"}
NoCounts == [r \in Results |-> 0]
NoSocket == [job |-> 0, at |-> "off", events |-> <<>>]

Tally(j) == [r \in Results |-> Len(Among(log[j], {r}))]

-------------------------------------------------------------------------------
(* The job *)

\* put: to the socket of the job, if it has subscribed.
Put(j, event) ==
    line' = IF line.job = j /\ line.at = "open"
            THEN [line EXCEPT !.events = Append(@, event)] ELSE line

Created(j) ==
    /\ status[j] = "none" /\ \A i \in 1..(j - 1) : status[i] # "none"
    /\ status' = [status EXCEPT ![j] = "active"]
    /\ \E n \in 0..MaxTracks : size' = [size EXCEPT ![j] = n]
    /\ UNCHANGED log

\* One track of the loop; only those that are skipped make the page count.
Process(j) ==
    /\ status[j] = "active" /\ Len(log[j]) < size[j]
    /\ \E r \in Results :
          /\ log' = [log EXCEPT ![j] = Append(@, r)]
          /\ IF r \in Skipping THEN Put(j, r) ELSE UNCHANGED line
    /\ UNCHANGED <<status, size, report, posting, stray, since>>

Finish(j) ==
    /\ status[j] = "active" /\ Len(log[j]) = size[j]
    /\ IF size[j] = 0
       THEN status' = [status EXCEPT ![j] = "error"] /\ Put(j, "error")   \* "No tracks found"
       ELSE status' = [status EXCEPT ![j] = "done"] /\ Put(j, "done")
    /\ UNCHANGED <<log, size, report, posting, stray, since>>

\* A list that cannot be read, a database that fails; a cancel from the queue.
Break(j) ==
    /\ status[j] = "active"
    /\ \E s \in {"error", "cancelled"} : status' = [status EXCEPT ![j] = s] /\ Put(j, s)
    /\ UNCHANGED <<log, size, report, posting, stray, since>>

-------------------------------------------------------------------------------
(* The page *)

\* (mutant) The list of the import before stays.
ResetCounts == counts' = NoCounts /\ UNCHANGED skips

Reset == counts' = NoCounts /\ skips' = <<>>

Start ==
    /\ phase # "running" /\ Reset
    /\ phase' = "running" /\ posting' = TRUE
    /\ UNCHANGED <<importJobs, line, stray, since>>

\* subscribe closes the socket there was.
Posted ==
    /\ posting /\ posting' = FALSE
    /\ \E j \in Imports :
          Created(j) /\ line' = [NoSocket EXCEPT !.job = j, !.at = "wait"] /\ since' = 0
    /\ UNCHANGED <<report, stray>>

\* Refused, or accepted and the answer lost.
PostFails ==
    /\ posting /\ posting' = FALSE /\ phase' = "error"
    /\ UNCHANGED importJobs \/ \E j \in Imports : Created(j)
    /\ UNCHANGED <<counts, skips, line, stray, since>>

\* (mutant) Only an error event ends the display.
FollowedOn(p) == p

\* onclose: the import may go on, the page cannot follow it.
Unfollowed(p) == IF p = "running" THEN "error" ELSE p

\* The hub is subscribed to first, then the status is read; a job that has ended is
\* closed on, and the page knows nothing of the snapshot.
SockOpens ==
    /\ line.at = "wait"
    /\ IF status[line.job] = "active"
       THEN /\ line' = [line EXCEPT !.at = "open"] /\ since' = Len(log[line.job])
            /\ UNCHANGED phase
       ELSE /\ line' = [line EXCEPT !.at = "off"] /\ phase' = Unfollowed(phase)
            /\ UNCHANGED since
    /\ UNCHANGED <<importJobs, counts, skips, posting, stray>>

Closed == line' = [line EXCEPT !.at = "off", !.events = <<>>]

\* ws.onmessage
Told ==
    /\ line.at = "open" /\ line.events # <<>>
    /\ LET event == Head(line.events) IN
       CASE event \in Skipping ->
              /\ counts' = [counts EXCEPT ![event] = @ + 1]
              /\ skips' = Append(skips, event)
              /\ line' = [line EXCEPT !.events = Tail(@)]
              /\ UNCHANGED phase
         [] event = "done" ->
              counts' = Tally(line.job) /\ phase' = "done" /\ Closed /\ UNCHANGED skips
         [] OTHER ->
              /\ phase' = IF event = "error" THEN "error" ELSE "idle"
              /\ Closed /\ UNCHANGED <<counts, skips>>
    /\ UNCHANGED <<importJobs, posting, stray, since>>

SockDrops ==
    /\ line.at # "off" /\ Closed /\ phase' = Unfollowed(phase)
    /\ UNCHANGED <<importJobs, counts, skips, posting, stray, since>>

\* Jobs that run are recorded as interrupted; the sockets are gone.
ServerRestarts ==
    /\ \E j \in Imports : status[j] = "active"
    /\ status' = [j \in Imports |-> IF status[j] = "active" THEN "interrupted" ELSE status[j]]
    /\ Closed /\ phase' = IF line.at = "off" THEN phase ELSE Unfollowed(phase)
    /\ stray' = {}
    /\ UNCHANGED <<log, size, counts, skips, posting, since>>

\* The page is left and its socket closed.  A request in flight may still start a
\* job, and its answer opens a socket that no page reads.
LeavePage ==
    /\ phase' = "idle" /\ counts' = NoCounts /\ skips' = <<>>
    /\ posting' = FALSE /\ line' = NoSocket /\ since' = 0
    /\ \/ UNCHANGED <<importJobs, stray>>
       \/ posting /\ \E j \in Imports : Created(j) /\ stray' \in {stray, stray \cup {j}}

\* Such a socket closes with its job, or is lost.
StrayCloses ==
    /\ \E j \in stray : stray' = stray \ {j}
    /\ UNCHANGED <<importJobs, report, posting, line, since>>

-------------------------------------------------------------------------------
ImportInit ==
    /\ status = [j \in Imports |-> "none"] /\ log = [j \in Imports |-> <<>>]
    /\ size = [j \in Imports |-> 0]
    /\ phase = "idle" /\ counts = NoCounts /\ skips = <<>>
    /\ posting = FALSE /\ line = NoSocket /\ stray = {} /\ since = 0

Answered  == Posted \/ PostFails
Worker(j) == Process(j) \/ Finish(j)

ImportNext ==
    \/ \E j \in Imports : Worker(j) \/ Break(j)
    \/ Start \/ Answered \/ SockOpens \/ Told \/ SockDrops \/ ServerRestarts \/ LeavePage
    \/ StrayCloses

\* Jobs run, the request is answered, the socket opens and delivers.
ImportFairness ==
    /\ \A j \in Imports : WF_importVars(Worker(j))
    /\ WF_importVars(Answered) /\ WF_importVars(SockOpens) /\ WF_importVars(Told)

ImportSpec == ImportInit /\ [][ImportNext]_importVars /\ ImportFairness

-------------------------------------------------------------------------------
(* Properties *)

\* What the socket's job has skipped since the page subscribed.
Skipped == Among(SubSeq(log[line.job], since + 1, Len(log[line.job])), Skipping)

\* The report is that of the import last started and of no other, across imports,
\* abandoned jobs and lost sockets: a track once, in order, and at the end all that
\* was skipped since the page subscribed, with the server's own tallies
\* (ImportPage.tsx:1-20, "reported, not guessed").
ReportIsOfThisImport ==
    /\ line.job # 0 => IsPrefix(skips, Skipped)
    /\ phase = "done" => skips = Skipped /\ counts = Tally(line.job)

\* The page never shows a running import for ever: the job ends, or the close of its
\* socket ends the display ("otherwise leaves the page stuck on progress that will
\* never advance", ImportPage.tsx:53-55).
ImportEnds == phase = "running" ~> phase # "running"
===============================================================================
