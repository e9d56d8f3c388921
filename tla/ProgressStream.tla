---------------------------- MODULE ProgressStream ----------------------------
(***************************************************************************)
(* The progress WebSocket (progress_ws and _ProgressHub in                 *)
(* backend/src/api/routes.py) next to the jobs it reports on.  A viewer    *)
(* reads the row, is accepted, looks the job's hub up, subscribes to it,   *)
(* reads the row again for the snapshot and then waits for events until a terminal one.  *)
(* The hub hands an event to whoever is subscribed when it is put: the log *)
(* `hub` of DownloadJobs from the index at which the viewer joined it.     *)
(***************************************************************************)
EXTENDS DownloadJobs

CONSTANT Viewers

VARIABLE view

allVars == <<vars, view>>

Stages == {"off", "accepted", "found", "subscribed", "live", "closed"}

Away == [at |-> "off", job |-> NoJob, sub |-> FALSE, from |-> 0, seen |-> "none"]

StreamInit == Init /\ view = [v \in Viewers |-> Away]

\* The first read, for existence and ownership; a missing row is refused.
ViewOpen(v, j) ==
    /\ view[v].at = "off"
    /\ ~exiting
    /\ row[j] # "none"
    /\ view' = [view EXCEPT ![v].at = "accepted", ![v].job = j,
                            ![v].seen = row[j]]
    /\ UNCHANGED vars

\* _jobs.get: the hub it finds is held from here on, whoever pops the entry.
ViewLookup(v) ==
    /\ view[v].at = "accepted"
    /\ view' = [view EXCEPT ![v].at = "found",
                            ![v].sub = runtime[view[v].job] # "none"]
    /\ UNCHANGED vars

\* hub.subscribe, where there is a hub.
ViewSubscribe(v) ==
    /\ view[v].at = "found"
    /\ view' = [view EXCEPT ![v].at = "subscribed",
                            ![v].from = Len(hub[view[v].job])]
    /\ UNCHANGED vars

\* (mutant) The snapshot taken from the first read.
RereadStale(v) == view[v].seen

\* db.get(job_id) or row
Reread(v) == LET j == view[v].job
             IN  IF row[j] = "none" THEN view[v].seen ELSE row[j]

ViewSnapshot(v) ==
    /\ view[v].at = "subscribed"
    /\ LET status == Reread(v)
       IN  view' = [view EXCEPT ![v].seen = status,
                                ![v].at = IF view[v].sub /\ status \in Active
                                          THEN "live" ELSE "closed"]
    /\ UNCHANGED vars

Pending(v) == view[v].from < Len(hub[view[v].job])

\* Only terminal events are kept in the log, so the first one ends the stream.
ViewEvent(v) ==
    /\ view[v].at = "live"
    /\ Pending(v)
    /\ view' = [view EXCEPT ![v].at = "closed",
                            ![v].seen = hub[view[v].job][view[v].from + 1]]
    /\ UNCHANGED vars

\* The browser goes away; the watcher wakes the handler.
ViewLeave(v) ==
    /\ view[v].at # "off"
    /\ view' = [view EXCEPT ![v] = Away]
    /\ UNCHANGED vars

\* No socket outlives the process.
StreamRestart == Restart /\ view' = [v \in Viewers |-> Away]

\* uvicorn closes the sockets before the interpreter exits.
StreamExit == BeginExit /\ view' = [v \in Viewers |-> Away]

JobStep ==
    /\ \/ \E j \in Jobs :
             Register(j) \/ Handler(j) \/ Worker(j) \/ GraceElapses(j)
       \/ \E c \in Clients : Request(c) \/ Respond(c)
       \/ Reaper
    /\ UNCHANGED view

Stream(v) ==
    ViewLookup(v) \/ ViewSubscribe(v) \/ ViewSnapshot(v) \/ ViewEvent(v)

StreamNext ==
    \/ JobStep
    \/ StreamRestart
    \/ StreamExit
    \/ \E v \in Viewers :
          \/ \E j \in Jobs : ViewOpen(v, j)
          \/ Stream(v)
          \/ ViewLeave(v)

StreamSpec == StreamInit /\ [][StreamNext]_allVars

\* The event loop serves a socket; the jobs' threads and the reaper as in
\* DownloadJobs, whose steps leave the viewers alone.
FairStreamSpec ==
    /\ StreamSpec
    /\ Fairness
    /\ \A v \in Viewers : WF_allVars(Stream(v))

-------------------------------------------------------------------------------

\* A viewer never waits on a hub that has nothing more to say: its terminal event
\* is in its queue already, or somebody still has to put one.  Deleting the row
\* between the two reads is the exception (progress_ws, "Subscribe *before*
\* taking the snapshot").
NoDeadWait ==
    \A v \in Viewers :
        view[v].at = "live" =>
            \/ Pending(v)
            \/ Live(view[v].job) /\ pc[view[v].job] # "hash"
            \/ row[view[v].job] = "none"

\* Whoever waits for a job hears of its end or leaves.
EveryStreamEnds ==
    \A v \in Viewers :
        view[v].at = "live" ~>
            \/ view[v].at # "live"
            \/ row[view[v].job] = "none"

===============================================================================
