----------------------------- MODULE DownloadJobs -----------------------------
(***************************************************************************)
(* The life of download jobs in the backend: the start_* handlers, the     *)
(* bounded download pool and the worker body it runs, cancel, delete, the  *)
(* one-shot file endpoint, the background reaper, shutdown and restart     *)
(* (backend/src/api/routes.py over the jobs table of backend/src/db.py).   *)
(*                                                                         *)
(* Every step that another thread can get in between is an action of its   *)
(* own: a handler is a thread of FastAPI's pool, a worker a thread of      *)
(* _download_pool, the reaper a thread of its own.  Progress ticks,        *)
(* metadata and per-track work inside a download are one stretch of work   *)
(* that ends in a file, in an exception or in a seen cancellation.         *)
(***************************************************************************)
EXTENDS Naturals, Sequences, FiniteSets

CONSTANTS
    Jobs,           \* job ids (uuids, never reused)
    ImportJobs,     \* the jobs that fill the library: no tmp_dir, no file to serve
    Clients,        \* concurrent requests about existing jobs
    NoJob,
    MaxConcurrent,  \* config.MAX_CONCURRENT_DOWNLOADS
    MaxBoots        \* bound of the model: how often the process may restart

ASSUME JobsAssumption == ImportJobs \subseteq Jobs /\ NoJob \notin Jobs

ASSUME BoundsAssumption == MaxConcurrent \in Nat \ {0} /\ MaxBoots \in Nat

VARIABLES
    row,        \* jobs.status, "none" when the table has no such row
    completed,  \* jobs.completed_at: "null", within the reaper's grace, or older
    runtime,    \* _jobs: no entry, an entry, an entry whose file_path is set
    disk,       \* the job's tmp_dir: absent, a directory, holding the result
    cancelled,  \* _cancelled
    hub,        \* terminal events put on the job's _ProgressHub, in order
    pc,         \* where the job's handler, then its worker, stands
    queue,      \* _download_pool's work queue
    reaper,     \* _reap_jobs_once: the sweep in progress
    client,     \* requests in progress
    exiting,    \* the interpreter is shutting down: executors take no new work
    boots,      \* restarts so far
    release     \* history: why a job's runtime was given up ("no" while it was not)

vars == <<row, completed, runtime, disk, cancelled, hub, pc, queue,
          reaper, client, exiting, boots, release>>

FileJobs == Jobs \ ImportJobs

Active == {"queued", "downloading", "merging", "transcoding"}

Terminal == {"done", "error", "interrupted", "cancelled"}

RowStatus == Active \cup Terminal \cup {"none"}

Outcome == {"done", "error", "cancelled"}

-------------------------------------------------------------------------------
(* Program counters *)

HandlerPC == {"registered", "created"}

\* Inside the worker body's try block, up to db.finish.
Working == {"starting", "download", "merge", "transcode", "publish", "finish"}

Winding == {"announce", "hash"}

Failing == {"e_rm", "e_pop", "e_row", "e_put"}

Cancelling == {"c_rm", "c_pop", "c_row", "c_put"}

\* A thread of the pool is busy with the job.
WorkerPC == Working \cup Winding \cup Failing \cup Cancelling

PC == {"fresh", "waiting", "ended"} \cup HandlerPC \cup WorkerPC

\* The handler or the worker has yet to bring the job to its end.
Live(j) == pc[j] \in HandlerPC \cup {"waiting"} \cup WorkerPC

Running == {j \in Jobs : pc[j] \in WorkerPC}

Idle == [op |-> "idle", job |-> NoJob]

Resting == [phase |-> "rest", job |-> NoJob, todo |-> {}]

ClientOps == {"cancel", "delete", "send", "pop", "rm"}

TypeOK ==
    /\ row \in [Jobs -> RowStatus]
    /\ completed \in [Jobs -> {"null", "fresh", "old"}]
    /\ runtime \in [Jobs -> {"none", "entry", "ready"}]
    /\ disk \in [Jobs -> {"none", "dir", "file"}]
    /\ cancelled \subseteq Jobs
    /\ hub \in [Jobs -> Seq(Outcome)]
    /\ pc \in [Jobs -> PC]
    /\ queue \in Seq(Jobs)
    /\ reaper \in [phase : {"rest", "scan"}, job : {NoJob}, todo : SUBSET Jobs]
                \cup [phase : {"rm", "pop"}, job : Jobs, todo : SUBSET Jobs]
    /\ client \in [Clients -> {Idle} \cup [op : ClientOps, job : Jobs]]
    /\ exiting \in BOOLEAN
    /\ boots \in Nat
    /\ release \in [Jobs -> {"no", "served", "newborn", "restart"}]

Init ==
    /\ row = [j \in Jobs |-> "none"]
    /\ completed = [j \in Jobs |-> "null"]
    /\ runtime = [j \in Jobs |-> "none"]
    /\ disk = [j \in Jobs |-> "none"]
    /\ cancelled = {}
    /\ hub = [j \in Jobs |-> <<>>]
    /\ pc = [j \in Jobs |-> "fresh"]
    /\ queue = <<>>
    /\ reaper = Resting
    /\ client = [c \in Clients |-> Idle]
    /\ exiting = FALSE
    /\ boots = 0
    /\ release = [j \in Jobs |-> "no"]

Goto(j, label) == pc' = [pc EXCEPT ![j] = label]

-------------------------------------------------------------------------------
(* The start_* handlers.  The runtime entry (and its tmp_dir) exists before *)
(* the row does.                                                            *)

Register(j) ==
    /\ pc[j] = "fresh"
    /\ ~exiting
    /\ Goto(j, "registered")
    /\ runtime' = [runtime EXCEPT ![j] = "entry"]
    /\ disk' = [disk EXCEPT ![j] = IF j \in FileJobs THEN "dir" ELSE "none"]
    /\ UNCHANGED <<row, completed, cancelled, hub, queue, reaper, client,
                   exiting, boots, release>>

CreateRow(j) ==
    /\ pc[j] = "registered"
    /\ Goto(j, "created")
    /\ row' = [row EXCEPT ![j] = "queued"]
    /\ UNCHANGED <<completed, runtime, disk, cancelled, hub, queue, reaper,
                   client, exiting, boots, release>>

Submit(j) ==
    /\ pc[j] = "created"
    /\ Goto(j, "waiting")
    /\ queue' = Append(queue, j)
    /\ UNCHANGED <<row, completed, runtime, disk, cancelled, hub, reaper,
                   client, exiting, boots, release>>

-------------------------------------------------------------------------------
(* The worker body *)

\* (mutant) One slot too few.
SlotShort == Cardinality(Running) + 1 < MaxConcurrent

SlotFree == Cardinality(Running) < MaxConcurrent

\* (mutant) The update written as an upsert.
SetStatusUpsert(j, status) == row' = [row EXCEPT ![j] = status]

\* UPDATE jobs SET status = ... WHERE id = ...: nothing to do on a missing row.
SetStatus(j, status) ==
    row' = IF row[j] = "none" THEN row ELSE [row EXCEPT ![j] = status]

\* finish, fail and cancel stamp completed_at in the same statement.
SetTerminal(j, status) ==
    /\ SetStatus(j, status)
    /\ completed' = IF row[j] = "none" THEN completed
                                       ELSE [completed EXCEPT ![j] = "fresh"]

Start(j) ==
    /\ pc[j] = "waiting"
    /\ queue # <<>>
    /\ Head(queue) = j
    /\ SlotFree
    /\ queue' = Tail(queue)
    /\ Goto(j, "starting")
    /\ UNCHANGED <<row, completed, runtime, disk, cancelled, hub, reaper,
                   client, exiting, boots, release>>

\* One status change on the way: mark_started, then the mux and the transcode
\* a video may need.
Phase(j, from, label, status) ==
    /\ pc[j] \in from
    /\ Goto(j, label)
    /\ SetStatus(j, status)
    /\ UNCHANGED <<completed, runtime, disk, cancelled, hub, queue, reaper,
                   client, exiting, boots, release>>

MarkStarted(j) == Phase(j, {"starting"}, "download", "downloading")

Merging(j) == j \in FileJobs /\ Phase(j, {"download"}, "merge", "merging")

Transcoding(j) ==
    j \in FileJobs /\ Phase(j, {"download", "merge"}, "transcode", "transcoding")

\* A file job ends up with its result in tmp_dir; yt-dlp recreates the directory
\* when somebody removed it meanwhile.
Downloaded(j) ==
    /\ pc[j] \in {"download", "merge", "transcode"}
    /\ IF j \in FileJobs
       THEN disk' = [disk EXCEPT ![j] = "file"] /\ Goto(j, "publish")
       ELSE UNCHANGED disk /\ Goto(j, "finish")
    /\ UNCHANGED <<row, completed, runtime, cancelled, hub, queue, reaper,
                   client, exiting, boots, release>>

\* _jobs[job_id]["file_path"] = ...: a KeyError when the entry is gone.
Publish(j) ==
    /\ pc[j] = "publish"
    /\ IF runtime[j] = "none"
       THEN Goto(j, "e_rm") /\ UNCHANGED runtime
       ELSE Goto(j, "finish") /\ runtime' = [runtime EXCEPT ![j] = "ready"]
    /\ UNCHANGED <<row, completed, disk, cancelled, hub, queue, reaper, client,
                   exiting, boots, release>>

\* getsize, then db.finish.
Finish(j) ==
    /\ pc[j] = "finish"
    /\ IF j \in FileJobs /\ disk[j] # "file"
       THEN Goto(j, "e_rm") /\ UNCHANGED <<row, completed>>
       ELSE Goto(j, "announce") /\ SetTerminal(j, "done")
    /\ UNCHANGED <<runtime, disk, cancelled, hub, queue, reaper, client,
                   exiting, boots, release>>

Put(j, event) == hub' = [hub EXCEPT ![j] = Append(@, event)]

\* A new import still has its hash to hand over; a reused track does not.
Announce(j) ==
    /\ pc[j] = "announce"
    /\ Put(j, "done")
    /\ \/ Goto(j, "ended")
       \/ j \in ImportJobs /\ Goto(j, "hash")
    /\ UNCHANGED <<row, completed, runtime, disk, cancelled, queue, reaper,
                   client, exiting, boots, release>>

\* _hash_pool.submit raises once the interpreter is shutting down, and the body's
\* catch-all turns that into a failed job.
DeferHash(j) ==
    /\ pc[j] = "hash"
    /\ Goto(j, IF exiting THEN "e_pop" ELSE "ended")
    /\ UNCHANGED <<row, completed, runtime, disk, cancelled, hub, queue, reaper,
                   client, exiting, boots, release>>

\* Only file jobs have a tmp_dir to remove in their except branches.
Abort(j, rm, pop) == Goto(j, IF j \in FileJobs THEN rm ELSE pop)

\* Whatever the extraction, ffmpeg, the disk or the database raise.
Raise(j) ==
    /\ pc[j] \in {"starting", "download", "merge", "transcode", "finish"}
    /\ Abort(j, "e_rm", "e_pop")
    /\ UNCHANGED <<row, completed, runtime, disk, cancelled, hub, queue, reaper,
                   client, exiting, boots, release>>

\* A progress tick, or the top of the per-track loop, that finds the flag up.
SeeCancel(j) ==
    /\ pc[j] \in {"download", "merge", "transcode"}
    /\ j \in cancelled
    /\ Abort(j, "c_rm", "c_pop")
    /\ UNCHANGED <<row, completed, runtime, disk, cancelled, hub, queue, reaper,
                   client, exiting, boots, release>>

RemoveTmp(j) ==
    /\ pc[j] \in {"e_rm", "c_rm"}
    /\ disk' = [disk EXCEPT ![j] = "none"]
    /\ Goto(j, IF pc[j] = "e_rm" THEN "e_pop" ELSE "c_pop")
    /\ UNCHANGED <<row, completed, runtime, cancelled, hub, queue, reaper,
                   client, exiting, boots, release>>

\* Only the cancel branch lowers the flag; the error branch leaves it up.
DropRuntime(j) ==
    /\ pc[j] \in {"e_pop", "c_pop"}
    /\ runtime' = [runtime EXCEPT ![j] = "none"]
    /\ IF pc[j] = "e_pop"
       THEN Goto(j, "e_row") /\ UNCHANGED cancelled
       ELSE Goto(j, "c_row") /\ cancelled' = cancelled \ {j}
    /\ UNCHANGED <<row, completed, disk, hub, queue, reaper, client, exiting,
                   boots, release>>

SettleRow(j) ==
    /\ pc[j] \in {"e_row", "c_row"}
    /\ IF pc[j] = "e_row"
       THEN SetTerminal(j, "error") /\ Goto(j, "e_put")
       ELSE SetTerminal(j, "cancelled") /\ Goto(j, "c_put")
    /\ UNCHANGED <<runtime, disk, cancelled, hub, queue, reaper, client,
                   exiting, boots, release>>

\* (mutant) A failing worker closes without an event.
FailSilently(j) ==
    /\ pc[j] \in {"e_put", "c_put"}
    /\ Goto(j, "ended")
    /\ UNCHANGED <<row, completed, runtime, disk, cancelled, hub, queue, reaper,
                   client, exiting, boots, release>>

PutFailure(j) ==
    /\ pc[j] \in {"e_put", "c_put"}
    /\ Put(j, IF pc[j] = "e_put" THEN "error" ELSE "cancelled")
    /\ Goto(j, "ended")
    /\ UNCHANGED <<row, completed, runtime, disk, cancelled, queue, reaper,
                   client, exiting, boots, release>>

Handler(j) == CreateRow(j) \/ Submit(j)

Worker(j) ==
    \/ Start(j) \/ MarkStarted(j) \/ Merging(j) \/ Transcoding(j)
    \/ Downloaded(j) \/ Publish(j) \/ Finish(j) \/ Announce(j) \/ DeferHash(j)
    \/ Raise(j) \/ SeeCancel(j)
    \/ RemoveTmp(j) \/ DropRuntime(j) \/ SettleRow(j) \/ PutFailure(j)

-------------------------------------------------------------------------------
(* Requests about a job: each reads the row, then acts on what it read. *)

\* A request that reads the row and goes on to do `op`.
Enter(c, j, op) ==
    /\ client[c] = Idle
    /\ ~exiting
    /\ client' = [client EXCEPT ![c] = [op |-> op, job |-> j]]
    /\ UNCHANGED <<row, completed, runtime, disk, cancelled, hub, pc, queue,
                   reaper, exiting, boots, release>>

At(c, op) == client[c].op = op

Target(c) == client[c].job

Become(c, op) == client' = [client EXCEPT ![c].op = op]

Leave(c) == client' = [client EXCEPT ![c] = Idle]

CancelCheck(c, j) == row[j] \in Active /\ Enter(c, j, "cancel")

CancelRaise(c) ==
    /\ At(c, "cancel")
    /\ cancelled' = cancelled \cup {Target(c)}
    /\ Leave(c)
    /\ UNCHANGED <<row, completed, runtime, disk, hub, pc, queue, reaper,
                   exiting, boots, release>>

\* (mutant) Any row may be deleted.
DeleteUnchecked(c, j) == row[j] # "none" /\ Enter(c, j, "delete")

DeleteCheck(c, j) == row[j] \in Terminal /\ Enter(c, j, "delete")

DeleteRow(c) ==
    /\ At(c, "delete")
    /\ row' = [row EXCEPT ![Target(c)] = "none"]
    /\ completed' = [completed EXCEPT ![Target(c)] = "null"]
    /\ Leave(c)
    /\ UNCHANGED <<runtime, disk, cancelled, hub, pc, queue, reaper, exiting,
                   boots, release>>

\* GET /api/file asks for a row and for a path; it does not ask for "done".
Serve(c, j) ==
    row[j] # "none" /\ runtime[j] = "ready" /\ Enter(c, j, "send")

\* FileResponse opens the path when it starts sending; the background cleanup
\* runs only behind a response that could be sent.
Send(c) ==
    /\ At(c, "send")
    /\ IF disk[Target(c)] = "file" THEN Become(c, "pop") ELSE Leave(c)
    /\ UNCHANGED <<row, completed, runtime, disk, cancelled, hub, pc, queue,
                   reaper, exiting, boots, release>>

CleanupPop(c) ==
    /\ At(c, "pop")
    /\ runtime' = [runtime EXCEPT ![Target(c)] = "none"]
    /\ release' = [release EXCEPT ![Target(c)] = "served"]
    /\ Become(c, "rm")
    /\ UNCHANGED <<row, completed, disk, cancelled, hub, pc, queue, reaper,
                   exiting, boots>>

CleanupRemove(c) ==
    /\ At(c, "rm")
    /\ disk' = [disk EXCEPT ![Target(c)] = "none"]
    /\ Leave(c)
    /\ UNCHANGED <<row, completed, runtime, cancelled, hub, pc, queue, reaper,
                   exiting, boots, release>>

Request(c) ==
    \E j \in Jobs : CancelCheck(c, j) \/ DeleteCheck(c, j) \/ Serve(c, j)

Respond(c) ==
    \/ CancelRaise(c) \/ DeleteRow(c)
    \/ Send(c) \/ CleanupPop(c) \/ CleanupRemove(c)

-------------------------------------------------------------------------------
(* The reaper: a sweep over a snapshot of _jobs' keys. *)

GraceElapses(j) ==
    /\ completed[j] = "fresh"
    /\ completed' = [completed EXCEPT ![j] = "old"]
    /\ UNCHANGED <<row, runtime, disk, cancelled, hub, pc, queue, reaper, client,
                   exiting, boots, release>>

\* (mutant) No grace window.
GraceIgnored(j) == j \in Jobs

\* _iso_older_than: a missing stamp counts as old.
PastGrace(j) == completed[j] # "fresh"

Reapable(j) ==
    \/ row[j] = "none"
    \/ row[j] \in Terminal /\ PastGrace(j)

ReaperWake ==
    /\ reaper = Resting
    /\ ~exiting
    /\ reaper' = [Resting EXCEPT !.phase = "scan",
                                 !.todo = {j \in Jobs : runtime[j] # "none"}]
    /\ UNCHANGED <<row, completed, runtime, disk, cancelled, hub, pc, queue,
                   client, exiting, boots, release>>

\* `release` notes the jobs judged by a row their handler has not written yet.
ReaperJudge(j) ==
    /\ reaper.phase = "scan"
    /\ j \in reaper.todo
    /\ LET left == reaper.todo \ {j}
           doomed == runtime[j] # "none" /\ Reapable(j)
       IN  /\ reaper' = IF doomed
                        THEN [phase |-> "rm", job |-> j, todo |-> left]
                        ELSE [reaper EXCEPT !.todo = left]
           /\ release' = IF doomed /\ pc[j] = "registered"
                         THEN [release EXCEPT ![j] = "newborn"]
                         ELSE release
    /\ UNCHANGED <<row, completed, runtime, disk, cancelled, hub, pc, queue,
                   client, exiting, boots>>

\* (mutant) The reaper drops the entry and leaves the directory.
ReaperForgetsTmp ==
    /\ reaper.phase = "rm"
    /\ reaper' = [reaper EXCEPT !.phase = "pop"]
    /\ UNCHANGED <<row, completed, runtime, disk, cancelled, hub, pc, queue,
                   client, exiting, boots, release>>

ReaperRemove ==
    /\ reaper.phase = "rm"
    /\ disk' = [disk EXCEPT ![reaper.job] = "none"]
    /\ reaper' = [reaper EXCEPT !.phase = "pop"]
    /\ UNCHANGED <<row, completed, runtime, cancelled, hub, pc, queue, client,
                   exiting, boots, release>>

ReaperPop ==
    /\ reaper.phase = "pop"
    /\ runtime' = [runtime EXCEPT ![reaper.job] = "none"]
    /\ cancelled' = cancelled \ {reaper.job}
    /\ reaper' = [reaper EXCEPT !.phase = "scan", !.job = NoJob]
    /\ UNCHANGED <<row, completed, disk, hub, pc, queue, client, exiting, boots,
                   release>>

ReaperDone ==
    /\ reaper.phase = "scan"
    /\ reaper.todo = {}
    /\ reaper' = Resting
    /\ UNCHANGED <<row, completed, runtime, disk, cancelled, hub, pc, queue,
                   client, exiting, boots, release>>

Reaper ==
    \/ ReaperWake
    \/ \E j \in Jobs : ReaperJudge(j)
    \/ ReaperRemove \/ ReaperPop \/ ReaperDone

-------------------------------------------------------------------------------
(* Shutdown and restart *)

\* uvicorn lets the requests in flight finish before the interpreter exits; the
\* pool's threads then still drain the queue.
BeginExit ==
    /\ ~exiting
    /\ boots < MaxBoots
    /\ \A c \in Clients : client[c] = Idle
    /\ \A j \in Jobs : pc[j] \notin HandlerPC
    /\ exiting' = TRUE
    /\ UNCHANGED <<row, completed, runtime, disk, cancelled, hub, pc, queue,
                   reaper, client, boots, release>>

\* db.init's UPDATE, which leaves completed_at alone.
Interrupted(status) == IF status \in Active THEN "interrupted" ELSE status

\* The process is gone at any point, and back: db.init marks what was in flight,
\* the startup sweep empties the temp directory, all memory is lost.
Restart ==
    /\ boots < MaxBoots
    /\ boots' = boots + 1
    /\ row' = [j \in Jobs |-> Interrupted(row[j])]
    /\ runtime' = [j \in Jobs |-> "none"]
    /\ disk' = [j \in Jobs |-> "none"]
    /\ cancelled' = {}
    /\ hub' = [j \in Jobs |-> <<>>]
    /\ pc' = [j \in Jobs |-> IF pc[j] = "fresh" THEN "fresh" ELSE "ended"]
    /\ queue' = <<>>
    /\ reaper' = Resting
    /\ client' = [c \in Clients |-> Idle]
    /\ exiting' = FALSE
    /\ release' = [j \in Jobs |-> IF pc[j] = "fresh" THEN "no" ELSE "restart"]
    /\ UNCHANGED completed

Next ==
    \/ \E j \in Jobs : Register(j) \/ Handler(j) \/ Worker(j) \/ GraceElapses(j)
    \/ \E c \in Clients : Request(c) \/ Respond(c)
    \/ Reaper
    \/ BeginExit
    \/ Restart

Spec == Init /\ [][Next]_vars

\* Threads keep running: a started handler, a worker, a response and the reaper
\* get their turn, and downloads end (yt-dlp and ffmpeg either finish or raise).
Fairness ==
    /\ \A j \in Jobs : /\ WF_vars(Handler(j))
                       /\ WF_vars(Worker(j))
                       /\ WF_vars(GraceElapses(j))
    /\ \A c \in Clients : WF_vars(Respond(c))
    /\ WF_vars(Reaper)

\* The pool alone: the thread that has a job in hand keeps running.
PoolSpec == Spec /\ \A j \in Jobs : WF_vars(Handler(j) \/ Worker(j))

-------------------------------------------------------------------------------
(* Safety *)

\* A finished file stays fetchable for the whole grace window unless it was
\* handed out, the process restarted, or the reaper had judged the job before
\* its row existed: the entry still names the path and the file is there
\* (run -> serve_file against _reap_jobs_once).
FreshResultFetchable ==
    \A j \in FileJobs :
        row[j] = "done" /\ completed[j] = "fresh" /\ release[j] = "no"
            => runtime[j] = "ready" /\ disk[j] = "file"

\* A job the table shows as active is one a handler or a worker still has in
\* hand; otherwise it could be neither cancelled, retried nor deleted, since
\* those ask for the opposite status (cancel_job, retry_job, delete_job, init).
ActiveIsLive == \A j \in Jobs : row[j] \in Active => Live(j)

\* The statuses a row may have while its handler or worker stands at `label`;
\* "none" once the user has deleted it.  `late`: an import at shutdown.
StatusAt(label, late) ==
    CASE label \in {"fresh", "registered"} -> {"none"}
      [] label \in {"created", "waiting", "starting"} -> {"queued"}
      [] label = "download" -> {"downloading"}
      [] label = "merge" -> {"merging"}
      [] label = "transcode" -> {"transcoding"}
      [] label \in {"publish", "finish", "c_rm", "c_pop", "c_row"} ->
            Active \ {"queued"}
      [] label \in {"announce", "hash"} -> {"done", "none"}
      [] label = "e_rm" -> Active
      [] label \in {"e_pop", "e_row"} ->
            IF late THEN Active \cup {"done", "none"} ELSE Active
      [] label = "e_put" -> {"error", "none"}
      [] label = "c_put" -> {"cancelled", "none"}
      [] OTHER -> Terminal \cup {"none"}

Late(j) == exiting /\ j \in ImportJobs

\* The row and the thread that works on it agree, whatever requests, the reaper
\* and restarts do in between; and a delete that has passed its check will not
\* hit a job that is still active or has no row yet (delete_job's check and its
\* DELETE are two statements).
RowMatchesWorker ==
    /\ \A j \in Jobs : row[j] \in StatusAt(pc[j], Late(j))
    /\ \A j \in Jobs : pc[j] = "hash" => j \in ImportJobs
    /\ \A c \in Clients :
          client[c].op = "delete" =>
             /\ client[c].job \in Jobs
             /\ row[client[c].job] \in Terminal \cup {"none"}
             /\ pc[client[c].job] \notin {"fresh", "registered"}

-------------------------------------------------------------------------------
(* Action properties *)

\* A terminal status is final: the row keeps it until it is deleted, across
\* restarts too.  Imports that end while the interpreter exits are the exception.
TerminalIsFinal ==
    [][\A j \in Jobs :
         row[j] \in Terminal =>
            \/ row'[j] \in {row[j], "none"}
            \/ exiting /\ j \in ImportJobs /\ row'[j] = "error"]_vars

-------------------------------------------------------------------------------
(* Liveness *)

\* Every job that was queued leaves the active statuses: it gets a slot of the
\* pool, and its worker ends it one way or the other.
EveryJobSettles ==
    \A j \in Jobs : row[j] \in Active ~> row[j] \notin Active

\* Every tmp_dir of a process that keeps running is removed in the end - served,
\* failed, cancelled or reaped - though nobody may ever fetch the file.
TmpReclaimed ==
    \A j \in Jobs :
        disk[j] # "none" ~> disk[j] = "none" \/ release[j] = "newborn" \/ exiting

-------------------------------------------------------------------------------
(* The abstract life of a row *)

JobStatusOf(j) ==
    IF row[j] # "none" THEN row[j]
    ELSE IF pc[j] \in {"fresh", "registered"} THEN "unborn" ELSE "gone"

Table == INSTANCE JobStatus WITH Imports <- ImportJobs,
                                 status <- [j \in Jobs |-> JobStatusOf(j)]

\* The handlers, the pool, the reaper and restarts together move each row only
\* along the life JobStatus describes.
ImplementsJobStatus == Table!Spec

===============================================================================
