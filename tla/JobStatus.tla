------------------------------ MODULE JobStatus ------------------------------
(***************************************************************************)
(* What the jobs table promises about one download job: the life of its    *)
(* `status` column (backend/src/db.py), seen by everything that only reads *)
(* the table - the jobs list, retry, delete, the progress socket's         *)
(* snapshot.  DownloadJobs is shown to implement it.                       *)
(***************************************************************************)
CONSTANTS
    Jobs,
    Imports         \* the jobs that fill the library

VARIABLES
    status,
    exiting         \* the interpreter is shutting down

vars == <<status, exiting>>

Active == {"queued", "downloading", "merging", "transcoding"}

Terminal == {"done", "error", "interrupted", "cancelled"}

\* A job that has no row yet, and one whose row was deleted (or never written).
Status == Active \cup Terminal \cup {"unborn", "gone"}

TypeOK == status \in [Jobs -> Status] /\ exiting \in BOOLEAN

Init == status = [j \in Jobs |-> "unborn"] /\ exiting = FALSE

Move(j, from, to) ==
    /\ status[j] \in from
    /\ status' = [status EXCEPT ![j] = to]
    /\ UNCHANGED exiting

Create(j) == Move(j, {"unborn"}, "queued")

Begin(j) == Move(j, {"queued"}, "downloading")

Merge(j) == Move(j, {"downloading"}, "merging")

Transcode(j) == Move(j, {"downloading", "merging"}, "transcoding")

Complete(j) == Move(j, Active \ {"queued"}, "done")

Cancel(j) == Move(j, Active \ {"queued"}, "cancelled")

Fail(j) == Move(j, Active, "error")

\* A finished library import the interpreter's shutdown turns into a failure.
Recant(j) == exiting /\ j \in Imports /\ Move(j, {"done"}, "error")

Purge(j) == Move(j, Terminal, "gone")

BeginExit == ~exiting /\ exiting' = TRUE /\ UNCHANGED status

\* A restart interrupts every job in flight; some ids may never get a row.
Reboot ==
    /\ \E lost \in SUBSET {j \in Jobs : status[j] = "unborn"} :
          status' = [j \in Jobs |->
                       CASE status[j] \in Active -> "interrupted"
                         [] j \in lost           -> "gone"
                         [] OTHER                -> status[j]]
    /\ exiting' = FALSE

Next ==
    \/ \E j \in Jobs :
          \/ Create(j) \/ Begin(j) \/ Merge(j) \/ Transcode(j)
          \/ Complete(j) \/ Cancel(j) \/ Fail(j) \/ Recant(j) \/ Purge(j)
    \/ BeginExit
    \/ Reboot

Spec == Init /\ [][Next]_vars

==============================================================================
