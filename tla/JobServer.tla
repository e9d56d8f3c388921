------------------------------- MODULE JobServer -------------------------------
(***************************************************************************)
(* What the web client sees of the server's jobs (DownloadJobs and         *)
(* ProgressStream model them in detail): a job is active until it ends; a  *)
(* progress socket brings the job's status first, then its terminal event, *)
(* and is closed after it.  A socket may drop at any time.                 *)
(***************************************************************************)
EXTENDS Naturals

CONSTANT MaxJobs   \* bound of the model: jobs, numbered as they are created

ASSUME JobServerAssumption == MaxJobs \in Nat \ {0}

VARIABLES st, deleted   \* the jobs, those deleted from the history

server == <<st, deleted>>

Jobs     == 1..MaxJobs
NoJob    == 0
Terminal == {"done", "error", "cancelled", "interrupted"}
Status   == {"none", "active"} \cup Terminal
Sockets  == {"off", "wait", "open", "closed", "lost"}

ServerTypeOK ==
    /\ st \in [Jobs -> Status]
    /\ \A j \in deleted : j \in Jobs /\ st[j] \in Terminal

ServerInit == st = [j \in Jobs |-> "none"] /\ deleted = {}

Create(j) ==
    /\ st[j] = "none" /\ \A i \in 1..(j - 1) : st[i] # "none"
    /\ st' = [st EXCEPT ![j] = "active"]
    /\ UNCHANGED deleted

JobEnds(j) ==
    /\ st[j] = "active"
    /\ \E s \in {"done", "error"} : st' = [st EXCEPT ![j] = s]
    /\ UNCHANGED deleted

\* Cancelling a job that is over is refused.
Cancel(j) ==
    /\ st' = IF st[j] = "active" THEN [st EXCEPT ![j] = "cancelled"] ELSE st
    /\ UNCHANGED deleted

Delete(j) ==
    /\ st[j] \in Terminal
    /\ deleted' = deleted \cup {j}
    /\ UNCHANGED st

\* Running jobs are recorded as interrupted; every socket is gone with the server.
ServerRestart ==
    /\ st' = [j \in Jobs |-> IF st[j] = "active" THEN "interrupted" ELSE st[j]]
    /\ UNCHANGED deleted

-------------------------------------------------------------------------------
(* A progress socket *)

\* The snapshot's status; the socket of a job that is gone is refused.
Snapshot(j, told) == IF j \in deleted THEN told ELSE st[j]

\* The server closes the socket right after a terminal snapshot.
Opened(j) == IF st[j] = "active" THEN "open" ELSE "closed"

\* A terminal event has been sent.
Ends(j) == st[j] \in {"done", "error", "cancelled"}

\* A socket that drops before the server closed it.
Cut(s) == IF s \in {"wait", "open"} THEN "lost" ELSE s

===============================================================================
