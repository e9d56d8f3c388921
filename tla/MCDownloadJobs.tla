---------------------------- MODULE MCDownloadJobs ----------------------------
(* One job of each kind contending for one slot of the pool. *)
EXTENDS DownloadJobs

CONSTANTS f1, i1, c1, none

MCJobs == {f1, i1}
MCImportJobs == {i1}
MCClients == {c1}

===============================================================================
