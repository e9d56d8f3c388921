--------------------------- MODULE MCProgressStream ---------------------------
(* One file job, two requests about it at a time, one viewer of its progress. *)
EXTENDS ProgressStream

CONSTANTS f1, c1, c2, v1, none

MCJobs == {f1}
MCNoJobs == {}
MCClients == {c1, c2}
MCViewers == {v1}

===============================================================================
