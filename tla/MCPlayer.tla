------------------------------- MODULE MCPlayer -------------------------------
(* Two tracks, a queue of up to three entries. *)
EXTENDS Player

CONSTANTS a, b, none

MCTracks == {a, b}
MCPreviews == {}
MCQueues == {<<a>>, <<b>>, <<a, b>>, <<b, a>>}

===============================================================================
