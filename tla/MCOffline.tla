------------------------------- MODULE MCOffline -------------------------------
(* Two collections of the same tracks: two copies of one video and a preview. *)
EXTENDS Offline

CONSTANTS a, b, p, v, w, c1, c2

MCKeys == {a, b, p}
MCVideoOf == [k \in MCKeys |-> IF k = p THEN w ELSE v]
MCLists == {<<a, p, b>>}

===============================================================================
