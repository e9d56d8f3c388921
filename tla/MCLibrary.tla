------------------------------- MODULE MCLibrary -------------------------------
(* One track and one playlist; a single import, a playlist import, a deletion,   *)
(* a stream and a request about them at a time.                                  *)
EXTENDS Library

CONSTANTS t1, l1, u1, w1, w2, a1, s1, none

MCTracks == {t1}
MCLists == {l1}
MCUsers == {u1}
MCImporters == {w1, w2}
MCListImporters == {w2}
MCAdmins == {a1}
MCListeners == {s1}

================================================================================
