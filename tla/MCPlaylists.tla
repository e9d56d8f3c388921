------------------------------ MODULE MCPlaylists ------------------------------
(* Two users, one of them an administrator; two requests and an import meet.     *)
EXTENDS Playlists, TLC

CONSTANTS t1, t2, t3, l1, l2, u1, u2, r1, r2, w1, none

MCTracks == {t1, t2, t3}
MCLists == {l1, l2}
MCUsers == {u1, u2}
MCAdmins == {u2}
MCRequests == {r1, r2}
MCImporters == {w1}

Symmetry == Permutations(MCTracks) \cup Permutations(MCLists) \cup Permutations(MCRequests)

================================================================================
