-------------------------------- MODULE MCAccess -------------------------------
(* One session, three parallel requests: one refreshes, one waits, one is late.   *)
(* Two keys of the limiter, two threads that may overtake each other by one       *)
(* instant.                                                                       *)
EXTENDS Access, TLC

CONSTANTS s1, t1, t2, t3, l1, l2, l3, none, k1, k2, c1, c2

MCSids == {s1}

MCThreads == {t1, t2, t3}

MCLocks == {l1, l2, l3}

MCKeys == {k1, k2}

MCCallers == {c1, c2}

MCSymmetry == Permutations(MCThreads) \cup Permutations(MCLocks)

================================================================================
