------------------------------ MODULE OrderedLists ------------------------------
(***************************************************************************)
(* What the playlists of the backend promise (schema of playlists and        *)
(* playlist_tracks, backend/src/db.py): each is a list of tracks without     *)
(* duplicates.  New tracks go to its end, what leaves it does not disturb    *)
(* the others, and a reorder neither adds nor loses a track.  The order is   *)
(* kept as the relation "stands before".                                     *)
(***************************************************************************)
CONSTANTS Tracks, Lists

VARIABLES
    members,   \* the tracks of each list
    before     \* the pairs <<s, t>> such that s stands before t

listVars == <<members, before>>

\* R puts the elements of S in a line.
LinesUp(R, S) ==
    /\ R \subseteq S \X S
    /\ \A s \in S : <<s, s>> \notin R
    /\ \A s, t \in S : s # t => <<s, t>> \in R \/ <<t, s>> \in R
    /\ \A s, t, u \in S : <<s, t>> \in R /\ <<t, u>> \in R => <<s, u>> \in R

Within(R, S) == {e \in R : e[1] \in S /\ e[2] \in S}

Init ==
    /\ members = [l \in Lists |-> {}]
    /\ before = [l \in Lists |-> {}]

\* The tracks T join the end of l.
Append(l, T) ==
    /\ T \cap members[l] = {}
    /\ members' = [members EXCEPT ![l] = @ \cup T]
    /\ \E R \in SUBSET (T \X T) :
           /\ LinesUp(R, T)
           /\ before' = [before EXCEPT ![l] = @ \cup (members[l] \X T) \cup R]

\* The tracks T leave l.
Withdraw(l, T) ==
    /\ members' = [members EXCEPT ![l] = @ \ T]
    /\ before' = [before EXCEPT ![l] = Within(@, members[l] \ T)]

\* The same tracks in another order.
Rearrange(l) ==
    /\ UNCHANGED members
    /\ \E R \in SUBSET (members[l] \X members[l]) :
           /\ LinesUp(R, members[l])
           /\ before' = [before EXCEPT ![l] = R]

\* A track leaves the catalog and with it every list.
Forget(t) ==
    /\ members' = [l \in Lists |-> members[l] \ {t}]
    /\ before' = [l \in Lists |-> Within(before[l], members[l] \ {t})]

Next ==
    \/ \E l \in Lists :
           \/ \E T \in SUBSET Tracks : Append(l, T) \/ Withdraw(l, T)
           \/ Rearrange(l)
    \/ \E t \in Tracks : Forget(t)

Spec == Init /\ [][Next]_listVars

================================================================================
