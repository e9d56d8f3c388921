------------------------------- MODULE Playlists -------------------------------
(***************************************************************************)
(* Playlists and the positions of their tracks (backend/src/db.py,           *)
(* backend/src/api/routes.py).  A route checks the playlist and its owner,   *)
(* and writes later; each write is one transaction under _write_lock.        *)
(* Imports fill a playlist of their own meanwhile.  Names, descriptions,     *)
(* covers and visibility are left out.                                       *)
(***************************************************************************)
EXTENDS Integers, FiniteSets

CONSTANTS
    Tracks,
    Lists,         \* playlist ids
    Users,
    Admins,        \* users with the role ADMIN
    Requests,      \* requests that may be under way at a time
    Importers,     \* imports that may be under way at a time
    NoUser, NoList,
    MaxPlaylists,  \* MAX_PLAYLISTS_PER_USER
    MaxKeys,       \* the longest list of keys in a body (MAX_IMPORT_TRACKS * 4)
    MaxPosition    \* bound of the model: the largest position reached

ASSUME PlaylistsAssumption ==
    /\ IsFiniteSet(Tracks)
    /\ IsFiniteSet(Lists)
    /\ IsFiniteSet(Requests)
    /\ NoUser \notin Users
    /\ NoList \notin Lists
    /\ Admins \subseteq Users
    /\ MaxPlaylists \in Nat \ {0}
    /\ MaxKeys \in Nat \ {0}
    /\ MaxPosition \in Nat

VARIABLES
    catalog,    \* the rows of `tracks`
    owner,      \* owner[l] of a row of `playlists`, NoUser without a row
    position,   \* position[l][t] of the rows of `playlist_tracks`
    request,    \* requests that have passed their checks and not written yet
    import,     \* import jobs with their mirrored playlist
    mirrored    \* history: playlists made by imports

vars == <<catalog, owner, position, request, import, mirrored>>

NoRequest == [op |-> "none", user |-> NoUser, list |-> NoList]
NoImport == [user |-> NoUser, list |-> NoList]

RequestRecord == [op : {"none", "create", "edit"}, user : Users \cup {NoUser},
                  list : Lists \cup {NoList}]
ImportRecord == [user : Users \cup {NoUser}, list : Lists \cup {NoList}]

\* No row of playlist_tracks without its playlist and its track (db.py 231-233).
TypeOK ==
    /\ catalog \subseteq Tracks
    /\ owner \in [Lists -> Users \cup {NoUser}]
    /\ position = [l \in Lists |-> position[l]]
    /\ \A l \in Lists :
           /\ position[l] \in [DOMAIN position[l] -> Nat]
           /\ DOMAIN position[l] \subseteq catalog
           /\ owner[l] = NoUser => DOMAIN position[l] = {}
    /\ request \in [Requests -> RequestRecord]
    /\ import \in [Importers -> ImportRecord]
    /\ mirrored \subseteq Lists

Empty == [t \in {} |-> 0]

Init ==
    /\ catalog = {}
    /\ owner = [l \in Lists |-> NoUser]
    /\ position = [l \in Lists |-> Empty]
    /\ request = [r \in Requests |-> NoRequest]
    /\ import = [w \in Importers |-> NoImport]
    /\ mirrored = {}

--------------------------------------------------------------------------------
(* Positions.  `p` is the column of one playlist.                             *)

\* (mutant) SELECT COUNT( * ) in place of MAX(position) + 1
NextByCount(p) == Cardinality(DOMAIN p)

\* SELECT COALESCE(MAX(position), -1) + 1
NextPosition(p) ==
    IF DOMAIN p = {} THEN 0
    ELSE 1 + (CHOOSE n \in {p[t] : t \in DOMAIN p} : \A t \in DOMAIN p : p[t] =< n)

\* Bodies with lists of keys; a key may be repeated or name no track of the list.
KeyLists == UNION {[1 .. n -> Tracks] : n \in 0 .. MaxKeys}

FirstAt(keys, t) ==
    CHOOSE i \in DOMAIN keys :
        keys[i] = t /\ \A j \in DOMAIN keys : keys[j] = t => i =< j

LastAt(keys, t) ==
    CHOOSE i \in DOMAIN keys :
        keys[i] = t /\ \A j \in DOMAIN keys : keys[j] = t => j =< i

\* add_tracks_to_playlist: keys that are in the catalog and not in the list yet
\* get the next positions.  add_track_to_playlist does the same with one key.
New(p, keys) == ({keys[i] : i \in DOMAIN keys} \cap catalog) \ DOMAIN p

Appended(p, keys) ==
    LET added == New(p, keys)
        rank(t) == Cardinality({s \in added : FirstAt(keys, s) < FirstAt(keys, t)})
    IN  [t \in DOMAIN p \cup added |->
            IF t \in added THEN NextPosition(p) + rank(t) ELSE p[t]]

Without(p, T) == [t \in DOMAIN p \ T |-> p[t]]

\* (mutant) The tail starts after the tracks asked for, repeated keys forgotten.
ReorderedShort(p, keys) ==
    LET asked == {t \in DOMAIN p : \E i \in DOMAIN keys : keys[i] = t}
        valid == {i \in DOMAIN keys : keys[i] \in DOMAIN p}
        ahead(t) == {i \in valid : i < LastAt(keys, t)}
        tailAhead(t) == {s \in DOMAIN p \ asked : p[s] < p[t]}
    IN  [t \in DOMAIN p |->
            IF t \in asked THEN Cardinality(ahead(t))
            ELSE Cardinality(asked) + Cardinality(tailAhead(t))]

\* reorder_playlist: the keys of the list in the order given, the last mention
\* of a key counts, then the other tracks in the order they had.  Parking the
\* rows at negative positions first leaves no trace.
Reordered(p, keys) ==
    LET asked == {t \in DOMAIN p : \E i \in DOMAIN keys : keys[i] = t}
        valid == {i \in DOMAIN keys : keys[i] \in DOMAIN p}
        ahead(t) == {i \in valid : i < LastAt(keys, t)}
        tailAhead(t) == {s \in DOMAIN p \ asked : p[s] < p[t]}
    IN  [t \in DOMAIN p |->
            IF t \in asked THEN Cardinality(ahead(t))
            ELSE Cardinality(valid) + Cardinality(tailAhead(t))]

--------------------------------------------------------------------------------
(* Requests.                                                                  *)

\* A playlist id nobody has or holds (uuid4).
Fresh(l) ==
    /\ owner[l] = NoUser
    /\ \A r \in Requests : request[r].list # l
    /\ \A w \in Importers : import[w].list # l

Owned(u) == {l \in Lists : owner[l] = u}

\* (mutant) Off by one.
CountInclusive(r) ==
    /\ request[r].op = "none"
    /\ \E u \in Users :
           /\ Cardinality(Owned(u)) =< MaxPlaylists
           /\ request' = [request EXCEPT ![r] = [NoRequest EXCEPT !.op = "create",
                                                                  !.user = u]]
    /\ UNCHANGED <<catalog, owner, position, import, mirrored>>

\* create_playlist: count_playlists(user) >= MAX_PLAYLISTS_PER_USER is a 409.
CountPlaylists(r) ==
    /\ request[r].op = "none"
    /\ \E u \in Users :
           /\ Cardinality(Owned(u)) < MaxPlaylists
           /\ request' = [request EXCEPT ![r] = [NoRequest EXCEPT !.op = "create",
                                                                  !.user = u]]
    /\ UNCHANGED <<catalog, owner, position, import, mirrored>>

\* db.create_playlist, for a request or an import
Create(l, u) == Fresh(l) /\ owner' = [owner EXCEPT ![l] = u]

CreatePlaylist(r) ==
    /\ request[r].op = "create"
    /\ \E l \in Lists : Create(l, request[r].user) /\ mirrored' = mirrored \ {l}
    /\ request' = [request EXCEPT ![r] = NoRequest]
    /\ UNCHANGED <<catalog, position, import>>

\* get_playlist and _ensure_playlist_owner of the editing routes
CheckOwner(r) ==
    /\ request[r].op = "none"
    /\ \E u \in Users, l \in Lists :
           /\ owner[l] # NoUser
           /\ u \in {owner[l]} \cup Admins
           /\ request' = [request EXCEPT ![r] = [op |-> "edit", user |-> u, list |-> l]]
    /\ UNCHANGED <<catalog, owner, position, import, mirrored>>

\* The list of r gets the column p; without its row nothing is written, and an
\* insert raises.
Write(r, p) ==
    /\ request[r].op = "edit"
    /\ request' = [request EXCEPT ![r] = NoRequest]
    /\ position' = IF owner[request[r].list] = NoUser THEN position
                   ELSE [position EXCEPT ![request[r].list] = p]
    /\ UNCHANGED <<catalog, owner, import, mirrored>>

AddTracks(r) ==
    \E keys \in KeyLists :
        LET p == position[request[r].list] IN
        /\ request[r].op = "edit"
        /\ NextPosition(p) + Cardinality(New(p, keys)) =< MaxPosition + 1
        /\ Write(r, Appended(p, keys))

RemoveTrack(r) ==
    \E t \in Tracks :
        /\ request[r].op = "edit"
        /\ Write(r, Without(position[request[r].list], {t}))

ReorderPlaylist(r) ==
    \E keys \in KeyLists :
        /\ request[r].op = "edit"
        /\ Write(r, Reordered(position[request[r].list], keys))

\* db.delete_playlist, with the cascade
DeletePlaylist(r) ==
    /\ request[r].op = "edit"
    /\ owner' = [owner EXCEPT ![request[r].list] = NoUser]
    /\ position' = [position EXCEPT ![request[r].list] = Empty]
    /\ request' = [request EXCEPT ![r] = NoRequest]
    /\ UNCHANGED <<catalog, import, mirrored>>

Edit(r) ==
    AddTracks(r) \/ RemoveTrack(r) \/ ReorderPlaylist(r) \/ DeletePlaylist(r)

--------------------------------------------------------------------------------
(* Imports and the catalog.                                                   *)

\* ensure_mirrored_playlist: no cap here
MirrorPlaylist(w) ==
    /\ import[w] = NoImport
    /\ \E u \in Users, l \in Lists :
           /\ Create(l, u)
           /\ mirrored' = mirrored \cup {l}
           /\ import' = [import EXCEPT ![w] = [user |-> u, list |-> l]]
    /\ UNCHANGED <<catalog, position, request>>

\* db.add_track_to_playlist of the next track
ImportTrack(w) ==
    LET l == import[w].list IN
    /\ l # NoList
    /\ owner[l] # NoUser
    /\ NextPosition(position[l]) =< MaxPosition
    /\ \E t \in catalog :
           position' = [position EXCEPT ![l] = Appended(@, [i \in 1 .. 1 |-> t])]
    /\ UNCHANGED <<catalog, owner, request, import, mirrored>>

EndImport(w) ==
    /\ import[w] # NoImport
    /\ import' = [import EXCEPT ![w] = NoImport]
    /\ UNCHANGED <<catalog, owner, position, request, mirrored>>

RegisterTrack ==
    /\ \E t \in Tracks \ catalog : catalog' = catalog \cup {t}
    /\ UNCHANGED <<owner, position, request, import, mirrored>>

\* db.delete_track_master, with the cascade
DeleteTrack(t) ==
    /\ t \in catalog
    /\ catalog' = catalog \ {t}
    /\ position' = [l \in Lists |-> Without(position[l], {t})]
    /\ UNCHANGED <<owner, request, import, mirrored>>

\* The process dies and starts again.
Restart ==
    /\ request' = [r \in Requests |-> NoRequest]
    /\ import' = [w \in Importers |-> NoImport]
    /\ UNCHANGED <<catalog, owner, position, mirrored>>

Next ==
    \/ \E r \in Requests :
           CountPlaylists(r) \/ CreatePlaylist(r) \/ CheckOwner(r) \/ Edit(r)
    \/ \E w \in Importers : MirrorPlaylist(w) \/ ImportTrack(w) \/ EndImport(w)
    \/ RegisterTrack
    \/ \E t \in Tracks : DeleteTrack(t)
    \/ Restart

Spec == Init /\ [][Next]_vars

--------------------------------------------------------------------------------

\* No two tracks of a playlist share a position, although positions are sparse
\* and nothing in the schema says so (db.py 221: "The (playlist_id, position)
\* unique index is enforced at the application level on insert").
UniquePositions ==
    \A l \in Lists : \A s, t \in DOMAIN position[l] :
        position[l][s] = position[l][t] => s = t

\* The cap on playlists is overshot by requests that count at the same time and
\* by no more than their number (count_playlists: "the create route caps it").
Creating(u) == {r \in Requests : request[r].op = "create" /\ request[r].user = u}

CapOvershoot ==
    \A u \in Users :
        Cardinality(Owned(u) \ mirrored) + Cardinality(Creating(u))
            < MaxPlaylists + Cardinality(Requests)

\* A playlist changes by a request of its owner or of an administrator, by the
\* import that made it, or because a track left the catalog (schema: "only the
\* owner can mutate").
OwnersOnly ==
    [][\A l \in Lists :
          position'[l] # position[l] =>
              \/ catalog' # catalog
              \/ \E r \in Requests : /\ request'[r] # request[r]
                                     /\ request[r].list = l
                                     /\ request[r].user \in {owner[l]} \cup Admins
              \/ \E w \in Importers : import[w] = [user |-> owner[l], list |-> l]]_vars

\* Positions in detail, lists without duplicates in general.
Members == [l \in Lists |-> DOMAIN position[l]]

Before ==
    [l \in Lists |->
        {e \in (DOMAIN position[l]) \X (DOMAIN position[l]) :
            position[l][e[1]] < position[l][e[2]]}]

Ordered == INSTANCE OrderedLists WITH members <- Members, before <- Before

\* Whatever is appended, removed, reordered from a stale view or deleted in
\* between, each playlist behaves as OrderedLists describes.
ImplementsOrderedLists == Ordered!Spec

================================================================================
