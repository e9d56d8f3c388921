-------------------------------- MODULE Library --------------------------------
(***************************************************************************)
(* The shared music library (backend/src/db.py, api/routes.py,              *)
(* api/admin_routes.py).  Rows of tracks, track_owners, playlists and       *)
(* playlist_tracks change in transactions; the audio files under            *)
(* LIBRARY_DIR change outside of them.  Import workers, requests, streams   *)
(* and an administrator's deletions meet between any two statements.        *)
(***************************************************************************)
EXTENDS FiniteSets

CONSTANTS
    Tracks,     \* (video_id, codec, bitrate); the path of a file follows from it
    Lists,      \* playlist ids
    Users,
    Importers,  \* worker threads that run import jobs
    ListImporters,   \* ... of them, those that run imports of playlists
    Admins,     \* deletion requests of administrators in progress
    Listeners,  \* stream requests in progress
    NoTrack, NoList, NoUser

ASSUME LibraryAssumption ==
    /\ NoTrack \notin Tracks
    /\ NoList \notin Lists
    /\ NoUser \notin Users
    /\ ListImporters \subseteq Importers

VARIABLES
    tracks,     \* the rows of `tracks`
    owners,     \* the rows of `track_owners`
    playlists,  \* the rows of `playlists`
    entries,    \* the rows of `playlist_tracks`, without their positions
    files,      \* tracks whose file is on disk
    import, request, stream, deletion,   \* threads
    stolen,     \* history: files deleted under an import that had put them back
    leaked      \* history: files left without a row by a crash, an OSError
                \* or a row the database refused

rows == <<tracks, owners, playlists, entries>>
vars == <<tracks, owners, playlists, entries, files, import, request, stream,
          deletion, stolen, leaked>>

IdleImport == [pc |-> "idle", kind |-> "own", user |-> NoUser, track |-> NoTrack,
               list |-> NoList, reuse |-> FALSE, hit |-> FALSE]
IdleRequest == [pc |-> "idle", list |-> NoList, track |-> NoTrack]
IdleStream == [pc |-> "idle", track |-> NoTrack, hit |-> FALSE]
IdleDeletion == [pc |-> "idle", track |-> NoTrack, force |-> FALSE,
                 used |-> FALSE, joined |-> FALSE]

\* One import job: a single track for its user ("own") or for the catalog only,
\* or a list of tracks mirrored into a playlist.  `hit` is history: since this
\* track's turn began, a deletion or its own user has undone what it does.
ImportRecord ==
    [pc : {"idle", "read", "stat", "fetch", "size", "register", "link", "list",
           "delivered"},
     kind : {"own", "catalog", "list"}, user : Users \cup {NoUser},
     track : Tracks \cup {NoTrack}, list : Lists \cup {NoList},
     reuse : BOOLEAN, hit : BOOLEAN]

RequestRecord == [pc : {"idle", "adopt", "add", "bulk"},
                  list : Lists \cup {NoList}, track : Tracks \cup {NoTrack}]

StreamRecord == [pc : {"idle", "stat", "open"},
                 track : Tracks \cup {NoTrack}, hit : BOOLEAN]

\* `joined` is history: since the first count somebody began to use the track.
DeletionRecord == [pc : {"idle", "refs", "row", "file"},
                   track : Tracks \cup {NoTrack}, force : BOOLEAN,
                   used : BOOLEAN, joined : BOOLEAN]

\* Every reference resolves (db.py 162-163, 233-235, PRAGMA foreign_keys): rows of
\* track_owners and playlist_tracks name a track and a playlist that exist.
TypeOK ==
    /\ tracks \subseteq Tracks
    /\ owners \subseteq Users \X tracks
    /\ playlists \subseteq Lists
    /\ entries \subseteq playlists \X tracks
    /\ files \subseteq Tracks
    /\ import \in [Importers -> ImportRecord]
    /\ request \in [Users -> RequestRecord]
    /\ stream \in [Listeners -> StreamRecord]
    /\ deletion \in [Admins -> DeletionRecord]
    /\ stolen \subseteq Tracks
    /\ leaked \subseteq Tracks

Init ==
    /\ tracks = {} /\ owners = {} /\ playlists = {} /\ entries = {}
    /\ files = {}
    /\ import = [w \in Importers |-> IdleImport]
    /\ request = [u \in Users |-> IdleRequest]
    /\ stream = [s \in Listeners |-> IdleStream]
    /\ deletion = [a \in Admins |-> IdleDeletion]
    /\ stolen = {}
    /\ leaked = {}

--------------------------------------------------------------------------------
(* History: what threads under way need to know about a step.                *)

\* Somebody used one of the tracks in T.
Join(T) ==
    deletion' = [a \in Admins |->
                    [deletion[a] EXCEPT !.joined = @ \/ deletion[a].track \in T]]

HitImports(W) ==
    import' = [w \in Importers |-> [import[w] EXCEPT !.hit = @ \/ w \in W]]

\* The imports that are at track t.
At(t) == {w \in Importers : import[w].track = t}

HitStreams(t) ==
    stream' = [s \in Listeners |->
                  [stream[s] EXCEPT !.hit = @ \/ stream[s].track = t]]

--------------------------------------------------------------------------------
(* Import jobs (run_audio_import; the loops of start_playlist_download and   *)
(* the tracklist import).                                                     *)

\* A playlist id nobody has or holds (uuid4).
Fresh(l) ==
    /\ l \notin playlists
    /\ \A w \in Importers : import[w].list # l
    /\ \A u \in Users : request[u].list # l

\* Where a job goes after a track: a list goes on or ends, a single import ends.
Continue(w) ==
    {IdleImport} \cup
    {[import[w] EXCEPT !.pc = "read", !.track = t, !.reuse = FALSE, !.hit = FALSE] :
        t \in {x \in Tracks : import[w].kind = "list"}}

\* body.own of a single import
Kinds(w) == IF w \in ListImporters THEN {"list"} ELSE {"own", "catalog"}

BeginImport(w) ==
    /\ import[w].pc = "idle"
    /\ \E u \in Users, t \in Tracks, kind \in Kinds(w) :
           import' = [import EXCEPT ![w] = [IdleImport EXCEPT !.pc = "read",
                          !.user = u, !.track = t, !.kind = kind]]
    /\ UNCHANGED <<rows, files, request, stream, deletion, stolen, leaked>>

\* existing = db.get_track(...)
ReadTrack(w) ==
    /\ import[w].pc = "read"
    /\ import' = [import EXCEPT ![w].pc =
                      IF import[w].track \in tracks THEN "stat" ELSE "fetch"]
    /\ UNCHANGED <<rows, files, request, stream, deletion, stolen, leaked>>

\* ... and os.path.isfile(existing['file_path'])
StatFile(w) ==
    /\ import[w].pc = "stat"
    /\ import' = IF import[w].track \in files
                 THEN [import EXCEPT ![w].pc = "link", ![w].reuse = TRUE]
                 ELSE [import EXCEPT ![w].pc = "fetch"]
    /\ UNCHANGED <<rows, files, request, stream, deletion, stolen, leaked>>

\* (mutant) Unlinks a file that is in the way before it moves the new one.
FetchUnlinks(w) ==
    /\ import[w].pc = "fetch"
    /\ IF import[w].track \in files
       THEN /\ files' = files \ {import[w].track}
            /\ UNCHANGED <<import, stolen>>
       ELSE /\ files' = files \cup {import[w].track}
            /\ stolen' = stolen \ {import[w].track}
            /\ import' = [import EXCEPT ![w].pc = "size"]
    /\ UNCHANGED <<rows, request, stream, deletion, leaked>>

\* download_track_audio: the file is moved into place in one step, or the
\* download fails or is cancelled.
Fetch(w) ==
    /\ import[w].pc = "fetch"
    /\ \/ /\ files' = files \cup {import[w].track}
          /\ stolen' = stolen \ {import[w].track}
          /\ import' = [import EXCEPT ![w].pc = "size"]
       \/ /\ \E r \in Continue(w) : import' = [import EXCEPT ![w] = r]
          /\ UNCHANGED <<files, stolen>>
    /\ UNCHANGED <<rows, request, stream, deletion, leaked>>

\* An exception on the reuse path or in a single import ends the job; on the
\* download path a list skips the track.
GiveUp(w) ==
    \E r \in IF import[w].reuse THEN {IdleImport} ELSE Continue(w) :
        import' = [import EXCEPT ![w] = r]

\* (mutant) Registers what the download reported without looking at the file.
SizeUnchecked(w) ==
    /\ import[w].pc = "size"
    /\ import' = [import EXCEPT ![w].pc = "register"]
    /\ UNCHANGED <<rows, files, request, stream, deletion, stolen, leaked>>

\* os.path.getsize(dest_path)
Size(w) ==
    /\ import[w].pc = "size"
    /\ IF import[w].track \in files
       THEN import' = [import EXCEPT ![w].pc = "register"]
       ELSE GiveUp(w)
    /\ UNCHANGED <<rows, files, request, stream, deletion, stolen, leaked>>

\* db.register_track: an upsert
Register(w) ==
    /\ import[w].pc = "register"
    /\ tracks' = tracks \cup {import[w].track}
    /\ leaked' = leaked \ {import[w].track}
    /\ import' = [import EXCEPT ![w].pc = "link"]
    /\ UNCHANGED <<owners, playlists, entries, files, request, stream, deletion,
                   stolen>>

\* db.link_owner.  Without the row the foreign key raises.
Link(w) ==
    LET i == import[w] IN
    /\ i.pc = "link"
    /\ \/ /\ i.kind = "catalog"
          /\ import' = [import EXCEPT ![w].pc = "delivered", ![w].reuse = FALSE]
          /\ UNCHANGED <<owners, deletion>>
       \/ /\ i.kind # "catalog"
          /\ i.track \in tracks
          /\ owners' = owners \cup {<<i.user, i.track>>}
          /\ import' = [import EXCEPT ![w].pc =
                            IF i.kind = "list" THEN "list" ELSE "delivered"]
          /\ Join({i.track})
       \/ /\ i.kind # "catalog"
          /\ i.track \notin tracks
          /\ GiveUp(w)
          /\ UNCHANGED <<owners, deletion>>
    /\ UNCHANGED <<tracks, playlists, entries, files, request, stream, stolen,
                   leaked>>

\* ensure_mirrored_playlist, once per job
MakeList(w) ==
    /\ import[w].pc = "list"
    /\ import[w].list = NoList
    /\ \E l \in Lists :
           /\ Fresh(l)
           /\ playlists' = playlists \cup {l}
           /\ import' = [import EXCEPT ![w].list = l]
    /\ UNCHANGED <<tracks, owners, entries, files, request, stream, deletion,
                   stolen, leaked>>

\* db.add_track_to_playlist.  The track or the playlist may be gone by now.
AddEntry(w) ==
    LET i == import[w] IN
    /\ i.pc = "list"
    /\ i.list # NoList
    /\ \/ /\ i.list \in playlists
          /\ i.track \in tracks
          /\ entries' = entries \cup {<<i.list, i.track>>}
          /\ import' = [import EXCEPT ![w].pc = "delivered", ![w].reuse = FALSE]
          /\ Join({i.track})
       \/ /\ i.list \notin playlists \/ i.track \notin tracks
          /\ GiveUp(w)
          /\ UNCHANGED <<entries, deletion>>
    /\ UNCHANGED <<tracks, owners, playlists, files, request, stream, stolen,
                   leaked>>

\* "imported" or "reused" is counted and reported.
Deliver(w) ==
    /\ import[w].pc = "delivered"
    /\ \E r \in Continue(w) : import' = [import EXCEPT ![w] = r]
    /\ UNCHANGED <<rows, files, request, stream, deletion, stolen, leaked>>

\* The database raises (locked, disk full).  A track whose row is not written
\* leaves the file it has moved into place.
DbRaises(w) ==
    LET i == import[w] IN
    /\ i.pc \in {"read", "register", "list"} \/ (i.pc = "link" /\ i.kind # "catalog")
    /\ IF i.pc = "read" THEN import' = [import EXCEPT ![w] = IdleImport] ELSE GiveUp(w)
    /\ leaked' = IF i.pc = "register" THEN leaked \cup ({i.track} \cap (files \ tracks))
                                      ELSE leaked
    /\ UNCHANGED <<rows, files, request, stream, deletion, stolen>>

Import(w) ==
    \/ ReadTrack(w) \/ StatFile(w) \/ Fetch(w) \/ Size(w) \/ Register(w)
    \/ Link(w) \/ MakeList(w) \/ AddEntry(w) \/ Deliver(w)
    \/ DbRaises(w)

--------------------------------------------------------------------------------
(* Users' requests.  The routes check first and write in a transaction later; *)
(* the write raises when its track or playlist has gone in between.           *)

\* catalog_adopt, add_track, add_tracks: the checks
AskAdopt(u) ==
    /\ request[u].pc = "idle"
    /\ \E t \in tracks :
           request' = [request EXCEPT ![u] = [IdleRequest EXCEPT !.pc = "adopt",
                                                                 !.track = t]]
    /\ UNCHANGED <<rows, files, import, stream, deletion, stolen, leaked>>

AskAdd(u) ==
    /\ request[u].pc = "idle"
    /\ \E l \in playlists, t \in tracks :
           request' = [request EXCEPT ![u] = [pc |-> "add", list |-> l, track |-> t]]
    /\ UNCHANGED <<rows, files, import, stream, deletion, stolen, leaked>>

AskBulk(u) ==
    /\ request[u].pc = "idle"
    /\ \E l \in playlists :
           request' = [request EXCEPT ![u] = [IdleRequest EXCEPT !.pc = "bulk",
                                                                 !.list = l]]
    /\ UNCHANGED <<rows, files, import, stream, deletion, stolen, leaked>>

\* db.link_owner
Adopt(u) ==
    LET t == request[u].track IN
    /\ request[u].pc = "adopt"
    /\ request' = [request EXCEPT ![u] = IdleRequest]
    /\ IF t \in tracks THEN /\ owners' = owners \cup {<<u, t>>}
                            /\ Join({t})
                       ELSE UNCHANGED <<owners, deletion>>
    /\ UNCHANGED <<tracks, playlists, entries, files, import, stream, stolen,
                   leaked>>

\* db.add_track_to_playlist and db.add_tracks_to_playlist, which skips tracks
\* that are not in the catalog
AddTracks(u) ==
    LET r == request[u] IN
    /\ r.pc \in {"add", "bulk"}
    /\ request' = [request EXCEPT ![u] = IdleRequest]
    /\ \E T \in IF r.pc = "add" THEN {{r.track} \cap tracks} ELSE SUBSET tracks :
           IF r.list \in playlists
           THEN /\ entries' = entries \cup ({r.list} \X T)
                /\ Join(T)
           ELSE UNCHANGED <<entries, deletion>>
    /\ UNCHANGED <<tracks, owners, playlists, files, import, stream, stolen, leaked>>

\* remove_track, catalog_unown: db.unlink_owner keeps the row and the file
Unown(u) ==
    /\ \E t \in Tracks :
           /\ <<u, t>> \in owners
           /\ owners' = owners \ {<<u, t>>}
           /\ HitImports({w \in At(t) : import[w].user = u})
    /\ UNCHANGED <<tracks, playlists, entries, files, request, stream, deletion,
                   stolen, leaked>>

\* create_playlist
CreateList ==
    /\ \E l \in Lists : Fresh(l) /\ playlists' = playlists \cup {l}
    /\ UNCHANGED <<tracks, owners, entries, files, import, request, stream, deletion,
                   stolen, leaked>>

\* remove_track_from_playlist
RemoveEntry ==
    /\ \E e \in entries :
           /\ entries' = entries \ {e}
           /\ HitImports({w \in At(e[2]) : import[w].list = e[1]})
    /\ UNCHANGED <<tracks, owners, playlists, files, request, stream, deletion,
                   stolen, leaked>>

\* delete_playlist, with the cascade
DeleteList ==
    /\ \E l \in playlists :
           /\ playlists' = playlists \ {l}
           /\ entries' = {e \in entries : e[1] # l}
           /\ HitImports({w \in Importers : import[w].list = l})
    /\ UNCHANGED <<tracks, owners, files, request, stream, deletion, stolen, leaked>>

Request(u) ==
    AskAdopt(u) \/ AskAdd(u) \/ AskBulk(u) \/ Adopt(u) \/ AddTracks(u) \/ Unown(u)

--------------------------------------------------------------------------------
(* stream_track: the row, the file, and the file again when the response is   *)
(* sent.  A stream that finds no file ends in a 410 or a broken response.      *)

BeginStream(s) ==
    /\ stream[s].pc = "idle"
    /\ \E t \in tracks :
           stream' = [stream EXCEPT ![s] = [pc |-> "stat", track |-> t, hit |-> FALSE]]
    /\ UNCHANGED <<rows, files, import, request, deletion, stolen, leaked>>

Stream(s) ==
    /\ stream[s].pc \in {"stat", "open"}
    /\ stream' = [stream EXCEPT ![s] =
                     IF stream[s].pc = "stat" /\ stream[s].track \in files
                     THEN [@ EXCEPT !.pc = "open"] ELSE IdleStream]
    /\ UNCHANGED <<rows, files, import, request, deletion, stolen, leaked>>

--------------------------------------------------------------------------------
(* delete_track of an administrator.                                          *)

CountOwners(a) ==
    /\ deletion[a].pc = "idle"
    /\ \E t \in Tracks, force \in BOOLEAN :
           deletion' = [deletion EXCEPT ![a] =
               [pc |-> "refs", track |-> t, force |-> force,
                used |-> \E o \in owners : o[2] = t, joined |-> FALSE]]
    /\ UNCHANGED <<rows, files, import, request, stream, stolen, leaked>>

\* (mutant) Counts the owners only.
CountOwnersOnly(a) ==
    LET d == deletion[a]
    IN  /\ d.pc = "refs"
        /\ deletion' = [deletion EXCEPT ![a] =
               IF d.used /\ ~d.force THEN IdleDeletion
               ELSE [d EXCEPT !.pc = "row", !.used = FALSE]]
        /\ UNCHANGED <<rows, files, import, request, stream, stolen, leaked>>

\* count_playlist_refs, and 409 for a track in use
CountRefs(a) ==
    LET d == deletion[a]
        used == d.used \/ \E e \in entries : e[2] = d.track
    IN  /\ d.pc = "refs"
        /\ deletion' = [deletion EXCEPT ![a] =
               IF used /\ ~d.force THEN IdleDeletion
               ELSE [d EXCEPT !.pc = "row", !.used = FALSE]]
        /\ UNCHANGED <<rows, files, import, request, stream, stolen, leaked>>

\* db.delete_track_master, with the cascades; 404 without a row
DeleteRow(a) ==
    LET t == deletion[a].track IN
    /\ deletion[a].pc = "row"
    /\ \/ /\ t \in tracks
          /\ tracks' = tracks \ {t}
          /\ owners' = {o \in owners : o[2] # t}
          /\ entries' = {e \in entries : e[2] # t}
          /\ deletion' = [deletion EXCEPT ![a] = [IdleDeletion EXCEPT !.pc = "file",
                                                                  !.track = t]]
          /\ HitImports(At(t))
          /\ HitStreams(t)
       \/ /\ t \notin tracks
          /\ deletion' = [deletion EXCEPT ![a] = IdleDeletion]
          /\ UNCHANGED <<tracks, owners, entries, import, stream>>
    /\ UNCHANGED <<playlists, files, request, stolen, leaked>>

\* The path of t has been registered again, or is about to be.
Reclaimed(t) ==
    \/ t \in tracks
    \/ \E w \in Importers : import[w].pc = "register" /\ import[w].track = t

\* (mutant) Deletes the row and forgets the file.
RemoveForgets(a) ==
    /\ deletion[a].pc = "file"
    /\ deletion' = [deletion EXCEPT ![a] = IdleDeletion]
    /\ UNCHANGED <<rows, files, import, request, stream, stolen, leaked>>

\* os.remove(path): removed, already gone, or left alone by an OSError
RemoveFile(a) ==
    LET t == deletion[a].track IN
    /\ deletion[a].pc = "file"
    /\ deletion' = [deletion EXCEPT ![a] = IdleDeletion]
    /\ \/ /\ t \in files
          /\ files' = files \ {t}
          /\ stolen' = IF Reclaimed(t) THEN stolen \cup {t} ELSE stolen
          /\ leaked' = leaked \ {t}
          /\ HitImports(At(t))
          /\ HitStreams(t)
       \/ /\ t \in files
          /\ leaked' = leaked \cup {t}
          /\ UNCHANGED <<files, import, stream, stolen>>
       \/ /\ t \notin files
          /\ UNCHANGED <<files, import, stream, stolen, leaked>>
    /\ UNCHANGED <<rows, request>>

Delete(a) == CountOwners(a) \/ CountRefs(a) \/ DeleteRow(a) \/ RemoveFile(a)

--------------------------------------------------------------------------------
\* The process dies and starts again; rows and files stay.
Restart ==
    /\ import' = [w \in Importers |-> IdleImport]
    /\ request' = [u \in Users |-> IdleRequest]
    /\ stream' = [s \in Listeners |-> IdleStream]
    /\ deletion' = [a \in Admins |-> IdleDeletion]
    /\ leaked' = leaked \cup (files \ tracks)
    /\ UNCHANGED <<rows, files, stolen>>

Next ==
    \/ \E w \in Importers : BeginImport(w) \/ Import(w)
    \/ \E u \in Users : Request(u)
    \/ CreateList \/ RemoveEntry \/ DeleteList
    \/ \E s \in Listeners : BeginStream(s) \/ Stream(s)
    \/ \E a \in Admins : Delete(a)
    \/ Restart

Spec == Init /\ [][Next]_vars

--------------------------------------------------------------------------------

\* A track of the catalog has its file, unless a deletion took the file of an
\* import that registered the path again (register_track after os.replace;
\* delete_track removes the row before the file).
RowHasFile == tracks \ files \subseteq stolen

\* A file on disk belongs to a row, or an import is about to register it, or a
\* deletion is about to remove it, or a crash, a failed write of its row or a
\* stubborn file left it behind (delete_track: "which would orphan the file with no row to reclaim it").
FileHasRow ==
    \A t \in files \ (tracks \cup leaked) :
        \/ \E w \in Importers : /\ import[w].track = t
                                /\ import[w].pc \in {"size", "register"}
        \/ \E a \in Admins : deletion[a].track = t /\ deletion[a].pc = "file"

\* What an import reports as imported or reused can be played, is in its user's
\* library and in the mirrored playlist, unless that was undone since it looked.
Delivered ==
    \A w \in Importers :
        LET i == import[w] IN
        i.pc = "delivered" /\ ~i.hit =>
            /\ i.track \in tracks \cap files
            /\ i.kind # "catalog" => <<i.user, i.track>> \in owners
            /\ i.kind = "list" => <<i.list, i.track>> \in entries

\* A deletion that is not forced only hits uses that began after it had counted
\* the owners (delete_track: "Refuses (409) while the track is still in use").
SparesUse ==
    [][\A a \in Admins :
          LET d == deletion[a] IN
          DeleteRow(a) /\ ~d.force /\ ~d.joined =>
              /\ \A o \in owners : o[2] # d.track
              /\ \A e \in entries : e[2] # d.track]_vars

\* A stream finds its file missing only when a deletion came in between or had
\* stolen the file (download_track_audio: "there's no pre-unlink").
StreamFindsFile ==
    [][\A s \in Listeners :
          LET r == stream[s] IN
          Stream(s) /\ r.track \notin files => r.hit \/ r.track \in stolen]_vars

================================================================================
