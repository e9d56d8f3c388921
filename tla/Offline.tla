-------------------------------- MODULE Offline --------------------------------
(***************************************************************************)
(* Downloads kept on the device (frontend/src/features/offline): the files *)
(* under Directory.Data/offline, the manifest that names them, its copy in *)
(* memory, the index the player reads, and the mutex every download,       *)
(* removal and sweep goes through.                                         *)
(*                                                                         *)
(* A step ends where the code awaits the file system or the network.       *)
(* Between two steps the application may be killed: the files and the      *)
(* saved manifest stay, everything else starts over.                       *)
(***************************************************************************)
EXTENDS Naturals, SequencesExt

CONSTANTS
    Keys,          \* (video_id, codec, bitrate)
    VideoOf,       \* the video of a key: the cover file is per video
    Previews,      \* the keys of codec 'preview'
    Collections,   \* playlist ids and the synthetic album:<key>
    Lists,         \* the track lists a page may show for a collection
    MaxTaps,       \* bound of the model: taps on the download button
    MaxRestarts    \* bound of the model: times the app is killed

ASSUME OfflineAssumption ==
    /\ DOMAIN VideoOf = Keys
    /\ Previews \subseteq Keys
    /\ Lists \subseteq Seq(Keys)
    /\ MaxTaps \in Nat /\ MaxRestarts \in Nat

VARIABLES
    audio, covers, saved,    \* on the device: audio files by key, cover files by video, manifest.json
    manifest,                \* manifestRef: the entries (their collections, with a cover or not)
                             \* by key, and the registered collections
    index, coverOf,          \* offlineIndex: byTrack (with or without a cover URL), coverByVideo
    disk, todo,              \* hydration: "unread", "indexing", "hydrated"; the entries left to index
    active,                  \* collections with a progress
    chain,                   \* the operations of the mutex, the running one first
    at, item,                \* the running operation: its stage ("start", "track", "cover",
                             \* "link", "linkCover"; "visit", "unfile"; "write"), the
                             \* position up to which a download is through its list,
    left, doomed, next,      \* a removal's entries to visit, key being deleted, entries kept
    taps, restarts,
    hurt                     \* a restart found files missing, or somebody tapped before ready

device    == <<audio, covers, saved>>
indexed   == <<index, coverOf>>
hydration == <<disk, todo>>
running   == <<at, item, left, doomed, next>>
counted   == <<taps, restarts, hurt>>
vars == <<device, manifest, indexed, hydration, active, chain, running, counted>>

NoKey == "none"
Empty == [tracks |-> <<>>, playlists |-> {}]
Sweep == [kind |-> "sweep"]

-------------------------------------------------------------------------------
(* What the pages read *)

ready == disk = "hydrated"

Without(f, k) == [j \in DOMAIN f \ {k} |-> f[j]]

\* Previews are not tracks of the library: they cannot be downloaded.
Real(list) == ToSet(list) \ Previews

IsDownloaded(k) == k \in DOMAIN index

\* offlineTracksFor, as a set: what a playlist page shows without a network.
OfflineTracksFor(c) == {k \in DOMAIN manifest.tracks : c \in manifest.tracks[k].ids}

DownloadedCollections == {c \in manifest.playlists : OfflineTracksFor(c) # {}}

-------------------------------------------------------------------------------
(* offlineIndex *)

SetIndex(k, cover) ==
    /\ index' = [j \in DOMAIN index \cup {k} |-> IF j = k THEN cover ELSE index[j]]
    /\ coverOf' = IF cover THEN coverOf \cup {VideoOf[k]} ELSE coverOf

\* (mutant) A removed copy stays in the index while the video has another one.
RemoveIndexLast(k) ==
    IF \E j \in DOMAIN index \ {k} : VideoOf[j] = VideoOf[k] THEN UNCHANGED indexed
    ELSE index' = Without(index, k) /\ coverOf' = coverOf \ {VideoOf[k]}

\* The video's cover is taken over from another copy of it.
RemoveIndex(k) ==
    IF k \notin DOMAIN index THEN UNCHANGED indexed
    ELSE /\ index' = Without(index, k)
         /\ coverOf' = IF \E j \in DOMAIN index \ {k} : VideoOf[j] = VideoOf[k] /\ index[j]
                       THEN coverOf ELSE coverOf \ {VideoOf[k]}

-------------------------------------------------------------------------------
(* The mutex *)

Settled ==
    /\ at' = "start" /\ item' = 0
    /\ left' = <<>> /\ doomed' = NoKey /\ next' = <<>>

Run(op) == chain' = Append(chain, op)

\* (mutant) A rejected operation leaves the chain rejected: nothing runs after it.
StickyRelease(ok) ==
    /\ chain' = IF ok THEN Tail(chain) ELSE chain
    /\ Settled

\* The chain goes on whether the operation resolved or rejected.
Release(ok) == chain' = Tail(chain) /\ Settled

\* The running operation, at a stage.
Runs(kind, stage) == chain # <<>> /\ Head(chain).kind = kind /\ at = stage

\* writeManifest: it succeeds, or the operation rejects.
Written == saved' = manifest /\ Release(TRUE)
NotWritten == saved' = saved /\ Release(FALSE)

-------------------------------------------------------------------------------
(* Hydration *)

\* readManifest has answered.
ReadManifest ==
    /\ disk = "unread"
    /\ disk' = "indexing"
    /\ manifest' = saved /\ todo' = saved.tracks
    /\ UNCHANGED <<device, indexed, active, chain, running, counted>>

\* getUri makes a URL of the path, whether or not the file exists; an entry it rejects
\* is left out of the index.
HydrateEntry(k) ==
    /\ disk = "indexing" /\ k \in DOMAIN todo
    /\ todo' = Without(todo, k)
    /\ SetIndex(k, todo[k].cover) \/ UNCHANGED indexed
    /\ UNCHANGED <<device, manifest, disk, active, chain, running, counted>>

Hydrated ==
    /\ disk = "indexing" /\ todo = <<>>
    /\ disk' = "hydrated"
    /\ Run(Sweep)
    /\ UNCHANGED <<device, manifest, indexed, todo, active, running, counted>>

\* reconcileOrphans
Reconcile ==
    /\ Runs("sweep", "start")
    /\ audio' = audio \cap DOMAIN manifest.tracks
    /\ covers' = covers \cap {VideoOf[k] : k \in {j \in DOMAIN manifest.tracks : manifest.tracks[j].cover}}
    /\ Release(TRUE)
    /\ UNCHANGED <<saved, manifest, indexed, hydration, active, counted>>

-------------------------------------------------------------------------------
(* downloadPlaylist *)

Id   == Head(chain).id
List == Head(chain).list

\* The positions of the real tracks that are still to be gone through.
Ahead == {i \in DOMAIN List : i > item /\ List[i] \notin Previews}
Here  == Min(Ahead)
Track == List[Here]

\* The media token has been awaited; ensureMediaToken never rejects.
Register ==
    /\ Runs("download", "start")
    /\ manifest' = [manifest EXCEPT !.playlists = @ \cup {Id}]
    /\ active' = active \cup {Id}
    /\ at' = "track" /\ item' = 0
    /\ UNCHANGED <<device, indexed, hydration, chain, left, doomed, next, counted>>

\* (mutant) A track that is on the device already is passed over.
OwnedNot(e) == e

Owned(e) == [e EXCEPT !.ids = @ \cup {Id}]

AlreadyOnDisk ==
    /\ Runs("download", "track") /\ Ahead # {}
    /\ Track \in DOMAIN manifest.tracks
    /\ manifest' = [manifest EXCEPT !.tracks[Track] = Owned(@)]
    /\ item' = Here
    /\ UNCHANGED <<device, indexed, hydration, active, chain, at, left, doomed, next, counted>>

\* The audio is on the device, or the transfer failed (leaving part of a file) and
\* the track is skipped.
Transfer ==
    /\ Runs("download", "track") /\ Ahead # {}
    /\ Track \notin DOMAIN manifest.tracks
    /\ \/ audio' = audio \cup {Track} /\ at' = "cover" /\ UNCHANGED item
       \/ audio' \in {audio, audio \cup {Track}} /\ item' = Here /\ UNCHANGED at
    /\ UNCHANGED <<covers, saved, manifest, indexed, hydration, active, chain, left, doomed, next, counted>>

\* The cover is on the device or not; then the entry is recorded.
Record ==
    /\ Runs("download", "cover")
    /\ \E cover \in BOOLEAN :
          /\ covers' = IF cover THEN covers \cup {VideoOf[Track]} ELSE covers
          /\ manifest' = [manifest EXCEPT !.tracks =
                [k \in DOMAIN @ \cup {Track} |->
                    IF k = Track THEN [ids |-> {Id}, cover |-> cover] ELSE @[k]]]
          /\ at' = IF cover THEN "linkCover" ELSE "link"
    /\ UNCHANGED <<audio, saved, indexed, hydration, active, chain, item, left, doomed, next, counted>>

\* The file's URL enters the index; if there is none, the track is skipped, recorded as
\* it is.
Link ==
    /\ Runs("download", "link") \/ Runs("download", "linkCover")
    /\ SetIndex(Track, at = "linkCover") \/ UNCHANGED indexed
    /\ item' = Here /\ at' = "track"
    /\ UNCHANGED <<device, manifest, hydration, active, chain, left, doomed, next, counted>>

\* A failed write leaves the progress on display.
Saved ==
    /\ Runs("download", "track") /\ Ahead = {}
    /\ \/ Written /\ active' = active \ {Id}
       \/ NotWritten /\ UNCHANGED active
    /\ UNCHANGED <<audio, covers, manifest, indexed, hydration, counted>>

-------------------------------------------------------------------------------
(* removePlaylist *)

BeginRemoval ==
    /\ Runs("remove", "start")
    /\ left' = manifest.tracks /\ next' = <<>>
    /\ at' = "visit"
    /\ UNCHANGED <<device, manifest, indexed, hydration, active, chain, item, doomed, counted>>

\* (mutant) Only the removed collection counts.
OthersNone(k) == left[k].ids \cap {}

\* The collections that still hold an entry.
Others(k) == left[k].ids \ {Id}

\* (mutant) A track another collection holds is not deleted, and not kept either.
KeptNot(k) == next

Kept(k) == [j \in DOMAIN next \cup {k} |->
               IF j = k THEN [left[k] EXCEPT !.ids = Others(k)] ELSE next[j]]

Keep(k) ==
    /\ Runs("remove", "visit") /\ k \in DOMAIN left
    /\ Others(k) # {}
    /\ next' = Kept(k)
    /\ left' = Without(left, k)
    /\ UNCHANGED <<device, manifest, indexed, hydration, active, chain, at, item, doomed, counted>>

DeleteAudio(k) ==
    /\ Runs("remove", "visit") /\ k \in DOMAIN left
    /\ Others(k) = {}
    /\ audio' = audio \ {k}
    /\ at' = "unfile" /\ doomed' = k
    /\ UNCHANGED <<covers, saved, manifest, indexed, hydration, active, chain, item, left, next, counted>>

DeleteCover ==
    /\ Runs("remove", "unfile")
    /\ covers' = IF left[doomed].cover THEN covers \ {VideoOf[doomed]} ELSE covers
    /\ RemoveIndex(doomed)
    /\ left' = Without(left, doomed) /\ doomed' = NoKey /\ at' = "visit"
    /\ UNCHANGED <<audio, saved, manifest, hydration, active, chain, item, next, counted>>

Removed ==
    /\ Runs("remove", "visit") /\ left = <<>>
    /\ manifest' = [tracks |-> next, playlists |-> manifest.playlists \ {Id}]
    /\ at' = "write"
    /\ UNCHANGED <<device, indexed, hydration, active, chain, item, left, doomed, next, counted>>

RemovalSaved ==
    /\ Runs("remove", "write")
    /\ Written \/ NotWritten
    /\ UNCHANGED <<audio, covers, manifest, indexed, hydration, active, counted>>

-------------------------------------------------------------------------------
(* The button *)

Tapped ==
    /\ taps < MaxTaps
    /\ taps' = taps + 1
    /\ hurt' = (hurt \/ ~ready)
    /\ UNCHANGED <<device, manifest, indexed, hydration, active, running, restarts>>

\* No real track, no button; no button either while there is a progress.
Shown(c, list) == Real(list) # {} /\ c \notin active

TapDownload(c, list) ==
    /\ Shown(c, list)
    /\ \E k \in Real(list) : ~IsDownloaded(k)
    /\ Run([kind |-> "download", id |-> c, list |-> list])
    /\ Tapped

\* Two taps: the first arms the removal.
TapRemove(c, list) ==
    /\ Shown(c, list)
    /\ \A k \in Real(list) : IsDownloaded(k)
    /\ Run([kind |-> "remove", id |-> c, list |-> <<>>])
    /\ Tapped

\* The app is killed and started again.
Restart ==
    /\ restarts < MaxRestarts
    /\ restarts' = restarts + 1
    /\ hurt' = (hurt \/ ~(DOMAIN saved.tracks \subseteq audio))
    /\ manifest' = Empty /\ index' = <<>> /\ coverOf' = {}
    /\ disk' = "unread" /\ todo' = <<>>
    /\ active' = {} /\ chain' = <<>>
    /\ Settled
    /\ UNCHANGED <<device, taps>>

-------------------------------------------------------------------------------

Init ==
    /\ audio = {} /\ covers = {} /\ saved = Empty
    /\ manifest = Empty /\ index = <<>> /\ coverOf = {}
    /\ disk = "unread" /\ todo = <<>>
    /\ active = {} /\ chain = <<>>
    /\ at = "start" /\ item = 0 /\ left = <<>> /\ doomed = NoKey /\ next = <<>>
    /\ taps = 0 /\ restarts = 0 /\ hurt = FALSE

Hydration == ReadManifest \/ (\E k \in Keys : HydrateEntry(k)) \/ Hydrated

OperationStep ==
    \/ Reconcile
    \/ Register \/ AlreadyOnDisk \/ Transfer \/ Record \/ Link \/ Saved
    \/ BeginRemoval \/ (\E k \in Keys : Keep(k) \/ DeleteAudio(k))
    \/ DeleteCover \/ Removed \/ RemovalSaved

\* What a page shows of a collection: the server's list, or without a network what
\* the manifest has of it.
Tap ==
    \E c \in Collections :
        \/ \E list \in Lists : TapDownload(c, list) \/ TapRemove(c, list)
        \/ c \in DownloadedCollections
           /\ \E list \in SetToSeqs(OfflineTracksFor(c)) : TapRemove(c, list)

Next == Hydration \/ OperationStep \/ Tap \/ Restart

\* The promises settle: files and network answer, with a value or an error.
Spec == Init /\ [][Next]_vars /\ WF_vars(Hydration) /\ WF_vars(OperationStep)

-------------------------------------------------------------------------------
(* Properties *)

\* A track the player takes from the device has its file there, but for one whose
\* removal is under way: no sweep and no removal deletes what the index still offers.
IndexBacked ==
    \/ hurt
    \/ \A k \in DOMAIN index :
          k \in audio \/ (Runs("remove", "unfile") /\ doomed = k)

\* A track the player takes from the device is in the manifest: an operation that
\* writes the manifest never drops what another one added.
IndexRecorded == hurt \/ DOMAIN index \subseteq DOMAIN manifest.tracks

\* When a download has gone through its list, every track it left on the device is
\* held by its collection, so that the removal of another collection spares it.
HeldByEach ==
    \/ hurt
    \/ ~Runs("download", "track") \/ Ahead # {}
    \/ \A k \in Real(List) \cap DOMAIN manifest.tracks :
          Id \in manifest.tracks[k].ids

\* A copy leaves the device with the last collection that holds it or, in the sweep,
\* because no entry names it: whatever downloads were queued before the removal, it
\* spares what they shared.
SharedStays ==
    [][\A k \in audio \ audio' :
          \/ hurt \/ k \notin DOMAIN manifest.tracks
          \/ Runs("remove", "visit") /\ manifest.tracks[k].ids \subseteq {Id}]_vars

\* The mutex is never stuck: what is queued runs, whatever failed before it.
ChainDrains == (chain # <<>>) ~> (chain = <<>>)

===============================================================================
