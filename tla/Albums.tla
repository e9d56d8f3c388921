-------------------------------- MODULE Albums --------------------------------
(***************************************************************************)
(* The albums page (pages/AlbumsPage.tsx): the library grouped by album,   *)
(* and an album opened up.  A library album is looked up on YouTube Music; *)
(* the edition that comes back is laid over the tracks the user owns, by   *)
(* video id or else by normalized title, and what is in neither the        *)
(* catalog nor the library is offered for download.  A title that          *)
(* normalizes to nothing is Blank and matches no other.                    *)
(***************************************************************************)
EXTENDS Filter, SequencesExt

CONSTANTS
    Libraries,    \* what the user may own: sequences of OwnedTrack
    Editions,     \* what YouTube Music may answer: sequences of RemoteTrack
    Blank,        \* the empty title key
    NoAlbum,      \* the album of a single
    MaxLookups    \* bound of the model: lookups made

Copies      == {"mp3", "opus"}   \* codec and bitrate of a file: two that differ
OwnedTrack  == [id : Nat, title : STRING, copy : Copies, album : STRING]
RemoteTrack == [id : Nat, title : STRING]

ASSUME AlbumsAssumption ==
    /\ Libraries \subseteq Seq(OwnedTrack) /\ Editions \subseteq Seq(RemoteTrack)
    /\ MaxLookups \in Nat

VARIABLES
    library,      \* the ['library'] query: the user's tracks
    edition,      \* YouTube Music's tracklist of the album
    catalog,      \* the video ids the catalog holds
    found,        \* the answer of the lookup: its tracklist and those the catalog had
    lookup,       \* the lookup: "none", "fetching", "found" or "failed", and its retries
    owned,        \* the tracks of the album that is open: a snapshot of the library
    showing,      \* the page shows the "grid", a "library" album or a "remote" album
    wanted,       \* the video ids queued for download
    lookups

albumVars == <<library, edition, catalog, found, lookup, owned, showing, wanted, lookups>>

NotFound == [tracks |-> <<>>, db |-> {}]

-------------------------------------------------------------------------------
(* The library, grouped *)

\* groupLibraryAlbums: the tracks of an album, in the library's order; a single is
\* in no album.
GroupOf(album) == Among(library, {t \in Range(library) : t.album = album})

LibraryAlbums == {t.album : t \in Range(library)} \ {NoAlbum}

-------------------------------------------------------------------------------
(* An owned album against its edition *)

\* ownedByTitle: the first track of a title.
ByTitle(t) == Among(owned, {o \in Range(owned) : o.title # Blank /\ o.title = t.title})

\* The owned tracks an entry of the edition may stand for, the best first.
Matched(t) == Among(owned, {o \in Range(owned) : o.id = t.id}) \o ByTitle(t)

OwnedMatch(t) == Head(Matched(t))
Matches(t)    == Matched(t) # <<>>

Confident == \E t \in Range(found.tracks) : Matches(t)

MatchedKeys == {OwnedMatch(t) : t \in {u \in Range(found.tracks) : Matches(u)}}

\* (mutant) A track is left out when the edition names it, although another copy of
\* it took the row.
StrayByName ==
    {o \in Range(owned) : \A t \in Range(found.tracks) : o.id # t.id /\ o \notin Range(ByTitle(t))}

\* "also in your library": copies are told apart by codec and bitrate as well.
StrayOwned == Range(owned) \ MatchedKeys

MissingItems == {t \in Range(found.tracks) : t.id \notin found.db /\ ~Matches(t)}

\* What a row of the edition is: the catalog's copy, an owned one, or an offer.
RowKind(t) == CASE t.id \in found.db -> "catalog"
                [] t.id \notin found.db /\ Matches(t) -> "owned"
                [] OTHER -> "external"

-------------------------------------------------------------------------------
(* The page *)

\* Opening an album asks for its edition, unless an answer is kept.
OpenLibrary(album) ==
    /\ showing = "grid" /\ lookups < MaxLookups
    /\ showing' = "library" /\ owned' = GroupOf(album)
    /\ IF lookup.state = "found" THEN UNCHANGED <<lookup, lookups>>
       ELSE lookup' = [state |-> "fetching", retries |-> 0] /\ lookups' = lookups + 1
    /\ UNCHANGED <<library, edition, catalog, found, wanted>>

\* A search result: its tracklist is shown with what the catalog has, whatever is owned.
OpenRemote ==
    /\ showing = "grid" /\ lookups < MaxLookups
    /\ showing' = "remote" /\ lookups' = lookups + 1
    /\ lookup' = [state |-> "fetching", retries |-> 0] /\ found' = NotFound
    /\ UNCHANGED <<library, edition, catalog, owned, wanted>>

CloseAlbum ==
    /\ showing # "grid" /\ showing' = "grid" /\ owned' = <<>>
    /\ IF showing = "library" THEN UNCHANGED <<found, lookup>>
       ELSE found' = NotFound /\ lookup' = [state |-> "none", retries |-> 0]
    /\ UNCHANGED <<library, edition, catalog, wanted, lookups>>

LookedUp ==
    /\ lookup.state = "fetching"
    /\ lookup' = [state |-> "found", retries |-> 0]
    /\ found' = [tracks |-> edition, db |-> {t.id : t \in Range(edition)} \cap catalog]
    /\ UNCHANGED <<library, edition, catalog, owned, showing, wanted, lookups>>

\* A 5xx is tried again twice; a 404, or a network that is gone, is an answer.
LookupFails(outage) ==
    /\ lookup.state = "fetching"
    /\ lookup' = IF outage /\ lookup.retries < 2
                 THEN [lookup EXCEPT !.retries = @ + 1]
                 ELSE [state |-> "failed", retries |-> 0]
    /\ UNCHANGED <<library, edition, catalog, found, owned, showing, wanted, lookups>>

\* The retry button: after a failure, or when nothing of the answer is owned; of a
\* remote album, when it came back without a tracklist.
RetryLookup ==
    /\ \/ showing = "library" /\ lookup.state \in {"found", "failed"} /\ ~Confident
       \/ showing = "remote" /\ lookup.state = "found" /\ found.tracks = <<>>
    /\ lookups < MaxLookups /\ lookups' = lookups + 1
    /\ lookup' = [state |-> "fetching", retries |-> 0]
    /\ UNCHANGED <<library, edition, catalog, found, owned, showing, wanted>>

\* "download missing", an external row, or "download album" of a remote one.
Download(items) ==
    /\ items # {} /\ wanted' = wanted \cup {t.id : t \in items}
    /\ UNCHANGED <<library, edition, catalog, found, lookup, owned, showing, lookups>>

DownloadMissing == showing = "library" /\ Confident /\ Download(MissingItems)

DownloadRow(t) ==
    /\ showing # "grid" /\ (showing = "library" => Confident)
    /\ t \in Range(found.tracks) /\ RowKind(t) = "external"
    /\ Download({t})

DownloadAlbum == showing = "remote" /\ Download(Range(edition))

\* A download has finished: the track is in the catalog and, under some album, in the
\* library, of which the page hears when the query is fetched again - not for a batch,
\* which invalidates it when it is queued.  What is open and what was found stay.
Arrives(t, album) ==
    /\ t.id \in wanted /\ t.id \notin catalog
    /\ catalog' = catalog \cup {t.id}
    /\ library' \in {library, Append(library,
            [id |-> t.id, title |-> t.title, copy |-> "mp3", album |-> album])}
    /\ UNCHANGED <<edition, found, lookup, owned, showing, wanted, lookups>>

\* An owned track is in the catalog; the rest of the edition may be.
AlbumsInit ==
    /\ library \in Libraries /\ edition \in Editions
    /\ \E rest \in SUBSET {t.id : t \in Range(edition)} :
          catalog = {t.id : t \in Range(library)} \cup rest
    /\ found = NotFound /\ lookup = [state |-> "none", retries |-> 0]
    /\ owned = <<>> /\ showing = "grid" /\ wanted = {} /\ lookups = 0

AlbumsNext ==
    \/ \E album \in LibraryAlbums : OpenLibrary(album)
    \/ OpenRemote \/ CloseAlbum \/ RetryLookup
    \/ LookedUp \/ \E outage \in BOOLEAN : LookupFails(outage)
    \/ DownloadMissing \/ DownloadAlbum
    \/ \E t \in Range(edition) :
          DownloadRow(t) \/ \E album \in LibraryAlbums : Arrives(t, album)

AlbumsSpec == AlbumsInit /\ [][AlbumsNext]_albumVars

-------------------------------------------------------------------------------
(* Properties *)

\* What the open album can play: the catalog's copies, the owned tracks that have a
\* row of the edition, and those listed under it.
CatalogRows == {t \in Range(found.tracks) : RowKind(t) = "catalog"}
OwnedRows   == {OwnedMatch(t) : t \in {u \in Range(found.tracks) : RowKind(u) = "owned"}}

\* Nothing that is owned is lost behind an edition: each owned track has a row, the
\* catalog's copy of the same song has one, or it is listed under the edition - also
\* when two tracks share a title or a video (AlbumsPage.tsx:464-466).
NothingLost ==
    showing = "library" /\ Confident =>
        \A o \in Range(owned) \ (OwnedRows \cup StrayOwned) :
            \E t \in CatalogRows : t.id = o.id \/ (t.title = o.title /\ o.title # Blank)

===============================================================================
