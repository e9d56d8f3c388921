# ytDownloader: TLA+ models and proofs

A verification development for the ytDownloader backend (FastAPI, SQLite,
yt-dlp) and the stateful parts of its web client. It models the control of the
program - who may do what, in which order, and what a crash, a race or a late
answer may do in between - and abstracts what is downloaded, shown or logged.
Line numbers refer to the files under `src/`; `routes.py` is
`src/backend/src/api/routes.py`, `db.py` is `src/backend/src/db.py`.

## The system

| Component | State | Operations | What is hard about it |
|---|---|---|---|
| **Download jobs** (`routes.py`, `db.py`) | `jobs` rows; `_jobs`, `_cancelled`; a `tmp_dir` per file job; the bounded `_download_pool` | start, worker body, cancel, delete, one-shot file, reaper, shutdown, restart | Four kinds of threads share dictionaries and a directory without a lock; the entry exists before the row; a crash loses memory and keeps rows |
| **Progress WebSocket** (`routes.py` 1410-1505) | a hub of subscribers per job | two reads, subscribe, snapshot, events | Events have no replay: the order of read, subscribe and read again decides whether a viewer hangs |
| **Shared music library** (`routes.py`, `admin_routes.py`, `db.py`) | `tracks`, `track_owners`, files under `LIBRARY_DIR` | import (reuse or download), own, unown, admin delete | Check-then-act on rows and files by several workers and an administrator |
| **Playlists** (`db.py` 1285-1605) | `playlists`, `playlist_tracks.position` | create, add, remove, reorder, delete | Positions under concurrent and stale requests; cascades |
| **Sessions** (`auth.py`, `homeauth.py`, `auth_routes.py`) | `sessions` rows with an encrypted one-time HomeAuth cookie | login, resolve, refresh, logout | A cookie that may be used once, refreshed by many threads |
| **Login throttle, rate limits** (`auth_routes.py`, `rate_limit.py`) | deques of instants per key | hit, lock out, prune | Windows, boundaries, memory |
| **Media tokens and the client session** (`AuthProvider.tsx`, `client.ts`, `media_token.py`) | the signed-in user, the query cache, a cached token | start, sign in, sign out, poll, 401 | Answers of one session that arrive in the next |
| **Extraction, previews, caches** (`extraction_pool.py`, `routes.py`, `search.py`) | bounded caches, a single-flight probe | put, get, evict | Limits, staleness |
| **Migrations** (`db.py` 261-333) | `schema_meta.version`, columns | versions 1 to 5 | A crash between two statements |
| **Audio player** (`AudioPlayerProvider.tsx`) | queue, position, shuffle order, repeat | next, previous, shuffle, enqueue, auto-radio, load errors | Asynchronous completions over state read earlier |
| **Offline downloads** (`OfflineProvider.tsx`, `storage.ts`) | files, a manifest on disk and in memory, an index | download, remove, hydrate, sweep | Two stores, no transaction, kills of the app |
| **Capture and download clients** (`useCapture.ts`, `useExternalDownload.ts`, `useLiveJobProgress.ts`) | the phase of a page, sockets, overlays | analyse, choose, start, snapshot, done, drop | Stale sockets, missing terminal events, late analyses |
| **Back-button stack** (`backStack.ts`, `BackButtonHandler.tsx`) | close handlers | register, unregister, run the top | Effects run after commits; handlers that leave and come again |
| **Pages** (`PlaylistDetailPage.tsx`, `AlbumsPage.tsx`, `ImportPage.tsx`) | optimistic order, an opened album, an import's report | edit, look up, download, follow | Overlapping requests, snapshots, jobs that outlive the page |

They interact as follows. A start handler creates the entry, the row and the
work item; a worker of the pool writes the row and puts events; the progress
socket, the jobs list, cancel, delete, retry and the file endpoint only meet the
worker through the row, `_jobs` and `_cancelled`. Imports write the library,
which playlists refer to through foreign keys. Every request first resolves a
session or a media token. The client follows a job through the socket and then
fetches the file. In the client, the player asks the offline index for a file
before it streams; the session clears the query cache and stops the player; every
page reads queries that mutations of other pages invalidate.

Left out for good: recommendation ranking, scraping and parsing of third-party
sites, admin metadata, rendering, packaging (see "Not modelled").

## Modules

| Module | Models | Status |
|---|---|---|
| `JobStatus` | the abstract specification: what the `jobs` table promises about one row's status | checked, refined |
| `DownloadJobs` | jobs with their handlers, workers, requests, reaper, shutdown, restart | checked, proved but for liveness |
| `ProgressStream` | extends `DownloadJobs` with viewers of the progress socket | checked, proved but for liveness |
| `DownloadJobsProofs` | theorems about `DownloadJobs` and `ProgressStream` | proved |
| `SlidingWindow` | the rate limiter behind extractions, expensive routes and logins | checked, proved |
| `Sessions` | sessions, the single-flight refresh, logout, the sweep, HomeAuth's answers | checked, proved |
| `Access`, `AccessProofs` | `Sessions` and `SlidingWindow` side by side, what stands in front of the API; theorems about both | checked, proved |
| `Library` | the shared music library: rows, references and files under imports, requests, streams and deletions | checked |
| `LibraryProofs` | all its properties for every parameter | proved |
| `OrderedLists` | the abstract specification: a playlist is a list without duplicates | checked, refined |
| `Playlists` | playlists and the positions of their tracks, the cap, the owner check | checked |
| `PlaylistsProofs` | all its properties and the refinement of `OrderedLists` | proved |
| `Player` | the audio player: queue, play order, element, radio, failures, every surface | checked, proved but for liveness |
| `Offline`, `OfflineProofs` | downloads kept on the device | checked, proved but for liveness |
| `Client`, `ClientProofs` | the session of the client, its cache and its media token | checked, proved |
| `JobServer` | what the client may meet of a job and of its socket, an abstraction of `DownloadJobs` and `ProgressStream` | part of the next two |
| `JobViews` | the rows of the queue and the cards of the catalog | checked |
| `Capture`, `CaptureProofs` | the capture page | checked, proved but for liveness |
| `PlaylistPage` | the page of one playlist | checked, proved |
| `Albums` | the albums page | checked, proved |
| `BulkImport` | the import page and its job | checked, proved but for liveness |
| `BackStack` | the overlays and the back button | checked, proved |
| `Filter` | `Array.prototype.filter` (external), for the pages | lemmas proved |
| `Pages` | the five page modules under the router | checked, proved but for liveness |
| `ScreenProofs` | theorems about `Player` and the page modules | proved |
| `MC*` | instances for TLC | |

### DownloadJobs

State and code: `row` and `completed` are the columns `status` and
`completed_at`; `runtime` is the entry of `_jobs` (`ready` once `file_path` is
set); `disk` the job's `tmp_dir`; `cancelled` the set `_cancelled`; `queue` the
pool's work queue; `pc` the position of the job's handler and, after `Submit`,
of its worker; `hub` the terminal events put on its `_ProgressHub`; `client` the
requests that have read the row and not acted yet; `reaper` the sweep; `exiting`
says that the interpreter is shutting down. `release` is a history variable: it
says why a job lost its runtime entry, so that properties can name the legal
reasons.

Two threads meet between any two statements that touch shared state, so each
such statement is an action: `Register` (`_jobs[...] = ...`, `mkdtemp`),
`CreateRow`, `Submit`; then `Start`, `MarkStarted`, `Merging`, `Transcoding`,
`Downloaded`, `Publish`, `Finish`, `Announce`, `DeferHash`; `Raise` and
`SeeCancel` jump to the except branches, which run `RemoveTmp`, `DropRuntime`,
`SettleRow`, `PutFailure` in the code's order. Requests take two or three steps
(`CancelCheck`/`CancelRaise`, `DeleteCheck`/`DeleteRow`,
`Serve`/`Send`/`CleanupPop`/`CleanupRemove`); the reaper wakes with a snapshot
of the keys, judges each, removes, pops.

The five worker bodies (video, audio file, audio import, playlist, track list)
share this skeleton; an import job has no `tmp_dir`, no file to publish, and a
hash to hand over at the end. What is inside a download - yt-dlp, ffmpeg,
metadata, progress percentages, tracks of a playlist - is one stretch of work
ending in a file, an exception or a seen cancellation.

`Restart` is a crash at any point followed by `db.init` and the startup sweep;
it resets all memory and marks active rows `interrupted`. `BeginExit` is an
orderly shutdown: uvicorn lets requests finish, the pool's threads drain.

### ProgressStream

A viewer opens (first read), looks the hub up in `_jobs`, subscribes to it,
reads again for the snapshot, then waits. Its `from` is the length of the hub's
log when it joined, which is exactly "events with no subscribers are dropped".
Only terminal events are logged.

### SlidingWindow

`check` reads the clock, then waits for the lock: `ReadClock` and `Check` are two
actions, and a caller may be overtaken in between by at most `Skew` instants.
What happens under the lock - the sweep once a window, eviction from the left end
only, the verdict - is one action. A key's deque is kept as the whole sequence of
instants ever appended (`events`) and the number of them that have left again
(`gone`); `admitted` remembers when each was really let through, so that
properties can speak of real time rather than of the stamps. Instants are whole
numbers, which makes `int(retry) + 1` plain `retry + 1`.

### Sessions

A thread is a request running `current_user`, and perhaps `logout` after it. The
row's tokens are abstracted to "fresh or near expiry" and the number of the
refresh cookie; HomeAuth (external) is the number of the cookie it accepts, 0 for
none. `lockOf` and `touched` are the keys of `_refresh_locks` and `_last_touch`;
lock objects are values, so that a dropped and recreated lock is a different one.
Database statements, lock operations and HTTP calls are separate actions. A POST
is accepted (the answer arrives or is lost), unreachable, refused, or answered
with any other error. A request that brings a media token stops after the
liveness check, which is a `Begin` that changes nothing, or `DeleteExpired`.

A limited route resolves its user and then asks the limiter
(`rate_limit_extraction`). The two share no state, so a behaviour of `Access` is
about one of them.

### Library

`tracks`, `owners`, `playlists` and `entries` are the rows of the four tables,
`files` the tracks whose file is on disk (the path follows from the key). An
import job is a thread that reads the row, looks for the file, and either reuses
it or fetches, sizes, registers, links and lists the track; a playlist import
goes on to another track, and its playlist is created on the way. Requests
adopt, disown, add to and remove from playlists, with the check and the write in
separate actions. A stream reads the row and opens the file later. An
administrator's deletion counts owners, counts playlist references, deletes the
row and then the file. The database cascades are part of the action that
triggers them. `DbRaises` is the statement that raises after the
file is in place (a locked database, a full disk): a single import ends there, a
playlist import goes on. `stolen`, `leaked`, `hit` and `joined` are history
variables that name the legal excuses: a deletion that took the file of an import
which had put it back, a crash, a refused write or an `OSError` between row and
file, an undoing while an import was at the track, a use that began after the
count.

### Playlists

`position[l]` is the column `position` of one playlist, a function from the
tracks in it to numbers with gaps; `owner` the rows of `playlists`. A request
passes its checks (`CountPlaylists`, `CheckOwner`) and writes later
(`CreatePlaylist`, `AddTracks`, `RemoveTrack`, `ReorderPlaylist`,
`DeletePlaylist`), in whatever state the playlist is by then; the write of a
request whose playlist is gone changes nothing. Bodies are any lists of keys,
with repetitions and tracks the playlist does not have. An import creates its
own list without the cap and appends to it. Deleting a track from the catalog
cascades. Parking positions below zero inside `reorder_playlist`'s transaction
leaves no trace and is left out.

`OrderedLists` knows no numbers: each list has members and a relation "stands
before"; the refinement maps positions to that relation.

### Player

`queue`, `order` and `pos` are the provider's state, counted from 1; `src`,
`playing` and `media` the `<audio>` element; `failures` the count of consecutive
load errors; `radio` is the call of `triggerAutoRadio` that awaits an answer, with
the queue it saw; what is appended to is `LatestQueue`, read when the answer comes,
as the code's refs are. `seen` is what the radio has offered. A handler's state
updates and the load effect they bring are one commit, hence one action; what comes
later from the browser
(`LoadedMetadata`, `PlayRejected`, `Ended`, `LoadFailed`, `StrayError`), the
network (`RadioAnswer`, `RadioFailed`) and the session (`SignedOut`, `SignedIn`)
are actions of their own. Each surface (bar, now-playing view, queue panel,
swipes, hotkeys, media keys, page buttons) appears with the guards it has.
A mounted provider starts from any snapshot `localStorage` may hold: a queue without
previews of at most `MaxQueue` entries.

### Offline

`audio`, `covers` and `saved` are on the device; `manifest`, `index`, `coverOf`,
`chain` (the promise mutex: the operations queued, the head running) and the
position of the head operation are in memory and lost by `Restart`. A download
is through its list up to the position `item`; `Ahead` is what it has not looked
at, previews left out, and `Here` the first of that. A step ends at an `await`,
and whatever is awaited may reject: an entry whose URL cannot be made stays out
of the index until the next start, and a further download of it only refers to
it. `hurt` is a history variable: it becomes true when an operation was started
before hydration had ended, or when the app was killed between the deletion of a
file and the write of the manifest. Both leave an index entry with no file, and
the properties excuse them.

### Client

A request is sent with the cookie of that moment and answered later in any
order: `flight` is a set of records with the session they were sent under. The
query cache is abstracted to the set of accounts whose data it holds, and a
fetch that a `queryClient.clear()` has detached may still answer, but not into
the cache. Time passes in ticks (`Tick`) between any two steps: `age` counts since
the token was minted, `wait` down to the next `Poll`. Three things are assumed of
timers and requests: a start (whoami) takes less than a tick, a token request has
settled before the next poll, and a poll that is due fires (a device that sleeps
through it is not covered).

### JobServer, JobViews, Capture

`JobServer` is what `DownloadJobs` and `ProgressStream` show of a job from
outside: its status, its deletion, a socket that is accepted, sends a snapshot,
ends with the job or is lost. `JobViews` overlays socket events on the polled
list (`Display`), for the rows of the queue and for one card. `Capture` is one
page from the URL to the saved file: the input, which may be edited after its
analysis, analyses in flight, the choice of format, audio preset and mode, the
request - which sends the URL of the input (`ToLibrary`) with the choices of the
panel -, the socket, and what a page that was left still has open.

### PlaylistPage, Albums, BulkImport, BackStack, Pages

`PlaylistPage` sends its reorders, removals and additions without waiting and
shows its own order meanwhile; TanStack's rules (a refetch keeps the data, equal
data is no new data, the callbacks of a superseded mutation are those of its
time) are part of the actions. A request that the server answers without a
write, an addition of what is there or a reorder of an empty list, is `Moot`.
`straight` is a history variable: no answer was lost after it had been carried
out, and no superseded reorder failed.

`Albums` lays an edition over the owned tracks by id and then by title.
`BulkImport` has the job's loop and the page that follows it; one in the catalog
already is counted like an imported one. A page that is left closes its socket,
but a request in flight may still open one, which nobody reads and which closes
with its job (`stray`). `BackStack` separates a commit from the
effects that register handlers. Where the code filters an array by membership
the modules use `Among` of `Filter`, which says the same as `SelectSeq` without an
operator argument; `MCPages` has TLC compare the two on all short sequences.
`Pages` puts the five page modules side by side:
one page is mounted at a time and they share no state, so a behaviour is about
one of them.

## Runs

| Run | Instance | Shows |
|---|---|---|
| `jobs` | a file job, an import job, 1 slot, 1 request at a time, a restart or shutdown | `FreshResultFetchable`: a finished file is fetchable through the grace window unless handed out, restarted or mistaken for an orphan; `RowMatchesWorker`: the row and the thread agree; `ImplementsJobStatus`: refinement of `JobStatus`; `EveryJobSettles` |
| `stream` | a file job, a request, a viewer, a restart | `NoDeadWait`, `EveryStreamEnds`; `TmpReclaimed`: the directory goes in the end |
| `access` | 1 session, 3 requests, 3 lock objects, 3 cookies; 2 keys, 2 callers, budget 2, window 2, lag 1, 4 instants | `NoRotatedCookie`, `GoneStaysGone`; `BudgetKept`, `RetryAfterHonoured` |
| `library` | 1 track, 1 playlist, a single import, a playlist import, a request, a stream, a deletion | `RowHasFile` and `FileHasRow`: rows and files stay paired but for named excuses; `SparesUse`: an unforced deletion hits only uses that began after its count; `StreamFindsFile` |
| `playlists` | 3 tracks, 2 playlists, an owner and an administrator, 2 requests, an import, cap 1, bodies of 2 keys | `UniquePositions`; `CapOvershoot`: by how many the cap can be exceeded; `ImplementsOrderedLists`: refinement of `OrderedLists` |
| `player` | 2 tracks, no preview, queues of 1 and 2 entries growing to 3, 3 failures | `NoEntryTwice`, `HeardIsShown`, `EditsKeepTrack`; `LineSurvives`: only the listener takes entries out of the line; `NoSkipStorm` |
| `offline` | 2 collections of the same list, two copies of one video with a preview of another between them; 3 taps, 1 kill | `IndexBacked`, `IndexRecorded`, `HeldByEach`; `SharedStays`: a file goes with the last collection that holds it; `ChainDrains` |
| `client` | 2 users, 3 sessions, 3 requests in flight; a tick is five minutes, a token 12 of them, the margin 6, a poll 2 | `OneAccount`, `NoDeadToken`, `SignedOutForCause` |
| `capture` | a music URL and a video, 2 analyses in flight, 2 jobs | `ShownIsMusic`, `NoFrozenDownload` |
| `pages` | 2 jobs with their rows and a card; a playlist of 3 tracks and 2 requests; albums of up to 2 owned tracks and editions of up to 2; 2 imports of up to 2 tracks; 5 taps over 2 pages | `RowsSettle`, `CardSettles`; `PageAgrees`; `NothingLost`; `ReportIsOfThisImport`, `ImportEnds`; `StackHoldsOpen` |
| `capture_sent` | as `capture`, with a playlist, 1 job | a disagreement below |
| `player_shuffle` | as `player`, queues of up to 2 entries | a disagreement below |

Bounds. Jobs do not interact except through the pool, so two of them (one of
each kind) and one slot give waiting, overtaking by cancellation and a full
pool; one restart reaches every crash point, and a second one starts from a
state that an ordinary run reaches as well. Job ids are uuids and are never
reused, so `Jobs` are simply the ids the run will ever see. Keys of the limiter
meet only in the sweep, so two suffice; four instants let a window pass twice.
Sessions do not interact at all; three requests give a refresher, a waiter with
the old lock and a newcomer with a new one, and three locks mean that one is
always free for it; three cookies let a session be refreshed twice. Tracks of the
library meet only inside a playlist import, which handles one at a time, so one
track suffices for every race between row and file; with one playlist id an
import waits while the only id is taken. Playlists need two tracks for an order
and a third for a tail of two behind a reorder; `MaxPosition` 2 lets a track be
removed and appended behind a gap; two requests let both pass the cap, and one
delete what the other has checked; bodies of two keys can repeat a key.

In the client, three entries of two tracks give a queue with a duplicate, an
entry before and an entry after the current one, and a reshuffle with a choice.
Two collections of one list and three taps give a download, a second one that refers
to what is there, and a removal of what both or one of them hold - a download that
fails half-way holds less than the list; one kill reaches every await. Three failures
in a row go through the longest queue. Runs with a liveness property use no
symmetry. Three sessions let a user come back after another
one; a token of twelve ticks with a margin of six and a poll every second one has
the proportions of the code (an hour, half an hour, ten minutes), with an expiry
between polls. Two analyses in flight can answer out of order, and two jobs let an
abandoned one go on behind the next; two kinds of URL are the one that may go to the
library and the one that may not, and a playlist, the third, is followed as they are
(`NoVideoInLibrary` covers all three). Two overlapping requests of three tracks
are the least for a reorder that misses a removal. An album of two owned tracks
can hold two copies of one video or two tracks of one title. Five taps open
every pair of overlays, on a page and on the one after it.

Fairness. `PoolSpec` assumes weak fairness of each job's handler and worker
(threads with nothing to block on but the pool, a finite queue, and
yt-dlp/ffmpeg, which end or raise). `FairStreamSpec` adds responses in progress,
the passage of the grace window, the reaper's loop and the event loop serving a
socket. No request is ever assumed to be made: in particular nobody has to fetch
a file. `Offline` assumes that promises settle, with a value or an error; `Capture`
that requests are answered, sockets deliver and jobs end, which is
`EveryJobSettles`; the pages that the poll of the queue goes on, requests are
answered and sockets deliver what they have. `Player` assumes nothing: that a
queue of unplayable tracks does not race on for ever is said of every
behaviour. Deadlock is checked except where the cfg says otherwise: an app that
is left, or a bound that is used up, is a state that really stops.

## What the code does otherwise than it says

Two runs check a sentence of the code's own comments and find it violated:

- `capture_sent`: after the analysis of a music URL `audioMode` is `'library'` and
  the panel highlights "add to library", but nothing is selected but the first
  video format, and a download started then is that of a video (`useCapture.ts`
  139, 316), although "When `audioMode === 'library'` the download is routed
  through the library import flow" (`useCapture.ts` 57).
- `player_shuffle`: `toggleShuffle` rebuilds the order from its length
  (`AudioPlayerProvider.tsx` 423), which removals have made shorter than the queue.
  With a, b shuffled, b current, a removed and shuffle off the position is past the
  order: no surface shows a track and b plays on, against "Rebuild `order` around
  the currently playing track" (418). `HeardIsShown` excepts this line and no other.

The models of the following are in the modules as well; the properties of the
other runs name them as excuses or claim no more than holds in spite of them.

1. The entry in `_jobs` exists before the row (`routes.py` 614, 616). A sweep in
   between takes the job for one "whose DB row vanished" (382), removes its
   directory and entry, and the worker fails after the whole download with a
   `KeyError`.
2. `_hash_pool.submit` raises once the interpreter is shutting down
   (`routes.py` 876), and the catch-all turns a finished, announced import into
   `error`. `JobStatus` allows that step and no other.
3. `db.get(job_id) or row` (`routes.py` 1458) falls back to the stale read when
   the row was deleted in between, and the socket waits on a dead hub.
4. Every HomeAuth status of 400 and above ends the session (`auth.py` 71),
   although the comment speaks of genuine rejections only.
5. Between `_jobs.pop` and `db.fail` a viewer is shown an active job and
   disconnected without a verdict.
6. `delete_track` refuses a track in use (409), but counts first and deletes
   later: who adopts it in between loses it. `SparesUse` states what holds.
7. The cap on playlists is checked before the insert and does not count what
   imports create. `CapOvershoot` states what holds.
8. `ensureMediaToken` never rejects, against `OfflineProvider.tsx` 147: without a
   session a download runs through its whole list and records nothing.
9. A tap on the download button before the manifest is read works on an empty
   manifest; a kill between the deletion of files and the write of the manifest
   leaves index entries without files (`OfflineProvider.tsx` 104, 226).
10. The radio's answer restarts playback after a sign-out
    (`AudioPlayerProvider.tsx` 578 against 399).
11. A reorder whose answer is lost, or that fails after a later one was sent,
    leaves an order on show that is not the server's (`PlaylistDetailPage.tsx` 70:
    "snap back to the server's order") until the next refetch. A row picked up
    before a refetch that made the list shorter is dropped as `undefined`, and
    the page cannot draw it.
12. A layer that renders again leaves the stack and enters it on top, so the
    back button may close another one than "the top-most overlay"
    (`backStack.ts` 7); `StackHoldsOpen` states what holds.
13. A card whose socket is lost stays pending until its page is left
    (`useExternalDownload.ts` 59). So does one whose job is cancelled from the queue,
    although the event is mirrored so that it does not "sit disabled forever"
    (`useLiveJobProgress.ts` 72): `isPending` ends with `done` and `error` only.
    `CardSettles` states what holds.
14. Tracks that an import skips before the socket has subscribed are counted in
    the end and never listed (`ImportPage.tsx` 14: "reported").
15. An entry removed from a shuffled order leaves the order and not the queue, so it
    comes back at the next reshuffle, when shuffle is toggled and when the player is
    restored (`AudioPlayerProvider.tsx` 353, 423, 474). The same removal, followed by
    shuffle off, may leave the last entries of the queue out of the order.
16. The radio's answer starts its first track whatever plays by then, also one the
    listener has started meanwhile (`AudioPlayerProvider.tsx` 578).
17. The row of a track that cannot be written leaves its file in the library
    (`routes.py` 735, 1067) until the same track is imported again.
18. A token request that fails drops a token that is still good for half an hour
    (`client.ts` 96); the pages are without one until the next poll.
19. A playlist request whose answer comes after the import page was left opens a
    socket that no page closes (`ImportPage.tsx` 35, 128).
20. A download sends the URL of the input with the choices of the panel
    (`useCapture.ts` 295, 318, 325). If a song and a clip were submitted and the
    song's answer came last, or the input was edited behind the song's panel, "add to
    library" imports the clip, although "Non-music videos can't go to library" (140).
    `ShownIsMusic` states what holds: none does while the panel is the input's.
21. A removal deletes the cover file of a video although another copy of it stays
    (`OfflineProvider.tsx` 226), and the index goes on offering it as the "local cover
    URL for any downloaded copy" (`offlineIndex.ts` 35).

## Proofs

`DownloadJobsProofs` proves, for every set of jobs and requests, every pool size
and any number of restarts:

- `TypeCorrect`: `Spec => []TypeOK`.
- `RowCorrect`: `Spec => []RowMatchesWorker`. The invariant ties each row's
  status to the position of its job's thread. It is inductive together with
  `TypeOK` because it also says what a pending delete may hit: without that part
  a delete that passed its check could remove the row of an active job.
- `ActiveCorrect`: `Spec => []ActiveIsLive`, a consequence of the above.
- `TerminalCorrect`: `Spec => TerminalIsFinal`, from the same invariant: a step
  that writes a row stands at a position where the row is not terminal, except
  the import at shutdown.
- `Refinement`: `Spec => ImplementsJobStatus`: every step of the jobs maps to
  one step of the abstract row, or to none.

- `ResultCorrect`: `Spec => []FreshResultFetchable`. A fresh `done` row says
  nothing of memory and disk by itself; `ResultInv` adds why nobody takes them
  away: a worker about to write `done` has published its file (`Kept`), the
  cleanup of a response has noted that the file was handed out (`Handed`), and
  what the sweep has judged stays condemned until it is removed (`Judged`).
- `ViewersLookOn`: `StreamSpec => Spec`, so that all of the above holds with
  viewers, and `ViewersHear`: `StreamSpec => []NoDeadWait`. `SeatOK` says for
  each viewer that it joined the log at a point that exists, and that while it
  waits its event is in the queue, or the thread of the job still has to put it,
  or the row was deleted between its two reads.

`AccessProofs` proves, for every number of sessions, requests and locks:

- `TypeCorrect`, and `SingleFlight`: `Spec => []OneRefresher`. The difficulty is
  that lock objects are replaced. The invariant says that whoever waits for a
  lock or holds one has the session's current lock as long as the session lives
  (`CurrentLock`), because bookkeeping is dropped behind a deleted row only
  (`DropsBehindDeletion`) and deleted rows stay deleted; and that nobody presents
  a cookie without the row having been live under that lock.
- `NoSpentCookie`: `Spec => []NoRotatedCookie`, by an invariant on where the
  accepted cookie is: in the row, or with the one thread about to store it.
- `DeletedForGood`: `Spec => GoneStaysGone`.

It proves of the limiter, for every set of keys and callers and every budget,
window and lag, `WindowTypeCorrect`, `BudgetCorrect` (`BudgetKept`),
`RefusalCorrect` (`RefusedForCause`) and `RetryCorrect` (`RetryAfterHonoured`).
The inductive invariant says that a stamp lags behind its event by at most
`Skew`, that what has left a deque was older than a window when it left, and that
a deque never holds more than the budget; the budget follows because the event
`MaxEvents` places later can only have been let through after the earlier one had
left. For the last theorem `WordInv` follows what a refused caller was told: while
nobody of its key came later, the deque has room already or its oldest event will
be out of the window by then - although others sweep, and stamps arrive out of
order.

`LibraryProofs` proves, for any tracks, playlists, users, imports, streams and
deletions, every property of the run, and that imports deliver:

- `TypeCorrect`: references resolve. It is inductive together with the fact that
  a thread past its first step names a track.
- `RowsCorrect`, `FilesCorrect`: `DiskInv` pairs rows and files; what it adds is
  that an import about to register a track has put the file there, or it was
  stolen.
- `DeliveryCorrect`: `ImportInv` says, for each position of an import, what it
  has already established unless it was hit.
- `StreamsCorrect`, `UseSpared`: action properties, from `StreamInv` (a stream
  that has read a row and was not hit still has that row) and
  `CountInv` (a deletion that counted nothing and that nobody joined has no use
  to hit).

`PlaylistsProofs` proves, for any tracks, playlists, users, requests and imports,
any cap and bodies of any length, every property of the run, and who owns what is written:

- Lemmas about columns first: a smallest and a largest element, the rank of a
  track among those appended, and `AppendedColumn`, `WithoutColumn`,
  `ReorderedColumn`: each write keeps a column distinct and bounded and, for an
  append, puts what is new behind what was there.
- `PositionsCorrect` from `Columns`, which needs every column to be bounded, or
  there would be no next position.
- `OwnersCorrect` from `RequestInv` and `ImportInv`: what was checked before the
  write still holds at the write, or the list is gone; its id is not given out
  again meanwhile.
- `CapCorrect`: the count and the requests about to create stay below the cap
  plus the number of requests.
- `ListsCorrect`: `Spec => ImplementsOrderedLists`.

`ClientProofs` proves, for any users, any number of sessions and requests, every
token lifetime longer than the margin and every margin of two polls or more:
`AccountsApart` (`OneAccount`), from an invariant that what is cached, or will
be, belongs to the session the user signed in with; `TokenAlive`
(`NoDeadToken`), from `Renewed`: the age of a token and the wait for the next
poll stay together below the start of the margin plus one poll, or plus two
while a token request is in flight; `CauseOfSignOut`.

`CaptureProofs` proves `NoVideoInLibrary` (`ShownIsMusic`): while the panel of a
video is up the mode is `file`, whatever analyses and choices came before. That the
URL sent is the panel's is its hypothesis, and cannot be left out (item 20 above).

`OfflineProofs` proves `FilesRecorded` (`IndexRecorded`), `FilesBacked`
(`IndexBacked`), `HeldForEach` (`HeldByEach`) and `SharedSpared`
(`SharedStays`). The invariant of the first two follows the head of the mutex:
what an operation has transferred and not yet recorded, what a removal has
deleted and not yet dropped from the manifest, and that the sweep starts from
the manifest of the hydration. For the third, `HeldInv` says at every position
of a list which tracks the download is through with (`Passed`): each is held by
its collection, or no longer in the manifest. For the fourth, `Visited` says
that what a removal has yet to visit is what the manifest says, although the
manifest changes under others.

`ScreenProofs` proves, for any tracks, queues, orders and feeds, every safety
property of the player:

- Lemmas about sequences first: what a join, an insertion or a withdrawal does to
  length, elements and injectivity, and that every arrangement of a finite set
  names each element once. They replace the induction over permutations a shuffle
  seems to ask for.
- `OrderedOnce` (`NoEntryTwice`) from `Lined`: the order is injective and names
  entries of the queue, and the position is within it while it is shuffled. An
  order that is not shuffled may end before the position: `toggleShuffle` after
  removals leaves it so, which the first, simpler invariant did not allow.
- `HeardShown` (`HeardIsShown`): by `StepLoads` every step leaves both the element
  and the current track alone, or loads the track it makes current; the one that does
  neither is shuffle turned off over a shortened order, and `Loaded` follows that
  line until a step loads again.
- `EditsSpareTrack` (`EditsKeepTrack`) and `LineKept` (`LineSurvives`): action
  properties, from `Lined` and the lemmas.

and of the pages, for any contents and any number of gestures, requests, jobs and
renders:

- Lemmas about `Filter`: `Ranks` and `Kept` give each kept element its place;
  `Filtered` says what a filtered sequence contains, `FilteredMore` that filtering
  a longer sequence appends.
- `BackClosesTop` (`StackHoldsOpen`) from `Registered`: only a component whose
  effects are owed may differ from the stack.
- `AlbumKeepsOwned` (`NothingLost`): an album is derived from two lists at once,
  so the argument is not about steps: who takes the row an owned track matches is
  an owned track of that row (`MatchIsOwned`).
- `ImportReported` (`ReportIsOfThisImport`) from `ImportInv`: what the job of the
  open socket has skipped is what is listed and what is on its way, in that order.
- `PlaylistAgrees` (`PageAgrees`) from `PageInv`: an answer that is out of date is
  followed by another while the page is there to ask for it. A page that is left
  or has crashed asks no more, and an empty page shows nothing that a `Moot` reorder
  could leave behind; the proof failed until the invariant said both.
- `PagesCorrect`: the four together under the router.

Assumptions: `JobsAssumption` (imports are jobs, `NoJob` is not) and
`BoundsAssumption`; `WindowAssumption` (in particular `Skew <= Window`: nobody
waits for the limiter's lock longer than a window); `SessionsAssumption`;
`LibraryAssumption` (the "none" values are no tracks, playlists or users);
`PlaylistsAssumption` (finite sets of tracks, playlists and requests, a cap and
bodies of at least one); `ClientAssumption`, in particular `Margin < TTL`: the
lifetime the server is configured with (`MEDIA_TOKEN_TTL_SEC`) exceeds the
client's half hour, or a token would be dead while it counts as fresh, and
`2 * Period <= Margin`: a poll may find the token fresh just before the margin, and
the request of the next one may take until the one after;
`CaptureAssumption` and `OfflineAssumption`; `PlayerAssumption` and
`PlaylistPageAssumption` (finite sets of tracks, queues of tracks, bounds that are
numbers); `AlbumsAssumption` (libraries and editions are lists of tracks);
`JobServerAssumption`, `BulkImportAssumption` and `BackStackAssumption` (bounds that
are numbers). TLC evaluates each of them in a run.

Five theorems are about invariants and action properties that no run lists any
more, because each follows from one that is listed: `ActiveIsLive`,
`TerminalIsFinal`, `OneRefresher`, `OwnersOnly` and `Delivered`; the type
invariants and `RefusedForCause` are proved as well.

Every safety invariant, action property and refinement of a passing run is stated
by a theorem. Only model-checked is liveness: `EveryJobSettles`, `EveryStreamEnds`,
`TmpReclaimed`, `ChainDrains`, `NoFrozenDownload`, `RowsSettle`,
`CardSettles` and `ImportEnds`, which rest on fairness, and `NoSkipStorm`, which
needs none but counts failures up to a bound that may be any number, an induction
the temporal prover cannot do.

## Not modelled

- Recommendations, categories, statistics and administration pages: rankings and
  reads of columns nothing else depends on.
- The media pipeline (yt-dlp, ffmpeg, YouTube Music, Spotify): external
  processes and parsing; a download is one step that ends, raises or is cancelled.
- Migrations: one write transaction at startup, whose hard part is SQLite's.
- Preview, cover and search caches, and the extraction pool: entries are never
  updated, a missing one costs a second extraction.
- The order of the login route's checks; each of its windows is `SlidingWindow`.
- Favourites (hearts), likes and their page: optimistic flags that the next fetch
  overwrites. Creating a playlist and adding to it in two requests
  (`AddToPlaylistMenu.tsx` 116, `PlayerBar.tsx` 417): a retry makes a second one.
- Names, descriptions, covers and visibility of playlists; metadata backfill and
  the listening log of the library.
- Exceptions raised by the database inside an except branch (the job would stay
  active until the next start); the read of `os.path.isfile` before a response
  that opens the file later is merged into `Send`; progress percentages.
- In the client: playback time and volume, the position to resume at, torn
  writes of the manifest, handlers that fire twice in one render.
- Packaging and configuration.

## What could come next

`JobServer` shown to abstract `ProgressStream`, so that what the pages assume of a
job follows from the jobs; the login route over `SlidingWindow`; favourites across
the pages that show them.
