------------------------------ MODULE OfflineProofs -----------------------------
(***************************************************************************)
(* What the player takes from the device is there and recorded, for any    *)
(* tracks, collections and lists, any number of taps and restarts, and     *)
(* whatever transfers, writes and covers fail.  As long as nobody has been *)
(* hurt (Offline), operations run only after hydration, one at a time, and *)
(* each stage of a removal accounts for every file the index still names.  *)
(***************************************************************************)
EXTENDS Offline, WellFoundedInduction, TLAPS

Shape(m) == m = [tracks |-> m.tracks, playlists |-> m.playlists]

Operation ==
    {Sweep} \cup [kind : {"download", "remove"}, id : Collections, list : Lists \cup {<<>>}]

Removing == at \in {"visit", "unfile"}

\* The mutex: a stage belongs to an operation of its kind.
Staged ==
    /\ Shape(manifest) /\ Shape(saved)
    /\ chain \in Seq(Operation)
    /\ disk \in {"unread", "indexing", "hydrated"}
    /\ at \in {"start", "track", "cover", "link", "linkCover", "visit", "unfile", "write"}
    /\ at # "start" => chain # <<>>
    /\ at \in {"track", "cover", "link", "linkCover"} => Head(chain).kind = "download"
    /\ at \in {"visit", "unfile", "write"} => Head(chain).kind = "remove"

\* Before the index is complete no operation runs, and it holds nothing but what
\* the saved manifest names.
Starting ==
    disk # "hydrated" =>
        /\ chain = <<>>
        /\ DOMAIN saved.tracks \subseteq audio
        /\ disk = "unread" => DOMAIN index = {}
        /\ disk = "indexing" => manifest = saved /\ DOMAIN todo \subseteq DOMAIN saved.tracks

Recorded == DOMAIN index \subseteq DOMAIN manifest.tracks

\* No entry of the manifest lacks its file, but for those a removal has visited.
Filed == ~Removing => DOMAIN manifest.tracks \subseteq audio

\* A download has the file before the entry, the entry before the index.
Downloading ==
    /\ at = "cover" => Track \in audio
    /\ at \in {"link", "linkCover"} => Track \in DOMAIN manifest.tracks

\* A removal has each entry in one of its hands, with its file unless it is doomed.
Accounted ==
    Removing =>
        /\ DOMAIN left \cap DOMAIN next = {}
        /\ DOMAIN index \subseteq DOMAIN left \cup DOMAIN next
        /\ DOMAIN next \subseteq audio
        /\ at = "visit" => DOMAIN left \subseteq audio
        /\ at = "unfile" => doomed \in DOMAIN left /\ DOMAIN left \ {doomed} \subseteq audio

IInv == Staged /\ (~hurt => Starting /\ Recorded /\ Filed /\ Downloading /\ Accounted)

-------------------------------------------------------------------------------

LEMMA InitHolds == Init => IInv
BY DEF Init, IInv, Staged, Shape, Empty, Starting, Recorded, Filed, Downloading, Accounted,
       Removing

\* The chain without its head, or with one more operation.
LEMMA ChainFacts ==
    ASSUME NEW c \in Seq(Operation)
    PROVE  /\ c # <<>> => Tail(c) \in Seq(Operation) /\ Head(c) \in Operation
           /\ \A o \in Operation :
                 /\ Append(c, o) \in Seq(Operation) /\ Append(c, o) # <<>>
                 /\ c # <<>> => Head(Append(c, o)) = Head(c)
OBVIOUS

\* An operation that ends leaves a mutex at rest.
LEMMA ReleaseKeeps ==
    ASSUME Staged, Shape(manifest'), Shape(saved'), disk' = disk, chain # <<>>,
           chain' = Tail(chain), at' = "start"
    PROVE  Staged'
BY ChainFacts DEF Staged

\* A step that only queues an operation disturbs nothing.
LEMMA QueueKeeps ==
    ASSUME IInv, NEW o \in Operation, chain' = Append(chain, o),
           UNCHANGED <<device, manifest, indexed, hydration, active, running>>,
           hurt' = (hurt \/ ~ready)
    PROVE  IInv'
<1>1. Staged'
  BY ChainFacts DEF IInv, Staged, device, running, hydration
<1>2. ASSUME ~hurt'
      PROVE  Starting' /\ Recorded' /\ Filed' /\ Accounted'
  <2>1. ~hurt /\ disk = "hydrated"
    BY <1>2 DEF ready
  <2> QED
    BY <2>1
    DEF IInv, Starting, Recorded, Filed, Accounted, Removing, device, indexed, hydration, running
<1>3. ASSUME ~hurt' PROVE Downloading'
  <2>1. ~hurt
    BY <1>3
  <2>2. at # "start" => Head(chain') = Head(chain)
    BY ChainFacts DEF IInv, Staged
  <2> QED
    BY <2>1, <2>2 DEF IInv, Downloading, Track, Here, Ahead, List, device, running
<1> QED
  BY <1>1, <1>2, <1>3 DEF IInv

-------------------------------------------------------------------------------

LEMMA HydrationKeeps == IInv /\ Hydration => IInv'
<1> SUFFICES ASSUME IInv, Hydration PROVE IInv'
  OBVIOUS
<1>1. CASE ReadManifest
  <2>1. Staged'
    BY <1>1 DEF ReadManifest, IInv, Staged, device, running
  <2>2. ASSUME ~hurt PROVE at = "start"
    BY <1>1, <2>2 DEF ReadManifest, IInv, Staged, Starting
  <2> QED
    BY <1>1, <2>1, <2>2
    DEF ReadManifest, IInv, Starting, Recorded, Filed, Downloading, Accounted, Removing,
        device, indexed, running, counted
<1>2. ASSUME NEW k \in Keys, HydrateEntry(k) PROVE IInv'
  <2>1. /\ DOMAIN index' \subseteq DOMAIN index \cup {k}
        /\ k \in DOMAIN todo /\ DOMAIN todo' \subseteq DOMAIN todo /\ disk = "indexing"
    BY <1>2 DEF HydrateEntry, SetIndex, Without, indexed
  <2>2. Staged'
    BY <1>2 DEF HydrateEntry, IInv, Staged, device, running
  <2>3. ASSUME ~hurt PROVE at = "start"
    BY <2>1, <2>3 DEF IInv, Staged, Starting
  <2> QED
    BY <1>2, <2>1, <2>2, <2>3
    DEF HydrateEntry, IInv, Starting, Recorded, Filed, Downloading, Accounted, Removing,
        device, running, counted
<1>3. CASE Hydrated
  <2>1. Staged'
    BY <1>3, ChainFacts DEF Hydrated, Run, Operation, IInv, Staged, device, running
  <2>2. ASSUME ~hurt PROVE at = "start"
    BY <1>3, <2>2 DEF Hydrated, IInv, Staged, Starting
  <2> QED
    BY <1>3, <2>1, <2>2
    DEF Hydrated, IInv, Starting, Recorded, Filed, Downloading, Accounted, Removing,
        device, indexed, running, counted
<1> QED
  BY <1>1, <1>2, <1>3 DEF Hydration

\* While an operation runs unhurt, the index is complete.
LEMMA Complete ==
    ASSUME IInv, ~hurt, chain # <<>> PROVE disk = "hydrated"
BY DEF IInv, Starting

\* The sweep.
LEMMA ReconcileKeeps == IInv /\ Reconcile => IInv'
<1> SUFFICES ASSUME IInv, Reconcile PROVE IInv'
  OBVIOUS
<1>1. chain # <<>> /\ at = "start" /\ at' = "start"
  BY DEF Reconcile, Runs, Release, Settled
<1>2. Staged'
  BY <1>1, ReleaseKeeps DEF Reconcile, Release, Settled, IInv, Staged, hydration
<1>3. ASSUME ~hurt' PROVE Starting' /\ Recorded' /\ Filed' /\ Downloading' /\ Accounted'
  <2>1. ~hurt /\ disk = "hydrated"
    BY <1>1, <1>3, Complete DEF Reconcile, counted
  <2> QED
    BY <1>1, <2>1
    DEF Reconcile, IInv, Starting, Recorded, Filed, Downloading, Accounted, Removing,
        indexed, hydration
<1> QED
  BY <1>2, <1>3 DEF IInv

LEMMA DownloadKeeps ==
    IInv /\ (Register \/ AlreadyOnDisk \/ Transfer \/ Record \/ Link \/ Saved) => IInv'
<1> SUFFICES ASSUME IInv, Register \/ AlreadyOnDisk \/ Transfer \/ Record \/ Link \/ Saved
             PROVE  IInv'
  OBVIOUS
<1>0. /\ chain # <<>> /\ Head(chain).kind = "download" /\ ~Removing
      /\ at \in {"start", "track", "cover", "link", "linkCover"}
  BY DEF Register, AlreadyOnDisk, Transfer, Record, Link, Saved, Runs, Removing
<1>h. /\ hurt' = hurt /\ disk' = disk
      /\ ~hurt => disk = "hydrated"
  BY <1>0, Complete
  DEF Register, AlreadyOnDisk, Transfer, Record, Link, Saved, counted, hydration
<1>1. CASE Register
  <2>1. /\ Shape(manifest') /\ manifest'.tracks = manifest.tracks
    BY <1>1 DEF Register, IInv, Staged, Shape
  <2>2. Staged'
    BY <1>0, <1>1, <2>1 DEF Register, IInv, Staged, Shape, device, hydration
  <2> QED
    BY <1>0, <1>h, <1>1, <2>1, <2>2
    DEF Register, IInv, Starting, Recorded, Filed, Downloading, Accounted, Removing,
        device, indexed
<1>2. CASE AlreadyOnDisk
  <2>1. /\ Shape(manifest') /\ DOMAIN manifest'.tracks = DOMAIN manifest.tracks
    BY <1>2 DEF AlreadyOnDisk, IInv, Staged, Shape
  <2>2. at = "track" /\ at' = "track"
    BY <1>2 DEF AlreadyOnDisk, Runs
  <2>3. Staged'
    BY <1>0, <1>2, <2>1, <2>2 DEF AlreadyOnDisk, IInv, Staged, Shape, device, hydration
  <2> QED
    BY <1>0, <1>h, <1>2, <2>1, <2>2, <2>3
    DEF AlreadyOnDisk, IInv, Starting, Recorded, Filed, Downloading, Accounted, Removing,
        device, indexed
<1>3. CASE Transfer
  <2>1. /\ audio \subseteq audio' /\ at' \in {"track", "cover"}
        /\ at' = "cover" => Track' \in audio'
    BY <1>3 DEF Transfer, Track, Here, Ahead, List, Runs
  <2>2. Staged'
    BY <1>0, <1>3, <2>1 DEF Transfer, IInv, Staged, hydration
  <2> QED
    BY <1>0, <1>h, <1>3, <2>1, <2>2
    DEF Transfer, IInv, Starting, Recorded, Filed, Downloading, Accounted, Removing, indexed
<1>4. CASE Record
  <2>1. /\ Shape(manifest')
        /\ DOMAIN manifest'.tracks = DOMAIN manifest.tracks \cup {Track}
    BY <1>4 DEF Record, IInv, Staged, Shape
  <2>2. at = "cover" /\ at' \in {"link", "linkCover"} /\ Track' = Track
    BY <1>4 DEF Record, Runs, Track, Here, Ahead, List
  <2>3. Staged'
    BY <1>0, <1>4, <2>1, <2>2 DEF Record, IInv, Staged, Shape, hydration
  <2> QED
    BY <1>0, <1>h, <1>4, <2>1, <2>2, <2>3
    DEF Record, IInv, Starting, Recorded, Filed, Downloading, Accounted, Removing, indexed
<1>5. CASE Link
  <2>1. /\ DOMAIN index' \subseteq DOMAIN index \cup {Track} /\ at' = "track"
        /\ at \in {"link", "linkCover"}
    BY <1>5 DEF Link, SetIndex, Runs, indexed
  <2>2. Staged'
    BY <1>0, <1>5, <2>1 DEF Link, IInv, Staged, device, hydration
  <2> QED
    BY <1>0, <1>h, <1>5, <2>1, <2>2
    DEF Link, IInv, Starting, Recorded, Filed, Downloading, Accounted, Removing, device
<1>6. CASE Saved
  <2>1. chain' = Tail(chain) /\ at' = "start" /\ Shape(saved')
    BY <1>6 DEF Saved, Written, NotWritten, Release, Settled, IInv, Staged
  <2>2. Staged'
    BY <1>0, <1>6, <2>1, ReleaseKeeps DEF Saved, IInv, Staged, hydration
  <2> QED
    BY <1>0, <1>h, <1>6, <2>1, <2>2
    DEF Saved, IInv, Starting, Recorded, Filed, Downloading, Accounted, Removing, indexed
<1> QED
  BY <1>1, <1>2, <1>3, <1>4, <1>5, <1>6

LEMMA RemovalKeeps ==
    /\ IInv
    /\ \/ BeginRemoval \/ (\E k \in Keys : Keep(k) \/ DeleteAudio(k))
       \/ DeleteCover \/ Removed \/ RemovalSaved
    => IInv'
<1> SUFFICES ASSUME IInv,
                    \/ BeginRemoval \/ (\E k \in Keys : Keep(k) \/ DeleteAudio(k))
                    \/ DeleteCover \/ Removed \/ RemovalSaved
             PROVE  IInv'
  OBVIOUS
<1>0. /\ chain # <<>> /\ Head(chain).kind = "remove"
      /\ at \in {"start", "visit", "unfile", "write"}
  BY DEF BeginRemoval, Keep, DeleteAudio, DeleteCover, Removed, RemovalSaved, Runs
<1>h. /\ hurt' = hurt /\ disk' = disk
      /\ ~hurt => disk = "hydrated"
  BY <1>0, Complete
  DEF BeginRemoval, Keep, DeleteAudio, DeleteCover, Removed, RemovalSaved, counted, hydration
<1>1. CASE BeginRemoval
  <2>1. Staged'
    BY <1>0, <1>1 DEF BeginRemoval, IInv, Staged, device, hydration
  <2>2. at = "start" /\ at' = "visit" /\ DOMAIN next' = {} /\ left' = manifest.tracks
    BY <1>1 DEF BeginRemoval, Runs
  <2> QED
    BY <1>h, <1>1, <2>1, <2>2
    DEF BeginRemoval, IInv, Starting, Recorded, Filed, Downloading, Accounted, Removing,
        device, indexed
<1>2. ASSUME NEW k \in Keys, Keep(k) PROVE IInv'
  <2>1. /\ at = "visit" /\ at' = "visit" /\ k \in DOMAIN left
        /\ DOMAIN next' = DOMAIN next \cup {k} /\ DOMAIN left' = DOMAIN left \ {k}
    BY <1>2 DEF Keep, Kept, Without, Runs
  <2>2. Staged'
    BY <1>0, <1>2, <2>1 DEF Keep, IInv, Staged, device, hydration
  <2> QED
    BY <1>h, <1>2, <2>1, <2>2
    DEF Keep, IInv, Starting, Recorded, Filed, Downloading, Accounted, Removing, device, indexed
<1>3. ASSUME NEW k \in Keys, DeleteAudio(k) PROVE IInv'
  <2>1. /\ at = "visit" /\ at' = "unfile" /\ k \in DOMAIN left /\ doomed' = k
        /\ audio' = audio \ {k}
    BY <1>3 DEF DeleteAudio, Runs
  <2>2. Staged'
    BY <1>0, <1>3, <2>1 DEF DeleteAudio, IInv, Staged, hydration
  <2> QED
    BY <1>h, <1>3, <2>1, <2>2
    DEF DeleteAudio, IInv, Starting, Recorded, Filed, Downloading, Accounted, Removing, indexed
<1>4. CASE DeleteCover
  <2>1. /\ at = "unfile" /\ at' = "visit"
        /\ DOMAIN index' = DOMAIN index \ {doomed} /\ DOMAIN left' = DOMAIN left \ {doomed}
    BY <1>4 DEF DeleteCover, RemoveIndex, Without, Runs, indexed
  <2>2. Staged'
    BY <1>0, <1>4, <2>1 DEF DeleteCover, IInv, Staged, hydration
  <2> QED
    BY <1>h, <1>4, <2>1, <2>2
    DEF DeleteCover, IInv, Starting, Recorded, Filed, Downloading, Accounted, Removing
<1>5. CASE Removed
  <2>1. /\ at = "visit" /\ at' = "write" /\ DOMAIN left = {}
        /\ Shape(manifest') /\ manifest'.tracks = next
    BY <1>5 DEF Removed, Runs, Shape
  <2>2. Staged'
    BY <1>0, <1>5, <2>1 DEF Removed, IInv, Staged, device, hydration
  <2> QED
    BY <1>h, <1>5, <2>1, <2>2
    DEF Removed, IInv, Starting, Recorded, Filed, Downloading, Accounted, Removing,
        device, indexed
<1>6. CASE RemovalSaved
  <2>1. chain' = Tail(chain) /\ at = "write" /\ at' = "start" /\ Shape(saved')
    BY <1>6 DEF RemovalSaved, Runs, Written, NotWritten, Release, Settled, IInv, Staged
  <2>2. Staged'
    BY <1>0, <1>6, <2>1, ReleaseKeeps DEF RemovalSaved, IInv, Staged, hydration
  <2> QED
    BY <1>h, <1>6, <2>1, <2>2
    DEF RemovalSaved, IInv, Starting, Recorded, Filed, Downloading, Accounted, Removing, indexed
<1> QED
  BY <1>1, <1>2, <1>3, <1>4, <1>5, <1>6

LEMMA TapKeeps == IInv /\ Tap => IInv'
<1> SUFFICES ASSUME IInv, Tap PROVE IInv'
  OBVIOUS
<1>1. ASSUME NEW c \in Collections, NEW list \in Lists, TapDownload(c, list) PROVE IInv'
  <2>1. [kind |-> "download", id |-> c, list |-> list] \in Operation
    BY DEF Operation
  <2> QED
    BY <1>1, <2>1, QueueKeeps DEF TapDownload, Run, Tapped
<1>2. ASSUME NEW c \in Collections, NEW list, TapRemove(c, list) PROVE IInv'
  <2>1. [kind |-> "remove", id |-> c, list |-> <<>>] \in Operation
    BY DEF Operation
  <2> QED
    BY <1>2, <2>1, QueueKeeps DEF TapRemove, Run, Tapped
<1> QED
  BY <1>1, <1>2 DEF Tap

LEMMA RestartKeeps == IInv /\ Restart => IInv'
<1> SUFFICES ASSUME IInv, Restart PROVE IInv'
  OBVIOUS
<1>1. /\ manifest' = Empty /\ DOMAIN index' = {} /\ chain' = <<>> /\ at' = "start"
      /\ disk' = "unread" /\ audio' = audio /\ saved' = saved
  BY DEF Restart, Settled, device
<1>2. Staged'
  <2>1. Shape(manifest') /\ chain' \in Seq(Operation)
    BY <1>1 DEF Empty, Shape
  <2> QED
    BY <1>1, <2>1 DEF IInv, Staged
<1>3. DOMAIN manifest'.tracks = {}
  BY <1>1 DEF Empty
<1>4. ~hurt' => DOMAIN saved.tracks \subseteq audio
  BY DEF Restart
<1> QED
  BY <1>1, <1>2, <1>3, <1>4
  DEF IInv, Starting, Recorded, Filed, Downloading, Accounted, Removing

LEMMA StepKeeps == IInv /\ [Next]_vars => IInv'
<1>1. IInv /\ UNCHANGED vars => IInv'
  BY DEF vars, device, indexed, hydration, running, counted, IInv, Staged, Starting, Recorded,
         Filed, Downloading, Accounted, Removing, Track, Here, Ahead, List
<1> QED
  BY <1>1, HydrationKeeps, ReconcileKeeps, DownloadKeeps, RemovalKeeps, TapKeeps, RestartKeeps
  DEF Next, OperationStep

LEMMA Consequences == IInv => IndexBacked /\ IndexRecorded
<1> SUFFICES ASSUME IInv, ~hurt PROVE IndexBacked /\ IndexRecorded
  BY DEF IndexBacked, IndexRecorded
<1>1. IndexRecorded
  BY DEF IInv, Recorded, IndexRecorded
<1>2. CASE Removing
  <2>1. Head(chain).kind = "remove" /\ chain # <<>>
    BY <1>2 DEF IInv, Staged, Removing
  <2> QED
    BY <1>1, <1>2, <2>1 DEF IInv, Accounted, IndexBacked, Runs, Removing
<1>3. CASE ~Removing
  BY <1>1, <1>3 DEF IInv, Recorded, Filed, IndexBacked
<1> QED
  BY <1>2, <1>3

-------------------------------------------------------------------------------

\* No sweep, removal or failed transfer takes a file the player may ask for.
THEOREM FilesBacked == Spec => []IndexBacked
<1>1. IInv => IndexBacked
  BY Consequences
<1> QED
  BY InitHolds, StepKeeps, <1>1, PTL DEF Spec

\* No operation loses the manifest entry of a track the player may ask for.
THEOREM FilesRecorded == Spec => []IndexRecorded
<1>1. IInv => IndexRecorded
  BY Consequences
<1> QED
  BY InitHolds, StepKeeps, <1>1, PTL DEF Spec

-------------------------------------------------------------------------------
(* Every track on the device is held by each collection it was downloaded for *)

Entry(e)  == e = [ids |-> e.ids, cover |-> e.cover]
Listed(f) == f = [k \in DOMAIN f |-> f[k]] /\ \A k \in DOMAIN f : Entry(f[k])

Entries ==
    /\ Listed(manifest.tracks) /\ Listed(saved.tracks)
    /\ Listed(left) /\ Listed(next)

\* The positions a download is through with.
Past(i) == i <= item \/ (at \in {"link", "linkCover"} /\ i = Here)

\* What it is through with is held by its collection, or it is not on the device.
Passed ==
    at \in {"track", "cover", "link", "linkCover"} =>
        \A i \in DOMAIN List :
            /\ Past(i)
            /\ List[i] \in DOMAIN manifest.tracks \ Previews
            => Id \in manifest.tracks[List[i]].ids

\* A track in hand is one of those ahead.
InHand == at \in {"cover", "link", "linkCover"} => Ahead # {}

HeldInv == Entries /\ item \in Nat /\ InHand /\ (~hurt => Passed)

LEMMA Smallest ==
    ASSUME NEW S \in SUBSET Nat, S # {}
    PROVE  \E m \in S : \A n \in S : m =< n
<1>1. \E m \in S : \A n \in S : ~(<<n, m>> \in OpToRel(<, Nat))
  BY WFMin, NatLessThanWellFounded, Zenon
<1>2. PICK m \in S : \A n \in S : ~(n < m)
  BY <1>1, Zenon DEF OpToRel
<1> QED BY <1>2

\* The next position of a download is the first real one ahead.
LEMMA HereIsNext ==
    ASSUME IInv, chain # <<>>, Head(chain).kind = "download", item \in Nat
    PROVE  /\ List \in Seq(Keys) /\ DOMAIN List \subseteq Nat \ {0}
           /\ Ahead # {} => Here \in Ahead /\ Here \in Nat /\ \A i \in Ahead : Here <= i
<1>1. List \in Seq(Keys)
  <2>1. Head(chain) \in Operation
    BY ChainFacts DEF IInv, Staged
  <2>2. Head(chain) # Sweep
    BY DEF Sweep
  <2>3. List \in Lists \cup {<<>>}
    BY <2>1, <2>2 DEF Operation, List
  <2>4. <<>> \in Seq(Keys) /\ Lists \subseteq Seq(Keys)
    BY OfflineAssumption
  <2> QED BY <2>3, <2>4, Zenon
<1>2. Ahead \subseteq Nat
  BY <1>1 DEF Ahead
<1>3. ASSUME Ahead # {} PROVE Here \in Ahead /\ \A i \in Ahead : Here <= i
  <2>1. \E m \in Ahead : \A i \in Ahead : m =< i
    BY <1>2, <1>3, Smallest
  <2> QED BY <2>1 DEF Here, Min
<1>4. DOMAIN List \subseteq Nat \ {0}
  <2> QED BY <1>1
<1> QED BY <1>1, <1>2, <1>3, <1>4, Zenon

LEMMA HeldInit == Init => HeldInv
BY DEF Init, HeldInv, Entries, Listed, Empty, InHand, Passed

LEMMA EntriesKept == IInv /\ Entries /\ [Next]_vars => Entries'
<1> SUFFICES ASSUME IInv, Entries, [Next]_vars PROVE Entries'
  OBVIOUS
<1>1. CASE UNCHANGED <<manifest, saved, left, next>>
  BY <1>1 DEF Entries
<1>2. CASE ReadManifest
  BY <1>2 DEF ReadManifest, Entries, device, running
<1>3. CASE Register
  <2>1. manifest'.tracks = manifest.tracks
    BY <1>3 DEF Register, IInv, Staged, Shape
  <2> QED BY <1>3, <2>1 DEF Register, Entries, device
<1>4. CASE AlreadyOnDisk
  <2>1. /\ DOMAIN manifest'.tracks = DOMAIN manifest.tracks
        /\ \A k \in DOMAIN manifest.tracks :
              manifest'.tracks[k] = IF k = Track THEN Owned(manifest.tracks[k])
                                    ELSE manifest.tracks[k]
        /\ manifest'.tracks = [k \in DOMAIN manifest'.tracks |-> manifest'.tracks[k]]
    BY <1>4 DEF AlreadyOnDisk, IInv, Staged, Shape, Entries, Listed
  <2>2. \A e : Entry(e) => Entry(Owned(e))
    BY DEF Entry, Owned
  <2>3. Listed(manifest'.tracks)
    BY <2>1, <2>2 DEF Entries, Listed
  <2> QED BY <1>4, <2>3 DEF AlreadyOnDisk, Entries, device
<1>5. CASE Record
  <2>1. PICK cover \in BOOLEAN :
           manifest' = [manifest EXCEPT !.tracks =
                [k \in DOMAIN @ \cup {Track} |->
                    IF k = Track THEN [ids |-> {Id}, cover |-> cover] ELSE @[k]]]
    BY <1>5 DEF Record
  <2>2. manifest'.tracks = [k \in DOMAIN manifest.tracks \cup {Track} |->
            IF k = Track THEN [ids |-> {Id}, cover |-> cover] ELSE manifest.tracks[k]]
    BY <2>1 DEF IInv, Staged, Shape
  <2>3. Entry([ids |-> {Id}, cover |-> cover])
    BY DEF Entry
  <2>4. Listed(manifest'.tracks)
    BY <2>2, <2>3 DEF Entries, Listed
  <2> QED BY <1>5, <2>4 DEF Record, Entries
<1>6. CASE Saved \/ RemovalSaved
  <2>1. saved' \in {saved, manifest} /\ manifest' = manifest /\ left' = <<>> /\ next' = <<>>
    BY <1>6 DEF Saved, RemovalSaved, Written, NotWritten, Release, Settled
  <2> QED BY <2>1 DEF Entries, Listed
<1>7. CASE BeginRemoval
  BY <1>7 DEF BeginRemoval, Entries, Listed, device
<1>8. ASSUME NEW k \in Keys, Keep(k) PROVE Entries'
  <2>1. k \in DOMAIN left /\ next' = Kept(k) /\ left' = Without(left, k)
        /\ UNCHANGED <<manifest, saved>>
    BY <1>8 DEF Keep, device
  <2>2. Entry(left[k])
    BY <2>1 DEF Entries, Listed
  <2>3. Entry([left[k] EXCEPT !.ids = Others(k)])
    BY <2>2 DEF Entry
  <2>4. Listed(next')
    BY <2>1, <2>3 DEF Kept, Entries, Listed
  <2>5. Listed(left')
    BY <2>1 DEF Without, Entries, Listed
  <2> QED BY <2>1, <2>4, <2>5 DEF Entries
<1>9. CASE DeleteCover
  <2>1. left' = Without(left, doomed) /\ UNCHANGED <<manifest, saved, next>>
    BY <1>9 DEF DeleteCover
  <2>2. Listed(left')
    BY <2>1 DEF Without, Entries, Listed
  <2> QED BY <2>1, <2>2 DEF Entries
<1>10. CASE Removed
  <2>1. manifest'.tracks = next /\ UNCHANGED <<saved, left, next>>
    BY <1>10 DEF Removed, device
  <2> QED BY <2>1 DEF Entries
<1>11. CASE Restart
  <2>1. manifest'.tracks = <<>> /\ left' = <<>> /\ next' = <<>> /\ saved' = saved
    BY <1>11 DEF Restart, Settled, Empty, device
  <2> QED BY <2>1 DEF Entries, Listed
<1>12. CASE Reconcile
  <2>1. left' = <<>> /\ next' = <<>> /\ UNCHANGED <<manifest, saved>>
    BY <1>12 DEF Reconcile, Release, Settled
  <2> QED BY <2>1 DEF Entries, Listed
<1>13. ASSUME \/ UNCHANGED vars \/ Hydrated \/ (\E k \in Keys : HydrateEntry(k)) \/ Tap
              \/ Transfer \/ Link \/ (\E k \in Keys : DeleteAudio(k))
       PROVE  UNCHANGED <<manifest, saved, left, next>>
  <2>1. CASE Tap
    BY <2>1 DEF Tap, TapDownload, TapRemove, Tapped, device, running
  <2> QED BY <1>13, <2>1
    DEF vars, Hydrated, HydrateEntry, Transfer, Link, DeleteAudio, device, running
<1> QED
  BY <1>1, <1>2, <1>3, <1>4, <1>5, <1>6, <1>7, <1>8, <1>9, <1>10, <1>11, <1>12, <1>13
  DEF Next, Hydration, OperationStep

\* A download's step forward in its list.
LEMMA PassedAhead ==
    IInv /\ HeldInv /\ ~hurt /\ (Register \/ AlreadyOnDisk \/ Transfer \/ Record \/ Link)
    => Passed'
<1> SUFFICES ASSUME IInv, HeldInv, ~hurt,
                    Register \/ AlreadyOnDisk \/ Transfer \/ Record \/ Link
             PROVE  Passed'
  OBVIOUS
<1>0. /\ chain # <<>> /\ Head(chain).kind = "download" /\ List' = List /\ Id' = Id
      /\ item \in Nat
  BY DEF Register, AlreadyOnDisk, Transfer, Record, Link, Runs, List, Id, HeldInv
<1>n. /\ DOMAIN List \subseteq Nat \ {0}
      /\ Ahead # {} => Here \in Ahead /\ Here \in Nat /\ \A i \in Ahead : Here <= i
  BY <1>0, HereIsNext
\* The next position is the only one that enters the past.
<1>p. ASSUME Ahead # {}, NEW i \in DOMAIN List, i <= Here, List[i] \notin Previews
      PROVE  i <= item \/ i = Here
  <2>1. CASE i <= item
    BY <2>1
  <2>2. CASE ~(i <= item)
    <3>1. i \in Nat
      BY <1>n
    <3>2. i \in Ahead
      BY <1>0, <1>p, <2>2, <3>1 DEF Ahead
    <3>3. i = Here
      BY <1>n, <1>p, <3>1, <3>2
    <3> QED BY <3>3
  <2> QED BY <2>1, <2>2
<1>1. CASE Register
  <2>1. at' = "track" /\ item' = 0
    BY <1>1 DEF Register
  <2>2. \A i \in DOMAIN List' : ~Past(i)'
    BY <1>0, <1>n, <2>1 DEF Past
  <2> QED BY <2>2 DEF Passed
<1>2. CASE AlreadyOnDisk
  <2>1. /\ at = "track" /\ at' = "track" /\ Ahead # {} /\ item' = Here
        /\ Track \in DOMAIN manifest.tracks
    BY <1>2 DEF AlreadyOnDisk, Runs
  <2>2. /\ DOMAIN manifest'.tracks = DOMAIN manifest.tracks
        /\ \A k \in DOMAIN manifest.tracks :
              manifest'.tracks[k] = IF k = Track THEN Owned(manifest.tracks[k])
                                    ELSE manifest.tracks[k]
    BY <1>2 DEF AlreadyOnDisk, IInv, Staged, Shape, HeldInv, Entries, Listed
  <2>3. \A k \in DOMAIN manifest.tracks :
           /\ manifest.tracks[k].ids \subseteq manifest'.tracks[k].ids
           /\ k = Track => Id \in manifest'.tracks[k].ids
    <3>1. \A e : Entry(e) => e.ids \subseteq Owned(e).ids /\ Id \in Owned(e).ids
      BY DEF Entry, Owned
    <3> QED BY <2>2, <3>1 DEF HeldInv, Entries, Listed
  <2>4. SUFFICES ASSUME NEW i \in DOMAIN List, i <= Here,
                        List[i] \in DOMAIN manifest.tracks \ Previews
                 PROVE  Id \in manifest'.tracks[List[i]].ids
    BY <1>0, <2>1, <2>2 DEF Passed, Past
  <2>5. CASE i = Here
    BY <2>3, <2>4, <2>5 DEF Track
  <2>6. CASE i <= item
    <3>1. Id \in manifest.tracks[List[i]].ids
      BY <2>1, <2>4, <2>6 DEF HeldInv, Passed, Past
    <3> QED BY <2>3, <2>4, <3>1
  <2> QED BY <1>p, <2>1, <2>4, <2>5, <2>6
<1>3. CASE Transfer
  <2>1. /\ at = "track" /\ Ahead # {} /\ Track \notin DOMAIN manifest.tracks
        /\ manifest' = manifest
        /\ \/ at' = "cover" /\ item' = item
           \/ at' = "track" /\ item' = Here
    BY <1>3 DEF Transfer, Runs
  <2>2. SUFFICES ASSUME NEW i \in DOMAIN List, i <= item \/ i <= Here,
                        i <= item' ,
                        List[i] \in DOMAIN manifest.tracks \ Previews
                 PROVE  Id \in manifest.tracks[List[i]].ids
    BY <1>0, <2>1 DEF Passed, Past
  <2>3. i <= item
    BY <1>p, <2>1, <2>2 DEF Track
  <2> QED BY <2>1, <2>2, <2>3 DEF HeldInv, Passed, Past
<1>4. CASE Record
  <2>1. /\ at = "cover" /\ at' \in {"link", "linkCover"} /\ item' = item /\ Here' = Here
        /\ Ahead' = Ahead
    BY <1>0, <1>4 DEF Record, Runs, Here, Ahead
  <2>2. PICK cover \in BOOLEAN :
           manifest' = [manifest EXCEPT !.tracks =
                [k \in DOMAIN @ \cup {Track} |->
                    IF k = Track THEN [ids |-> {Id}, cover |-> cover] ELSE @[k]]]
    BY <1>4 DEF Record
  <2>3. manifest'.tracks = [k \in DOMAIN manifest.tracks \cup {Track} |->
            IF k = Track THEN [ids |-> {Id}, cover |-> cover] ELSE manifest.tracks[k]]
    BY <2>2 DEF IInv, Staged, Shape
  <2>4. SUFFICES ASSUME NEW i \in DOMAIN List, i <= item \/ i = Here,
                        List[i] \in DOMAIN manifest'.tracks \ Previews
                 PROVE  Id \in manifest'.tracks[List[i]].ids
    BY <1>0, <2>1 DEF Passed, Past
  <2>5. CASE List[i] = Track
    BY <2>3, <2>5
  <2>6. CASE List[i] # Track
    <3>1. i <= item /\ List[i] \in DOMAIN manifest.tracks
      BY <2>3, <2>4, <2>6 DEF Track
    <3>2. Id \in manifest.tracks[List[i]].ids
      BY <2>1, <2>4, <3>1 DEF HeldInv, Passed, Past
    <3> QED BY <2>3, <2>6, <3>1, <3>2
  <2> QED BY <2>5, <2>6
<1>5. CASE Link
  <2>1. /\ at \in {"link", "linkCover"} /\ at' = "track" /\ item' = Here
        /\ manifest' = manifest
    BY <1>5 DEF Link, Runs
  <2>2. SUFFICES ASSUME NEW i \in DOMAIN List, i <= Here,
                        List[i] \in DOMAIN manifest.tracks \ Previews
                 PROVE  Id \in manifest.tracks[List[i]].ids
    BY <1>0, <2>1 DEF Passed, Past
  <2>3. i <= item \/ i = Here
    <3>1. CASE Ahead # {}
      BY <1>p, <2>2, <3>1
    <3>2. CASE Ahead = {}
      BY <1>0, <1>n, <2>2, <3>2 DEF Ahead
    <3> QED BY <3>1, <3>2
  <2> QED BY <2>1, <2>2, <2>3 DEF HeldInv, Passed, Past
<1> QED BY <1>1, <1>2, <1>3, <1>4, <1>5

\* Nobody else touches the manifest while a download runs.
LEMMA PassedKept == IInv /\ HeldInv /\ [Next]_vars /\ ~hurt' => Passed'
<1> SUFFICES ASSUME IInv, HeldInv, [Next]_vars, ~hurt' PROVE Passed'
  OBVIOUS
<1>h. ~hurt \/ Restart
  BY DEF Next, Hydration, OperationStep, Tap, ReadManifest, HydrateEntry, Hydrated, Reconcile,
         Register, AlreadyOnDisk, Transfer, Record, Link, Saved, BeginRemoval, Keep,
         DeleteAudio, DeleteCover, Removed, RemovalSaved, TapDownload, TapRemove, Tapped,
         vars, counted
<1>1. CASE ~hurt /\ (Register \/ AlreadyOnDisk \/ Transfer \/ Record \/ Link)
  BY <1>1, PassedAhead
<1>2. CASE Hydration /\ ~hurt
  <2>1. at = "start" /\ at' = at
    BY <1>2 DEF Hydration, ReadManifest, HydrateEntry, Hydrated, IInv, Staged, Starting, running
  <2> QED BY <2>1 DEF Passed
<1>3. CASE Reconcile \/ Saved \/ RemovalSaved \/ Restart
  <2>1. at' = "start"
    BY <1>3 DEF Reconcile, Saved, RemovalSaved, Restart, Written, NotWritten, Release, Settled
  <2> QED BY <2>1 DEF Passed
<1>4. CASE \/ BeginRemoval \/ (\E k \in Keys : Keep(k) \/ DeleteAudio(k))
           \/ DeleteCover \/ Removed
  <2>1. at' \in {"visit", "unfile", "write"}
    BY <1>4 DEF BeginRemoval, Keep, DeleteAudio, DeleteCover, Removed, Runs
  <2> QED BY <2>1 DEF Passed
<1>5. CASE ~hurt /\ (Tap \/ UNCHANGED vars)
  <2>1. /\ UNCHANGED <<manifest, at, item>>
        /\ at # "start" => Head(chain') = Head(chain)
    <3>1. CASE UNCHANGED vars
      BY <3>1 DEF vars, running
    <3>2. CASE Tap
      <4>1. PICK o \in Operation : chain' = Append(chain, o)
        BY <3>2 DEF Tap, TapDownload, TapRemove, Run, Operation
      <4>2. at # "start" => Head(chain') = Head(chain)
        BY <4>1, ChainFacts DEF IInv, Staged
      <4> QED BY <3>2, <4>2 DEF Tap, TapDownload, TapRemove, Tapped, running
    <3> QED BY <1>5, <3>1, <3>2
  <2> QED BY <1>5, <2>1 DEF HeldInv, Passed, Past, Here, Ahead, List, Id
<1> QED BY <1>h, <1>1, <1>2, <1>3, <1>4, <1>5 DEF Next, OperationStep

LEMMA HeldStep == IInv /\ HeldInv /\ [Next]_vars => HeldInv'
<1> SUFFICES ASSUME IInv, HeldInv, [Next]_vars PROVE HeldInv'
  OBVIOUS
<1>1. item' \in Nat
  <2>1. CASE AlreadyOnDisk \/ Transfer \/ Link
    <3>1. /\ chain # <<>> /\ Head(chain).kind = "download" /\ item \in Nat
          /\ item' = item \/ (item' = Here /\ Ahead # {})
      BY <2>1 DEF AlreadyOnDisk, Transfer, Link, Runs, HeldInv, InHand
    <3> QED BY <3>1, HereIsNext
  <2>2. CASE ~(AlreadyOnDisk \/ Transfer \/ Link)
    <3>1. item' \in {item, 0}
      BY <2>2
      DEF Next, Hydration, OperationStep, Tap, ReadManifest, HydrateEntry, Hydrated, Reconcile,
          Register, Record, Saved, BeginRemoval, Keep, DeleteAudio, DeleteCover, Removed,
          RemovalSaved, TapDownload, TapRemove, Tapped, Restart, Written, NotWritten, Release,
          Settled, vars, running
    <3> QED BY <3>1 DEF HeldInv
  <2> QED BY <2>1, <2>2
<1>2. InHand'
  <2>1. CASE Transfer \/ Record
    BY <2>1 DEF Transfer, Record, Runs, HeldInv, InHand, Ahead, List
  <2>2. CASE Hydration \/ Tap \/ UNCHANGED vars
    <3>1. UNCHANGED <<at, item>>
      BY <2>2 DEF Hydration, ReadManifest, HydrateEntry, Hydrated, Tap, TapDownload, TapRemove,
                  Tapped, vars, running
    <3>2. at # "start" => Head(chain') = Head(chain)
      <4>1. chain' = chain \/ \E o \in Operation : chain' = Append(chain, o)
        BY <2>2 DEF Hydration, ReadManifest, HydrateEntry, Hydrated, Tap, TapDownload,
                    TapRemove, Run, Operation, vars
      <4> QED BY <4>1, ChainFacts DEF IInv, Staged
    <3> QED BY <3>1, <3>2 DEF HeldInv, InHand, Ahead, List
  <2>3. CASE ~(Transfer \/ Record \/ Hydration \/ Tap \/ UNCHANGED vars)
    <3>1. at' \in {"start", "track", "visit", "unfile", "write"}
      BY <2>3
      DEF Next, OperationStep, Reconcile, Register, AlreadyOnDisk, Link, Saved, BeginRemoval,
          Keep, DeleteAudio, DeleteCover, Removed, RemovalSaved, Restart, Written, NotWritten,
          Release, Settled, Runs
    <3> QED BY <3>1 DEF InHand
  <2> QED BY <2>1, <2>2, <2>3
<1> QED BY <1>1, <1>2, EntriesKept, PassedKept DEF HeldInv

\* A track downloaded for two collections survives the removal of one: the download
\* that found it on the device has put its collection down, wherever previews stand in
\* its list and whatever failed on the way.
THEOREM HeldForEach == Spec => []HeldByEach
<1>1. IInv /\ HeldInv => HeldByEach
  <2> SUFFICES ASSUME IInv, HeldInv, ~hurt, Runs("download", "track"), Ahead = {},
                      NEW k \in Real(List) \cap DOMAIN manifest.tracks
               PROVE  Id \in manifest.tracks[k].ids
    BY DEF HeldByEach
  <2>1. PICK i \in DOMAIN List : List[i] = k
    BY DEF Real, ToSet
  <2>2. i \in Nat /\ item \in Nat
    BY HereIsNext DEF Runs, HeldInv
  <2>3. i <= item
    BY <2>1, <2>2 DEF Ahead, Real
  <2> QED BY <2>1, <2>3 DEF HeldInv, Passed, Past, Runs, Real
<1> QED
  BY InitHolds, StepKeeps, HeldInit, HeldStep, <1>1, PTL DEF Spec

-------------------------------------------------------------------------------
(* A shared copy outlives the removals of all but its last collection *)

\* What a removal has yet to visit is what the manifest says.
Visited ==
    ~hurt /\ Removing =>
        \A k \in DOMAIN left : k \in DOMAIN manifest.tracks /\ left[k] = manifest.tracks[k]

LEMMA VisitedStep == IInv /\ Visited /\ [Next]_vars => Visited'
<1> SUFFICES ASSUME IInv, Visited, [Next]_vars PROVE Visited'
  OBVIOUS
<1>1. CASE BeginRemoval
  BY <1>1 DEF BeginRemoval, Visited
<1>2. ASSUME NEW k \in Keys, Keep(k) PROVE Visited'
  BY <1>2 DEF Keep, Runs, Without, counted, Visited, Removing
<1>3. ASSUME NEW k \in Keys, DeleteAudio(k) PROVE Visited'
  BY <1>3 DEF DeleteAudio, Runs, counted, Visited, Removing
<1>4. CASE DeleteCover
  BY <1>4 DEF DeleteCover, Runs, Without, counted, Visited, Removing
<1>5. CASE Tap \/ UNCHANGED vars
  <2>1. UNCHANGED <<manifest, running>> /\ (~hurt' => ~hurt)
    <3>1. CASE Tap
      BY <3>1 DEF Tap, TapDownload, TapRemove, Tapped
    <3>2. CASE UNCHANGED vars
      BY <3>2 DEF vars, counted
    <3> QED
      BY <1>5, <3>1, <3>2
  <2> QED
    BY <2>1 DEF running, Visited, Removing
<1>6. CASE Hydration
  <2>1. UNCHANGED <<running, counted>> /\ disk # "hydrated"
    BY <1>6 DEF Hydration, ReadManifest, HydrateEntry, Hydrated
  <2>2. ~hurt => ~Removing
    BY <2>1 DEF IInv, Staged, Starting, Removing
  <2> QED
    BY <2>1, <2>2 DEF running, counted, Visited, Removing
<1>7. CASE \/ Reconcile \/ Register \/ AlreadyOnDisk \/ Transfer \/ Record \/ Link \/ Saved
           \/ Removed \/ RemovalSaved \/ Restart
  <2>1. at' \in {"start", "track", "cover", "link", "linkCover", "write"}
    BY <1>7
    DEF Reconcile, Register, AlreadyOnDisk, Transfer, Record, Link, Saved, Removed,
        RemovalSaved, Restart, Written, NotWritten, Release, Settled, Runs
  <2> QED
    BY <2>1 DEF Visited, Removing
<1> QED
  BY <1>1, <1>2, <1>3, <1>4, <1>5, <1>6, <1>7 DEF Next, OperationStep

\* Who removes a list, or lets the sweep run, takes no file that another list still
\* holds, for any overlap of lists and any downloads queued before or behind it.
THEOREM SharedSpared == Spec => SharedStays
<1>1. Init => Visited
  BY DEF Init, Visited, Removing
<1>2. IInv /\ Visited /\ [Next]_vars =>
        [\A k \in audio \ audio' :
            \/ hurt \/ k \notin DOMAIN manifest.tracks
            \/ Runs("remove", "visit") /\ manifest.tracks[k].ids \subseteq {Id}]_vars
  <2> SUFFICES ASSUME IInv, Visited, Next, ~hurt, NEW k \in audio \ audio',
                      k \in DOMAIN manifest.tracks
               PROVE  Runs("remove", "visit") /\ manifest.tracks[k].ids \subseteq {Id}
    OBVIOUS
  <2>1. ~Reconcile
    BY DEF Reconcile
  <2>2. PICK j \in Keys : DeleteAudio(j)
    BY <2>1
    DEF Next, Hydration, OperationStep, Tap, ReadManifest, HydrateEntry, Hydrated, Register,
        AlreadyOnDisk, Transfer, Record, Link, Saved, BeginRemoval, Keep, DeleteCover, Removed,
        RemovalSaved, TapDownload, TapRemove, Tapped, Restart, device
  <2>3. k = j /\ Runs("remove", "visit") /\ k \in DOMAIN left /\ left[k].ids \ {Id} = {}
    BY <2>2 DEF DeleteAudio, Others
  <2>4. left[k] = manifest.tracks[k]
    BY <2>3 DEF Visited, Removing, Runs
  <2> QED
    BY <2>3, <2>4
<1> QED
  BY InitHolds, StepKeeps, VisitedStep, <1>1, <1>2, PTL DEF Spec, SharedStays

=================================================================================
