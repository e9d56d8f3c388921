----------------------------- MODULE LibraryProofs -----------------------------
(***************************************************************************)
(* The shared library for any number of tracks, playlists, users, imports,  *)
(* deletions and streams.                                                   *)
(***************************************************************************)
EXTENDS Library, TLAPS

\* A thread that is under way knows what it is about.
Placed ==
    /\ \A w \in Importers :
           import[w].pc # "idle" => import[w].track \in Tracks /\ import[w].user \in Users
    /\ \A u \in Users : request[u].pc \in {"adopt", "add"} => request[u].track \in Tracks
    /\ \A s \in Listeners : stream[s].pc # "idle" => stream[s].track \in Tracks
    /\ \A a \in Admins : deletion[a].pc # "idle" => deletion[a].track \in Tracks

TInv == TypeOK /\ Placed

--------------------------------------------------------------------------------

LEMMA IdleTyped ==
    /\ IdleImport \in ImportRecord
    /\ IdleRequest \in RequestRecord
    /\ IdleStream \in StreamRecord
    /\ IdleDeletion \in DeletionRecord
BY DEF IdleImport, IdleRequest, IdleStream, IdleDeletion, ImportRecord, RequestRecord,
       StreamRecord, DeletionRecord

LEMMA InitTInv == Init => TInv
<1> SUFFICES ASSUME Init PROVE TInv OBVIOUS
<1>1. TypeOK BY IdleTyped DEF Init, TypeOK
<1>2. Placed BY DEF Init, Placed, IdleImport, IdleRequest, IdleStream, IdleDeletion
<1> QED BY <1>1, <1>2 DEF TInv

LEMMA JoinTyped ==
    ASSUME deletion \in [Admins -> DeletionRecord], NEW T, Join(T)
    PROVE  /\ deletion' \in [Admins -> DeletionRecord]
           /\ \A a \in Admins : /\ deletion'[a].pc = deletion[a].pc
                                 /\ deletion'[a].track = deletion[a].track
<1> SUFFICES ASSUME NEW a \in Admins
             PROVE  LET d == [deletion[a] EXCEPT !.joined = @ \/ deletion[a].track \in T]
                    IN  d \in DeletionRecord /\ d.pc = deletion[a].pc
                        /\ d.track = deletion[a].track
  BY DEF Join
<1>1. (deletion[a].joined \/ deletion[a].track \in T) \in BOOLEAN OBVIOUS
<1> QED BY <1>1 DEF DeletionRecord

\* An import that moves on to a well-formed record leaves the others well-formed.
ImportPlaced(i) == i.pc # "idle" => i.track \in Tracks /\ i.user \in Users

LEMMA ImportMoves ==
    ASSUME TInv, NEW w \in Importers, NEW i \in ImportRecord, ImportPlaced(i),
           import' = [import EXCEPT ![w] = i],
           tracks' \subseteq Tracks, owners' \subseteq Users \X tracks',
           playlists' \subseteq Lists, entries' \subseteq playlists' \X tracks',
           files' \subseteq Tracks, stolen' \subseteq Tracks, leaked' \subseteq Tracks,
           UNCHANGED <<request, stream>>,
           UNCHANGED deletion \/ \E T \in SUBSET Tracks : Join(T)
    PROVE  TInv'
<1>1. deletion' \in [Admins -> DeletionRecord]
      /\ \A a \in Admins : deletion'[a].pc = deletion[a].pc
                             /\ deletion'[a].track = deletion[a].track
  BY JoinTyped DEF TInv, TypeOK
<1>2. import' \in [Importers -> ImportRecord] BY DEF TInv, TypeOK
<1>3. request' \in [Users -> RequestRecord] /\ stream' \in [Listeners -> StreamRecord]
  BY DEF TInv, TypeOK
<1>4. TypeOK' BY <1>1, <1>2, <1>3 DEF TypeOK
<1>5. \A v \in Importers :
          import'[v].pc # "idle" => import'[v].track \in Tracks /\ import'[v].user \in Users
  <2> SUFFICES ASSUME NEW v \in Importers
               PROVE  ImportPlaced(import'[v])
    BY DEF ImportPlaced
  <2>1. CASE v = w BY <2>1 DEF TInv, TypeOK
  <2>2. CASE v # w
    <3>1. import'[v] = import[v] BY <2>2 DEF TInv, TypeOK
    <3> QED BY <3>1 DEF TInv, Placed, ImportPlaced
  <2> QED BY <2>1, <2>2
<1>6. Placed' BY <1>1, <1>5 DEF TInv, Placed
<1> QED BY <1>4, <1>6 DEF TInv

LEMMA ContinueTyped ==
    ASSUME TInv, NEW w \in Importers, import[w].pc # "idle", NEW i \in Continue(w)
    PROVE  i \in ImportRecord /\ ImportPlaced(i)
<1>1. CASE i = IdleImport BY <1>1, IdleTyped DEF ImportPlaced, IdleImport
<1>2. CASE \E t \in Tracks : i = [import[w] EXCEPT !.pc = "read", !.track = t,
                                                 !.reuse = FALSE, !.hit = FALSE]
  BY <1>2 DEF TInv, TypeOK, Placed, ImportRecord, ImportPlaced
<1> QED BY <1>1, <1>2 DEF Continue

LEMMA GiveUpTyped ==
    ASSUME TInv, NEW w \in Importers, import[w].pc # "idle", GiveUp(w)
    PROVE  \E i \in ImportRecord : ImportPlaced(i) /\ import' = [import EXCEPT ![w] = i]
<1>1. PICK i \in IF import[w].reuse THEN {IdleImport} ELSE Continue(w) :
          import' = [import EXCEPT ![w] = i]
  BY DEF GiveUp
<1>2. i \in ImportRecord /\ ImportPlaced(i)
  <2>1. i \in Continue(w) BY DEF Continue
  <2> QED BY <2>1, ContinueTyped
<1>3. import' = [import EXCEPT ![w] = i] BY <1>1
<1> QED BY <1>2, <1>3, Zenon

LEMMA ImportTypes ==
    ASSUME TInv, NEW w \in Importers, Import(w) PROVE TInv'
<1> DEFINE i == import[w]
<1>0. /\ i \in ImportRecord
      /\ i.pc # "idle" => i.track \in Tracks /\ i.user \in Users
  BY DEF TInv, TypeOK, Placed
<1>t. /\ tracks \subseteq Tracks /\ owners \subseteq Users \X tracks
      /\ playlists \subseteq Lists /\ entries \subseteq playlists \X tracks
      /\ files \subseteq Tracks /\ stolen \subseteq Tracks /\ leaked \subseteq Tracks
      /\ import \in [Importers -> ImportRecord]
  BY DEF TInv, TypeOK
<1>1. CASE ReadTrack(w)
  <2>1. PICK x \in {"stat", "fetch"} : import' = [import EXCEPT ![w] = [i EXCEPT !.pc = x]]
    BY <1>1, <1>t DEF ReadTrack
  <2>2. [i EXCEPT !.pc = x] \in ImportRecord /\ ImportPlaced([i EXCEPT !.pc = x])
    BY <1>0, <1>1 DEF ReadTrack, ImportRecord, ImportPlaced
  <2> QED BY <1>1, <1>t, <2>1, <2>2, ImportMoves DEF ReadTrack, rows
<1>2. CASE StatFile(w)
  <2>1. \E x \in ImportRecord : ImportPlaced(x) /\ import' = [import EXCEPT ![w] = x]
    <3>1. \A x \in {[i EXCEPT !.pc = "link", !.reuse = TRUE], [i EXCEPT !.pc = "fetch"]} :
              x \in ImportRecord /\ ImportPlaced(x)
      BY <1>0, <1>2 DEF StatFile, ImportRecord, ImportPlaced
    <3> QED BY <1>2, <1>t, <3>1 DEF StatFile
  <2> QED BY <1>2, <1>t, <2>1, ImportMoves DEF StatFile, rows
<1>3. CASE Fetch(w)
  <2>1. \E x \in ImportRecord : ImportPlaced(x) /\ import' = [import EXCEPT ![w] = x]
    <3>1. [i EXCEPT !.pc = "size"] \in ImportRecord /\ ImportPlaced([i EXCEPT !.pc = "size"])
      BY <1>0, <1>3 DEF Fetch, ImportRecord, ImportPlaced
    <3> QED BY <1>3, <1>t, <3>1, ContinueTyped DEF Fetch
  <2>2. files' \subseteq Tracks /\ stolen' \subseteq Tracks
    BY <1>0, <1>3, <1>t DEF Fetch
  <2> QED BY <1>3, <1>t, <2>1, <2>2, ImportMoves DEF Fetch, rows
<1>4. CASE Size(w)
  <2>1. \E x \in ImportRecord : ImportPlaced(x) /\ import' = [import EXCEPT ![w] = x]
    <3>1. [i EXCEPT !.pc = "register"] \in ImportRecord
          /\ ImportPlaced([i EXCEPT !.pc = "register"])
      BY <1>0, <1>4 DEF Size, ImportRecord, ImportPlaced
    <3> QED BY <1>4, <1>t, <3>1, GiveUpTyped DEF Size
  <2> QED BY <1>4, <1>t, <2>1, ImportMoves DEF Size, rows
<1>5. CASE Register(w)
  <2>1. [i EXCEPT !.pc = "link"] \in ImportRecord /\ ImportPlaced([i EXCEPT !.pc = "link"])
    BY <1>0, <1>5 DEF Register, ImportRecord, ImportPlaced
  <2>2. import' = [import EXCEPT ![w] = [i EXCEPT !.pc = "link"]] BY <1>5, <1>t DEF Register
  <2>3. tracks' \subseteq Tracks /\ owners' \subseteq Users \X tracks'
        /\ entries' \subseteq playlists' \X tracks' /\ leaked' \subseteq Tracks
    BY <1>0, <1>5, <1>t DEF Register
  <2> QED BY <1>5, <1>t, <2>1, <2>2, <2>3, ImportMoves DEF Register
<1>6. CASE Link(w)
  <2>1. \E x \in ImportRecord : ImportPlaced(x) /\ import' = [import EXCEPT ![w] = x]
    <3> DEFINE X == {[i EXCEPT !.pc = "delivered", !.reuse = FALSE],
                     [i EXCEPT !.pc = "delivered"], [i EXCEPT !.pc = "list"]}
    <3>1. \A x \in X : x \in ImportRecord /\ ImportPlaced(x)
      BY <1>0, <1>6 DEF Link, ImportRecord, ImportPlaced
    <3>2. (\E x \in X : import' = [import EXCEPT ![w] = x]) \/ GiveUp(w)
      BY <1>6, <1>t DEF Link
    <3> QED BY <1>6, <3>1, <3>2, GiveUpTyped DEF Link
  <2>2. owners' \subseteq Users \X tracks
    BY <1>0, <1>6, <1>t DEF Link
  <2>3. UNCHANGED deletion \/ \E T \in SUBSET Tracks : Join(T)
    BY <1>0, <1>6 DEF Link
  <2> QED BY <1>6, <1>t, <2>1, <2>2, <2>3, ImportMoves DEF Link
<1>7. CASE MakeList(w)
  <2>1. PICK l \in Lists : /\ playlists' = playlists \cup {l}
                           /\ import' = [import EXCEPT ![w] = [i EXCEPT !.list = l]]
    BY <1>7, <1>t DEF MakeList
  <2>2. [i EXCEPT !.list = l] \in ImportRecord /\ ImportPlaced([i EXCEPT !.list = l])
    BY <1>0 DEF ImportRecord, ImportPlaced
  <2> QED BY <1>7, <1>t, <2>1, <2>2, ImportMoves DEF MakeList
<1>8. CASE AddEntry(w)
  <2>1. \E x \in ImportRecord : ImportPlaced(x) /\ import' = [import EXCEPT ![w] = x]
    <3>1. [i EXCEPT !.pc = "delivered", !.reuse = FALSE] \in ImportRecord
          /\ ImportPlaced([i EXCEPT !.pc = "delivered", !.reuse = FALSE])
      BY <1>0, <1>8 DEF AddEntry, ImportRecord, ImportPlaced
    <3>2. import' = [import EXCEPT ![w] = [i EXCEPT !.pc = "delivered", !.reuse = FALSE]]
          \/ GiveUp(w)
      BY <1>8, <1>t DEF AddEntry
    <3> QED BY <1>8, <3>1, <3>2, GiveUpTyped DEF AddEntry
  <2>2. entries' \subseteq playlists \X tracks
    BY <1>0, <1>8, <1>t DEF AddEntry
  <2>3. UNCHANGED deletion \/ \E T \in SUBSET Tracks : Join(T)
    BY <1>0, <1>8 DEF AddEntry
  <2> QED BY <1>8, <1>t, <2>1, <2>2, <2>3, ImportMoves DEF AddEntry
<1>9. CASE Deliver(w)
  BY <1>9, <1>t, ContinueTyped, ImportMoves DEF Deliver, rows
<1>10. CASE DbRaises(w)
  <2>1. \E x \in ImportRecord : ImportPlaced(x) /\ import' = [import EXCEPT ![w] = x]
    <3>1. IdleImport \in ImportRecord /\ ImportPlaced(IdleImport)
      BY IdleTyped DEF ImportPlaced, IdleImport
    <3> QED BY <1>10, <3>1, GiveUpTyped DEF DbRaises
  <2>2. leaked' \subseteq Tracks BY <1>10, <1>t DEF DbRaises
  <2> QED BY <1>10, <1>t, <2>1, <2>2, ImportMoves DEF DbRaises, rows
<1> QED BY <1>1, <1>2, <1>3, <1>4, <1>5, <1>6, <1>7, <1>8, <1>9, <1>10 DEF Import

\* Steps of other threads only set the history flags of imports and streams.
LEMMA HitTyped ==
    ASSUME TInv, NEW W, HitImports(W)
    PROVE  /\ import' \in [Importers -> ImportRecord]
           /\ \A w \in Importers :
                  /\ import'[w].pc = import[w].pc
                  /\ import'[w].kind = import[w].kind
                  /\ import'[w].user = import[w].user
                  /\ import'[w].track = import[w].track
                  /\ import'[w].list = import[w].list
                  /\ import'[w].hit = (import[w].hit \/ w \in W)
<1> SUFFICES ASSUME NEW w \in Importers
             PROVE  LET i == [import[w] EXCEPT !.hit = @ \/ w \in W]
                    IN  /\ i \in ImportRecord
                        /\ i.pc = import[w].pc /\ i.kind = import[w].kind
                        /\ i.user = import[w].user /\ i.track = import[w].track
                        /\ i.list = import[w].list
                        /\ i.hit = (import[w].hit \/ w \in W)
  BY DEF HitImports
<1>1. (import[w].hit \/ w \in W) \in BOOLEAN OBVIOUS
<1>2. import[w] \in ImportRecord BY DEF TInv, TypeOK
<1> QED BY <1>1, <1>2 DEF ImportRecord

LEMMA StreamsHitTyped ==
    ASSUME TInv, NEW t, HitStreams(t)
    PROVE  /\ stream' \in [Listeners -> StreamRecord]
           /\ \A s \in Listeners :
                  /\ stream'[s].pc = stream[s].pc
                  /\ stream'[s].track = stream[s].track
                  /\ stream'[s].hit = (stream[s].hit \/ stream[s].track = t)
<1> SUFFICES ASSUME NEW s \in Listeners
             PROVE  LET r == [stream[s] EXCEPT !.hit = @ \/ stream[s].track = t]
                    IN  /\ r \in StreamRecord
                        /\ r.pc = stream[s].pc /\ r.track = stream[s].track
                        /\ r.hit = (stream[s].hit \/ stream[s].track = t)
  BY DEF HitStreams
<1>1. (stream[s].hit \/ stream[s].track = t) \in BOOLEAN OBVIOUS
<1>2. stream[s] \in StreamRecord BY DEF TInv, TypeOK
<1> QED BY <1>1, <1>2 DEF StreamRecord

LEMMA OtherTypes ==
    ASSUME TInv, Next,
           \A w \in Importers : ~Import(w)
    PROVE  TInv'
<1>t. /\ tracks \subseteq Tracks /\ owners \subseteq Users \X tracks
      /\ playlists \subseteq Lists /\ entries \subseteq playlists \X tracks
      /\ files \subseteq Tracks /\ stolen \subseteq Tracks /\ leaked \subseteq Tracks
      /\ import \in [Importers -> ImportRecord] /\ request \in [Users -> RequestRecord]
      /\ stream \in [Listeners -> StreamRecord] /\ deletion \in [Admins -> DeletionRecord]
  BY DEF TInv, TypeOK
<1>1. ASSUME NEW w \in Importers, BeginImport(w) PROVE TInv'
  <2>1. PICK u \in Users, t \in Tracks, kind \in Kinds(w) :
            import' = [import EXCEPT ![w] = [IdleImport EXCEPT !.pc = "read",
                           !.user = u, !.track = t, !.kind = kind]]
    BY <1>1 DEF BeginImport
  <2> DEFINE i == [IdleImport EXCEPT !.pc = "read", !.user = u, !.track = t, !.kind = kind]
  <2>2. i \in ImportRecord /\ ImportPlaced(i)
    BY IdleTyped DEF Kinds, ImportRecord, ImportPlaced, IdleImport
  <2> QED BY <1>1, <1>t, <2>1, <2>2, ImportMoves DEF BeginImport, rows
<1>2. ASSUME NEW u \in Users, Request(u) PROVE TInv'
  <2>1. CASE AskAdopt(u)
    <3>1. PICK t \in tracks : request' = [request EXCEPT ![u] =
                                  [IdleRequest EXCEPT !.pc = "adopt", !.track = t]]
      BY <2>1 DEF AskAdopt
    <3>2. [IdleRequest EXCEPT !.pc = "adopt", !.track = t] \in RequestRecord
      BY <1>t, IdleTyped DEF RequestRecord
    <3>3. TypeOK' BY <1>t, <2>1, <3>1, <3>2 DEF AskAdopt, rows, TypeOK
    <3>4. Placed' BY <1>t, <2>1, <3>1 DEF AskAdopt, TInv, Placed, IdleRequest
    <3> QED BY <3>3, <3>4 DEF TInv
  <2>2. CASE AskAdd(u)
    <3>1. PICK l \in playlists, t \in tracks :
              request' = [request EXCEPT ![u] = [pc |-> "add", list |-> l, track |-> t]]
      BY <2>2 DEF AskAdd
    <3>2. [pc |-> "add", list |-> l, track |-> t] \in RequestRecord
      BY <1>t DEF RequestRecord
    <3>3. TypeOK' BY <1>t, <2>2, <3>1, <3>2 DEF AskAdd, rows, TypeOK
    <3>4. Placed' BY <1>t, <2>2, <3>1 DEF AskAdd, TInv, Placed
    <3> QED BY <3>3, <3>4 DEF TInv
  <2>3. CASE AskBulk(u)
    <3>1. PICK l \in playlists : request' = [request EXCEPT ![u] =
                                      [IdleRequest EXCEPT !.pc = "bulk", !.list = l]]
      BY <2>3 DEF AskBulk
    <3>2. [IdleRequest EXCEPT !.pc = "bulk", !.list = l] \in RequestRecord
      BY <1>t, IdleTyped DEF RequestRecord
    <3>3. TypeOK' BY <1>t, <2>3, <3>1, <3>2 DEF AskBulk, rows, TypeOK
    <3>4. Placed' BY <1>t, <2>3, <3>1 DEF AskBulk, TInv, Placed, IdleRequest
    <3> QED BY <3>3, <3>4 DEF TInv
  <2>4. CASE Adopt(u)
    <3>1. owners' \subseteq Users \X tracks BY <1>t, <2>4 DEF Adopt
    <3>2. /\ deletion' \in [Admins -> DeletionRecord]
          /\ \A a \in Admins : /\ deletion'[a].pc = deletion[a].pc
                                /\ deletion'[a].track = deletion[a].track
      BY <1>t, <2>4, JoinTyped DEF Adopt
    <3>3. TypeOK' BY <1>t, <2>4, <3>1, <3>2, IdleTyped DEF Adopt, TypeOK
    <3>4. Placed' BY <1>t, <2>4, <3>2 DEF Adopt, TInv, Placed, IdleRequest
    <3> QED BY <3>3, <3>4 DEF TInv
  <2>5. CASE AddTracks(u)
    <3>1. entries' \subseteq playlists \X tracks BY <1>t, <2>5 DEF AddTracks
    <3>2. /\ deletion' \in [Admins -> DeletionRecord]
          /\ \A a \in Admins : /\ deletion'[a].pc = deletion[a].pc
                                /\ deletion'[a].track = deletion[a].track
      BY <1>t, <2>5, JoinTyped DEF AddTracks
    <3>3. TypeOK' BY <1>t, <2>5, <3>1, <3>2, IdleTyped DEF AddTracks, TypeOK
    <3>4. Placed' BY <1>t, <2>5, <3>2 DEF AddTracks, TInv, Placed, IdleRequest
    <3> QED BY <3>3, <3>4 DEF TInv
  <2>6. CASE Unown(u)
    <3>1. TypeOK' BY <1>t, <2>6, HitTyped DEF Unown, TypeOK
    <3>2. Placed' BY <2>6, HitTyped DEF Unown, TInv, Placed
    <3> QED BY <3>1, <3>2 DEF TInv
  <2> QED BY <1>2, <2>1, <2>2, <2>3, <2>4, <2>5, <2>6 DEF Request
<1>3. CASE CreateList
  <2>1. TypeOK' BY <1>t, <1>3 DEF CreateList, TypeOK
  <2>2. Placed' BY <1>3 DEF CreateList, TInv, Placed
  <2> QED BY <2>1, <2>2 DEF TInv
<1>4. CASE RemoveEntry
  <2>1. TypeOK' BY <1>t, <1>4, HitTyped DEF RemoveEntry, TypeOK
  <2>2. Placed' BY <1>4, HitTyped DEF RemoveEntry, TInv, Placed
  <2> QED BY <2>1, <2>2 DEF TInv
<1>5. CASE DeleteList
  <2>1. entries' \subseteq playlists' \X tracks BY <1>t, <1>5 DEF DeleteList
  <2>2. TypeOK' BY <1>t, <1>5, <2>1, HitTyped DEF DeleteList, TypeOK
  <2>3. Placed' BY <1>5, HitTyped DEF DeleteList, TInv, Placed
  <2> QED BY <2>2, <2>3 DEF TInv
<1>6. ASSUME NEW s \in Listeners, BeginStream(s) PROVE TInv'
  <2>1. PICK t \in tracks :
            stream' = [stream EXCEPT ![s] = [pc |-> "stat", track |-> t, hit |-> FALSE]]
    BY <1>6 DEF BeginStream
  <2>2. [pc |-> "stat", track |-> t, hit |-> FALSE] \in StreamRecord
    BY <1>t DEF StreamRecord
  <2>3. TypeOK' BY <1>t, <1>6, <2>1, <2>2 DEF BeginStream, rows, TypeOK
  <2>4. Placed' BY <1>t, <1>6, <2>1 DEF BeginStream, rows, TInv, Placed
  <2> QED BY <2>3, <2>4 DEF TInv
<1>7. ASSUME NEW s \in Listeners, Stream(s) PROVE TInv'
  <2>1. PICK r \in {[stream[s] EXCEPT !.pc = "open"], IdleStream} :
            stream' = [stream EXCEPT ![s] = r]
    BY <1>7, <1>t DEF Stream
  <2>2. r \in StreamRecord /\ (r.pc # "idle" => r.track \in Tracks)
    BY <1>7, <1>t, <2>1, IdleTyped DEF Stream, StreamRecord, IdleStream, TInv, Placed
  <2>3. TypeOK' BY <1>t, <1>7, <2>1, <2>2 DEF Stream, rows, TypeOK
  <2>4. Placed' BY <1>t, <1>7, <2>1, <2>2 DEF Stream, rows, TInv, Placed
  <2> QED BY <2>3, <2>4 DEF TInv
<1>8. ASSUME NEW a \in Admins, Delete(a) PROVE TInv'
  <2>0. deletion[a] \in DeletionRecord
        /\ (deletion[a].pc # "idle" => deletion[a].track \in Tracks)
    BY <1>t DEF TInv, Placed
  <2>1. CASE CountOwners(a)
    <3>1. PICK t \in Tracks, force \in BOOLEAN :
              deletion' = [deletion EXCEPT ![a] =
                  [pc |-> "refs", track |-> t, force |-> force,
                   used |-> \E o \in owners : o[2] = t, joined |-> FALSE]]
      BY <2>1 DEF CountOwners
    <3>2. (\E o \in owners : o[2] = t) \in BOOLEAN OBVIOUS
    <3>3. [pc |-> "refs", track |-> t, force |-> force,
           used |-> \E o \in owners : o[2] = t, joined |-> FALSE] \in DeletionRecord
      BY <3>2 DEF DeletionRecord
    <3>4. TypeOK' BY <1>t, <2>1, <3>1, <3>3 DEF CountOwners, rows, TypeOK
    <3>5. Placed' BY <1>t, <2>1, <3>1 DEF CountOwners, rows, TInv, Placed
    <3> QED BY <3>4, <3>5 DEF TInv
  <2>2. CASE CountRefs(a)
    <3>1. PICK d \in {IdleDeletion, [deletion[a] EXCEPT !.pc = "row", !.used = FALSE]} :
              deletion' = [deletion EXCEPT ![a] = d]
      BY <2>2 DEF CountRefs
    <3>2. d \in DeletionRecord /\ (d.pc # "idle" => d.track \in Tracks)
      BY <2>0, <2>2, <3>1, IdleTyped DEF CountRefs, DeletionRecord, IdleDeletion
    <3>3. TypeOK' BY <1>t, <2>2, <3>1, <3>2 DEF CountRefs, rows, TypeOK
    <3>4. Placed' BY <1>t, <2>2, <3>1, <3>2 DEF CountRefs, rows, TInv, Placed
    <3> QED BY <3>3, <3>4 DEF TInv
  <2>3. CASE DeleteRow(a)
    <3>1. PICK d \in {IdleDeletion, [IdleDeletion EXCEPT !.pc = "file",
                                                       !.track = deletion[a].track]} :
              deletion' = [deletion EXCEPT ![a] = d]
      BY <2>3 DEF DeleteRow
    <3>2. d \in DeletionRecord /\ (d.pc # "idle" => d.track \in Tracks)
      BY <2>0, <2>3, <3>1, IdleTyped DEF DeleteRow, DeletionRecord, IdleDeletion
    <3>3. /\ tracks' \subseteq Tracks /\ owners' \subseteq Users \X tracks'
          /\ entries' \subseteq playlists \X tracks'
      BY <1>t, <2>3 DEF DeleteRow
    <3>4. TypeOK'
      BY <1>t, <2>3, <3>1, <3>2, <3>3, HitTyped, StreamsHitTyped DEF DeleteRow, TypeOK
    <3>5. Placed'
      BY <1>t, <2>3, <3>1, <3>2, HitTyped, StreamsHitTyped DEF DeleteRow, TInv, Placed
    <3> QED BY <3>4, <3>5 DEF TInv
  <2>4. CASE RemoveFile(a)
    <3>1. files' \subseteq Tracks /\ stolen' \subseteq Tracks /\ leaked' \subseteq Tracks
      BY <1>t, <2>4 DEF RemoveFile
    <3>2. TypeOK'
      BY <1>t, <2>4, <3>1, IdleTyped, HitTyped, StreamsHitTyped DEF RemoveFile, rows, TypeOK
    <3>3. Placed'
      BY <1>t, <2>4, HitTyped, StreamsHitTyped
      DEF RemoveFile, rows, TInv, Placed, IdleDeletion
    <3> QED BY <3>2, <3>3 DEF TInv
  <2> QED BY <1>8, <2>1, <2>2, <2>3, <2>4 DEF Delete
<1>9. CASE Restart
  <2>1. TypeOK' BY <1>t, <1>9, IdleTyped DEF Restart, rows, TypeOK
  <2>2. Placed'
    BY <1>9 DEF Restart, Placed, IdleImport, IdleRequest, IdleStream, IdleDeletion
  <2> QED BY <2>1, <2>2 DEF TInv
<1> QED BY <1>1, <1>2, <1>3, <1>4, <1>5, <1>6, <1>7, <1>8, <1>9 DEF Next

LEMMA TypesKept == TInv /\ [Next]_vars => TInv'
<1>1. ASSUME TInv, Next PROVE TInv'
  BY <1>1, ImportTypes, OtherTypes
<1>2. ASSUME TInv, UNCHANGED vars PROVE TInv'
  BY <1>2 DEF TInv, TypeOK, Placed, vars
<1> QED BY <1>1, <1>2

\* References resolve and every variable keeps its type (db.py's foreign keys).
THEOREM TypeCorrect == Spec => []TypeOK
<1>1. Spec => []TInv BY InitTInv, TypesKept, PTL DEF Spec
<1>2. TInv => TypeOK BY DEF TInv
<1> QED BY <1>1, <1>2, PTL

--------------------------------------------------------------------------------
(* Rows and files.                                                            *)

\* Between getsize and the upsert the file is there, or a deletion took it under
\* the import.
AboutToRegister ==
    \A w \in Importers :
        import[w].pc = "register" => import[w].track \in files \cup stolen

DiskInv == RowHasFile /\ AboutToRegister /\ FileHasRow

LEMMA InitDiskInv == Init => DiskInv
BY DEF Init, DiskInv, RowHasFile, AboutToRegister, FileHasRow, IdleImport

\* A step that neither removes files or rows, nor adds rows, nor moves an import
\* into or out of the stretch from getsize to the upsert.
LEMMA DiskUntouched ==
    ASSUME TInv, DiskInv,
           UNCHANGED <<tracks, files, stolen, leaked>>,
           \A w \in Importers : \/ import'[w] = import[w]
                                \/ /\ import'[w].pc = import[w].pc
                                   /\ import'[w].track = import[w].track
                                \/ /\ import[w].pc \notin {"size", "register"}
                                   /\ import'[w].pc \notin {"size", "register"}
                                \/ /\ import[w].pc = "size"
                                   /\ import'[w].pc \notin {"size", "register"}
                                   /\ import[w].track \notin files,
           \A a \in Admins : \/ /\ deletion'[a].pc = deletion[a].pc
                                /\ deletion'[a].track = deletion[a].track
                             \/ deletion[a].pc # "file"
    PROVE  DiskInv'
<1>1. RowHasFile' BY DEF DiskInv, RowHasFile
<1>2. AboutToRegister' BY DEF DiskInv, AboutToRegister
<1>3. FileHasRow'
  <2> SUFFICES ASSUME NEW t \in files, t \notin tracks, t \notin leaked
               PROVE  \/ \E w \in Importers : /\ import'[w].track = t
                                              /\ import'[w].pc \in {"size", "register"}
                      \/ \E a \in Admins : deletion'[a].track = t /\ deletion'[a].pc = "file"
    BY DEF FileHasRow
  <2>1. CASE \E w \in Importers : /\ import[w].track = t
                                  /\ import[w].pc \in {"size", "register"}
    BY <2>1
  <2>2. CASE \E a \in Admins : deletion[a].track = t /\ deletion[a].pc = "file"
    BY <2>2
  <2> QED BY <2>1, <2>2 DEF DiskInv, FileHasRow
<1> QED BY <1>1, <1>2, <1>3 DEF DiskInv

\* Where a job goes next it has nothing on disk to register.
LEMMA ContinueEarly ==
    ASSUME import \in [Importers -> ImportRecord], NEW w \in Importers,
           NEW i \in Continue(w)
    PROVE  i.pc \in {"idle", "read"}
<1>1. CASE i = IdleImport BY <1>1 DEF IdleImport
<1>2. CASE \E t \in Tracks : i = [import[w] EXCEPT !.pc = "read", !.track = t,
                                                 !.reuse = FALSE, !.hit = FALSE]
  BY <1>2 DEF ImportRecord
<1> QED BY <1>1, <1>2 DEF Continue

LEMMA ImportDisk ==
    ASSUME TInv, DiskInv, NEW w \in Importers, Import(w) PROVE DiskInv'
<1>t. import \in [Importers -> ImportRecord] BY DEF TInv, TypeOK
<1>0. ASSUME NEW i, import' = [import EXCEPT ![w] = i]
      PROVE  import'[w] = i /\ \A v \in Importers : v # w => import'[v] = import[v]
  BY <1>0, <1>t
<1>g. ASSUME GiveUp(w)
      PROVE  /\ import'[w].pc \in {"idle", "read"}
             /\ \A v \in Importers : v # w => import'[v] = import[v]
  <2>1. PICK i \in Continue(w) : import' = [import EXCEPT ![w] = i]
    BY <1>g DEF GiveUp, Continue
  <2> QED BY <2>1, <1>t, ContinueEarly
<1>1. CASE ReadTrack(w)
  BY <1>1, <1>t, DiskUntouched DEF ReadTrack, rows, ImportRecord
<1>2. CASE StatFile(w)
  BY <1>2, <1>t, DiskUntouched DEF StatFile, rows, ImportRecord
<1>3. CASE Fetch(w)
  <2>1. CASE UNCHANGED files
    <3>1. CASE import' = [import EXCEPT ![w].pc = "size"]
      BY <1>3, <2>1, <3>1, <1>t DEF Fetch, rows, DiskInv, RowHasFile, AboutToRegister,
         FileHasRow, ImportRecord
    <3>2. CASE UNCHANGED <<files, stolen>> /\ \E i \in Continue(w) : import' = [import EXCEPT ![w] = i]
      BY <1>3, <3>2, <1>t, <1>0, ContinueEarly, DiskUntouched DEF Fetch, rows
    <3> QED BY <1>3, <3>1, <3>2 DEF Fetch
  <2>2. CASE import' = [import EXCEPT ![w].pc = "size"]
    BY <1>3, <2>2, <1>t, <1>0 DEF Fetch, rows, DiskInv, RowHasFile, AboutToRegister, FileHasRow
  <2> QED BY <1>3, <2>1, <2>2 DEF Fetch
<1>4. CASE Size(w)
  <2>1. CASE import[w].track \in files
    BY <1>4, <2>1, <1>t DEF Size, rows, DiskInv, RowHasFile, AboutToRegister, FileHasRow, ImportRecord
  <2>2. CASE import[w].track \notin files
    BY <1>4, <2>2, <1>g, DiskUntouched DEF Size, rows
  <2> QED BY <2>1, <2>2
<1>5. CASE Register(w)
  BY <1>5, <1>t DEF Register, DiskInv, RowHasFile, AboutToRegister, FileHasRow, ImportRecord
<1>6. CASE Link(w)
  <2>1. import[w].pc = "link" /\ import'[w].pc \notin {"size", "register"}
        /\ \A v \in Importers : v # w => import'[v] = import[v]
    BY <1>6, <1>t, <1>g DEF Link, ImportRecord
  <2>2. \A a \in Admins : /\ deletion'[a].pc = deletion[a].pc
                          /\ deletion'[a].track = deletion[a].track
    BY <1>6, JoinTyped DEF Link, TInv, TypeOK
  <2> QED BY <1>6, <2>1, <2>2, DiskUntouched DEF Link
<1>7. CASE MakeList(w)
  BY <1>7, <1>t, DiskUntouched DEF MakeList, ImportRecord
<1>8. CASE AddEntry(w)
  <2>1. import[w].pc = "list" /\ import'[w].pc \notin {"size", "register"}
        /\ \A v \in Importers : v # w => import'[v] = import[v]
    BY <1>8, <1>t, <1>g DEF AddEntry, ImportRecord
  <2>2. \A a \in Admins : /\ deletion'[a].pc = deletion[a].pc
                          /\ deletion'[a].track = deletion[a].track
    BY <1>8, JoinTyped DEF AddEntry, TInv, TypeOK
  <2> QED BY <1>8, <2>1, <2>2, DiskUntouched DEF AddEntry
<1>9. CASE Deliver(w)
  BY <1>9, <1>t, <1>0, ContinueEarly, DiskUntouched DEF Deliver, rows
<1>10. CASE DbRaises(w)
  <2>1. /\ import'[w].pc \in {"idle", "read"}
        /\ \A v \in Importers : v # w => import'[v] = import[v]
    BY <1>10, <1>t, <1>0, <1>g DEF DbRaises, IdleImport
  <2>2. /\ UNCHANGED <<tracks, files, stolen, deletion>> /\ leaked \subseteq leaked'
        /\ import[w].pc = "register" /\ import[w].track \in files \ tracks
              => import[w].track \in leaked'
        /\ import[w].pc # "size"
    BY <1>10 DEF DbRaises, rows
  <2>3. RowHasFile' /\ AboutToRegister'
    BY <2>1, <2>2 DEF DiskInv, RowHasFile, AboutToRegister
  <2>4. FileHasRow' BY <2>1, <2>2 DEF DiskInv, FileHasRow
  <2> QED BY <2>3, <2>4 DEF DiskInv
<1> QED BY <1>1, <1>2, <1>3, <1>4, <1>5, <1>6, <1>7, <1>8, <1>9, <1>10 DEF Import

LEMMA RequestDisk ==
    ASSUME TInv, DiskInv, NEW u \in Users, Request(u) PROVE DiskInv'
<1>1. ASSUME Adopt(u) \/ AddTracks(u)
      PROVE  \A a \in Admins : /\ deletion'[a].pc = deletion[a].pc
                               /\ deletion'[a].track = deletion[a].track
  BY <1>1, JoinTyped DEF Adopt, AddTracks, TInv, TypeOK
<1> QED BY <1>1, HitTyped, DiskUntouched
        DEF Request, AskAdopt, AskAdd, AskBulk, Adopt, AddTracks, Unown, rows

LEMMA DeletionDisk ==
    ASSUME TInv, DiskInv, NEW a \in Admins, Delete(a) PROVE DiskInv'
<1>t. deletion \in [Admins -> DeletionRecord] BY DEF TInv, TypeOK
<1>0. \A b \in Admins : b # a => deletion'[b] = deletion[b]
  BY <1>t DEF Delete, CountOwners, CountRefs, DeleteRow, RemoveFile
<1>1. CASE CountOwners(a) BY <1>1, <1>0, DiskUntouched DEF CountOwners, rows
<1>2. CASE CountRefs(a) BY <1>2, <1>0, DiskUntouched DEF CountRefs, rows
<1>3. CASE DeleteRow(a)
  <2>1. CASE deletion[a].track \notin tracks
    BY <1>3, <2>1, <1>0, DiskUntouched DEF DeleteRow
  <2>2. CASE deletion[a].track \in tracks
    <3>1. /\ deletion'[a].pc = "file" /\ deletion'[a].track = deletion[a].track
          /\ tracks' = tracks \ {deletion[a].track}
      BY <1>3, <2>2, <1>t DEF DeleteRow, IdleDeletion
    <3>2. UNCHANGED <<files, stolen, leaked>> /\ HitImports(At(deletion[a].track))
      BY <1>3, <2>2 DEF DeleteRow
    <3>3. \A w \in Importers : /\ import'[w].pc = import[w].pc
                               /\ import'[w].track = import[w].track
      BY <3>2, HitTyped
    <3>4. \A b \in Admins : deletion[b].pc = "file" =>
              deletion'[b].pc = "file" /\ deletion'[b].track = deletion[b].track
      BY <1>0, <1>3 DEF DeleteRow
    <3>5. RowHasFile' /\ AboutToRegister'
      BY <3>1, <3>2, <3>3 DEF DiskInv, RowHasFile, AboutToRegister
    <3>6. FileHasRow' BY <3>1, <3>2, <3>3, <3>4 DEF DiskInv, FileHasRow
    <3> QED BY <3>5, <3>6 DEF DiskInv
  <2> QED BY <2>1, <2>2
<1>4. CASE RemoveFile(a)
  <2> DEFINE t == deletion[a].track
  <2>1. CASE t \in files /\ files' = files \ {t}
    <3>1. /\ stolen' = IF Reclaimed(t) THEN stolen \cup {t} ELSE stolen
          /\ leaked' = leaked \ {t} /\ UNCHANGED tracks
          /\ HitImports(At(t))
      BY <1>4, <2>1 DEF RemoveFile, rows
    <3>2. \A w \in Importers : /\ import'[w].pc = import[w].pc
                               /\ import'[w].track = import[w].track
      BY <3>1, HitTyped
    <3>3. RowHasFile' BY <2>1, <3>1 DEF Reclaimed, DiskInv, RowHasFile
    <3>4. AboutToRegister' BY <2>1, <3>1, <3>2 DEF Reclaimed, DiskInv, AboutToRegister
    <3>5. FileHasRow' BY <1>0, <2>1, <3>1, <3>2 DEF DiskInv, FileHasRow
    <3> QED BY <3>3, <3>4, <3>5 DEF DiskInv
  <2>2. CASE ~(t \in files /\ files' = files \ {t})
    <3>1. /\ UNCHANGED <<tracks, files, import, stolen>>
          /\ (t \in files /\ leaked' = leaked \cup {t}) \/ (t \notin files /\ UNCHANGED leaked)
      BY <1>4, <2>2 DEF RemoveFile, rows
    <3>2. RowHasFile' /\ AboutToRegister'
      BY <3>1 DEF DiskInv, RowHasFile, AboutToRegister
    <3>3. FileHasRow' BY <1>0, <3>1 DEF DiskInv, FileHasRow
    <3> QED BY <3>2, <3>3 DEF DiskInv
  <2> QED BY <2>1, <2>2
<1> QED BY <1>1, <1>2, <1>3, <1>4 DEF Delete

LEMMA DiskKept == TInv /\ DiskInv /\ [Next]_vars => DiskInv'
<1> SUFFICES ASSUME TInv, DiskInv, [Next]_vars PROVE DiskInv'
  OBVIOUS
<1>t. import \in [Importers -> ImportRecord] BY DEF TInv, TypeOK
<1>1. ASSUME NEW w \in Importers, BeginImport(w) PROVE DiskInv'
  BY <1>1, <1>t, DiskUntouched DEF BeginImport, rows, IdleImport
<1>2. CASE CreateList \/ RemoveEntry \/ DeleteList
  BY <1>2, HitTyped, DiskUntouched DEF CreateList, RemoveEntry, DeleteList
<1>3. ASSUME NEW s \in Listeners, BeginStream(s) \/ Stream(s) PROVE DiskInv'
  BY <1>3, DiskUntouched DEF BeginStream, Stream, rows
<1>4. CASE Restart
  <2>1. RowHasFile' BY <1>4 DEF Restart, rows, DiskInv, RowHasFile
  <2>2. AboutToRegister' BY <1>4 DEF Restart, rows, AboutToRegister, IdleImport
  <2>3. FileHasRow' BY <1>4 DEF Restart, rows, FileHasRow
  <2> QED BY <2>1, <2>2, <2>3 DEF DiskInv
<1>5. CASE UNCHANGED vars
  BY <1>5, DiskUntouched DEF vars
<1> QED BY <1>1, <1>2, <1>3, <1>4, <1>5, ImportDisk, RequestDisk, DeletionDisk DEF Next

LEMMA DiskInvariant == Spec => [](TInv /\ DiskInv)
<1>1. Init => TInv /\ DiskInv BY InitTInv, InitDiskInv
<1>2. (TInv /\ DiskInv) /\ [Next]_vars => (TInv /\ DiskInv)' BY TypesKept, DiskKept
<1> QED BY <1>1, <1>2, PTL DEF Spec

\* A track in the catalog has its file, unless a deletion took the file of an
\* import that put the track back (register_track, delete_track).
THEOREM RowsCorrect == Spec => []RowHasFile
<1>1. TInv /\ DiskInv => RowHasFile BY DEF DiskInv
<1> QED BY <1>1, DiskInvariant, PTL

\* No file is left without a row but by a crash, a refused write of the row or a stubborn
\* file (register_track, delete_track).
THEOREM FilesCorrect == Spec => []FileHasRow
<1>1. TInv /\ DiskInv => FileHasRow BY DEF DiskInv
<1> QED BY <1>1, DiskInvariant, PTL

--------------------------------------------------------------------------------
(* What an import has achieved so far.                                        *)

\* What import w found or wrote is still there.
Holds(w) ==
    LET i == import[w] IN
    /\ i.pc \in {"stat", "link", "list", "delivered"} => i.track \in tracks
    /\ i.pc \in {"size", "register", "link", "list", "delivered"} => i.track \in files
    /\ i.pc = "list" \/ (i.pc = "delivered" /\ i.kind # "catalog")
          => <<i.user, i.track>> \in owners
    /\ i.pc = "delivered" /\ i.kind = "list" => <<i.list, i.track>> \in entries

\* ... unless a deletion or its own user undid it (and set `hit`).
ImportInv == \A w \in Importers : import[w].hit \/ Holds(w)

LEMMA OthersHold ==
    ASSUME TInv, ImportInv, NEW w \in Importers,
           tracks \subseteq tracks', files \subseteq files', owners \subseteq owners',
           entries \subseteq entries',
           \A v \in Importers : v # w => import'[v] = import[v],
           import'[w].hit \/ Holds(w)'
    PROVE  ImportInv'
BY DEF ImportInv, Holds

LEMMA StillHolds ==
    ASSUME NEW w \in Importers, Holds(w),
           import'[w].pc = import[w].pc, import'[w].kind = import[w].kind,
           import'[w].user = import[w].user, import'[w].track = import[w].track,
           import'[w].list = import[w].list,
           import[w].track \in tracks => import[w].track \in tracks',
           import[w].track \in files => import[w].track \in files',
           <<import[w].user, import[w].track>> \in owners
             => <<import[w].user, import[w].track>> \in owners',
           <<import[w].list, import[w].track>> \in entries
             => <<import[w].list, import[w].track>> \in entries'
    PROVE  Holds(w)'
BY DEF Holds

\* A step that undoes something hits every import that relied on it.
LEMMA HitsCover ==
    ASSUME TInv, ImportInv, NEW W, HitImports(W),
           \A w \in Importers \ W :
               /\ import[w].track \in tracks => import[w].track \in tracks'
               /\ import[w].track \in files => import[w].track \in files'
               /\ <<import[w].user, import[w].track>> \in owners
                     => <<import[w].user, import[w].track>> \in owners'
               /\ <<import[w].list, import[w].track>> \in entries
                     => <<import[w].list, import[w].track>> \in entries'
    PROVE  ImportInv'
<1> SUFFICES ASSUME NEW w \in Importers PROVE (import[w].hit \/ Holds(w))'
  BY DEF ImportInv
<1>1. /\ import'[w].pc = import[w].pc /\ import'[w].kind = import[w].kind
      /\ import'[w].user = import[w].user /\ import'[w].track = import[w].track
      /\ import'[w].list = import[w].list
      /\ import'[w].hit = (import[w].hit \/ w \in W)
  BY HitTyped
<1>2. CASE import[w].hit \/ w \in W BY <1>1, <1>2
<1>3. CASE ~import[w].hit /\ w \notin W
  <2>1. Holds(w) BY <1>3 DEF ImportInv
  <2>2. Holds(w)' BY <1>1, <1>3, <2>1, StillHolds
  <2> QED BY <2>2
<1> QED BY <1>2, <1>3

LEMMA ImportHolds ==
    ASSUME TInv, ImportInv, NEW w \in Importers, Import(w) PROVE ImportInv'
<1>t. import \in [Importers -> ImportRecord] BY DEF TInv, TypeOK
<1>0. import[w].hit \/ Holds(w) BY DEF ImportInv
<1>c. ASSUME \E i \in Continue(w) : import' = [import EXCEPT ![w] = i]
      PROVE  /\ Holds(w)'
             /\ \A v \in Importers : v # w => import'[v] = import[v]
  <2>1. PICK i \in Continue(w) : import' = [import EXCEPT ![w] = i]
    BY <1>c
  <2>2. import'[w].pc \in {"idle", "read"} BY <2>1, <1>t, ContinueEarly
  <2>3. \A v \in Importers : v # w => import'[v] = import[v] BY <2>1, <1>t
  <2> QED BY <2>2, <2>3 DEF Holds
<1>g. ASSUME GiveUp(w)
      PROVE  /\ Holds(w)'
             /\ \A v \in Importers : v # w => import'[v] = import[v]
  <2>1. \E i \in Continue(w) : import' = [import EXCEPT ![w] = i]
    BY <1>g DEF GiveUp, Continue
  <2> QED BY <2>1, <1>c
<1>1. CASE ReadTrack(w)
  BY <1>1, <1>0, <1>t, OthersHold DEF ReadTrack, rows, Holds, ImportRecord
<1>2. CASE StatFile(w)
  BY <1>2, <1>0, <1>t, OthersHold DEF StatFile, rows, Holds, ImportRecord
<1>3. CASE Fetch(w)
  <2>1. CASE import' = [import EXCEPT ![w].pc = "size"]
             /\ files' = files \cup {import[w].track}
    <3>1. /\ import'[w].pc = "size" /\ import'[w].track = import[w].track
          /\ \A v \in Importers : v # w => import'[v] = import[v]
      BY <2>1, <1>t DEF ImportRecord
    <3>2. Holds(w)' BY <2>1, <3>1 DEF Holds
    <3> QED BY <1>3, <2>1, <3>1, <3>2, OthersHold DEF Fetch, rows
  <2>2. CASE UNCHANGED files /\ \E i \in Continue(w) : import' = [import EXCEPT ![w] = i]
    BY <1>3, <2>2, <1>c, OthersHold DEF Fetch, rows
  <2> QED BY <1>3, <2>1, <2>2 DEF Fetch
<1>4. CASE Size(w)
  <2>1. CASE import' = [import EXCEPT ![w].pc = "register"]
    <3>1. /\ import'[w].pc = "register" /\ import'[w].track = import[w].track
          /\ import'[w].hit = import[w].hit
          /\ \A v \in Importers : v # w => import'[v] = import[v]
      BY <2>1, <1>t DEF ImportRecord
    <3>2. import[w].hit \/ import[w].track \in files BY <1>4, <1>0 DEF Size, Holds
    <3>3. import'[w].hit \/ Holds(w)' BY <1>4, <3>1, <3>2 DEF Size, Holds
    <3> QED BY <1>4, <3>1, <3>3, OthersHold DEF Size, rows
  <2>2. CASE GiveUp(w)
    BY <1>4, <2>2, <1>g, OthersHold DEF Size, rows
  <2> QED BY <1>4, <2>1, <2>2 DEF Size
<1>5. CASE Register(w)
  BY <1>5, <1>0, <1>t, OthersHold DEF Register, Holds, ImportRecord
<1>6. CASE Link(w)
  <2>1. CASE import[w].kind = "catalog"
    <3>1. /\ import'[w].pc = "delivered" /\ import'[w].hit = import[w].hit
          /\ import'[w].track = import[w].track /\ import'[w].kind = import[w].kind
          /\ import'[w].user = import[w].user /\ import'[w].list = import[w].list
          /\ \A v \in Importers : v # w => import'[v] = import[v]
      BY <1>6, <2>1, <1>t DEF Link, ImportRecord
    <3>2. import'[w].hit \/ Holds(w)'
      BY <1>6, <2>1, <1>0, <3>1 DEF Link, Holds
    <3> QED BY <1>6, <2>1, <3>1, <3>2, OthersHold DEF Link
  <2>2. CASE import[w].kind # "catalog" /\ import[w].track \in tracks
    <3>1. /\ import'[w].pc = (IF import[w].kind = "list" THEN "list" ELSE "delivered") /\ import'[w].hit = import[w].hit
          /\ import'[w].track = import[w].track /\ import'[w].kind = import[w].kind
          /\ import'[w].user = import[w].user /\ import'[w].list = import[w].list
          /\ \A v \in Importers : v # w => import'[v] = import[v]
      BY <1>6, <2>2, <1>t DEF Link, ImportRecord
    <3>2. import'[w].hit \/ Holds(w)'
      BY <1>6, <2>2, <1>0, <3>1 DEF Link, Holds
    <3> QED BY <1>6, <2>2, <3>1, <3>2, OthersHold DEF Link
  <2>3. CASE import[w].kind # "catalog" /\ import[w].track \notin tracks
    BY <1>6, <2>3, <1>g, OthersHold DEF Link
  <2> QED BY <2>1, <2>2, <2>3
<1>7. CASE MakeList(w)
  BY <1>7, <1>0, <1>t, OthersHold DEF MakeList, Holds, ImportRecord
<1>8. CASE AddEntry(w)
  <2>1. CASE import[w].list \in playlists /\ import[w].track \in tracks
    <3>1. /\ import'[w].pc = "delivered" /\ import'[w].hit = import[w].hit
          /\ import'[w].track = import[w].track /\ import'[w].kind = import[w].kind
          /\ import'[w].user = import[w].user /\ import'[w].list = import[w].list
          /\ \A v \in Importers : v # w => import'[v] = import[v]
      BY <1>8, <2>1, <1>t DEF AddEntry, ImportRecord
    <3>2. import'[w].hit \/ Holds(w)'
      BY <1>8, <2>1, <1>0, <3>1 DEF AddEntry, Holds
    <3> QED BY <1>8, <2>1, <3>1, <3>2, OthersHold DEF AddEntry
  <2>2. CASE ~(import[w].list \in playlists /\ import[w].track \in tracks)
    BY <1>8, <2>2, <1>g, OthersHold DEF AddEntry
  <2> QED BY <2>1, <2>2
<1>9. CASE Deliver(w)
  BY <1>9, <1>c, OthersHold DEF Deliver, rows
<1>10. CASE DbRaises(w)
  <2>1. \E i \in Continue(w) : import' = [import EXCEPT ![w] = i]
    BY <1>10 DEF DbRaises, GiveUp, Continue
  <2> QED BY <1>10, <2>1, <1>c, OthersHold DEF DbRaises, rows
<1> QED BY <1>1, <1>2, <1>3, <1>4, <1>5, <1>6, <1>7, <1>8, <1>9, <1>10 DEF Import

LEMMA ImportKept == TInv /\ ImportInv /\ [Next]_vars => ImportInv'
<1> SUFFICES ASSUME TInv, ImportInv, [Next]_vars PROVE ImportInv'
  OBVIOUS
<1>t. import \in [Importers -> ImportRecord] BY DEF TInv, TypeOK
<1>0. ASSUME UNCHANGED import, tracks \subseteq tracks', files \subseteq files',
             owners \subseteq owners', entries \subseteq entries'
      PROVE  ImportInv'
  BY <1>0 DEF ImportInv, Holds
<1>1. ASSUME NEW w \in Importers, BeginImport(w) PROVE ImportInv'
  <2>1. Holds(w)' /\ \A v \in Importers : v # w => import'[v] = import[v]
    BY <1>1, <1>t DEF BeginImport, Holds, IdleImport
  <2> QED BY <1>1, <2>1, OthersHold DEF BeginImport, rows
<1>2. ASSUME NEW u \in Users, Request(u) PROVE ImportInv'
  <2>1. CASE AskAdopt(u) \/ AskAdd(u) \/ AskBulk(u)
    BY <2>1, <1>0 DEF AskAdopt, AskAdd, AskBulk, rows
  <2>2. CASE Adopt(u) BY <2>2, <1>0 DEF Adopt
  <2>3. CASE AddTracks(u) BY <2>3, <1>0 DEF AddTracks
  <2>4. CASE Unown(u)
    <3>1. PICK t \in Tracks : /\ owners' = owners \ {<<u, t>>}
                              /\ HitImports({w \in At(t) : import[w].user = u})
      BY <2>4 DEF Unown
    <3>2. \A w \in Importers \ {v \in At(t) : import[v].user = u} :
              <<import[w].user, import[w].track>> # <<u, t>>
      BY DEF At
    <3> QED BY <2>4, <3>1, <3>2, HitsCover DEF Unown
  <2> QED BY <1>2, <2>1, <2>2, <2>3, <2>4 DEF Request
<1>3. CASE CreateList BY <1>3, <1>0 DEF CreateList
<1>4. CASE RemoveEntry
  <2>1. PICK e \in entries : /\ entries' = entries \ {e}
                             /\ HitImports({w \in At(e[2]) : import[w].list = e[1]})
    BY <1>4 DEF RemoveEntry
  <2>2. \A w \in Importers \ {v \in At(e[2]) : import[v].list = e[1]} :
            <<import[w].list, import[w].track>> # e
    BY DEF At
  <2> QED BY <1>4, <2>1, <2>2, HitsCover DEF RemoveEntry
<1>5. CASE DeleteList
  <2>1. PICK l \in playlists : /\ entries' = {e \in entries : e[1] # l}
                               /\ HitImports({w \in Importers : import[w].list = l})
    BY <1>5 DEF DeleteList
  <2> QED BY <1>5, <2>1, HitsCover DEF DeleteList
<1>6. ASSUME NEW s \in Listeners, BeginStream(s) \/ Stream(s) PROVE ImportInv'
  BY <1>6, <1>0 DEF BeginStream, Stream, rows
<1>7. ASSUME NEW a \in Admins, Delete(a) PROVE ImportInv'
  <2>1. CASE CountOwners(a) \/ CountRefs(a)
    BY <2>1, <1>0 DEF CountOwners, CountRefs, rows
  <2>2. CASE DeleteRow(a) \/ RemoveFile(a)
    <3> DEFINE t == deletion[a].track
    <3>1. CASE HitImports(At(t))
      <4>1. \A w \in Importers \ At(t) : import[w].track # t BY DEF At
      <4> QED BY <2>2, <3>1, <4>1, HitsCover DEF DeleteRow, RemoveFile, rows
    <3>2. CASE ~HitImports(At(t))
      BY <2>2, <3>2, <1>0 DEF DeleteRow, RemoveFile, rows
    <3> QED BY <3>1, <3>2
  <2> QED BY <1>7, <2>1, <2>2 DEF Delete
<1>8. CASE Restart
  BY <1>8 DEF Restart, ImportInv, Holds, IdleImport
<1>9. CASE UNCHANGED vars
  BY <1>9, <1>0 DEF vars
<1> QED BY <1>1, <1>2, <1>3, <1>4, <1>5, <1>6, <1>7, <1>8, <1>9, ImportHolds DEF Next

\* What an import reports can be played and is where its user expects it, unless
\* that was undone since it looked (run_audio_import, start_playlist_download).
THEOREM DeliveryCorrect == Spec => []Delivered
<1>1. Init => ImportInv BY DEF Init, ImportInv, Holds, IdleImport
<1>2. (TInv /\ ImportInv) /\ [Next]_vars => (TInv /\ ImportInv)' BY TypesKept, ImportKept
<1>3. Init => TInv /\ ImportInv BY <1>1, InitTInv
<1>4. TInv /\ ImportInv => Delivered BY DEF ImportInv, Holds, Delivered
<1> QED BY <1>2, <1>3, <1>4, PTL DEF Spec

--------------------------------------------------------------------------------
(* Streams and deletions.                                                     *)

StreamInv ==
    \A s \in Listeners :
        stream[s].pc # "idle" /\ ~stream[s].hit => stream[s].track \in tracks

\* What an unforced deletion has counted as unused is still unused, unless somebody
\* joined.
CountInv ==
    \A a \in Admins :
        LET d == deletion[a] IN
        ~d.force /\ ~d.joined =>
            /\ d.pc = "refs" /\ ~d.used => \A o \in owners : o[2] # d.track
            /\ d.pc = "row" => /\ \A o \in owners : o[2] # d.track
                              /\ \A e \in entries : e[2] # d.track

LEMMA StreamKept == TInv /\ StreamInv /\ [Next]_vars => StreamInv'
<1> SUFFICES ASSUME TInv, StreamInv, [Next]_vars PROVE StreamInv'
  OBVIOUS
<1>t. stream \in [Listeners -> StreamRecord] BY DEF TInv, TypeOK
<1>0. ASSUME UNCHANGED stream, tracks \subseteq tracks' PROVE StreamInv'
  BY <1>0 DEF StreamInv
<1>1. ASSUME NEW w \in Importers, BeginImport(w) \/ Import(w) PROVE StreamInv'
  BY <1>1, <1>0 DEF BeginImport, Import, ReadTrack, StatFile, Fetch, Size, Register, Link,
                    MakeList, AddEntry, Deliver, DbRaises, rows
<1>2. ASSUME NEW u \in Users, Request(u) PROVE StreamInv'
  BY <1>2, <1>0 DEF Request, AskAdopt, AskAdd, AskBulk, Adopt, AddTracks, Unown, rows
<1>3. CASE CreateList \/ RemoveEntry \/ DeleteList
  BY <1>3, <1>0 DEF CreateList, RemoveEntry, DeleteList
<1>4. ASSUME NEW s \in Listeners, BeginStream(s) \/ Stream(s) PROVE StreamInv'
  <2>1. CASE BeginStream(s)
    BY <2>1, <1>t DEF BeginStream, rows, StreamInv
  <2>2. CASE Stream(s)
    <3>1. PICK r \in {[stream[s] EXCEPT !.pc = "open"], IdleStream} :
              stream' = [stream EXCEPT ![s] = r]
      BY <2>2, <1>t DEF Stream
    <3>2. r.pc # "idle" => r.hit = stream[s].hit /\ r.track = stream[s].track
      BY <3>1, <1>t DEF IdleStream, StreamRecord
    <3>3. UNCHANGED tracks /\ stream[s].pc # "idle"
      BY <2>2 DEF Stream, rows
    <3> QED BY <3>1, <3>2, <3>3, <1>t DEF StreamInv
  <2> QED BY <1>4, <2>1, <2>2
<1>5. ASSUME NEW a \in Admins, Delete(a) PROVE StreamInv'
  <2>1. CASE UNCHANGED <<stream, tracks>> BY <2>1, <1>0
  <2>2. CASE HitStreams(deletion[a].track) /\ tracks \ {deletion[a].track} \subseteq tracks'
    BY <2>2, StreamsHitTyped DEF StreamInv
  <2>3. CASE CountOwners(a) \/ CountRefs(a)
    BY <2>3, <2>1 DEF CountOwners, CountRefs, rows
  <2>4. CASE DeleteRow(a)
    BY <2>4, <2>1, <2>2 DEF DeleteRow
  <2>5. CASE RemoveFile(a)
    BY <2>5, <2>1, <2>2 DEF RemoveFile, rows
  <2> QED BY <1>5, <2>3, <2>4, <2>5 DEF Delete
<1>6. CASE Restart BY <1>6 DEF Restart, StreamInv, IdleStream
<1>7. CASE UNCHANGED vars BY <1>7, <1>0 DEF vars
<1> QED BY <1>1, <1>2, <1>3, <1>4, <1>5, <1>6, <1>7 DEF Next

\* A stream finds its file missing only behind a deletion (stream_track,
\* download_track_audio).
THEOREM StreamsCorrect == Spec => StreamFindsFile
<1> DEFINE Inv == TInv /\ DiskInv /\ StreamInv
<1>1. Init => Inv
  BY InitTInv, InitDiskInv DEF Init, StreamInv, IdleStream
<1>2. Inv /\ [Next]_vars => Inv' BY TypesKept, DiskKept, StreamKept
<1>3. Inv => \A s \in Listeners :
                LET r == stream[s] IN
                Stream(s) /\ r.track \notin files => r.hit \/ r.track \in stolen
  BY DEF Stream, StreamInv, DiskInv, RowHasFile
<1> QED BY <1>1, <1>2, <1>3, PTL DEF Spec, StreamFindsFile

\* Whoever joins a track is seen by the deletions of it.
LEMMA JoinSeen ==
    ASSUME TInv, NEW T, Join(T), NEW a \in Admins
    PROVE  /\ deletion'[a].pc = deletion[a].pc /\ deletion'[a].track = deletion[a].track
           /\ deletion'[a].force = deletion[a].force /\ deletion'[a].used = deletion[a].used
           /\ deletion'[a].joined = (deletion[a].joined \/ deletion[a].track \in T)
<1>1. deletion[a] \in DeletionRecord BY DEF TInv, TypeOK
<1>2. deletion'[a] = [deletion[a] EXCEPT !.joined = @ \/ deletion[a].track \in T]
  BY DEF Join
<1> QED BY <1>1, <1>2 DEF DeletionRecord

LEMMA CountKept == TInv /\ CountInv /\ [Next]_vars => CountInv'
<1> SUFFICES ASSUME TInv, CountInv, [Next]_vars PROVE CountInv'
  OBVIOUS
<1>t. deletion \in [Admins -> DeletionRecord] BY DEF TInv, TypeOK
<1>0. ASSUME UNCHANGED deletion, owners' \subseteq owners, entries' \subseteq entries
      PROVE  CountInv'
  BY <1>0 DEF CountInv
<1>j. ASSUME NEW T, Join(T), \A o \in owners' \ owners : o[2] \in T,
             \A e \in entries' \ entries : e[2] \in T
      PROVE  CountInv'
  <2> SUFFICES ASSUME NEW a \in Admins, ~deletion'[a].force, ~deletion'[a].joined
               PROVE  LET d == deletion'[a] IN
                      /\ d.pc = "refs" /\ ~d.used => \A o \in owners' : o[2] # d.track
                      /\ d.pc = "row" => /\ \A o \in owners' : o[2] # d.track
                                        /\ \A e \in entries' : e[2] # d.track
    BY DEF CountInv
  <2>1. /\ deletion'[a].pc = deletion[a].pc /\ deletion'[a].track = deletion[a].track
        /\ deletion'[a].force = deletion[a].force /\ deletion'[a].used = deletion[a].used
        /\ deletion'[a].joined = (deletion[a].joined \/ deletion[a].track \in T)
    BY <1>j, JoinSeen
  <2>2. deletion[a].track \notin T /\ ~deletion[a].force /\ ~deletion[a].joined BY <2>1
  <2> QED BY <1>j, <2>1, <2>2 DEF CountInv
<1>1. ASSUME NEW w \in Importers, BeginImport(w) \/ Import(w) PROVE CountInv'
  <2>1. CASE UNCHANGED <<owners, entries, deletion>> BY <2>1, <1>0
  <2>2. CASE Link(w) /\ ~UNCHANGED <<owners, entries, deletion>>
    <3>1. Join({import[w].track}) /\ owners' = owners \cup {<<import[w].user, import[w].track>>}
          /\ UNCHANGED entries
      BY <2>2 DEF Link
    <3> QED BY <3>1, <1>j
  <2>3. CASE AddEntry(w) /\ ~UNCHANGED <<owners, entries, deletion>>
    <3>1. Join({import[w].track})
          /\ entries' = entries \cup {<<import[w].list, import[w].track>>} /\ UNCHANGED owners
      BY <2>3 DEF AddEntry
    <3> QED BY <3>1, <1>j
  <2> QED BY <1>1, <2>1, <2>2, <2>3
          DEF BeginImport, Import, ReadTrack, StatFile, Fetch, Size, Register, MakeList,
              Deliver, DbRaises, rows
<1>2. ASSUME NEW u \in Users, Request(u) PROVE CountInv'
  <2>1. CASE Adopt(u)
    <3>1. CASE request[u].track \in tracks
      BY <2>1, <3>1, <1>j DEF Adopt
    <3>2. CASE request[u].track \notin tracks
      BY <2>1, <3>2, <1>0 DEF Adopt
    <3> QED BY <3>1, <3>2
  <2>2. CASE AddTracks(u)
    <3>1. (\E T : Join(T) /\ entries' = entries \cup ({request[u].list} \X T))
          \/ UNCHANGED <<entries, deletion>>
      BY <2>2 DEF AddTracks
    <3>2. UNCHANGED owners BY <2>2 DEF AddTracks
    <3>3. ASSUME NEW T, Join(T), entries' = entries \cup ({request[u].list} \X T)
          PROVE  CountInv'
      BY <3>2, <3>3, <1>j
    <3> QED BY <3>1, <3>2, <3>3, <1>0
  <2>3. CASE AskAdopt(u) \/ AskAdd(u) \/ AskBulk(u) \/ Unown(u)
    BY <2>3, <1>0 DEF AskAdopt, AskAdd, AskBulk, Unown, rows
  <2> QED BY <1>2, <2>1, <2>2, <2>3 DEF Request
<1>3. CASE CreateList \/ RemoveEntry \/ DeleteList
  BY <1>3, <1>0 DEF CreateList, RemoveEntry, DeleteList
<1>4. ASSUME NEW s \in Listeners, BeginStream(s) \/ Stream(s) PROVE CountInv'
  BY <1>4, <1>0 DEF BeginStream, Stream, rows
<1>5. ASSUME NEW a \in Admins, Delete(a) PROVE CountInv'
  <2>0. /\ owners' \subseteq owners /\ entries' \subseteq entries
        /\ \A b \in Admins : b # a => deletion'[b] = deletion[b]
    BY <1>5, <1>t DEF Delete, CountOwners, CountRefs, DeleteRow, RemoveFile, rows
  <2>1. CASE CountOwners(a)
    <3>1. PICK t \in Tracks, force \in BOOLEAN :
              deletion'[a] = [pc |-> "refs", track |-> t, force |-> force,
                              used |-> \E o \in owners : o[2] = t, joined |-> FALSE]
      BY <2>1, <1>t DEF CountOwners
    <3> QED BY <2>0, <3>1 DEF CountInv
  <2>2. CASE CountRefs(a)
    <3>1. CASE deletion'[a] = IdleDeletion
      BY <2>0, <3>1 DEF CountInv, IdleDeletion
    <3>2. CASE deletion'[a] # IdleDeletion
      <4>1. /\ deletion'[a] = [deletion[a] EXCEPT !.pc = "row", !.used = FALSE]
            /\ deletion[a].pc = "refs"
            /\ deletion[a].force \/ (~deletion[a].used
                                     /\ \A e \in entries : e[2] # deletion[a].track)
        BY <2>2, <3>2, <1>t DEF CountRefs
      <4>2. /\ deletion'[a].pc = "row" /\ deletion'[a].track = deletion[a].track
            /\ deletion'[a].force = deletion[a].force
            /\ deletion'[a].joined = deletion[a].joined
        BY <4>1, <1>t DEF DeletionRecord
      <4>3. ~deletion[a].force /\ ~deletion[a].joined =>
                /\ \A o \in owners : o[2] # deletion[a].track
                /\ \A e \in entries : e[2] # deletion[a].track
        BY <4>1 DEF CountInv
      <4>4. ASSUME NEW b \in Admins, b # a
            PROVE  deletion'[b] = deletion[b]
        BY <2>0, <4>4
      <4> QED BY <2>0, <4>2, <4>3, <4>4 DEF CountInv
    <3> QED BY <3>1, <3>2
  <2>3. CASE DeleteRow(a) \/ RemoveFile(a)
    <3>1. deletion'[a].pc \in {"idle", "file"}
      <4>1. CASE DeleteRow(a)
        <5>1. CASE deletion' = [deletion EXCEPT ![a] = IdleDeletion]
          BY <5>1, <1>t DEF IdleDeletion
        <5>2. CASE deletion' = [deletion EXCEPT ![a] = [IdleDeletion EXCEPT !.pc = "file",
                                                          !.track = deletion[a].track]]
          BY <5>2, <1>t DEF IdleDeletion
        <5> QED BY <4>1, <5>1, <5>2 DEF DeleteRow
      <4>2. CASE RemoveFile(a)
        <5>1. deletion' = [deletion EXCEPT ![a] = IdleDeletion] BY <4>2 DEF RemoveFile
        <5> QED BY <5>1, <1>t DEF IdleDeletion
      <4> QED BY <2>3, <4>1, <4>2
    <3> QED BY <2>0, <3>1 DEF CountInv
  <2> QED BY <1>5, <2>1, <2>2, <2>3 DEF Delete
<1>6. CASE Restart BY <1>6 DEF Restart, rows, CountInv, IdleDeletion
<1>7. CASE UNCHANGED vars BY <1>7, <1>0 DEF vars
<1> QED BY <1>1, <1>2, <1>3, <1>4, <1>5, <1>6, <1>7 DEF Next

\* An unforced deletion only hits uses that began after it had counted (delete_track).
THEOREM UseSpared == Spec => SparesUse
<1> DEFINE Inv == TInv /\ CountInv
<1>1. Init => Inv BY InitTInv DEF Init, CountInv, IdleDeletion
<1>2. Inv /\ [Next]_vars => Inv' BY TypesKept, CountKept
<1>3. Inv => \A a \in Admins :
                LET d == deletion[a] IN
                DeleteRow(a) /\ ~d.force /\ ~d.joined =>
                    /\ \A o \in owners : o[2] # d.track
                    /\ \A e \in entries : e[2] # d.track
  BY DEF DeleteRow, CountInv
<1> QED BY <1>1, <1>2, <1>3, PTL DEF Spec, SparesUse

================================================================================
