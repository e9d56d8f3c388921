-------------------------- MODULE DownloadJobsProofs --------------------------
(***************************************************************************)
(* Theorems about DownloadJobs, and about the viewers ProgressStream adds   *)
(* to them, for any set of jobs, any number of requests and viewers and    *)
(* any pool size.                                                          *)
(***************************************************************************)
EXTENDS ProgressStream, TLAPS

-------------------------------------------------------------------------------
(* Types *)

LEMMA Statuses ==
    /\ {"queued", "downloading", "merging", "transcoding"} \subseteq RowStatus
    /\ {"done", "error", "cancelled", "none", "interrupted"} \subseteq RowStatus
BY DEF RowStatus, Active, Terminal

LEMMA SetStatusTypes ==
    ASSUME row \in [Jobs -> RowStatus], NEW j \in Jobs, NEW s \in RowStatus,
           SetStatus(j, s)
    PROVE  row' \in [Jobs -> RowStatus]
BY DEF SetStatus

LEMMA SetTerminalTypes ==
    ASSUME TypeOK, NEW j \in Jobs, NEW s \in RowStatus, SetTerminal(j, s)
    PROVE  /\ row' \in [Jobs -> RowStatus]
           /\ completed' \in [Jobs -> {"null", "fresh", "old"}]
BY SetStatusTypes DEF SetTerminal, TypeOK

LEMMA PutTypes ==
    ASSUME TypeOK, NEW j \in Jobs, NEW e \in Outcome, Put(j, e)
    PROVE  hub' \in [Jobs -> Seq(Outcome)]
BY DEF Put, TypeOK

LEMMA GotoTypes ==
    ASSUME TypeOK, NEW j \in Jobs, NEW label \in PC, Goto(j, label)
    PROVE  pc' \in [Jobs -> PC]
BY DEF Goto, TypeOK

LEMMA HandlerTypes ==
    ASSUME TypeOK, NEW j \in Jobs, Register(j) \/ Handler(j) PROVE TypeOK'
<1> USE Statuses DEF TypeOK, Goto, PC, HandlerPC
<1>1. CASE Register(j)
  BY <1>1 DEF Register
<1>2. CASE CreateRow(j)
  BY <1>2 DEF CreateRow
<1>3. CASE Submit(j)
  BY <1>3 DEF Submit
<1> QED BY <1>1, <1>2, <1>3 DEF Handler

LEMMA Labels ==
    /\ {"fresh", "registered", "created", "waiting", "ended"} \subseteq PC
    /\ WorkerPC \subseteq PC
    /\ {"starting", "download", "merge", "transcode", "publish", "finish"} \subseteq PC
    /\ {"announce", "hash"} \subseteq PC
    /\ {"e_rm", "e_pop", "e_row", "e_put"} \subseteq PC
    /\ {"c_rm", "c_pop", "c_row", "c_put"} \subseteq PC
BY DEF PC, HandlerPC, WorkerPC, Working, Winding, Failing, Cancelling

LEMMA WorkerTypes ==
    ASSUME TypeOK, NEW j \in Jobs, Worker(j) PROVE TypeOK'
<1> USE Labels DEF TypeOK
<1>1. CASE Start(j)
  BY <1>1, GotoTypes DEF Start
<1>2. CASE MarkStarted(j) \/ Merging(j) \/ Transcoding(j)
  <2>1. PICK label \in PC, status \in RowStatus, from \in SUBSET PC :
          Phase(j, from, label, status)
    BY <1>2, Statuses DEF MarkStarted, Merging, Transcoding
  <2>2. row' \in [Jobs -> RowStatus] /\ pc' \in [Jobs -> PC]
    BY <2>1, SetStatusTypes, GotoTypes DEF Phase
  <2> QED BY <2>1, <2>2 DEF Phase
<1>3. CASE Downloaded(j)
  <2>1. pc' \in [Jobs -> PC]
    BY <1>3, GotoTypes DEF Downloaded
  <2>2. disk' \in [Jobs -> {"none", "dir", "file"}]
    BY <1>3 DEF Downloaded
  <2> QED BY <1>3, <2>1, <2>2 DEF Downloaded
<1>4. CASE Publish(j)
  <2>1. pc' \in [Jobs -> PC]
    BY <1>4, GotoTypes DEF Publish
  <2>2. runtime' \in [Jobs -> {"none", "entry", "ready"}]
    BY <1>4 DEF Publish
  <2> QED BY <1>4, <2>1, <2>2 DEF Publish
<1>5. CASE Finish(j)
  <2>1. pc' \in [Jobs -> PC]
    BY <1>5, GotoTypes DEF Finish
  <2>2. /\ row' \in [Jobs -> RowStatus]
        /\ completed' \in [Jobs -> {"null", "fresh", "old"}]
    BY <1>5, Statuses, SetTerminalTypes DEF Finish
  <2> QED BY <1>5, <2>1, <2>2 DEF Finish
<1>6. CASE Announce(j)
  <2>1. pc' \in [Jobs -> PC]
    BY <1>6, GotoTypes DEF Announce
  <2>2. hub' \in [Jobs -> Seq(Outcome)]
    BY <1>6, PutTypes DEF Announce, Outcome
  <2> QED BY <1>6, <2>1, <2>2 DEF Announce
<1>7. CASE DeferHash(j)
  <2>1. pc' \in [Jobs -> PC]
    BY <1>7, GotoTypes DEF DeferHash
  <2> QED BY <1>7, <2>1 DEF DeferHash
<1>8. CASE Raise(j) \/ SeeCancel(j)
  <2>1. pc' \in [Jobs -> PC]
    BY <1>8, GotoTypes DEF Raise, SeeCancel, Abort
  <2> QED BY <1>8, <2>1 DEF Raise, SeeCancel
<1>9. CASE RemoveTmp(j)
  <2>1. pc' \in [Jobs -> PC]
    BY <1>9, GotoTypes DEF RemoveTmp
  <2>2. disk' \in [Jobs -> {"none", "dir", "file"}]
    BY <1>9 DEF RemoveTmp
  <2> QED BY <1>9, <2>1, <2>2 DEF RemoveTmp
<1>10. CASE DropRuntime(j)
  <2>1. pc' \in [Jobs -> PC]
    BY <1>10, GotoTypes DEF DropRuntime
  <2>2. runtime' \in [Jobs -> {"none", "entry", "ready"}]
    BY <1>10 DEF DropRuntime
  <2> QED BY <1>10, <2>1, <2>2 DEF DropRuntime
<1>11. CASE SettleRow(j)
  <2>1. pc' \in [Jobs -> PC]
    BY <1>11, GotoTypes DEF SettleRow
  <2>2. /\ row' \in [Jobs -> RowStatus]
        /\ completed' \in [Jobs -> {"null", "fresh", "old"}]
    BY <1>11, Statuses, SetTerminalTypes DEF SettleRow
  <2> QED BY <1>11, <2>1, <2>2 DEF SettleRow
<1>12. CASE PutFailure(j)
  <2>1. pc' \in [Jobs -> PC]
    BY <1>12, GotoTypes DEF PutFailure
  <2>2. hub' \in [Jobs -> Seq(Outcome)]
    BY <1>12, PutTypes DEF PutFailure, Outcome
  <2> QED BY <1>12, <2>1, <2>2 DEF PutFailure
<1> QED
  BY <1>1, <1>2, <1>3, <1>4, <1>5, <1>6, <1>7, <1>8, <1>9, <1>10, <1>11, <1>12
     DEF Worker

LEMMA RequestTypes ==
    ASSUME TypeOK, NEW c \in Clients, Request(c) \/ Respond(c) PROVE TypeOK'
<1> DEFINE Slots == {Idle} \cup [op : ClientOps, job : Jobs]
<1>1. ASSUME NEW j \in Jobs, CancelCheck(c, j) \/ DeleteCheck(c, j) \/ Serve(c, j)
      PROVE  TypeOK'
  <2>1. PICK op \in ClientOps : Enter(c, j, op)
    BY <1>1 DEF CancelCheck, DeleteCheck, Serve, ClientOps
  <2>2. client' \in [Clients -> Slots]
    BY <2>1 DEF TypeOK, Enter
  <2> QED BY <2>1, <2>2 DEF TypeOK, Enter
<1>2. ASSUME Respond(c)
      PROVE  client[c] \in [op : ClientOps, job : Jobs] /\ Target(c) \in Jobs
  <2>1. client[c].op # "idle"
    BY <1>2 DEF Respond, CancelRaise, DeleteRow, Send, CleanupPop, CleanupRemove, At
  <2> QED BY <2>1 DEF TypeOK, Target, Idle
<1>3. ASSUME Leave(c) PROVE client' \in [Clients -> Slots]
  BY <1>3 DEF Leave, TypeOK
<1>4. ASSUME Respond(c), NEW op \in ClientOps, Become(c, op)
      PROVE  client' \in [Clients -> Slots]
  <2> DEFINE new == [client[c] EXCEPT !.op = op]
  <2>1. new \in [op : ClientOps, job : Jobs]
    BY <1>2, <1>4
  <2>2. client' = [client EXCEPT ![c] = new]
    BY <1>4 DEF Become
  <2> HIDE DEF new
  <2> QED BY <2>1, <2>2 DEF TypeOK
<1>5. CASE CancelRaise(c)
  BY <1>2, <1>3, <1>5 DEF CancelRaise, TypeOK, Respond
<1>6. CASE DeleteRow(c)
  BY <1>2, <1>3, <1>6, Statuses DEF DeleteRow, TypeOK, Respond
<1>7. CASE Send(c)
  BY <1>3, <1>4, <1>7 DEF Send, TypeOK, Respond, ClientOps
<1>8. CASE CleanupPop(c)
  <2>1. client' \in [Clients -> Slots]
    BY <1>4, <1>8 DEF CleanupPop, Respond, ClientOps
  <2> QED BY <1>2, <1>8, <2>1 DEF CleanupPop, TypeOK, Respond
<1>9. CASE CleanupRemove(c)
  BY <1>2, <1>3, <1>9 DEF CleanupRemove, TypeOK, Respond
<1> QED BY <1>1, <1>5, <1>6, <1>7, <1>8, <1>9 DEF Request, Respond

LEMMA ReaperTypes == ASSUME TypeOK, Reaper PROVE TypeOK'
<1> USE DEF TypeOK, Resting
<1>1. CASE ReaperWake
  BY <1>1 DEF ReaperWake
<1>2. ASSUME NEW j \in Jobs, ReaperJudge(j) PROVE TypeOK'
  BY <1>2 DEF ReaperJudge
<1>3. CASE ReaperRemove
  BY <1>3 DEF ReaperRemove
<1>4. CASE ReaperPop
  BY <1>4 DEF ReaperPop
<1>5. CASE ReaperDone
  BY <1>5 DEF ReaperDone
<1> QED BY <1>1, <1>2, <1>3, <1>4, <1>5 DEF Reaper

LEMMA BootTypes == ASSUME TypeOK, BeginExit \/ Restart PROVE TypeOK'
<1>1. CASE BeginExit
  BY <1>1 DEF BeginExit, TypeOK
<1>2. CASE Restart
  <2>1. row' \in [Jobs -> RowStatus]
    BY <1>2, Statuses DEF Restart, Interrupted, TypeOK
  <2>2. pc' \in [Jobs -> PC]
    BY <1>2, Labels DEF Restart, TypeOK
  <2>3. /\ hub' \in [Jobs -> Seq(Outcome)]
        /\ queue' \in Seq(Jobs)
    BY <1>2 DEF Restart
  <2>4. /\ client' \in [Clients -> {Idle} \cup [op : ClientOps, job : Jobs]]
        /\ boots' \in Nat
        /\ cancelled' \subseteq Jobs
        /\ release' \in [Jobs -> {"no", "served", "newborn", "restart"}]
    BY <1>2 DEF Restart, TypeOK
  <2> QED BY <1>2, <2>1, <2>2, <2>3, <2>4 DEF Restart, TypeOK, Resting
<1> QED BY <1>1, <1>2

LEMMA GraceTypes == ASSUME TypeOK, NEW j \in Jobs, GraceElapses(j) PROVE TypeOK'
BY DEF GraceElapses, TypeOK

\* Every state of the backend's job runtime is well formed: in particular a
\* request or a sweep that acts always acts on a job.
THEOREM TypeCorrect == Spec => []TypeOK
<1>1. Init => TypeOK
  <2> SUFFICES ASSUME Init PROVE TypeOK
    OBVIOUS
  <2>1. row \in [Jobs -> RowStatus] /\ pc \in [Jobs -> PC]
    BY Statuses, Labels DEF Init
  <2>2. /\ hub \in [Jobs -> Seq(Outcome)]
        /\ queue \in Seq(Jobs)
    BY DEF Init
  <2>3. reaper \in [phase : {"rest", "scan"}, job : {NoJob}, todo : SUBSET Jobs]
    BY DEF Init, Resting
  <2>4. client \in [Clients -> {Idle} \cup [op : ClientOps, job : Jobs]]
    BY DEF Init
  <2> QED BY <2>1, <2>2, <2>3, <2>4 DEF Init, TypeOK
<1>2. TypeOK /\ [Next]_vars => TypeOK'
  <2> SUFFICES ASSUME TypeOK, [Next]_vars PROVE TypeOK'
    OBVIOUS
  <2>1. CASE UNCHANGED vars
    BY <2>1 DEF vars, TypeOK
  <2> QED
    BY <2>1, HandlerTypes, WorkerTypes, GraceTypes, RequestTypes, ReaperTypes,
       BootTypes DEF Next
<1> QED BY <1>1, <1>2, PTL DEF Spec

-------------------------------------------------------------------------------
(* The row and its worker *)

LEMMA RowInit == Init => RowMatchesWorker
BY DEF Init, RowMatchesWorker, StatusAt, Idle

\* What a step must leave alone for the invariant to survive it.
LEMMA RowFrame ==
    ASSUME TypeOK, RowMatchesWorker, NEW j \in Jobs, NEW label \in PC,
           Goto(j, label), row'[j] \in StatusAt(label, Late(j)),
           label = "hash" => j \in ImportJobs,
           row' \in [Jobs -> RowStatus],
           \A i \in Jobs \ {j} : row'[i] = row[i],
           row[j] \in Terminal \cup {"none"} => row'[j] \in Terminal \cup {"none"},
           label \in {"fresh", "registered"} => pc[j] = "fresh",
           exiting' = exiting, client' = client
    PROVE  RowMatchesWorker'
<1>1. /\ pc'[j] = label
      /\ \A i \in Jobs \ {j} : pc'[i] = pc[i]
  BY DEF Goto, TypeOK
<1>2. \A i \in Jobs : Late(i)' = Late(i)
  BY DEF Late
<1>3. \A i \in Jobs : row'[i] \in StatusAt(pc'[i], Late(i)')
  BY <1>1, <1>2 DEF RowMatchesWorker
<1>4. \A i \in Jobs : pc'[i] = "hash" => i \in ImportJobs
  BY <1>1 DEF RowMatchesWorker
<1>5. ASSUME NEW c \in Clients, client'[c].op = "delete"
      PROVE  /\ client'[c].job \in Jobs
             /\ row'[client'[c].job] \in Terminal \cup {"none"}
             /\ pc'[client'[c].job] \notin {"fresh", "registered"}
  <2> DEFINE t == client[c].job
  <2>1. /\ t \in Jobs
        /\ row[t] \in Terminal \cup {"none"}
        /\ pc[t] \notin {"fresh", "registered"}
    BY <1>5 DEF RowMatchesWorker
  <2>2. CASE t = j
    BY <2>1, <2>2, <1>1, <1>5
  <2>3. CASE t # j
    BY <2>1, <2>3, <1>1, <1>5
  <2> QED BY <2>2, <2>3
<1> QED BY <1>3, <1>4, <1>5 DEF RowMatchesWorker

\* A step that moves the thread and leaves the row alone.
LEMMA RowStay ==
    ASSUME TypeOK, RowMatchesWorker, NEW j \in Jobs, NEW label \in PC,
           Goto(j, label), row' = row, row[j] \in StatusAt(label, Late(j)),
           label = "hash" => j \in ImportJobs,
           label \in {"fresh", "registered"} => pc[j] = "fresh",
           exiting' = exiting, client' = client
    PROVE  RowMatchesWorker'
BY RowFrame DEF TypeOK

\* A step that moves the thread and writes the row if it is still there.
LEMMA RowSet ==
    ASSUME TypeOK, RowMatchesWorker, NEW j \in Jobs, NEW label \in PC,
           NEW s \in RowStatus, Goto(j, label), SetStatus(j, s),
           label \notin {"fresh", "registered", "hash"},
           IF row[j] = "none" THEN "none" \in StatusAt(label, Late(j))
                              ELSE s \in StatusAt(label, Late(j)),
           row[j] \in Terminal => s \in Terminal,
           exiting' = exiting, client' = client
    PROVE  RowMatchesWorker'
<1>1. row' \in [Jobs -> RowStatus]
  BY SetStatusTypes DEF TypeOK
<1>2. /\ row'[j] = IF row[j] = "none" THEN "none" ELSE s
      /\ \A i \in Jobs \ {j} : row'[i] = row[i]
  BY DEF SetStatus, TypeOK
<1>3. row[j] \in Terminal \cup {"none"} => row'[j] \in Terminal \cup {"none"}
  BY <1>2
<1> QED BY <1>1, <1>2, <1>3, RowFrame

LEMMA RowHandler ==
    ASSUME TypeOK, RowMatchesWorker, NEW j \in Jobs, Register(j) \/ Handler(j)
    PROVE  RowMatchesWorker'
<1>1. row[j] \in StatusAt(pc[j], Late(j))
  BY DEF RowMatchesWorker
<1>2. CASE Register(j)
  <2>1. row[j] \in StatusAt("registered", Late(j))
    BY <1>1, <1>2 DEF Register, StatusAt
  <2> QED BY <1>2, <2>1, Labels, RowStay DEF Register
<1>3. CASE CreateRow(j)
  <2>1. row[j] = "none" /\ "queued" \in StatusAt("created", Late(j))
    BY <1>1, <1>3 DEF CreateRow, StatusAt
  \* No delete is aimed at a job without a row yet.
  <2>2. \A c \in Clients : client[c].op = "delete" => client[c].job # j
    BY <1>3 DEF CreateRow, RowMatchesWorker
  <2>3. /\ pc'[j] = "created" /\ row'[j] = "queued"
        /\ \A i \in Jobs \ {j} : pc'[i] = pc[i] /\ row'[i] = row[i]
    BY <1>3 DEF CreateRow, Goto, TypeOK
  <2>4. \A i \in Jobs : Late(i)' = Late(i)
    BY <1>3 DEF CreateRow, Late
  <2>5. \A i \in Jobs : row'[i] \in StatusAt(pc'[i], Late(i)')
    BY <2>1, <2>3, <2>4 DEF RowMatchesWorker
  <2>6. client' = client
    BY <1>3 DEF CreateRow
  <2> QED BY <2>2, <2>3, <2>5, <2>6 DEF RowMatchesWorker
<1>4. CASE Submit(j)
  <2>1. row[j] \in StatusAt("waiting", Late(j))
    BY <1>1, <1>4 DEF Submit, StatusAt
  <2> QED BY <1>4, <2>1, Labels, RowStay DEF Submit
<1> QED BY <1>2, <1>3, <1>4 DEF Handler

LEMMA RowWorker ==
    ASSUME TypeOK, RowMatchesWorker, NEW j \in Jobs, Worker(j)
    PROVE  RowMatchesWorker'
<1>1. row[j] \in StatusAt(pc[j], Late(j))
  BY DEF RowMatchesWorker
<1> USE Labels, Statuses
<1>2. CASE Start(j)
  <2>1. row[j] \in StatusAt("starting", Late(j))
    BY <1>1, <1>2 DEF Start, StatusAt
  <2> QED BY <1>2, <2>1, RowStay DEF Start
<1>3. CASE MarkStarted(j)
  <2>1. row[j] = "queued" /\ "downloading" \in StatusAt("download", Late(j))
    BY <1>1, <1>3 DEF MarkStarted, Phase, StatusAt
  <2> QED BY <1>3, <2>1, RowSet DEF MarkStarted, Phase, Terminal
<1>4. CASE Merging(j)
  <2>1. row[j] = "downloading" /\ "merging" \in StatusAt("merge", Late(j))
    BY <1>1, <1>4 DEF Merging, Phase, StatusAt
  <2> QED BY <1>4, <2>1, RowSet DEF Merging, Phase, Terminal
<1>5. CASE Transcoding(j)
  <2>1. /\ row[j] \in {"downloading", "merging"}
        /\ "transcoding" \in StatusAt("transcode", Late(j))
    BY <1>1, <1>5 DEF Transcoding, Phase, StatusAt
  <2> QED BY <1>5, <2>1, RowSet DEF Transcoding, Phase, Terminal
<1>6. ASSUME NEW label \in {"publish", "finish", "e_rm", "e_pop", "c_rm", "c_pop"},
             pc[j] \in {"download", "merge", "transcode", "publish", "finish"},
             Goto(j, label), row' = row, exiting' = exiting, client' = client
      PROVE  RowMatchesWorker'
  <2>1. row[j] \in StatusAt(label, Late(j))
    BY <1>1, <1>6 DEF StatusAt, Active
  <2> QED BY <1>6, <2>1, RowStay
<1>7. CASE Downloaded(j)
  BY <1>6, <1>7 DEF Downloaded
<1>8. CASE Publish(j)
  BY <1>6, <1>8 DEF Publish
<1>9. CASE Finish(j)
  <2>1. CASE Goto(j, "e_rm") /\ UNCHANGED <<row, completed>>
    BY <1>6, <1>9, <2>1 DEF Finish
  <2>2. CASE Goto(j, "announce") /\ SetTerminal(j, "done")
    <3>1. "done" \in StatusAt("announce", Late(j)) /\ row[j] \in Active
      BY <1>1, <1>9 DEF Finish, StatusAt
    <3> QED BY <1>9, <2>2, <3>1, RowSet DEF Finish, SetTerminal, Active, Terminal
  <2> QED BY <1>9, <2>1, <2>2 DEF Finish
<1>10. CASE Announce(j)
  <2>1. /\ row[j] \in StatusAt("ended", Late(j))
        /\ row[j] \in StatusAt("hash", Late(j))
    BY <1>1, <1>10 DEF Announce, StatusAt, Terminal
  <2>2. CASE Goto(j, "ended")
    BY <1>10, <2>1, <2>2, RowStay DEF Announce
  <2>3. CASE Goto(j, "hash") /\ j \in ImportJobs
    BY <1>10, <2>1, <2>3, RowStay DEF Announce
  <2> QED BY <1>10, <2>2, <2>3 DEF Announce
<1>11. CASE DeferHash(j)
  <2>1. j \in ImportJobs
    BY <1>11 DEF DeferHash, RowMatchesWorker
  <2>2. CASE exiting
    <3>1. row[j] \in StatusAt("e_pop", Late(j))
      BY <1>1, <1>11, <2>1, <2>2 DEF DeferHash, StatusAt, Late
    <3> QED BY <1>11, <2>2, <3>1, RowStay DEF DeferHash
  <2>3. CASE ~exiting
    <3>1. row[j] \in StatusAt("ended", Late(j))
      BY <1>1, <1>11 DEF DeferHash, StatusAt, Terminal
    <3> QED BY <1>11, <2>3, <3>1, RowStay DEF DeferHash
  <2> QED BY <2>2, <2>3
<1>12. CASE Raise(j)
  <2>1. PICK label \in {"e_rm", "e_pop"} : Goto(j, label)
    BY <1>12 DEF Raise, Abort
  <2>2. row[j] \in StatusAt(label, Late(j))
    BY <1>1, <1>12 DEF Raise, StatusAt, Active
  <2> QED BY <1>12, <2>1, <2>2, RowStay DEF Raise
<1>13. CASE SeeCancel(j)
  BY <1>6, <1>13 DEF SeeCancel, Abort
<1>14. CASE RemoveTmp(j)
  <2>1. CASE pc[j] = "e_rm"
    <3>1. row[j] \in StatusAt("e_pop", Late(j))
      BY <1>1, <2>1 DEF StatusAt
    <3> QED BY <1>14, <2>1, <3>1, RowStay DEF RemoveTmp
  <2>2. CASE pc[j] = "c_rm"
    <3>1. row[j] \in StatusAt("c_pop", Late(j))
      BY <1>1, <2>2 DEF StatusAt
    <3> QED BY <1>14, <2>2, <3>1, RowStay DEF RemoveTmp
  <2> QED BY <1>14, <2>1, <2>2 DEF RemoveTmp
<1>15. CASE DropRuntime(j)
  <2>1. CASE pc[j] = "e_pop"
    <3>1. row[j] \in StatusAt("e_row", Late(j))
      BY <1>1, <2>1 DEF StatusAt
    <3> QED BY <1>15, <2>1, <3>1, RowStay DEF DropRuntime
  <2>2. CASE pc[j] = "c_pop"
    <3>1. row[j] \in StatusAt("c_row", Late(j))
      BY <1>1, <2>2 DEF StatusAt
    <3> QED BY <1>15, <2>2, <3>1, RowStay DEF DropRuntime
  <2> QED BY <1>15, <2>1, <2>2 DEF DropRuntime
<1>16. CASE SettleRow(j)
  <2>1. CASE pc[j] = "e_row"
    <3>1. {"error", "none"} \subseteq StatusAt("e_put", Late(j))
      BY DEF StatusAt
    <3> QED BY <1>16, <2>1, <3>1, RowSet DEF SettleRow, SetTerminal, Terminal
  <2>2. CASE pc[j] = "c_row"
    <3>1. {"cancelled", "none"} \subseteq StatusAt("c_put", Late(j))
      BY DEF StatusAt
    <3> QED BY <1>16, <2>2, <3>1, RowSet DEF SettleRow, SetTerminal, Terminal
  <2> QED BY <1>16, <2>1, <2>2 DEF SettleRow
<1>17. CASE PutFailure(j)
  <2>1. row[j] \in StatusAt("ended", Late(j))
    BY <1>1, <1>17 DEF PutFailure, StatusAt, Terminal
  <2> QED BY <1>17, <2>1, RowStay DEF PutFailure
<1> QED
  BY <1>2, <1>3, <1>4, <1>5, <1>7, <1>8, <1>9, <1>10, <1>11, <1>12, <1>13, <1>14,
     <1>15, <1>16, <1>17 DEF Worker

\* A step that leaves rows and threads alone and aims no new delete.
LEMMA RowIdle ==
    ASSUME RowMatchesWorker, row' = row, pc' = pc, exiting' = exiting,
           \A c \in Clients : client'[c].op = "delete" => client'[c] = client[c]
    PROVE  RowMatchesWorker'
<1>1. \A j \in Jobs : Late(j)' = Late(j)
  BY DEF Late
<1>2. \A j \in Jobs : row'[j] \in StatusAt(pc'[j], Late(j)')
  BY <1>1 DEF RowMatchesWorker
<1>3. \A c \in Clients :
        client'[c].op = "delete" =>
           /\ client'[c].job \in Jobs
           /\ row'[client'[c].job] \in Terminal \cup {"none"}
           /\ pc'[client'[c].job] \notin {"fresh", "registered"}
  BY DEF RowMatchesWorker
<1> QED BY <1>2, <1>3 DEF RowMatchesWorker

LEMMA RowRequest ==
    ASSUME TypeOK, RowMatchesWorker, NEW c \in Clients, Request(c) \/ Respond(c)
    PROVE  RowMatchesWorker'
<1>1. ASSUME NEW j \in Jobs, CancelCheck(c, j) \/ Serve(c, j)
      PROVE  RowMatchesWorker'
  BY <1>1, RowIdle DEF CancelCheck, Serve, Enter, TypeOK
<1>2. ASSUME NEW j \in Jobs, DeleteCheck(c, j) PROVE RowMatchesWorker'
  <2>1. row[j] \in StatusAt(pc[j], Late(j))
    BY DEF RowMatchesWorker
  <2>2. row[j] \in Terminal /\ pc[j] \notin {"fresh", "registered"}
    BY <1>2, <2>1 DEF DeleteCheck, StatusAt, Terminal
  <2>3. \A i \in Jobs : Late(i)' = Late(i)
    BY <1>2 DEF DeleteCheck, Enter, Late
  <2>4. \A i \in Jobs : row'[i] \in StatusAt(pc'[i], Late(i)')
    BY <1>2, <2>3 DEF DeleteCheck, Enter, RowMatchesWorker
  <2>5. /\ client'[c] = [op |-> "delete", job |-> j]
        /\ \A d \in Clients \ {c} : client'[d] = client[d]
    BY <1>2 DEF DeleteCheck, Enter, TypeOK
  <2>6. row' = row /\ pc' = pc
    BY <1>2 DEF DeleteCheck, Enter
  <2> QED BY <2>2, <2>4, <2>5, <2>6 DEF RowMatchesWorker
<1>3. CASE CancelRaise(c) \/ Send(c) \/ CleanupPop(c) \/ CleanupRemove(c)
  <2>1. \A d \in Clients : client'[d].op = "delete" => client'[d] = client[d]
    BY <1>3 DEF CancelRaise, Send, CleanupPop, CleanupRemove, Leave, Become,
                Idle, TypeOK
  <2> QED
    BY <1>3, <2>1, RowIdle DEF CancelRaise, Send, CleanupPop, CleanupRemove
<1>4. CASE DeleteRow(c)
  <2> DEFINE t == client[c].job
  <2>1. /\ t \in Jobs
        /\ row[t] \in Terminal \cup {"none"}
        /\ pc[t] \notin {"fresh", "registered"}
        /\ row[t] \in StatusAt(pc[t], Late(t))
    BY <1>4 DEF DeleteRow, At, RowMatchesWorker
  <2>2. "none" \in StatusAt(pc[t], Late(t))
    BY <2>1 DEF StatusAt, Active, Terminal
  <2>3. /\ row'[t] = "none"
        /\ \A i \in Jobs \ {t} : row'[i] = row[i]
        /\ pc' = pc
    BY <1>4, <2>1 DEF DeleteRow, Target, TypeOK
  <2>4. \A i \in Jobs : Late(i)' = Late(i)
    BY <1>4 DEF DeleteRow, Late
  <2>5. \A i \in Jobs : row'[i] \in StatusAt(pc'[i], Late(i)')
    BY <2>2, <2>3, <2>4 DEF RowMatchesWorker
  <2>6. \A d \in Clients :
          client'[d].op = "delete" =>
             /\ client'[d].job \in Jobs
             /\ row'[client'[d].job] \in Terminal \cup {"none"}
             /\ pc'[client'[d].job] \notin {"fresh", "registered"}
    <3> SUFFICES ASSUME NEW d \in Clients, client'[d].op = "delete"
                 PROVE  /\ client'[d].job \in Jobs
                        /\ row'[client'[d].job] \in Terminal \cup {"none"}
                        /\ pc'[client'[d].job] \notin {"fresh", "registered"}
      OBVIOUS
    <3>1. client'[d] = client[d]
      BY <1>4 DEF DeleteRow, Leave, Idle, TypeOK
    <3>2. /\ client[d].job \in Jobs
          /\ row[client[d].job] \in Terminal \cup {"none"}
          /\ pc[client[d].job] \notin {"fresh", "registered"}
      BY <3>1 DEF RowMatchesWorker
    <3>3. row'[client[d].job] \in Terminal \cup {"none"}
      BY <2>3, <3>2
    <3> QED BY <2>3, <3>1, <3>2, <3>3
  <2>7. \A i \in Jobs : pc'[i] = "hash" => i \in ImportJobs
    BY <2>3 DEF RowMatchesWorker
  <2> QED BY <2>5, <2>6, <2>7 DEF RowMatchesWorker
<1> QED BY <1>1, <1>2, <1>3, <1>4 DEF Request, Respond

LEMMA RowBoot ==
    ASSUME TypeOK, RowMatchesWorker, BeginExit \/ Restart PROVE RowMatchesWorker'
<1>1. CASE BeginExit
  <2>1. \A j \in Jobs : StatusAt(pc[j], Late(j)) \subseteq StatusAt(pc[j], Late(j)')
    BY <1>1 DEF BeginExit, Late, StatusAt
  <2>2. \A j \in Jobs : row'[j] \in StatusAt(pc'[j], Late(j)')
    BY <1>1, <2>1 DEF BeginExit, RowMatchesWorker
  <2> QED BY <1>1, <2>2 DEF BeginExit, RowMatchesWorker
<1>2. CASE Restart
  <2>1. ASSUME NEW j \in Jobs PROVE row'[j] \in StatusAt(pc'[j], Late(j)')
    <3>1. row[j] \in StatusAt(pc[j], Late(j)) /\ row[j] \in RowStatus
      BY DEF RowMatchesWorker, TypeOK
    <3>2. CASE pc[j] = "fresh"
      <4>1. row[j] = "none" /\ row'[j] = "none" /\ pc'[j] = "fresh"
        BY <1>2, <3>1, <3>2 DEF Restart, StatusAt, Interrupted, Active
      <4> QED BY <4>1 DEF StatusAt
    <3>3. CASE pc[j] # "fresh"
      <4>1. row'[j] \in Terminal \cup {"none"} /\ pc'[j] = "ended"
        BY <1>2, <3>1, <3>3 DEF Restart, Interrupted, RowStatus, Terminal
      <4> QED BY <4>1 DEF StatusAt
    <3> QED BY <3>2, <3>3
  <2> QED BY <1>2, <2>1 DEF Restart, RowMatchesWorker, Idle
<1> QED BY <1>1, <1>2

\* Whatever requests, the reaper and restarts do in between, a row always says
\* what the thread behind it is doing.
THEOREM RowCorrect == Spec => []RowMatchesWorker
<1>1. TypeOK /\ RowMatchesWorker /\ [Next]_vars => RowMatchesWorker'
  <2> SUFFICES ASSUME TypeOK, RowMatchesWorker, [Next]_vars
               PROVE  RowMatchesWorker'
    OBVIOUS
  <2>1. CASE UNCHANGED vars
    BY <2>1, RowIdle DEF vars
  <2>2. CASE Reaper
    BY <2>2, RowIdle DEF Reaper, ReaperWake, ReaperJudge, ReaperRemove, ReaperPop,
                         ReaperDone
  <2>3. ASSUME NEW j \in Jobs, GraceElapses(j) PROVE RowMatchesWorker'
    BY <2>3, RowIdle DEF GraceElapses
  <2> QED
    BY <2>1, <2>2, <2>3, RowHandler, RowWorker, RowRequest, RowBoot DEF Next
<1> QED BY <1>1, RowInit, TypeCorrect, PTL DEF Spec

LEMMA ActiveLive == TypeOK /\ RowMatchesWorker => ActiveIsLive
<1> SUFFICES ASSUME TypeOK, RowMatchesWorker, NEW j \in Jobs, row[j] \in Active
             PROVE  Live(j)
  BY DEF ActiveIsLive
<1>1. row[j] \in StatusAt(pc[j], Late(j)) /\ pc[j] \in PC
  BY DEF RowMatchesWorker, TypeOK
<1>2. pc[j] \notin {"fresh", "ended"}
  BY <1>1 DEF StatusAt, Active, Terminal
<1> QED BY <1>1, <1>2 DEF PC, Live

\* No row is left active with nobody behind it, for any number of jobs.
THEOREM ActiveCorrect == Spec => []ActiveIsLive
BY ActiveLive, TypeCorrect, RowCorrect, PTL

-------------------------------------------------------------------------------
(* Terminal statuses *)

LEMMA TerminalStep ==
    ASSUME TypeOK, RowMatchesWorker, [Next]_vars,
           NEW j \in Jobs, row[j] \in Terminal
    PROVE  \/ row'[j] \in {row[j], "none"}
           \/ exiting /\ j \in ImportJobs /\ row'[j] = "error"
<1>1. row[j] \in StatusAt(pc[j], Late(j)) /\ row[j] \notin Active \cup {"none"}
  BY DEF RowMatchesWorker, Active, Terminal
\* The only places a thread can be at once the row is terminal.
<1>2. pc[j] \notin {"registered", "starting", "download", "merge", "transcode",
                   "publish", "finish", "c_row"}
  BY <1>1 DEF StatusAt, Active, Terminal
<1>3. pc[j] = "e_row" => exiting /\ j \in ImportJobs
  BY <1>1 DEF StatusAt, Late
<1>4. ASSUME NEW i \in Jobs, Register(i) \/ Handler(i) PROVE row'[j] = row[j]
  BY <1>2, <1>4 DEF Register, Handler, CreateRow, Submit, TypeOK
<1>5. ASSUME NEW i \in Jobs, Worker(i)
      PROVE  \/ row'[j] = row[j]
             \/ exiting /\ j \in ImportJobs /\ row'[j] = "error"
  <2>1. CASE MarkStarted(i) \/ Merging(i) \/ Transcoding(i)
    BY <1>2, <2>1 DEF MarkStarted, Merging, Transcoding, Phase, SetStatus, TypeOK
  <2>2. CASE Finish(i)
    BY <1>2, <2>2 DEF Finish, SetTerminal, SetStatus, TypeOK
  <2>3. CASE SettleRow(i)
    BY <1>2, <1>3, <2>3 DEF SettleRow, SetTerminal, SetStatus, TypeOK
  <2>4. CASE \/ Start(i) \/ Downloaded(i) \/ Publish(i) \/ Announce(i)
             \/ DeferHash(i) \/ Raise(i) \/ SeeCancel(i) \/ RemoveTmp(i)
             \/ DropRuntime(i) \/ PutFailure(i)
    BY <2>4 DEF Start, Downloaded, Publish, Announce, DeferHash, Raise, SeeCancel,
                RemoveTmp, DropRuntime, PutFailure
  <2> QED BY <1>5, <2>1, <2>2, <2>3, <2>4 DEF Worker
<1>6. ASSUME NEW c \in Clients, Request(c) \/ Respond(c)
      PROVE  row'[j] \in {row[j], "none"}
  <2>1. CASE DeleteRow(c)
    BY <2>1 DEF DeleteRow, TypeOK
  <2> QED BY <1>6, <2>1 DEF Request, Respond, CancelCheck, DeleteCheck, Serve, Enter,
                            CancelRaise, Send, CleanupPop, CleanupRemove
<1>7. CASE Restart
  BY <1>1, <1>7 DEF Restart, Interrupted
<1>8. CASE Reaper \/ BeginExit \/ UNCHANGED vars \/ \E i \in Jobs : GraceElapses(i)
  BY <1>8 DEF Reaper, ReaperWake, ReaperJudge, ReaperRemove, ReaperPop, ReaperDone,
              BeginExit, GraceElapses, vars
<1> QED BY <1>4, <1>5, <1>6, <1>7, <1>8 DEF Next

\* A job that ended stays as it ended, restarts included; only an import caught by
\* the interpreter's shutdown is rewritten.
THEOREM TerminalCorrect == Spec => TerminalIsFinal
<1>1. TypeOK /\ RowMatchesWorker /\ [Next]_vars =>
        [\A j \in Jobs :
           row[j] \in Terminal =>
              \/ row'[j] \in {row[j], "none"}
              \/ exiting /\ j \in ImportJobs /\ row'[j] = "error"]_vars
  BY TerminalStep
<1> QED BY <1>1, TypeCorrect, RowCorrect, PTL DEF Spec, TerminalIsFinal

-------------------------------------------------------------------------------
(* The result of a finished job *)

\* A file job whose runtime nobody had a reason to give up.
Unclaimed(j) == j \in FileJobs /\ release[j] = "no"

\* What the reaper found out about a job, and what stays so: it has ended, and
\* its grace is over or its row deleted.
Condemned(j) ==
    /\ pc[j] \notin {"fresh", "registered"}
    /\ row[j] = "none" \/ (row[j] \in Terminal /\ completed[j] # "fresh")

\* The entry and the file of one job.
Kept(j) ==
    /\ pc[j] = "fresh" => runtime[j] = "none"
    /\ Unclaimed(j) /\ pc[j] = "finish" => runtime[j] = "ready"
    /\ Unclaimed(j) /\ row[j] = "done" /\ completed[j] = "fresh"
          => runtime[j] = "ready" /\ disk[j] = "file"

\* Whoever is about to remove something has a reason: the cleanup of a response has
\* noted that the file was handed out, the sweep has judged the job rightly.
Handed == \A c \in Clients : At(c, "rm") => release[Target(c)] # "no"

Judged == reaper.phase \in {"rm", "pop"} /\ Unclaimed(reaper.job)
             => Condemned(reaper.job)

ResultInv == (\A j \in Jobs : Kept(j)) /\ Handed /\ Judged

LEMMA ResultInit == Init => ResultInv
BY DEF Init, ResultInv, Kept, Handed, Judged, At, Idle, Resting, FileJobs

\* A thread touches no other job, no request, no sweep.
LEMMA ThreadFrame ==
    ASSUME TypeOK, NEW j \in Jobs, Register(j) \/ Handler(j) \/ Worker(j)
    PROVE  /\ release' = release /\ reaper' = reaper /\ client' = client
           /\ \A i \in Jobs \ {j} :
                 /\ pc'[i] = pc[i] /\ row'[i] = row[i]
                 /\ completed'[i] = completed[i]
                 /\ runtime'[i] = runtime[i] /\ disk'[i] = disk[i]
<1> USE DEF TypeOK, Goto
<1>1. CASE Register(j) \/ Handler(j)
  BY <1>1 DEF Register, Handler, CreateRow, Submit
<1>2. CASE MarkStarted(j) \/ Merging(j) \/ Transcoding(j)
  BY <1>2 DEF MarkStarted, Merging, Transcoding, Phase, SetStatus
<1>3. CASE Finish(j) \/ SettleRow(j)
  BY <1>3 DEF Finish, SettleRow, SetTerminal, SetStatus
<1>4. CASE Start(j) \/ Downloaded(j) \/ Publish(j) \/ Announce(j) \/ DeferHash(j)
  BY <1>4 DEF Start, Downloaded, Publish, Announce, DeferHash
<1>5. CASE Raise(j) \/ SeeCancel(j) \/ RemoveTmp(j) \/ DropRuntime(j) \/ PutFailure(j)
  BY <1>5 DEF Raise, SeeCancel, Abort, RemoveTmp, DropRuntime, PutFailure
<1> QED BY <1>1, <1>2, <1>3, <1>4, <1>5 DEF Worker

\* Such a step is harmless once it keeps its own job's result and verdict.
LEMMA ThreadKeeps ==
    ASSUME TypeOK, ResultInv, NEW j \in Jobs, Register(j) \/ Handler(j) \/ Worker(j),
           Kept(j)', j \in FileJobs /\ Condemned(j) => Condemned(j)'
    PROVE  ResultInv'
<1>1. ASSUME NEW i \in Jobs PROVE Kept(i)'
  <2>1. CASE i = j
    BY <2>1
  <2>2. CASE i # j
    BY <2>2, ThreadFrame DEF ResultInv, Kept, Unclaimed
  <2> QED BY <2>1, <2>2
<1>2. Handed'
  BY ThreadFrame DEF ResultInv, Handed, At, Target
<1>3. Judged'
  <2> SUFFICES ASSUME reaper.phase \in {"rm", "pop"}, Unclaimed(reaper.job)
               PROVE  Condemned(reaper.job)'
    BY ThreadFrame DEF Judged, Unclaimed
  <2>1. reaper.job \in FileJobs /\ Condemned(reaper.job)
    BY DEF ResultInv, Judged, Unclaimed
  <2>2. CASE reaper.job = j
    BY <2>1, <2>2, ThreadFrame
  <2>3. CASE reaper.job # j
    BY <2>1, <2>3, ThreadFrame DEF Condemned, FileJobs
  <2> QED BY <2>2, <2>3
<1> QED BY <1>1, <1>2, <1>3 DEF ResultInv

LEMMA ResultThread ==
    ASSUME TypeOK, RowMatchesWorker, ResultInv, NEW j \in Jobs,
           Register(j) \/ Handler(j) \/ Worker(j)
    PROVE  ResultInv'
<1>1. row[j] \in StatusAt(pc[j], Late(j)) /\ Kept(j)
  BY DEF RowMatchesWorker, ResultInv
<1>2. release' = release
  BY ThreadFrame
<1>3. SUFFICES Kept(j)' /\ (j \in FileJobs /\ Condemned(j) => Condemned(j)')
  BY ThreadKeeps
<1> USE <1>1, <1>2 DEF TypeOK, Goto, Kept, Unclaimed, Condemned, StatusAt, Active,
                       Terminal
<1>4. CASE Register(j)
  BY <1>4 DEF Register
<1>5. CASE Handler(j)
  BY <1>5 DEF Handler, CreateRow, Submit
<1>6. CASE MarkStarted(j) \/ Merging(j) \/ Transcoding(j)
  BY <1>6 DEF MarkStarted, Merging, Transcoding, Phase, SetStatus
<1>7. CASE Start(j) \/ Downloaded(j) \/ Announce(j)
  BY <1>7 DEF Start, Downloaded, Announce
<1>8. CASE Publish(j)
  BY <1>8 DEF Publish
<1>9. CASE Finish(j)
  BY <1>9 DEF Finish, SetTerminal, SetStatus
<1>10. CASE DeferHash(j) \/ Raise(j) \/ SeeCancel(j) \/ PutFailure(j)
  BY <1>10 DEF DeferHash, Raise, SeeCancel, Abort, PutFailure
<1>11. CASE RemoveTmp(j) \/ DropRuntime(j)
  BY <1>11 DEF RemoveTmp, DropRuntime, Late, FileJobs
<1>12. CASE SettleRow(j)
  BY <1>12 DEF SettleRow, SetTerminal, SetStatus, Late, FileJobs
<1> QED
  BY <1>4, <1>5, <1>6, <1>7, <1>8, <1>9, <1>10, <1>11, <1>12 DEF Worker

\* A step that writes neither rows nor threads, entries nor files.
LEMMA ResultIdle ==
    ASSUME ResultInv, UNCHANGED <<row, completed, pc, runtime, disk, release>>,
           Handed', Judged'
    PROVE  ResultInv'
BY DEF ResultInv, Kept, Unclaimed

LEMMA ResultRequest ==
    ASSUME TypeOK, RowMatchesWorker, ResultInv, NEW c \in Clients,
           Request(c) \/ Respond(c)
    PROVE  ResultInv'
<1> USE DEF TypeOK
<1>1. ASSUME NEW j \in Jobs, CancelCheck(c, j) \/ DeleteCheck(c, j) \/ Serve(c, j)
      PROVE  ResultInv'
  <2>1. PICK op \in {"cancel", "delete", "send"} : Enter(c, j, op)
    BY <1>1 DEF CancelCheck, DeleteCheck, Serve
  <2>2. Handed'
    BY <2>1 DEF Enter, ResultInv, Handed, At, Target
  <2>3. Judged'
    BY <2>1 DEF Enter, ResultInv, Judged, Condemned, Unclaimed
  <2> QED BY <2>1, <2>2, <2>3, ResultIdle DEF Enter
<1>2. ASSUME Respond(c)
      PROVE  client[c] \in [op : ClientOps, job : Jobs] /\ Target(c) \in Jobs
  <2>1. client[c].op # "idle"
    BY <1>2 DEF Respond, CancelRaise, DeleteRow, Send, CleanupPop, CleanupRemove, At
  <2> QED BY <2>1 DEF Target, Idle
<1>3. ASSUME NEW d \in Clients, d # c, Respond(c) PROVE client'[d] = client[d]
  BY <1>3 DEF Respond, CancelRaise, DeleteRow, Send, CleanupPop, CleanupRemove, Leave,
              Become
<1>4. CASE CancelRaise(c) \/ Send(c)
  <2>1. client'[c].op # "rm"
    BY <1>2, <1>4 DEF CancelRaise, Send, Become, Leave, Respond, Idle
  <2>2. \A d \in Clients \ {c} : client'[d] = client[d]
    BY <1>3, <1>4 DEF Respond
  <2>3. release' = release
    BY <1>4 DEF CancelRaise, Send
  <2>4. Handed'
    BY <2>1, <2>2, <2>3 DEF ResultInv, Handed, At, Target
  <2>5. Judged'
    BY <1>4 DEF CancelRaise, Send, ResultInv, Judged, Condemned, Unclaimed
  <2> QED BY <1>4, <2>4, <2>5, ResultIdle DEF CancelRaise, Send
<1>5. CASE DeleteRow(c)
  <2> DEFINE t == Target(c)
  <2>1. t \in Jobs /\ pc[t] \notin {"fresh", "registered"}
    BY <1>2, <1>5 DEF Respond, DeleteRow, At, Target, RowMatchesWorker
  <2>2. \A j \in Jobs : Kept(j)'
    BY <1>5, <2>1 DEF DeleteRow, ResultInv, Kept, Unclaimed
  <2>3. Handed'
    BY <1>5 DEF DeleteRow, Leave, ResultInv, Handed, At, Target, Idle
  <2>4. Judged'
    BY <1>5, <2>1 DEF DeleteRow, ResultInv, Judged, Condemned, Unclaimed, FileJobs
  <2> QED BY <2>2, <2>3, <2>4 DEF ResultInv
\* The file was handed out: from here on nothing is promised of the job.
<1>6. CASE CleanupPop(c)
  <2> DEFINE t == Target(c)
  <2>1. t \in Jobs /\ release'[t] = "served"
    BY <1>2, <1>6 DEF Respond, CleanupPop
  <2>2. \A j \in Jobs \ {t} : release'[j] = release[j] /\ runtime'[j] = runtime[j]
    BY <1>6 DEF CleanupPop
  <2>3. ASSUME NEW j \in Jobs PROVE Kept(j)'
    <3>1. CASE j = t
      BY <1>6, <2>1, <3>1 DEF CleanupPop, ResultInv, Kept, Unclaimed
    <3>2. CASE j # t
      BY <1>6, <2>2, <3>2 DEF CleanupPop, ResultInv, Kept, Unclaimed
    <3> QED BY <3>1, <3>2
  <2>4. ASSUME NEW d \in Clients, At(d, "rm")' PROVE release'[Target(d)'] # "no"
    <3>1. CASE d = c
      <4>1. Target(d)' = t
        BY <1>2, <1>6, <3>1 DEF Respond, CleanupPop, Become, Target
      <4> QED BY <2>1, <4>1
    <3>2. CASE d # c
      <4>1. client'[d] = client[d]
        BY <1>3, <1>6, <3>2 DEF Respond
      <4>2. release[Target(d)] # "no" /\ Target(d)' = Target(d)
        BY <2>4, <4>1 DEF ResultInv, Handed, At, Target
      <4>3. Target(d) \in Jobs
        BY <2>4, <4>1 DEF At, Target, Idle
      <4> QED BY <2>1, <2>2, <4>2, <4>3
    <3> QED BY <3>1, <3>2
  <2>5. Judged'
    BY <1>6, <2>1, <2>2
       DEF CleanupPop, ResultInv, Judged, Condemned, Unclaimed, FileJobs
  <2> QED BY <2>3, <2>4, <2>5 DEF ResultInv, Handed
<1>7. CASE CleanupRemove(c)
  <2>1. Target(c) \in Jobs /\ release[Target(c)] # "no"
    BY <1>2, <1>7 DEF Respond, CleanupRemove, ResultInv, Handed
  <2>2. \A j \in Jobs : Kept(j)'
    BY <1>7, <2>1 DEF CleanupRemove, ResultInv, Kept, Unclaimed
  <2>3. Handed'
    BY <1>7 DEF CleanupRemove, Leave, ResultInv, Handed, At, Target, Idle
  <2>4. Judged'
    BY <1>7 DEF CleanupRemove, ResultInv, Judged, Condemned, Unclaimed
  <2> QED BY <2>2, <2>3, <2>4 DEF ResultInv
<1> QED BY <1>1, <1>4, <1>5, <1>6, <1>7 DEF Request, Respond

LEMMA ResultReaper ==
    ASSUME TypeOK, RowMatchesWorker, ResultInv, Reaper PROVE ResultInv'
<1> USE DEF TypeOK
<1>1. CASE ReaperWake \/ ReaperDone
  <2>1. reaper'.phase \in {"rest", "scan"}
    <3>1. CASE ReaperWake
      BY <3>1 DEF ReaperWake, Resting
    <3>2. CASE ReaperDone
      BY <3>2 DEF ReaperDone, Resting
    <3> QED BY <1>1, <3>1, <3>2
  <2>2. Handed'
    BY <1>1 DEF ReaperWake, ReaperDone, ResultInv, Handed, At, Target
  <2>3. Judged'
    BY <2>1 DEF Judged
  <2> QED BY <1>1, <2>2, <2>3, ResultIdle DEF ReaperWake, ReaperDone
<1>2. ASSUME NEW j \in Jobs, ReaperJudge(j) PROVE ResultInv'
  <2> DEFINE doomed == runtime[j] # "none" /\ Reapable(j)
  <2>1. /\ UNCHANGED <<row, completed, runtime, disk, pc, client>>
        /\ release' = IF doomed /\ pc[j] = "registered"
                      THEN [release EXCEPT ![j] = "newborn"] ELSE release
    BY <1>2 DEF ReaperJudge
  <2>2. \A i \in Jobs : release'[i] = "no" => release[i] = "no"
    BY <2>1
  <2>3. \A i \in Jobs : Kept(i)'
    BY <2>1, <2>2 DEF ResultInv, Kept, Unclaimed
  <2>4. Handed'
    <3> SUFFICES ASSUME NEW c \in Clients, At(c, "rm")
                 PROVE  release'[Target(c)] # "no"
      BY <2>1 DEF Handed, At, Target
    <3>1. Target(c) \in Jobs /\ release[Target(c)] # "no"
      BY DEF ResultInv, Handed, At, Target, Idle
    <3> QED BY <2>2, <3>1
  <2>5. ASSUME doomed, release'[j] = "no" PROVE Condemned(j)'
    <3>1. pc[j] # "registered" /\ pc[j] # "fresh"
      BY <2>1, <2>5 DEF ResultInv, Kept
    <3> QED BY <2>1, <2>5, <3>1 DEF Reapable, PastGrace, Condemned
  <2>6. CASE doomed
    <3>1. reaper'.phase = "rm" /\ reaper'.job = j
      BY <1>2, <2>6 DEF ReaperJudge
    <3>2. Judged'
      BY <2>5, <2>6, <3>1 DEF Judged, Unclaimed
    <3> QED BY <2>3, <2>4, <3>2 DEF ResultInv
  <2>7. CASE ~doomed
    <3>1. reaper'.phase = "scan"
      BY <1>2, <2>7 DEF ReaperJudge
    <3>2. Judged'
      BY <3>1 DEF Judged
    <3> QED BY <2>3, <2>4, <3>2 DEF ResultInv
  <2> QED BY <2>6, <2>7
\* The sweep removes what nobody promised anything about.
<1>3. CASE ReaperRemove \/ ReaperPop
  <2>1. /\ UNCHANGED <<row, completed, pc, client, release>>
        /\ reaper.phase \in {"rm", "pop"}
    BY <1>3 DEF ReaperRemove, ReaperPop
  <2>2. PICK t \in Jobs : t = reaper.job
    BY <2>1
  <2>3. ASSUME NEW j \in Jobs \ {t}
        PROVE  disk'[j] = disk[j] /\ runtime'[j] = runtime[j]
    BY <1>3, <2>2 DEF ReaperRemove, ReaperPop
  <2>4. Unclaimed(t) => Condemned(t)
    BY <2>1, <2>2 DEF ResultInv, Judged
  <2>5. pc[t] = "fresh" => runtime'[t] = "none"
    BY <1>3, <2>2 DEF ReaperRemove, ReaperPop, ResultInv, Kept
  <2>6. row[t] \in StatusAt(pc[t], Late(t))
    BY DEF RowMatchesWorker
  <2>7. ASSUME NEW j \in Jobs PROVE Kept(j)'
    <3>1. CASE j = t
      <4>1. ASSUME Unclaimed(t), pc[t] = "finish" PROVE FALSE
        BY <2>4, <2>6, <4>1 DEF Condemned, StatusAt, Active, Terminal
      <4>2. ASSUME Unclaimed(t), row[t] = "done", completed[t] = "fresh" PROVE FALSE
        BY <2>4, <4>2 DEF Condemned
      <4> QED BY <2>1, <2>5, <3>1, <4>1, <4>2 DEF Kept, Unclaimed
    <3>2. CASE j # t
      BY <2>1, <2>3, <3>2 DEF ResultInv, Kept, Unclaimed
    <3> QED BY <3>1, <3>2
  <2>8. Handed'
    BY <2>1 DEF ResultInv, Handed, At, Target
  <2>9. Judged'
    <3>1. CASE ReaperRemove
      BY <2>1, <3>1 DEF ReaperRemove, ResultInv, Judged, Condemned, Unclaimed
    <3>2. CASE ReaperPop
      BY <3>2 DEF ReaperPop, Judged
    <3> QED BY <1>3, <3>1, <3>2
  <2> QED BY <2>7, <2>8, <2>9 DEF ResultInv
<1> QED BY <1>1, <1>2, <1>3 DEF Reaper

LEMMA ResultBoot ==
    ASSUME TypeOK, RowMatchesWorker, ResultInv,
           BeginExit \/ Restart \/ \E j \in Jobs : GraceElapses(j)
    PROVE  ResultInv'
<1> USE DEF TypeOK
<1>1. CASE BeginExit
  BY <1>1 DEF BeginExit, ResultInv, Kept, Unclaimed, Handed, At, Target, Judged,
              Condemned
<1>2. ASSUME NEW j \in Jobs, GraceElapses(j) PROVE ResultInv'
  <2>1. /\ UNCHANGED <<row, runtime, disk, pc, reaper, client, release>>
        /\ \A i \in Jobs : completed'[i] = completed[i] \/ completed'[i] = "old"
    BY <1>2 DEF GraceElapses
  <2>2. \A i \in Jobs : Kept(i)'
    BY <2>1 DEF ResultInv, Kept, Unclaimed
  <2>3. Handed'
    BY <2>1 DEF ResultInv, Handed, At, Target
  <2>4. Judged'
    BY <2>1 DEF ResultInv, Judged, Condemned, Unclaimed, FileJobs
  <2> QED BY <2>2, <2>3, <2>4 DEF ResultInv
\* Only a job that was never begun is still unclaimed, and it has no row.
<1>3. CASE Restart
  <2>1. ASSUME NEW j \in Jobs, Unclaimed(j)'
        PROVE  pc'[j] = "fresh" /\ row'[j] = "none"
    <3>1. pc[j] = "fresh"
      BY <1>3, <2>1 DEF Restart, Unclaimed
    <3>2. row[j] = "none"
      BY <3>1 DEF RowMatchesWorker, StatusAt
    <3> QED BY <1>3, <3>1, <3>2 DEF Restart, Interrupted, Active
  <2>2. \A j \in Jobs : Kept(j)'
    BY <1>3, <2>1 DEF Restart, Kept
  <2>3. Handed' /\ Judged'
    BY <1>3 DEF Restart, Handed, Judged, At, Idle, Resting
  <2> QED BY <2>2, <2>3 DEF ResultInv
<1> QED BY <1>1, <1>2, <1>3

LEMMA ResultStep ==
    TypeOK /\ RowMatchesWorker /\ ResultInv /\ [Next]_vars => ResultInv'
<1> SUFFICES ASSUME TypeOK, RowMatchesWorker, ResultInv, [Next]_vars PROVE ResultInv'
  OBVIOUS
<1>1. CASE UNCHANGED vars
  BY <1>1 DEF vars, ResultInv, Kept, Unclaimed, Handed, At, Target, Judged, Condemned
<1> QED BY <1>1, ResultThread, ResultRequest, ResultReaper, ResultBoot DEF Next

\* A finished file is fetchable throughout its grace window unless it was handed out,
\* the process restarted, or the reaper had judged the job before its row existed.
THEOREM ResultCorrect == Spec => []FreshResultFetchable
<1>1. ResultInv => FreshResultFetchable
  BY DEF ResultInv, Kept, Unclaimed, FreshResultFetchable, FileJobs
<1> QED BY <1>1, ResultInit, ResultStep, TypeCorrect, RowCorrect, PTL DEF Spec

-------------------------------------------------------------------------------
(* The abstract life of a row *)

st == [j \in Jobs |-> JobStatusOf(j)]

LEMMA Moved ==
    ASSUME NEW j \in Jobs, \A i \in Jobs \ {j} : JobStatusOf(i)' = JobStatusOf(i)
    PROVE  st' = [st EXCEPT ![j] = JobStatusOf(j)']
BY DEF st

\* A step of one job's own thread leaves the other rows as they are.
LEMMA OthersKept ==
    ASSUME TypeOK, NEW j \in Jobs, Register(j) \/ Handler(j) \/ Worker(j),
           NEW i \in Jobs \ {j}
    PROVE  JobStatusOf(i)' = JobStatusOf(i)
<1>1. row'[i] = row[i]
  <2>1. CASE Register(j) \/ Handler(j)
    BY <2>1 DEF Register, Handler, CreateRow, Submit, TypeOK
  <2>2. CASE MarkStarted(j) \/ Merging(j) \/ Transcoding(j)
    BY <2>2 DEF MarkStarted, Merging, Transcoding, Phase, SetStatus, TypeOK
  <2>3. CASE Finish(j) \/ SettleRow(j)
    BY <2>3 DEF Finish, SettleRow, SetTerminal, SetStatus, TypeOK
  <2>4. CASE \/ Start(j) \/ Downloaded(j) \/ Publish(j) \/ Announce(j)
             \/ DeferHash(j) \/ Raise(j) \/ SeeCancel(j) \/ RemoveTmp(j)
             \/ DropRuntime(j) \/ PutFailure(j)
    BY <2>4 DEF Start, Downloaded, Publish, Announce, DeferHash, Raise, SeeCancel,
                RemoveTmp, DropRuntime, PutFailure
  <2> QED BY <2>1, <2>2, <2>3, <2>4 DEF Worker
<1>2. pc'[i] = pc[i]
  <2>1. PICK label : Goto(j, label)
    BY DEF Register, Handler, CreateRow, Submit, Worker, Start, MarkStarted, Merging,
           Transcoding, Phase, Downloaded, Publish, Finish, Announce, DeferHash,
           Raise, SeeCancel, Abort, RemoveTmp, DropRuntime, SettleRow, PutFailure
  <2> QED BY <2>1 DEF Goto, TypeOK
<1> QED BY <1>1, <1>2 DEF JobStatusOf

\* Only BeginExit and Restart move `exiting`.
LEMMA ExitingKept ==
    ASSUME \/ \E j \in Jobs : Register(j) \/ Handler(j) \/ Worker(j)
           \/ \E c \in Clients : Request(c) \/ Respond(c)
    PROVE  exiting' = exiting
<1>1. ASSUME NEW j \in Jobs, Register(j) \/ Handler(j) PROVE exiting' = exiting
  BY <1>1 DEF Register, Handler, CreateRow, Submit
<1>2. ASSUME NEW j \in Jobs, Worker(j) PROVE exiting' = exiting
  BY <1>2 DEF Worker, Start, MarkStarted, Merging, Transcoding, Phase, Downloaded,
              Publish, Finish, Announce, DeferHash, Raise, SeeCancel, RemoveTmp,
              DropRuntime, SettleRow, PutFailure
<1>3. ASSUME NEW c \in Clients, Request(c) \/ Respond(c) PROVE exiting' = exiting
  BY <1>3 DEF Request, Respond, CancelCheck, DeleteCheck, Serve, Enter, CancelRaise,
              DeleteRow, Send, CleanupPop, CleanupRemove
<1> QED BY <1>1, <1>2, <1>3

\* A worker's step that leaves the row alone is a stutter of the table.
LEMMA WorkerStutters ==
    ASSUME TypeOK, RowMatchesWorker, NEW j \in Jobs, Worker(j), row' = row
    PROVE  st' = st
<1>1. /\ pc[j] \notin {"fresh", "registered"}
      /\ pc'[j] \notin {"fresh", "registered"}
  BY DEF Worker, Start, MarkStarted, Merging, Transcoding, Phase, Downloaded, Publish,
         Finish, Announce, DeferHash, Raise, SeeCancel, Abort, RemoveTmp, DropRuntime,
         SettleRow, PutFailure, Goto, TypeOK
<1>2. JobStatusOf(j)' = JobStatusOf(j)
  BY <1>1 DEF JobStatusOf
<1>3. \A i \in Jobs : JobStatusOf(i)' = JobStatusOf(i)
  BY <1>2, OthersKept
<1> QED BY <1>3 DEF st

LEMMA WorkerMoves ==
    ASSUME TypeOK, RowMatchesWorker, NEW j \in Jobs, Worker(j), row' # row
    PROVE  Table!Next
<1>0. exiting' = exiting
  BY ExitingKept
<1>1. row[j] \in StatusAt(pc[j], Late(j))
  BY DEF RowMatchesWorker
<1>2. st' = [st EXCEPT ![j] = JobStatusOf(j)']
  BY OthersKept, Moved
<1>3. ASSUME row[j] # "none" PROVE st[j] = row[j]
  BY <1>3 DEF st, JobStatusOf
<1>4. ASSUME NEW s \in RowStatus \ {"none"}, SetStatus(j, s), row' # row
      PROVE  row[j] # "none" /\ st[j] = row[j] /\ st' = [st EXCEPT ![j] = s]
  BY <1>2, <1>3, <1>4 DEF SetStatus, JobStatusOf, TypeOK
<1> USE Statuses DEF Active
<1>5. CASE MarkStarted(j)
  <2>1. row[j] = "queued"
    BY <1>1, <1>5 DEF MarkStarted, Phase, StatusAt
  <2>2. Table!Begin(j)
    BY <1>0, <1>4, <1>5, <2>1 DEF MarkStarted, Phase, Table!Begin, Table!Move, st
  <2> QED BY <2>2 DEF Table!Next
<1>6. CASE Merging(j)
  <2>1. row[j] = "downloading"
    BY <1>1, <1>6 DEF Merging, Phase, StatusAt
  <2>2. Table!Merge(j)
    BY <1>0, <1>4, <1>6, <2>1 DEF Merging, Phase, Table!Merge, Table!Move, st
  <2> QED BY <2>2 DEF Table!Next
<1>7. CASE Transcoding(j)
  <2>1. row[j] \in {"downloading", "merging"}
    BY <1>1, <1>7 DEF Transcoding, Phase, StatusAt
  <2>2. Table!Transcode(j)
    BY <1>0, <1>4, <1>7, <2>1 DEF Transcoding, Phase, Table!Transcode, Table!Move, st
  <2> QED BY <2>2 DEF Table!Next
<1>8. CASE Finish(j)
  <2>1. row[j] \in Active \ {"queued"}
    BY <1>1, <1>8 DEF Finish, StatusAt
  <2>2. SetStatus(j, "done")
    BY <1>8 DEF Finish, SetTerminal
  <2>3. Table!Complete(j)
    BY <1>0, <1>4, <2>1, <2>2 DEF Table!Complete, Table!Move, Table!Active, st
  <2> QED BY <2>3 DEF Table!Next
<1>9. CASE SettleRow(j)
  <2>1. CASE pc[j] = "e_row"
    <3>0. row[j] = "done" => exiting /\ j \in ImportJobs
      BY <1>1, <2>1 DEF StatusAt, Late
    <3>1. row[j] \in Active \cup {"done", "none"}
      BY <1>1, <2>1 DEF StatusAt
    <3>2. SetStatus(j, "error")
      BY <1>9, <2>1 DEF SettleRow, SetTerminal
    <3>3. Table!Fail(j) \/ Table!Recant(j)
      BY <1>0, <1>4, <3>0, <3>1, <3>2
         DEF Table!Fail, Table!Recant, Table!Move, Table!Active, st
    <3> QED BY <3>3 DEF Table!Next
  <2>2. CASE pc[j] = "c_row"
    <3>1. row[j] \in Active \ {"queued"}
      BY <1>1, <2>2 DEF StatusAt
    <3>2. SetStatus(j, "cancelled")
      BY <1>9, <2>2 DEF SettleRow, SetTerminal
    <3>3. Table!Cancel(j)
      BY <1>0, <1>4, <3>1, <3>2 DEF Table!Cancel, Table!Move, Table!Active, st
    <3> QED BY <3>3 DEF Table!Next
  <2> QED BY <1>9, <2>1, <2>2 DEF SettleRow
<1> QED
  BY <1>5, <1>6, <1>7, <1>8, <1>9 DEF Worker, Start, Downloaded, Publish, Announce,
     DeferHash, Raise, SeeCancel, RemoveTmp, DropRuntime, PutFailure

LEMMA HandlerMoves ==
    ASSUME TypeOK, RowMatchesWorker, NEW j \in Jobs, Register(j) \/ Handler(j)
    PROVE  Table!Next \/ st' = st
<1>1. row[j] \in StatusAt(pc[j], Late(j))
  BY DEF RowMatchesWorker
<1>2. CASE CreateRow(j)
  <2>1. st[j] = "unborn" /\ JobStatusOf(j)' = "queued"
    BY <1>1, <1>2 DEF CreateRow, StatusAt, st, JobStatusOf, TypeOK
  <2>2. st' = [st EXCEPT ![j] = "queued"]
    BY <1>2, <2>1, OthersKept, Moved DEF Handler
  <2>3. Table!Create(j)
    BY <2>1, <2>2, ExitingKept DEF Table!Create, Table!Move, st
  <2> QED BY <2>3 DEF Table!Next
<1>3. CASE Register(j)
  <2>1. JobStatusOf(j)' = JobStatusOf(j)
    BY <1>1, <1>3 DEF Register, Goto, StatusAt, JobStatusOf, TypeOK
  <2> QED BY <2>1, OthersKept DEF st
<1>4. CASE Submit(j)
  <2>1. JobStatusOf(j)' = JobStatusOf(j)
    BY <1>1, <1>4 DEF Submit, Goto, StatusAt, JobStatusOf, TypeOK
  <2> QED BY <2>1, OthersKept DEF st
<1> QED BY <1>2, <1>3, <1>4 DEF Handler

LEMMA RequestMoves ==
    ASSUME TypeOK, RowMatchesWorker, NEW c \in Clients, Request(c) \/ Respond(c)
    PROVE  Table!Next \/ st' = st
<1>1. CASE DeleteRow(c)
  <2>0. PICK t \in Jobs : t = client[c].job
    BY <1>1 DEF DeleteRow, At, RowMatchesWorker
  <2>1. /\ row[t] \in Terminal \cup {"none"}
        /\ pc[t] \notin {"fresh", "registered"}
    BY <1>1, <2>0 DEF DeleteRow, At, RowMatchesWorker
  <2>2. row' = [row EXCEPT ![t] = "none"] /\ pc' = pc
    BY <1>1, <2>0 DEF DeleteRow, Target
  <2>3. JobStatusOf(t)' = "gone" /\ st' = [st EXCEPT ![t] = "gone"]
    <3>1. JobStatusOf(t)' = "gone"
      BY <2>1, <2>2 DEF JobStatusOf, TypeOK
    <3>2. \A i \in Jobs \ {t} : JobStatusOf(i)' = JobStatusOf(i)
      BY <2>2 DEF JobStatusOf, TypeOK
    <3> QED BY <3>1, <3>2, Moved
  <2>4. CASE row[t] = "none"
    <3>1. st[t] = "gone"
      BY <2>1, <2>4 DEF st, JobStatusOf
    <3> QED BY <2>1, <2>3, <3>1 DEF st
  <2>5. CASE row[t] \in Terminal
    <3>1. st[t] \in Terminal
      BY <2>1, <2>5 DEF st, JobStatusOf, Terminal
    <3>2. Table!Purge(t)
      BY <2>3, <3>1, ExitingKept
         DEF Table!Purge, Table!Move, Table!Terminal, Terminal, st
    <3> QED BY <2>1, <3>2 DEF Table!Next
  <2> QED BY <2>1, <2>4, <2>5
<1>2. CASE row' = row /\ pc' = pc
  BY <1>2 DEF st, JobStatusOf
<1> QED BY <1>1, <1>2 DEF Request, Respond, CancelCheck, DeleteCheck, Serve, Enter,
                          CancelRaise, Send, CleanupPop, CleanupRemove

LEMMA RestartMoves ==
    ASSUME TypeOK, RowMatchesWorker, Restart PROVE Table!Next
<1> DEFINE lost == {j \in Jobs : st[j] = "unborn" /\ pc[j] = "registered"}
<1>1. ASSUME NEW j \in Jobs
      PROVE  JobStatusOf(j)' = CASE st[j] \in Active -> "interrupted"
                                 [] j \in lost        -> "gone"
                                 [] OTHER             -> st[j]
  <2>1. /\ row'[j] = Interrupted(row[j])
        /\ pc'[j] = IF pc[j] = "fresh" THEN "fresh" ELSE "ended"
        /\ JobStatusOf(j)' =
              IF row'[j] # "none" THEN row'[j]
              ELSE IF pc'[j] \in {"fresh", "registered"} THEN "unborn" ELSE "gone"
    BY DEF Restart, JobStatusOf
  <2>2. CASE row[j] \in Active
    <3>1. st[j] \in Active
      BY <2>2 DEF st, JobStatusOf, Active
    <3>2. JobStatusOf(j)' = "interrupted"
      BY <2>1, <2>2 DEF Interrupted
    <3> QED BY <3>1, <3>2 DEF Active
  <2>3. CASE row[j] \in Terminal
    <3>1. /\ st[j] = row[j] /\ st[j] \notin Active \cup {"unborn", "none"}
          /\ row'[j] = row[j]
      BY <2>1, <2>3 DEF st, JobStatusOf, Active, Terminal, Interrupted
    <3> QED BY <2>1, <3>1
  <2>4. CASE row[j] = "none"
    <3>1. row'[j] = "none"
      BY <2>1, <2>4 DEF Interrupted, Active
    <3>2. st[j] = IF pc[j] \in {"fresh", "registered"} THEN "unborn" ELSE "gone"
      BY <2>4 DEF st, JobStatusOf
    <3> QED BY <2>1, <3>1, <3>2 DEF Active
  <2> QED BY <2>2, <2>3, <2>4 DEF TypeOK, RowStatus
<1>2. lost \in SUBSET {j \in Jobs : st[j] = "unborn"}
  OBVIOUS
<1>3. st' = [j \in Jobs |-> CASE st[j] \in Active -> "interrupted"
                              [] j \in lost        -> "gone"
                              [] OTHER             -> st[j]]
  BY <1>1 DEF st
<1>4. Table!Reboot
  BY <1>2, <1>3 DEF Table!Reboot, Table!Active, Active, st, Restart
<1> QED BY <1>4 DEF Table!Next

\* The threads of the backend together implement the life of a row that JobStatus
\* promises.
THEOREM Refinement == Spec => ImplementsJobStatus
<1>1. Init => Table!Init
  BY DEF Init, Table!Init, JobStatusOf
<1>2. TypeOK /\ RowMatchesWorker /\ [Next]_vars => [Table!Next]_<<st, exiting>>
  <2> SUFFICES ASSUME TypeOK, RowMatchesWorker, [Next]_vars
               PROVE  Table!Next \/ (st' = st /\ exiting' = exiting)
    OBVIOUS
  <2>1. ASSUME NEW j \in Jobs, Worker(j) PROVE Table!Next \/ st' = st
    BY <2>1, WorkerStutters, WorkerMoves
  <2>2. ASSUME row' = row /\ pc' = pc PROVE st' = st
    BY <2>2 DEF st, JobStatusOf
  <2>3. CASE Reaper \/ UNCHANGED vars \/ \E j \in Jobs : GraceElapses(j)
    BY <2>2, <2>3 DEF Reaper, ReaperWake, ReaperJudge, ReaperRemove, ReaperPop,
                      ReaperDone, GraceElapses, vars
  <2>4. CASE BeginExit
    <3>1. st' = st
      BY <2>2, <2>4 DEF BeginExit
    <3>2. Table!BeginExit
      BY <2>4, <3>1 DEF BeginExit, Table!BeginExit, st
    <3> QED BY <3>2 DEF Table!Next
  <2> QED BY <2>1, <2>3, <2>4, ExitingKept, HandlerMoves, RequestMoves, RestartMoves
          DEF Next
<1>3. st = [j \in Jobs |-> JobStatusOf(j)]
  BY DEF st
<1> QED BY <1>1, <1>2, <1>3, TypeCorrect, RowCorrect, PTL
        DEF Spec, ImplementsJobStatus, Table!Spec, Table!vars, st

-------------------------------------------------------------------------------
(* The viewers *)

\* The sockets only look on: with them the jobs behave as without.
THEOREM ViewersLookOn == StreamSpec => Spec
<1>1. StreamInit => Init
  BY DEF StreamInit
<1>2. [StreamNext]_allVars => [Next]_vars
  <2> SUFFICES ASSUME [StreamNext]_allVars PROVE [Next]_vars
    OBVIOUS
  <2>1. CASE JobStep \/ StreamRestart \/ StreamExit
    BY <2>1 DEF JobStep, StreamRestart, StreamExit, Next
  <2>2. CASE UNCHANGED allVars
    BY <2>2 DEF allVars
  <2>3. ASSUME NEW v \in Viewers,
               (\E j \in Jobs : ViewOpen(v, j)) \/ Stream(v) \/ ViewLeave(v)
        PROVE  UNCHANGED vars
    BY <2>3 DEF ViewOpen, Stream, ViewLookup, ViewSubscribe, ViewSnapshot, ViewEvent, ViewLeave
  <2> QED BY <2>1, <2>2, <2>3 DEF StreamNext
<1> QED BY <1>1, <1>2, PTL DEF StreamSpec, Spec

\* Somebody still has to put an event.
Telling(j) == Live(j) /\ pc[j] # "hash"

\* No thread stops without a word.
LEMMA LastWord ==
    ASSUME TypeOK, JobStep, NEW j \in Jobs
    PROVE  /\ Len(hub'[j]) \in Nat /\ Len(hub[j]) \in Nat
           /\ Len(hub'[j]) >= Len(hub[j])
           /\ Telling(j) => Telling(j)' \/ Len(hub'[j]) > Len(hub[j])
           /\ row[j] = "none" => Telling(j)' \/ row'[j] = "none"
<1> USE DEF TypeOK
<1>1. ASSUME NEW i \in Jobs, Register(i) \/ Handler(i) \/ Worker(i), i # j
      PROVE  pc'[j] = pc[j] /\ row'[j] = row[j] /\ hub'[j] = hub[j]
  <2>1. hub' = hub \/ (\E e : Put(i, e))
    BY <1>1 DEF Register, Handler, CreateRow, Submit, Worker, Start, MarkStarted,
       Merging, Transcoding, Phase, Downloaded, Publish, Finish, Announce, DeferHash,
       Raise, SeeCancel, RemoveTmp, DropRuntime, SettleRow, PutFailure
  <2> QED BY <1>1, <2>1, ThreadFrame DEF Put
<1>2. ASSUME Register(j) \/ Handler(j)
      PROVE  /\ hub' = hub /\ Telling(j)'
  BY <1>2 DEF Register, Handler, CreateRow, Submit, Goto, Telling, Live, HandlerPC
<1>3. ASSUME Worker(j), row[j] = "none" PROVE row'[j] = "none"
  BY <1>3 DEF Worker, Start, MarkStarted, Merging, Transcoding, Phase, Downloaded,
     Publish, Finish, Announce, DeferHash, Raise, SeeCancel, RemoveTmp, DropRuntime,
     SettleRow, PutFailure, SetTerminal, SetStatus
<1>4. ASSUME Announce(j) \/ PutFailure(j)
      PROVE  Len(hub'[j]) = Len(hub[j]) + 1
  <2>1. PICK e \in Outcome : hub' = [hub EXCEPT ![j] = Append(@, e)]
    BY <1>4 DEF Announce, PutFailure, Put, Outcome
  <2> QED BY <2>1
<1>5. CASE Worker(j) /\ ~Announce(j) /\ ~PutFailure(j)
  <2>1. hub' = hub
    BY <1>5 DEF Worker, Start, MarkStarted, Merging, Transcoding, Phase, Downloaded,
       Publish, Finish, DeferHash, Raise, SeeCancel, RemoveTmp, DropRuntime, SettleRow
  <2>2. Telling(j) => Telling(j)'
    BY <1>5 DEF Worker, Start, MarkStarted, Merging, Transcoding, Phase, Downloaded,
       Publish, Finish, DeferHash, Raise, SeeCancel, Abort, RemoveTmp, DropRuntime,
       SettleRow, Goto, Telling, Live, WorkerPC, Working, Winding, Failing, Cancelling
  <2> QED BY <1>3, <1>5, <2>1, <2>2
<1>6. CASE Announce(j) \/ PutFailure(j)
  <2>1. row[j] = "none" => row'[j] = "none"
    BY <1>3, <1>6 DEF Worker
  <2>2. Len(hub[j]) \in Nat
    OBVIOUS
  <2> QED BY <1>4, <1>6, <2>1, <2>2
<1>7. ASSUME NEW i \in Jobs, Register(i) \/ Handler(i) \/ Worker(i), i # j
      PROVE  Telling(j)' = Telling(j)
  BY <1>1, <1>7 DEF Telling, Live
<1>8. CASE \/ Reaper \/ (\E i \in Jobs : GraceElapses(i))
           \/ (\E c \in Clients : Request(c) \/ Respond(c))
  <2>1. pc' = pc /\ hub' = hub /\ (row[j] = "none" => row'[j] = "none")
    BY <1>8 DEF Reaper, ReaperWake, ReaperJudge, ReaperRemove, ReaperPop, ReaperDone,
       GraceElapses, Request, Respond, CancelCheck, DeleteCheck, Serve, Enter,
       CancelRaise, DeleteRow, Send, CleanupPop, CleanupRemove
  <2> QED BY <2>1 DEF Telling, Live
<1> QED BY <1>1, <1>2, <1>5, <1>6, <1>7, <1>8 DEF JobStep

Seat == [at : Stages, job : Jobs \cup {NoJob}, sub : BOOLEAN, from : Nat,
         seen : RowStatus]

\* A viewer joined the log of a job at a point that exists, and does not wait in vain.
SeatOK(v) ==
    LET j == view[v].job
    IN  /\ view[v] \in Seat
        /\ view[v].at # "off" => j \in Jobs
        /\ view[v].at \in {"subscribed", "live"} => view[v].from <= Len(hub[j])
        /\ view[v].at = "live" => Pending(v) \/ Telling(j) \/ row[j] = "none"

ViewInv == view \in [Viewers -> Seat] /\ \A v \in Viewers : SeatOK(v)

LEMMA AwayOK == Away \in Seat
BY Statuses DEF Away, Seat, Stages

LEMMA AwayKeeps ==
    ASSUME view' = [v \in Viewers |-> Away] PROVE ViewInv'
BY AwayOK DEF ViewInv, SeatOK, Away

\* A viewer's own step.
LEMMA SeatKeeps ==
    ASSUME ViewInv, UNCHANGED vars, NEW v \in Viewers, NEW s \in Seat,
           view' = [view EXCEPT ![v] = s],
           SeatOK(v)'
    PROVE  ViewInv'
<1>1. ASSUME NEW w \in Viewers, w # v PROVE SeatOK(w)'
  BY <1>1 DEF ViewInv, SeatOK, Pending, Telling, Live, vars
<1> QED BY <1>1 DEF ViewInv

LEMMA ViewStep ==
    ASSUME TypeOK, RowMatchesWorker, ViewInv, NEW v \in Viewers,
           (\E j \in Jobs : ViewOpen(v, j)) \/ Stream(v) \/ ViewLeave(v)
    PROVE  ViewInv'
<1> USE DEF TypeOK
<1>0. SeatOK(v) /\ view[v] \in Seat /\ view \in [Viewers -> Seat]
  BY DEF ViewInv
<1>1. ASSUME NEW j \in Jobs, ViewOpen(v, j) PROVE ViewInv'
  <2> DEFINE s == [view[v] EXCEPT !.at = "accepted", !.job = j, !.seen = row[j]]
  <2>1. s \in Seat
    BY <1>0 DEF Seat, Stages
  <2>2. view' = [view EXCEPT ![v] = s] /\ UNCHANGED vars
    BY <1>0, <1>1 DEF ViewOpen
  <2>3. view'[v] = s /\ s.at = "accepted" /\ s.job = j
    BY <1>0, <2>2 DEF Seat
  <2> HIDE DEF s
  <2>4. SeatOK(v)'
    BY <2>1, <2>3 DEF SeatOK
  <2> QED BY <2>1, <2>2, <2>4, SeatKeeps
<1>6. CASE ViewLookup(v)
  <2> DEFINE j == view[v].job
             s == [view[v] EXCEPT !.at = "found", !.sub = runtime[j] # "none"]
  <2>1. j \in Jobs
    BY <1>0, <1>6 DEF ViewLookup, SeatOK
  <2>2. s \in Seat
    <3>1. (runtime[j] # "none") \in BOOLEAN
      OBVIOUS
    <3> QED BY <1>0, <3>1 DEF Seat, Stages
  <2>3. view' = [view EXCEPT ![v] = s] /\ UNCHANGED vars
    BY <1>0, <1>6 DEF ViewLookup
  <2>4. view'[v] = s /\ s.at = "found" /\ s.job = j
    BY <1>0, <2>3 DEF Seat
  <2> HIDE DEF s
  <2>5. SeatOK(v)'
    BY <2>1, <2>2, <2>4 DEF SeatOK
  <2> QED BY <2>2, <2>3, <2>5, SeatKeeps
<1>2. CASE ViewSubscribe(v)
  <2> DEFINE j == view[v].job
             s == [view[v] EXCEPT !.at = "subscribed", !.from = Len(hub[j])]
  <2>1. j \in Jobs
    BY <1>0, <1>2 DEF ViewSubscribe, SeatOK
  <2>2. s \in Seat
    <3>1. Len(hub[j]) \in Nat
      BY <2>1
    <3> QED BY <1>0, <3>1 DEF Seat, Stages
  <2>3. view' = [view EXCEPT ![v] = s] /\ UNCHANGED vars
    BY <1>0, <1>2 DEF ViewSubscribe
  <2>4. /\ view'[v] = s /\ s.at = "subscribed" /\ s.job = j /\ s.from = Len(hub[j])
        /\ hub' = hub
    BY <1>0, <2>3 DEF Seat, vars
  <2> HIDE DEF s
  <2>5. SeatOK(v)'
    BY <2>1, <2>2, <2>4 DEF SeatOK
  <2> QED BY <2>2, <2>3, <2>5, SeatKeeps
<1>3. CASE ViewSnapshot(v)
  <2> DEFINE j == view[v].job
             status == Reread(v)
             s == [view[v] EXCEPT !.seen = status,
                                  !.at = IF view[v].sub /\ status \in Active
                                         THEN "live" ELSE "closed"]
  <2>1. j \in Jobs /\ view[v].from <= Len(hub[j])
    BY <1>0, <1>3 DEF ViewSnapshot, SeatOK
  <2>2. status \in RowStatus
    BY <1>0, <2>1 DEF Reread, Seat
  <2>3. s \in Seat
    BY <1>0, <2>2 DEF Seat, Stages
  <2>4. view' = [view EXCEPT ![v] = s] /\ UNCHANGED vars
    BY <1>0, <1>3 DEF ViewSnapshot
  <2>5. /\ view'[v] = s /\ s.job = j /\ s.from = view[v].from
        /\ s.at \in {"live", "closed"} /\ (s.at = "live" => status \in Active)
        /\ hub' = hub /\ row' = row /\ pc' = pc
    BY <1>0, <2>4 DEF Seat, vars
  \* The subscription came first: the row read now is active, and its thread will tell.
  <2>6. status \in Active => Telling(j) \/ row[j] = "none"
    <3> SUFFICES ASSUME status \in Active, row[j] # "none" PROVE Telling(j)
      OBVIOUS
    <3>1. row[j] \in Active
      BY DEF Reread
    <3>2. row[j] \in StatusAt(pc[j], Late(j))
      BY <2>1 DEF RowMatchesWorker
    <3>3. pc[j] # "hash"
      BY <3>1, <3>2 DEF StatusAt, Active
    <3> QED BY <2>1, <3>1, <3>3, ActiveLive DEF ActiveIsLive, Telling
  <2> HIDE DEF s, status
  <2>7. SeatOK(v)'
    BY <2>1, <2>3, <2>5, <2>6 DEF SeatOK, Telling, Live
  <2> QED BY <2>3, <2>4, <2>7, SeatKeeps
<1>4. CASE ViewEvent(v)
  <2> DEFINE j == view[v].job
             event == hub[j][view[v].from + 1]
             s == [view[v] EXCEPT !.at = "closed", !.seen = event]
  <2>1. j \in Jobs
    BY <1>0, <1>4 DEF ViewEvent, SeatOK
  <2>2. view[v].from \in Nat /\ view[v].from < Len(hub[j])
    BY <1>0, <1>4 DEF ViewEvent, Pending, Seat
  <2>3. event \in Outcome
    BY <2>1, <2>2
  <2>4. s \in Seat
    BY <1>0, <2>3, Statuses DEF Seat, Stages, Outcome
  <2>5. view' = [view EXCEPT ![v] = s] /\ UNCHANGED vars
    BY <1>0, <1>4 DEF ViewEvent
  <2>6. view'[v] = s /\ s.at = "closed" /\ s.job = j
    BY <1>0, <2>5 DEF Seat
  <2> HIDE DEF s
  <2>7. SeatOK(v)'
    BY <2>1, <2>4, <2>6 DEF SeatOK
  <2> QED BY <2>4, <2>5, <2>7, SeatKeeps
<1>5. CASE ViewLeave(v)
  <2>1. view' = [view EXCEPT ![v] = Away] /\ UNCHANGED vars
    BY <1>5 DEF ViewLeave
  <2>2. SeatOK(v)'
    BY <1>0, <2>1, AwayOK DEF SeatOK, Away
  <2> QED BY <2>1, <2>2, AwayOK, SeatKeeps
<1> QED BY <1>1, <1>2, <1>3, <1>4, <1>5, <1>6 DEF Stream

LEMMA ViewJobStep == ASSUME TypeOK, ViewInv, JobStep PROVE ViewInv'
<1>1. view' = view
  BY DEF JobStep
<1>2. ASSUME NEW v \in Viewers PROVE SeatOK(v)'
  <2> DEFINE j == view[v].job
  <2>1. SeatOK(v)
    BY DEF ViewInv
  <2>2. CASE view[v].at \in {"subscribed", "live"}
    <3>1. j \in Jobs /\ view[v].from \in Nat
      BY <2>1, <2>2 DEF SeatOK, Seat
    <3> QED BY <1>1, <2>1, <2>2, <3>1, LastWord DEF SeatOK, Pending
  <2>3. CASE view[v].at \notin {"subscribed", "live"}
    BY <1>1, <2>1, <2>3 DEF SeatOK
  <2> QED BY <2>2, <2>3
<1> QED BY <1>1, <1>2 DEF ViewInv

\* A viewer never waits on a hub that has nothing more to say, unless the row was
\* deleted under it.
THEOREM ViewersHear == StreamSpec => []NoDeadWait
<1>1. StreamInit => ViewInv
  <2> SUFFICES ASSUME view = [v \in Viewers |-> Away] PROVE ViewInv
    BY DEF StreamInit
  <2>1. Away.at = "off"
    BY DEF Away
  <2> QED BY <2>1, AwayOK DEF ViewInv, SeatOK
<1>2. TypeOK /\ RowMatchesWorker /\ ViewInv /\ [StreamNext]_allVars => ViewInv'
  <2> SUFFICES ASSUME TypeOK, RowMatchesWorker, ViewInv, [StreamNext]_allVars
               PROVE  ViewInv'
    OBVIOUS
  <2>1. CASE StreamRestart \/ StreamExit
    BY <2>1, AwayKeeps DEF StreamRestart, StreamExit
  <2>2. CASE UNCHANGED allVars
    BY <2>2 DEF allVars, vars, ViewInv, SeatOK, Pending, Telling, Live
  <2> QED BY <2>1, <2>2, ViewJobStep, ViewStep DEF StreamNext
<1>3. ViewInv => NoDeadWait
  BY DEF ViewInv, SeatOK, NoDeadWait, Telling
<1> QED BY <1>1, <1>2, <1>3, ViewersLookOn, TypeCorrect, RowCorrect, PTL DEF StreamSpec
===============================================================================
