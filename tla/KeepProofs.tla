------------------------------ MODULE KeepProofs ------------------------------
(***************************************************************************)
(* What holds of SyncCycle where the policy is always keep: no file ever   *)
(* leaves its path, so whatever the favorites export lists is there.  Under*)
(* mirror and trash a row may outlive its file.                            *)
(***************************************************************************)
EXTENDS SyncCycleProofs

OnlyKeep == Policies = {"keep"}

(* A step of some worker's job. *)
WorkerAct(p, t) ==
    \/ SkipTrack(p, t) \/ BeginDownload(p, t) \/ OpenPart(p, t) \/ CommitFile(p, t)
    \/ BeginTag(p, t) \/ EndTag(p, t) \/ RecordDone(p, t)
    \/ FailPermanently(p, t) \/ FailTransiently(p, t) \/ DropTrack(p, t) \/ TimeOut(p, t)

(* Under keep Reconcile has nothing to remove. *)
LEMMA NoRemoval ==
    ASSUME OnlyKeep, IInv, NEW p \in Procs, NEW t \in Tracks
    PROVE  ~RemoveTrack(p, t) /\ ~RemovalFails(p, t)
<1>1. cfg[p].policy \notin {"mirror", "trash"}
  <2>1. cfg[p] \in Config \/ cfg[p] = ZeroConfig
    BY DEF IInv, TypeOK
  <2>2. \A c \in Config : c.policy = "keep"
    BY DEF Config, OnlyKeep
  <2>3. ZeroConfig.policy = ""
    BY DEF ZeroConfig
  <2>4. QED BY <2>1, <2>2, <2>3
<1>2. QED BY <1>1, HandledIsInDiff DEF RemoveTrack, RemovalFails

(* No job goes on but those of a cycle that goes on with its configuration. *)
JobsStartOrEnd ==
    \A q \in Procs, u \in Tracks :
       \/ job'[q][u] \in {"off", "queued"}
       \/ job'[q][u] = job[q][u] /\ cfg'[q] = cfg[q]

(* Under keep everything but a worker leaves rows and files alone, and only starts
   jobs or ends all of a cycle's. *)
LEMMA OtherSteps ==
    ASSUME OnlyKeep, IInv, [Next]_vars,
           \A p \in Procs, t \in Tracks : ~WorkerAct(p, t)
    PROVE  /\ UNCHANGED <<tracks, disk>>
           /\ JobsStartOrEnd
<1>1. ASSUME NEW p \in Procs, Leave(p), UNCHANGED <<tracks, disk>>
      PROVE  /\ UNCHANGED <<tracks, disk>>
             /\ JobsStartOrEnd
  BY <1>1 DEF JobsStartOrEnd, Leave, NoJobs, IInv, TypeOK
<1>2. ASSUME NEW p \in Procs, Enumerate(p)
      PROVE  /\ UNCHANGED <<tracks, disk>>
             /\ JobsStartOrEnd
  BY <1>2 DEF JobsStartOrEnd, Enumerate, durable, rows, IInv, TypeOK
<1>3. CASE UNCHANGED <<tracks, disk, job, cfg>>
  BY <1>3 DEF JobsStartOrEnd
<1>4. ASSUME NEW p \in Procs,
             SweepFails(p) \/ Export(p) \/ Abort(p) \/ ReturnCancelled(p) \/ Crash(p)
      PROVE  Leave(p) /\ UNCHANGED <<tracks, disk>>
  BY <1>4 DEF SweepFails, Export, Abort, ReturnCancelled, Crash, durable, rows
<1>5. ASSUME NEW p \in Procs,
             Sweep(p) \/ Diff(p) \/ EndReconcile(p) \/ Persist(p) \/ Cancel(p)
      PROVE  UNCHANGED <<tracks, disk, job, cfg>>
  BY <1>5 DEF Sweep, Diff, EndReconcile, Persist, Cancel, durable, rows, run
<1>6. ASSUME NEW t \in Tracks, NEW sources \in Listings, SetFavorite(t, sources)
      PROVE  UNCHANGED <<tracks, disk, job, cfg>>
  BY <1>6 DEF SetFavorite, durable, rows, run
<1>7. CASE UNCHANGED vars
  BY <1>3, <1>7 DEF vars, durable, rows, run
<1>8. ASSUME NEW p \in Procs, Acquire(p)
      PROVE  UNCHANGED <<tracks, disk>> /\ JobsStartOrEnd
  <2>1. /\ UNCHANGED <<tracks, disk, job>>
        /\ phase[p] = "idle" /\ \A q \in Procs : q # p => cfg'[q] = cfg[q]
    BY <1>8 DEF Acquire, durable, rows, IInv, TypeOK
  <2>2. job[p] = NoJobs
    BY <2>1 DEF IInv, LocalsReset
  <2>3. QED BY <2>1, <2>2, NothingListed DEF JobsStartOrEnd
<1>9. QED
  BY <1>1, <1>2, <1>3, <1>4, <1>5, <1>6, <1>7, <1>8, NoRemoval
  DEF Next, CycleStep, TrackStep, Faulty, WorkerAct

(* The one row, one file and one job a worker's step can touch are its track's. *)
LEMMA WorkerTouches ==
    ASSUME IInv, NEW p \in Procs, NEW t \in Tracks, WorkerAct(p, t)
    PROVE  /\ phase[p] = "download" /\ UNCHANGED cfg
           /\ \A u \in Tracks \ {t} : tracks'[u] = tracks[u]
           /\ \A f \in Paths \ {Dest(p, t)} : disk'[f] = disk[f]
           /\ disk'[Dest(p, t)] \in {disk[Dest(p, t)], "raw", "torn", "tagged"}
           /\ \A q \in Procs, u \in Tracks : q # p \/ u # t => job'[q][u] = job[q][u]
<1>1. ASSUME NEW s, Move(p, t, s)
      PROVE  \A q \in Procs, u \in Tracks : q # p \/ u # t => job'[q][u] = job[q][u]
  BY <1>1 DEF Move, IInv, TypeOK
<1>2. \E s : Move(p, t, s)
  BY DEF WorkerAct, SkipTrack, BeginDownload, OpenPart, CommitFile, BeginTag, EndTag, RecordDone,
         FailPermanently, FailTransiently, DropTrack, TimeOut
<1>3. \/ UNCHANGED tracks
      \/ \E r : tracks' = [tracks EXCEPT ![t] = r]
  BY DEF WorkerAct, SkipTrack, BeginDownload, OpenPart, CommitFile, BeginTag, EndTag, RecordDone,
         FailPermanently, FailTransiently, DropTrack, TimeOut, durable, rows
<1>4. \/ UNCHANGED disk
      \/ \E x \in {"raw", "torn", "tagged"} : disk' = [disk EXCEPT ![Dest(p, t)] = x]
  BY DEF WorkerAct, SkipTrack, BeginDownload, OpenPart, CommitFile, BeginTag, EndTag, RecordDone,
         FailPermanently, FailTransiently, DropTrack, TimeOut, durable, rows
<1>5. phase[p] = "download" /\ UNCHANGED cfg
  BY DEF WorkerAct, SkipTrack, BeginDownload, OpenPart, CommitFile, BeginTag, EndTag, RecordDone,
         FailPermanently, FailTransiently, DropTrack, TimeOut, JobAt
<1>6. \A u \in Tracks \ {t} : tracks'[u] = tracks[u]
  BY <1>3 DEF IInv, TypeOK
<1>7. /\ \A f \in Paths \ {Dest(p, t)} : disk'[f] = disk[f]
      /\ disk'[Dest(p, t)] \in {disk[Dest(p, t)], "raw", "torn", "tagged"}
  BY <1>4, <1>5, DestIsFile DEF IInv, TypeOK
<1>8. QED BY <1>1, <1>2, <1>5, <1>6, <1>7

(***************************************************************************)
(* The exports: a recorded path keeps its file.                            *)
(***************************************************************************)
FilesStay == \A t \in Tracks : tracks[t].path # NoPath => disk[tracks[t].path] # "none"

PlacedIsThere ==
    \A p \in Procs, t \in Tracks :
       job[p][t] \in {"placed", "tagging", "written"} => disk[Dest(p, t)] # "none"

StaysInv == FilesStay /\ PlacedIsThere

LEMMA StaysStep == ASSUME OnlyKeep PROVE IInv /\ IInv' /\ StaysInv /\ [Next]_vars => StaysInv'
<1> SUFFICES ASSUME OnlyKeep, IInv, IInv', StaysInv, [Next]_vars PROVE StaysInv'
  OBVIOUS
<1>1. CASE \A p \in Procs, t \in Tracks : ~WorkerAct(p, t)
  <2>1. /\ UNCHANGED <<tracks, disk>>
        /\ JobsStartOrEnd
    BY <1>1, OtherSteps
  <2>2. QED BY <2>1 DEF StaysInv, FilesStay, PlacedIsThere, JobsStartOrEnd, Dest
<1>2. ASSUME NEW p \in Procs, NEW t \in Tracks, WorkerAct(p, t)
      PROVE  StaysInv'
  <2>1. \A f \in Paths : disk[f] # "none" => disk'[f] # "none"
    BY <1>2, WorkerTouches
  <2>0. /\ \A q \in Procs, u \in Tracks : Dest(q, u)' = Dest(q, u)
        /\ \A u \in Tracks : Dest(p, u) \in Paths
    BY <1>2, WorkerTouches, DestIsFile DEF Dest
  <2>2. job'[p][t] \in {"placed", "tagging", "written"} => disk'[Dest(p, t)] # "none"
    <3>1. CASE CommitFile(p, t) \/ BeginTag(p, t) \/ EndTag(p, t)
      <4>1. \E x \in {"raw", "torn", "tagged"} : disk' = [disk EXCEPT ![Dest(p, t)] = x]
        BY <3>1 DEF CommitFile, BeginTag, EndTag
      <4>2. QED BY <2>0, <4>1 DEF IInv, TypeOK
    <3>2. CASE ~(CommitFile(p, t) \/ BeginTag(p, t) \/ EndTag(p, t))
      <4>1. \E s \in {"skipped", "fetching", "writing", "downloaded", "failed", "dropped", "timedout"} :
               Move(p, t, s)
        BY <1>2, <3>2 DEF WorkerAct, SkipTrack, BeginDownload, OpenPart, RecordDone,
           FailPermanently, FailTransiently, DropTrack, TimeOut
      <4>2. QED BY <4>1 DEF Move, IInv, TypeOK
    <3>3. QED BY <3>1, <3>2
  <2>3. PlacedIsThere'
    <3> SUFFICES ASSUME NEW q \in Procs, NEW u \in Tracks,
                        job'[q][u] \in {"placed", "tagging", "written"}
                 PROVE  disk'[Dest(q, u)] # "none"
      BY <2>0 DEF PlacedIsThere
    <3>1. CASE q = p /\ u = t
      BY <2>2, <3>1
    <3>2. CASE ~(q = p /\ u = t)
      <4>1. job[q][u] = job'[q][u]
        BY <1>2, <3>2, WorkerTouches
      <4>2. disk[Dest(q, u)] # "none"
        BY <4>1 DEF StaysInv, PlacedIsThere
      <4>3. q = p
        <5>1. phase[p] = "download"
          BY <1>2, WorkerTouches
        <5>2. q # p => job[q] = NoJobs
          BY <5>1, OthersIdle
        <5>3. QED BY <4>1, <5>2, NothingListed
      <4>4. QED BY <2>0, <2>1, <4>2, <4>3
    <3>3. QED BY <3>1, <3>2
  <2>4. tracks'[t].path # NoPath => disk'[tracks'[t].path] # "none"
    <3>1. CASE RecordDone(p, t)
      <4>1. job[p][t] = "written" /\ tracks'[t] = DoneRow(Dest(p, t), cfg[p].tier)
        BY <3>1 DEF RecordDone, JobAt, Recordable, IInv, TypeOK
      <4>2. tracks'[t].path = Dest(p, t)
        BY <4>1 DEF DoneRow
      <4>3. QED BY <2>0, <2>1, <4>1, <4>2 DEF StaysInv, PlacedIsThere
    <3>2. CASE ~RecordDone(p, t)
      <4>1. \/ tracks' = tracks
            \/ \E b \in BOOLEAN : tracks' = [tracks EXCEPT ![t] = FailedRow(tracks[t], cfg[p].tier, b)]
        BY <1>2, <3>2 DEF WorkerAct, SkipTrack, BeginDownload, OpenPart, CommitFile, BeginTag, EndTag,
           FailPermanently, FailTransiently, DropTrack, TimeOut, durable, rows
      <4>2. tracks[t] \in Row /\ cfg[p].tier \in Ranks
        BY ConfiguredTier DEF IInv, TypeOK
      <4>3. tracks'[t].path = tracks[t].path
        BY <4>1, <4>2, FailedKeepsPath DEF IInv, TypeOK
      <4>4. tracks[t].path \in Paths \cup {NoPath}
        BY <4>2 DEF Row
      <4>5. QED BY <2>1, <4>3, <4>4 DEF StaysInv, FilesStay
    <3>3. QED BY <3>1, <3>2
  <2>5. ASSUME NEW u \in Tracks \ {t}, tracks'[u].path # NoPath
        PROVE  disk'[tracks'[u].path] # "none"
    <3>1. tracks'[u] = tracks[u] /\ tracks[u].path \in Paths
      BY <1>2, <2>5, WorkerTouches DEF IInv, TypeOK, Row
    <3>2. QED BY <2>1, <2>5, <3>1 DEF StaysInv, FilesStay
  <2>6. QED BY <2>3, <2>4, <2>5 DEF StaysInv, FilesStay
<1>3. QED BY <1>1, <1>2

(* Under keep every path the favorites export lists points at a real file, as
   OrderedFavoriteFiles says. *)
THEOREM ExportsExist ==
    ASSUME OnlyKeep
    PROVE  Spec => []FavoriteFilesExist
<1>1. Init => StaysInv
  BY DEF Init, StaysInv, FilesStay, PlacedIsThere, NoRow, NoJobs
<1>2. Spec => []StaysInv
  BY <1>1, StaysStep, Invariance, PTL DEF Spec
<1>3. StaysInv => FavoriteFilesExist
  BY DEF StaysInv, FilesStay, FavoriteFilesExist, OrderedFavoriteFiles
<1>4. QED BY <1>2, <1>3, PTL
=============================================================================
