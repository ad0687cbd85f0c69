--------------------------- MODULE SyncCycleProofs ---------------------------
(***************************************************************************)
(* What holds of SyncCycle for every set of tracks, paths and processes,   *)
(* every configuration and every number of faults, proved with TLAPS.      *)
(***************************************************************************)
EXTENDS SyncCycle, TLAPS

(***************************************************************************)
(* Lemmas about the rows and snapshots.                                    *)
(***************************************************************************)
(* MarkTrack and MarkFailed write well-formed rows. *)
LEMMA RowsAreRows ==
    /\ NoRow \in Row
    /\ \A f \in Paths \cup {NoPath}, n \in Ranks : DoneRow(f, n) \in Row
    /\ \A r \in Row, n \in Ranks, b \in BOOLEAN : FailedRow(r, n, b) \in Row
<1>1. NoRow \in Row
  BY MaxTierIsNat DEF NoRow, Row, Ranks
<1>2. \A f \in Paths \cup {NoPath}, n \in Ranks : DoneRow(f, n) \in Row
  BY DEF DoneRow, Row
<1>3. \A r \in Row, n \in Ranks, b \in BOOLEAN : FailedRow(r, n, b) \in Row
  BY DEF FailedRow, Row
<1>4. QED BY <1>1, <1>2, <1>3

(* A failed attempt never touches the recorded path. *)
LEMMA FailedKeepsPath ==
    ASSUME NEW r \in Row, NEW n \in Ranks, NEW b \in BOOLEAN
    PROVE  FailedRow(r, n, b).path = r.path
BY DEF Row, FailedRow

(* Every loaded configuration asks for a rank. *)
LEMMA ConfiguredTier ==
    ASSUME NEW c \in Config \cup {ZeroConfig}
    PROVE  c.tier \in Ranks
<1>1. CASE c \in Config
  <2>1. c.tier \in Tiers
    BY <1>1 DEF Config
  <2>2. \A n \in 1 .. MaxTier : n \in 0 .. MaxTier
    BY MaxTierIsNat
  <2>3. Tiers \subseteq Ranks
    BY <2>2, TiersAreRanks DEF Ranks
  <2>4. QED BY <2>1, <2>3
<1>2. CASE c = ZeroConfig
  <2>1. c.tier = 0
    BY <1>2 DEF ZeroConfig
  <2>2. QED BY <2>1, MaxTierIsNat DEF Ranks
<1>3. QED BY <1>1, <1>2

(* A loaded configuration renders every track to a file, no configuration none. *)
LEMMA ConfiguredNaming ==
    /\ \A c \in Config : c.naming \in Namings /\ c.naming \in [Tracks -> Paths]
    /\ \A c \in Config \cup {ZeroConfig}, t \in Tracks : c.naming[t] \in Paths \cup {NoPath}
<1>1. \A c \in Config : c.naming \in Namings /\ c.naming \in [Tracks -> Paths]
  BY NamingsAreFiles DEF Config
<1>2. \A t \in Tracks : ZeroConfig.naming[t] = NoPath
  BY DEF ZeroConfig, Unnamed
<1>3. QED BY <1>1, <1>2

(***************************************************************************)
(* Type correctness.                                                       *)
(***************************************************************************)
(* The end of a cycle leaves well-typed locals whatever ended it. *)
LEMMA LeaveTypes ==
    ASSUME NEW p \in Procs, TypeOK, Leave(p)
    PROVE  /\ lock' \in Procs \cup {Nobody}
           /\ phase' \in [Procs -> Phases]
           /\ cfg' \in [Procs -> Config \cup {ZeroConfig}]
           /\ current' \in [Procs -> [Tracks -> Membership]]
           /\ job' \in [Procs -> [Tracks -> Stages]]
           /\ removing' \in [Procs -> SUBSET Tracks]
           /\ pending' \in [Procs -> SUBSET Tracks]
           /\ cancelled' \in [Procs -> BOOLEAN]
<1>1. Nothing \in [Tracks -> Membership] /\ NoJobs \in [Tracks -> Stages]
  BY DEF Nothing, Membership, NoJobs, Stages
<1>2. QED
  BY <1>1 DEF TypeOK, Leave, Phases

(* A worker's step is a step between stages. *)
LEMMA MoveTypes ==
    ASSUME NEW p \in Procs, NEW t \in Tracks, NEW s \in Stages, TypeOK, Move(p, t, s)
    PROVE  job' \in [Procs -> [Tracks -> Stages]]
BY DEF TypeOK, Move

(* The count of faults stays within its bound. *)
LEMMA FaultTypes ==
    ASSUME NEW k, faults \in 0 .. MaxFaults, Fault(k)
    PROVE  faults' \in 0 .. MaxFaults
BY MaxFaultsIsNat DEF Fault

(* Every step of Next, of any process, keeps the types. *)
LEMMA TypeStep == TypeOK /\ [Next]_vars => TypeOK'
<1> SUFFICES ASSUME TypeOK, [Next]_vars PROVE TypeOK'
  OBVIOUS
<1> USE DEF durable, rows, run
<1>1. ASSUME NEW t \in Tracks, NEW sources \in Listings, SetFavorite(t, sources) PROVE TypeOK'
  BY <1>1, ListingsAreSources DEF TypeOK, SetFavorite
<1>2. ASSUME NEW p \in Procs, Acquire(p) PROVE TypeOK'
  BY <1>2 DEF TypeOK, Acquire, TryAcquire, Phases
<1>3. ASSUME NEW p \in Procs, Sweep(p) PROVE TypeOK'
  BY <1>3 DEF TypeOK, Sweep, Phases
<1>4. ASSUME NEW p \in Procs, Enumerate(p) PROVE TypeOK'
  <2>1. Enumerated(cfg[p].scope) \in [Tracks -> Membership]
    BY DEF Enumerated, Membership
  <2>2. [t \in Tracks |-> IF t \in Listed(Enumerated(cfg[p].scope)) THEN "queued" ELSE "off"]
            \in [Tracks -> Stages]
    BY DEF Stages
  <2>3. QED BY <1>4, <2>1, <2>2 DEF TypeOK, Enumerate, Phases
<1>5. ASSUME NEW p \in Procs, NEW t \in Tracks, SkipTrack(p, t) PROVE TypeOK'
  <2>1. job' \in [Procs -> [Tracks -> Stages]]
    BY <1>5, MoveTypes DEF SkipTrack, Stages, Ended
  <2>2. QED BY <1>5, <2>1 DEF TypeOK, SkipTrack
<1>6. ASSUME NEW p \in Procs, NEW t \in Tracks, BeginDownload(p, t) PROVE TypeOK'
  <2>1. job' \in [Procs -> [Tracks -> Stages]]
    BY <1>6, MoveTypes DEF BeginDownload, Stages, InFlight
  <2>2. QED BY <1>6, <2>1 DEF TypeOK, BeginDownload
<1>7. ASSUME NEW p \in Procs, NEW t \in Tracks, OpenPart(p, t) PROVE TypeOK'
  <2>1. job' \in [Procs -> [Tracks -> Stages]]
    BY <1>7, MoveTypes DEF OpenPart, Stages, InFlight
  <2>2. QED BY <1>7, <2>1 DEF TypeOK, OpenPart
<1>8. ASSUME NEW p \in Procs, NEW t \in Tracks, CommitFile(p, t) PROVE TypeOK'
  <2>1. job' \in [Procs -> [Tracks -> Stages]]
    BY <1>8, MoveTypes DEF CommitFile, Stages, InFlight
  <2>2. QED BY <1>8, <2>1 DEF TypeOK, CommitFile, FileStates
<1>9. ASSUME NEW p \in Procs, NEW t \in Tracks, BeginTag(p, t) PROVE TypeOK'
  <2>1. job' \in [Procs -> [Tracks -> Stages]]
    BY <1>9, MoveTypes DEF BeginTag, Stages, InFlight
  <2>2. QED BY <1>9, <2>1 DEF TypeOK, BeginTag, FileStates
<1>10. ASSUME NEW p \in Procs, NEW t \in Tracks, EndTag(p, t) PROVE TypeOK'
  <2>1. job' \in [Procs -> [Tracks -> Stages]]
    BY <1>10, MoveTypes DEF EndTag, Stages, InFlight
  <2>2. QED BY <1>10, <2>1 DEF TypeOK, EndTag, FileStates
<1>11. ASSUME NEW p \in Procs, NEW t \in Tracks, RecordDone(p, t) PROVE TypeOK'
  <2>1. job' \in [Procs -> [Tracks -> Stages]]
    BY <1>11, MoveTypes DEF RecordDone, Stages, Ended
  <2>2. Dest(p, t) \in Paths \cup {NoPath}
    BY ConfiguredNaming DEF TypeOK, Dest
  <2>3. DoneRow(Dest(p, t), cfg[p].tier) \in Row
    BY <2>2, RowsAreRows, ConfiguredTier DEF TypeOK
  <2>4. QED BY <1>11, <2>1, <2>2, <2>3 DEF TypeOK, RecordDone
<1>12. ASSUME NEW p \in Procs, NEW t \in Tracks, FailPermanently(p, t) PROVE TypeOK'
  <2>1. job' \in [Procs -> [Tracks -> Stages]]
    BY <1>12, MoveTypes DEF FailPermanently, Stages, Ended
  <2>2. FailedRow(tracks[t], cfg[p].tier, TRUE) \in Row
    BY RowsAreRows, ConfiguredTier DEF TypeOK
  <2>3. QED BY <1>12, <2>1, <2>2 DEF TypeOK, FailPermanently
<1>13. ASSUME NEW p \in Procs, NEW t \in Tracks, FailTransiently(p, t) PROVE TypeOK'
  <2>1. job' \in [Procs -> [Tracks -> Stages]]
    BY <1>13, MoveTypes DEF FailTransiently, Stages, Ended
  <2>2. FailedRow(tracks[t], cfg[p].tier, FALSE) \in Row
    BY RowsAreRows, ConfiguredTier DEF TypeOK
  <2>3. faults' \in 0 .. MaxFaults
    BY <1>13, FaultTypes DEF TypeOK, FailTransiently
  <2>4. parts' \subseteq Tracks
    BY <1>13 DEF TypeOK, FailTransiently, DiscardPart
  <2>5. QED BY <1>13, <2>1, <2>2, <2>3, <2>4 DEF TypeOK, FailTransiently
<1>14. ASSUME NEW p \in Procs, NEW t \in Tracks, DropTrack(p, t) PROVE TypeOK'
  <2>1. job' \in [Procs -> [Tracks -> Stages]]
    BY <1>14, MoveTypes DEF DropTrack, Stages, Ended
  <2>2. QED BY <1>14, <2>1 DEF TypeOK, DropTrack, DiscardPart
<1>15. ASSUME NEW p \in Procs, Diff(p) PROVE TypeOK'
  <2>1. ToRemove(p) \subseteq Tracks
    BY DEF ToRemove, Removed, Listed
  <2>2. QED BY <1>15, <2>1 DEF TypeOK, Diff, Phases
<1>16. ASSUME NEW p \in Procs, NEW t \in Tracks, RemoveTrack(p, t) PROVE TypeOK'
  BY <1>16 DEF TypeOK, RemoveTrack, FileStates
<1>17. ASSUME NEW p \in Procs, NEW t \in Tracks, RemovalFails(p, t) PROVE TypeOK'
  <2>1. faults' \in 0 .. MaxFaults
    BY <1>17, FaultTypes DEF TypeOK, RemovalFails
  <2>2. QED BY <1>17, <2>1 DEF TypeOK, RemovalFails, FileStates
<1>18. ASSUME NEW p \in Procs, EndReconcile(p) PROVE TypeOK'
  BY <1>18 DEF TypeOK, EndReconcile, Phases
<1>19. ASSUME NEW p \in Procs, Persist(p) PROVE TypeOK'
  <2>1. NextSnapshot(p) \in [Tracks -> Membership]
    BY DEF TypeOK, NextSnapshot, Membership
  <2>2. QED BY <1>19, <2>1 DEF TypeOK, Persist, Phases
<1>20. ASSUME NEW p \in Procs, Export(p) \/ ReturnCancelled(p) PROVE TypeOK'
  BY <1>20, LeaveTypes DEF TypeOK, Export, ReturnCancelled
<1>21. ASSUME NEW p \in Procs, SweepFails(p) \/ Abort(p) \/ Crash(p) PROVE TypeOK'
  <2>1. faults' \in 0 .. MaxFaults
    BY <1>21, FaultTypes DEF TypeOK, SweepFails, Abort, Crash
  <2>2. parts' \subseteq Tracks
    BY <1>21 DEF TypeOK, SweepFails, Abort, Crash
  <2>3. QED BY <1>21, <2>1, <2>2, LeaveTypes DEF TypeOK, SweepFails, Abort, Crash
<1>22. ASSUME NEW p \in Procs, Cancel(p) PROVE TypeOK'
  <2>1. faults' \in 0 .. MaxFaults
    BY <1>22, FaultTypes DEF TypeOK, Cancel
  <2>2. QED BY <1>22, <2>1 DEF TypeOK, Cancel
<1>23. ASSUME NEW p \in Procs, NEW t \in Tracks, TimeOut(p, t) PROVE TypeOK'
  <2>1. job' \in [Procs -> [Tracks -> Stages]]
    BY <1>23, MoveTypes DEF TimeOut, Stages, Ended
  <2>2. faults' \in 0 .. MaxFaults
    BY <1>23, FaultTypes DEF TypeOK, TimeOut
  <2>3. QED BY <1>23, <2>1, <2>2 DEF TypeOK, TimeOut, DiscardPart
<1>24. CASE UNCHANGED vars
  BY <1>24 DEF TypeOK, vars
<1>25. QED
  BY <1>1, <1>2, <1>3, <1>4, <1>5, <1>6, <1>7, <1>8, <1>9, <1>10, <1>11, <1>12, <1>13,
     <1>14, <1>15, <1>16, <1>17, <1>18, <1>19, <1>20, <1>21, <1>22, <1>23, <1>24
  DEF Next, CycleStep, TrackStep, Faulty

(* Every variable keeps its type, and the faults stay within their bound. *)
THEOREM TypeCorrect == Spec => []TypeOK
<1>1. Init => TypeOK
  BY RowsAreRows, MaxFaultsIsNat
  DEF Init, TypeOK, Phases, Membership, Nothing, NoJobs, Stages, FileStates, Unnamed
<1>2. QED BY <1>1, TypeStep, PTL DEF Spec

(***************************************************************************)
(* The inductive invariant.                                                *)
(***************************************************************************)
(* While a process is in a cycle every other one is idle. *)
LEMMA OthersIdle ==
    ASSUME IInv, NEW p \in Procs, phase[p] # "idle", NEW q \in Procs, q # p
    PROVE  /\ phase[q] = "idle"
           /\ lock = p
           /\ current[q] = Nothing /\ job[q] = NoJobs
           /\ removing[q] = {} /\ pending[q] = {}
<1>1. lock = p
  BY DEF IInv, OneCycleAtATime
<1>2. phase[q] = "idle"
  BY <1>1 DEF IInv, OneCycleAtATime
<1>3. QED
  BY <1>1, <1>2 DEF IInv, LocalsReset

(* Nothing is listed, and no job of any stage exists, in a reset process. *)
LEMMA NothingListed ==
    /\ Listed(Nothing) = {}
    /\ \A t \in Tracks : NoJobs[t] = "off"
BY DEF Listed, Nothing, NoJobs

(* A cycle renders each of its tracks to a file. *)
LEMMA DestIsFile ==
    ASSUME IInv, NEW p \in Procs, phase[p] # "idle"
    PROVE  /\ cfg[p].naming \in Namings
           /\ \A t \in Tracks : Dest(p, t) \in Paths /\ Dest(p, t) = cfg[p].naming[t]
<1>1. cfg[p] \in Config
  BY DEF IInv, LocalsReset
<1>2. cfg[p].naming \in Namings /\ cfg[p].naming \in [Tracks -> Paths]
  BY <1>1, ConfiguredNaming
<1>3. QED BY <1>2 DEF Dest

(* When no cycle is running only the durable state has anything to satisfy. *)
LEMMA AllIdle ==
    ASSUME TypeOK', RecordedPaths',
           \A q \in Procs :
               /\ phase'[q] = "idle"
               /\ current'[q] = Nothing /\ job'[q] = NoJobs
               /\ removing'[q] = {} /\ pending'[q] = {}
    PROVE  IInv'
<1>1. OneCycleAtATime' /\ PartsAreLive'
  BY DEF OneCycleAtATime, PartsAreLive
<1>2. LocalsReset' /\ NoLateWorkers' /\ RemovalsFromDiff' /\ EveryRemovalHandled'
  BY DEF LocalsReset, NoLateWorkers, RemovalsFromDiff, EveryRemovalHandled
<1>3. JobsMatchListing'
  BY NothingListed DEF JobsMatchListing
<1>4. FilesAsRecorded'
  BY NothingListed DEF FilesAsRecorded, WrittenIsTagged, DownloadedIsRecorded, Dest
<1>5. QED BY <1>1, <1>2, <1>3, <1>4 DEF IInv

(* The end of a cycle, however it comes about. *)
LEMMA LeaveKeepsIInv ==
    ASSUME IInv, NEW p \in Procs, phase[p] # "idle", Leave(p), TypeOK', UNCHANGED tracks
    PROVE  IInv'
<1>1. RecordedPaths'
  BY DEF IInv, RecordedPaths
<1>2. ASSUME NEW q \in Procs
      PROVE  /\ phase'[q] = "idle"
             /\ current'[q] = Nothing /\ job'[q] = NoJobs
             /\ removing'[q] = {} /\ pending'[q] = {}
  <2>1. CASE q = p
    BY <2>1 DEF IInv, TypeOK, Leave
  <2>2. CASE q # p
    <3>1. /\ phase[q] = "idle"
          /\ current[q] = Nothing /\ job[q] = NoJobs
          /\ removing[q] = {} /\ pending[q] = {}
      BY <2>2, OthersIdle
    <3>2. QED BY <2>2, <3>1 DEF IInv, TypeOK, Leave
  <2>3. QED BY <2>1, <2>2
<1>3. QED BY <1>1, <1>2, AllIdle

(* What a worker's step leaves alone: the control state and the removals. *)
Frame == UNCHANGED <<snapshot, lock, phase, cfg, current, removing, pending>>

(* A worker's step, which moves its own job and no control state, keeps the parts of
   the invariant about control and removals. *)
LEMMA WorkerKeepsControl ==
    ASSUME IInv, NEW p \in Procs, NEW t \in Tracks, NEW s \in Stages \ {"off"},
           phase[p] = "download", job[p][t] # "off", Move(p, t, s), Frame
    PROVE  /\ OneCycleAtATime' /\ LocalsReset' /\ JobsMatchListing' /\ NoLateWorkers'
           /\ RemovalsFromDiff' /\ EveryRemovalHandled'
<1>1. /\ \A q \in Procs, u \in Tracks : q # p \/ u # t => job'[q][u] = job[q][u]
      /\ job'[p][t] = s
      /\ \A q \in Procs : q # p => job'[q] = job[q]
  BY DEF IInv, TypeOK, Move
<1>2. \A q \in Procs : phase[q] # "idle" => q = p
  BY OthersIdle
<1>3. OneCycleAtATime'
  BY DEF Frame, IInv, OneCycleAtATime
<1>4. LocalsReset'
  BY <1>1 DEF Frame, IInv, LocalsReset
<1>5. JobsMatchListing'
  BY <1>1 DEF Frame, IInv, JobsMatchListing, Listed
<1>6. NoLateWorkers'
  BY <1>2 DEF Frame, NoLateWorkers
<1>8. RemovalsFromDiff' /\ EveryRemovalHandled'
  BY <1>2 DEF Frame, RemovalsFromDiff, EveryRemovalHandled
<1>9. QED BY <1>3, <1>4, <1>5, <1>6, <1>8

(* A worker's step that leaves rows and files alone keeps what is recorded, if it
   does not claim to have written or recorded anything. *)
LEMMA WorkerKeepsLibrary ==
    ASSUME IInv, NEW p \in Procs, NEW t \in Tracks,
           NEW s \in Stages \ {"written", "downloaded"},
           Move(p, t, s), Frame, UNCHANGED <<tracks, disk>>
    PROVE  RecordedPaths' /\ FilesAsRecorded'
<1>1. /\ \A q \in Procs, u \in Tracks : q # p \/ u # t => job'[q][u] = job[q][u]
      /\ job'[p][t] = s
  BY DEF IInv, TypeOK, Move
<1>2. RecordedPaths'
  BY DEF IInv, RecordedPaths
<1>3. FilesAsRecorded'
  BY <1>1 DEF Frame, Dest, IInv, FilesAsRecorded, WrittenIsTagged, DownloadedIsRecorded, Dest
<1>4. QED BY <1>2, <1>3

(* A worker's step that rewrites its own file keeps the other workers' files. *)
LEMMA WorkerWritesOwnFile ==
    ASSUME IInv, NEW p \in Procs, NEW t \in Tracks, NEW x \in FileStates,
           NEW s \in Stages \ {"downloaded"}, s = "written" => x = "tagged",
           phase[p] = "download", Move(p, t, s), Frame, UNCHANGED tracks,
           disk' = [disk EXCEPT ![Dest(p, t)] = x]
    PROVE  RecordedPaths' /\ FilesAsRecorded'
<1>1. /\ \A q \in Procs, u \in Tracks : q # p \/ u # t => job'[q][u] = job[q][u]
      /\ job'[p][t] = s
  BY DEF IInv, TypeOK, Move
<1>2. RecordedPaths'
  BY DEF IInv, RecordedPaths
<1> SUFFICES ASSUME DistinctPaths PROVE FilesAsRecorded'
  BY <1>2 DEF FilesAsRecorded
<1>4. \A u \in Tracks : /\ disk'[Dest(p, u)] = IF u = t THEN x ELSE disk[Dest(p, u)]
                       /\ Dest(p, u)' = Dest(p, u)
  <2>1. \A u \in Tracks : Dest(p, u) \in Paths /\ (Dest(p, u) = Dest(p, t) => u = t)
    BY DestIsFile DEF DistinctPaths
  <2>2. \A u \in Tracks : Dest(p, u)' = Dest(p, u)
    BY DEF Dest, Frame
  <2>3. QED BY <2>1, <2>2 DEF IInv, TypeOK
<1>5. \A q \in Procs, u \in Tracks : job'[q][u] \in {"written", "downloaded"} =>
          q = p /\ (u = t => s = "written") /\ (u # t => job[q][u] = job'[q][u])
  <2> SUFFICES ASSUME NEW q \in Procs, NEW u \in Tracks,
                      job'[q][u] \in {"written", "downloaded"}
               PROVE  q = p /\ (u = t => s = "written") /\ (u # t => job[q][u] = job'[q][u])
    OBVIOUS
  <2>1. q = p
    <3>1. q # p => job'[q][u] = job[q][u] /\ job[q] = NoJobs
      BY <1>1, OthersIdle
    <3>2. QED BY <3>1, NothingListed
  <2>2. QED BY <2>1, <1>1
<1>6. WrittenIsTagged'
  BY <1>4, <1>5 DEF Frame, IInv, FilesAsRecorded, WrittenIsTagged
<1>7. DownloadedIsRecorded'
  <2> SUFFICES ASSUME NEW q \in Procs, NEW u \in Tracks, job'[q][u] = "downloaded"
               PROVE  /\ tracks'[u].status = "done" /\ tracks'[u].tier = cfg'[q].tier
                      /\ tracks'[u].path = cfg'[q].naming[u]
                      /\ disk'[tracks'[u].path] = "tagged"
    BY DEF DownloadedIsRecorded
  <2>1. q = p /\ u # t /\ job[q][u] = "downloaded"
    BY <1>1, <1>5
  <2>2. /\ tracks[u].status = "done" /\ tracks[u].tier = cfg[q].tier
        /\ tracks[u].path = cfg[q].naming[u]
        /\ disk[tracks[u].path] = "tagged"
    BY <2>1 DEF IInv, FilesAsRecorded, DownloadedIsRecorded
  <2>3. QED BY <2>1, <2>2, <1>4 DEF Frame, Dest
<1>8. QED BY <1>6, <1>7 DEF FilesAsRecorded

(* A worker's step that writes its track's row keeps the other rows, and may say
   the track is downloaded only when the row and the file bear it out. *)
LEMMA WorkerWritesOwnRow ==
    ASSUME IInv, NEW p \in Procs, NEW t \in Tracks, NEW r \in Row,
           NEW s \in Stages \ {"written"}, phase[p] = "download",
           r.path \in {NoPath} \cup {n[t] : n \in Namings},
           s = "downloaded" => /\ r.status = "done" /\ r.tier = cfg[p].tier
                               /\ r.path = Dest(p, t)
                               /\ DistinctPaths => disk[Dest(p, t)] = "tagged",
           Move(p, t, s), Frame, UNCHANGED disk,
           tracks' = [tracks EXCEPT ![t] = r]
    PROVE  RecordedPaths' /\ FilesAsRecorded'
<1>1. /\ \A q \in Procs, u \in Tracks : q # p \/ u # t => job'[q][u] = job[q][u]
      /\ job'[p][t] = s
  BY DEF IInv, TypeOK, Move
<1>2. \A u \in Tracks : tracks'[u] = IF u = t THEN r ELSE tracks[u]
  BY DEF IInv, TypeOK
<1>3. RecordedPaths'
  BY <1>2 DEF IInv, RecordedPaths
<1> SUFFICES ASSUME DistinctPaths PROVE FilesAsRecorded'
  BY <1>3 DEF FilesAsRecorded
<1>5. WrittenIsTagged'
  BY <1>1 DEF Frame, Dest, IInv, FilesAsRecorded, WrittenIsTagged
<1>6. DownloadedIsRecorded'
  <2> SUFFICES ASSUME NEW q \in Procs, NEW u \in Tracks, job'[q][u] = "downloaded"
               PROVE  /\ tracks'[u].status = "done" /\ tracks'[u].tier = cfg'[q].tier
                      /\ tracks'[u].path = cfg'[q].naming[u]
                      /\ disk'[tracks'[u].path] = "tagged"
    BY DEF DownloadedIsRecorded
  <2>1. q = p
    <3>1. q # p => job'[q][u] = job[q][u] /\ job[q] = NoJobs
      BY <1>1, OthersIdle
    <3>2. QED BY <3>1, NothingListed
  <2>2. CASE u = t
    BY <2>1, <2>2, <1>1, <1>2 DEF Frame, Dest
  <2>3. CASE u # t
    <3>1. job[q][u] = "downloaded"
      BY <2>3, <1>1
    <3>2. QED BY <2>3, <3>1, <1>2 DEF IInv, FilesAsRecorded, DownloadedIsRecorded, Frame
  <2>4. QED BY <2>2, <2>3
<1>7. QED BY <1>5, <1>6 DEF FilesAsRecorded

(* A worker's step keeps the .part files when it adds its own as it starts writing
   and takes it away as it stops, or fails to as its job ends badly. *)
LEMMA WorkerKeepsParts ==
    ASSUME IInv, NEW p \in Procs, NEW t \in Tracks, NEW s \in Stages,
           phase[p] = "download", Move(p, t, s), Frame,
           \/ s = "writing" /\ parts' = parts \cup {t}
           \/ s # "writing" /\ parts' = parts \ {t}
           \/ s \in {"failed", "timedout", "dropped"} /\ UNCHANGED parts
    PROVE  PartsAreLive'
<1>1. /\ \A u \in Tracks : u # t => job'[p][u] = job[p][u]
      /\ job'[p][t] = s
  BY DEF IInv, TypeOK, Move
<1>2. /\ \A u \in Tracks : job[p][u] = "writing" => u \in parts
      /\ \A u \in parts : u \in Tracks /\ job[p][u] \in {"writing", "failed", "timedout", "dropped"}
  BY DEF IInv, TypeOK, PartsAreLive
<1>3. /\ \A u \in Tracks : job'[p][u] = "writing" => u \in parts'
      /\ \A u \in parts' : job'[p][u] \in {"writing", "failed", "timedout", "dropped"}
  BY <1>1, <1>2
<1>4. \A q \in Procs : phase'[q] # "idle" => q = p
  BY OthersIdle DEF Frame
<1>5. QED BY <1>3, <1>4 DEF PartsAreLive

(* The same, said of a step that leaves the .part files alone. *)
LEMMA WorkerWithoutPart ==
    ASSUME IInv, NEW p \in Procs, NEW t \in Tracks, NEW s \in Stages \ {"writing"},
           phase[p] = "download", job[p][t] \notin {"writing"} \cup Ended,
           Move(p, t, s), Frame, UNCHANGED parts
    PROVE  PartsAreLive'
<1>1. t \notin parts
  BY DEF IInv, PartsAreLive, Ended
<1>2. parts' = parts \ {t}
  BY <1>1
<1>3. QED BY <1>2, WorkerKeepsParts

(* Every step of a worker keeps the invariant. *)
LEMMA WorkerStep ==
    ASSUME IInv, TypeOK', NEW p \in Procs, NEW t \in Tracks,
           \/ SkipTrack(p, t) \/ BeginDownload(p, t) \/ OpenPart(p, t) \/ CommitFile(p, t)
           \/ BeginTag(p, t) \/ EndTag(p, t) \/ RecordDone(p, t)
           \/ FailPermanently(p, t) \/ FailTransiently(p, t) \/ DropTrack(p, t)
           \/ TimeOut(p, t)
    PROVE  IInv'
<1> DEFINE Kept == /\ OneCycleAtATime' /\ LocalsReset' /\ JobsMatchListing' /\ NoLateWorkers'
                   /\ RemovalsFromDiff' /\ EveryRemovalHandled'
           Library == RecordedPaths' /\ FilesAsRecorded'
<1> SUFFICES Kept /\ Library /\ PartsAreLive'
  BY DEF IInv
<1>0. /\ {"skipped", "fetching", "writing", "placed", "tagging", "written",
          "downloaded", "failed", "timedout", "dropped"} \subseteq Stages
      /\ tracks[t] \in Row /\ tracks[t].path \in {NoPath} \cup {n[t] : n \in Namings}
      /\ cfg[p].tier \in Ranks
  BY ConfiguredTier DEF IInv, TypeOK, RecordedPaths, Stages, Ended, InFlight
<1> HIDE DEF Kept, Library
<1> USE DEF durable, rows, run, JobAt
<1>1. CASE SkipTrack(p, t)
  <2>1. phase[p] = "download" /\ job[p][t] # "off" /\ Move(p, t, "skipped") /\ Frame
    BY <1>1 DEF SkipTrack, Frame
  <2>2. Kept
    BY <2>1, <1>0, WorkerKeepsControl DEF Kept
  <2>3. Library
    BY <2>1, <1>1, <1>0, WorkerKeepsLibrary DEF Library, SkipTrack
  <2>4. PartsAreLive'
    BY <2>1, <1>1, <1>0, WorkerWithoutPart DEF SkipTrack, Ended
  <2>5. QED BY <2>2, <2>3, <2>4
<1>2. CASE BeginDownload(p, t)
  <2>1. phase[p] = "download" /\ job[p][t] # "off" /\ Move(p, t, "fetching") /\ Frame
    BY <1>2 DEF BeginDownload, Frame
  <2>2. Kept
    BY <2>1, <1>0, WorkerKeepsControl DEF Kept
  <2>3. Library
    BY <2>1, <1>2, <1>0, WorkerKeepsLibrary DEF Library, BeginDownload
  <2>4. PartsAreLive'
    BY <2>1, <1>2, <1>0, WorkerWithoutPart DEF BeginDownload, Ended
  <2>5. QED BY <2>2, <2>3, <2>4
<1>3. CASE OpenPart(p, t)
  <2>1. phase[p] = "download" /\ job[p][t] # "off" /\ Move(p, t, "writing") /\ Frame
    BY <1>3 DEF OpenPart, Frame
  <2>2. Kept
    BY <2>1, <1>0, WorkerKeepsControl DEF Kept
  <2>3. Library
    BY <2>1, <1>3, <1>0, WorkerKeepsLibrary DEF Library, OpenPart
  <2>4. PartsAreLive'
    BY <2>1, <1>3, <1>0, WorkerKeepsParts DEF OpenPart
  <2>5. QED BY <2>2, <2>3, <2>4
<1>4. CASE CommitFile(p, t)
  <2>1. phase[p] = "download" /\ job[p][t] # "off" /\ Move(p, t, "placed") /\ Frame
    BY <1>4 DEF CommitFile, Frame
  <2>2. Kept
    BY <2>1, <1>0, WorkerKeepsControl DEF Kept
  <2>3. Library
    BY <2>1, <1>4, <1>0, WorkerWritesOwnFile DEF Library, FileStates, CommitFile
  <2>4. PartsAreLive'
    BY <2>1, <1>4, <1>0, WorkerKeepsParts DEF CommitFile
  <2>5. QED BY <2>2, <2>3, <2>4
<1>5. CASE BeginTag(p, t)
  <2>1. phase[p] = "download" /\ job[p][t] # "off" /\ Move(p, t, "tagging") /\ Frame
    BY <1>5 DEF BeginTag, Frame
  <2>2. Kept
    BY <2>1, <1>0, WorkerKeepsControl DEF Kept
  <2>3. Library
    BY <2>1, <1>5, <1>0, WorkerWritesOwnFile DEF Library, FileStates, BeginTag
  <2>4. PartsAreLive'
    BY <2>1, <1>5, <1>0, WorkerWithoutPart DEF BeginTag, Ended
  <2>5. QED BY <2>2, <2>3, <2>4
<1>6. CASE EndTag(p, t)
  <2>1. phase[p] = "download" /\ job[p][t] # "off" /\ Move(p, t, "written") /\ Frame
    BY <1>6 DEF EndTag, Frame
  <2>2. Kept
    BY <2>1, <1>0, WorkerKeepsControl DEF Kept
  <2>3. Library
    BY <2>1, <1>6, <1>0, WorkerWritesOwnFile DEF Library, FileStates, EndTag
  <2>4. PartsAreLive'
    BY <2>1, <1>6, <1>0, WorkerWithoutPart DEF EndTag, Ended
  <2>5. QED BY <2>2, <2>3, <2>4
<1>7. CASE RecordDone(p, t)
  <2>1. phase[p] = "download" /\ job[p][t] = "written" /\ Move(p, t, "downloaded") /\ Frame
    BY <1>7 DEF RecordDone, Recordable, Frame
  <2>2. Kept
    BY <2>1, <1>0, WorkerKeepsControl DEF Kept
  <2>3. DistinctPaths => disk[Dest(p, t)] = "tagged"
    BY <2>1 DEF IInv, FilesAsRecorded, WrittenIsTagged
  <2>4. DEFINE r == DoneRow(Dest(p, t), cfg[p].tier)
  <2>5. /\ r \in Row /\ r.status = "done" /\ r.tier = cfg[p].tier /\ r.path = Dest(p, t)
        /\ r.path \in {n[t] : n \in Namings}
    BY <1>0, <2>1, RowsAreRows, DestIsFile DEF DoneRow
  <2>6. tracks' = [tracks EXCEPT ![t] = r] /\ UNCHANGED <<disk, parts>>
    BY <1>7 DEF RecordDone
  <2> HIDE DEF r
  <2>7. Library
    BY <2>1, <2>3, <2>5, <2>6, <1>0, WorkerWritesOwnRow DEF Library
  <2>8. PartsAreLive'
    BY <2>1, <2>6, <1>0, WorkerWithoutPart DEF Ended
  <2>9. QED BY <2>2, <2>7, <2>8
<1>8. CASE FailPermanently(p, t)
  <2>1. phase[p] = "download" /\ job[p][t] = "fetching" /\ Move(p, t, "failed") /\ Frame
    BY <1>8 DEF FailPermanently, Frame
  <2>2. Kept
    BY <2>1, <1>0, WorkerKeepsControl DEF Kept
  <2>3. DEFINE r == FailedRow(tracks[t], cfg[p].tier, TRUE)
  <2>4. r \in Row /\ r.path \in {NoPath} \cup {n[t] : n \in Namings}
    BY <1>0, RowsAreRows, FailedKeepsPath
  <2>5. (tracks' = [tracks EXCEPT ![t] = r] \/ UNCHANGED tracks) /\ UNCHANGED <<disk, parts>>
    BY <1>8 DEF FailPermanently
  <2> HIDE DEF r
  <2>6. Library
    BY <2>1, <2>4, <2>5, <1>0, WorkerWritesOwnRow, WorkerKeepsLibrary DEF Library
  <2>7. PartsAreLive'
    BY <2>1, <2>5, <1>0, WorkerWithoutPart DEF Ended
  <2>8. QED BY <2>2, <2>6, <2>7
<1>9. CASE FailTransiently(p, t)
  <2>1. phase[p] = "download" /\ job[p][t] # "off" /\ Move(p, t, "failed") /\ Frame
    BY <1>9 DEF FailTransiently, Frame, InFlight
  <2>2. Kept
    BY <2>1, <1>0, WorkerKeepsControl DEF Kept
  <2>3. DEFINE r == FailedRow(tracks[t], cfg[p].tier, FALSE)
  <2>4. r \in Row /\ r.path \in {NoPath} \cup {n[t] : n \in Namings}
    BY <1>0, RowsAreRows, FailedKeepsPath
  <2>5. (tracks' = [tracks EXCEPT ![t] = r] \/ UNCHANGED tracks) /\ UNCHANGED disk
    BY <1>9 DEF FailTransiently
  <2> HIDE DEF r
  <2>7. Library
    BY <2>1, <2>4, <2>5, <1>0, WorkerWritesOwnRow, WorkerKeepsLibrary DEF Library
  <2>8. PartsAreLive'
    BY <2>1, <1>9, <1>0, WorkerKeepsParts DEF FailTransiently, DiscardPart
  <2>9. QED BY <2>2, <2>7, <2>8
<1>10. CASE DropTrack(p, t)
  <2>1. phase[p] = "download" /\ job[p][t] # "off" /\ Move(p, t, "dropped") /\ Frame
    BY <1>10 DEF DropTrack, Frame
  <2>2. Kept
    BY <2>1, <1>0, WorkerKeepsControl DEF Kept
  <2>3. Library
    BY <2>1, <1>10, <1>0, WorkerKeepsLibrary DEF Library, DropTrack
  <2>4. PartsAreLive'
    BY <2>1, <1>10, <1>0, WorkerKeepsParts DEF DropTrack, DiscardPart
  <2>5. QED BY <2>2, <2>3, <2>4
<1>11. CASE TimeOut(p, t)
  <2>1. phase[p] = "download" /\ job[p][t] # "off" /\ Move(p, t, "timedout") /\ Frame
    BY <1>11 DEF TimeOut, Frame
  <2>2. Kept
    BY <2>1, <1>0, WorkerKeepsControl DEF Kept
  <2>3. Library
    BY <2>1, <1>11, <1>0, WorkerKeepsLibrary DEF Library, TimeOut
  <2>4. PartsAreLive'
    BY <2>1, <1>11, <1>0, WorkerKeepsParts DEF TimeOut, DiscardPart
  <2>5. QED BY <2>2, <2>3, <2>4
<1>12. QED BY <1>1, <1>2, <1>3, <1>4, <1>5, <1>6, <1>7, <1>8, <1>9, <1>10, <1>11

(* A step of p that changes only its own control state and leaves every other
   process idle keeps what is said of the others. *)
LEMMA OnlyOneActive ==
    ASSUME IInv, NEW p \in Procs, phase[p] # "idle",
           NEW x, phase' = [phase EXCEPT ![p] = x]
    PROVE  /\ \A q \in Procs : phase'[q] # "idle" => q = p
           /\ phase'[p] = x
BY OthersIdle DEF IInv, TypeOK

(* config.Load and TryAcquire start a cycle with empty locals. *)
LEMMA AcquireKeepsIInv ==
    ASSUME IInv, TypeOK', NEW p \in Procs, Acquire(p)
    PROVE  IInv'
<1> USE DEF Acquire, durable, rows
<1>1. \A q \in Procs : phase[q] = "idle"
  BY NobodyIsNoProc DEF IInv, OneCycleAtATime, TryAcquire
<1>2. /\ phase'[p] = "sweep" /\ lock' = p
      /\ \A q \in Procs : q # p => phase'[q] = "idle" /\ cfg'[q] = cfg[q]
      /\ cfg'[p] \in Config
  BY <1>1 DEF IInv, TypeOK, TryAcquire
<1>3. \A q \in Procs : /\ current'[q] = Nothing /\ job'[q] = NoJobs
                       /\ removing'[q] = {} /\ pending'[q] = {}
  BY <1>1 DEF IInv, LocalsReset
<1>4. OneCycleAtATime' /\ LocalsReset' /\ NoLateWorkers' /\ PartsAreLive'
  BY <1>2, <1>3 DEF OneCycleAtATime, LocalsReset, NoLateWorkers, PartsAreLive
<1>5. RemovalsFromDiff' /\ EveryRemovalHandled'
  BY <1>2 DEF RemovalsFromDiff, EveryRemovalHandled
<1>6. JobsMatchListing'
  BY <1>3, NothingListed DEF JobsMatchListing
<1>7. RecordedPaths' /\ FilesAsRecorded'
  BY <1>3, NothingListed DEF IInv, RecordedPaths, FilesAsRecorded, WrittenIsTagged, DownloadedIsRecorded, Dest
<1>8. QED BY <1>4, <1>5, <1>6, <1>7 DEF IInv

(* SweepStale leaves no .part, and no worker has one yet. *)
LEMMA SweepKeepsIInv ==
    ASSUME IInv, TypeOK', NEW p \in Procs, Sweep(p)
    PROVE  IInv'
<1> USE DEF Sweep, run, rows
<1>1. (\A q \in Procs : phase'[q] # "idle" => q = p) /\ phase'[p] = "enumerate"
  BY OnlyOneActive
<1>2. OneCycleAtATime'
  BY <1>1 DEF IInv, OneCycleAtATime
<1>3. LocalsReset'
  BY <1>1 DEF IInv, TypeOK, LocalsReset
<1>4. PartsAreLive'
  BY <1>1, NothingListed DEF IInv, LocalsReset, PartsAreLive
<1>5. NoLateWorkers' /\ RemovalsFromDiff' /\ EveryRemovalHandled'
  BY <1>1 DEF NoLateWorkers, RemovalsFromDiff, EveryRemovalHandled
<1>6. JobsMatchListing' /\ RecordedPaths'
  BY DEF IInv, JobsMatchListing, RecordedPaths
<1>7. FilesAsRecorded'
  BY DEF IInv, FilesAsRecorded, WrittenIsTagged, DownloadedIsRecorded, Dest
<1>8. QED BY <1>2, <1>3, <1>4, <1>5, <1>6, <1>7 DEF IInv

(* Enumerate queues exactly the tracks it lists. *)
LEMMA EnumerateKeepsIInv ==
    ASSUME IInv, TypeOK', NEW p \in Procs, Enumerate(p)
    PROVE  IInv'
<1> USE DEF Enumerate, durable, rows
<1> DEFINE listing == Enumerated(cfg[p].scope)
<1>1. (\A q \in Procs : phase'[q] # "idle" => q = p) /\ phase'[p] = "download"
  BY OnlyOneActive
<1>2. /\ current'[p] = listing
      /\ \A t \in Tracks : job'[p][t] = IF t \in Listed(listing) THEN "queued" ELSE "off"
      /\ \A q \in Procs : q # p => current'[q] = current[q] /\ job'[q] = job[q]
  BY DEF IInv, TypeOK
<1> HIDE DEF listing
<1>3. \A q \in Procs : q # p => current'[q] = Nothing /\ job'[q] = NoJobs
  BY <1>2, OthersIdle
<1>4. \A q \in Procs : removing[q] = {} /\ pending[q] = {}
  BY OthersIdle DEF IInv, LocalsReset
<1>5. OneCycleAtATime'
  BY <1>1 DEF IInv, OneCycleAtATime
<1>6. LocalsReset'
  BY <1>1, <1>3, <1>4 DEF IInv, LocalsReset
<1>7. JobsMatchListing'
  BY <1>2, <1>3, NothingListed DEF JobsMatchListing
<1>8. PartsAreLive'
  <2>1. parts = {}
    <3>1. phase[p] = "enumerate" /\ \A t \in Tracks : job[p][t] = "off"
      BY NothingListed DEF IInv, LocalsReset
    <3>2. \A t \in parts : t \in Tracks /\ job[p][t] # "off"
      BY <3>1 DEF IInv, TypeOK, PartsAreLive
    <3>3. QED BY <3>1, <3>2
  <2>2. \A t \in Tracks : job'[p][t] # "writing"
    BY <1>2
  <2>3. QED BY <1>1, <2>1, <2>2 DEF PartsAreLive
<1>9. NoLateWorkers' /\ RemovalsFromDiff' /\ EveryRemovalHandled'
  BY <1>1 DEF NoLateWorkers, RemovalsFromDiff, EveryRemovalHandled
<1>10. RecordedPaths'
  BY <1>4 DEF IInv, RecordedPaths
<1>11. \A q \in Procs, t \in Tracks : job'[q][t] \in {"queued", "off"}
  BY <1>2, <1>3, NothingListed
<1>12. FilesAsRecorded'
  BY <1>11 DEF FilesAsRecorded, WrittenIsTagged, DownloadedIsRecorded, Dest
<1>13. QED BY <1>5, <1>6, <1>7, <1>8, <1>9, <1>10, <1>12 DEF IInv

(* DiffSnapshot hands Reconcile the whole difference, or nothing under keep. *)
LEMMA DiffKeepsIInv ==
    ASSUME IInv, TypeOK', NEW p \in Procs, Diff(p)
    PROVE  IInv'
<1> USE DEF Diff, durable, rows
<1>1. (\A q \in Procs : phase'[q] # "idle" => q = p) /\ phase'[p] = "reconcile"
  BY OnlyOneActive
<1>2. /\ removing'[p] = ToRemove(p) /\ pending[p] = {}
      /\ \A q \in Procs : q # p => removing'[q] = removing[q]
  BY DEF IInv, TypeOK, LocalsReset
<1>3. OneCycleAtATime'
  BY <1>1 DEF IInv, OneCycleAtATime
<1>4. LocalsReset'
  BY <1>1, <1>2, OthersIdle DEF IInv, TypeOK, LocalsReset
<1>5. JobsMatchListing' /\ RecordedPaths' /\ FilesAsRecorded'
  BY DEF IInv, JobsMatchListing, RecordedPaths, FilesAsRecorded, WrittenIsTagged, DownloadedIsRecorded, Listed, Dest
<1>6. NoLateWorkers'
  BY <1>1 DEF NoLateWorkers, JobsEnded
<1>7. PartsAreLive'
  BY <1>1 DEF IInv, PartsAreLive
<1>9. RemovalsFromDiff' /\ EveryRemovalHandled'
  <2>1. snapshot' = snapshot /\ current' = current /\ cfg' = cfg /\ pending'[p] = {}
    BY <1>2
  <2>2. Removed(snapshot', current'[p]) = Removed(snapshot, current[p])
    BY <2>1
  <2>3. QED
    BY <1>1, <1>2, <2>1, <2>2 DEF RemovalsFromDiff, EveryRemovalHandled, ToRemove
<1>10. QED BY <1>3, <1>4, <1>5, <1>6, <1>7, <1>9 DEF IInv

(* Handling one removal, well or badly: the file at the track's recorded path may
   go, and no enumerated track's file is there. *)
LEMMA RemovalKeepsIInv ==
    ASSUME IInv, TypeOK', NEW p \in Procs, NEW t \in Tracks,
           RemoveTrack(p, t) \/ RemovalFails(p, t)
    PROVE  IInv'
<1>1. /\ phase[p] = "reconcile" /\ t \in removing[p]
      /\ UNCHANGED <<tracks, snapshot, parts, lock, phase, cfg, current, job>>
  BY DEF RemoveTrack, RemovalFails, rows
<1>2. /\ removing'[p] = removing[p] \ {t}
      /\ pending'[p] = pending[p] \/ pending'[p] = pending[p] \cup {t}
      /\ \A q \in Procs : q # p => removing'[q] = removing[q] /\ pending'[q] = pending[q]
  BY DEF IInv, TypeOK, RemoveTrack, RemovalFails
<1>3. \A f \in Paths : disk'[f] = disk[f] \/ (f = tracks[t].path /\ disk'[f] = "none")
  BY DEF IInv, TypeOK, RemoveTrack, RemovalFails
<1>4. t \in Removed(snapshot, current[p]) /\ cfg[p].policy # "keep"
  BY <1>1 DEF IInv, RemovalsFromDiff
<1>5. \A q \in Procs : phase[q] # "idle" => q = p
  BY <1>1, OthersIdle
<1>6. OneCycleAtATime' /\ JobsMatchListing' /\ NoLateWorkers' /\ PartsAreLive' /\ RecordedPaths'
  BY <1>1 DEF IInv, OneCycleAtATime, JobsMatchListing, NoLateWorkers, JobsEnded, PartsAreLive,
              RecordedPaths
<1>7. LocalsReset'
  BY <1>1, <1>2 DEF IInv, LocalsReset
<1>9. ASSUME DistinctPaths
      PROVE  \A q \in Procs, u \in Tracks : job[q][u] \in {"written", "downloaded"} =>
          q = p /\ disk'[Dest(p, u)] = disk[Dest(p, u)]
  <2> SUFFICES ASSUME NEW q \in Procs, NEW u \in Tracks, job[q][u] \in {"written", "downloaded"}
               PROVE  q = p /\ disk'[Dest(p, u)] = disk[Dest(p, u)]
    OBVIOUS
  <2>1. q = p
    BY <1>1, OthersIdle, NothingListed
  <2>2. u \in Listed(current[p])
    BY <2>1 DEF IInv, JobsMatchListing
  <2>3. u # t
    BY <2>2, <1>4 DEF Removed
  <2>4. tracks[t].path # Dest(p, u) /\ Dest(p, u) \in Paths
    BY <1>1, <1>9, <2>3, NoPathIsNoFile, DestIsFile DEF DistinctPaths, IInv, RecordedPaths
  <2>5. QED BY <2>1, <2>4, <1>3
<1>10. FilesAsRecorded'
  BY <1>1, <1>9 DEF IInv, FilesAsRecorded, WrittenIsTagged, DownloadedIsRecorded, Dest
<1>11. RemovalsFromDiff'
  BY <1>1, <1>2, <1>4, <1>5 DEF IInv, RemovalsFromDiff
<1>12. EveryRemovalHandled'
  <2> SUFFICES ASSUME NEW u \in Removed(snapshot, current[p])
               PROVE  \/ u \in removing'[p] \cup pending'[p]
                      \/ tracks[u].path = NoPath
                      \/ disk'[tracks[u].path] = "none"
    BY <1>1, <1>5 DEF EveryRemovalHandled
  <2>1. \/ u \in removing[p] \cup pending[p]
        \/ tracks[u].path = NoPath
        \/ disk[tracks[u].path] = "none"
    BY <1>1, <1>4 DEF IInv, EveryRemovalHandled
  <2>2. u \in Tracks /\ tracks[u].path \in Paths \cup {NoPath}
    BY DEF IInv, TypeOK, Row, Removed, Listed
  <2>3. CASE u = t
    <3>1. CASE RemoveTrack(p, t)
      BY <2>2, <2>3, <3>1 DEF RemoveTrack
    <3>2. CASE RemovalFails(p, t)
      BY <2>3, <3>2, <1>1 DEF RemovalFails, IInv, TypeOK
    <3>3. QED BY <3>1, <3>2
  <2>4. CASE u # t
    BY <2>1, <2>2, <2>4, <1>2, <1>3
  <2>5. QED BY <2>3, <2>4
<1>13. QED BY <1>6, <1>7, <1>10, <1>11, <1>12 DEF IInv

(* Reconcile returns when no removed track is left to handle. *)
LEMMA EndReconcileKeepsIInv ==
    ASSUME IInv, TypeOK', NEW p \in Procs, EndReconcile(p)
    PROVE  IInv'
<1> USE DEF EndReconcile, durable, rows, run
<1>1. (\A q \in Procs : phase'[q] # "idle" => q = p) /\ phase'[p] = "persist"
  BY OnlyOneActive
<1>2. OneCycleAtATime' /\ LocalsReset'
  BY <1>1, OthersIdle DEF IInv, OneCycleAtATime, LocalsReset
<1>3. JobsMatchListing' /\ RecordedPaths' /\ FilesAsRecorded'
  BY DEF IInv, JobsMatchListing, RecordedPaths, FilesAsRecorded, WrittenIsTagged, DownloadedIsRecorded, Dest
<1>4. NoLateWorkers' /\ PartsAreLive'
  BY <1>1 DEF IInv, NoLateWorkers, JobsEnded, PartsAreLive
<1>5. RemovalsFromDiff' /\ EveryRemovalHandled'
  BY <1>1 DEF IInv, RemovalsFromDiff, EveryRemovalHandled
<1>6. QED BY <1>2, <1>3, <1>4, <1>5 DEF IInv

(* ReplaceSnapshot changes the snapshot after the last use of the difference. *)
LEMMA PersistKeepsIInv ==
    ASSUME IInv, TypeOK', NEW p \in Procs, Persist(p)
    PROVE  IInv'
<1> USE DEF Persist, run, rows
<1>1. (\A q \in Procs : phase'[q] # "idle" => q = p) /\ phase'[p] = "export"
  BY OnlyOneActive
<1>2. OneCycleAtATime' /\ LocalsReset'
  BY <1>1, OthersIdle DEF IInv, OneCycleAtATime, LocalsReset
<1>3. JobsMatchListing' /\ RecordedPaths' /\ FilesAsRecorded'
  BY DEF IInv, JobsMatchListing, RecordedPaths, FilesAsRecorded, WrittenIsTagged, DownloadedIsRecorded, Dest
<1>4. NoLateWorkers' /\ PartsAreLive'
  BY <1>1 DEF IInv, NoLateWorkers, JobsEnded, PartsAreLive
<1>5. RemovalsFromDiff' /\ EveryRemovalHandled'
  BY <1>1 DEF RemovalsFromDiff, EveryRemovalHandled
<1>6. QED BY <1>2, <1>3, <1>4, <1>5 DEF IInv

(* The user's edits, a signal and stuttering touch nothing the invariant reads. *)
LEMMA QuietStepKeepsIInv ==
    ASSUME IInv, TypeOK',
           UNCHANGED <<tracks, snapshot, disk, parts, lock, phase, cfg, current, job, removing,
                       pending>>
    PROVE  IInv'
<1>1. OneCycleAtATime' /\ LocalsReset' /\ JobsMatchListing' /\ NoLateWorkers' /\ PartsAreLive'
  BY DEF IInv, OneCycleAtATime, LocalsReset, JobsMatchListing, NoLateWorkers, JobsEnded,
         PartsAreLive
<1>2. RecordedPaths' /\ FilesAsRecorded'
  BY DEF IInv, RecordedPaths, FilesAsRecorded, WrittenIsTagged, DownloadedIsRecorded, Dest
<1>3. RemovalsFromDiff' /\ EveryRemovalHandled'
  BY DEF IInv, RemovalsFromDiff, EveryRemovalHandled
<1>4. QED BY <1>1, <1>2, <1>3 DEF IInv

(* The invariant is inductive: one case per action of Next. *)
LEMMA IInvStep ==
    IInv /\ [Next]_vars => IInv'
<1> SUFFICES ASSUME IInv, [Next]_vars PROVE IInv'
  OBVIOUS
<1>0. TypeOK'
  BY TypeStep DEF IInv
<1>1. ASSUME NEW t \in Tracks, NEW sources \in Listings, SetFavorite(t, sources) PROVE IInv'
  BY <1>0, <1>1, QuietStepKeepsIInv DEF SetFavorite, durable, rows, run
<1>2. ASSUME NEW p \in Procs, Acquire(p) PROVE IInv'
  BY <1>0, <1>2, AcquireKeepsIInv
<1>3. ASSUME NEW p \in Procs, NEW t \in Tracks, TrackStep(p, t) \/ FailTransiently(p, t)
                                                \/ TimeOut(p, t) \/ RemovalFails(p, t)
      PROVE IInv'
  BY <1>0, <1>3, WorkerStep, RemovalKeepsIInv DEF TrackStep
<1>4. ASSUME NEW p \in Procs,
             Sweep(p) \/ Enumerate(p) \/ Diff(p) \/ EndReconcile(p) \/ Persist(p)
      PROVE IInv'
  BY <1>0, <1>4, SweepKeepsIInv, EnumerateKeepsIInv, DiffKeepsIInv, EndReconcileKeepsIInv,
     PersistKeepsIInv
<1>5. ASSUME NEW p \in Procs,
             Export(p) \/ ReturnCancelled(p) \/ SweepFails(p) \/ Abort(p) \/ Crash(p)
      PROVE IInv'
  <2>1. phase[p] # "idle" /\ Leave(p) /\ UNCHANGED tracks
    BY <1>5 DEF Export, ReturnCancelled, SweepFails, Abort, Crash, durable, rows
  <2>2. QED BY <2>1, <1>0, LeaveKeepsIInv
<1>6. ASSUME NEW p \in Procs, Cancel(p) PROVE IInv'
  BY <1>0, <1>6, QuietStepKeepsIInv DEF Cancel, durable, rows
<1>7. CASE UNCHANGED vars
  BY <1>0, <1>7, QuietStepKeepsIInv DEF vars, durable, rows, run
<1>8. QED
  BY <1>1, <1>2, <1>3, <1>4, <1>5, <1>6, <1>7 DEF Next, CycleStep, Faulty

(* The empty library satisfies the invariant. *)
LEMMA InitIInv == Init => IInv
<1> SUFFICES ASSUME Init PROVE IInv
  OBVIOUS
<1>1. TypeOK
  BY RowsAreRows, MaxFaultsIsNat
  DEF Init, TypeOK, Phases, Membership, Nothing, NoJobs, Stages, FileStates, Unnamed
<1>2. RecordedPaths
  BY DEF Init, RecordedPaths, NoRow
<1>3. \A q \in Procs : /\ phase[q] = "idle"
                       /\ current[q] = Nothing /\ job[q] = NoJobs
                       /\ removing[q] = {} /\ pending[q] = {}
  BY DEF Init
<1>4. OneCycleAtATime /\ LocalsReset /\ NoLateWorkers /\ PartsAreLive
      /\ RemovalsFromDiff /\ EveryRemovalHandled
  BY <1>3 DEF OneCycleAtATime, LocalsReset, NoLateWorkers, PartsAreLive, RemovalsFromDiff,
              EveryRemovalHandled
<1>5. JobsMatchListing /\ FilesAsRecorded
  BY <1>3, NothingListed DEF JobsMatchListing, FilesAsRecorded,
                             WrittenIsTagged, DownloadedIsRecorded
<1>6. QED BY <1>1, <1>2, <1>4, <1>5 DEF IInv

(***************************************************************************)
(* What every behavior satisfies.                                          *)
(***************************************************************************)
(* The inductive invariant holds of a cycle of any process at any time. *)
THEOREM Invariance == Spec => []IInv
<1>1. Init => IInv
  BY InitIInv
<1>2. IInv /\ [Next]_vars => IInv'
  BY IInvStep
<1>3. QED BY <1>1, <1>2, PTL DEF Spec

(* TryAcquire's flock keeps cycles apart: at most one process is past it. *)
THEOREM MutualExclusion == Spec => []OneCycleAtATime
<1>1. IInv => OneCycleAtATime
  BY DEF IInv
<1>2. QED BY <1>1, Invariance, PTL

(* No .part is left to the end of a cycle, and none is swept from under a live
   worker of writeAtomic. *)
THEOREM PartialFiles == Spec => []PartsAreLive
<1>1. IInv => PartsAreLive
  BY DEF IInv
<1>2. QED BY <1>1, Invariance, PTL

(* Where the path template tells tracks apart, a track counted as downloaded has
   its row, and its row a tagged file. *)
THEOREM DownloadsRecorded ==
    ASSUME DistinctPaths
    PROVE  Spec => []DownloadedIsRecorded
<1>1. IInv => DownloadedIsRecorded
  BY DistinctPaths DEF IInv, FilesAsRecorded
<1>2. QED BY <1>1, Invariance, PTL

(* Only Reconcile's two outcomes take a file away. *)
LEMMA OnlyRemovalsUnlink ==
    ASSUME IInv, [Next]_vars, NEW f \in Paths, LeavesDisk(f)
    PROVE  \E p \in Procs, t \in Tracks :
              (RemoveTrack(p, t) \/ RemovalFails(p, t)) /\ tracks[t].path = f
<1>1. disk' # disk
  BY DEF LeavesDisk
<1>2. ASSUME NEW t \in Tracks, NEW x \in FileStates \ {"none"},
             NEW f0, disk' = [disk EXCEPT ![f0] = x]
      PROVE  FALSE
  BY <1>2 DEF LeavesDisk, IInv, TypeOK
<1>3. ASSUME NEW p \in Procs, NEW t \in Tracks,
             CommitFile(p, t) \/ BeginTag(p, t) \/ EndTag(p, t)
      PROVE  FALSE
  BY <1>3, <1>2 DEF CommitFile, BeginTag, EndTag, FileStates
<1>4. PICK p \in Procs, t \in Tracks : RemoveTrack(p, t) \/ RemovalFails(p, t)
  <2>1. ASSUME NEW p \in Procs, NEW t \in Tracks,
               \/ SkipTrack(p, t) \/ BeginDownload(p, t) \/ OpenPart(p, t) \/ RecordDone(p, t)
               \/ FailPermanently(p, t) \/ DropTrack(p, t) \/ FailTransiently(p, t)
               \/ TimeOut(p, t)
        PROVE  FALSE
    BY <1>1, <2>1 DEF SkipTrack, BeginDownload, OpenPart, RecordDone, FailPermanently, DropTrack,
                      FailTransiently, TimeOut, durable, rows
  <2>2. ASSUME NEW p \in Procs,
               \/ Acquire(p) \/ Sweep(p) \/ Enumerate(p) \/ Diff(p) \/ EndReconcile(p)
               \/ Persist(p) \/ Export(p) \/ ReturnCancelled(p) \/ SweepFails(p) \/ Abort(p)
               \/ Cancel(p) \/ Crash(p)
        PROVE  FALSE
    BY <1>1, <2>2 DEF Acquire, Sweep, Enumerate, Diff, EndReconcile, Persist, Export,
                      ReturnCancelled, SweepFails, Abort, Cancel, Crash, durable, rows
  <2>3. ASSUME NEW t \in Tracks, NEW sources \in Listings, SetFavorite(t, sources) PROVE FALSE
    BY <1>1, <2>3 DEF SetFavorite, durable, rows
  <2>4. ~UNCHANGED vars
    BY <1>1 DEF vars, durable, rows
  <2>5. QED BY <1>3, <2>1, <2>2, <2>3, <2>4 DEF Next, CycleStep, TrackStep, Faulty
<1>5. tracks[t].path = f
  BY <1>4 DEF RemoveTrack, RemovalFails, LeavesDisk, IInv, TypeOK
<1>6. QED BY <1>4, <1>5

(* A track Reconcile still has to handle is of the stored snapshot, is not
   among the cycle's favorites, and is there because the policy says so. *)
LEMMA HandledIsInDiff ==
    ASSUME IInv, NEW p \in Procs, phase[p] = "reconcile", NEW t \in removing[p]
    PROVE  /\ lock = p /\ cfg[p].policy \in {"mirror", "trash"}
           /\ t \in Listed(snapshot) /\ t \notin Listed(current[p])
<1>1. lock = p
  BY DEF IInv, OneCycleAtATime
<1>2. cfg[p].policy \in {"mirror", "trash"}
  BY PoliciesAreKnown DEF IInv, RemovalsFromDiff, LocalsReset, Config
<1>3. t \in Listed(snapshot) /\ t \notin Listed(current[p])
  BY DEF IInv, RemovalsFromDiff, Removed
<1>4. QED BY <1>1, <1>2, <1>3

(* applyPolicy acts only on tracks of the stored snapshot the cycle did not
   enumerate, and never under keep. *)
THEOREM JustifiedRemovals == Spec => RemovalIsJustified
<1>1. IInv /\ [Next]_vars => RemovesOnlyDiff
  <2> SUFFICES ASSUME IInv, [Next]_vars, NEW f \in Paths, LeavesDisk(f)
               PROVE  \E p \in Procs, t \in Tracks :
                         /\ lock = p
                         /\ cfg[p].policy \in {"mirror", "trash"}
                         /\ tracks[t].path = f
                         /\ t \in Listed(snapshot) /\ t \notin Listed(current[p])
    BY DEF RemovesOnlyDiff
  <2>1. PICK p \in Procs, t \in Tracks :
           (RemoveTrack(p, t) \/ RemovalFails(p, t)) /\ tracks[t].path = f
    BY OnlyRemovalsUnlink
  <2>2. phase[p] = "reconcile" /\ t \in removing[p]
    BY <2>1 DEF RemoveTrack, RemovalFails
  <2>3. QED BY <2>1, <2>2, HandledIsInDiff
<1>2. QED BY <1>1, Invariance, PTL DEF Spec, RemovalIsJustified

(* ReplaceSnapshot is the only writer of the snapshot. *)
LEMMA OnlyPersistAdvances ==
    ASSUME [Next]_vars, snapshot' # snapshot
    PROVE  \E p \in Procs : Persist(p)
<1>1. ASSUME NEW p \in Procs, NEW t \in Tracks,
             TrackStep(p, t) \/ FailTransiently(p, t) \/ TimeOut(p, t) \/ RemovalFails(p, t)
      PROVE  FALSE
  BY <1>1 DEF TrackStep, SkipTrack, BeginDownload, OpenPart, CommitFile, BeginTag, EndTag,
              RecordDone, FailPermanently, FailTransiently, TimeOut, DropTrack, RemoveTrack,
              RemovalFails, durable, rows
<1>2. ASSUME NEW p \in Procs,
             \/ Acquire(p) \/ Sweep(p) \/ Enumerate(p) \/ Diff(p) \/ EndReconcile(p)
             \/ Export(p) \/ ReturnCancelled(p) \/ SweepFails(p) \/ Abort(p) \/ Cancel(p)
             \/ Crash(p)
      PROVE  FALSE
  BY <1>2 DEF Acquire, Sweep, Enumerate, Diff, EndReconcile, Export, ReturnCancelled, SweepFails,
              Abort, Cancel, Crash, durable, rows
<1>3. ASSUME NEW t \in Tracks, NEW sources \in Listings, SetFavorite(t, sources) PROVE FALSE
  BY <1>3 DEF SetFavorite, durable, rows
<1>4. ~UNCHANGED vars
  BY DEF vars, durable, rows
<1>5. QED BY <1>1, <1>2, <1>3, <1>4 DEF Next, CycleStep, Faulty

(* MarkTrack records the path it is given and MarkFailed keeps the one it finds. *)
LEMMA FiledStep ==
    IInv /\ FiledIsRecorded /\ [Next]_vars => FiledIsRecorded'
<1> SUFFICES ASSUME IInv, FiledIsRecorded, [Next]_vars PROVE FiledIsRecorded'
  OBVIOUS
<1>1. CASE UNCHANGED <<tracks, filed>>
  BY <1>1 DEF FiledIsRecorded
<1>2. ASSUME NEW p \in Procs, NEW t \in Tracks, RecordDone(p, t) PROVE FiledIsRecorded'
  <2>1. /\ tracks' = [tracks EXCEPT ![t] = DoneRow(Dest(p, t), cfg[p].tier)]
        /\ filed' = [filed EXCEPT ![t] = Dest(p, t)]
    BY <1>2 DEF RecordDone
  <2>2. DoneRow(Dest(p, t), cfg[p].tier).path = Dest(p, t)
    BY DEF DoneRow
  <2>3. QED BY <2>1, <2>2 DEF FiledIsRecorded, IInv, TypeOK
<1>3. ASSUME NEW p \in Procs, NEW t \in Tracks, FailPermanently(p, t) \/ FailTransiently(p, t)
      PROVE  FiledIsRecorded'
  <2>1. /\ filed' = filed
        /\ \/ tracks' = tracks
           \/ \E b \in BOOLEAN : tracks' = [tracks EXCEPT ![t] = FailedRow(tracks[t], cfg[p].tier, b)]
    BY <1>3 DEF FailPermanently, FailTransiently
  <2>2. tracks[t] \in Row /\ cfg[p].tier \in Ranks
    BY ConfiguredTier DEF IInv, TypeOK
  <2>3. \A b \in BOOLEAN : FailedRow(tracks[t], cfg[p].tier, b).path = tracks[t].path
    BY <2>2, FailedKeepsPath
  <2>4. \A u \in Tracks : tracks'[u].path = tracks[u].path
    BY <2>1, <2>3 DEF IInv, TypeOK
  <2>5. QED BY <2>1, <2>4 DEF FiledIsRecorded
<1>4. ASSUME NEW p \in Procs, NEW t \in Tracks,
             TrackStep(p, t) \/ FailTransiently(p, t) \/ TimeOut(p, t) \/ RemovalFails(p, t)
      PROVE  FiledIsRecorded'
  <2>1. ASSUME \/ SkipTrack(p, t) \/ BeginDownload(p, t) \/ OpenPart(p, t) \/ CommitFile(p, t)
               \/ BeginTag(p, t) \/ EndTag(p, t) \/ TimeOut(p, t) \/ DropTrack(p, t)
               \/ RemoveTrack(p, t) \/ RemovalFails(p, t)
        PROVE  UNCHANGED rows
    BY <2>1 DEF SkipTrack, BeginDownload, OpenPart, CommitFile, BeginTag, EndTag, TimeOut,
                DropTrack, RemoveTrack, RemovalFails, durable
  <2>2. CASE UNCHANGED rows
    BY <1>1, <2>2 DEF rows
  <2>3. QED BY <1>2, <1>3, <1>4, <2>1, <2>2 DEF TrackStep
<1>5. ASSUME NEW p \in Procs,
             \/ Acquire(p) \/ Sweep(p) \/ Enumerate(p) \/ Diff(p) \/ EndReconcile(p) \/ Persist(p)
             \/ Export(p) \/ ReturnCancelled(p) \/ SweepFails(p) \/ Abort(p) \/ Cancel(p)
             \/ Crash(p)
      PROVE  FiledIsRecorded'
  <2>1. UNCHANGED rows
    BY <1>5 DEF Acquire, Sweep, Enumerate, Diff, EndReconcile, Persist, Export, ReturnCancelled,
                SweepFails, Abort, Cancel, Crash, durable
  <2>2. QED BY <1>1, <2>1 DEF rows
<1>6. ASSUME NEW t \in Tracks, NEW sources \in Listings, SetFavorite(t, sources)
      PROVE  FiledIsRecorded'
  BY <1>1, <1>6 DEF SetFavorite, durable, rows
<1>7. CASE UNCHANGED vars
  BY <1>1, <1>7 DEF vars, durable, rows
<1>8. QED
  BY <1>4, <1>5, <1>6, <1>7 DEF Next, CycleStep, Faulty

(* No failed removal is forgotten: under mirror and trash a track leaves the
   snapshot only when nothing is where its last download was recorded, also when
   later attempts at it failed. *)
THEOREM NothingForgotten == Spec => NeverForgotten
<1>1. Init => FiledIsRecorded
  <2> SUFFICES ASSUME Init, NEW t \in Tracks PROVE tracks[t].path = filed[t]
    BY DEF FiledIsRecorded
  <2>1. tracks[t] = NoRow /\ filed[t] = NoPath
    BY DEF Init, Unnamed
  <2>2. QED BY <2>1 DEF NoRow
<1>2. Spec => []FiledIsRecorded
  BY <1>1, FiledStep, Invariance, PTL DEF Spec
<1>3. IInv /\ FiledIsRecorded /\ [Next]_vars => ForgetsOnlyGone
  <2> SUFFICES ASSUME IInv, FiledIsRecorded, [Next]_vars, NEW t \in Tracks,
                      snapshot[t] # "absent", snapshot'[t] = "absent", filed[t] # NoPath
               PROVE  \/ disk[filed[t]] = "none"
                      \/ \E p \in Procs : lock = p /\ cfg[p].policy = "keep"
    BY DEF ForgetsOnlyGone
  <2>1. PICK p \in Procs : Persist(p)
    BY OnlyPersistAdvances
  <2>2. lock = p /\ phase[p] = "persist" /\ removing[p] = {}
    BY <2>1 DEF Persist, IInv, OneCycleAtATime, LocalsReset
  <2>3. t \notin pending[p] /\ current[p][t] = "absent"
    BY <2>1 DEF Persist, NextSnapshot
  <2>4. t \in Removed(snapshot, current[p])
    BY <2>3 DEF Removed, Listed
  <2>5. CASE cfg[p].policy = "keep"
    BY <2>2, <2>5
  <2>6. CASE cfg[p].policy # "keep"
    <3>1. tracks[t].path = NoPath \/ disk[tracks[t].path] = "none"
      BY <2>2, <2>3, <2>4, <2>6 DEF IInv, EveryRemovalHandled
    <3>2. QED BY <3>1 DEF FiledIsRecorded
  <2>7. QED BY <2>5, <2>6
<1>4. QED BY <1>2, <1>3, Invariance, PTL DEF Spec, NeverForgotten

(* Within a cycle a cancelled context stays cancelled. *)
LEMMA DropStep ==
    IInv /\ DroppedIfCancelled /\ [Next]_vars => DroppedIfCancelled'
<1> SUFFICES ASSUME IInv, DroppedIfCancelled, [Next]_vars, NEW q \in Procs, NEW u \in Tracks,
                    job'[q][u] = "dropped"
             PROVE  cancelled'[q]
  BY DEF DroppedIfCancelled
<1>1. CASE job' = job /\ cancelled' = cancelled
  BY <1>1 DEF DroppedIfCancelled
<1>2. ASSUME NEW p \in Procs, Leave(p) PROVE cancelled'[q]
  <2>1. q # p
    BY <1>2 DEF Leave, NoJobs, IInv, TypeOK
  <2>2. job'[q] = job[q] /\ cancelled'[q] = cancelled[q]
    BY <1>2, <2>1 DEF Leave, IInv, TypeOK
  <2>3. QED BY <2>2 DEF DroppedIfCancelled
<1>3. ASSUME NEW p \in Procs, NEW t \in Tracks, NEW s \in Stages, Move(p, t, s),
             s = "dropped" => cancelled[p], cancelled' = cancelled
      PROVE  cancelled'[q]
  BY <1>3 DEF Move, IInv, TypeOK, DroppedIfCancelled
<1>4. ASSUME NEW p \in Procs, NEW t \in Tracks,
             TrackStep(p, t) \/ FailTransiently(p, t) \/ TimeOut(p, t)
      PROVE  cancelled'[q]
  BY <1>1, <1>3, <1>4
  DEF TrackStep, SkipTrack, BeginDownload, OpenPart, CommitFile, BeginTag, EndTag, RecordDone,
      FailPermanently, FailTransiently, TimeOut, DropTrack, RemoveTrack, Stages, InFlight, Ended
<1>5. ASSUME NEW p \in Procs, Enumerate(p) PROVE cancelled'[q]
  <2>1. q # p
    BY <1>5 DEF Enumerate, IInv, TypeOK
  <2>2. QED BY <1>5, <2>1 DEF Enumerate, IInv, TypeOK, DroppedIfCancelled
<1>6. ASSUME NEW p \in Procs, Cancel(p) PROVE cancelled'[q]
  BY <1>6 DEF Cancel, IInv, TypeOK, DroppedIfCancelled
<1>7. QED
  BY <1>1, <1>2, <1>4, <1>5, <1>6
  DEF Next, CycleStep, Faulty, vars, durable, rows, run, SetFavorite, Acquire, Sweep, SweepFails, Diff,
      RemovalFails, EndReconcile, Persist, Export, Abort, ReturnCancelled, Crash

(* The snapshot advances only over a cycle none of whose tracks was dropped or
   is still in a worker's hands. *)
THEOREM WholeSnapshots == Spec => SnapshotAdvancesWhole
<1>1. Init => DroppedIfCancelled
  BY DEF Init, DroppedIfCancelled, NoJobs
<1>2. Spec => []DroppedIfCancelled
  BY <1>1, DropStep, Invariance, PTL DEF Spec
<1>3. IInv /\ DroppedIfCancelled /\ [Next]_vars => AdvancesWhole
  <2> SUFFICES ASSUME IInv, DroppedIfCancelled, [Next]_vars, snapshot' # snapshot
               PROVE  \E p \in Procs :
                         /\ lock = p
                         /\ \A t \in Listed(current[p]) :
                               job[p][t] \in {"downloaded", "skipped", "failed", "timedout"}
    BY DEF AdvancesWhole
  <2>1. PICK p \in Procs : Persist(p)
    BY OnlyPersistAdvances
  <2>2. lock = p
    BY <2>1 DEF Persist, IInv, OneCycleAtATime
  <2>3. ASSUME NEW t \in Listed(current[p])
        PROVE  job[p][t] \in {"downloaded", "skipped", "failed", "timedout"}
    BY <2>1 DEF Persist, Listed, IInv, JobsMatchListing, NoLateWorkers, JobsEnded, Ended,
                DroppedIfCancelled
  <2>4. QED BY <2>2, <2>3
<1>4. QED BY <1>2, <1>3, Invariance, PTL DEF Spec, SnapshotAdvancesWhole
=============================================================================
