------------------------------ MODULE SyncCycle ------------------------------
(***************************************************************************)
(* One synchronization cycle of tidal-syncer, run by several processes     *)
(* (the daemon, a manual `sync`) that share a data directory and a music   *)
(* root, any number of times: flock, sweep, enumeration, the concurrent    *)
(* per-track pipeline, removal, the new snapshot, the exports (cmd/sync.go,*)
(* internal/sync, internal/store).  The user edits favorites and the       *)
(* configuration between any two steps; a process may be signalled, die,   *)
(* or see one of its steps fail, at most MaxFaults times.                  *)
(*                                                                         *)
(* Abstractions.  Enumeration reads the remote library in one step (the    *)
(* paging and the expansion cache are left to other modules).  A track is  *)
(* rendered alike throughout a cycle, and may be rendered elsewhere in the *)
(* next.  mirror and trash are alike here: the audio file leaves its path. *)
(* Jobs start in any order, not only by id.                                *)
(***************************************************************************)
EXTENDS TrackRecords, FiniteSets

CONSTANTS
    Procs,          \* processes that run cycles
    ManualProcs,    \* those started by hand: `sync`, perhaps with --retry-failed
    Nobody,         \* the lock's holder when it is free
    Namings,        \* what template and metadata render: functions of a track
    Policies,       \* removal.policy values the user chooses from
    Tiers,          \* quality.request ranks the user chooses from
    Scopes,         \* scope values, as sets of sources
    Concurrency,    \* the concurrency setting
    Listings,       \* sets of sources a track may be wanted through
    FaultKinds,     \* subset of {"job", "timeout", "removal", "cycle", "cancel", "crash"}
    MaxFaults       \* bound: faults injected in one behavior

Sources == {"tracks", "collections"}

ASSUME NobodyIsNoProc == Nobody \notin Procs
ASSUME ManualProcsAreProcs == ManualProcs \subseteq Procs
ASSUME NamingsAreFiles == Namings \subseteq [Tracks -> Paths]
ASSUME PoliciesAreKnown == Policies \subseteq {"keep", "mirror", "trash"}
ASSUME TiersAreRanks == Tiers \subseteq 1 .. MaxTier
ASSUME ScopesAreSources == Scopes \subseteq SUBSET Sources
ASSUME ListingsAreSources == Listings \subseteq SUBSET Sources
ASSUME ConcurrencyIsNat == Concurrency \in Nat
ASSUME MaxFaultsIsNat == MaxFaults \in Nat

(* Two tracks never render to the same file, not even in different cycles. *)
DistinctPaths ==
    \A m, n \in Namings : \A s, t \in Tracks : m[s] = n[t] => s = t

VARIABLES
    remote,     \* remote[t]: the sources through which t is wanted
    tracks,     \* tracks[t]: its row
    filed,      \* filed[t]: where t's last download was recorded; no code reads it
    snapshot,   \* the favorites_snapshot rows of kind "tracks"
    disk,       \* disk[f]: the audio file at path f
    parts,      \* tracks whose .part file lies in the music root
    lock,       \* holder of the flock in the data directory
    phase,      \* phase[p]: where p's runSync stands
    cfg,        \* cfg[p]: the configuration p's cycle loaded
    current,    \* current[p]: the favorites p's cycle enumerated
    job,        \* job[p][t]: where p's worker for t stands
    removing,   \* removing[p]: removed tracks still to be handled
    pending,    \* pending[p]: removals that failed in this cycle
    cancelled,  \* cancelled[p]: p's context is cancelled
    faults      \* faults injected so far

rows == <<tracks, filed>>
durable == <<rows, snapshot, disk, parts>>
run == <<cfg, current, job, removing, pending, cancelled>>
vars == <<remote, durable, lock, phase, run, faults>>

(* "raw": renamed into place, not yet tagged; "torn": being tagged in place. *)
FileStates == {"none", "raw", "torn", "tagged"}
Phases == {"idle", "sweep", "enumerate", "download", "reconcile", "persist", "export"}
Ended == {"downloaded", "skipped", "failed", "timedout", "dropped"}
InFlight == {"fetching", "writing", "placed", "tagging", "written"}
Stages == {"off", "queued"} \cup InFlight \cup Ended

(* The configuration and, with it, what a track's path is rendered to. *)
Config == [policy : Policies, tier : Tiers, scope : Scopes, retry : BOOLEAN,
           naming : Namings]
Unnamed == [t \in Tracks |-> NoPath]
ZeroConfig == [policy |-> "", tier |-> 0, scope |-> {}, retry |-> FALSE, naming |-> Unnamed]
Nothing == [t \in Tracks |-> "absent"]
NoJobs == [t \in Tracks |-> "off"]

TypeOK ==
    /\ remote \in [Tracks -> SUBSET Sources]
    /\ tracks \in [Tracks -> Row]
    /\ filed \in [Tracks -> Paths \cup {NoPath}]
    /\ snapshot \in [Tracks -> Membership]
    /\ disk \in [Paths -> FileStates]
    /\ parts \subseteq Tracks
    /\ lock \in Procs \cup {Nobody}
    /\ phase \in [Procs -> Phases]
    /\ cfg \in [Procs -> Config \cup {ZeroConfig}]
    /\ current \in [Procs -> [Tracks -> Membership]]
    /\ job \in [Procs -> [Tracks -> Stages]]
    /\ removing \in [Procs -> SUBSET Tracks]
    /\ pending \in [Procs -> SUBSET Tracks]
    /\ cancelled \in [Procs -> BOOLEAN]
    /\ faults \in 0 .. MaxFaults

Init ==
    /\ remote = [t \in Tracks |-> {}]
    /\ tracks = [t \in Tracks |-> NoRow]
    /\ filed = Unnamed
    /\ snapshot = Nothing
    /\ disk = [f \in Paths |-> "none"]
    /\ parts = {}
    /\ lock = Nobody
    /\ phase = [p \in Procs |-> "idle"]
    /\ cfg = [p \in Procs |-> ZeroConfig]
    /\ current = [p \in Procs |-> Nothing]
    /\ job = [p \in Procs |-> NoJobs]
    /\ removing = [p \in Procs |-> {}]
    /\ pending = [p \in Procs |-> {}]
    /\ cancelled = [p \in Procs |-> FALSE]
    /\ faults = 0

(***************************************************************************)
(* Faults and the way out of a cycle.                                      *)
(***************************************************************************)
Fault(kind) ==
    /\ kind \in FaultKinds
    /\ faults < MaxFaults
    /\ faults' = faults + 1

(* The deferred release and the end of the process's (or tick's) context:
   nothing of the run survives it but the durable state. *)
Leave(p) ==
    /\ lock' = Nobody
    /\ phase' = [phase EXCEPT ![p] = "idle"]
    /\ cfg' = [cfg EXCEPT ![p] = ZeroConfig]
    /\ current' = [current EXCEPT ![p] = Nothing]
    /\ job' = [job EXCEPT ![p] = NoJobs]
    /\ removing' = [removing EXCEPT ![p] = {}]
    /\ pending' = [pending EXCEPT ![p] = {}]
    /\ cancelled' = [cancelled EXCEPT ![p] = FALSE]

(* The user (un)favorites tracks, albums or playlists at any time. *)
SetFavorite(t, sources) ==
    /\ remote' = [remote EXCEPT ![t] = sources]
    /\ UNCHANGED <<durable, lock, phase, run, faults>>

(***************************************************************************)
(* runSync up to the enumeration.                                          *)
(***************************************************************************)
(* The flock is exclusive and asked for without blocking. *)
SharedAcquire(p) == lock' = p
TryAcquire(p) == lock = Nobody /\ lock' = p

(* config.Load, then TryAcquire; a held lock ends the run before it does
   anything (errAnotherSyncRunning). *)
Acquire(p) ==
    /\ phase[p] = "idle"
    /\ TryAcquire(p)
    /\ \E c \in Config :
          /\ c.retry => p \in ManualProcs
          /\ cfg' = [cfg EXCEPT ![p] = c]
    /\ phase' = [phase EXCEPT ![p] = "sweep"]
    /\ UNCHANGED <<remote, durable, current, job, removing, pending, cancelled, faults>>

(* Mutant: the sweep runs before the lock is asked for. *)
SweepUnlocked(p) ==
    /\ phase[p] \in {"idle", "sweep"}
    /\ parts' = {}
    /\ phase' = [phase EXCEPT ![p] = IF @ = "idle" THEN @ ELSE "enumerate"]
    /\ UNCHANGED <<remote, rows, snapshot, disk, lock, run, faults>>

(* SweepStale removes every .part below the music root. *)
Sweep(p) ==
    /\ phase[p] = "sweep"
    /\ parts' = {}
    /\ phase' = [phase EXCEPT ![p] = "enumerate"]
    /\ UNCHANGED <<remote, rows, snapshot, disk, lock, run, faults>>

(* A .part that cannot be removed, or a directory that cannot be read, aborts
   the cycle with some of them gone. *)
SweepFails(p) ==
    /\ phase[p] = "sweep"
    /\ \E gone \in SUBSET parts : parts' = parts \ gone
    /\ Fault("cycle")
    /\ Leave(p)
    /\ UNCHANGED <<remote, rows, snapshot, disk>>

(* enumerate under the scope: favorite tracks carry a date, tracks reached only
   through a favorited album or playlist do not. *)
Enumerated(scope) ==
    [t \in Tracks |-> CASE "tracks" \in remote[t] \cap scope -> "dated"
                        [] remote[t] \cap scope = {"collections"} -> "undated"
                        [] OTHER -> "absent"]

(* UserID, enumerate, and downloadAll handing every track to the errgroup. *)
Enumerate(p) ==
    /\ phase[p] = "enumerate"
    /\ ~cancelled[p]
    /\ LET listing == Enumerated(cfg[p].scope) IN
          /\ current' = [current EXCEPT ![p] = listing]
          /\ job' = [job EXCEPT ![p] =
                [t \in Tracks |-> IF t \in Listed(listing) THEN "queued" ELSE "off"]]
    /\ phase' = [phase EXCEPT ![p] = "download"]
    /\ UNCHANGED <<remote, durable, lock, cfg, removing, pending, cancelled, faults>>

(***************************************************************************)
(* downloadAll and processTrack: the jobs of one cycle run concurrently.   *)
(***************************************************************************)
Move(p, t, stage) == job' = [job EXCEPT ![p][t] = stage]

JobAt(p, t, stages) == phase[p] = "download" /\ job[p][t] \in stages

(* The errgroup's limit: max(minWorkers, concurrency) goroutines. *)
Slots == IF Concurrency > 1 THEN Concurrency ELSE 1
LeakedSlotFree(p) ==
    Cardinality({t \in Tracks : job[p][t] \in InFlight \cup {"failed"}}) < Slots
SlotFree(p) == Cardinality({t \in Tracks : job[p][t] \in InFlight}) < Slots

SkipNow(p, t) == ShouldSkip(tracks[t], cfg[p].tier, cfg[p].retry)

SkipTrack(p, t) ==
    /\ JobAt(p, t, {"queued"})
    /\ SlotFree(p)
    /\ ~cancelled[p]
    /\ SkipNow(p, t)
    /\ Move(p, t, "skipped")
    /\ UNCHANGED <<remote, durable, lock, phase, cfg, current, removing, pending, cancelled, faults>>

BeginDownload(p, t) ==
    /\ JobAt(p, t, {"queued"})
    /\ SlotFree(p)
    /\ ~cancelled[p]
    /\ ~SkipNow(p, t)
    /\ Move(p, t, "fetching")
    /\ UNCHANGED <<remote, durable, lock, phase, cfg, current, removing, pending, cancelled, faults>>

(* writeAtomic's deferred removal of an uncommitted partial file; its error is
   ignored. *)
DiscardPart(t) == parts' = parts \ {t} \/ UNCHANGED parts

(* downloadOne's dest. *)
Dest(p, t) == cfg[p].naming[t]

(* writeAtomic: CreateTemp in the destination directory, then the body. *)
OpenPart(p, t) ==
    /\ JobAt(p, t, {"fetching"})
    /\ parts' = parts \cup {t}
    /\ Move(p, t, "writing")
    /\ UNCHANGED <<remote, rows, snapshot, disk, lock, phase, cfg, current, removing,
                   pending, cancelled, faults>>

(* writeAtomic: sync and rename over whatever is at the destination. *)
CommitFile(p, t) ==
    /\ JobAt(p, t, {"writing"})
    /\ parts' = parts \ {t}
    /\ disk' = [disk EXCEPT ![Dest(p, t)] = "raw"]
    /\ Move(p, t, "placed")
    /\ UNCHANGED <<remote, rows, snapshot, lock, phase, cfg, current, removing, pending,
                   cancelled, faults>>

(* IntegrityCheck passed; TagFile starts rewriting the file in place. *)
BeginTag(p, t) ==
    /\ JobAt(p, t, {"placed"})
    /\ disk' = [disk EXCEPT ![Dest(p, t)] = "torn"]
    /\ Move(p, t, "tagging")
    /\ UNCHANGED <<remote, rows, snapshot, parts, lock, phase, cfg, current, removing,
                   pending, cancelled, faults>>

EndTag(p, t) ==
    /\ JobAt(p, t, {"tagging"})
    /\ disk' = [disk EXCEPT ![Dest(p, t)] = "tagged"]
    /\ Move(p, t, "written")
    /\ UNCHANGED <<remote, rows, snapshot, parts, lock, phase, cfg, current, removing,
                   pending, cancelled, faults>>

(* A file is recorded only when its last tag and its sidecar are written. *)
RecordableEarly == {"tagging", "written"}
Recordable == {"written"}

(* Mutant: MarkTrack preserves a path it finds, as MarkFailed does. *)
RecordDoneInPlace(p, t) ==
    /\ JobAt(p, t, Recordable)
    /\ ~cancelled[p]
    /\ tracks' = [tracks EXCEPT
          ![t] = DoneRow(IF @.path = NoPath THEN Dest(p, t) ELSE @.path, cfg[p].tier)]
    /\ filed' = [filed EXCEPT ![t] = Dest(p, t)]
    /\ Move(p, t, "downloaded")
    /\ UNCHANGED <<remote, snapshot, disk, parts, lock, phase, cfg, current, removing,
                   pending, cancelled, faults>>

(* markDone; the statement runs under the cycle's context.  The file of an
   earlier download that was rendered elsewhere is no longer named by any row. *)
RecordDone(p, t) ==
    /\ JobAt(p, t, Recordable)
    /\ ~cancelled[p]
    /\ tracks' = [tracks EXCEPT ![t] = DoneRow(Dest(p, t), cfg[p].tier)]
    /\ filed' = [filed EXCEPT ![t] = Dest(p, t)]
    /\ Move(p, t, "downloaded")
    /\ UNCHANGED <<remote, snapshot, disk, parts, lock, phase, cfg, current, removing,
                   pending, cancelled, faults>>

(* The catalog's answer rules the track out at this tier: delisted, encrypted,
   below the floor (permanentFailure).  Known before any file is written; not
   recorded if the context was cancelled since the answer. *)
FailPermanently(p, t) ==
    /\ JobAt(p, t, {"fetching"})
    /\ \/ cancelled[p] /\ UNCHANGED tracks
       \/ /\ ~cancelled[p]
          /\ tracks' = [tracks EXCEPT ![t] = FailedRow(tracks[t], cfg[p].tier, TRUE)]
    /\ Move(p, t, "failed")
    /\ UNCHANGED <<remote, filed, snapshot, disk, parts, lock, phase, cfg, current, removing,
                   pending, cancelled, faults>>

(* Any other error of shouldSkip or downloadOne.  The partial file is removed;
   the row is written best effort, and cannot be once the context is gone. *)
FailTransiently(p, t) ==
    /\ JobAt(p, t, {"queued"} \cup InFlight)
    /\ job[p][t] = "queued" => SlotFree(p)
    /\ Fault("job")
    /\ DiscardPart(t)
    /\ \/ /\ ~cancelled[p]
          /\ tracks' = [tracks EXCEPT ![t] = FailedRow(tracks[t], cfg[p].tier, FALSE)]
       \/ UNCHANGED tracks
    /\ Move(p, t, "failed")
    /\ UNCHANGED <<remote, filed, snapshot, disk, lock, phase, cfg, current, removing, pending,
                   cancelled>>

(* A request for the album, the manifest or the stream runs into a timeout of
   its HTTP client, whose error is a context.DeadlineExceeded: markFailed takes
   it for a cancellation and neither counts nor records the track. *)
TimeOut(p, t) ==
    /\ JobAt(p, t, {"fetching", "writing"})
    /\ Fault("timeout")
    /\ DiscardPart(t)
    /\ Move(p, t, "timedout")
    /\ UNCHANGED <<remote, rows, snapshot, disk, lock, phase, cfg, current, removing,
                   pending, cancelled>>

(* A wait, a request or a statement returns context.Canceled: the job ends and
   is neither counted nor recorded. *)
DropTrack(p, t) ==
    /\ JobAt(p, t, {"queued", "fetching", "writing", "written"})
    /\ cancelled[p]
    /\ DiscardPart(t)
    /\ Move(p, t, "dropped")
    /\ UNCHANGED <<remote, rows, snapshot, disk, lock, phase, cfg, current, removing,
                   pending, cancelled, faults>>

(***************************************************************************)
(* executeSync after the downloads.                                        *)
(***************************************************************************)
JobsStarted(p) == \A t \in Tracks : job[p][t] # "queued"
JobsEnded(p) == \A t \in Tracks : job[p][t] \in Ended \cup {"off"}

(* What Reconcile is to handle: nothing under keep. *)
UnrecordedToo(p) ==
    IF cfg[p].policy = "keep" THEN {}
    ELSE {t \in Tracks : tracks[t].path # NoPath} \ Listed(current[p])
WhateverPolicy(p) == Removed(snapshot, current[p])
ToRemove(p) == IF cfg[p].policy = "keep" THEN {} ELSE Removed(snapshot, current[p])

(* SyncOnce returns, Reconcile diffs against the stored snapshot. *)
Diff(p) ==
    /\ phase[p] = "download"
    /\ JobsEnded(p)
    /\ ~cancelled[p]
    /\ removing' = [removing EXCEPT ![p] = ToRemove(p)]
    /\ phase' = [phase EXCEPT ![p] = "reconcile"]
    /\ UNCHANGED <<remote, durable, lock, cfg, current, job, pending, cancelled, faults>>

(* applyPolicy: a track without a recorded path is skipped, otherwise its file
   leaves the path; a file already gone is a success.  The row stays. *)
RemoveTrack(p, t) ==
    /\ phase[p] = "reconcile"
    /\ t \in removing[p]
    /\ ~cancelled[p]
    /\ removing' = [removing EXCEPT ![p] = @ \ {t}]
    /\ disk' = [f \in Paths |-> IF f = tracks[t].path THEN "none" ELSE disk[f]]
    /\ UNCHANGED <<remote, rows, snapshot, parts, lock, phase, cfg, current, job, pending,
                   cancelled, faults>>

(* The audio file or, with it gone, its sidecar cannot be removed: the track is
   handed back as pending. *)
RemovalFails(p, t) ==
    /\ phase[p] = "reconcile"
    /\ t \in removing[p]
    /\ ~cancelled[p]
    /\ tracks[t].path # NoPath
    /\ Fault("removal")
    /\ removing' = [removing EXCEPT ![p] = @ \ {t}]
    /\ pending' = [pending EXCEPT ![p] = @ \cup {t}]
    /\ \/ disk' = [disk EXCEPT ![tracks[t].path] = "none"]
       \/ UNCHANGED disk
    /\ UNCHANGED <<remote, rows, snapshot, parts, lock, phase, cfg, current, job, cancelled>>

EndReconcile(p) ==
    /\ phase[p] = "reconcile"
    /\ removing[p] = {}
    /\ phase' = [phase EXCEPT ![p] = "persist"]
    /\ UNCHANGED <<remote, durable, lock, run, faults>>

(* executeSync: the enumerated tracks and those whose removal is pending. *)
WithoutPending(p) == current[p]
NextSnapshot(p) == [t \in Tracks |-> IF t \in pending[p] THEN "undated" ELSE current[p][t]]

(* ReplaceSnapshot(current ++ pending) in one transaction.  The primary key
   (kind, tidal_id) rejects a track that is in both. *)
Persist(p) ==
    /\ phase[p] = "persist"
    /\ ~cancelled[p]
    /\ pending[p] \cap Listed(current[p]) = {}
    /\ snapshot' = NextSnapshot(p)
    /\ phase' = [phase EXCEPT ![p] = "export"]
    /\ UNCHANGED <<remote, rows, disk, parts, lock, run, faults>>

(* exportPlaylists and exportFavorites read the library; then runSync returns. *)
Export(p) ==
    /\ phase[p] = "export"
    /\ Leave(p)
    /\ UNCHANGED <<remote, durable, faults>>

(***************************************************************************)
(* Cycle-wide errors, cancellation and crashes.                            *)
(***************************************************************************)
(* A listing, the diff, a row lookup, the snapshot's transaction or an export
   returns an error and runSync returns it. *)
Abort(p) ==
    /\ phase[p] \in {"enumerate", "download", "reconcile", "persist", "export"}
    /\ phase[p] = "download" => JobsEnded(p)
    /\ Fault("cycle")
    /\ Leave(p)
    /\ UNCHANGED <<remote, durable>>

(* SIGINT or SIGTERM cancels the context of the daemon's running cycle; `sync`
   handles no signal, and dies of one. *)
Cancel(p) ==
    /\ p \notin ManualProcs
    /\ phase[p] # "idle"
    /\ ~cancelled[p]
    /\ Fault("cancel")
    /\ cancelled' = [cancelled EXCEPT ![p] = TRUE]
    /\ UNCHANGED <<remote, durable, lock, phase, cfg, current, job, removing, pending>>

(* The next request or statement under the cancelled context fails; downloadAll
   first waits for its workers. *)
ReturnCancelled(p) ==
    /\ cancelled[p]
    /\ phase[p] \in {"enumerate", "download", "reconcile", "persist", "export"}
    /\ phase[p] = "download" => JobsEnded(p)
    /\ Leave(p)
    /\ UNCHANGED <<remote, durable, faults>>

(* The process dies; the kernel releases its flock. *)
Crash(p) ==
    /\ phase[p] # "idle"
    /\ Fault("crash")
    /\ Leave(p)
    /\ UNCHANGED <<remote, durable>>

(***************************************************************************)
(* Specification.                                                          *)
(***************************************************************************)
TrackStep(p, t) ==
    \/ SkipTrack(p, t) \/ BeginDownload(p, t) \/ OpenPart(p, t) \/ CommitFile(p, t)
    \/ BeginTag(p, t) \/ EndTag(p, t) \/ RecordDone(p, t)
    \/ FailPermanently(p, t) \/ DropTrack(p, t) \/ RemoveTrack(p, t)

CycleStep(p) ==
    \/ Sweep(p) \/ Enumerate(p)
    \/ \E t \in Tracks : TrackStep(p, t)
    \/ Diff(p) \/ EndReconcile(p) \/ Persist(p) \/ Export(p) \/ ReturnCancelled(p)

Faulty(p) ==
    \/ SweepFails(p) \/ Abort(p) \/ Cancel(p) \/ Crash(p)
    \/ \E t \in Tracks : FailTransiently(p, t) \/ TimeOut(p, t) \/ RemovalFails(p, t)

Next ==
    \/ \E t \in Tracks : \E sources \in Listings : SetFavorite(t, sources)
    \/ \E p \in Procs : Acquire(p) \/ CycleStep(p) \/ Faulty(p)

Spec == Init /\ [][Next]_vars

(* A started cycle takes its next step: nothing in it waits on another process,
   and its requests and bodies are assumed to return (Downloader says which may
   not).
   The daemon's loop starts another cycle whatever the last one returned; nobody
   has to run `sync` by hand.  Faults and the user's edits are not fair. *)
Fairness ==
    /\ \A p \in Procs : WF_vars(CycleStep(p))
    /\ \A p \in Procs \ ManualProcs : WF_vars(Acquire(p))
FairSpec == Spec /\ Fairness

(***************************************************************************)
(* Properties.                                                             *)
(***************************************************************************)
(* At most one process is past its TryAcquire, and it is the one the flock
   belongs to: every read-modify-write of a cycle relies on it. *)
OneCycleAtATime == \A p \in Procs : phase[p] # "idle" => lock = p

(* Once a cycle has swept, the .part files below the music root are those of its
   own workers: no other process takes one away that is being written, and none
   is there but these and what a job of this cycle that failed could not remove. *)
PartsAreLive ==
    \A p \in Procs : phase[p] \notin {"idle", "sweep"} =>
        /\ {t \in Tracks : job[p][t] = "writing"} \subseteq parts
        /\ \A t \in parts : job[p][t] \in {"writing", "failed", "timedout", "dropped"}

(* Until its cycle returns, a track it counted as downloaded has its row, at the
   tier requested and with the path this cycle rendered, wherever an earlier one
   put it, and that path holds a verified and tagged file. *)
DownloadedIsRecorded ==
    \A p \in Procs : \A t \in Tracks : job[p][t] = "downloaded" =>
        /\ tracks[t].status = "done" /\ tracks[t].tier = cfg[p].tier
        /\ tracks[t].path = cfg[p].naming[t]
        /\ disk[tracks[t].path] = "tagged"

(* A file leaves its path only in the reconcile phase of the lock's holder, for
   a track of the stored snapshot that this cycle did not enumerate, and never
   under keep: a first run, which has no snapshot, deletes nothing. *)
LeavesDisk(f) == disk[f] # "none" /\ disk'[f] = "none"

RemovesOnlyDiff ==
    \A f \in Paths : LeavesDisk(f) =>
        \E p \in Procs, t \in Tracks :
           /\ lock = p
           /\ cfg[p].policy \in {"mirror", "trash"}
           /\ tracks[t].path = f
           /\ t \in Listed(snapshot) /\ t \notin Listed(current[p])
RemovalIsJustified == [][RemovesOnlyDiff]_vars

(* Under mirror and trash a track leaves the snapshot only when nothing is left
   where its last download was recorded, whatever attempts at it failed since;
   otherwise its file would never be looked at again. *)
ForgetsOnlyGone ==
    \A t \in Tracks :
        /\ snapshot[t] # "absent"
        /\ snapshot'[t] = "absent"
        /\ filed[t] # NoPath
        => \/ disk[filed[t]] = "none"
           \/ \E p \in Procs : lock = p /\ cfg[p].policy = "keep"
NeverForgotten == [][ForgetsOnlyGone]_vars

(* The snapshot advances only after every enumerated track was dealt with: none
   was dropped by a cancellation and none is still in a worker's hands. *)
AdvancesWhole ==
    snapshot' # snapshot =>
        \E p \in Procs :
           /\ lock = p
           /\ \A t \in Listed(current[p]) :
                 job[p][t] \in {"downloaded", "skipped", "failed", "timedout"}
SnapshotAdvancesWhole == [][AdvancesWhole]_vars

(* Summary.Skipped: "Tracks already present at the requested quality". *)
SkippedIsPresent ==
    \A p \in Procs, t \in Tracks :
        job[p][t] = "skipped" /\ tracks[t].status = "done" => disk[tracks[t].path] = "tagged"

(* OrderedFavoriteFiles: "every returned path points at a real file". *)
FavoriteFilesExist ==
    \A p \in Procs : phase[p] = "export" =>
        \A t \in OrderedFavoriteFiles(snapshot, tracks) : disk[tracks[t].path] # "none"

(* Every cycle comes to an end: its workers never wait on each other for ever
   and the flock is given back. *)
CycleEnds == \A p \in Procs : phase[p] # "idle" ~> phase[p] = "idle"

(* A track that stays unfavorited eventually stays out of the snapshot with no
   file where its last download was recorded: a failed removal is retried until
   it succeeds.  Not so after a crash, a cancellation or an error between that
   record and the snapshot, which no run of this property injects. *)
RemovalCompletes ==
    \A t \in Tracks : <>[](remote[t] = {}) =>
        <>[](/\ snapshot[t] = "absent"
             /\ filed[t] # NoPath => disk[filed[t]] = "none")

(* A track that stays wanted is eventually on disk for good, or ruled out for
   good at the tier requested. *)
WantedSettles ==
    \A t \in Tracks : <>[]("tracks" \in remote[t]) =>
        <>[](\/ tracks[t].status = "done" /\ disk[tracks[t].path] = "tagged"
             \/ tracks[t].status = "failed" /\ tracks[t].permanent)

(***************************************************************************)
(* The inductive invariant behind the safety properties.                   *)
(***************************************************************************)
(* A cycle's locals are empty outside the phases that use them. *)
LocalsReset ==
    \A p \in Procs :
        /\ phase[p] \in {"idle", "sweep", "enumerate"} => current[p] = Nothing /\ job[p] = NoJobs
        /\ phase[p] # "reconcile" => removing[p] = {}
        /\ phase[p] \notin {"reconcile", "persist", "export"} => pending[p] = {}
        /\ phase[p] # "idle" => cfg[p] \in Config

(* The cycle's jobs are the tracks it enumerated. *)
JobsMatchListing ==
    \A p \in Procs, t \in Tracks : job[p][t] # "off" <=> t \in Listed(current[p])

(* No worker outlives downloadAll. *)
NoLateWorkers ==
    \A p \in Procs : phase[p] \in {"reconcile", "persist", "export"} => JobsEnded(p)

(* A row names a file its own track was once rendered to, or none. *)
RecordedPaths ==
    \A t \in Tracks : tracks[t].path \in {NoPath} \cup {n[t] : n \in Namings}

(* A worker about to record its file finds it as it left it. *)
WrittenIsTagged ==
    \A p \in Procs, t \in Tracks : job[p][t] = "written" => disk[Dest(p, t)] = "tagged"

(* Workers and records agree about the files unless two tracks share one. *)
FilesAsRecorded == DistinctPaths => WrittenIsTagged /\ DownloadedIsRecorded

(* The difference Reconcile took is still the difference when it is used. *)
RemovalsFromDiff ==
    \A p \in Procs : phase[p] \in {"reconcile", "persist"} =>
        /\ removing[p] \cup pending[p] \subseteq Removed(snapshot, current[p])
        /\ cfg[p].policy = "keep" => removing[p] = {}

(* Of that difference nothing is overlooked. *)
EveryRemovalHandled ==
    \A p \in Procs : phase[p] \in {"reconcile", "persist"} /\ cfg[p].policy # "keep" =>
        \A t \in Removed(snapshot, current[p]) :
            \/ t \in removing[p] \cup pending[p]
            \/ tracks[t].path = NoPath
            \/ disk[tracks[t].path] = "none"

(* A row names the file of its track's last recorded download, whatever attempts
   failed since. *)
FiledIsRecorded == \A t \in Tracks : tracks[t].path = filed[t]

(* A dropped track belongs to a cancelled cycle. *)
DroppedIfCancelled == \A p \in Procs, t \in Tracks : job[p][t] = "dropped" => cancelled[p]

IInv ==
    /\ TypeOK
    /\ OneCycleAtATime
    /\ LocalsReset
    /\ JobsMatchListing
    /\ NoLateWorkers
    /\ PartsAreLive
    /\ RecordedPaths
    /\ FilesAsRecorded
    /\ RemovalsFromDiff
    /\ EveryRemovalHandled
=============================================================================
