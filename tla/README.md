# A specification of tidal-syncer

tidal-syncer mirrors the favorites of a TIDAL user into a directory of FLAC files. This directory
holds TLA+ modules that model the program, TLC configurations that check them on small instances,
and theorems about them checked by TLAPS. Every definition follows the Go sources; `PROJECT.json`
maps each to the lines it models, and lists the hazards, the runs, the findings and the theorems.

## The system

| Part | State it keeps | Operations | Talks to |
|---|---|---|---|
| Sync cycle (`cmd/sync.go`, `internal/sync/engine.go`, `process.go`) | per cycle: favorites enumerated, jobs, counters | lock, sweep, enumerate, download, reconcile, replace snapshot, export | all the others |
| Track records (`internal/store/tracks.go`, `snapshot.go`) | SQLite tables `tracks`, `favorites_snapshot` | MarkTrack, MarkFailed, GetTrack, ReplaceSnapshot, DiffSnapshot, OrderedFavoriteFiles | cycle, removal, export, metrics |
| Remover (`internal/sync/removal.go`) | none | Reconcile under keep, mirror, trash | store, music root |
| Downloader (`pkg/tidal/download`) | `.part` files | Download, writeAtomic, SweepStale | TIDAL, music root, ffmpeg |
| Enumeration (`internal/sync/enumerate.go`, `collection_cache.go`, `pkg/tidal/favorites.go`) | collection cache tables | paged listings, expansion, prune | TIDAL, store |
| Token lifecycle (`pkg/tidal/auth`, `cmd/login.go`) | one token row | Token, Refresh, device login | TIDAL, store |
| Store (`internal/store/store.go`) | schema_migrations | Open, Migrate | every process |
| Daemon (`cmd/daemon*.go`) | none | poll loop, time window, error classes | cycle |
| Exports (`internal/sync/playlist.go`, `favorites.go`) | `.m3u8` files | WritePlaylists, WriteFavorites | TIDAL, store |
| Metrics, health, config, naming, tagging, HTTP client | - | reporting, parsing, formatting | - |

Processes share a data directory (SQLite in WAL mode, a lock file) and a music root. The daemon runs
`runSync` again and again; a user may run `sync` beside it. `runSync` migrates the store, takes a
non-blocking flock (a held one ends the run), sweeps `*.part` files and calls `executeSync`:
enumerate the favorites of the scope, process every track in an errgroup of `concurrency` workers,
diff the favorites against the stored snapshot and remove what left it, store the new snapshot
(with the removals that failed), export playlists.

What is hard in it: two processes on one music root; workers that share the store, the disk and one
context; a SIGTERM or a crash between a rename and a database write; a removal that fails half way;
settings (policy, tier, scope) that change from one cycle to the next; favorites that change while
they are listed; errors that are retried, remembered or swallowed by class.

What makes each part correct:
- cycle: one at a time; no live download disturbed, no partial file left; a track counted as
  downloaded has its row and a tagged file; the snapshot advances only over tracks dealt with;
- removal: only files of tracks the snapshot had and the cycle no longer lists, never under keep; no
  failed removal forgotten;
- records: the path last recorded survives failed attempts; what is skipped is present; a failure is
  retried unless it can never succeed;
- downloader: the destination changes only by a complete download; the tier is within the band;
- enumeration: every favorite listed once, or the cycle fails;
- tokens: no refresh token spent twice or lost; store: each migration once and in order.

## Modules

- `TrackRecords`: the rows, what MarkTrack and MarkFailed leave in them, shouldSkip, the snapshot
  difference, the favorites export's query. Pure operators. A tier is its rank.
- `SyncCycle`: the cycle, run by any number of processes. `remote` is the TIDAL library, edited by
  its user at any time. Durable state: `tracks`, `snapshot`, `disk` (each path none, raw, torn or
  tagged), `parts`; and `filed`, which no code reads: where each track's last download was recorded.
  `lock` is the flock. Per process: `phase` (where `runSync` stands), `cfg` (the configuration it
  loaded, and what template and metadata render each track to in this cycle), `current` (the
  favorites it enumerated), `job` (where each worker stands), `removing`, `pending`, `cancelled`. One
  action per step that another actor can see:

  | Actions | Code |
  |---|---|
  | Acquire, Sweep, SweepFails | `runSync` |
  | Enumerate | `SyncOnce` up to `downloadAll` |
  | SkipTrack, BeginDownload | `processTrack`, `shouldSkip` |
  | OpenPart, CommitFile | `writeAtomic` |
  | BeginTag, EndTag, RecordDone | IntegrityCheck, `writeTags`, `markDone` |
  | FailPermanently, FailTransiently, TimeOut, DropTrack | `markFailed` by class of error |
  | Diff, RemoveTrack, RemovalFails, EndReconcile | `Reconcile`, `applyPolicy` |
  | Persist, Export | `ReplaceSnapshot`, the exports and the release of the lock |
  | Abort, Cancel, ReturnCancelled, Crash | an error that ends the cycle, SIGTERM to the daemon, death of a process |

- `MCSyncCycle`: the values TLC needs for `SyncCycle`.
- `SyncCycleProofs`: the theorems about `SyncCycle`. `KeepProofs`: those that need `keep`.

- `AtomicFile`: what `Download` promises of destination files, abstractly: published whole or not at
  all, success only for a file that survives a power loss, an error that changes nothing.
- `Downloader`: the calls of `Download` in one process, cycle after cycle. Durable state: `file` and
  `lasting` (of each path the file, and the set of what a power loss may leave of it), `part` and
  `scratch` (each call's part file and DASH container); `stuck`, which no code reads, marks the calls
  of which a file could not be removed (`os.Remove`'s error is ignored). `phase` says whether workers run,
  `cancelled` stands for their shared context, `synced` for the part files flushed; `job` holds each
  call's stage, what each tier answered, the stream's kind, the next body and its failed attempts.

  | Actions | Code |
  |---|---|
  | Begin, Grant, Descend, GiveUp | `Download`, `fetchManifest` |
  | Reject | `Parse`, `producerFor`, `ErrEncryptedSkip` |
  | OpenPart, Sync, Rename, SyncDir, FileStepFails | `writeAtomic`, `syncDir` |
  | GetBody, GetFails, CopyBody, CopyBreaks | `streamURL`, `getStream` |
  | AppendSegment, ReadFails, Demux | `demuxDASH`, `assembleSegments`, `fetchSegment`, `ffmpegDemux` |
  | Stop | every place that notices the cancelled context |
  | Sweep, SweepFails, EndCycle, Cancel | `SweepStale`, `runSync` around the workers |
  | Crash, PowerLoss, Remove | death of the process or the machine, the remover |

- `MCDownloader`: the values TLC needs for `Downloader`.
- `DownloaderProofs`: the theorems about `Downloader`, and that it implements `AtomicFile`.

- `Migrations`: `Open` and `Migrate` by any number of processes on one SQLite file. `wal`, `table`,
  `executed` and `recorded` are the file; `writer` is SQLite's write lock; `stage` and `at` say where
  each process stands. The conversion to WAL, the table, the probe outside the lock, the second look
  inside `withImmediateTx` and the commit are actions of their own; a process may fail, roll back or
  die in every one.
- `Tokens`: the token row and everybody who reads and replaces it. `stored` is the row, `server` what
  the authorization server accepts; `lock`, `phase`, `outcome` are the cycle around the requests;
  `call` and `flight` are `TokenSource.Token` of each request and the refresh they share; `device` is
  the device login of another process, which takes no lock and may be started at any time (`Unasked`
  counts against the bound of faults when no cycle has asked for it). The world revokes sessions, lets
  tokens expire, loses answers and corrects mistyped credentials. A token is session, generation,
  freshness.

  | Actions | Code |
  |---|---|
  | LoadFresh, LoadRefused, LoadStale, Refresh | `Token`, `needsRefresh`, the single flight |
  | Reload, Exchange, Refused, PostFails, AnswerLost, Save, SaveFails | `doRefresh`, `checkRetry`, `classifyTokenError` |
  | Unasked, StartDeviceAuth, Approve, PollToken, SaveLogin, LoginFails | `login` and the device grant |
  | Acquire, Contended, NextPhase, Return, Stop, NoStore | `runSync`, `runDaemonCycle` and its classes |

- `Service`: both of them together: commands that open and migrate the store, use the token, close
  and return; a daemon that ticks, a sync and a login started by hand, deaths and restarts. It shares
  `Migrations`' and `Tokens`' variables and adds `manual`, the syncs still to be started.
- `Library`: the favorites listings page by page, the store-backed expansion cache, the desired set,
  the removals it leads to, the playlist exports, while the user edits the library between any two
  requests. The download and the removal, which `SyncCycle` opens up, are one step each here.

  | Actions | Code |
  |---|---|
  | Begin, EndListing, Abort | `enumerateInto`, `PruneCollections`, any error |
  | CollectFavorites, FetchListing | `emitFavorites` and its users |
  | ServeCached, OpenCollection, FetchItems, PutCollection, PutCollectionFails | `expandCollection` |
  | Download, Reconcile | `downloadAll`; `Reconcile` and `ReplaceSnapshot` |
  | WriteExport, PruneOrphans, WriteFavorites | `WritePlaylists`, `WriteFavorites` |
  | Favorite, Unfavorite, AddToPlaylist, TakeFromPlaylist, Rename, RaiseTier | the user |

- `Naming` (template check, Compile, Render, Sanitize), `Settings` (derived defaults, validation,
  the daemon's waits and time window), `Timeline` (the segments of a DASH manifest): pure operators.
  `Calls` asks each of them a question and relates the answer to it. A character is its class, a
  clock the minute it stands for, a URL its number.
- `MCService`, `MCLibrary`, `MCCalls`: values for TLC. `MigrationsProofs`, `TokensProofs`,
  `ServiceProofs`, `LibraryProofs`, `CallsProofs`: the theorems.

Abstractions of `SyncCycle`: enumeration is one read of the remote library; a track is rendered alike
throughout a cycle and perhaps elsewhere in the next (`Namings`); mirror and trash both make the audio
file leave its path (the trash tree, the `.lrc` sidecar and directory pruning are left out); the music
root does not move, so `withinMusic` always holds; `executeSync`'s genre backfill and best-effort
lyrics, covers and genres are left out. A SQLite statement or transaction is one step.

Abstractions of `Downloader`: a stream is a number of bodies, a file the number it holds in order and
whether anything else is in it; each path has a directory of its own, so `syncDir` makes just that
path durable (and a directory that `MkdirAll` has just made is taken to be durable: the code flushes
no parent of it, so `KeepsPromise` says nothing of a power loss that takes the directory); errors are
told apart as far as `permanentFailure` does (a malformed manifest and one of unknown MIME type are
both transient for it); tagging, which rewrites the file after `Download` returned, belongs to
`SyncCycle`, where a `raw` file is what `Rename` leaves here.
The two modules share no variable: a `CommitFile` of `SyncCycle` is `Publish` of `AtomicFile`, and
its `OpenPart` .. `FailTransiently` stand for the whole of one call.

How the modules fit. `Service` composes `Migrations` and `Tokens` by shared actions. `SyncCycle`,
`Library` and `Tokens` each show one cycle at another depth: `SyncCycle` its processes, workers and
removal, with enumeration in one step and requests that simply fail; `Library` its requests and
pages, with downloads and removal in one step; `Tokens` the authorization of its requests, with
everything else left out. They are not composed with each other: the product is out of TLC's reach.

Assumptions about others. SQLite's transactions are atomic and its locks die with their holder; the
authorization server accepts one generation of a refresh token per session and may rotate it; TIDAL
gives an edited playlist a new `lastUpdated`, except those it gives none (`Unversioned`), which are
read in every cycle; and an album's tracks never change.

## Runs

| Run | Question | Instance |
|---|---|---|
| processes | do two processes, one of them a manual `sync --retry-failed`, keep the safety properties under keep and mirror, with a fault of any kind anywhere? | 2 tracks, 2 paths, 1 tier, 1 fault |
| upgrade | policy, scope, tier and naming change between cycles: does every re-download, elsewhere or failed, leave the right path to remove, and does removal follow what its own cycle read? | 1 track, 2 namings, 2 tiers, 2 policies, 2 scopes, 1 process, 1 worker, 2 faults of any kind |
| removal | with trash and changing scopes: does every unfavorited track's file go? | 2 tracks, 1 process, 1 worker, 1 removal or job that fails |
| keep | where nothing is removed: is what is skipped or exported present, does every cycle end, does every wanted track settle? | 2 tracks, 2 processes, 1 worker, 1 fault |
| refavorite | *violated*: a removed track that is favorited again is skipped for ever | no fault |
| calls | do two calls for one destination keep it whole, leave no staging and implement the atomic file, with every error, cancellation, crash, failed sweep and power loss? | 2 calls, 1 path, 2 bodies, 2 attempts |
| call | does one call obtain the best tier, retry without repeating bytes, and hang only where nothing bounds the wait? | 1 call, 3 bodies, 3 attempts, all ranks |
| service | does a fresh data directory get its schema once and in order, is no refresh token spent twice or lost by anyone's doing, and does the daemon come back by itself or after one login? | a daemon, a sync by hand with an older binary, a login (asked for or not); 2 callers, 2 migrations, 2 sessions, 2 generations, 1 fault, 1 sync by hand |
| library | are the desired tracks the library, is the cache exact, are stubs only skipped, do the exports come to mirror the playlists? | 2 tracks, 1 album, 2 playlists, one without a version, pages of 1, 2 edits, 1 fault |
| paging | *violated*: a favorite taken out during the listing makes another one's file go | 3 tracks, 1 edit |
| duplicates | *violated*: a playlist with a repeated track stops every cycle | 1 playlist, 1 edit |
| functions | do the pure functions keep their promises? | strings up to 5, templates up to 4 pieces, 6 minutes a day, timelines up to 3 entries |

Bounds. Two tracks are enough for every property here: each relates at most two tracks (two workers,
one removed and one wanted, two on one path). `MaxFaults` bounds the faults of a behavior, not its
cycles: after a fault the instance goes on through every later cycle, so what a fault leaves behind
meets every phase again. `Concurrency` 3 exceeds the tracks, 1 makes workers wait for a slot. In
`upgrade` one track is enough, since what is at stake is its own row, snapshot entry and files from
one cycle to the next; two faults let a failed attempt be followed by a failed removal. The two calls
of `calls` are alike and permuted by symmetry; no liveness is asked there. Tiers 1 and 2 are the two
sides of "at least the tier requested". `Downloader` bounds no fault at all: its state is finite. Two
bodies are the fewest with an order and a middle to break off in, three the fewest with a body that is
neither first nor last; `Attempts` 3 is the code's number. In `service`, two requests of one process
and two processes are the fewest that share a flight or race for the lock; two migrations the fewest
with an order, and the older binary stops after the first; two generations let a token rotate once,
two sessions allow one fault to lose the first and a login after it, or an unasked login, itself the
one fault, that meets a refresh of the first. In `library`, pages of one item put a request between
any two items; two edits are the fewest that can cancel out, or fall one before and one inside a
listing. `functions` shrinks the day, the 255 bytes and the alphabet, never the code: wide characters,
dots, spaces, a device name and separators are each there, and every pair of clocks with every instant
of the day is asked.

What the instances leave out on purpose. `RemovalCompletes` is asked with `FaultKinds` of failing jobs
and removals only: after a crash or a cancellation between MarkTrack and ReplaceSnapshot a track may
be unfavorited before any snapshot lists it, and its file does stay (hazard at `cmd/sync.go:173`).
`WantedSettles` and `CycleEnds` meet every kind but a failing removal, which keep never attempts.
`SkippedIsPresent` is asked under keep and with one tier only: removal (finding 1) and a crash in a
re-download at a raised tier (hazard at `process.go:136`) do break it. Every instance gives each track
paths of its own: of tracks on one path, removing one takes the other's file. `Mirrors` keeps stems
apart, of playlists and of the favorites export. In `service` an unasked login is the one fault, so it
meets refreshes, rotations and another sync, but not a crash or a lost answer as well.

Fairness. `FairSpec` assumes that a started cycle takes its next step (a step never waits for another
process; statements and file operations return, and requests, bodies and ffmpeg are assumed to) and
that a daemon starts another cycle: `runPollingDaemon` loops whatever the last cycle returned, and a
daemon that was stopped or died is started again by its supervisor. Nobody has to run `sync`, edit
favorites or meet a fault. There is no fairness on a single worker: the workers share one fair
`CycleStep`, which is enough because every job takes finitely many steps.

In `Service` a syncer's next step is weakly fair: statements and lock attempts return, and so do the
exchanges, whose client gives up after 30 seconds (`auth.go:51`); the requests that carry the token
are assumed to. A daemon ticks again and is restarted when it died (`runPollingDaemon`, its
supervisor). A login's next step is strongly fair: its `BEGIN IMMEDIATE` waits out the others' short
transactions (`busy_timeout`), and the user who is told to log in does so; nobody need log in unasked.
Tokens expire; mistyped credentials are corrected (strongly fair, since the daemon's cycles keep
coming). In `Library` a cycle's steps are weakly fair; edits and faults are bounded and never fair.

In `Downloader` a call's own steps (`OwnStep`) are weakly fair: file operations return, and the
download client bounds dialling, the handshake and the wait for headers (`cmd/sync.go:38-50`). Three
waits have no bound and get no fairness: for a body; for the playback information, which
`pkg/tidal/client.go:83` asks for with a retryablehttp client without timeouts; and for ffmpeg. All
three end with the context. `StallsOnlyWaiting` says that a call that never ends waits for one of
these, uncancelled: no retry, error path or descent keeps a worker. That is also the assumption
`FairSpec` of `SyncCycle` rests on: `CycleEnds`, `RemovalCompletes` and `WantedSettles` hold as far as
those three return. A server that keeps a silent connection open for ever holds the worker, its cycle
and the lock, until the process is cancelled.

## What is proved

For all sets of tracks and paths, any number of processes, every configuration, any number of faults
of every kind (`SyncCycleProofs`):
- `TypeCorrect`; `Invariance`: the inductive invariant `IInv`;
- from it the invariants `OneCycleAtATime`, `PartsAreLive`, and the action properties
  `RemovalIsJustified`, `NeverForgotten` (with `FiledIsRecorded`: a row's path is where the track's last
  download was recorded, whatever failed since and wherever it is rendered now) and
  `SnapshotAdvancesWhole` (with `DroppedIfCancelled`);
- where no two tracks render to one path, in no two cycles (`DistinctPaths`): `DownloadedIsRecorded`.
  The assumption is needed: of two workers on one path, one renames an untagged file over the other's.

None of the safety properties is inductive. `IInv` adds what the code relies on without saying so:
that a cycle's locals are empty outside the phases that use them (`LocalsReset`), so that only the
lock's holder has workers; that the jobs are exactly the tracks enumerated (`JobsMatchListing`) and
that none outlives `downloadAll` (`NoLateWorkers`), so that nothing changes rows or files during
removal; that rows name a path their own track was once rendered to (`RecordedPaths`); that the difference Reconcile took
is still the difference when it is used (`RemovalsFromDiff`) and that each of its tracks is handled,
pending, or has no file (`EveryRemovalHandled`). The step lemma has one case per action; the steps
of a worker share lemmas for what they leave alone.

Where every configuration has the policy keep (`KeepProofs`): `ExportsExist`. Nothing is removed, so a
recorded path keeps some file, and a file that was renamed is there until its row is written
(`StaysInv`). `SkippedIsPresent` is only model-checked: the assumptions a proof would need (keep, one
tier, distinct paths) leave out every case in which it is known to fail.

For all sets of calls and paths (several calls may share a path), every band, any number of bodies
and attempts, any errors (`DownloaderProofs`): `TypeCorrect`, `OnlyWholeFiles`, `NoStrayStaging`,
`BestTierIsObtained`, and `ImplementsAtomicFile`: every step of `Downloader` is, under the mapping
that forgets stages and bytes, a step of `AtomicFile` or a stutter. Its `IInv` adds the reason why a
renamed file is whole: what is staged is exactly the bodies fetched so far, and flushed before the
rename (`Staged`); that a temporary file outlives its call only where it could not be removed
(`stuck`); that a call starts from nothing (`Fresh`), that outcomes belong to ended calls
(`OutcomeIsLast`), that no call exists between cycles (`ClosedIsIdle`), and that nothing unpublishes
a file between a rename and its `syncDir` (`PublishedStays`), which is what the abstract `Succeed`
asks for and what rests on removal never running beside workers.

For any set of processes, any number of migrations and any mix of binaries (`MigrationsProofs`):
`MigrationsOnceInOrder`, `SchemaIsReady`. `StoreInv` adds the three reasons: at most one process is
inside a write transaction (`WriterIsOne`); what a process applies it found missing after it had the
lock (`ApplyingIsMissing`); and it got there because all earlier versions are recorded
(`Established`), so the one it applies is the first missing, which keeps `recorded` an initial
segment although older binaries stop early.

For any number of processes, concurrent requests, logins, sessions and faults (`TokensProofs`):
`StoredStaysCurrent`, `RefreshTokensAreSpentOnce`. `TokenInv` adds: the lock is held exactly by the
process whose cycle runs (`LockIsHeld`), a refresh runs only while one of that cycle's requests waits
(`FlightIsAwaited`), so that there is one unsaved answer at most; a session is unknown before it is
opened, and what a login was granted nobody has seen (`SessionsAreOpened`, `GrantsAreUnseen`), so
that a login's save never brings back a spent generation; what is in flight is the server's present
generation (`FlightIsCurrent`).

`ServiceProofs`: every step of `Service` is a step of `Migrations` or leaves it alone, and likewise of
`Tokens` (`ImplementsStore`, `ImplementsTokens`); the properties of both so hold of the whole
(`ServiceMigrates`, `ServiceKeepsToken`, `ServiceTyped`), for all values of the constants.

For any library, page size, scope, number of edits and faults (`LibraryProofs`):
- `CacheStaysExact`, from `CacheInv`: no version listed, read or cached is newer than TIDAL's
  (`PageIsBehind`), and what was read under the present version is how the items begin
  (`ReadingIsPrefix`). An edit raises the version above everything known, so whatever was read
  before it vouches for nothing.
- `NothingIsLost`, `DesiredIsTheLibrary`, `StubsStaySettled`, `LibraryTypeCorrect`, from `LibraryInv`,
  which accounts for everything a cycle has not read yet. A track that was in the library ever since
  the cycle began is desired or `Pending`: in a source still to be listed, in a listing past the
  page's offset, in a collection on the page (where a cached one must hold it), or among the items
  past the offset of the collection in hand. An insertion moves items only away from the beginning,
  so nothing pending slips in front of an offset; a removal may, and then `changed` is "shrunk". In
  the other direction, as long as nothing changed, what is desired is wanted (`NothingElse`), because
  what is on the page or in hand is still a favorite, under its present version (`ListedIsPresent`).
  `OneAtATime`: no collection is on the page twice, or while its items are read, so a row written
  for one leaves the others' rows as they were. Two assumptions: TIDAL lists a favorite once, and
  `{}`, the mark for no collection, is none.
- `RemovalsSpareTheSteady`: what `UnfavoritedOnly` claims holds of every step unless something left the
  library since the cycle began. The run `paging` shows that without this condition it does not.

For every input of the pure functions (`CallsProofs`), where TLC tries a handful:
- `LoadedSettingsHold`: durations, ranges and clocks of any size. `WakesAtTheWindow`: a day and a
  minute of any length. The window's minutes are those of one interval or, over midnight, of two;
  today's next start is not past, or tomorrow's is taken.
- `ComponentsAreSafe`: each of Sanitize's steps keeps what the ones before it established, but the
  suffix for a device name may be cut off again. What is cut off then takes the underscore with it
  only when the text was too long, and a stem that ends in an underscore is no device's.
- `TimelinesAreUnrolled`: the first URL is the initialization, the others are numbered on from the
  start number, and there are never more of them than the timeline's entries stand for: each adds one
  more than its repeats, an entry of -1 none, one of -2 or less takes some off the others
  (`NoneTakesOff`), which the parser accepts. Where there is none of the last kind totalSegments is the
  length of the unrolled timeline.
- `ReadingsAgree`: parseTemplate keeps the name between two braces, compileSegment looks ahead for a
  known name and skips it; both run over one text, and `Agree` relates them after every symbol.
  Compile is one token ahead while it skips. A brace that opened no token may still enclose a name
  of one symbol, which is then none of the known ones (`LeftOpen`). At the end of an accepted
  template the check stands outside every brace, so Compile has nothing left to skip.
- `DiscsAreApart`: the check requires the extension, so by `ReadingsAgree` Compile has found it; its
  value is not empty, so one segment at least leaves a component (`PathsAreLeft`), and the disc's
  directory goes in before the last. `Disc` and a number is left as it is by Sanitize
  (`PlainIsKept`), so two discs differ in it.

These functions are folds. The community modules define a fold as a function that `CHOOSE` picks, so
that there is one, and that it takes the positions one after the other, has to be proved by induction;
and the library's induction theorems have an operator as parameter, which the provers do not
instantiate. `Inductive` is induction for a set of numbers in place of a predicate, from the least
counterexample; `FoldExists` and `FoldSteps` are made with it once, for a step given as a function,
and every fold of the model is an instance (`SizeFolds`, `TotalFolds`, `ParseFolds`, `CompileFolds`,
`ExpandFolds`, `RenderFolds`). The assumptions: every character has at least one byte and the
underscore one (`CharactersAreEncoded`); a device name is shorter than a component may be, has no dot
and ends in no underscore (`DevicesAreShort`); texts are of such characters (`TextsAreEncoded`), an
extension is not empty, and a disc's number is digits (`MetadataIsPlain`); a manifest's numbers are
numbers (`ManifestsAreNumbered`).

Assumed: the named ASSUMEs of the modules, which TLC evaluates in every run that extends them. Only
model-checked: `CycleEnds`, `RemovalCompletes`, `WantedSettles`, `StallsOnlyWaiting`, `DaemonRecovers`
and `Mirrors`, which are liveness properties and out of the prover's reach, and `SkippedIsPresent` (see
above). Every other invariant and every action property of the passing runs is a theorem, under the
assumptions named above.

## Findings

1. A row outlives the file it names: removal never clears `tracks`, so a track favorited again is
   skipped for ever (`refavorite`; under `mirror` the favorites export lists the missing file too).
2. Offset paging while the user edits: a favorite taken out during the listing shifts the rest, the
   track at the page's border is never listed, and its file is removed as unfavorited (`paging`).
3. A favorite playlist that holds a track twice violates the cache's primary key and ends every
   cycle from then on (`duplicates`). The comment it is held against speaks of
   the desired set "deduplicated by TIDAL track id" (`enumerate.go:14`); no document speaks of repeats
   in a playlist as such.

Met while modelling, and left in the models as the code has them: a clean stop between the rename and
MarkTrack leaves a complete file without a row (SyncCycle, `Cancel`); a re-download that is rendered
elsewhere leaves the earlier file without one (`RecordDone`); tracks rendered to one path share a file
(excluded by `DistinctPaths`); an HTTP timeout counts as a cancellation (`TimeOut`); a
lossy grant hides a retryable error of another tier (Downloader, `GiveUp`); Sanitize can bring a
device name about by truncation (`ComponentIsSafe` says when); a DASH timeline with a repeat count
of -3 or less may ask for a negative capacity (Timeline, `Panics`). `PROJECT.json` lists each among the
hazards, with its line, where a property speaks about it or why none does.

## Not modelled

- Album cache (`internal/sync/cache.go`): one fetch per album and cycle, for genre and copyright tags.
- Trash tree, `.lrc` sidecars and directory pruning of the remover: it is the audio file leaving its
  path that the properties are about.
- Tags' contents, lyrics and covers: best effort, and an in-place rewrite is visible as `torn`.
- Metrics, health, statistics: they only read the store.
- HTTP client: backoff times and rate limits are data; what its retries do to the token is in
  `Tokens`, what they do to a stream in `Downloader`.
- YAML and environment parsing, defaults other than the derived ones, logging, redaction, deployment.
- Daylight saving, for which `nextTimeWindowStart` adds 24 hours; Unicode normalization; a playlist
  named like the favorites export.
