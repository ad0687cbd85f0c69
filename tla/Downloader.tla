------------------------------ MODULE Downloader ------------------------------
(***************************************************************************)
(* The calls of Downloader.Download that the workers of one process have   *)
(* in flight, cycle after cycle (pkg/tidal/download): the descent through  *)
(* the quality band, the bounded retries of a BTS or DASH stream, the part *)
(* file and its rename, and the sweep of what a dead process left.         *)
(*                                                                         *)
(* Abstractions.  A stream is Pieces bodies (the URLs of a BTS manifest,   *)
(* the segments of a DASH one); a file is described by how many of them it *)
(* holds in order and whether anything else is in it.  An error is what    *)
(* permanentFailure (internal/sync/failure.go) tells apart.  Each path has *)
(* a directory of its own, so syncDir makes exactly its own path durable.  *)
(* Tagging rewrites a file only after Download returned, and is left out.  *)
(***************************************************************************)
EXTENDS Integers, FiniteSets

CONSTANTS
    Calls,      \* calls of Download in one cycle, each for a track of its own
    Paths,      \* destination files
    Dest,       \* the destination of a call
    NoFile,     \* what a path without a file holds
    Request,    \* quality.request, as a rank
    Floor,      \* quality.floor, as a rank
    Grants,     \* ranks TIDAL grants
    Pieces,     \* bodies a stream is made of
    Attempts    \* streamAttempts and segmentAttempts

Tiers == {3, 4}     \* LOSSLESS and HI_RES_LOSSLESS, the tiers ever requested

ASSUME DestIsPath == Dest \in [Calls -> Paths]
ASSUME NoFileIsNoCall == NoFile \notin Calls
ASSUME QualityIsValid == Request \in Tiers /\ Floor \in Tiers /\ Floor <= Request
ASSUME GrantsAreRanks == Grants \subseteq 0 .. 4
ASSUME PiecesIsPositive == Pieces \in Nat \ {0}
ASSUME AttemptsIsPositive == Attempts \in Nat \ {0}

VARIABLES
    phase,      \* "open" while executeSync's workers run, else "closed"
    cancelled,  \* the context the calls share is cancelled
    job,        \* job[c]: where c stands
    part,       \* part[c]: the bytes of c's part file
    scratch,    \* scratch[c]: the bytes of c's DASH container
    stuck,      \* calls one of whose temporary files could not be removed
    synced,     \* calls whose part file has been flushed
    file,       \* file[f]: the file at f
    lasting     \* lasting[f]: what a power loss may leave at f

staging == <<part, scratch, stuck, synced>>
library == <<file, lasting>>
vars == <<phase, cancelled, job, staging, library>>

(* The tiers a call may request, highest first. *)
Band == {q \in Tiers : Floor <= q /\ q <= Request}

(***************************************************************************)
(* Bytes.                                                                  *)
(***************************************************************************)
(* The first "pieces" bodies of a stream in order; torn if anything in the
   file is not theirs. *)
Bytes == [pieces : 0 .. Pieces, torn : BOOLEAN]
Empty == [pieces |-> 0, torn |-> FALSE]
Whole == [pieces |-> Pieces, torn |-> FALSE]
Extend(b, i) == [pieces |-> i, torn |-> b.torn \/ i # b.pieces + 1]
Tear(b) == [b EXCEPT !.torn = TRUE]
File == [of : Calls, bytes : Bytes]
ASSUME NoFileIsNoFile == NoFile \notin File

(* What a power loss may leave of a renamed part file. *)
Survivors(c) ==
    {[of |-> c, bytes |-> part[c]]}
        \cup (IF c \in synced THEN {} ELSE {[of |-> c, bytes |-> Tear(part[c])]})

(***************************************************************************)
(* A call.                                                                 *)
(***************************************************************************)
(* "fetch": between requests; "body": reading the body of a 200 response. *)
Staging == {"fetch", "body", "demux", "sync", "rename"}
Stages == {"idle", "info", "open", "syncdir", "ended"} \cup Staging
Answers == {"unasked", "granted", "subFloor", "unavailable", "transient"}
Kinds == {"none", "bts", "dash", "encrypted", "unusable"}
Outcomes == {"none", "ok", "cancelled", "belowFloor", "encrypted", "unavailable", "transient"}
Job == [stage : Stages, answers : [Band -> Answers], granted : Grants \cup {0}, kind : Kinds,
        next : 1 .. Pieces, tries : 0 .. Attempts - 1, outcome : Outcomes]

(* Outside the call its locals mean nothing. *)
Blank(stage, outcome) ==
    [stage |-> stage, answers |-> [q \in Band |-> "unasked"], granted |-> 0,
     kind |-> "none", next |-> 1, tries |-> 0, outcome |-> outcome]
Idle == Blank("idle", "none")
NoJobs == [c \in Calls |-> Idle]
Nothing == [c \in Calls |-> NoFile]

At(c, stage) == phase = "open" /\ job[c].stage = stage
UnderWay(c) == job[c].stage \notin {"idle", "ended"}

TypeOK ==
    /\ phase \in {"closed", "open"}
    /\ cancelled \in BOOLEAN
    /\ job \in [Calls -> Job]
    /\ part \in [Calls -> Bytes \cup {NoFile}]
    /\ scratch \in [Calls -> Bytes \cup {NoFile}]
    /\ stuck \subseteq Calls
    /\ synced \subseteq Calls
    /\ file \in [Paths -> File \cup {NoFile}]
    /\ lasting \in [Paths -> SUBSET (File \cup {NoFile})]

Init ==
    /\ phase = "closed"
    /\ cancelled = FALSE
    /\ job = NoJobs
    /\ part = Nothing
    /\ scratch = Nothing
    /\ stuck = {}
    /\ synced = {}
    /\ file = [f \in Paths |-> NoFile]
    /\ lasting = [f \in Paths |-> {NoFile}]

Move(c, stage) == job' = [job EXCEPT ![c].stage = stage]

(* os.Remove may fail; its error is ignored and the file stays until a sweep. *)
AfterRemoval(files, c) == {files, [files EXCEPT ![c] = NoFile]}
StuckIfLeft(c) == stuck' = stuck \cup {d \in {c} : part'[d] # NoFile \/ scratch'[d] # NoFile}

(* The deferred clean-up of writeAtomic and, unless it was run after the demux,
   of demuxDASH. *)
LeaveScratch(c) == part' = [part EXCEPT ![c] = NoFile] /\ UNCHANGED <<scratch, stuck>>
RemoveStaging(c) ==
    /\ part' \in AfterRemoval(part, c)
    /\ scratch' \in IF c \in stuck THEN {scratch} ELSE AfterRemoval(scratch, c)
    /\ StuckIfLeft(c)
EndWith(c, outcome) ==
    /\ job' = [job EXCEPT ![c] = Blank("ended", outcome)]
    /\ RemoveStaging(c)
    /\ synced' = synced \ {c}

Begin(c) ==
    /\ At(c, "idle")
    /\ Move(c, "info")
    /\ UNCHANGED <<phase, cancelled, staging, library>>

(***************************************************************************)
(* fetchManifest: the band, highest tier first.                            *)
(***************************************************************************)
AscendingTier(c, q) ==
    job[c].answers[q] = "unasked" /\ \A r \in Band : r < q => job[c].answers[r] # "unasked"
NextTier(c, q) ==
    job[c].answers[q] = "unasked" /\ \A r \in Band : r > q => job[c].answers[r] # "unasked"

Accepts(granted) == granted >= Floor

(* The tier is granted (TIDAL may grant another than the one asked for), with
   a manifest of some kind. *)
Grant(c, q, granted, kind) ==
    /\ At(c, "info") /\ ~cancelled
    /\ NextTier(c, q)
    /\ Accepts(granted)
    /\ job' = [job EXCEPT ![c] = [@ EXCEPT !.stage = "open", !.answers[q] = "granted",
                                           !.granted = granted, !.kind = kind]]
    /\ UNCHANGED <<phase, cancelled, staging, library>>

(* A lossy grant, or an error: the next tier is asked. *)
Descend(c, q, granted, answer) ==
    /\ At(c, "info") /\ ~cancelled
    /\ NextTier(c, q)
    /\ answer = "subFloor" => ~Accepts(granted)
    /\ job' = [job EXCEPT ![c].answers[q] = answer]
    /\ UNCHANGED <<phase, cancelled, staging, library>>

(* No tier was granted: a lossy grant seen on the way outweighs every error,
   of the errors the last one is returned. *)
NoGrant(answers) ==
    IF \E q \in Band : answers[q] = "subFloor" THEN "belowFloor" ELSE answers[Floor]
GiveUp(c) ==
    /\ At(c, "info")
    /\ \A q \in Band : job[c].answers[q] # "unasked"
    /\ EndWith(c, NoGrant(job[c].answers))
    /\ UNCHANGED <<phase, cancelled, library>>

(***************************************************************************)
(* Parse, producerFor and the staged write.                                *)
(***************************************************************************)
(* An encrypted manifest, or one that Parse cannot use (malformed, or of an
   unknown MIME type). *)
Reject(c) ==
    /\ At(c, "open") /\ job[c].kind \in {"encrypted", "unusable"}
    /\ EndWith(c, IF job[c].kind = "encrypted" THEN "encrypted" ELSE "transient")
    /\ UNCHANGED <<phase, cancelled, library>>

(* CreateTemp of the part file and, for DASH, of the scratch container. *)
OpenPart(c) ==
    /\ At(c, "open") /\ job[c].kind \in {"bts", "dash"}
    /\ part' = [part EXCEPT ![c] = Empty]
    /\ scratch' = [scratch EXCEPT ![c] = IF job[c].kind = "dash" THEN Empty ELSE NoFile]
    /\ Move(c, "fetch")
    /\ UNCHANGED <<phase, cancelled, stuck, synced, library>>

(* One GET answered 200: getStream, getSegment. *)
GetBody(c) ==
    /\ At(c, "fetch") /\ ~cancelled
    /\ Move(c, "body")
    /\ UNCHANGED <<phase, cancelled, staging, library>>

(* A failed attempt: the same piece is asked for again, or the call given up. *)
RetryForEver(c) ==
    /\ job' = [job EXCEPT ![c].stage = "fetch"]
    /\ UNCHANGED <<phase, cancelled, staging, library>>
Retry(c) ==
    \/ /\ job[c].tries + 1 < Attempts
       /\ job' = [job EXCEPT ![c].stage = "fetch", ![c].tries = @ + 1]
       /\ UNCHANGED <<phase, cancelled, staging, library>>
    \/ /\ job[c].tries + 1 = Attempts
       /\ EndWith(c, "transient")
       /\ UNCHANGED <<phase, cancelled, library>>

(* A transport error or another status. *)
GetFails(c) ==
    /\ At(c, "fetch") /\ ~cancelled
    /\ Retry(c)

NextPieceTooFar(c, after) ==
    IF job[c].next <= Pieces
    THEN job' = [job EXCEPT ![c].stage = "fetch", ![c].next = @ + 1, ![c].tries = 0]
    ELSE Move(c, after)
NextPiece(c, after) ==
    IF job[c].next < Pieces
    THEN job' = [job EXCEPT ![c].stage = "fetch", ![c].next = @ + 1, ![c].tries = 0]
    ELSE Move(c, after)

(* io.Copy to the end of a BTS body, straight into the part file. *)
CopyBody(c) ==
    /\ At(c, "body") /\ job[c].kind = "bts"
    /\ part' = [part EXCEPT ![c] = Extend(@, job[c].next)]
    /\ NextPiece(c, "sync")
    /\ UNCHANGED <<phase, cancelled, scratch, stuck, synced, library>>

(* The copy breaks off: part of the body is in the file, there is no retry. *)
CopyBreaksAndRetries(c) ==
    /\ At(c, "body") /\ job[c].kind = "bts"
    /\ part' = [part EXCEPT ![c] = Tear(@)]
    /\ Move(c, "fetch")
    /\ UNCHANGED <<phase, cancelled, scratch, stuck, synced, library>>
CopyBreaks(c) ==
    /\ At(c, "body") /\ job[c].kind = "bts"
    /\ EndWith(c, IF cancelled THEN "cancelled" ELSE "transient")
    /\ UNCHANGED <<phase, cancelled, library>>

(* A DASH segment is read in full, then appended to the scratch container. *)
AppendSegment(c) ==
    /\ At(c, "body") /\ job[c].kind = "dash"
    /\ scratch' = [scratch EXCEPT ![c] = Extend(@, job[c].next)]
    /\ NextPiece(c, "demux")
    /\ UNCHANGED <<phase, cancelled, part, stuck, synced, library>>

(* Appending it fails, for good. *)
AppendFails(c) ==
    /\ At(c, "body") /\ job[c].kind = "dash"
    /\ EndWith(c, "transient")
    /\ UNCHANGED <<phase, cancelled, library>>

(* Reading it fails: nothing was written, and the attempt is repeated. *)
ReadFails(c) ==
    /\ At(c, "body") /\ job[c].kind = "dash" /\ ~cancelled
    /\ Retry(c)

(* ffmpeg turns the container into the part file, and the container goes. *)
Demux(c) ==
    /\ At(c, "demux")
    /\ part' = [part EXCEPT ![c] = scratch[c]]
    /\ scratch' \in AfterRemoval(scratch, c)
    /\ stuck' = stuck \cup {d \in {c} : scratch'[d] # NoFile}
    /\ Move(c, "sync")
    /\ UNCHANGED <<phase, cancelled, synced, library>>
DemuxFails(c) ==
    /\ At(c, "demux") /\ ~cancelled
    /\ EndWith(c, "transient")
    /\ UNCHANGED <<phase, cancelled, library>>

SkipSync(c) ==
    /\ At(c, "sync")
    /\ Move(c, "rename")
    /\ UNCHANGED <<phase, cancelled, staging, library>>
Sync(c) ==
    /\ At(c, "sync")
    /\ synced' = synced \cup {c}
    /\ Move(c, "rename")
    /\ UNCHANGED <<phase, cancelled, part, scratch, stuck, library>>

Rename(c) ==
    /\ At(c, "rename")
    /\ file' = [file EXCEPT ![Dest[c]] = [of |-> c, bytes |-> part[c]]]
    /\ lasting' = [lasting EXCEPT ![Dest[c]] = @ \cup Survivors(c)]
    /\ part' = [part EXCEPT ![c] = NoFile]
    /\ synced' = synced \ {c}
    /\ Move(c, "syncdir")
    /\ UNCHANGED <<phase, cancelled, scratch, stuck>>

SkipSyncDir(c) ==
    /\ At(c, "syncdir")
    /\ EndWith(c, "ok")
    /\ UNCHANGED <<phase, cancelled, library>>

(* A directory that is gone counts as synced; none is removed while calls run. *)
SyncDir(c) ==
    /\ At(c, "syncdir")
    /\ lasting' = [lasting EXCEPT ![Dest[c]] = {file[Dest[c]]}]
    /\ EndWith(c, "ok")
    /\ UNCHANGED <<phase, cancelled, file>>

(* Creating the part file, syncing or renaming it fails.  An error of syncDir
   comes after the rename: the file stays in place. *)
FileStepFails(c) ==
    /\ \/ At(c, "open") /\ job[c].kind \in {"bts", "dash"}
       \/ \E stage \in {"sync", "rename", "syncdir"} : At(c, stage)
    /\ EndWith(c, "transient")
    /\ UNCHANGED <<phase, cancelled, library>>

(* The cancelled context is noticed: by a request to the provider, before an
   attempt, by the transport while a body is read, by ffmpeg. *)
Stop(c) ==
    /\ cancelled
    /\ \/ At(c, "info") /\ \E q \in Band : job[c].answers[q] = "unasked"
       \/ \E stage \in {"fetch", "body", "demux"} : At(c, stage)
    /\ EndWith(c, "cancelled")
    /\ UNCHANGED <<phase, cancelled, library>>

(***************************************************************************)
(* The process around the calls.                                           *)
(***************************************************************************)
(* SweepStale before the workers start; it may miss files it cannot remove,
   which ends the cycle before any worker starts. *)
Sweep ==
    /\ phase = "closed"
    /\ part' = Nothing
    /\ scratch' = Nothing
    /\ phase' = "open"
    /\ UNCHANGED <<cancelled, job, stuck, synced, library>>
SweepFails(left) ==
    /\ phase = "closed"
    /\ part' = [c \in Calls |-> IF c \in left THEN part[c] ELSE NoFile]
    /\ scratch' = [c \in Calls |-> IF c \in left THEN scratch[c] ELSE NoFile]
    /\ UNCHANGED <<phase, cancelled, job, stuck, synced, library>>

Close ==
    /\ phase' = "closed"
    /\ cancelled' = FALSE
    /\ job' = NoJobs
    /\ stuck' = {}
    /\ synced' = {}

EndCycle ==
    /\ phase = "open"
    /\ \A c \in Calls : ~UnderWay(c)
    /\ Close
    /\ UNCHANGED <<part, scratch, library>>

Cancel ==
    /\ phase = "open" /\ ~cancelled
    /\ cancelled' = TRUE
    /\ UNCHANGED <<phase, job, staging, library>>

(* The process dies; what it staged stays until the next sweep. *)
Crash ==
    /\ phase = "open"
    /\ Close
    /\ UNCHANGED <<part, scratch, library>>

(* The machine dies: of each path, a state since its last durable one. *)
PowerLoss ==
    /\ file' \in [Paths -> UNION {lasting[f] : f \in Paths}]
    /\ \A f \in Paths : file'[f] \in lasting[f]
    /\ lasting' = [f \in Paths |-> {file'[f]}]
    /\ Close
    /\ UNCHANGED <<part, scratch>>

(* Between two cycles' downloads the remover unlinks a file. *)
Remove(f) ==
    /\ phase = "closed"
    /\ file' = [file EXCEPT ![f] = NoFile]
    /\ lasting' = [lasting EXCEPT ![f] = @ \cup {NoFile}]
    /\ UNCHANGED <<phase, cancelled, job, staging>>

(* The provider's answer to a request for playback information. *)
InfoStep(c) ==
    \E q \in Band :
       \/ \E granted \in Grants :
             \/ \E kind \in Kinds \ {"none"} : Grant(c, q, granted, kind)
             \/ Descend(c, q, granted, "subFloor")
       \/ \E answer \in {"unavailable", "transient"} : Descend(c, q, 0, answer)

(* What a call does once it need not wait for the provider, a body or ffmpeg. *)
OwnStep(c) ==
    \/ GiveUp(c) \/ Reject(c) \/ OpenPart(c) \/ GetBody(c) \/ GetFails(c)
    \/ Sync(c) \/ Rename(c) \/ SyncDir(c) \/ FileStepFails(c) \/ Stop(c)

BodyStep(c) ==
    \/ CopyBody(c) \/ CopyBreaks(c) \/ AppendSegment(c) \/ AppendFails(c) \/ ReadFails(c)

DemuxStep(c) == Demux(c) \/ DemuxFails(c)

CallStep(c) == Begin(c) \/ InfoStep(c) \/ OwnStep(c) \/ BodyStep(c) \/ DemuxStep(c)

Process ==
    \/ Sweep \/ EndCycle \/ Cancel \/ Crash \/ PowerLoss
    \/ \E left \in SUBSET Calls : SweepFails(left)
    \/ \E f \in Paths : Remove(f)

Next == Process \/ \E c \in Calls : CallStep(c)

Spec == Init /\ [][Next]_vars

(* The file operations return, and so does a GET: the download client bounds
   dialling, the handshake and the wait for headers (cmd/sync.go:38-50).  Nothing
   bounds the rest: neither a body, nor the playback information, asked for with
   retryablehttp's own client (pkg/tidal/client.go:83), nor ffmpeg.  All three
   end with the context. *)
Fairness == \A c \in Calls : WF_vars(OwnStep(c))
FairSpec == Spec /\ Fairness

(***************************************************************************)
(* What is checked.                                                        *)
(***************************************************************************)
(* "destPath is only ever created from a complete download": whatever attempt
   failed or machine died, a path holds every body of one call's stream once,
   in order, or no file at all. *)
WholeFiles ==
    \A f \in Paths : \A x \in lasting[f] \cup {file[f]} : x # NoFile => x.bytes = Whole

(* While workers run, a part or scratch file belongs to a call that is still
   writing it, unless the file system refused to remove it in this cycle: neither
   an error path nor the sweep of a crash leaves one behind. *)
Owned(c) ==
    phase = "open" /\ (part[c] # NoFile \/ scratch[c] # NoFile) =>
       job[c].stage \in Staging \/ c \in stuck
StagingIsOwned == \A c \in Calls : Owned(c)

(* Download "never writes a tier below the floor" and "tries tiers from this
   request down (highest first)": a call gets past the manifest only with a
   tier at or above the floor, and only after every higher tier of the band
   failed or was granted below the floor. *)
BestTier(c) ==
    job[c].stage \in Staging \cup {"open", "syncdir"} =>
        /\ job[c].granted >= Floor
        /\ \E q \in Band :
              /\ job[c].answers[q] = "granted"
              /\ \A r \in Band : r > q =>
                    job[c].answers[r] \in {"subFloor", "unavailable", "transient"}
BestTierObtained == \A c \in Calls : BestTier(c)

(* A call that never ends waits for one of three things, for the provider's
   answer, for a body or for ffmpeg, and its context was never cancelled: no
   other step of Download, and no series of retries, keeps its worker for ever. *)
Waiting == {"info", "body", "demux"}
StallsOnlyWaiting ==
    \A c \in Calls :
       <>[]UnderWay(c) => \E stage \in Waiting : <>[](job[c].stage = stage /\ ~cancelled)

(***************************************************************************)
(* Download keeps the promises of AtomicFile.                              *)
(***************************************************************************)
Published(x) == IF x = NoFile THEN NoFile ELSE x.of
Returned(c) ==
    IF job[c].stage # "ended" THEN "none" ELSE IF job[c].outcome = "ok" THEN "ok" ELSE "error"

PublishedFile == [f \in Paths |-> Published(file[f])]
PublishedLasting == [f \in Paths |-> {Published(x) : x \in lasting[f]}]
Results == [c \in Calls |-> Returned(c)]

Promise == INSTANCE AtomicFile WITH
    file <- PublishedFile, lasting <- PublishedLasting, result <- Results

(* Every step of Download is a step of the atomic file or invisible to it. *)
KeepsPromise == Promise!Spec

(***************************************************************************)
(* The inductive invariant behind the safety properties.                   *)
(***************************************************************************)
(* Before its part file is opened a call has fetched nothing, and while it
   descends the band no tier has been granted. *)
Fresh(c) ==
    /\ job[c].stage \in {"idle", "info", "open"} => job[c].next = 1
    /\ job[c].stage \in {"idle", "info"} => \A q \in Band : job[c].answers[q] # "granted"

(* What is staged is what has been fetched so far; it is whole and flushed
   when it is renamed. *)
FetchedSoFar(c) == [pieces |-> job[c].next - 1, torn |-> FALSE]
Staged(c) ==
    /\ job[c].stage \in {"fetch", "body"} =>
          \/ job[c].kind = "bts" /\ part[c] = FetchedSoFar(c) /\ scratch[c] = NoFile
          \/ job[c].kind = "dash" /\ scratch[c] = FetchedSoFar(c)
    /\ job[c].stage = "demux" => scratch[c] = Whole
    /\ job[c].stage \in {"sync", "rename"} =>
          part[c] = Whole /\ (scratch[c] = NoFile \/ c \in stuck)
    /\ job[c].stage = "rename" => c \in synced

(* An outcome belongs to an ended call. *)
OutcomeIsLast(c) == job[c].outcome # "none" <=> job[c].stage = "ended"

(* Between cycles no call exists. *)
ClosedIsIdle == phase = "closed" => job = NoJobs

(* Nothing unpublishes a file while workers run. *)
PublishedStays == \A c \in Calls : job[c].stage = "syncdir" => file[Dest[c]] # NoFile

IInv ==
    /\ TypeOK
    /\ ClosedIsIdle
    /\ WholeFiles
    /\ PublishedStays
    /\ StagingIsOwned
    /\ BestTierObtained
    /\ \A c \in Calls : Fresh(c) /\ Staged(c) /\ OutcomeIsLast(c)
=============================================================================
