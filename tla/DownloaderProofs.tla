-------------------------- MODULE DownloaderProofs --------------------------
(***************************************************************************)
(* What holds of Downloader for every number of calls, paths, bodies and   *)
(* attempts and every quality band, proved with TLAPS.                     *)
(***************************************************************************)
EXTENDS Downloader, TLAPS

(***************************************************************************)
(* Lemmas about bytes and jobs.                                            *)
(***************************************************************************)
(* A body appended to what was fetched before it gives what is fetched. *)
LEMMA BytesAreBytes ==
    /\ Empty \in Bytes /\ Whole \in Bytes
    /\ \A b \in Bytes, i \in 1 .. Pieces : Extend(b, i) \in Bytes
    /\ \A i \in 1 .. Pieces :
          Extend([pieces |-> i - 1, torn |-> FALSE], i) = [pieces |-> i, torn |-> FALSE]
<1>1. Empty \in Bytes /\ Whole \in Bytes
  BY PiecesIsPositive DEF Empty, Whole, Bytes
<1>2. \A b \in Bytes, i \in 1 .. Pieces : Extend(b, i) \in Bytes
  BY PiecesIsPositive DEF Extend, Bytes
<1>3. \A i \in 1 .. Pieces :
          Extend([pieces |-> i - 1, torn |-> FALSE], i) = [pieces |-> i, torn |-> FALSE]
  <2> SUFFICES ASSUME NEW i \in 1 .. Pieces
               PROVE  Extend([pieces |-> i - 1, torn |-> FALSE], i) = [pieces |-> i, torn |-> FALSE]
    OBVIOUS
  <2>1. (i - 1) + 1 = i
    BY PiecesIsPositive
  <2>2. (FALSE \/ i # (i - 1) + 1) = FALSE
    BY <2>1
  <2>3. QED BY <2>2 DEF Extend
<1>4. QED BY <1>1, <1>2, <1>3

(* A call starts as a well-formed job that has done nothing. *)
LEMMA IdleIsJob ==
    /\ Idle \in Job
    /\ \A o \in Outcomes : Blank("ended", o) \in Job
    /\ NoJobs \in [Calls -> Job]
<1>1. 1 \in 1 .. Pieces /\ 0 \in 0 .. Attempts - 1
  BY PiecesIsPositive, AttemptsIsPositive
<1>2. Idle \in Job
  BY <1>1 DEF Idle, Blank, Job, Stages, Answers, Kinds, Outcomes
<1>3. \A o \in Outcomes : Blank("ended", o) \in Job
  BY <1>1 DEF Idle, Blank, Job, Stages, Answers, Kinds, Outcomes
<1>4. QED BY <1>2, <1>3 DEF NoJobs

(* The lowest tier of the band is the floor. *)
LEMMA FloorIsInBand == Floor \in Band
BY QualityIsValid DEF Band, Tiers

(***************************************************************************)
(* Steps of one call.                                                      *)
(***************************************************************************)
(* What the invariant says of one call. *)
Good(c) == Owned(c) /\ BestTier(c) /\ Fresh(c) /\ Staged(c) /\ OutcomeIsLast(c)

(* A step of c while the workers run: no other call's state changes. *)
Local(c) ==
    /\ phase = "open" /\ phase' = phase /\ cancelled' = cancelled
    /\ job' = [job EXCEPT ![c] = job'[c]]
    /\ part' = [part EXCEPT ![c] = part'[c]]
    /\ scratch' = [scratch EXCEPT ![c] = scratch'[c]]
    /\ stuck' \subseteq Calls /\ synced' \subseteq Calls
    /\ \A d \in Calls \ {c} : (d \in stuck' <=> d \in stuck) /\ (d \in synced' <=> d \in synced)

Typed(c) ==
    /\ job[c] \in Job
    /\ part[c] \in Bytes \cup {NoFile}
    /\ scratch[c] \in Bytes \cup {NoFile}

(* It preserves the types and what holds of every call if it does so for c. *)
LEMMA LocalStep ==
    ASSUME IInv, NEW c \in Calls, Local(c), Typed(c)', Good(c)'
    PROVE  /\ phase' \in {"closed", "open"}
           /\ cancelled' \in BOOLEAN
           /\ job' \in [Calls -> Job]
           /\ part' \in [Calls -> Bytes \cup {NoFile}]
           /\ scratch' \in [Calls -> Bytes \cup {NoFile}]
           /\ stuck' \subseteq Calls /\ synced' \subseteq Calls
           /\ ClosedIsIdle'
           /\ \A d \in Calls : Good(d)'
<1>1. /\ phase' \in {"closed", "open"}
      /\ cancelled' \in BOOLEAN
      /\ job' \in [Calls -> Job]
      /\ part' \in [Calls -> Bytes \cup {NoFile}]
      /\ scratch' \in [Calls -> Bytes \cup {NoFile}]
      /\ stuck' \subseteq Calls /\ synced' \subseteq Calls
  BY DEF IInv, TypeOK, Local, Typed
<1>2. ClosedIsIdle'
  BY DEF Local, ClosedIsIdle
<1>3. ASSUME NEW d \in Calls PROVE Good(d)'
  <2>1. CASE d = c
    BY <2>1
  <2>2. CASE d # c
    <3>1. /\ job'[d] = job[d] /\ part'[d] = part[d] /\ scratch'[d] = scratch[d]
          /\ d \in stuck' <=> d \in stuck
          /\ d \in synced' <=> d \in synced
      BY <2>2 DEF IInv, TypeOK, Local
    <3>2. Good(d)
      BY DEF IInv, Good, StagingIsOwned, BestTierObtained
    <3>3. Owned(d)' /\ OutcomeIsLast(d)'
      BY <3>1, <3>2 DEF Good, Owned, OutcomeIsLast, Local
    <3>4. BestTier(d)' /\ Fresh(d)'
      BY <3>1, <3>2 DEF Good, BestTier, Fresh
    <3>5. Staged(d)'
      BY <3>1, <3>2 DEF Good, Staged, FetchedSoFar
    <3>6. QED BY <3>3, <3>4, <3>5 DEF Good
  <2>3. QED BY <2>1, <2>2
<1>4. QED BY <1>1, <1>2, <1>3

(* A step that changes no file and does not pretend to have published one. *)
LEMMA QuietStep ==
    ASSUME IInv, NEW c \in Calls, Local(c), Typed(c)', Good(c)', UNCHANGED library,
           job'[c].stage # "syncdir"
    PROVE  IInv'
<1>1. TypeOK'
  BY LocalStep DEF IInv, TypeOK, library
<1>2. WholeFiles'
  BY DEF IInv, WholeFiles, library
<1>3. PublishedStays'
  BY DEF IInv, TypeOK, PublishedStays, library, Local
<1>4. QED
  BY <1>1, <1>2, <1>3, LocalStep DEF IInv, Good, StagingIsOwned, BestTierObtained

(* The deferred clean-up leaves nothing of the call but its outcome. *)
LEMMA Ending ==
    ASSUME IInv, NEW c \in Calls, NEW o \in Outcomes \ {"none"}, EndWith(c, o), phase = "open",
           UNCHANGED <<phase, cancelled>>
    PROVE  Local(c) /\ Typed(c)' /\ Good(c)' /\ job'[c].stage = "ended"
<1>1. /\ job' = [job EXCEPT ![c] = Blank("ended", o)]
      /\ part' \in {part, [part EXCEPT ![c] = NoFile]}
      /\ scratch' \in {scratch, [scratch EXCEPT ![c] = NoFile]}
      /\ stuck' = stuck \cup {d \in {c} : part'[d] # NoFile \/ scratch'[d] # NoFile}
      /\ synced' = synced \ {c}
  BY DEF EndWith, RemoveStaging, AfterRemoval, StuckIfLeft
<1>2. /\ job'[c] = Blank("ended", o)
      /\ part'[c] \in {part[c], NoFile} /\ scratch'[c] \in {scratch[c], NoFile}
      /\ part' = [part EXCEPT ![c] = part'[c]] /\ scratch' = [scratch EXCEPT ![c] = scratch'[c]]
      /\ part'[c] # NoFile \/ scratch'[c] # NoFile => c \in stuck'
  BY <1>1 DEF IInv, TypeOK
<1>3. Local(c)
  <2>1. /\ stuck' \subseteq Calls /\ synced' \subseteq Calls
        /\ \A d \in Calls \ {c} : (d \in stuck' <=> d \in stuck) /\ (d \in synced' <=> d \in synced)
    BY <1>1 DEF IInv, TypeOK
  <2>2. job' = [job EXCEPT ![c] = job'[c]]
    BY <1>1, <1>2
  <2>3. QED BY <1>2, <2>1, <2>2 DEF Local
<1>4. Typed(c)'
  <2>1. Typed(c)
    BY DEF IInv, TypeOK, Typed
  <2>2. QED BY <1>2, <2>1, IdleIsJob DEF Typed
<1>5. job'[c].stage = "ended" /\ job'[c].outcome = o
  BY <1>2 DEF Blank
<1>6. Good(c)'
  BY <1>2, <1>5 DEF Good, Owned, BestTier, Fresh, Staged, OutcomeIsLast, Staging
<1>7. QED BY <1>3, <1>4, <1>5, <1>6

(* A step that changes only c's job. *)
LEMMA JobStep ==
    ASSUME IInv, NEW c \in Calls, NEW j \in Job, phase = "open", job' = [job EXCEPT ![c] = j],
           UNCHANGED <<phase, cancelled, staging, library>>, Good(c)', j.stage # "syncdir"
    PROVE  IInv'
<1>1. job'[c] = j
  BY DEF IInv, TypeOK
<1>2. Local(c) /\ Typed(c)'
  BY <1>1 DEF IInv, TypeOK, Local, Typed, staging
<1>3. QED BY <1>1, <1>2, QuietStep

(***************************************************************************)
(* The steps of the descent and of the fetching.                           *)
(***************************************************************************)
(* The invariant at one call, unfolded from its quantifiers. *)
LEMMA GoodNow ==
    ASSUME IInv, NEW c \in Calls
    PROVE  Good(c) /\ Typed(c)
BY DEF IInv, Good, Typed, TypeOK, StagingIsOwned, BestTierObtained

(* Begin. *)
LEMMA BeginStep ==
    ASSUME IInv, NEW c \in Calls, Begin(c)
    PROVE  IInv'
<1> DEFINE j == [job[c] EXCEPT !.stage = "info"]
<1>1. j \in Job /\ job' = [job EXCEPT ![c] = j] /\ job'[c] = j
  BY GoodNow DEF Begin, Move, Typed, Job, Stages, IInv, TypeOK
<1>2. /\ j.stage = "info" /\ j.next = job[c].next /\ j.answers = job[c].answers
      /\ j.outcome = job[c].outcome /\ job[c].stage = "idle"
  BY GoodNow DEF Begin, At, Typed, Job
<1>3. Good(c)'
  BY <1>1, <1>2, GoodNow
  DEF Good, Owned, BestTier, Fresh, Staged, OutcomeIsLast, Begin, At, staging, Staging
<1>4. QED BY <1>1, <1>2, <1>3, JobStep DEF Begin, At

(* A granted tier ends the descent: every higher one has been answered. *)
LEMMA GrantStep ==
    ASSUME IInv, NEW c \in Calls, NEW q \in Band, NEW granted \in Grants,
           NEW kind \in Kinds \ {"none"}, Grant(c, q, granted, kind)
    PROVE  IInv'
<1> DEFINE j == [job[c] EXCEPT !.stage = "open", !.answers[q] = "granted",
                               !.granted = granted, !.kind = kind]
<1>1. job' = [job EXCEPT ![c] = j] /\ job'[c] = j
  BY GoodNow DEF Grant, IInv, TypeOK
<1>2. /\ j.stage = "open" /\ j.next = job[c].next /\ j.tries = job[c].tries
      /\ j.answers = [job[c].answers EXCEPT ![q] = "granted"]
      /\ j.granted = granted /\ j.kind = kind
      /\ j.outcome = job[c].outcome /\ job[c].stage = "info"
  BY GoodNow DEF Grant, At, Typed, Job
<1>3. job[c].answers \in [Band -> Answers]
  BY GoodNow DEF Typed, Job
<1>4. j \in Job
  BY <1>2, <1>3, GoodNow DEF Typed, Job, Stages, Answers
<1> HIDE DEF j
<1>5. Owned(c)' /\ Fresh(c)' /\ Staged(c)' /\ OutcomeIsLast(c)'
  <2>1. /\ job'[c].stage = "open" /\ job'[c].next = job[c].next
        /\ job'[c].outcome = job[c].outcome /\ job[c].stage = "info"
    BY <1>1, <1>2
  <2>2. part'[c] = part[c] /\ scratch'[c] = scratch[c] /\ stuck' = stuck /\ phase' = phase
    BY DEF Grant, staging
  <2>3. Good(c)
    BY GoodNow
  <2>4. Owned(c)'
    BY <2>1, <2>2, <2>3 DEF Good, Owned, Staging
  <2>8. job[c].next = 1 /\ job[c].outcome = "none"
    BY <2>1, <2>3 DEF Good, Fresh, OutcomeIsLast
  <2>5. Fresh(c)' /\ OutcomeIsLast(c)'
    BY <2>1, <2>8 DEF Fresh, OutcomeIsLast
  <2>6. Staged(c)'
    BY <2>1 DEF Staged
  <2>7. QED BY <2>4, <2>5, <2>6
<1>6. BestTier(c)'
  <2>1. granted >= Floor
    BY DEF Grant, Accepts
  <2>2. job'[c].answers[q] = "granted"
    BY <1>1, <1>2, <1>3
  <2>3. ASSUME NEW r \in Band, r > q
        PROVE  job'[c].answers[r] \in {"subFloor", "unavailable", "transient"}
    <3>1. r # q
      BY <2>3 DEF Band, Tiers
    <3>2. job[c].answers[r] \notin {"unasked", "granted"}
      BY <1>2, <2>3, GoodNow DEF Grant, NextTier, Good, Fresh
    <3>3. QED BY <1>1, <1>2, <1>3, <3>1, <3>2 DEF Answers
  <2>4. QED BY <1>1, <1>2, <2>1, <2>2, <2>3 DEF BestTier
<1>7. QED BY <1>1, <1>2, <1>4, <1>5, <1>6, JobStep DEF Grant, At, Good

(* A refused tier: the descent goes on without a grant. *)
LEMMA DescendStep ==
    ASSUME IInv, NEW c \in Calls, NEW q \in Band, NEW granted,
           NEW answer \in {"subFloor", "unavailable", "transient"},
           Descend(c, q, granted, answer)
    PROVE  IInv'
<1> DEFINE j == [job[c] EXCEPT !.answers[q] = answer]
<1>1. job' = [job EXCEPT ![c] = j] /\ job'[c] = j
  BY GoodNow DEF Descend, IInv, TypeOK
<1>2. /\ j.stage = "info" /\ j.next = job[c].next /\ j.outcome = job[c].outcome
      /\ j.answers = [job[c].answers EXCEPT ![q] = answer] /\ job[c].stage = "info"
  BY GoodNow DEF Descend, At, Typed, Job
<1>3. job[c].answers \in [Band -> Answers]
  BY GoodNow DEF Typed, Job
<1>4. j \in Job
  BY <1>2, <1>3, GoodNow DEF Typed, Job, Answers
<1>5. Owned(c)' /\ BestTier(c)' /\ Staged(c)' /\ OutcomeIsLast(c)'
  BY <1>1, <1>2, GoodNow
  DEF Good, Owned, BestTier, Staged, OutcomeIsLast, Descend, At, staging, Staging
<1>6. Fresh(c)'
  BY <1>1, <1>2, <1>3, GoodNow DEF Good, Fresh
<1>7. QED BY <1>1, <1>2, <1>4, <1>5, <1>6, JobStep DEF Descend, At, Good

(* A call that has something to fetch keeps what it has fetched when it asks
   (again) for the next body. *)
LEMMA AskStep ==
    ASSUME IInv, NEW c \in Calls, NEW s \in {"fetch", "body"}, NEW n \in 0 .. Attempts - 1,
           phase = "open", job[c].stage \in {"fetch", "body"},
           job' = [job EXCEPT ![c].stage = s, ![c].tries = n],
           UNCHANGED <<phase, cancelled, staging, library>>
    PROVE  IInv'
<1> DEFINE j == [job[c] EXCEPT !.stage = s, !.tries = n]
<1>1. job' = [job EXCEPT ![c] = j] /\ job'[c] = j
  BY DEF IInv, TypeOK
<1>2. /\ j.stage = s /\ j.next = job[c].next /\ j.answers = job[c].answers
      /\ j.granted = job[c].granted /\ j.kind = job[c].kind /\ j.outcome = job[c].outcome
  BY GoodNow DEF Typed, Job
<1>3. j \in Job
  BY GoodNow DEF Typed, Job, Stages, Staging
<1> HIDE DEF j
<1>4. Owned(c)' /\ Fresh(c)' /\ OutcomeIsLast(c)'
  BY <1>1, <1>2, GoodNow DEF Good, Owned, Fresh, OutcomeIsLast, staging, Staging
<1>5. BestTier(c)'
  <2>1. /\ job'[c].answers = job[c].answers /\ job'[c].granted = job[c].granted
        /\ BestTier(c) /\ job[c].stage \in Staging
    BY <1>1, <1>2, GoodNow DEF Good, Staging
  <2>2. QED BY <2>1 DEF BestTier
<1>6. Staged(c)'
  <2>1. part'[c] = part[c] /\ scratch'[c] = scratch[c]
    BY DEF staging
  <2>2. /\ job'[c].kind = job[c].kind /\ job'[c].stage \in {"fetch", "body"}
        /\ FetchedSoFar(c)' = FetchedSoFar(c)
    BY <1>1, <1>2 DEF FetchedSoFar
  <2>3. QED BY <2>1, <2>2, GoodNow DEF Good, Staged
<1>7. QED BY <1>1, <1>2, <1>3, <1>4, <1>5, <1>6, JobStep DEF Good

(* Every error on the way out of Download is an outcome. *)
LEMMA NoGrantIsOutcome ==
    ASSUME IInv, NEW c \in Calls, GiveUp(c)
    PROVE  NoGrant(job[c].answers) \in Outcomes \ {"none"}
<1>1. job[c].answers[Floor] \in Answers \ {"unasked", "granted"}
  BY GoodNow, FloorIsInBand DEF GiveUp, At, Good, Fresh, Typed, Job
<1>2. CASE \E q \in Band : job[c].answers[q] = "subFloor"
  BY <1>2 DEF NoGrant, Outcomes
<1>3. CASE ~\E q \in Band : job[c].answers[q] = "subFloor"
  BY <1>1, <1>3, FloorIsInBand DEF NoGrant, Outcomes, Answers
<1>4. QED BY <1>2, <1>3

(* Whatever ends a call without a rename leaves the library alone. *)
LEMMA EndStep ==
    ASSUME IInv, NEW c \in Calls, NEW o \in Outcomes \ {"none"}, EndWith(c, o),
           phase = "open", UNCHANGED <<phase, cancelled, library>>
    PROVE  IInv'
<1>1. Local(c) /\ Typed(c)' /\ Good(c)' /\ job'[c].stage = "ended"
  BY Ending
<1>2. QED BY <1>1, QuietStep

(* A failed attempt is repeated or ends the call. *)
LEMMA RetryStep ==
    ASSUME IInv, NEW c \in Calls, Retry(c), phase = "open", job[c].stage \in {"fetch", "body"}
    PROVE  IInv'
<1>1. job[c].tries \in 0 .. Attempts - 1
  BY GoodNow DEF Typed, Job
<1>2. CASE /\ job[c].tries + 1 < Attempts
           /\ job' = [job EXCEPT ![c].stage = "fetch", ![c].tries = @ + 1]
           /\ UNCHANGED <<phase, cancelled, staging, library>>
  <2>1. job[c].tries + 1 \in 0 .. Attempts - 1
    BY <1>1, <1>2, AttemptsIsPositive
  <2>2. QED BY <1>2, <2>1, AskStep
<1>3. CASE EndWith(c, "transient") /\ UNCHANGED <<phase, cancelled, library>>
  BY <1>3, EndStep DEF Outcomes
<1>4. QED BY <1>2, <1>3 DEF Retry

(* The steps that end a call before it has published anything. *)
LEMMA GivingUpSteps ==
    ASSUME IInv, NEW c \in Calls,
           \/ GiveUp(c) \/ Reject(c) \/ CopyBreaks(c) \/ AppendFails(c) \/ DemuxFails(c)
           \/ FileStepFails(c) \/ Stop(c)
    PROVE  IInv'
<1>1. CASE GiveUp(c)
  BY <1>1, NoGrantIsOutcome, EndStep DEF GiveUp, At
<1>2. CASE Reject(c)
  BY <1>2, EndStep DEF Reject, At, Outcomes
<1>3. CASE CopyBreaks(c)
  BY <1>3, EndStep DEF CopyBreaks, At, Outcomes
<1>4. CASE FileStepFails(c)
  BY <1>4, EndStep DEF FileStepFails, At, Outcomes
<1>5. CASE Stop(c)
  BY <1>5, EndStep DEF Stop, At, Outcomes
<1>6. CASE AppendFails(c) \/ DemuxFails(c)
  BY <1>6, EndStep DEF AppendFails, DemuxFails, At, Outcomes
<1>7. QED BY <1>1, <1>2, <1>3, <1>4, <1>5, <1>6

(***************************************************************************)
(* The steps of the staged write.                                          *)
(***************************************************************************)
(* A call that advances keeps the grant it stages; it is still not ended. *)
LEMMA Advancing ==
    ASSUME IInv, NEW c \in Calls, NEW j \in Job, job' = [job EXCEPT ![c] = j],
           job[c].stage \in Staging \cup {"open"}, j.stage \in Staging \cup {"syncdir"},
           j.answers = job[c].answers, j.granted = job[c].granted, j.outcome = job[c].outcome
    PROVE  job'[c] = j /\ BestTier(c)' /\ Fresh(c)' /\ OutcomeIsLast(c)'
<1>1. job'[c] = j
  BY DEF IInv, TypeOK
<1>2. /\ job'[c].answers = job[c].answers /\ job'[c].granted = job[c].granted
      /\ BestTier(c)
  BY <1>1, GoodNow DEF Good
<1>3. BestTier(c)'
  BY <1>2 DEF BestTier
<1>4. Fresh(c)' /\ OutcomeIsLast(c)'
  BY <1>1, GoodNow DEF Good, Fresh, OutcomeIsLast, Staging
<1>5. QED BY <1>1, <1>3, <1>4

(* Moving to another stage changes nothing else of a job. *)
LEMMA Moving ==
    ASSUME IInv, NEW c \in Calls, NEW s \in Stages, Move(c, s)
    PROVE  \E j \in Job :
              /\ job' = [job EXCEPT ![c] = j]
              /\ j.stage = s /\ j.answers = job[c].answers /\ j.granted = job[c].granted
              /\ j.kind = job[c].kind /\ j.next = job[c].next /\ j.tries = job[c].tries
              /\ j.outcome = job[c].outcome
<1> DEFINE j == [job[c] EXCEPT !.stage = s]
<1>1. job' = [job EXCEPT ![c] = j]
  BY DEF Move
<1>2. j \in Job
  BY GoodNow DEF Typed, Job
<1>3. /\ j.stage = s /\ j.answers = job[c].answers /\ j.granted = job[c].granted
      /\ j.kind = job[c].kind /\ j.next = job[c].next /\ j.tries = job[c].tries
      /\ j.outcome = job[c].outcome
  BY GoodNow DEF Typed, Job
<1>4. QED BY <1>1, <1>2, <1>3

(* The part file starts empty. *)
LEMMA OpenPartStep ==
    ASSUME IInv, NEW c \in Calls, OpenPart(c)
    PROVE  IInv'
<1>1. PICK j \in Job :
          /\ job' = [job EXCEPT ![c] = j]
          /\ j.stage = "fetch" /\ j.answers = job[c].answers /\ j.granted = job[c].granted
          /\ j.kind = job[c].kind /\ j.next = job[c].next /\ j.outcome = job[c].outcome
  BY Moving DEF OpenPart, Stages, Staging
<1>2. job'[c] = j /\ BestTier(c)' /\ Fresh(c)' /\ OutcomeIsLast(c)'
  BY <1>1, Advancing DEF OpenPart, At, Staging
<1>3. /\ part'[c] = Empty
      /\ scratch'[c] = IF job[c].kind = "dash" THEN Empty ELSE NoFile
  BY DEF OpenPart, IInv, TypeOK
<1>4. Local(c) /\ Typed(c)'
  BY <1>1, <1>2, <1>3, BytesAreBytes DEF OpenPart, At, Local, Typed, IInv, TypeOK
<1>5. Owned(c)'
  BY <1>1, <1>2 DEF Owned, Staging
<1>6. FetchedSoFar(c)' = Empty
  <2>1. job[c].next = 1
    BY GoodNow DEF Good, Fresh, OpenPart, At
  <2>2. job'[c].next - 1 = 0
    BY <1>1, <1>2, <2>1
  <2>3. QED BY <2>2 DEF FetchedSoFar, Empty
<1>7. Staged(c)'
  <2>1. job'[c].stage = "fetch" /\ job'[c].kind \in {"bts", "dash"} /\ job[c].kind = job'[c].kind
    BY <1>1, <1>2 DEF OpenPart
  <2>2. QED BY <1>3, <1>6, <2>1 DEF Staged
<1>8. QED BY <1>1, <1>2, <1>4, <1>5, <1>7, QuietStep DEF Good, OpenPart

(* A 200 response leaves the staged bytes alone. *)
LEMMA GetBodyStep ==
    ASSUME IInv, NEW c \in Calls, GetBody(c)
    PROVE  IInv'
<1>1. PICK j \in Job :
          /\ job' = [job EXCEPT ![c] = j]
          /\ j.stage = "body" /\ j.answers = job[c].answers /\ j.granted = job[c].granted
          /\ j.kind = job[c].kind /\ j.next = job[c].next /\ j.outcome = job[c].outcome
  BY Moving DEF GetBody, Stages, Staging
<1>2. job'[c] = j /\ BestTier(c)' /\ Fresh(c)' /\ OutcomeIsLast(c)'
  BY <1>1, Advancing DEF GetBody, At, Staging
<1>3. Owned(c)'
  BY <1>1, <1>2 DEF Owned, Staging
<1>4. Staged(c)'
  <2>1. /\ part'[c] = part[c] /\ scratch'[c] = scratch[c] /\ FetchedSoFar(c)' = FetchedSoFar(c)
        /\ job'[c].stage = "body" /\ job'[c].kind = job[c].kind /\ job[c].stage = "fetch"
    BY <1>1, <1>2 DEF GetBody, At, staging, FetchedSoFar
  <2>2. QED BY <2>1, GoodNow DEF Good, Staged
<1>5. QED BY <1>1, <1>2, <1>3, <1>4, JobStep DEF GetBody, At, Good

(* After a body the next one is asked for, or the stream is complete. *)
LEMMA NextPieceJob ==
    ASSUME IInv, NEW c \in Calls, NEW after \in {"sync", "demux"}, NextPiece(c, after)
    PROVE  \E j \in Job :
              /\ job' = [job EXCEPT ![c] = j]
              /\ j.answers = job[c].answers /\ j.granted = job[c].granted
              /\ j.kind = job[c].kind /\ j.outcome = job[c].outcome
              /\ \/ j.stage = "fetch" /\ j.next - 1 = job[c].next
                 \/ j.stage = after /\ job[c].next = Pieces
<1>1. job[c].next \in 1 .. Pieces /\ Pieces \in Nat
  BY GoodNow, PiecesIsPositive DEF Typed, Job
<1>2. CASE job[c].next < Pieces
  <2> DEFINE j == [job[c] EXCEPT !.stage = "fetch", !.next = @ + 1, !.tries = 0]
  <2>1. job' = [job EXCEPT ![c] = j]
    BY <1>2 DEF NextPiece
  <2>2. /\ j.stage = "fetch" /\ j.next = job[c].next + 1 /\ j.answers = job[c].answers
        /\ j.granted = job[c].granted /\ j.kind = job[c].kind /\ j.outcome = job[c].outcome
    BY GoodNow DEF Typed, Job
  <2>3. job[c].next + 1 \in 1 .. Pieces /\ 0 \in 0 .. Attempts - 1
    BY <1>1, <1>2, AttemptsIsPositive
  <2>4. j \in Job
    BY <2>3, GoodNow DEF Typed, Job, Stages, Staging
  <2>5. j.next - 1 = job[c].next
    BY <1>1, <2>2
  <2>6. QED BY <2>1, <2>2, <2>4, <2>5
<1>3. CASE ~(job[c].next < Pieces)
  <2>1. job[c].next = Pieces
    BY <1>1, <1>3
  <2>2. Move(c, after)
    BY <1>3 DEF NextPiece
  <2>3. after \in Stages
    BY DEF Stages, Staging
  <2>4. QED BY <2>1, <2>2, <2>3, Moving
<1>4. QED BY <1>2, <1>3

(* The body lies behind those fetched before it. *)
LEMMA ExtendsFetched ==
    ASSUME IInv, NEW c \in Calls
    PROVE  /\ Extend(FetchedSoFar(c), job[c].next) = [pieces |-> job[c].next, torn |-> FALSE]
           /\ Extend(FetchedSoFar(c), job[c].next) \in Bytes
<1>1. job[c].next \in 1 .. Pieces
  BY GoodNow DEF Typed, Job
<1>2. Extend(FetchedSoFar(c), job[c].next) = [pieces |-> job[c].next, torn |-> FALSE]
  BY <1>1, BytesAreBytes DEF FetchedSoFar
<1>3. job[c].next \in 0 .. Pieces
  BY <1>1, PiecesIsPositive
<1>4. QED BY <1>2, <1>3 DEF Bytes

(* A BTS body completes the part file or brings it one body further. *)
LEMMA CopyBodyStep ==
    ASSUME IInv, NEW c \in Calls, CopyBody(c)
    PROVE  IInv'
<1>1. PICK j \in Job :
          /\ job' = [job EXCEPT ![c] = j]
          /\ j.answers = job[c].answers /\ j.granted = job[c].granted
          /\ j.kind = job[c].kind /\ j.outcome = job[c].outcome
          /\ \/ j.stage = "fetch" /\ j.next - 1 = job[c].next
             \/ j.stage = "sync" /\ job[c].next = Pieces
  BY NextPieceJob DEF CopyBody
<1>2. job'[c] = j /\ BestTier(c)' /\ Fresh(c)' /\ OutcomeIsLast(c)'
  BY <1>1, Advancing DEF CopyBody, At, Staging
<1>3. part[c] = FetchedSoFar(c) /\ scratch'[c] = NoFile
  BY GoodNow DEF Good, Staged, CopyBody, At
<1>4. part'[c] = [pieces |-> job[c].next, torn |-> FALSE] /\ part'[c] \in Bytes
  BY <1>3, ExtendsFetched DEF CopyBody, IInv, TypeOK
<1>5. Local(c) /\ Typed(c)'
  BY <1>1, <1>2, <1>4 DEF CopyBody, At, Local, Typed, IInv, TypeOK
<1>6. Owned(c)'
  BY <1>1, <1>2 DEF Owned, Staging
<1>7. Staged(c)'
  <2>1. CASE job'[c].stage = "fetch"
    <3>1. part'[c] = FetchedSoFar(c)' /\ job'[c].kind = "bts"
      BY <1>1, <1>2, <1>4, <2>1 DEF FetchedSoFar, CopyBody
    <3>2. QED BY <1>3, <2>1, <3>1 DEF Staged
  <2>2. CASE job'[c].stage = "sync"
    <3>1. part'[c] = Whole
      BY <1>1, <1>2, <1>4, <2>2 DEF Whole
    <3>2. QED BY <1>3, <2>2, <3>1 DEF Staged
  <2>3. QED BY <1>1, <1>2, <2>1, <2>2
<1>8. QED BY <1>1, <1>2, <1>5, <1>6, <1>7, QuietStep DEF Good, CopyBody

(* A DASH segment does the same to the scratch container. *)
LEMMA AppendSegmentStep ==
    ASSUME IInv, NEW c \in Calls, AppendSegment(c)
    PROVE  IInv'
<1>1. PICK j \in Job :
          /\ job' = [job EXCEPT ![c] = j]
          /\ j.answers = job[c].answers /\ j.granted = job[c].granted
          /\ j.kind = job[c].kind /\ j.outcome = job[c].outcome
          /\ \/ j.stage = "fetch" /\ j.next - 1 = job[c].next
             \/ j.stage = "demux" /\ job[c].next = Pieces
  BY NextPieceJob DEF AppendSegment
<1>2. job'[c] = j /\ BestTier(c)' /\ Fresh(c)' /\ OutcomeIsLast(c)'
  BY <1>1, Advancing DEF AppendSegment, At, Staging
<1>3. scratch[c] = FetchedSoFar(c)
  BY GoodNow DEF Good, Staged, AppendSegment, At
<1>4. scratch'[c] = [pieces |-> job[c].next, torn |-> FALSE] /\ scratch'[c] \in Bytes
  BY <1>3, ExtendsFetched DEF AppendSegment, IInv, TypeOK
<1>5. Local(c) /\ Typed(c)'
  BY <1>1, <1>2, <1>4 DEF AppendSegment, At, Local, Typed, IInv, TypeOK
<1>6. Owned(c)'
  BY <1>1, <1>2 DEF Owned, Staging
<1>7. Staged(c)'
  <2>1. CASE job'[c].stage = "fetch"
    <3>1. scratch'[c] = FetchedSoFar(c)' /\ job'[c].kind = "dash"
      BY <1>1, <1>2, <1>4, <2>1 DEF FetchedSoFar, AppendSegment
    <3>2. QED BY <2>1, <3>1 DEF Staged
  <2>2. CASE job'[c].stage = "demux"
    <3>1. scratch'[c] = Whole
      BY <1>1, <1>2, <1>4, <2>2 DEF Whole
    <3>2. QED BY <2>2, <3>1 DEF Staged
  <2>3. QED BY <1>1, <1>2, <2>1, <2>2
<1>8. QED BY <1>1, <1>2, <1>5, <1>6, <1>7, QuietStep DEF Good, AppendSegment

(* The complete container becomes the part file; it is then flushed. *)
LEMMA FlushSteps ==
    ASSUME IInv, NEW c \in Calls, Demux(c) \/ Sync(c)
    PROVE  IInv'
<1>1. PICK s \in {"sync", "rename"}, j \in Job :
          /\ Move(c, s) /\ job' = [job EXCEPT ![c] = j] /\ j.stage = s
          /\ j.answers = job[c].answers /\ j.granted = job[c].granted
          /\ j.outcome = job[c].outcome /\ (s = "rename" => Sync(c))
  <2>1. CASE Demux(c)
    <3>1. ~Sync(c)
      BY <2>1 DEF Demux, Sync, At
    <3>2. QED BY <2>1, <3>1, Moving DEF Demux, Stages, Staging
  <2>2. CASE Sync(c)
    BY <2>2, Moving DEF Sync, Stages, Staging
  <2>3. QED BY <2>1, <2>2
<1>2. job'[c] = j /\ BestTier(c)' /\ Fresh(c)' /\ OutcomeIsLast(c)'
  <2>1. job[c].stage \in Staging \cup {"open"}
    BY DEF Demux, Sync, At, Staging
  <2>2. j.stage \in Staging \cup {"syncdir"}
    BY <1>1 DEF Staging
  <2>3. QED BY <1>1, <2>1, <2>2, Advancing
<1>3. part'[c] = Whole /\ (scratch'[c] = NoFile \/ c \in stuck')
  <2>1. CASE Demux(c)
    <3>1. scratch[c] = Whole
      BY <2>1, GoodNow DEF Demux, At, Good, Staged
    <3>2. QED BY <2>1, <3>1 DEF Demux, IInv, TypeOK
  <2>2. CASE Sync(c)
    BY <2>2, GoodNow DEF Sync, At, Good, Staged
  <2>3. QED BY <2>1, <2>2
<1>4. Local(c) /\ Typed(c)'
  <2>1. /\ part' = [part EXCEPT ![c] = part'[c]] /\ scratch' = [scratch EXCEPT ![c] = scratch'[c]]
        /\ scratch'[c] \in {scratch[c], NoFile}
    BY DEF Demux, Sync, AfterRemoval, IInv, TypeOK
  <2>2. /\ stuck' \subseteq Calls /\ synced' \subseteq Calls
        /\ \A d \in Calls \ {c} : (d \in stuck' <=> d \in stuck) /\ (d \in synced' <=> d \in synced)
    BY DEF Demux, Sync, IInv, TypeOK
  <2>3. phase = "open" /\ phase' = phase /\ cancelled' = cancelled /\ job' = [job EXCEPT ![c] = job'[c]]
    BY <1>1, <1>2 DEF Demux, Sync, At
  <2>4. QED BY <1>2, <1>3, <2>1, <2>2, <2>3, GoodNow, BytesAreBytes DEF Local, Typed
<1>5. Owned(c)'
  BY <1>1, <1>2 DEF Owned, Staging
<1>6. Staged(c)'
  <2>1. job'[c].stage = s
    BY <1>1, <1>2
  <2>2. s = "rename" => c \in synced'
    BY <1>1 DEF Sync
  <2>3. QED BY <1>1, <1>3, <2>1, <2>2 DEF Staged
<1>7. UNCHANGED library
  BY DEF Demux, Sync
<1>8. QED BY <1>1, <1>2, <1>4, <1>5, <1>6, <1>7, QuietStep DEF Good

(***************************************************************************)
(* Publication.                                                            *)
(***************************************************************************)
(* What a flushed part file leaves after a power loss is the whole stream. *)
LEMMA SurvivorIsWhole ==
    ASSUME IInv, NEW c \in Calls, Rename(c)
    PROVE  /\ part[c] = Whole
           /\ Survivors(c) = {[of |-> c, bytes |-> Whole]}
           /\ [of |-> c, bytes |-> Whole] \in File
           /\ [of |-> c, bytes |-> Whole] # NoFile
<1>1. part[c] = Whole /\ c \in synced
  BY GoodNow DEF Good, Staged, Rename, At
<1>2. [of |-> c, bytes |-> Whole] \in File
  BY BytesAreBytes DEF File
<1>3. QED BY <1>1, <1>2, NoFileIsNoFile DEF Survivors

(* The rename publishes a whole file. *)
LEMMA RenameStep ==
    ASSUME IInv, NEW c \in Calls, Rename(c)
    PROVE  IInv'
<1> DEFINE x == [of |-> c, bytes |-> Whole]
<1>1. PICK j \in Job :
          /\ job' = [job EXCEPT ![c] = j]
          /\ j.stage = "syncdir" /\ j.answers = job[c].answers /\ j.granted = job[c].granted
          /\ j.outcome = job[c].outcome
  BY Moving DEF Rename, Stages
<1>2. job'[c] = j /\ BestTier(c)' /\ Fresh(c)' /\ OutcomeIsLast(c)'
  BY <1>1, Advancing DEF Rename, At, Staging
<1>3. part'[c] = NoFile /\ (scratch'[c] = NoFile \/ c \in stuck') /\ scratch'[c] = scratch[c]
  BY GoodNow DEF Rename, At, Good, Staged, IInv, TypeOK
<1>4. Local(c) /\ Typed(c)'
  BY <1>1, <1>2, <1>3 DEF Rename, At, Local, Typed, IInv, TypeOK
<1>5. Good(c)'
  BY <1>1, <1>2, <1>3 DEF Good, Owned, Staged
<1>6. Dest[c] \in Paths
  BY DestIsPath
<1>7. /\ file' = [file EXCEPT ![Dest[c]] = x]
      /\ lasting' = [lasting EXCEPT ![Dest[c]] = @ \cup {x}]
  BY SurvivorIsWhole DEF Rename
<1>8. x \in File /\ x # NoFile /\ x.bytes = Whole
  BY SurvivorIsWhole
<1> HIDE DEF x
<1>9. TypeOK'
  BY <1>4, <1>5, <1>6, <1>7, <1>8, LocalStep DEF IInv, TypeOK
<1>10. WholeFiles'
  <2> SUFFICES ASSUME NEW f \in Paths, NEW y \in lasting'[f] \cup {file'[f]}, y # NoFile
               PROVE  y.bytes = Whole
    BY DEF WholeFiles
  <2>1. y \in lasting[f] \cup {file[f]} \/ y = x
    BY <1>6, <1>7 DEF IInv, TypeOK
  <2>2. QED BY <1>8, <2>1 DEF IInv, WholeFiles
<1>11. PublishedStays'
  <2> SUFFICES ASSUME NEW d \in Calls, job'[d].stage = "syncdir" PROVE file'[Dest[d]] # NoFile
    BY DEF PublishedStays
  <2>1. Dest[d] \in Paths
    BY DestIsPath
  <2>2. CASE Dest[d] = Dest[c]
    BY <1>6, <1>7, <1>8, <2>2 DEF IInv, TypeOK
  <2>3. CASE Dest[d] # Dest[c]
    BY <1>1, <1>7, <2>1, <2>3 DEF IInv, TypeOK, PublishedStays
  <2>4. QED BY <2>2, <2>3
<1>12. QED
  BY <1>4, <1>5, <1>9, <1>10, <1>11, LocalStep
  DEF IInv, Good, StagingIsOwned, BestTierObtained

(* Syncing the directory makes the published file the only one left. *)
LEMMA SyncDirStep ==
    ASSUME IInv, NEW c \in Calls, SyncDir(c)
    PROVE  IInv'
<1>1. Local(c) /\ Typed(c)' /\ Good(c)' /\ job'[c].stage = "ended"
  BY Ending DEF SyncDir, At, Outcomes
<1>2. Dest[c] \in Paths
  BY DestIsPath
<1>3. file' = file /\ lasting' = [lasting EXCEPT ![Dest[c]] = {file[Dest[c]]}]
  BY DEF SyncDir
<1>4. TypeOK'
  BY <1>1, <1>2, <1>3, LocalStep DEF IInv, TypeOK
<1>5. WholeFiles'
  <2> SUFFICES ASSUME NEW f \in Paths, NEW y \in lasting'[f] \cup {file'[f]}, y # NoFile
               PROVE  y.bytes = Whole
    BY DEF WholeFiles
  <2>1. y \in lasting[f] \cup {file[f]}
    BY <1>2, <1>3 DEF IInv, TypeOK
  <2>2. QED BY <2>1 DEF IInv, WholeFiles
<1>6. PublishedStays'
  BY <1>1, <1>3 DEF IInv, TypeOK, PublishedStays, Local
<1>7. QED
  BY <1>1, <1>4, <1>5, <1>6, LocalStep DEF IInv, Good, StagingIsOwned, BestTierObtained

(* Every step a call takes. *)
LEMMA CallStepInv ==
    ASSUME IInv, NEW c \in Calls, CallStep(c)
    PROVE  IInv'
<1>1. CASE \E q \in Band, granted \in Grants, kind \in Kinds \ {"none"} :
              Grant(c, q, granted, kind)
  BY <1>1, GrantStep
<1>2. CASE \E q \in Band, granted \in Grants \cup {0},
              answer \in {"subFloor", "unavailable", "transient"} : Descend(c, q, granted, answer)
  BY <1>2, DescendStep
<1>3. CASE GetFails(c) \/ ReadFails(c)
  BY <1>3, RetryStep DEF GetFails, ReadFails, At
<1>4. CASE \/ GiveUp(c) \/ Reject(c) \/ CopyBreaks(c) \/ AppendFails(c) \/ DemuxFails(c)
           \/ FileStepFails(c) \/ Stop(c)
  BY <1>4, GivingUpSteps
<1>5. QED
  BY <1>1, <1>2, <1>3, <1>4, BeginStep, OpenPartStep, GetBodyStep, CopyBodyStep, AppendSegmentStep,
     FlushSteps, RenameStep, SyncDirStep
  DEF CallStep, InfoStep, OwnStep, BodyStep, DemuxStep

(***************************************************************************)
(* Steps of the process.                                                   *)
(***************************************************************************)
(* A process without calls satisfies whatever is said of calls. *)
NoCall == job = NoJobs /\ (phase = "open" => part = Nothing /\ scratch = Nothing)
LEMMA NoCalls == TypeOK /\ WholeFiles /\ NoCall => IInv
<1> SUFFICES ASSUME TypeOK, WholeFiles, NoCall PROVE IInv
  OBVIOUS
<1>1. \A c \in Calls : /\ job[c].stage = "idle" /\ job[c].next = 1 /\ job[c].outcome = "none"
                       /\ \A q \in Band : job[c].answers[q] # "granted"
  BY DEF NoCall, NoJobs, Idle, Blank
<1>2. ClosedIsIdle /\ PublishedStays
  BY <1>1 DEF NoCall, ClosedIsIdle, PublishedStays
<1>3. StagingIsOwned
  BY DEF NoCall, StagingIsOwned, Owned, Nothing
<1>4. BestTierObtained
  BY <1>1 DEF BestTierObtained, BestTier, Staging
<1>5. \A c \in Calls : Fresh(c) /\ Staged(c) /\ OutcomeIsLast(c)
  BY <1>1 DEF Fresh, Staged, OutcomeIsLast
<1>6. QED BY <1>2, <1>3, <1>4, <1>5 DEF IInv

(* The initial state. *)
LEMMA InitInv == Init => IInv
<1> SUFFICES ASSUME Init PROVE IInv
  OBVIOUS
<1>1. TypeOK
  BY IdleIsJob DEF Init, TypeOK, Nothing
<1>2. WholeFiles
  BY DEF Init, WholeFiles
<1>3. QED BY <1>1, <1>2, NoCalls DEF Init, NoCall

(* Steps of the process. *)
LEMMA ProcessStep ==
    ASSUME IInv, Process
    PROVE  IInv'
<1>1. TypeOK /\ WholeFiles
  BY DEF IInv
<1>2. CASE Sweep
  <2>1. job = NoJobs
    BY <1>2 DEF Sweep, IInv, ClosedIsIdle
  <2>2. TypeOK'
    BY <1>1, <1>2 DEF Sweep, TypeOK, Nothing, library
  <2>3. WholeFiles'
    BY <1>1, <1>2 DEF Sweep, WholeFiles, library
  <2>4. NoCall'
    BY <1>2, <2>1 DEF Sweep, NoCall
  <2>5. QED BY <2>2, <2>3, <2>4, NoCalls, PTL
<1>3. ASSUME NEW left \in SUBSET Calls, SweepFails(left) PROVE IInv'
  <2>1. TypeOK'
    BY <1>1, <1>3 DEF SweepFails, TypeOK, library
  <2>2. WholeFiles'
    BY <1>1, <1>3 DEF SweepFails, WholeFiles, library
  <2>3. NoCall'
    BY <1>3 DEF SweepFails, IInv, ClosedIsIdle, NoCall
  <2>4. QED BY <2>1, <2>2, <2>3, NoCalls, PTL
<1>4. ASSUME Close, UNCHANGED <<part, scratch, library>> PROVE IInv'
  <2>1. TypeOK'
    BY <1>1, <1>4, IdleIsJob DEF Close, TypeOK, library
  <2>2. WholeFiles'
    BY <1>1, <1>4 DEF WholeFiles, library
  <2>3. NoCall'
    BY <1>4 DEF Close, NoCall
  <2>4. QED BY <2>1, <2>2, <2>3, NoCalls, PTL
<1>5. CASE PowerLoss
  <2>1. \A f \in Paths : file'[f] \in lasting[f] /\ lasting'[f] = {file'[f]}
    BY <1>5 DEF PowerLoss
  <2>2. UNION {lasting[f] : f \in Paths} \subseteq File \cup {NoFile}
    BY <1>1 DEF TypeOK
  <2>3. file' \in [Paths -> File \cup {NoFile}]
    BY <1>5, <2>2 DEF PowerLoss
  <2>4. lasting' \in [Paths -> SUBSET (File \cup {NoFile})]
    BY <1>5, <2>3 DEF PowerLoss
  <2>5. TypeOK'
    BY <1>1, <1>5, <2>3, <2>4, IdleIsJob DEF PowerLoss, Close, TypeOK
  <2>6. WholeFiles'
    BY <1>1, <2>1 DEF WholeFiles
  <2>7. NoCall'
    BY <1>5 DEF PowerLoss, Close, NoCall
  <2>8. QED BY <2>5, <2>6, <2>7, NoCalls, PTL
<1>6. ASSUME NEW f \in Paths, Remove(f) PROVE IInv'
  <2>1. TypeOK'
    BY <1>1, <1>6 DEF Remove, TypeOK, staging
  <2>2. WholeFiles'
    BY <1>1, <1>6 DEF Remove, TypeOK, WholeFiles
  <2>3. NoCall'
    BY <1>6 DEF Remove, IInv, ClosedIsIdle, NoCall
  <2>4. QED BY <2>1, <2>2, <2>3, NoCalls, PTL
<1>7. CASE Cancel
  <2>1. TypeOK'
    BY <1>1, <1>7 DEF Cancel, TypeOK, staging, library
  <2>2. WholeFiles' /\ PublishedStays' /\ ClosedIsIdle'
    BY <1>7 DEF Cancel, IInv, WholeFiles, PublishedStays, ClosedIsIdle, library
  <2>3. StagingIsOwned' /\ BestTierObtained'
    BY <1>7 DEF Cancel, IInv, StagingIsOwned, Owned, BestTierObtained, BestTier, staging
  <2>4. \A c \in Calls : Fresh(c)' /\ Staged(c)' /\ OutcomeIsLast(c)'
    BY <1>7 DEF Cancel, IInv, Fresh, Staged, FetchedSoFar, OutcomeIsLast, staging
  <2>5. QED BY <2>1, <2>2, <2>3, <2>4 DEF IInv
<1>8. QED
  BY <1>2, <1>3, <1>4, <1>5, <1>6, <1>7 DEF Process, EndCycle, Crash

(* Every step keeps the invariant. *)
LEMMA StepInv == IInv /\ [Next]_vars => IInv'
<1> SUFFICES ASSUME IInv, [Next]_vars PROVE IInv'
  OBVIOUS
<1>1. CASE Next
  BY <1>1, CallStepInv, ProcessStep DEF Next
<1>2. CASE UNCHANGED vars
  <2>1. TypeOK'
    BY <1>2 DEF IInv, TypeOK, vars, staging, library
  <2>2. WholeFiles' /\ PublishedStays' /\ ClosedIsIdle'
    BY <1>2 DEF IInv, WholeFiles, PublishedStays, ClosedIsIdle, vars, library
  <2>3. StagingIsOwned' /\ BestTierObtained'
    BY <1>2 DEF IInv, StagingIsOwned, Owned, BestTierObtained, BestTier, vars, staging
  <2>4. \A c \in Calls : Fresh(c)' /\ Staged(c)' /\ OutcomeIsLast(c)'
    BY <1>2 DEF IInv, Fresh, Staged, FetchedSoFar, OutcomeIsLast, vars, staging
  <2>5. QED BY <2>1, <2>2, <2>3, <2>4 DEF IInv
<1>3. QED BY <1>1, <1>2

(***************************************************************************)
(* The theorems.                                                           *)
(***************************************************************************)
(* The inductive invariant holds throughout. *)
THEOREM Invariance == Spec => []IInv
BY InitInv, StepInv, PTL DEF Spec

(* Every variable keeps its type. *)
THEOREM TypeCorrect == Spec => []TypeOK
BY Invariance, PTL DEF IInv

(* Whatever attempt fails and whenever the process or the machine dies, a path
   holds one complete stream or nothing. *)
THEOREM OnlyWholeFiles == Spec => []WholeFiles
BY Invariance, PTL DEF IInv

(* No error path and no sweep leaves a part or scratch file behind. *)
THEOREM NoStrayStaging == Spec => []StagingIsOwned
BY Invariance, PTL DEF IInv

(* What is downloaded is the best tier TIDAL granted, and lossless. *)
THEOREM BestTierIsObtained == Spec => []BestTierObtained
BY Invariance, PTL DEF IInv

(***************************************************************************)
(* Download implements AtomicFile.                                         *)
(***************************************************************************)
(* What the atomic file does not see. *)
LEMMA Unseen ==
    ASSUME UNCHANGED library, \A d \in Calls : Returned(d)' = Returned(d)
    PROVE  UNCHANGED Promise!vars
<1>1. PublishedFile' = PublishedFile /\ PublishedLasting' = PublishedLasting
  BY DEF PublishedFile, PublishedLasting, library
<1>2. Results' = Results
  BY DEF Results
<1>3. QED BY <1>1, <1>2 DEF Promise!vars

(* A call under way has returned nothing. *)
LEMMA UnderWayReturnsNothing ==
    ASSUME NEW c \in Calls, job[c].stage # "ended"
    PROVE  Returned(c) = "none" /\ Results[c] = "none"
BY DEF Returned, Results

(* What one call's step does to the results. *)
LEMMA ResultOf ==
    ASSUME IInv, NEW c \in Calls, NEW j, job' = [job EXCEPT ![c] = j]
    PROVE  /\ Results' = [Results EXCEPT ![c] = Returned(c)']
           /\ \A d \in Calls \ {c} : Returned(d)' = Returned(d)
<1>1. ASSUME NEW d \in Calls, d # c PROVE Returned(d)' = Returned(d)
  BY <1>1 DEF IInv, TypeOK, Returned
<1>2. Results' = [Results EXCEPT ![c] = Returned(c)']
  BY <1>1 DEF Results
<1>3. QED BY <1>1, <1>2

(* A call that is still under way after a step that publishes nothing. *)
LEMMA UnseenCallStep ==
    ASSUME IInv, NEW c \in Calls, UNCHANGED library, NEW j, job' = [job EXCEPT ![c] = j],
           job[c].stage # "ended", j.stage # "ended"
    PROVE  UNCHANGED Promise!vars
<1>1. job'[c] = j
  BY DEF IInv, TypeOK
<1>2. Returned(c)' = Returned(c)
  BY <1>1 DEF Returned
<1>3. QED BY <1>2, ResultOf, Unseen

(* An error is returned without a file having changed. *)
LEMMA SeenFailure ==
    ASSUME IInv, NEW c \in Calls, NEW o \in Outcomes \ {"none", "ok"}, EndWith(c, o),
           job[c].stage # "ended", UNCHANGED library
    PROVE  Promise!Fail(c)
<1>1. job' = [job EXCEPT ![c] = Blank("ended", o)]
  BY DEF EndWith
<1>2. job'[c].stage = "ended" /\ job'[c].outcome = o
  BY <1>1 DEF IInv, TypeOK, Blank
<1>3. Returned(c)' = "error"
  BY <1>2 DEF Returned
<1>4. Results' = [Results EXCEPT ![c] = "error"]
  BY <1>1, <1>3, ResultOf
<1>5. PublishedFile' = PublishedFile /\ PublishedLasting' = PublishedLasting
  BY DEF PublishedFile, PublishedLasting, library
<1>6. QED BY <1>4, <1>5, UnderWayReturnsNothing DEF Promise!Fail

(* The rename is the publication. *)
LEMMA SeenPublication ==
    ASSUME IInv, NEW c \in Calls, Rename(c)
    PROVE  Promise!Publish(c)
<1> DEFINE x == [of |-> c, bytes |-> Whole]
<1>1. Dest[c] \in Paths
  BY DestIsPath
<1>2. /\ file' = [file EXCEPT ![Dest[c]] = x]
      /\ lasting' = [lasting EXCEPT ![Dest[c]] = @ \cup {x}]
  BY SurvivorIsWhole DEF Rename
<1>3. Published(x) = c
  BY SurvivorIsWhole DEF Published
<1> HIDE DEF x
<1>4. PublishedFile' = [PublishedFile EXCEPT ![Dest[c]] = c]
  <2>1. ASSUME NEW f \in Paths
        PROVE  Published(file'[f]) = IF f = Dest[c] THEN c ELSE Published(file[f])
    BY <1>2, <1>3 DEF IInv, TypeOK
  <2>2. QED BY <2>1 DEF PublishedFile, Published
<1>5. PublishedLasting' = [PublishedLasting EXCEPT ![Dest[c]] = @ \cup {c}]
  <2> DEFINE P(f) == {Published(y) : y \in lasting[f]}
             Q(f) == {Published(y) : y \in lasting'[f]}
  <2>1. ASSUME NEW f \in Paths, f # Dest[c] PROVE Q(f) = P(f)
    BY <1>2, <2>1 DEF IInv, TypeOK
  <2>2. Q(Dest[c]) = P(Dest[c]) \cup {c}
    <3>1. lasting'[Dest[c]] = lasting[Dest[c]] \cup {x}
      BY <1>1, <1>2 DEF IInv, TypeOK
    <3>2. QED BY <1>3, <3>1
  <2>3. PublishedLasting' = [f \in Paths |-> Q(f)] /\ PublishedLasting = [f \in Paths |-> P(f)]
    BY DEF PublishedLasting, Published
  <2> HIDE DEF P, Q
  <2>4. QED BY <1>1, <2>1, <2>2, <2>3
<1>6. Results' = Results /\ Results[c] = "none"
  <2>1. PICK j \in Job : job' = [job EXCEPT ![c] = j] /\ j.stage = "syncdir"
    BY Moving DEF Rename, Stages
  <2>2. job'[c].stage = "syncdir" /\ job[c].stage # "ended"
    BY <2>1 DEF Rename, At, IInv, TypeOK
  <2>3. Returned(c)' = "none" /\ Results[c] = "none"
    BY <2>2 DEF Returned, Results
  <2>4. Results' = [Results EXCEPT ![c] = "none"]
    BY <2>1, <2>3, ResultOf
  <2>5. QED BY <2>3, <2>4 DEF Results
<1>7. QED BY <1>4, <1>5, <1>6 DEF Promise!Publish

(* Success is returned once the published file is there for good. *)
LEMMA SeenSuccess ==
    ASSUME IInv, NEW c \in Calls, SyncDir(c)
    PROVE  Promise!Succeed(c)
<1>1. Dest[c] \in Paths
  BY DestIsPath
<1>2. job[c].stage = "syncdir" /\ file[Dest[c]] # NoFile
  BY DEF SyncDir, At, IInv, PublishedStays
<1>3. PublishedFile[Dest[c]] = Published(file[Dest[c]]) /\ Published(file[Dest[c]]) # NoFile
  BY <1>1, <1>2, NoFileIsNoCall DEF PublishedFile, Published, IInv, TypeOK, File
<1>4. PublishedFile' = PublishedFile
  BY DEF SyncDir, PublishedFile
<1>5. PublishedLasting' = [PublishedLasting EXCEPT ![Dest[c]] = {PublishedFile[Dest[c]]}]
  <2> DEFINE P(f) == {Published(y) : y \in lasting[f]}
             Q(f) == {Published(y) : y \in lasting'[f]}
  <2>1. ASSUME NEW f \in Paths, f # Dest[c] PROVE Q(f) = P(f)
    BY <2>1 DEF SyncDir, IInv, TypeOK
  <2>2. Q(Dest[c]) = {PublishedFile[Dest[c]]}
    <3>1. lasting'[Dest[c]] = {file[Dest[c]]}
      BY <1>1 DEF SyncDir, IInv, TypeOK
    <3>2. QED BY <1>3, <3>1
  <2>3. PublishedLasting' = [f \in Paths |-> Q(f)] /\ PublishedLasting = [f \in Paths |-> P(f)]
    BY DEF PublishedLasting, Published
  <2> HIDE DEF P, Q
  <2>4. QED BY <1>1, <2>1, <2>2, <2>3
<1>6. Results' = [Results EXCEPT ![c] = "ok"]
  <2>1. job' = [job EXCEPT ![c] = Blank("ended", "ok")]
    BY DEF SyncDir, EndWith
  <2>2. job'[c].stage = "ended" /\ job'[c].outcome = "ok"
    BY <2>1 DEF Blank, IInv, TypeOK
  <2>3. QED BY <2>1, <2>2, ResultOf DEF Returned
<1>7. Results[c] = "none"
  BY <1>2, UnderWayReturnsNothing
<1>8. QED BY <1>3, <1>4, <1>5, <1>6, <1>7 DEF Promise!Succeed

(* Every step of a call is a step of the atomic file or invisible to it. *)
LEMMA SeenCallStep ==
    ASSUME IInv, NEW c \in Calls, CallStep(c)
    PROVE  [Promise!Next]_(Promise!vars)
<1>1. ASSUME NEW o \in Outcomes \ {"none", "ok"}, EndWith(c, o), job[c].stage # "ended",
             UNCHANGED library
      PROVE  [Promise!Next]_(Promise!vars)
  BY <1>1, SeenFailure DEF Promise!Next
<1>2. ASSUME NEW s \in Stages \ {"ended"}, Move(c, s), job[c].stage # "ended", UNCHANGED library
      PROVE  [Promise!Next]_(Promise!vars)
  BY <1>2, Moving, UnseenCallStep
<1>3. CASE Begin(c) \/ OpenPart(c) \/ GetBody(c) \/ Demux(c) \/ Sync(c)
  BY <1>2, <1>3 DEF Begin, OpenPart, GetBody, Demux, Sync, At, Stages, Staging
<1>4. ASSUME NEW q \in Band, NEW granted \in Grants, NEW kind \in Kinds, Grant(c, q, granted, kind)
      PROVE  [Promise!Next]_(Promise!vars)
  <2> DEFINE j == [job[c] EXCEPT !.stage = "open", !.answers[q] = "granted",
                                 !.granted = granted, !.kind = kind]
  <2>1. job' = [job EXCEPT ![c] = j] /\ job[c].stage = "info" /\ UNCHANGED library
    BY <1>4 DEF Grant, At
  <2>2. j.stage = "open"
    BY GoodNow DEF Typed, Job
  <2> HIDE DEF j
  <2>3. QED BY <2>1, <2>2, UnseenCallStep
<1>5. ASSUME NEW q \in Band, NEW granted, NEW answer, Descend(c, q, granted, answer)
      PROVE  [Promise!Next]_(Promise!vars)
  <2> DEFINE j == [job[c] EXCEPT !.answers[q] = answer]
  <2>1. job' = [job EXCEPT ![c] = j] /\ job[c].stage = "info" /\ UNCHANGED library
    BY <1>5 DEF Descend, At
  <2>2. j.stage = "info"
    BY <2>1, GoodNow DEF Typed, Job
  <2> HIDE DEF j
  <2>3. QED BY <2>1, <2>2, UnseenCallStep
<1>6. CASE GiveUp(c)
  <2>1. NoGrant(job[c].answers) # "ok"
    BY <1>6, GoodNow, FloorIsInBand DEF NoGrant, Typed, Job, Answers
  <2>2. QED BY <1>1, <1>6, <2>1, NoGrantIsOutcome DEF GiveUp, At
<1>7. CASE Reject(c) \/ CopyBreaks(c) \/ AppendFails(c) \/ DemuxFails(c) \/ FileStepFails(c) \/ Stop(c)
  <2>1. PICK o \in {"encrypted", "transient", "cancelled"} : EndWith(c, o)
    BY <1>7 DEF Reject, CopyBreaks, AppendFails, DemuxFails, FileStepFails, Stop
  <2>2. job[c].stage # "ended" /\ UNCHANGED library
    BY <1>7 DEF Reject, CopyBreaks, AppendFails, DemuxFails, FileStepFails, Stop, At
  <2>3. QED BY <1>1, <2>1, <2>2 DEF Outcomes
<1>8. CASE GetFails(c) \/ ReadFails(c)
  <2>1. job[c].stage # "ended" /\ Retry(c)
    BY <1>8 DEF GetFails, ReadFails, At
  <2>2. CASE EndWith(c, "transient") /\ UNCHANGED library
    BY <1>1, <2>1, <2>2 DEF Outcomes
  <2>3. CASE /\ job' = [job EXCEPT ![c].stage = "fetch", ![c].tries = @ + 1]
             /\ UNCHANGED library
    <3> DEFINE j == [job[c] EXCEPT !.stage = "fetch", !.tries = @ + 1]
    <3>1. job' = [job EXCEPT ![c] = j]
      BY <2>3
    <3>2. j.stage = "fetch"
      BY GoodNow DEF Typed, Job
    <3> HIDE DEF j
    <3>3. QED BY <2>1, <2>3, <3>1, <3>2, UnseenCallStep
  <2>4. QED BY <2>1, <2>2, <2>3 DEF Retry
<1>9. CASE CopyBody(c) \/ AppendSegment(c)
  <2>1. PICK j : job' = [job EXCEPT ![c] = j] /\ j.stage # "ended"
    <3>1. PICK after \in {"sync", "demux"} : NextPiece(c, after)
      BY <1>9 DEF CopyBody, AppendSegment
    <3>2. QED BY <3>1, NextPieceJob
  <2>2. job[c].stage # "ended" /\ UNCHANGED library
    BY <1>9 DEF CopyBody, AppendSegment, At
  <2>3. QED BY <2>1, <2>2, UnseenCallStep
<1>10. CASE Rename(c) \/ SyncDir(c)
  BY <1>10, SeenPublication, SeenSuccess DEF Promise!Next
<1>11. QED
  BY <1>3, <1>4, <1>5, <1>6, <1>7, <1>8, <1>9, <1>10
  DEF CallStep, InfoStep, OwnStep, BodyStep, DemuxStep

(* Every step of the process is. *)
LEMMA SeenProcessStep ==
    ASSUME IInv, Process
    PROVE  [Promise!Next]_(Promise!vars)
<1>1. CASE UNCHANGED <<job, library>>
  <2>1. \A d \in Calls : Returned(d)' = Returned(d)
    BY <1>1 DEF Returned
  <2>2. QED BY <1>1, <2>1, Unseen
<1>2. ASSUME Close PROVE Results' = Promise!NoResults
  <2>1. \A d \in Calls : job'[d].stage = "idle"
    BY <1>2 DEF Close, NoJobs, Idle, Blank
  <2>2. QED BY <2>1 DEF Results, Returned, Promise!NoResults
<1>3. CASE EndCycle \/ Crash
  <2>1. PublishedFile' = PublishedFile /\ PublishedLasting' = PublishedLasting
    BY <1>3 DEF EndCycle, Crash, PublishedFile, PublishedLasting, library
  <2>2. QED BY <1>2, <1>3, <2>1 DEF EndCycle, Crash, Promise!Forget, Promise!Next
<1>4. CASE PowerLoss
  <2>1. \A f \in Paths : file'[f] \in lasting[f] /\ lasting'[f] = {file'[f]}
    BY <1>4 DEF PowerLoss
  <2>2. \A f \in Paths : Published(file'[f]) \in {Published(x) : x \in lasting[f]}
    BY <2>1
  <2>3. \A f \in Paths : Published(file'[f]) \in Calls \cup {NoFile}
    BY <2>1 DEF Published, IInv, TypeOK, File
  <2>4. PublishedFile' \in [Paths -> Calls \cup {NoFile}]
    BY <2>3 DEF PublishedFile, Published
  <2>5. \A f \in Paths : PublishedFile'[f] \in PublishedLasting[f]
    BY <2>2 DEF PublishedFile, PublishedLasting, Published
  <2>6. PublishedLasting' = [f \in Paths |-> {PublishedFile'[f]}]
    <3>1. \A f \in Paths : {Published(x) : x \in lasting'[f]} = {Published(file'[f])}
      BY <2>1
    <3>2. QED BY <3>1 DEF PublishedLasting, PublishedFile, Published
  <2>7. QED BY <1>2, <1>4, <2>4, <2>5, <2>6 DEF PowerLoss, Promise!PowerLoss, Promise!Next
<1>5. ASSUME NEW f \in Paths, Remove(f) PROVE [Promise!Next]_(Promise!vars)
  <2>1. Published(NoFile) = NoFile
    BY DEF Published
  <2>2. PublishedFile' = [PublishedFile EXCEPT ![f] = NoFile]
    <3>1. \A g \in Paths : Published(file'[g]) = IF g = f THEN NoFile ELSE Published(file[g])
      BY <1>5, <2>1 DEF Remove, IInv, TypeOK
    <3>2. QED BY <3>1 DEF PublishedFile, Published
  <2>3. PublishedLasting' = [PublishedLasting EXCEPT ![f] = @ \cup {NoFile}]
    <3> DEFINE P(g) == {Published(y) : y \in lasting[g]}
               Q(g) == {Published(y) : y \in lasting'[g]}
    <3>1. ASSUME NEW g \in Paths, g # f PROVE Q(g) = P(g)
      BY <1>5, <3>1 DEF Remove, IInv, TypeOK
    <3>2. Q(f) = P(f) \cup {NoFile}
      <4>1. lasting'[f] = lasting[f] \cup {NoFile}
        BY <1>5 DEF Remove, IInv, TypeOK
      <4>2. QED BY <2>1, <4>1
    <3>3. PublishedLasting' = [g \in Paths |-> Q(g)] /\ PublishedLasting = [g \in Paths |-> P(g)]
      BY DEF PublishedLasting, Published
    <3> HIDE DEF P, Q
    <3>4. QED BY <3>1, <3>2, <3>3
  <2>4. Results' = Results
    BY <1>5 DEF Remove, Results, Returned
  <2>5. QED BY <2>2, <2>3, <2>4 DEF Promise!Remove, Promise!Next
<1>6. QED
  BY <1>1, <1>3, <1>4, <1>5 DEF Process, Sweep, SweepFails, Cancel

(* Download keeps the promises of the atomic file: a destination changes only
   by the rename of a complete stream, success is returned only for a file
   that survives a power loss, an error changes nothing. *)
THEOREM ImplementsAtomicFile == Spec => KeepsPromise
<1>1. Init => Promise!Init
  <2> SUFFICES ASSUME Init PROVE Promise!Init
    OBVIOUS
  <2>1. PublishedFile = [f \in Paths |-> NoFile]
    BY DEF Init, PublishedFile, Published
  <2>2. PublishedLasting = [f \in Paths |-> {NoFile}]
    <3>1. \A f \in Paths : {Published(x) : x \in lasting[f]} = {NoFile}
      BY DEF Init, Published
    <3>2. QED BY <3>1 DEF PublishedLasting
  <2>3. Results = Promise!NoResults
    BY DEF Init, Results, Returned, NoJobs, Idle, Blank, Promise!NoResults
  <2>4. QED BY <2>1, <2>2, <2>3 DEF Promise!Init
<1>2. IInv /\ [Next]_vars => [Promise!Next]_(Promise!vars)
  <2> SUFFICES ASSUME IInv, [Next]_vars PROVE [Promise!Next]_(Promise!vars)
    OBVIOUS
  <2>1. CASE Next
    BY <2>1, SeenCallStep, SeenProcessStep DEF Next
  <2>2. CASE UNCHANGED vars
    <3>1. \A d \in Calls : Returned(d)' = Returned(d)
      BY <2>2 DEF Returned, vars
    <3>2. QED BY <2>2, <3>1, Unseen DEF vars
  <2>3. QED BY <2>1, <2>2
<1>3. QED BY <1>1, <1>2, Invariance, PTL DEF Spec, KeepsPromise, Promise!Spec
=============================================================================
