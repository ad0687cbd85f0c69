------------------------------ MODULE TokensProofs -----------------------------
(* What Tokens promises for every number of processes, concurrent requests,       *)
(* logins, generations and faults, proved with TLAPS.                             *)
EXTENDS Tokens, TLAPS

USE TokenAssumption

(* The flock is held exactly by the process whose cycle runs.                      *)
LockIsHeld == \A p \in Syncers : InCycle(p) <=> lock = p

(* Only requests the phase makes are under way, only in a cycle, and they refresh  *)
(* only a token there is.                                                         *)
CallsAreMade ==
    \A p \in Syncers, w \in Callers :
       /\ call[p][w] # "idle" => InCycle(p) /\ w \in Requests(p)
       /\ call[p][w] \in {"stale", "waiting"} => stored # Nobody

(* A refresh runs while a request waits for it, with a token once it has read one. *)
FlightIsAwaited ==
    \A p \in Syncers : flight[p] # Nobody =>
       /\ InCycle(p)
       /\ \E w \in Callers : call[p][w] = "waiting"
       /\ flight[p].stage # "load" => flight[p].token \in Token

(* Nobody holds a token of a session that was never opened. What a login was       *)
(* granted nobody else has seen, and the server has not rotated it.                *)
SessionsAreOpened ==
    /\ \A s \in Sessions : s > opened => server[s] = 0
    /\ stored # Nobody => stored.session <= opened
    /\ \A p \in Syncers : flight[p] # Nobody /\ flight[p].stage # "load" =>
          flight[p].token.session <= opened

GrantsAreUnseen ==
    \A l \in Logins : device[l].stage = "answered" =>
       /\ device[l].session \in Sessions /\ device[l].session <= opened
       /\ server[device[l].session] \in {0, 1}
       /\ stored # Nobody => stored.session # device[l].session
       /\ \A p \in Syncers : flight[p] # Nobody /\ flight[p].stage # "load" =>
             flight[p].token.session # device[l].session
       /\ \A k \in Logins \ {l} : device[k].stage = "answered" => device[k].session # device[l].session

(* What a refresh presents, or is about to save, is the server's generation.       *)
FlightIsCurrent ==
    \A p \in Syncers : flight[p] # Nobody /\ flight[p].stage # "load" =>
       \/ server[flight[p].token.session] \in {0, flight[p].token.gen}
       \/ flight[p].token.session \in lost

ProcessInv == LockIsHeld /\ CallsAreMade /\ FlightIsAwaited
PairInv == SessionsAreOpened /\ GrantsAreUnseen /\ FlightIsCurrent /\ StoredIsCurrent

(* The part of the types an action on a cycle touches.                             *)
ProcessTypes ==
    /\ lock \in Syncers \cup {Nobody}
    /\ phase \in [Syncers -> Phases]
    /\ call \in [Syncers -> [Callers -> {"idle", "stale", "waiting", "done"}]]
    /\ flight \in [Syncers -> Flight \cup {Nobody}]
    /\ outcome \in [Daemons -> Classes]
    /\ asked \in BOOLEAN

LEMMA FlightIsRecord ==
    ASSUME TokenTypeOK, NEW p \in Syncers, flight[p] # Nobody
    PROVE  /\ flight[p] \in Flight
           /\ flight[p].stage \in {"load", "post", "save"}
           /\ flight[p].token \in Token \cup {Nobody}
BY DEF TokenTypeOK, Flight

LEMMA FlightsAreSomebody ==
    ASSUME NEW s \in {"load", "post", "save"}, NEW t \in Token \cup {Nobody}
    PROVE  /\ [stage |-> s, token |-> t] \in Flight
           /\ [stage |-> s, token |-> t] # Nobody
<1>1. [stage |-> s, token |-> t] \in Flight
  BY DEF Flight
<1>2. QED BY <1>1, NobodyAssumption

(***************************************************************************)
(* What an action does to the processes.                                   *)
(***************************************************************************)
(* However a cycle ends, the process lets go of the lock, its requests and its     *)
(* refresh.                                                                       *)
LEMMA EndKeepsProcesses ==
    ASSUME TokenTypeOK, ProcessInv, NEW p \in Syncers, NEW c \in Classes, End(p, c),
           stored # Nobody => stored' # Nobody
    PROVE  /\ ProcessTypes' /\ ProcessInv'
           /\ flight' = [flight EXCEPT ![p] = Nobody]
<1>1. ProcessTypes'
  <2>1. lock' \in Syncers \cup {Nobody} /\ asked' \in BOOLEAN
    BY DEF End, TokenTypeOK
  <2>2. phase' \in [Syncers -> Phases]
    BY DEF End, TokenTypeOK, Phases
  <2>3. call' \in [Syncers -> [Callers -> {"idle", "stale", "waiting", "done"}]]
    BY DEF End, TokenTypeOK, NoCall
  <2>4. flight' \in [Syncers -> Flight \cup {Nobody}]
    BY DEF End, TokenTypeOK
  <2>5. outcome' \in [Daemons -> Classes]
    BY DEF End, Tell, TokenTypeOK
  <2>6. QED BY <2>1, <2>2, <2>3, <2>4, <2>5 DEF ProcessTypes
<1>2. LockIsHeld'
  BY DEF ProcessInv, LockIsHeld, InCycle, End, TokenTypeOK
<1>3. CallsAreMade'
  BY DEF ProcessInv, CallsAreMade, InCycle, Requests, End, TokenTypeOK, NoCall
<1>4. FlightIsAwaited'
  BY DEF ProcessInv, FlightIsAwaited, InCycle, End, TokenTypeOK
<1>5. flight' = [flight EXCEPT ![p] = Nobody]
  BY DEF End
<1>6. QED BY <1>1, <1>2, <1>3, <1>4, <1>5 DEF ProcessInv

(* Requests that fail end the cycle or, while downloading, only themselves; the    *)
(* refresh they waited for is over with them.                                     *)
LEMMA FailKeepsProcesses ==
    ASSUME TokenTypeOK, ProcessInv, NEW p \in Syncers, NEW c \in Classes, NEW W \in SUBSET Callers,
           InCycle(p), W \subseteq Requests(p), W = Waiting(p) \/ W \cap Waiting(p) = {},
           Fail(p, W, c), stored # Nobody => stored' # Nobody
    PROVE  /\ ProcessTypes' /\ ProcessInv'
           /\ \/ flight' = [flight EXCEPT ![p] = Nobody]
              \/ flight' = flight /\ W \cap Waiting(p) = {}
<1>1. CASE phase[p] # "download"
  BY <1>1, EndKeepsProcesses DEF Fail
<1>2. CASE phase[p] = "download"
  <2>1. Done(p, W) /\ UNCHANGED <<phase, outcome, lock, asked>>
    BY <1>2 DEF Fail
  <2>2. call' = [call EXCEPT ![p] = [w \in Callers |-> IF w \in W THEN "done" ELSE call[p][w]]]
    BY <2>1 DEF Done
  <2>3. call' \in [Syncers -> [Callers -> {"idle", "stale", "waiting", "done"}]]
    BY <2>2 DEF TokenTypeOK
  <2>4. \A q \in Syncers, w \in Callers :
           call'[q][w] = IF q = p /\ w \in W THEN "done" ELSE call[q][w]
    BY <2>2 DEF TokenTypeOK
  <2>5. flight' = [flight EXCEPT ![p] = IF \E w \in W : call[p][w] = "waiting" THEN Nobody ELSE @]
    BY <1>2 DEF Fail
  <2>6. ProcessTypes'
    BY <2>1, <2>3, <2>5 DEF ProcessTypes, TokenTypeOK
  <2>7. LockIsHeld'
    BY <2>1 DEF ProcessInv, LockIsHeld, InCycle
  <2>8. CallsAreMade'
    BY <2>1, <2>4 DEF ProcessInv, CallsAreMade, InCycle, Requests
  <2>9. CASE W = Waiting(p) /\ W # {}
    <3>1. flight' = [flight EXCEPT ![p] = Nobody]
      BY <2>5, <2>9 DEF Waiting
    <3>2. \A q \in Syncers : flight'[q] = IF q = p THEN Nobody ELSE flight[q]
      BY <3>1 DEF TokenTypeOK
    <3>3. \A q \in Syncers, w \in Callers : q # p => call'[q][w] = call[q][w]
      BY <2>4
    <3>4. FlightIsAwaited'
      BY <2>1, <3>2, <3>3 DEF ProcessInv, FlightIsAwaited, InCycle
    <3>5. QED BY <2>6, <2>7, <2>8, <3>1, <3>4 DEF ProcessInv
  <2>10. CASE W \cap Waiting(p) = {}
    <3>1. ~\E w \in W : call[p][w] = "waiting"
      BY <2>10 DEF Waiting
    <3>2. flight' = flight
      BY <2>5, <3>1 DEF TokenTypeOK
    <3>3. FlightIsAwaited'
      BY <2>1, <2>4, <3>1, <3>2 DEF ProcessInv, FlightIsAwaited, InCycle
    <3>4. QED BY <2>6, <2>7, <2>8, <2>10, <3>2, <3>3 DEF ProcessInv
  <2>11. QED BY <2>9, <2>10
<1>3. QED BY <1>1, <1>2

(* What does not touch the cycles keeps what is known of them.                     *)
LEMMA IdleKeepsProcesses ==
    ASSUME TokenTypeOK, ProcessInv, UNCHANGED <<lock, phase, call, flight>>,
           stored # Nobody => stored' # Nobody
    PROVE  ProcessInv'
BY DEF ProcessInv, LockIsHeld, CallsAreMade, FlightIsAwaited, InCycle, Requests

(***************************************************************************)
(* What an action does to the token pairs.                                 *)
(***************************************************************************)
(* The server and the store stay; an answer about to be saved stays or counts as   *)
(* lost; no refresh gets hold of a token and no login of a session.               *)
LEMMA PairsKept ==
    ASSUME TokenTypeOK, PairInv, UNCHANGED <<server, opened, stored>>,
           lost \subseteq lost',
           \A q \in Syncers : \/ flight'[q] = flight[q]
                              \/ flight'[q] = Nobody /\ Unsaved(q) \subseteq lost'
                              \/ flight'[q].stage = "load" /\ flight[q] = Nobody,
           \A l \in Logins : device'[l] = device[l] \/ device'[l].stage # "answered"
    PROVE  PairInv'
<1>1. SessionsAreOpened'
  BY DEF PairInv, SessionsAreOpened
<1>2. GrantsAreUnseen'
  BY DEF PairInv, GrantsAreUnseen
<1>3. FlightIsCurrent'
  BY DEF PairInv, FlightIsCurrent
<1>4. StoredIsCurrent'
  <2>1. CASE \E p \in Syncers : stored.session \in Unsaved(p)
    <3>1. PICK p \in Syncers : stored.session \in Unsaved(p)
      BY <2>1
    <3>2. flight[p] # Nobody /\ flight[p].stage = "save"
      BY <3>1 DEF Unsaved, At
    <3>3. CASE flight'[p] = flight[p]
      <4>1. Unsaved(p)' = Unsaved(p)
        BY <3>3 DEF Unsaved, At
      <4>2. QED BY <3>1, <4>1 DEF StoredIsCurrent
    <3>4. CASE flight'[p] # flight[p]
      BY <3>1, <3>2, <3>4 DEF StoredIsCurrent
    <3>5. QED BY <3>3, <3>4
  <2>2. CASE ~\E p \in Syncers : stored.session \in Unsaved(p)
    BY <2>2 DEF PairInv, StoredIsCurrent
  <2>3. QED BY <2>1, <2>2
<1>5. QED BY <1>1, <1>2, <1>3, <1>4 DEF PairInv

(***************************************************************************)
(* The actions.                                                            *)
(***************************************************************************)
TokenInv == TokenTypeOK /\ ProcessInv /\ PairInv

(* A process that holds an answer is the one that holds the lock.                  *)
LEMMA OneUnsaved ==
    ASSUME ProcessInv, NEW p \in Syncers, InCycle(p), NEW q \in Syncers, q # p
    PROVE  flight[q] = Nobody /\ Unsaved(q) = {}
BY DEF ProcessInv, LockIsHeld, FlightIsAwaited, Unsaved, At

LEMMA UnsavedAtPost ==
    ASSUME NEW p \in Syncers, flight[p] = Nobody \/ flight[p].stage # "save"
    PROVE  Unsaved(p) = {}
BY DEF Unsaved, At

LEMMA TokenInitInv == TokenInit => TokenInv
<1>1. SUFFICES ASSUME TokenInit PROVE TokenInv
  OBVIOUS
<1>2. TokenTypeOK
  BY <1>1 DEF TokenInit, TokenTypeOK, Sessions, Phases, NoCall, Classes, NoDevice
<1>3. ProcessInv
  BY <1>1 DEF TokenInit, ProcessInv, LockIsHeld, CallsAreMade, FlightIsAwaited, InCycle, NoCall
<1>4. PairInv
  BY <1>1 DEF TokenInit, PairInv, SessionsAreOpened, GrantsAreUnseen, FlightIsCurrent, StoredIsCurrent, NoDevice
<1>5. QED BY <1>2, <1>3, <1>4 DEF TokenInv

(* The start, the phases and the return of a cycle.                                *)
LEMMA CycleSteps ==
    ASSUME TokenInv, NEW p \in Syncers, CycleStep(p) \/ Return(p) \/ NoStore(p)
    PROVE  TokenInv'
<1> USE DEF TokenInv
<1>1. CASE Acquire(p)
  <2>1. TokenTypeOK'
    BY <1>1 DEF Acquire, TokenTypeOK, Phases
  <2>2. ProcessInv'
    BY <1>1 DEF Acquire, TokenTypeOK, ProcessInv, LockIsHeld, CallsAreMade, FlightIsAwaited, InCycle, Requests
  <2>3. PairInv'
    BY <1>1, PairsKept DEF Acquire
  <2>4. QED BY <2>1, <2>2, <2>3
<1>2. CASE Contended(p)
  <2>1. End(p, "lock") /\ "lock" \in Classes /\ UNCHANGED <<server, opened, lost, credentials, stored, device, faults>>
    BY <1>2 DEF Contended, Classes
  <2>2. ProcessTypes' /\ ProcessInv' /\ flight' = [flight EXCEPT ![p] = Nobody]
    BY <2>1, EndKeepsProcesses
  <2>3. TokenTypeOK'
    BY <2>1, <2>2 DEF TokenTypeOK, ProcessTypes
  <2>4. flight[p] = Nobody
    BY <1>2 DEF Contended, ProcessInv, FlightIsAwaited, InCycle
  <2>5. flight' = flight
    BY <2>2, <2>4 DEF TokenTypeOK
  <2>6. PairInv'
    BY <2>1, <2>5, PairsKept
  <2>7. QED BY <2>2, <2>3, <2>6
<1>3. CASE NextPhase(p)
  <2>1. flight[p] = Nobody
    BY <1>3 DEF NextPhase, ProcessInv, FlightIsAwaited, CallsAreMade
  <2>2. CASE phase[p] = "export"
    <3>1. End(p, "ok") /\ "ok" \in Classes /\ UNCHANGED <<server, opened, lost, credentials, stored, device, faults>>
      BY <1>3, <2>2 DEF NextPhase, Classes
    <3>2. ProcessTypes' /\ ProcessInv' /\ flight' = [flight EXCEPT ![p] = Nobody]
      BY <3>1, EndKeepsProcesses
    <3>3. TokenTypeOK'
      BY <3>1, <3>2 DEF TokenTypeOK, ProcessTypes
    <3>4. flight' = flight
      BY <3>2, <2>1 DEF TokenTypeOK
    <3>5. PairInv'
      BY <3>1, <3>4, PairsKept
    <3>6. QED BY <3>2, <3>3, <3>5
  <2>3. CASE phase[p] # "export"
    <3>1. TokenTypeOK'
      <4>1. phase' \in [Syncers -> Phases]
        BY <1>3, <2>3 DEF NextPhase, TokenTypeOK, Phases
      <4>2. call' \in [Syncers -> [Callers -> {"idle", "stale", "waiting", "done"}]]
        BY <1>3, <2>3 DEF NextPhase, TokenTypeOK, NoCall
      <4>3. UNCHANGED <<server, opened, lost, credentials, stored, lock, flight, outcome, device, asked, faults>>
        BY <1>3, <2>3 DEF NextPhase
      <4>4. QED BY <4>1, <4>2, <4>3 DEF TokenTypeOK
    <3>2. ProcessInv'
      <4>1. \A q \in Syncers, w \in Callers : call'[q][w] = IF q = p THEN "idle" ELSE call[q][w]
        BY <1>3, <2>3 DEF NextPhase, TokenTypeOK, NoCall
      <4>2. \A q \in Syncers :
               /\ q # p => phase'[q] = phase[q]
               /\ phase'[q] \in {"enumerate", "download", "export"} <=> InCycle(q)
        BY <1>3, <2>3 DEF NextPhase, TokenTypeOK, InCycle
      <4>3. lock' = lock /\ flight' = flight /\ stored' = stored
        BY <1>3, <2>3 DEF NextPhase
      <4>4. LockIsHeld'
        BY <4>2, <4>3 DEF ProcessInv, LockIsHeld, InCycle
      <4>7. CallsAreMade'
        <5>1. SUFFICES ASSUME NEW q \in Syncers, NEW w \in Callers
                       PROVE  /\ call'[q][w] # "idle" => InCycle(q)' /\ w \in Requests(q)'
                              /\ call'[q][w] \in {"stale", "waiting"} => stored' # Nobody
          BY DEF CallsAreMade
        <5>2. CASE q = p
          BY <4>1, <5>2
        <5>3. CASE q # p
          <6>1. call'[q][w] = call[q][w] /\ phase'[q] = phase[q]
            BY <4>1, <4>2, <5>3
          <6>2. QED BY <6>1, <4>3 DEF ProcessInv, CallsAreMade, InCycle, Requests
        <5>4. QED BY <5>2, <5>3
      <4>5. FlightIsAwaited'
        BY <2>1, <4>1, <4>2, <4>3 DEF ProcessInv, FlightIsAwaited, InCycle
      <4>6. QED BY <4>4, <4>5, <4>7 DEF ProcessInv
    <3>3. PairInv'
      BY <1>3, <2>3, PairsKept DEF NextPhase
    <3>4. QED BY <3>1, <3>2, <3>3
  <2>4. QED BY <2>2, <2>3
<1>4. CASE Return(p)
  <2>1. TokenTypeOK'
    BY <1>4 DEF Return, TokenTypeOK, Phases
  <2>2. ProcessInv'
    BY <1>4 DEF Return, TokenTypeOK, ProcessInv, LockIsHeld, CallsAreMade, FlightIsAwaited, InCycle, Requests
  <2>3. PairInv'
    BY <1>4, PairsKept DEF Return
  <2>4. QED BY <2>1, <2>2, <2>3
<1>5. CASE NoStore(p)
  <2>1. TokenTypeOK'
    BY <1>5 DEF NoStore, TokenTypeOK, Fault, Tell, Classes
  <2>2. ProcessInv'
    BY <1>5, IdleKeepsProcesses DEF NoStore
  <2>3. PairInv'
    BY <1>5, PairsKept DEF NoStore
  <2>4. QED BY <2>1, <2>2, <2>3
<1>6. QED BY <1>1, <1>2, <1>3, <1>4, <1>5 DEF CycleStep

(* The calls of Token.                                                             *)
LEMMA CallSteps ==
    ASSUME TokenInv, NEW p \in Syncers, CallStep(p)
    PROVE  TokenInv'
<1> USE DEF TokenInv
<1>1. PICK w \in Callers : LoadFresh(p, w) \/ LoadRefused(p, w) \/ LoadStale(p, w) \/ Refresh(p, w)
  BY DEF CallStep
<1>2. CASE LoadFresh(p, w)
  <2>1. \A q \in Syncers, v \in Callers :
           call'[q][v] = IF q = p /\ v = w THEN "done" ELSE call[q][v]
    BY <1>2 DEF LoadFresh, Done, TokenTypeOK
  <2>2. TokenTypeOK'
    BY <1>2 DEF LoadFresh, Done, TokenTypeOK
  <2>3. ProcessInv'
    BY <1>2, <2>1 DEF LoadFresh, MayCall, ProcessInv, LockIsHeld, CallsAreMade, FlightIsAwaited, InCycle, Requests
  <2>4. PairInv'
    BY <1>2, PairsKept DEF LoadFresh
  <2>5. QED BY <2>2, <2>3, <2>4
<1>3. CASE LoadRefused(p, w)
  <2>1. /\ InCycle(p) /\ {w} \subseteq Requests(p) /\ {w} \cap Waiting(p) = {}
        /\ Fail(p, {w}, "transient") /\ "transient" \in Classes
        /\ UNCHANGED <<server, opened, lost, credentials, stored, device, faults>>
    BY <1>3 DEF LoadRefused, MayCall, Waiting, Classes
  <2>2. /\ ProcessTypes' /\ ProcessInv'
        /\ flight' = [flight EXCEPT ![p] = Nobody] \/ flight' = flight
    BY <2>1, FailKeepsProcesses
  <2>3. TokenTypeOK'
    BY <2>1, <2>2 DEF TokenTypeOK, ProcessTypes
  <2>4. flight' = flight
    <3>1. CASE phase[p] = "download"
      BY <1>3, <2>1, <3>1 DEF LoadRefused, MayCall, Fail, TokenTypeOK
    <3>2. CASE phase[p] # "download"
      <4>1. flight[p] = Nobody
        BY <1>3, <3>2 DEF LoadRefused, MayCall, ProcessInv, FlightIsAwaited, CallsAreMade, Requests
      <4>2. QED BY <2>2, <4>1 DEF TokenTypeOK
    <3>3. QED BY <3>1, <3>2
  <2>5. PairInv'
    BY <2>1, <2>4, PairsKept
  <2>6. QED BY <2>2, <2>3, <2>5
<1>4. CASE LoadStale(p, w)
  <2>1. \A q \in Syncers, v \in Callers :
           call'[q][v] = IF q = p /\ v = w THEN "stale" ELSE call[q][v]
    BY <1>4 DEF LoadStale, TokenTypeOK
  <2>2. TokenTypeOK'
    BY <1>4 DEF LoadStale, TokenTypeOK
  <2>3. ProcessInv'
    BY <1>4, <2>1 DEF LoadStale, MayCall, ProcessInv, LockIsHeld, CallsAreMade, FlightIsAwaited, InCycle, Requests
  <2>4. PairInv'
    BY <1>4, PairsKept DEF LoadStale
  <2>5. QED BY <2>2, <2>3, <2>4
<1>5. CASE Refresh(p, w)
  <2>1. \A q \in Syncers, v \in Callers :
           call'[q][v] = IF q = p /\ v = w THEN "waiting" ELSE call[q][v]
    BY <1>5 DEF Refresh, TokenTypeOK
  <2>2. [stage |-> "load", token |-> Nobody] \in Flight /\ [stage |-> "load", token |-> Nobody] # Nobody
    BY FlightsAreSomebody
  <2>3. \/ flight' = flight
        \/ flight[p] = Nobody /\ flight' = [flight EXCEPT ![p] = [stage |-> "load", token |-> Nobody]]
    BY <1>5 DEF Refresh
  <2>9. \A q \in Syncers :
           \/ flight'[q] = flight[q]
           \/ q = p /\ flight[q] = Nobody /\ flight'[q] = [stage |-> "load", token |-> Nobody]
    <3>1. DOMAIN flight = Syncers
      BY DEF TokenTypeOK
    <3>2. CASE flight' = flight
      BY <3>2
    <3>3. CASE flight[p] = Nobody /\ flight' = [flight EXCEPT ![p] = [stage |-> "load", token |-> Nobody]]
      <4>1. ASSUME NEW q \in Syncers, q # p PROVE flight'[q] = flight[q]
        BY <3>1, <3>3, <4>1
      <4>2. flight'[p] = [stage |-> "load", token |-> Nobody]
        BY <3>1, <3>3
      <4>3. QED BY <3>3, <4>1, <4>2
    <3>4. QED BY <2>3, <3>2, <3>3
  <2>4. TokenTypeOK'
    BY <1>5, <2>2, <2>3 DEF Refresh, TokenTypeOK
  <2>5. LockIsHeld' /\ CallsAreMade'
    BY <1>5, <2>1 DEF Refresh, ProcessInv, LockIsHeld, CallsAreMade, InCycle, Requests
  <2>6. FlightIsAwaited'
    <3>1. InCycle(p)
      BY <1>5 DEF Refresh, ProcessInv, CallsAreMade
    <3>2. phase' = phase
      BY <1>5 DEF Refresh
    <3>3. QED BY <2>1, <2>9, <3>1, <3>2 DEF ProcessInv, FlightIsAwaited, InCycle
  <2>7. PairInv'
    <3>1. \A q \in Syncers :
             \/ flight'[q] = flight[q]
             \/ flight'[q].stage = "load" /\ flight[q] = Nobody
      BY <2>9
    <3>2. QED BY <1>5, <3>1, PairsKept DEF Refresh
  <2>8. QED BY <2>4, <2>5, <2>6, <2>7 DEF ProcessInv
<1>6. QED BY <1>1, <1>2, <1>3, <1>4, <1>5

(* Who is at some stage of a refresh is in a cycle, with requests waiting.         *)
LEMMA AtFlight ==
    ASSUME TokenInv, NEW p \in Syncers, NEW s \in {"load", "post", "save"}, At(p, s)
    PROVE  /\ InCycle(p) /\ flight[p] # Nobody /\ flight[p].stage = s
           /\ Waiting(p) # {} /\ Waiting(p) \subseteq Requests(p) /\ Waiting(p) \in SUBSET Callers
           /\ stored # Nobody /\ stored \in Token
           /\ s # "load" => /\ flight[p].token \in Token /\ flight[p].token.session <= opened
                            /\ flight[p].token.session \in Sessions /\ flight[p].token.gen \in 1..MaxGen
<1>1. flight[p] # Nobody /\ flight[p].stage = s
  BY DEF At
<1>2. InCycle(p) /\ Waiting(p) # {}
  BY <1>1 DEF TokenInv, ProcessInv, FlightIsAwaited, Waiting
<1>3. Waiting(p) \subseteq Requests(p) /\ Waiting(p) \in SUBSET Callers
  BY DEF TokenInv, ProcessInv, CallsAreMade, Waiting
<1>4. stored # Nobody /\ stored \in Token
  BY <1>2 DEF TokenInv, ProcessInv, CallsAreMade, Waiting, TokenTypeOK
<1>5. s # "load" => flight[p].token \in Token /\ flight[p].token.session <= opened
  BY <1>1 DEF TokenInv, ProcessInv, PairInv, FlightIsAwaited, SessionsAreOpened
<1>6. s # "load" => flight[p].token.session \in Sessions /\ flight[p].token.gen \in 1..MaxGen
  BY <1>5 DEF Token
<1>7. QED BY <1>1, <1>2, <1>3, <1>4, <1>5, <1>6

(* A refresh that fails, for all that wait for it.                                 *)
LEMMA FailedFlight ==
    ASSUME TokenInv, NEW p \in Syncers, NEW c \in Classes, NEW s \in {"post", "save"}, At(p, s),
           Fail(p, Waiting(p), c), UNCHANGED <<server, opened, credentials, stored, device>>,
           lost \subseteq lost', lost' \subseteq Sessions, Unsaved(p) \subseteq lost',
           faults' \in 0..MaxFaults
    PROVE  TokenInv'
<1> USE DEF TokenInv
<1>1. InCycle(p) /\ Waiting(p) \subseteq Requests(p) /\ Waiting(p) \in SUBSET Callers /\ Waiting(p) # {}
  BY AtFlight
<1>2. ProcessTypes' /\ ProcessInv' /\ flight' = [flight EXCEPT ![p] = Nobody]
  BY <1>1, FailKeepsProcesses
<1>3. TokenTypeOK'
  BY <1>2 DEF TokenTypeOK, ProcessTypes
<1>4. \A q \in Syncers :
         \/ flight'[q] = flight[q]
         \/ flight'[q] = Nobody /\ Unsaved(q) \subseteq lost'
  BY <1>2 DEF TokenTypeOK
<1>5. PairInv'
  BY <1>4, PairsKept
<1>6. QED BY <1>2, <1>3, <1>5

(* doRefresh: load, exchange, save.                                                *)
LEMMA ReloadStep ==
    ASSUME TokenInv, NEW p \in Syncers, Reload(p)
    PROVE  TokenInv'
<1> USE DEF TokenInv
<1>1. At(p, "load") /\ InCycle(p) /\ stored # Nobody /\ stored \in Token
  BY AtFlight DEF Reload
<1>2. [stage |-> "post", token |-> stored] \in Flight /\ [stage |-> "post", token |-> stored] # Nobody
  BY <1>1, FlightsAreSomebody
<1>3. flight' = [flight EXCEPT ![p] = [stage |-> "post", token |-> stored]]
  BY DEF Reload, Current
<1>4. UNCHANGED <<server, opened, lost, credentials, stored, lock, phase, call, outcome, device, asked, faults>>
  BY DEF Reload
<1>5. \A q \in Syncers : flight'[q] = IF q = p THEN [stage |-> "post", token |-> stored] ELSE flight[q]
  BY <1>3 DEF TokenTypeOK
<1>6. TokenTypeOK'
  BY <1>2, <1>3, <1>4 DEF TokenTypeOK
<1>7. LockIsHeld' /\ CallsAreMade'
  BY <1>4 DEF ProcessInv, LockIsHeld, CallsAreMade, InCycle, Requests
<1>8. FlightIsAwaited'
  <2>1. flight[p] # Nobody
    BY <1>1 DEF At
  <2>2. QED BY <1>1, <1>4, <1>5, <2>1 DEF ProcessInv, FlightIsAwaited, InCycle
<1>9. \A q \in Syncers : Unsaved(q) = {} \/ q = p
  BY <1>1, OneUnsaved
<1>10. Unsaved(p) = {}
  BY <1>1 DEF Unsaved, At
<1>11. server[stored.session] \in {0, stored.gen} \/ stored.session \in lost
  BY <1>1, <1>9, <1>10 DEF PairInv, StoredIsCurrent
<1>12. SessionsAreOpened' /\ FlightIsCurrent'
  BY <1>1, <1>4, <1>5, <1>11 DEF PairInv, SessionsAreOpened, FlightIsCurrent
<1>13. GrantsAreUnseen'
  BY <1>1, <1>4, <1>5 DEF PairInv, GrantsAreUnseen
<1>14. StoredIsCurrent'
  BY <1>4, <1>11 DEF StoredIsCurrent
<1>15. QED BY <1>6, <1>7, <1>8, <1>12, <1>13, <1>14 DEF ProcessInv, PairInv

LEMMA ExchangeStep ==
    ASSUME TokenInv, NEW p \in Syncers, Exchange(p)
    PROVE  TokenInv'
<1> USE DEF TokenInv
<1> DEFINE t == flight[p].token
<1>1. At(p, "post") /\ InCycle(p) /\ t \in Token /\ t.session \in Sessions /\ t.session <= opened
  BY AtFlight DEF Exchange
<1>2. server[t.session] = t.gen
  BY DEF Exchange, Live
<1>3. PICK g \in Generations(t) :
         /\ server' = [server EXCEPT ![t.session] = g]
         /\ flight' = [flight EXCEPT ![p] = [stage |-> "save", token |-> Merged(t, g)]]
  BY DEF Exchange
<1> DEFINE n == Merged(t, g)
<1>4. g \in 1..MaxGen
  BY <1>1, <1>3 DEF Generations, Token
<1>5. n \in Token /\ n.session = t.session /\ n.gen = g
  BY <1>1, <1>4 DEF Merged, Token
<1>6. [stage |-> "save", token |-> n] \in Flight /\ [stage |-> "save", token |-> n] # Nobody
  BY <1>5, FlightsAreSomebody
<1>7. UNCHANGED <<opened, lost, credentials, stored, lock, phase, call, outcome, device, asked, faults>>
  BY DEF Exchange
<1>8. \A q \in Syncers : flight'[q] = IF q = p THEN [stage |-> "save", token |-> n] ELSE flight[q]
  BY <1>3 DEF TokenTypeOK
<1>9. \A s \in Sessions : server'[s] = IF s = t.session THEN g ELSE server[s]
  BY <1>1, <1>3 DEF TokenTypeOK
<1>10. \A q \in Syncers : q # p => flight[q] = Nobody
  BY <1>1, OneUnsaved
<1>11. TokenTypeOK'
  <2>1. server' \in [Sessions -> 0..MaxGen]
    <3>1. \A k \in 1..MaxGen : k \in 0..MaxGen
      OBVIOUS
    <3>2. QED BY <1>1, <1>3, <1>4, <3>1 DEF TokenTypeOK
  <2>2. flight' \in [Syncers -> Flight \cup {Nobody}]
    BY <1>3, <1>6 DEF TokenTypeOK
  <2>3. QED BY <1>7, <2>1, <2>2 DEF TokenTypeOK
<1>12. LockIsHeld' /\ CallsAreMade'
  BY <1>7 DEF ProcessInv, LockIsHeld, CallsAreMade, InCycle, Requests
<1>13. flight[p] # Nobody /\ flight[p].stage = "post"
  BY <1>1 DEF At
<1>14. FlightIsAwaited'
  BY <1>5, <1>7, <1>8, <1>13 DEF ProcessInv, FlightIsAwaited, InCycle
<1>15. SessionsAreOpened'
  <2>1. \A s \in Sessions : s > opened => s # t.session
    BY <1>1 DEF Sessions, TokenTypeOK
  <2>2. \A s \in Sessions : s > opened' => server'[s] = 0
    BY <1>7, <1>9, <2>1 DEF PairInv, SessionsAreOpened
  <2>3. \A q \in Syncers : flight'[q] # Nobody => flight'[q].token.session <= opened'
    BY <1>1, <1>5, <1>7, <1>8, <1>10
  <2>4. QED BY <1>7, <2>2, <2>3 DEF PairInv, SessionsAreOpened
<1>16. GrantsAreUnseen'
  <2>1. \A l \in Logins : device[l].stage = "answered" => device[l].session # t.session
    BY <1>13 DEF PairInv, GrantsAreUnseen
  <2>2. \A l \in Logins : device[l].stage = "answered" =>
            server'[device[l].session] = server[device[l].session]
    BY <1>9, <2>1 DEF PairInv, GrantsAreUnseen
  <2>3. \A q \in Syncers : flight'[q] # Nobody => flight'[q].token.session = t.session
    BY <1>5, <1>8, <1>10
  <2>4. QED BY <1>7, <2>1, <2>2, <2>3 DEF PairInv, GrantsAreUnseen
<1>17. FlightIsCurrent'
  <2>1. server'[n.session] = n.gen
    BY <1>1, <1>5, <1>9
  <2>2. flight'[p].token = n
    BY <1>8
  <2>3. SUFFICES ASSUME NEW q \in Syncers, flight'[q] # Nobody
                 PROVE  server'[flight'[q].token.session] = flight'[q].token.gen
    BY DEF FlightIsCurrent
  <2>4. q = p
    BY <1>8, <1>10, <2>3
  <2>5. QED BY <2>1, <2>2, <2>4
<1>18. StoredIsCurrent'
  <2>1. CASE stored # Nobody /\ stored.session = t.session
    <3>1. t.session \in Unsaved(p)'
      BY <1>5, <1>6, <1>8 DEF Unsaved, At
    <3>2. QED BY <1>7, <2>1, <3>1 DEF StoredIsCurrent
  <2>2. CASE stored # Nobody /\ stored.session # t.session
    <3>1. \A q \in Syncers : Unsaved(q) = {}
      BY <1>10, <1>13, UnsavedAtPost
    <3>2. stored.session \in Sessions
      BY <2>2 DEF TokenTypeOK, Token
    <3>3. server'[stored.session] = server[stored.session]
      BY <1>9, <2>2, <3>2
    <3>4. server[stored.session] \in {0, stored.gen} \/ stored.session \in lost
      BY <2>2, <3>1 DEF PairInv, StoredIsCurrent
    <3>5. QED BY <1>7, <3>3, <3>4 DEF StoredIsCurrent
  <2>3. CASE stored = Nobody
    BY <1>7, <2>3 DEF StoredIsCurrent
  <2>4. QED BY <2>1, <2>2, <2>3
<1>19. QED BY <1>11, <1>12, <1>14, <1>15, <1>16, <1>17, <1>18 DEF ProcessInv, PairInv

LEMMA SaveStep ==
    ASSUME TokenInv, NEW p \in Syncers, Save(p)
    PROVE  TokenInv'
<1> USE DEF TokenInv
<1> DEFINE t == flight[p].token
<1>1. /\ At(p, "save") /\ InCycle(p) /\ flight[p] # Nobody /\ flight[p].stage = "save"
      /\ t \in Token /\ t.session \in Sessions /\ t.session <= opened
      /\ Waiting(p) \subseteq Requests(p) /\ Waiting(p) \in SUBSET Callers /\ Waiting(p) # {}
  BY AtFlight DEF Save
<1>2. stored' = t /\ t # Nobody /\ UNCHANGED <<server, opened, lost, credentials, device, faults>>
  BY <1>1, NobodyAssumption DEF Save
<1>3. ProcessTypes' /\ ProcessInv' /\ flight' = [flight EXCEPT ![p] = Nobody]
  <2>1. CASE server[t.session] = 0
    <3>1. Fail(p, Waiting(p), "transient") /\ "transient" \in Classes
      BY <2>1 DEF Save, Classes
    <3>2. QED BY <1>1, <1>2, <3>1, FailKeepsProcesses
  <2>2. CASE server[t.session] # 0
    <3>1. Done(p, Waiting(p)) /\ flight' = [flight EXCEPT ![p] = Nobody] /\ UNCHANGED <<phase, outcome, lock, asked>>
      BY <2>2 DEF Save
    <3>2. \A q \in Syncers, w \in Callers :
             call'[q][w] = IF q = p /\ w \in Waiting(p) THEN "done" ELSE call[q][w]
      BY <3>1 DEF Done, TokenTypeOK
    <3>3. call' \in [Syncers -> [Callers -> {"idle", "stale", "waiting", "done"}]]
      BY <3>1 DEF Done, TokenTypeOK
    <3>4. ProcessTypes'
      BY <3>1, <3>3 DEF ProcessTypes, TokenTypeOK
    <3>5. LockIsHeld'
      BY <3>1 DEF ProcessInv, LockIsHeld, InCycle
    <3>6. CallsAreMade'
      BY <1>1, <1>2, <3>1, <3>2 DEF ProcessInv, CallsAreMade, InCycle, Requests
    <3>7. \A q \in Syncers : flight'[q] = IF q = p THEN Nobody ELSE flight[q]
      BY <3>1 DEF TokenTypeOK
    <3>8. \A q \in Syncers, w \in Callers : q # p => call'[q][w] = call[q][w]
      BY <3>2
    <3>9. FlightIsAwaited'
      BY <3>1, <3>7, <3>8 DEF ProcessInv, FlightIsAwaited, InCycle
    <3>10. QED BY <3>1, <3>4, <3>5, <3>6, <3>9 DEF ProcessInv
  <2>3. QED BY <2>1, <2>2
<1>4. \A q \in Syncers : flight'[q] = Nobody
  <2>1. \A q \in Syncers : q # p => flight[q] = Nobody
    BY <1>1, OneUnsaved
  <2>2. QED BY <1>3, <2>1 DEF TokenTypeOK
<1>5. TokenTypeOK'
  BY <1>1, <1>2, <1>3 DEF TokenTypeOK, ProcessTypes
<1>6. SessionsAreOpened' /\ FlightIsCurrent'
  BY <1>1, <1>2, <1>4 DEF PairInv, SessionsAreOpened, FlightIsCurrent
<1>7. GrantsAreUnseen'
  BY <1>1, <1>2, <1>4 DEF PairInv, GrantsAreUnseen
<1>8. StoredIsCurrent'
  <2>1. server[t.session] \in {0, t.gen} \/ t.session \in lost
    BY <1>1 DEF PairInv, FlightIsCurrent
  <2>2. QED BY <1>2, <2>1 DEF StoredIsCurrent
<1>9. QED BY <1>3, <1>5, <1>6, <1>7, <1>8 DEF PairInv

LEMMA FlightSteps ==
    ASSUME TokenInv, NEW p \in Syncers, FlightStep(p)
    PROVE  TokenInv'
<1>1. CASE Refused(p)
  <2>1. At(p, "post") /\ UNCHANGED <<server, opened, lost, credentials, stored, device, faults>>
    BY <1>1 DEF Refused
  <2>2. PICK c \in {"dead", "reauth"} : Fail(p, Waiting(p), c)
    BY <1>1 DEF Refused
  <2>3. c \in Classes
    BY DEF Classes
  <2>4. Unsaved(p) \subseteq lost' /\ lost' \subseteq Sessions /\ faults' \in 0..MaxFaults
    BY <2>1 DEF At, Unsaved, TokenInv, TokenTypeOK
  <2>5. QED BY <2>1, <2>2, <2>3, <2>4, FailedFlight
<1>2. QED BY <1>1, ReloadStep, ExchangeStep, SaveStep DEF FlightStep

(* What goes wrong in a cycle.                                                     *)
LEMMA FaultsCounted ==
    ASSUME TokenTypeOK, Fault
    PROVE  faults' \in 0..MaxFaults
BY DEF TokenTypeOK, Fault

LEMMA SyncFaults ==
    ASSUME TokenInv, NEW p \in Syncers, SyncFault(p)
    PROVE  TokenInv'
<1> USE DEF TokenInv
<1>1. faults' \in 0..MaxFaults
  BY FaultsCounted DEF SyncFault, AnswerLost, PostFails, SaveFails, Stop
<1>2. CASE AnswerLost(p)
  <2> DEFINE t == flight[p].token
  <2>1. /\ At(p, "post") /\ flight[p] # Nobody /\ flight[p].stage = "post" /\ InCycle(p)
        /\ t \in Token /\ t.session \in Sessions /\ t.gen \in 1..MaxGen /\ t.session <= opened
    BY <1>2, AtFlight DEF AnswerLost
  <2>2. /\ server[t.session] = t.gen /\ t.gen < MaxGen
        /\ server' = [server EXCEPT ![t.session] = server[t.session] + 1]
        /\ lost' = lost \cup {t.session}
    BY <1>2 DEF AnswerLost, Live
  <2>3. UNCHANGED <<opened, credentials, stored, lock, phase, call, flight, outcome, device, asked>>
    BY <1>2 DEF AnswerLost
  <2>4. \A s \in Sessions : s # t.session => server'[s] = server[s]
    BY <2>2 DEF TokenTypeOK
  <2>5. TokenTypeOK'
    <3>1. t.gen + 1 \in 0..MaxGen
      BY <2>1, <2>2
    <3>2. server' \in [Sessions -> 0..MaxGen]
      BY <2>2, <3>1 DEF TokenTypeOK
    <3>3. QED BY <1>1, <2>1, <2>2, <2>3, <3>2 DEF TokenTypeOK
  <2>6. ProcessInv'
    BY <2>3, IdleKeepsProcesses
  <2>7. SessionsAreOpened'
    <3>1. \A s \in Sessions : s > opened => s # t.session
      BY <2>1 DEF Sessions, TokenTypeOK
    <3>2. QED BY <2>1, <2>3, <2>4, <3>1 DEF PairInv, SessionsAreOpened
  <2>8. GrantsAreUnseen'
    <3>1. \A l \in Logins : device[l].stage = "answered" => device[l].session # t.session
      BY <2>1 DEF PairInv, GrantsAreUnseen
    <3>2. QED BY <2>3, <2>4, <3>1 DEF PairInv, GrantsAreUnseen
  <2>9. FlightIsCurrent'
    <3>1. SUFFICES ASSUME NEW q \in Syncers, flight[q] # Nobody, flight[q].stage # "load"
                   PROVE  \/ server'[flight[q].token.session] \in {0, flight[q].token.gen}
                          \/ flight[q].token.session \in lost'
      BY <2>3 DEF FlightIsCurrent
    <3>2. q = p
      BY <2>1, <3>1, OneUnsaved
    <3>3. QED BY <2>2, <3>2
  <2>10. StoredIsCurrent'
    <3>1. \A q \in Syncers : Unsaved(q)' = Unsaved(q)
      BY <2>3 DEF Unsaved, At
    <3>2. CASE stored # Nobody /\ stored.session # t.session
      <4>1. stored.session \in Sessions
        BY <3>2 DEF TokenTypeOK, Token
      <4>2. QED BY <2>2, <2>3, <2>4, <3>1, <3>2, <4>1 DEF PairInv, StoredIsCurrent
    <3>3. CASE ~(stored # Nobody /\ stored.session # t.session)
      BY <2>2, <2>3, <3>3 DEF StoredIsCurrent
    <3>4. QED BY <3>2, <3>3
  <2>11. QED BY <2>5, <2>6, <2>7, <2>8, <2>9, <2>10 DEF PairInv
<1>3. CASE PostFails(p)
  <2>1. /\ At(p, "post") /\ Fail(p, Waiting(p), "transient") /\ "transient" \in Classes
        /\ UNCHANGED <<server, opened, lost, credentials, stored, device>>
    BY <1>3 DEF PostFails, Classes
  <2>2. Unsaved(p) \subseteq lost' /\ lost' \subseteq Sessions
    BY <2>1 DEF At, Unsaved, TokenTypeOK
  <2>3. QED BY <1>1, <2>1, <2>2, FailedFlight
<1>4. CASE SaveFails(p)
  <2>1. /\ At(p, "save") /\ Fail(p, Waiting(p), "transient") /\ "transient" \in Classes
        /\ lost' = lost \cup Unsaved(p)
        /\ UNCHANGED <<server, opened, credentials, stored, device>>
    BY <1>4 DEF SaveFails, Classes
  <2>2. Unsaved(p) \subseteq Sessions
    BY <2>1, AtFlight DEF Unsaved
  <2>3. Unsaved(p) \subseteq lost' /\ lost \subseteq lost' /\ lost' \subseteq Sessions
    BY <2>1, <2>2 DEF TokenTypeOK
  <2>4. QED BY <1>1, <2>1, <2>3, FailedFlight
<1>5. CASE Stop(p)
  <2>1. /\ End(p, "cancelled") /\ "cancelled" \in Classes
        /\ lost' = lost \cup Unsaved(p)
        /\ UNCHANGED <<server, opened, credentials, stored, device>>
    BY <1>5 DEF Stop, Classes
  <2>2. Unsaved(p) \subseteq Sessions
    BY AtFlight DEF Unsaved
  <2>3. ProcessTypes' /\ ProcessInv' /\ flight' = [flight EXCEPT ![p] = Nobody]
    BY <2>1, EndKeepsProcesses
  <2>4. TokenTypeOK'
    BY <1>1, <2>1, <2>2, <2>3 DEF TokenTypeOK, ProcessTypes
  <2>5. \A q \in Syncers :
           \/ flight'[q] = flight[q]
           \/ flight'[q] = Nobody /\ Unsaved(q) \subseteq lost'
    BY <2>1, <2>3 DEF TokenTypeOK
  <2>6. PairInv'
    BY <2>1, <2>5, PairsKept
  <2>7. QED BY <2>3, <2>4, <2>6
<1>6. QED BY <1>2, <1>3, <1>4, <1>5 DEF SyncFault

(* The device login.                                                               *)
LEMMA LoginSteps ==
    ASSUME TokenInv, NEW l \in Logins,
           LoginStep(l) \/ LoginFails(l) \/ LoginNoStore(l) \/ LoginReturns(l) \/ Unasked(l)
    PROVE  TokenInv'
<1> USE DEF TokenInv
<1>1. CASE \/ StartDeviceAuth(l) \/ Approve(l) \/ LoginFails(l) \/ LoginNoStore(l) \/ LoginReturns(l) \/ Unasked(l)
  <2>1. UNCHANGED <<server, opened, lost, credentials, stored, lock, phase, call, flight, outcome, asked>>
    BY <1>1 DEF StartDeviceAuth, Approve, LoginFails, LoginNoStore, LoginReturns, Unasked
  <2>2. \/ device' = device
        \/ \E s \in {"none", "pending", "approved", "over"} :
              device' = [device EXCEPT ![l] = [stage |-> s, session |-> 0]]
    BY <1>1 DEF StartDeviceAuth, Approve, LoginFails, LoginNoStore, LoginReturns, Unasked, Turn
  <2>3. faults' \in 0..MaxFaults
    <3>1. Fault \/ faults' = faults
      BY <1>1 DEF StartDeviceAuth, Approve, LoginFails, LoginNoStore, LoginReturns, Unasked
    <3>2. QED BY <3>1, FaultsCounted DEF TokenTypeOK
  <2>4. device' \in [Logins -> [stage : {"none", "pending", "approved", "answered", "over"},
                                session : 0..MaxSessions]]
    <3> DEFINE R == [stage : {"none", "pending", "approved", "answered", "over"},
                     session : 0..MaxSessions]
    <3>1. 0 \in 0..MaxSessions
      BY TokenAssumption
    <3>2. device \in [Logins -> R]
      BY DEF TokenTypeOK
    <3>3. \A s \in {"none", "pending", "approved", "over"} : [stage |-> s, session |-> 0] \in R
      BY <3>1
    <3> HIDE DEF R
    <3>4. ASSUME NEW s \in {"none", "pending", "approved", "over"},
                 device' = [device EXCEPT ![l] = [stage |-> s, session |-> 0]]
          PROVE  device' \in [Logins -> R]
      BY <3>2, <3>3, <3>4
    <3>5. device' \in [Logins -> R]
      BY <2>2, <3>2, <3>4
    <3>6. QED BY <3>5 DEF R
  <2>5. \A k \in Logins : device'[k] = device[k] \/ device'[k].stage # "answered"
    BY <2>2 DEF TokenTypeOK
  <2>6. TokenTypeOK'
    BY <2>1, <2>3, <2>4 DEF TokenTypeOK
  <2>7. ProcessInv'
    BY <2>1, IdleKeepsProcesses
  <2>8. PairInv'
    BY <2>1, <2>5, PairsKept
  <2>9. QED BY <2>6, <2>7, <2>8
<1>2. CASE PollToken(l)
  <2> DEFINE s == opened + 1
  <2>1. /\ s \in Sessions /\ opened \in Nat /\ opened' = s
        /\ server' = [server EXCEPT ![s] = 1]
        /\ device' = [device EXCEPT ![l] = [stage |-> "answered", session |-> s]]
        /\ UNCHANGED <<lost, credentials, stored, lock, phase, call, flight, outcome, asked, faults>>
    BY <1>2 DEF PollToken, Turn, Sessions, TokenTypeOK
  <2>2. \A r \in Sessions : server'[r] = IF r = s THEN 1 ELSE server[r]
    BY <2>1 DEF TokenTypeOK
  <2>3. \A k \in Logins : device'[k] = IF k = l THEN [stage |-> "answered", session |-> s] ELSE device[k]
    BY <2>1 DEF TokenTypeOK
  <2>4. TokenTypeOK'
    <3>1. s \in 0..MaxSessions /\ 1 \in 0..MaxGen
      BY <2>1 DEF Sessions
    <3>2. server' \in [Sessions -> 0..MaxGen]
      BY <2>1, <3>1 DEF TokenTypeOK
    <3>3. device' \in [Logins -> [stage : {"none", "pending", "approved", "answered", "over"},
                                  session : 0..MaxSessions]]
      BY <2>1, <3>1 DEF TokenTypeOK
    <3>4. QED BY <2>1, <3>1, <3>2, <3>3 DEF TokenTypeOK
  <2>5. ProcessInv'
    BY <2>1, IdleKeepsProcesses
  <2>6. \A r \in Sessions : r <= opened => r # s /\ r <= opened' /\ server'[r] = server[r]
    BY <2>1, <2>2 DEF Sessions
  <2>7. stored # Nobody => stored.session \in Sessions /\ stored.session <= opened
    BY DEF TokenTypeOK, Token, PairInv, SessionsAreOpened
  <2>8. \A q \in Syncers : flight[q] # Nobody /\ flight[q].stage # "load" =>
           flight[q].token.session \in Sessions /\ flight[q].token.session <= opened
    BY DEF ProcessInv, FlightIsAwaited, Token, PairInv, SessionsAreOpened
  <2>9. SessionsAreOpened'
    <3>1. \A r \in Sessions : r > opened' => server'[r] = 0
      BY <2>1, <2>2 DEF PairInv, SessionsAreOpened, Sessions
    <3>2. QED BY <2>1, <2>6, <2>7, <2>8, <3>1 DEF SessionsAreOpened
  <2>10. GrantsAreUnseen'
    <3>1. ASSUME NEW k \in Logins, device'[k].stage = "answered"
          PROVE  /\ device'[k].session \in Sessions /\ device'[k].session <= opened'
                 /\ server'[device'[k].session] \in {0, 1}
                 /\ stored' # Nobody => stored'.session # device'[k].session
                 /\ \A q \in Syncers : flight'[q] # Nobody /\ flight'[q].stage # "load" =>
                       flight'[q].token.session # device'[k].session
                 /\ \A j \in Logins \ {k} : device'[j].stage = "answered" =>
                       device'[j].session # device'[k].session
      <4>1. CASE k = l
        <5>1. device'[k].session = s
          BY <2>3, <4>1
        <5>2. \A j \in Logins \ {k} : device'[j] = device[j]
          BY <2>3, <4>1
        <5>3. \A j \in Logins \ {k} : device[j].stage = "answered" => device[j].session # s
          BY <2>6 DEF PairInv, GrantsAreUnseen
        <5>4. s <= opened' /\ server'[s] = 1
          BY <2>1, <2>2
        <5>5. QED BY <2>1, <2>6, <2>7, <2>8, <5>1, <5>2, <5>3, <5>4
      <4>2. CASE k # l
        <5>1. device'[k] = device[k]
          BY <2>3, <4>2
        <5>2. /\ device[k].session \in Sessions /\ device[k].session <= opened
              /\ server[device[k].session] \in {0, 1}
              /\ stored # Nobody => stored.session # device[k].session
              /\ \A q \in Syncers : flight[q] # Nobody /\ flight[q].stage # "load" =>
                    flight[q].token.session # device[k].session
              /\ \A j \in Logins \ {k} : device[j].stage = "answered" =>
                    device[j].session # device[k].session
          BY <3>1, <5>1 DEF PairInv, GrantsAreUnseen
        <5>3. device[k].session # s
          BY <2>6, <5>2
        <5>4. \A j \in Logins \ {k} : device'[j].stage = "answered" => device'[j].session # device'[k].session
          BY <2>3, <5>1, <5>2, <5>3
        <5>5. QED BY <2>1, <2>6, <5>1, <5>2, <5>4
      <4>3. QED BY <4>1, <4>2
    <3>2. QED BY <3>1 DEF GrantsAreUnseen
  <2>11. FlightIsCurrent'
    BY <2>1, <2>6, <2>8 DEF PairInv, FlightIsCurrent
  <2>12. StoredIsCurrent'
    <3>1. \A q \in Syncers : Unsaved(q)' = Unsaved(q)
      BY <2>1 DEF Unsaved, At
    <3>2. QED BY <2>1, <2>6, <2>7, <3>1 DEF PairInv, StoredIsCurrent
  <2>13. QED BY <2>4, <2>5, <2>9, <2>10, <2>11, <2>12 DEF PairInv
<1>3. CASE SaveLogin(l)
  <2> DEFINE d == device[l].session
  <2> DEFINE t == [session |-> d, gen |-> 1, fresh |-> TRUE]
  <2>1. /\ device[l].stage = "answered" /\ stored' = t /\ asked' = FALSE
        /\ device' = [device EXCEPT ![l] = [stage |-> "over", session |-> 0]]
        /\ UNCHANGED <<server, opened, lost, credentials, lock, phase, call, flight, outcome, faults>>
    BY <1>3 DEF SaveLogin, Turn
  <2>2. /\ d \in Sessions /\ d <= opened /\ server[d] \in {0, 1}
        /\ \A q \in Syncers : flight[q] # Nobody /\ flight[q].stage # "load" => flight[q].token.session # d
        /\ \A k \in Logins \ {l} : device[k].stage = "answered" => device[k].session # d
    BY <2>1 DEF PairInv, GrantsAreUnseen
  <2>3. t \in Token /\ t # Nobody
    <3>1. 1 \in 1..MaxGen
      OBVIOUS
    <3>2. t \in Token
      BY <2>2, <3>1 DEF Token
    <3>3. QED BY <3>2, NobodyAssumption
  <2>4. \A k \in Logins : device'[k] = IF k = l THEN [stage |-> "over", session |-> 0] ELSE device[k]
    BY <2>1 DEF TokenTypeOK
  <2>5. TokenTypeOK'
    <3>1. device' \in [Logins -> [stage : {"none", "pending", "approved", "answered", "over"},
                                  session : 0..MaxSessions]]
      BY <2>1 DEF TokenTypeOK
    <3>2. QED BY <2>1, <2>3, <3>1 DEF TokenTypeOK
  <2>6. ProcessInv'
    BY <2>1, <2>3, IdleKeepsProcesses
  <2>7. SessionsAreOpened' /\ FlightIsCurrent'
    BY <2>1, <2>2 DEF PairInv, SessionsAreOpened, FlightIsCurrent
  <2>8. GrantsAreUnseen'
    <3>1. stored'.session = d
      BY <2>1
    <3>2. QED BY <2>1, <2>2, <2>4, <3>1 DEF PairInv, GrantsAreUnseen
  <2>9. StoredIsCurrent'
    BY <2>1, <2>2 DEF StoredIsCurrent
  <2>10. QED BY <2>5, <2>6, <2>7, <2>8, <2>9 DEF PairInv
<1>4. QED BY <1>1, <1>2, <1>3 DEF LoginStep

(* Time, the user and the configuration.                                           *)
LEMMA WorldSteps ==
    ASSUME TokenInv, World
    PROVE  TokenInv'
<1> USE DEF TokenInv
<1>1. CASE Expire
  <2>1. /\ stored # Nobody /\ stored \in Token /\ stored' = [stored EXCEPT !.fresh = FALSE]
        /\ UNCHANGED <<server, opened, lost, credentials, lock, phase, call, flight, outcome,
                       device, asked, faults>>
    BY <1>1 DEF Expire, TokenTypeOK
  <2>2. stored' \in Token /\ stored'.session = stored.session /\ stored'.gen = stored.gen
    BY <2>1 DEF Token
  <2>3. stored' # Nobody
    BY <2>2, NobodyAssumption
  <2>4. TokenTypeOK'
    BY <2>1, <2>2 DEF TokenTypeOK
  <2>5. ProcessInv'
    BY <2>1, <2>3, IdleKeepsProcesses
  <2>6. SessionsAreOpened' /\ GrantsAreUnseen' /\ FlightIsCurrent'
    BY <2>1, <2>2 DEF PairInv, SessionsAreOpened, GrantsAreUnseen, FlightIsCurrent
  <2>7. StoredIsCurrent'
    <3>1. \A q \in Syncers : Unsaved(q)' = Unsaved(q)
      BY <2>1 DEF Unsaved, At
    <3>2. QED BY <2>1, <2>2, <3>1 DEF PairInv, StoredIsCurrent
  <2>8. QED BY <2>4, <2>5, <2>6, <2>7 DEF PairInv
<1>2. ASSUME NEW s \in Sessions, Revoke(s) PROVE TokenInv'
  <2>1. /\ server' = [server EXCEPT ![s] = 0] /\ faults' \in 0..MaxFaults
        /\ UNCHANGED <<opened, lost, credentials, stored, lock, phase, call, flight, outcome,
                       device, asked>>
    BY <1>2, FaultsCounted DEF Revoke
  <2>2. \A r \in Sessions : server'[r] = IF r = s THEN 0 ELSE server[r]
    BY <2>1 DEF TokenTypeOK
  <2>3. TokenTypeOK'
    BY <2>1 DEF TokenTypeOK
  <2>4. ProcessInv'
    BY <2>1, IdleKeepsProcesses
  <2>5. SessionsAreOpened' /\ GrantsAreUnseen'
    BY <2>1, <2>2 DEF PairInv, SessionsAreOpened, GrantsAreUnseen
  <2>6. FlightIsCurrent'
    <3>1. \A q \in Syncers : flight[q] # Nobody /\ flight[q].stage # "load" =>
             flight[q].token.session \in Sessions
      BY DEF ProcessInv, FlightIsAwaited, Token
    <3>2. QED BY <2>1, <2>2, <3>1 DEF PairInv, FlightIsCurrent
  <2>7. StoredIsCurrent'
    <3>1. \A q \in Syncers : Unsaved(q)' = Unsaved(q)
      BY <2>1 DEF Unsaved, At
    <3>2. stored # Nobody => stored.session \in Sessions
      BY DEF TokenTypeOK, Token
    <3>3. QED BY <2>1, <2>2, <3>1, <3>2 DEF PairInv, StoredIsCurrent
  <2>8. QED BY <2>3, <2>4, <2>5, <2>6, <2>7 DEF PairInv
<1>3. CASE FixCredentials
  <2>1. /\ credentials' = TRUE
        /\ UNCHANGED <<server, opened, lost, stored, lock, phase, call, flight, outcome,
                       device, asked, faults>>
    BY <1>3 DEF FixCredentials
  <2>2. TokenTypeOK'
    BY <2>1 DEF TokenTypeOK
  <2>3. ProcessInv'
    BY <2>1, IdleKeepsProcesses
  <2>4. PairInv'
    BY <2>1, PairsKept
  <2>5. QED BY <2>2, <2>3, <2>4
<1>4. QED BY <1>1, <1>2, <1>3 DEF World

(***************************************************************************)
(* The theorems.                                                           *)
(***************************************************************************)
LEMMA TokenNextInv == TokenInv /\ [TokenNext]_tokenVars => TokenInv'
<1>1. SUFFICES ASSUME TokenInv, [TokenNext]_tokenVars PROVE TokenInv'
  OBVIOUS
<1>2. CASE UNCHANGED tokenVars
  <2>1. UNCHANGED <<server, opened, lost, credentials, stored, lock, phase, call, flight,
                    outcome, device, asked, faults>>
    BY <1>2 DEF tokenVars
  <2>2. TokenTypeOK'
    BY <1>1, <2>1 DEF TokenInv, TokenTypeOK
  <2>3. ProcessInv'
    BY <1>1, <2>1, IdleKeepsProcesses DEF TokenInv
  <2>4. PairInv'
    BY <1>1, <2>1, PairsKept DEF TokenInv
  <2>5. QED BY <2>2, <2>3, <2>4 DEF TokenInv
<1>3. CASE TokenNext
  BY <1>1, <1>3, CycleSteps, CallSteps, FlightSteps, SyncFaults, LoginSteps, WorldSteps DEF TokenNext
<1>4. QED BY <1>1, <1>2, <1>3

(* The invariant behind the rest: one cycle at a time, a refresh only while a       *)
(* request waits for it, and what it holds is current or known to be lost.        *)
THEOREM TokenInvariant == TokenSpec => []TokenInv
BY TokenInitInv, TokenNextInv, PTL DEF TokenSpec

(* Tokens, flights, phases and logins stay within their types.                     *)
THEOREM TokensTyped == TokenSpec => []TokenTypeOK
<1>1. TokenInv => TokenTypeOK
  BY DEF TokenInv
<1>2. QED BY <1>1, TokenInvariant, PTL

(* However many processes, requests and logins there are, the store never keeps a   *)
(* refresh token that was spent, nor one that was never granted.                  *)
THEOREM StoredStaysCurrent == TokenSpec => []StoredIsCurrent
<1>1. TokenInv => StoredIsCurrent
  BY DEF TokenInv, PairInv
<1>2. QED BY <1>1, TokenInvariant, PTL

(* No refresh presents a refresh token another one has spent.                      *)
THEOREM RefreshTokensAreSpentOnce == TokenSpec => []NeverSpentTwice
<1>1. TokenInv => NeverSpentTwice
  BY DEF TokenInv, PairInv, FlightIsCurrent, NeverSpentTwice, At
<1>2. QED BY <1>1, TokenInvariant, PTL
===============================================================================
