-------------------------------- MODULE Tokens --------------------------------
(* The one OAuth token in the store and everybody who reads and replaces it: the  *)
(* requests of a sync cycle through TokenSource (pkg/tidal/auth), the refresh     *)
(* they share, and the device login of another process (cmd/login.go).            *)
(*                                                                                *)
(* A token is the session the user opened by a login, the generation of its       *)
(* refresh token, and whether its access token is further than refreshThreshold   *)
(* from its expiry. The authorization server accepts one generation per session;  *)
(* an exchange may rotate it. The server is what the code expects of it.          *)
EXTENDS Naturals, FiniteSets

CONSTANTS
    Syncers,        \* processes that run sync cycles
    Daemons,        \* those of them that run cycle after cycle
    Logins,         \* processes that run `tidal-syncer login`
    Callers,        \* concurrent requests of one cycle
    Main,           \* the one that enumerates and exports
    Nobody,         \* no process, no token, no flight
    MaxSessions,    \* bound: logins the server ever accepts
    MaxGen,         \* bound: generations of a refresh token
    MaxFaults       \* bound: faults of any kind

ASSUME TokenAssumption ==
    /\ MaxSessions \in Nat /\ MaxGen \in Nat \ {0} /\ MaxFaults \in Nat
    /\ Main \in Callers
    /\ Daemons \subseteq Syncers
    /\ Syncers \cap Logins = {}
    /\ Nobody \notin Syncers

Sessions == 1..MaxSessions

VARIABLES
    server,         \* generation the server accepts of each session; 0 when none
    opened,         \* sessions opened so far
    lost,           \* sessions of which an answer that rotated was lost
    credentials,    \* whether the configured client id and secret are accepted
    stored,         \* the row of the store's token table
    lock,           \* holder of the data directory's flock
    phase,          \* where each syncer's cycle stands
    call,           \* of each request, where its call of Token stands
    flight,         \* the refresh in flight in each syncer's single-flight group
    outcome,        \* class of each daemon's last cycle, as runDaemonCycle tells it
    device,         \* where each login stands, with the session it was granted
    asked,          \* whether the user was told to log in since the last login
    faults

tokenVars == <<server, opened, lost, credentials, stored, lock, phase, call, flight,
               outcome, device, asked, faults>>

Token == [session : Sessions, gen : 1..MaxGen, fresh : BOOLEAN]
Flight == [stage : {"load", "post", "save"}, token : Token \cup {Nobody}]
Phases == {"off", "enumerate", "download", "export", "over"}

ASSUME NobodyAssumption == Nobody \notin Token /\ Nobody \notin Flight

Classes == {"none", "ok", "lock", "reauth", "dead", "transient", "cancelled"}

TokenTypeOK ==
    /\ server \in [Sessions -> 0..MaxGen]
    /\ opened \in 0..MaxSessions
    /\ lost \subseteq Sessions
    /\ credentials \in BOOLEAN
    /\ stored \in Token \cup {Nobody}
    /\ lock \in Syncers \cup {Nobody}
    /\ phase \in [Syncers -> Phases]
    /\ call \in [Syncers -> [Callers -> {"idle", "stale", "waiting", "done"}]]
    /\ flight \in [Syncers -> Flight \cup {Nobody}]
    /\ outcome \in [Daemons -> Classes]
    /\ device \in [Logins -> [stage : {"none", "pending", "approved", "answered", "over"},
                              session : 0..MaxSessions]]
    /\ asked \in BOOLEAN
    /\ faults \in 0..MaxFaults

NoCall == [w \in Callers |-> "idle"]
NoDevice == [stage |-> "none", session |-> 0]

\* Nobody has logged in yet; the credentials may be mistyped.
TokenInit ==
    /\ server = [s \in Sessions |-> 0] /\ opened = 0 /\ lost = {}
    /\ credentials \in BOOLEAN
    /\ stored = Nobody
    /\ lock = Nobody
    /\ phase = [p \in Syncers |-> "off"]
    /\ call = [p \in Syncers |-> NoCall]
    /\ flight = [p \in Syncers |-> Nobody]
    /\ outcome = [p \in Daemons |-> "none"]
    /\ device = [l \in Logins |-> NoDevice]
    /\ asked = TRUE
    /\ faults = 0

Fault == faults < MaxFaults /\ faults' = faults + 1

-------------------------------------------------------------------------------
(* The cycle around the requests: runSync's lock and runDaemonCycle's classes.     *)

InCycle(p) == phase[p] \in {"enumerate", "download", "export"}

\* runDaemonCycle; a sync run by hand just exits.
Tell(p, c) == outcome' = IF p \in Daemons THEN [outcome EXCEPT ![p] = c] ELSE outcome

\* What the cycle of p leaves behind when it ends in class c.
End(p, c) ==
    /\ phase' = [phase EXCEPT ![p] = "over"]
    /\ call' = [call EXCEPT ![p] = NoCall]
    /\ flight' = [flight EXCEPT ![p] = Nobody]
    /\ Tell(p, c)
    /\ lock' = IF lock = p THEN Nobody ELSE lock
    /\ asked' = (asked \/ c = "reauth")

\* Mutant: the lock is taken whether or not somebody holds it.
AcquireAnyway(p) ==
    /\ phase[p] = "off"
    /\ lock' = p
    /\ phase' = [phase EXCEPT ![p] = "enumerate"]
    /\ UNCHANGED <<server, opened, lost, credentials, stored, call, flight, outcome,
                   device, asked, faults>>

Acquire(p) ==
    /\ phase[p] = "off" /\ lock = Nobody
    /\ lock' = p
    /\ phase' = [phase EXCEPT ![p] = "enumerate"]
    /\ UNCHANGED <<server, opened, lost, credentials, stored, call, flight, outcome,
                   device, asked, faults>>

Contended(p) ==
    /\ phase[p] = "off" /\ lock # Nobody
    /\ End(p, "lock")
    /\ UNCHANGED <<server, opened, lost, credentials, stored, device, faults>>

\* The API accepts the access token in the store.
Accepted == stored # Nobody /\ stored.fresh /\ server[stored.session] # 0

\* The enumeration and the exports make one request at a time.
Requests(p) == IF phase[p] = "download" THEN Callers ELSE {Main}

\* A phase ends when its requests are done: while downloading, well or badly.
NextPhase(p) ==
    /\ InCycle(p) /\ \A w \in Requests(p) : call[p][w] = "done"
    /\ IF phase[p] = "export"
          THEN End(p, "ok")
          ELSE /\ phase' = [phase EXCEPT ![p] = IF @ = "enumerate" THEN "download" ELSE "export"]
               /\ call' = [call EXCEPT ![p] = NoCall]
               /\ UNCHANGED <<lock, flight, outcome, asked>>
    /\ UNCHANGED <<server, opened, lost, credentials, stored, device, faults>>

\* The command has returned and its process may start another.
Return(p) ==
    /\ phase[p] = "over"
    /\ phase' = [phase EXCEPT ![p] = "off"]
    /\ UNCHANGED <<server, opened, lost, credentials, stored, lock, call, flight, outcome,
                   device, asked, faults>>

-------------------------------------------------------------------------------
(* TokenSource.Token and the refresh its callers share.                           *)

MayCall(p, w) == InCycle(p) /\ w \in Requests(p) /\ call[p][w] = "idle"

Done(p, W) == call' = [call EXCEPT ![p] = [w \in Callers |-> IF w \in W THEN "done" ELSE @[w]]]

\* The requests in W are over, with an error of class c: while downloading that fails
\* their tracks, before and after it fails the cycle.
Fail(p, W, c) ==
    IF phase[p] = "download"
       THEN /\ Done(p, W)
            /\ flight' = [flight EXCEPT ![p] = IF \E w \in W : call[p][w] = "waiting"
                                                  THEN Nobody ELSE @]
            /\ UNCHANGED <<phase, outcome, lock, asked>>
       ELSE End(p, c)

\* Load: a fresh token goes out with the request ...
LoadFresh(p, w) ==
    /\ MayCall(p, w) /\ Accepted
    /\ Done(p, {w})
    /\ UNCHANGED <<server, opened, lost, credentials, stored, lock, phase, flight, outcome,
                   device, asked, faults>>

\* ... and a 401 for it is no reason to refresh. No row is ErrNotFound.
LoadRefused(p, w) ==
    /\ MayCall(p, w)
    /\ stored # Nobody => stored.fresh /\ ~Accepted
    /\ Fail(p, {w}, "transient")
    /\ UNCHANGED <<server, opened, lost, credentials, stored, device, faults>>

\* needsRefresh.
LoadStale(p, w) ==
    /\ MayCall(p, w)
    /\ stored # Nobody /\ ~stored.fresh
    /\ call' = [call EXCEPT ![p][w] = "stale"]
    /\ UNCHANGED <<server, opened, lost, credentials, stored, lock, phase, flight, outcome,
                   device, asked, faults>>

\* singleflight.Do: the first caller starts doRefresh, the others wait for its answer.
Refresh(p, w) ==
    /\ call[p][w] = "stale"
    /\ call' = [call EXCEPT ![p][w] = "waiting"]
    /\ flight' = IF flight[p] = Nobody
                    THEN [flight EXCEPT ![p] = [stage |-> "load", token |-> Nobody]]
                    ELSE flight
    /\ UNCHANGED <<server, opened, lost, credentials, stored, lock, phase, outcome,
                   device, asked, faults>>

At(p, s) == flight[p] # Nobody /\ flight[p].stage = s
Waiting(p) == {w \in Callers : call[p][w] = "waiting"}

\* The token doRefresh exchanges: the store's, read again.
Current(p) == stored

Reload(p) ==
    /\ At(p, "load")
    /\ flight' = [flight EXCEPT ![p] = [stage |-> "post", token |-> Current(p)]]
    /\ UNCHANGED <<server, opened, lost, credentials, stored, lock, phase, call, outcome,
                   device, asked, faults>>

Live(t) == server[t.session] = t.gen
Generations(t) == {t.gen} \cup {g \in 1..MaxGen : g = t.gen + 1}

\* Mutant: the rotated refresh token is not taken over.
MergedAccessOnly(t, g) == [t EXCEPT !.fresh = TRUE]

\* mergeRefreshed: an answer without a refresh token keeps the old one.
Merged(t, g) == [t EXCEPT !.gen = g, !.fresh = TRUE]

Exchange(p) ==
    /\ At(p, "post") /\ credentials /\ Live(flight[p].token)
    /\ LET t == flight[p].token IN
       \E g \in Generations(t) :
          /\ server' = [server EXCEPT ![t.session] = g]
          /\ flight' = [flight EXCEPT ![p] = [stage |-> "save", token |-> Merged(t, g)]]
    /\ UNCHANGED <<opened, lost, credentials, stored, lock, phase, call, outcome, device,
                   asked, faults>>

\* The server rotated but its answer never came: checkRetry posts the same form again.
AnswerLost(p) ==
    /\ Fault
    /\ At(p, "post") /\ credentials /\ Live(flight[p].token)
    /\ LET t == flight[p].token IN
       /\ t.gen < MaxGen
       /\ server' = [server EXCEPT ![t.session] = @ + 1]
       /\ lost' = lost \cup {t.session}
    /\ UNCHANGED <<opened, credentials, stored, lock, phase, call, flight, outcome, device,
                   asked>>

\* Mutant: invalid_grant is taken for a transient error, and nobody is told to log in.
RefusedTransiently(p) ==
    /\ At(p, "post") /\ (~credentials \/ ~Live(flight[p].token))
    /\ Fail(p, Waiting(p), "transient")
    /\ UNCHANGED <<server, opened, lost, credentials, stored, device, faults>>

\* classifyTokenError.
Refused(p) ==
    /\ At(p, "post") /\ (~credentials \/ ~Live(flight[p].token))
    /\ Fail(p, Waiting(p), IF ~credentials THEN "dead" ELSE "reauth")
    /\ UNCHANGED <<server, opened, lost, credentials, stored, device, faults>>

\* The retries are used up, or the answer is no OAuth error.
PostFails(p) ==
    /\ Fault
    /\ At(p, "post")
    /\ Fail(p, Waiting(p), "transient")
    /\ UNCHANGED <<server, opened, lost, credentials, stored, device>>

\* The requests that waited go out with the new token.
Save(p) ==
    /\ At(p, "save")
    /\ stored' = flight[p].token
    /\ IF server[flight[p].token.session] # 0
          THEN /\ Done(p, Waiting(p))
               /\ flight' = [flight EXCEPT ![p] = Nobody]
               /\ UNCHANGED <<phase, outcome, lock, asked>>
          ELSE Fail(p, Waiting(p), "transient")
    /\ UNCHANGED <<server, opened, lost, credentials, device, faults>>

\* The answer p holds and has not saved yet.
Unsaved(p) == IF At(p, "save") THEN {flight[p].token.session} ELSE {}

SaveFails(p) ==
    /\ Fault
    /\ At(p, "save")
    /\ lost' = lost \cup Unsaved(p)
    /\ Fail(p, Waiting(p), "transient")
    /\ UNCHANGED <<server, opened, credentials, stored, device>>

\* SIGTERM, or the death of the process: Save runs under the cancelled context and fails.
Stop(p) ==
    /\ Fault
    /\ InCycle(p)
    /\ lost' = lost \cup Unsaved(p)
    /\ End(p, "cancelled")
    /\ UNCHANGED <<server, opened, credentials, stored, device>>

\* The store could not be opened or migrated.
NoStore(p) ==
    /\ Fault
    /\ phase[p] = "off"
    /\ Tell(p, "transient")
    /\ UNCHANGED <<server, opened, lost, credentials, stored, lock, phase, call, flight,
                   device, asked>>

-------------------------------------------------------------------------------
(* The device grant. `login` takes no lock. Polls that find the login not yet      *)
(* approved change nothing.                                                       *)

Turn(l, s, n) == device' = [device EXCEPT ![l] = [stage |-> s, session |-> n]]

\* The user runs `login` although no cycle said so. Bound: that counts as a fault.
Unasked(l) ==
    /\ device[l].stage = "none" /\ ~asked
    /\ Fault
    /\ UNCHANGED <<server, opened, lost, credentials, stored, lock, phase, call, flight,
                   outcome, device, asked>>

StartDeviceAuth(l) ==
    /\ device[l].stage = "none" /\ opened < MaxSessions
    /\ Turn(l, IF credentials THEN "pending" ELSE "over", 0)
    /\ UNCHANGED <<server, opened, lost, credentials, stored, lock, phase, call, flight,
                   outcome, asked, faults>>

LoginNoStore(l) ==
    /\ Fault
    /\ device[l].stage = "none"
    /\ UNCHANGED <<server, opened, lost, credentials, stored, lock, phase, call, flight,
                   outcome, device, asked>>

Approve(l) ==
    /\ device[l].stage = "pending"
    /\ Turn(l, "approved", 0)
    /\ UNCHANGED <<server, opened, lost, credentials, stored, lock, phase, call, flight,
                   outcome, asked, faults>>

\* The poll that meets the approval opens a session.
PollToken(l) ==
    /\ device[l].stage = "approved" /\ opened < MaxSessions
    /\ opened' = opened + 1
    /\ server' = [server EXCEPT ![opened + 1] = 1]
    /\ Turn(l, "answered", opened + 1)
    /\ UNCHANGED <<lost, credentials, stored, lock, phase, call, flight, outcome, asked, faults>>

SaveLogin(l) ==
    /\ device[l].stage = "answered"
    /\ stored' = [session |-> device[l].session, gen |-> 1, fresh |-> TRUE]
    /\ asked' = FALSE
    /\ Turn(l, "over", 0)
    /\ UNCHANGED <<server, opened, lost, credentials, lock, phase, call, flight, outcome, faults>>

\* The code expires, an answer is lost, the row is not written, or the process dies.
LoginFails(l) ==
    /\ Fault
    /\ device[l].stage \in {"pending", "approved", "answered"}
    /\ Turn(l, "over", 0)
    /\ UNCHANGED <<server, opened, lost, credentials, stored, lock, phase, call, flight,
                   outcome, asked>>

LoginReturns(l) ==
    /\ device[l].stage = "over"
    /\ Turn(l, "none", 0)
    /\ UNCHANGED <<server, opened, lost, credentials, stored, lock, phase, call, flight,
                   outcome, asked, faults>>

-------------------------------------------------------------------------------
(* The world: time passes, the user revokes a session, the user edits the config.  *)

Expire ==
    /\ stored # Nobody /\ stored.fresh
    /\ stored' = [stored EXCEPT !.fresh = FALSE]
    /\ UNCHANGED <<server, opened, lost, credentials, lock, phase, call, flight, outcome,
                   device, asked, faults>>

Revoke(s) ==
    /\ Fault
    /\ server[s] # 0
    /\ server' = [server EXCEPT ![s] = 0]
    /\ UNCHANGED <<opened, lost, credentials, stored, lock, phase, call, flight, outcome,
                   device, asked>>

\* A command reads the configuration once: an edit while one runs is one after it.
FixCredentials ==
    /\ ~credentials
    /\ \A p \in Syncers : ~InCycle(p)
    /\ \A l \in Logins : device[l].stage \in {"none", "over"}
    /\ credentials' = TRUE
    /\ UNCHANGED <<server, opened, lost, stored, lock, phase, call, flight, outcome,
                   device, asked, faults>>

-------------------------------------------------------------------------------
CallStep(p) ==
    \E w \in Callers :
       LoadFresh(p, w) \/ LoadRefused(p, w) \/ LoadStale(p, w) \/ Refresh(p, w)

FlightStep(p) == Reload(p) \/ Exchange(p) \/ Refused(p) \/ Save(p)

CycleStep(p) == Acquire(p) \/ Contended(p) \/ NextPhase(p)

SyncFault(p) == AnswerLost(p) \/ PostFails(p) \/ SaveFails(p) \/ Stop(p)

LoginStep(l) == StartDeviceAuth(l) \/ Approve(l) \/ PollToken(l) \/ SaveLogin(l)

World == Expire \/ FixCredentials \/ \E s \in Sessions : Revoke(s)

TokenNext ==
    \/ \E p \in Syncers : CycleStep(p) \/ CallStep(p) \/ FlightStep(p) \/ SyncFault(p)
                          \/ NoStore(p) \/ Return(p)
    \/ \E l \in Logins : LoginStep(l) \/ LoginFails(l) \/ LoginNoStore(l)
                         \/ LoginReturns(l) \/ Unasked(l)
    \/ World

TokenSpec == TokenInit /\ [][TokenNext]_tokenVars

-------------------------------------------------------------------------------
(* The refresh token in the store is the one the server accepts of its session,    *)
(* unless the session was revoked, an answer about it was lost, or the exchange   *)
(* that replaced it is about to be saved: no interleaving of requests, processes  *)
(* and logins stores a pair that was never granted, or keeps one spent.           *)
StoredIsCurrent ==
    stored # Nobody =>
        \/ server[stored.session] \in {0, stored.gen}
        \/ stored.session \in lost
        \/ \E p \in Syncers : stored.session \in Unsaved(p)

(* A refresh token goes to the server once: what a refresh presents was not spent  *)
(* by another one, unless the answer to that was lost.                            *)
NeverSpentTwice ==
    \A p \in Syncers : At(p, "post") =>
        LET t == flight[p].token IN
        server[t.session] \in {0, t.gen} \/ t.session \in lost
===============================================================================
