-------------------------------- MODULE Service -------------------------------
(* The processes of tidal-syncer as they start, talk to TIDAL and end: a daemon    *)
(* that runs cycle after cycle (cmd/daemon.go, daemon_schedule.go), a sync started *)
(* by hand (cmd/sync.go) and logins (cmd/login.go). Every command opens and        *)
(* migrates the store (Migrations) before it touches the token (Tokens), and       *)
(* closes it when it returns.                                                     *)
EXTENDS Migrations, Tokens

ASSUME ServiceAssumption == Procs = Syncers \cup Logins

VARIABLE manual     \* runs of `sync` the user may still start by hand

CONSTANT MaxManual  \* bound: those runs

ASSUME ManualAssumption == MaxManual \in Nat

vars == <<storeVars, tokenVars, manual>>

Init == StoreInit /\ TokenInit /\ manual = MaxManual

TypeOK == StoreTypeOK /\ TokenTypeOK /\ manual \in 0..MaxManual

-------------------------------------------------------------------------------
\* A process starts the next command: a daemon after its delay, in its window, ...
Tick(p) ==
    /\ p \in Daemons /\ phase[p] = "off"
    /\ Open(p)
    /\ UNCHANGED <<tokenVars, manual>>

\* ... anyone else when the user does so.
ByHand(p) ==
    /\ p \in Syncers \ Daemons /\ phase[p] = "off"
    /\ manual > 0 /\ manual' = manual - 1
    /\ Open(p)
    /\ UNCHANGED tokenVars

\* The user logs in because a cycle said so, or at any other time.
RunLogin(l) ==
    /\ device[l].stage = "none" /\ opened < MaxSessions
    /\ Open(l)
    /\ IF asked THEN UNCHANGED tokenVars ELSE Unasked(l)
    /\ UNCHANGED manual

Migrate(p) ==
    /\ MigrateStep(p)
    /\ UNCHANGED <<tokenVars, manual>>

\* The store cannot be opened or migrated: the command fails before it locks anything.
StartFails(p) ==
    /\ OpenFails(p)
    /\ IF p \in Syncers THEN NoStore(p) ELSE LoginNoStore(p)
    /\ UNCHANGED manual

Use(p) == stage[p] = "ready" /\ UNCHANGED <<storeVars, manual>>

Cycle(p) == Use(p) /\ (CycleStep(p) \/ CallStep(p) \/ FlightStep(p))
Disturb(p) == Use(p) /\ (AnswerLost(p) \/ PostFails(p) \/ SaveFails(p))
Login(l) == Use(l) /\ (LoginStep(l) \/ LoginFails(l))

\* The deferred Close, as the command returns.
Finish(p) ==
    /\ CloseStore(p)
    /\ IF p \in Syncers THEN Return(p) ELSE LoginReturns(p)
    /\ UNCHANGED manual

\* A syncer is killed or told to stop: its store, its lock and its refresh go with it.
Die(p) ==
    /\ StoreDies(p)
    /\ Stop(p)
    /\ UNCHANGED manual

\* Then it is started again.
Restart(p) ==
    /\ stage[p] = "closed" /\ Return(p)
    /\ UNCHANGED <<storeVars, manual>>

Outside == World /\ UNCHANGED <<storeVars, manual>>

Next ==
    \/ \E p \in Syncers : Tick(p) \/ ByHand(p) \/ Cycle(p) \/ Disturb(p) \/ Die(p) \/ Restart(p)
    \/ \E l \in Logins : RunLogin(l) \/ Login(l)
    \/ \E p \in Procs : Migrate(p) \/ StartFails(p) \/ Finish(p)
    \/ Outside

Spec == Init /\ [][Next]_vars

\* What a process does of its own accord, once it was started.
SyncerStep(p) == Tick(p) \/ Migrate(p) \/ Cycle(p) \/ Finish(p) \/ Restart(p)
LoginStepOf(l) == (asked /\ RunLogin(l)) \/ Migrate(l) \/ (Use(l) /\ LoginStep(l)) \/ Finish(l)

(* A process that runs takes its next step: statements, requests and lock attempts *)
(* return. A daemon ticks again (runPollingDaemon, or its window opens), and is    *)
(* restarted when it died. A login's busy_timeout outlasts the other writers, who  *)
(* come and go. Tokens expire; a user who is told to log in does so, and mistyped  *)
(* credentials are corrected. Nobody need log in unasked, but a login that was     *)
(* begun is approved, unless it fails.                                            *)
FairSpec ==
    /\ Spec
    /\ \A p \in Syncers : WF_vars(SyncerStep(p))
    /\ \A l \in Logins : SF_vars(LoginStepOf(l))
    /\ WF_vars(Outside /\ Expire)
    /\ SF_vars(Outside /\ FixCredentials)

-------------------------------------------------------------------------------
(* Whatever is lost, revoked, expired, mistyped or killed, the daemon comes back   *)
(* by itself, or after the one login it asked for: from some point on its cycles   *)
(* succeed, or find a sync started by hand at work.                               *)
DaemonRecovers == \A p \in Daemons : <>[](outcome[p] \in {"ok", "lock"})
===============================================================================
