----------------------------- MODULE ServiceProofs -----------------------------
(* Service implements both of its parts: seen from the store it is Migrations,     *)
(* seen from the token it is Tokens, however the commands of the processes         *)
(* interleave. What was proved of the parts so holds of the whole.                *)
EXTENDS Service, MigrationsProofs, TokensProofs

USE ServiceAssumption

LEMMA SyncersAndLogins == Syncers \subseteq Procs /\ Logins \subseteq Procs
OBVIOUS

(* Every step of the processes is a step of the store, or leaves it alone.         *)
LEMMA StoreStep == [Next]_vars => [StoreNext]_storeVars
<1>1. SUFFICES ASSUME [Next]_vars PROVE [StoreNext]_storeVars
  OBVIOUS
<1>2. CASE UNCHANGED vars
  BY <1>2 DEF vars
<1>3. ASSUME NEW p \in Syncers,
             Tick(p) \/ ByHand(p) \/ Cycle(p) \/ Disturb(p) \/ Die(p) \/ Restart(p)
      PROVE  [StoreNext]_storeVars
  <2>1. p \in Procs
    BY SyncersAndLogins
  <2>2. Open(p) \/ StoreDies(p) \/ UNCHANGED storeVars
    BY <1>3 DEF Tick, ByHand, Cycle, Disturb, Die, Restart, Use
  <2>3. QED BY <2>1, <2>2 DEF StoreNext
<1>4. ASSUME NEW l \in Logins, RunLogin(l) \/ Login(l)
      PROVE  [StoreNext]_storeVars
  <2>1. l \in Procs
    BY SyncersAndLogins
  <2>2. Open(l) \/ UNCHANGED storeVars
    BY <1>4 DEF RunLogin, Login, Use
  <2>3. QED BY <2>1, <2>2 DEF StoreNext
<1>5. ASSUME NEW p \in Procs, Migrate(p) \/ StartFails(p) \/ Finish(p)
      PROVE  [StoreNext]_storeVars
  <2>1. MigrateStep(p) \/ OpenFails(p) \/ CloseStore(p)
    BY <1>5 DEF Migrate, StartFails, Finish
  <2>2. QED BY <2>1 DEF StoreNext
<1>6. CASE Outside
  BY <1>6 DEF Outside
<1>7. QED BY <1>1, <1>2, <1>3, <1>4, <1>5, <1>6 DEF Next

(* Every step of the processes is a step of the token's life, or leaves it alone.  *)
LEMMA TokenStep == [Next]_vars => [TokenNext]_tokenVars
<1>1. SUFFICES ASSUME [Next]_vars PROVE [TokenNext]_tokenVars
  OBVIOUS
<1>2. CASE UNCHANGED vars
  BY <1>2 DEF vars
<1>3. ASSUME NEW p \in Syncers,
             Tick(p) \/ ByHand(p) \/ Cycle(p) \/ Disturb(p) \/ Die(p) \/ Restart(p)
      PROVE  [TokenNext]_tokenVars
  <2>1. \/ UNCHANGED tokenVars
        \/ CycleStep(p) \/ CallStep(p) \/ FlightStep(p) \/ SyncFault(p) \/ Return(p)
    BY <1>3 DEF Tick, ByHand, Cycle, Disturb, Die, Restart, SyncFault
  <2>2. QED BY <2>1 DEF TokenNext
<1>4. ASSUME NEW l \in Logins, RunLogin(l) \/ Login(l)
      PROVE  [TokenNext]_tokenVars
  <2>1. UNCHANGED tokenVars \/ LoginStep(l) \/ LoginFails(l) \/ Unasked(l)
    BY <1>4 DEF RunLogin, Login
  <2>2. QED BY <2>1 DEF TokenNext
<1>5. ASSUME NEW p \in Procs, Migrate(p) \/ StartFails(p) \/ Finish(p)
      PROVE  [TokenNext]_tokenVars
  <2>1. CASE p \in Syncers
    <3>1. UNCHANGED tokenVars \/ NoStore(p) \/ Return(p)
      BY <1>5, <2>1 DEF Migrate, StartFails, Finish
    <3>2. QED BY <2>1, <3>1 DEF TokenNext
  <2>2. CASE p \notin Syncers
    <3>1. p \in Logins
      BY <2>2
    <3>2. UNCHANGED tokenVars \/ LoginNoStore(p) \/ LoginReturns(p)
      BY <1>5, <2>2 DEF Migrate, StartFails, Finish
    <3>3. QED BY <3>1, <3>2 DEF TokenNext
  <2>3. QED BY <2>1, <2>2
<1>6. CASE Outside
  BY <1>6 DEF Outside, TokenNext
<1>7. QED BY <1>1, <1>2, <1>3, <1>4, <1>5, <1>6 DEF Next

(* Each command opens, migrates and closes the store as Migrations says.           *)
THEOREM ImplementsStore == Spec => StoreSpec
<1>1. Init => StoreInit
  BY DEF Init
<1>2. QED BY <1>1, StoreStep, PTL DEF Spec, StoreSpec

(* Each command reads, refreshes and replaces the token as Tokens says.            *)
THEOREM ImplementsTokens == Spec => TokenSpec
<1>1. Init => TokenInit
  BY DEF Init
<1>2. QED BY <1>1, TokenStep, PTL DEF Spec, TokenSpec

LEMMA ManualTyped == Spec => [](manual \in 0..MaxManual)
<1>1. Init => manual \in 0..MaxManual
  BY ManualAssumption DEF Init
<1>2. manual \in 0..MaxManual /\ [Next]_vars => (manual \in 0..MaxManual)'
  <2>1. SUFFICES ASSUME manual \in 0..MaxManual, [Next]_vars
                 PROVE  manual' \in 0..MaxManual
    OBVIOUS
  <2>2. manual' = manual \/ (manual > 0 /\ manual' = manual - 1)
    BY <2>1 DEF Next, vars, Tick, ByHand, Cycle, Disturb, Die, Restart, RunLogin, Login, Use,
                Migrate, StartFails, Finish, Outside
  <2>3. QED BY <2>1, <2>2, ManualAssumption
<1>3. QED BY <1>1, <1>2, PTL DEF Spec

(* The state of every command stays within its types, in whichever order the       *)
(* processes run.                                                                 *)
THEOREM ServiceTyped == Spec => []TypeOK
<1>1. StoreTypeOK /\ TokenTypeOK /\ manual \in 0..MaxManual => TypeOK
  BY DEF TypeOK
<1>2. QED BY <1>1, ImplementsStore, ImplementsTokens, StoreTyped, TokensTyped, ManualTyped, PTL

(* In the running service each migration is committed once and in order, and no    *)
(* command works on a schema older than its binary (Migrate).                      *)
THEOREM ServiceMigrates == Spec => [](OnceInOrder /\ SchemaBeforeUse)
BY ImplementsStore, MigrationsOnceInOrder, SchemaIsReady, PTL

(* In the running service no refresh token is spent twice and the stored one stays *)
(* the current one (TokenSource, login).                                          *)
THEOREM ServiceKeepsToken == Spec => [](StoredIsCurrent /\ NeverSpentTwice)
BY ImplementsTokens, StoredStaysCurrent, RefreshTokensAreSpentOnce, PTL
===============================================================================
