--------------------------- MODULE MigrationsProofs ---------------------------
(* What Migrations promises for every set of processes, every number of           *)
(* migrations and every mix of binaries, proved with TLAPS.                       *)
EXTENDS Migrations, TLAPS

(* The converter and whoever is inside withImmediateTx hold the write lock.        *)
WriterIsOne == \A p \in Procs : stage[p] \in Writing \cup {"converting"} => writer = p

(* A process past BEGIN IMMEDIATE's second look applies what nobody has applied.   *)
ApplyingIsMissing == \A p \in Procs : stage[p] = "applying" => at[p] \notin recorded

(* What Open, ensureMigrationsTable and the loop of Migrate have established by    *)
(* the time they get this far.                                                    *)
Established ==
    \A p \in Procs :
       /\ stage[p] \in {"closed", "opening", "converting", "opened", "ensuring"} => at[p] = 1
       /\ stage[p] \in {"opened", "ensuring", "probing", "behind", "locked", "applying", "ready"} => wal
       /\ stage[p] \in {"probing", "behind", "locked", "applying", "ready"} =>
             table /\ \A v \in 1..Latest : v < at[p] => v \in recorded
       /\ stage[p] \in {"behind", "locked", "applying"} => at[p] <= Embedded[p]
       /\ stage[p] = "ready" => at[p] > Embedded[p]

StoreInv == StoreTypeOK /\ OnceInOrder /\ WriterIsOne /\ ApplyingIsMissing /\ Established

USE LatestAssumption, EmbeddedAssumption, NoProcAssumption

LEMMA StoreInitInv == StoreInit => StoreInv
<1>1. SUFFICES ASSUME StoreInit PROVE StoreInv
  OBVIOUS
<1>2. StoreTypeOK
  <2>1. 1 \in 1..(Latest + 1)
    OBVIOUS
  <2>2. executed \in [Versions -> Nat]
    BY <1>1 DEF StoreInit
  <2>3. QED BY <1>1, <2>1, <2>2 DEF StoreInit, StoreTypeOK, Stages
<1>3. OnceInOrder
  <2>1. recorded = 1..0 /\ executed = [v \in Versions |-> IF v <= 0 THEN 1 ELSE 0]
    BY <1>1 DEF StoreInit, Versions
  <2>2. 0 \in 0..Latest
    OBVIOUS
  <2>3. QED BY <2>1, <2>2 DEF OnceInOrder
<1>4. WriterIsOne /\ ApplyingIsMissing /\ Established
  BY <1>1 DEF StoreInit, WriterIsOne, Writing, ApplyingIsMissing, Established
<1>5. QED BY <1>2, <1>3, <1>4 DEF StoreInv

(* An action that leaves the schema alone and moves one process on keeps           *)
(* everything but, maybe, what the process's own stage asks for.                  *)
LEMMA SchemaKept ==
    ASSUME OnceInOrder, UNCHANGED <<executed, recorded>>
    PROVE  OnceInOrder'
BY DEF OnceInOrder

(* The next migration in line: whoever applies one applies the first that is       *)
(* missing.                                                                       *)
LEMMA CommitKeepsOrder ==
    ASSUME StoreInv, NEW p \in Procs, CommitMigration(p)
    PROVE  OnceInOrder'
<1>1. PICK n \in 0..Latest :
         recorded = 1..n /\ executed = [v \in Versions |-> IF v <= n THEN 1 ELSE 0]
  BY DEF StoreInv, OnceInOrder
<1>2. at[p] \in 1..Latest /\ at[p] \notin recorded /\ \A v \in 1..Latest : v < at[p] => v \in recorded
  BY DEF StoreInv, StoreTypeOK, CommitMigration, ApplyingIsMissing, Established
<1>3. at[p] = n + 1
  <2>1. at[p] > n
    BY <1>1, <1>2
  <2>2. ~(at[p] > n + 1)
    <3>1. SUFFICES ASSUME at[p] > n + 1 PROVE FALSE
      OBVIOUS
    <3>2. n + 1 \in 1..Latest /\ n + 1 < at[p]
      BY <3>1, <1>2
    <3>3. QED BY <3>2, <1>1, <1>2
  <2>3. QED BY <2>1, <2>2, <1>2
<1>4. n + 1 \in 0..Latest
  BY <1>2, <1>3
<1>5. recorded' = 1..(n + 1)
  <2>1. recorded' = (1..n) \cup {n + 1}
    BY <1>1, <1>3 DEF CommitMigration
  <2>2. QED BY <2>1
<1>6. executed' = [v \in Versions |-> IF v <= n + 1 THEN 1 ELSE 0]
  <2>1. executed' = [executed EXCEPT ![n + 1] = executed[n + 1] + 1]
    BY <1>3 DEF CommitMigration
  <2>2. n + 1 \in Versions /\ executed[n + 1] = 0
    BY <1>1, <1>2, <1>3 DEF Versions
  <2>3. \A v \in Versions : v # n + 1 => (v <= n <=> v <= n + 1)
    BY DEF Versions
  <2>4. executed' = [v \in Versions |-> IF v = n + 1 THEN executed[n + 1] + 1 ELSE executed[v]]
    BY <1>1, <2>1
  <2>5. \A v \in Versions : executed[v] = IF v <= n THEN 1 ELSE 0
    BY <1>1
  <2>6. \A v \in Versions : (IF v = n + 1 THEN executed[n + 1] + 1 ELSE executed[v])
                              = IF v <= n + 1 THEN 1 ELSE 0
    BY <2>2, <2>3, <2>5
  <2>7. QED BY <2>4, <2>6
<1>7. QED BY <1>4, <1>5, <1>6 DEF OnceInOrder

(* What a rollback, a Close and a death have in common.                            *)
LEMMA LeaveKeeps ==
    ASSUME StoreInv, NEW p \in Procs, Leave(p)
    PROVE  StoreInv'
<1>1. StoreTypeOK'
  BY DEF StoreInv, StoreTypeOK, Leave, Release, Become, Stages
<1>2. OnceInOrder'
  BY SchemaKept DEF StoreInv, Leave
<1>3. WriterIsOne'
  BY DEF StoreInv, StoreTypeOK, WriterIsOne, Writing, Leave, Release, Become
<1>4. ApplyingIsMissing' /\ Established'
  BY DEF StoreInv, StoreTypeOK, ApplyingIsMissing, Established, Leave, Become
<1>5. QED BY <1>1, <1>2, <1>3, <1>4 DEF StoreInv

LEMMA StoreNextInv == StoreInv /\ [StoreNext]_storeVars => StoreInv'
<1>1. SUFFICES ASSUME StoreInv, [StoreNext]_storeVars PROVE StoreInv'
  OBVIOUS
<1>2. CASE UNCHANGED storeVars
  BY <1>1, <1>2 DEF storeVars, StoreInv, StoreTypeOK, OnceInOrder, WriterIsOne, ApplyingIsMissing, Established
<1>3. ASSUME NEW p \in Procs, Open(p) PROVE StoreInv'
  <2>1. StoreTypeOK' /\ WriterIsOne' /\ ApplyingIsMissing' /\ Established'
    BY <1>1, <1>3 DEF StoreInv, StoreTypeOK, Stages, WriterIsOne, Writing, ApplyingIsMissing, Established, Open, Become
  <2>2. QED BY <1>1, <1>3, <2>1, SchemaKept DEF StoreInv, Open
<1>4. ASSUME NEW p \in Procs, PingSucceeds(p) PROVE StoreInv'
  <2>1. StoreTypeOK' /\ WriterIsOne' /\ ApplyingIsMissing' /\ Established'
    BY <1>1, <1>4 DEF StoreInv, StoreTypeOK, Stages, WriterIsOne, Writing, ApplyingIsMissing, Established, PingSucceeds, Become
  <2>2. QED BY <1>1, <1>4, <2>1, SchemaKept DEF StoreInv, PingSucceeds
<1>5. ASSUME NEW p \in Procs, BeginConversion(p) PROVE StoreInv'
  <2>1. StoreTypeOK' /\ WriterIsOne' /\ ApplyingIsMissing' /\ Established'
    BY <1>1, <1>5 DEF StoreInv, StoreTypeOK, Stages, WriterIsOne, Writing, ApplyingIsMissing, Established, BeginConversion, Become
  <2>2. QED BY <1>1, <1>5, <2>1, SchemaKept DEF StoreInv, BeginConversion
<1>6. ASSUME NEW p \in Procs, EndConversion(p) PROVE StoreInv'
  <2>1. StoreTypeOK' /\ WriterIsOne' /\ ApplyingIsMissing' /\ Established'
    BY <1>1, <1>6 DEF StoreInv, StoreTypeOK, Stages, WriterIsOne, Writing, ApplyingIsMissing, Established, EndConversion, Become, Release
  <2>2. QED BY <1>1, <1>6, <2>1, SchemaKept DEF StoreInv, EndConversion
<1>7. ASSUME NEW p \in Procs, BeginEnsure(p) PROVE StoreInv'
  <2>1. StoreTypeOK' /\ WriterIsOne' /\ ApplyingIsMissing' /\ Established'
    BY <1>1, <1>7 DEF StoreInv, StoreTypeOK, Stages, WriterIsOne, Writing, ApplyingIsMissing, Established, BeginEnsure, Become
  <2>2. QED BY <1>1, <1>7, <2>1, SchemaKept DEF StoreInv, BeginEnsure
<1>8. ASSUME NEW p \in Procs, CommitEnsure(p) PROVE StoreInv'
  <2>1. StoreTypeOK' /\ WriterIsOne' /\ ApplyingIsMissing'
    BY <1>1, <1>8 DEF StoreInv, StoreTypeOK, Stages, WriterIsOne, Writing, ApplyingIsMissing, CommitEnsure, Become, Release
  <2>2. Established'
    BY <1>1, <1>8 DEF StoreInv, StoreTypeOK, Established, CommitEnsure, Become
  <2>3. QED BY <1>1, <1>8, <2>1, <2>2, SchemaKept DEF StoreInv, CommitEnsure
<1>9. ASSUME NEW p \in Procs, Probe(p) PROVE StoreInv'
  <2>1. StoreTypeOK'
    BY <1>1, <1>9 DEF StoreInv, StoreTypeOK, Stages, Probe, Advance, Become
  <2>2. WriterIsOne' /\ ApplyingIsMissing' /\ Established'
    BY <1>1, <1>9 DEF StoreInv, StoreTypeOK, WriterIsOne, Writing, ApplyingIsMissing, Established, Probe, Advance, Become
  <2>3. QED BY <1>1, <1>9, <2>1, <2>2, SchemaKept DEF StoreInv, Probe
<1>10. ASSUME NEW p \in Procs, BeginMigration(p) PROVE StoreInv'
  <2>1. StoreTypeOK' /\ WriterIsOne' /\ ApplyingIsMissing' /\ Established'
    BY <1>1, <1>10 DEF StoreInv, StoreTypeOK, Stages, WriterIsOne, Writing, ApplyingIsMissing, Established, BeginMigration, Become
  <2>2. QED BY <1>1, <1>10, <2>1, SchemaKept DEF StoreInv, BeginMigration
<1>11. ASSUME NEW p \in Procs, FindApplied(p) PROVE StoreInv'
  <2>1. at[p] \in recorded /\ at[p] <= Embedded[p]
    BY <1>1, <1>11 DEF StoreInv, StoreTypeOK, Established, FindApplied, Unapplied, Versions
  <2>2. StoreTypeOK' /\ WriterIsOne' /\ ApplyingIsMissing'
    BY <1>1, <1>11, <2>1 DEF StoreInv, StoreTypeOK, Stages, WriterIsOne, Writing, ApplyingIsMissing, FindApplied, Advance, Become, Release
  <2>3. Established'
    BY <1>1, <1>11, <2>1 DEF StoreInv, StoreTypeOK, Established, FindApplied, Advance, Become
  <2>4. QED BY <1>1, <1>11, <2>2, <2>3, SchemaKept DEF StoreInv, FindApplied
<1>12. ASSUME NEW p \in Procs, FindUnapplied(p) PROVE StoreInv'
  <2>1. StoreTypeOK' /\ WriterIsOne' /\ ApplyingIsMissing' /\ Established'
    BY <1>1, <1>12 DEF StoreInv, StoreTypeOK, Stages, WriterIsOne, Writing, ApplyingIsMissing, Established, FindUnapplied, Unapplied, Become
  <2>2. QED BY <1>1, <1>12, <2>1, SchemaKept DEF StoreInv, FindUnapplied
<1>13. ASSUME NEW p \in Procs, CommitMigration(p) PROVE StoreInv'
  <2>1. at[p] \in Versions /\ at[p] <= Embedded[p]
    BY <1>1, <1>13 DEF StoreInv, StoreTypeOK, Established, CommitMigration, Versions
  <2>2. StoreTypeOK'
    <3>1. executed[at[p]] + 1 \in Nat
      BY <1>1, <2>1 DEF StoreInv, StoreTypeOK
    <3>2. executed' \in [Versions -> Nat]
      BY <1>1, <1>13, <3>1 DEF StoreInv, StoreTypeOK, CommitMigration
    <3>3. at[p] + 1 \in 1..(Latest + 1)
      BY <1>1, <2>1 DEF Versions
    <3>4. at' \in [Procs -> 1..(Latest + 1)]
      BY <1>1, <1>13, <3>3 DEF StoreInv, StoreTypeOK, CommitMigration, Advance
    <3>5. QED
      BY <1>1, <1>13, <2>1, <3>2, <3>4
         DEF StoreInv, StoreTypeOK, Stages, CommitMigration, Advance, Become, Release
  <2>3. OnceInOrder'
    BY <1>1, <1>13, CommitKeepsOrder
  <2>4. WriterIsOne' /\ ApplyingIsMissing'
    BY <1>1, <1>13 DEF StoreInv, StoreTypeOK, WriterIsOne, Writing, ApplyingIsMissing, CommitMigration, Advance, Become, Release
  <2>5. Established'
    BY <1>1, <1>13, <2>1 DEF StoreInv, StoreTypeOK, Established, CommitMigration, Advance, Become
  <2>6. QED BY <2>2, <2>3, <2>4, <2>5 DEF StoreInv
<1>14. ASSUME NEW p \in Procs, EndMigrate(p) PROVE StoreInv'
  <2>1. StoreTypeOK' /\ WriterIsOne' /\ ApplyingIsMissing' /\ Established'
    BY <1>1, <1>14 DEF StoreInv, StoreTypeOK, Stages, WriterIsOne, Writing, ApplyingIsMissing, Established, EndMigrate, Become
  <2>2. QED BY <1>1, <1>14, <2>1, SchemaKept DEF StoreInv, EndMigrate
<1>15. ASSUME NEW p \in Procs, OpenFails(p) \/ CloseStore(p) \/ StoreDies(p) PROVE StoreInv'
  BY <1>1, <1>15, LeaveKeeps DEF OpenFails, CloseStore, StoreDies
<1>16. QED
  BY <1>1, <1>2, <1>3, <1>4, <1>5, <1>6, <1>7, <1>8, <1>9, <1>10, <1>11, <1>12, <1>13, <1>14, <1>15
     DEF StoreNext, MigrateStep

(* The invariant the three properties follow from: one writer at a time, who       *)
(* looks again under the lock, at the first migration that is missing.            *)
THEOREM StoreInvariant == StoreSpec => []StoreInv
BY StoreInitInv, StoreNextInv, PTL DEF StoreSpec

(* Stages, lock and loop counter stay within their types.                          *)
THEOREM StoreTyped == StoreSpec => []StoreTypeOK
<1>1. StoreInv => StoreTypeOK
  BY DEF StoreInv
<1>2. QED BY <1>1, StoreInvariant, PTL

(* However many processes and migrations there are, and whatever binaries meet,    *)
(* each migration is applied once and after all earlier ones.                     *)
THEOREM MigrationsOnceInOrder == StoreSpec => []OnceInOrder
<1>1. StoreInv => OnceInOrder
  BY DEF StoreInv
<1>2. QED BY <1>1, StoreInvariant, PTL

(* A process never goes on with a schema older than its binary.                    *)
THEOREM SchemaIsReady == StoreSpec => []SchemaBeforeUse
<1>1. StoreInv => SchemaBeforeUse
  <2>1. SUFFICES ASSUME StoreInv, NEW p \in Procs, stage[p] = "ready"
                 PROVE  wal /\ table /\ 1..Embedded[p] \subseteq recorded
    BY DEF SchemaBeforeUse
  <2>2. Embedded[p] \in 0..Latest /\ at[p] \in 1..(Latest + 1) /\ at[p] > Embedded[p]
    BY <2>1 DEF StoreInv, StoreTypeOK, Established
  <2>3. wal /\ table /\ \A v \in 1..Latest : v < at[p] => v \in recorded
    BY <2>1 DEF StoreInv, Established
  <2>4. QED BY <2>2, <2>3
<1>2. QED BY <1>1, StoreInvariant, PTL
===============================================================================
