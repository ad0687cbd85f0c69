------------------------------ MODULE Migrations ------------------------------
(* How the processes of tidal-syncer open and migrate the one SQLite file they    *)
(* share (internal/store/store.go). Every command opens and migrates the store    *)
(* before anything else, the daemon once per cycle, so fresh stores, newer and    *)
(* older binaries and processes that die half way all meet here.                  *)
(*                                                                                *)
(* SQLite's promise is assumed: a transaction's effects appear at its COMMIT, all *)
(* together, and a write lock dies with its holder.                               *)
EXTENDS Naturals, FiniteSets

CONSTANTS
    Procs,      \* processes with the data directory in common
    Latest,     \* version of the newest migration there is
    Embedded,   \* of each process, the last migration its binary carries
    NoProc      \* nobody

ASSUME LatestAssumption == Latest \in Nat
ASSUME EmbeddedAssumption == Embedded \in [Procs -> 0..Latest]
ASSUME NoProcAssumption == NoProc \notin Procs

Versions == 1..Latest

VARIABLES
    wal,        \* whether the file is in WAL mode yet
    writer,     \* process that holds SQLite's write lock, or NoProc
    table,      \* whether schema_migrations exists
    executed,   \* how often the DDL of each version was committed
    recorded,   \* versions schema_migrations lists
    stage,      \* where each process stands in Open and Migrate
    at          \* the migration each process is about to look at

storeVars == <<wal, writer, table, executed, recorded, stage, at>>

Stages == {"closed", "opening", "converting", "opened", "ensuring",
           "probing", "behind", "locked", "applying", "ready"}

\* A process inside withImmediateTx.
Writing == {"ensuring", "locked", "applying"}

StoreTypeOK ==
    /\ wal \in BOOLEAN /\ table \in BOOLEAN
    /\ writer \in Procs \cup {NoProc}
    /\ executed \in [Versions -> Nat]
    /\ recorded \subseteq Versions
    /\ stage \in [Procs -> Stages]
    /\ at \in [Procs -> 1..(Latest + 1)]

\* A fresh data directory.
StoreInit ==
    /\ wal = FALSE /\ table = FALSE
    /\ writer = NoProc
    /\ executed = [v \in Versions |-> 0]
    /\ recorded = {}
    /\ stage = [p \in Procs |-> "closed"]
    /\ at = [p \in Procs |-> 1]

Become(p, s) == stage' = [stage EXCEPT ![p] = s]
Release(p) == writer' = IF writer = p THEN NoProc ELSE writer

-------------------------------------------------------------------------------
(* Open and establishWAL. The conversion to WAL takes the lock exclusively and no *)
(* busy handler waits for it: Ping fails with SQLITE_BUSY and is tried again.     *)

Open(p) ==
    /\ stage[p] = "closed"
    /\ Become(p, "opening")
    /\ UNCHANGED <<wal, writer, table, executed, recorded, at>>

\* A Ping meets a file that is in WAL mode already.
PingSucceeds(p) ==
    /\ stage[p] = "opening" /\ wal
    /\ Become(p, "opened")
    /\ UNCHANGED <<wal, writer, table, executed, recorded, at>>

BeginConversion(p) ==
    /\ stage[p] = "opening" /\ ~wal /\ writer = NoProc
    /\ writer' = p
    /\ Become(p, "converting")
    /\ UNCHANGED <<wal, table, executed, recorded, at>>

EndConversion(p) ==
    /\ stage[p] = "converting"
    /\ wal' = TRUE
    /\ Release(p)
    /\ Become(p, "opened")
    /\ UNCHANGED <<table, executed, recorded, at>>

-------------------------------------------------------------------------------
(* Migrate. BEGIN IMMEDIATE waits for the write lock (busy_timeout).               *)

BeginEnsure(p) ==
    /\ stage[p] = "opened" /\ writer = NoProc
    /\ writer' = p
    /\ Become(p, "ensuring")
    /\ UNCHANGED <<wal, table, executed, recorded, at>>

CommitEnsure(p) ==
    /\ stage[p] = "ensuring"
    /\ table' = TRUE
    /\ Release(p)
    /\ Become(p, "probing")
    /\ UNCHANGED <<wal, executed, recorded, at>>

\* What applyMigration leaves when the migration of p is in the store.
Advance(p) ==
    /\ at' = [at EXCEPT ![p] = @ + 1]
    /\ Become(p, "probing")

\* Mutant: the loop runs one migration too far.
ProbeBeyond(p) ==
    /\ stage[p] = "probing" /\ at[p] <= Embedded[p] + 1
    /\ IF at[p] \in recorded
          THEN Advance(p)
          ELSE Become(p, "behind") /\ UNCHANGED at
    /\ UNCHANGED <<wal, writer, table, executed, recorded>>

\* The fast path reads without the lock; what it sees may be stale when used.
Probe(p) ==
    /\ stage[p] = "probing" /\ at[p] <= Embedded[p]
    /\ IF at[p] \in recorded
          THEN Advance(p)
          ELSE Become(p, "behind") /\ UNCHANGED at
    /\ UNCHANGED <<wal, writer, table, executed, recorded>>

BeginMigration(p) ==
    /\ stage[p] = "behind" /\ writer = NoProc
    /\ writer' = p
    /\ Become(p, "locked")
    /\ UNCHANGED <<wal, table, executed, recorded, at>>

\* Mutant: no second look inside the transaction.
TrustTheProbe(p) == Versions

\* The versions p finds unapplied when it looks again inside its transaction.
Unapplied(p) == Versions \ recorded

\* A racer committed first: the transaction ends empty.
FindApplied(p) ==
    /\ stage[p] = "locked" /\ at[p] \notin Unapplied(p)
    /\ Release(p)
    /\ Advance(p)
    /\ UNCHANGED <<wal, table, executed, recorded>>

FindUnapplied(p) ==
    /\ stage[p] = "locked" /\ at[p] \in Unapplied(p)
    /\ Become(p, "applying")
    /\ UNCHANGED <<wal, writer, table, executed, recorded, at>>

\* COMMIT of the DDL and of the row that records it.
CommitMigration(p) ==
    /\ stage[p] = "applying"
    /\ executed' = [executed EXCEPT ![at[p]] = @ + 1]
    /\ recorded' = recorded \cup {at[p]}
    /\ Release(p)
    /\ Advance(p)
    /\ UNCHANGED <<wal, table>>

\* Mutant: the last migration is left out.
EndOneEarly(p) ==
    /\ stage[p] = "probing" /\ at[p] >= Embedded[p]
    /\ Become(p, "ready")
    /\ UNCHANGED <<wal, writer, table, executed, recorded, at>>

EndMigrate(p) ==
    /\ stage[p] = "probing" /\ at[p] > Embedded[p]
    /\ Become(p, "ready")
    /\ UNCHANGED <<wal, writer, table, executed, recorded, at>>

-------------------------------------------------------------------------------
(* An error of any of these statements, or a cancelled context: the deferred      *)
(* ROLLBACK runs detached from it, the store is closed and the command returns.   *)
(* A lock that stays taken for the whole busy_timeout, or a Ping that is busy     *)
(* until the deadline, is such an error.                                          *)

Leave(p) ==
    /\ Release(p)
    /\ Become(p, "closed")
    /\ at' = [at EXCEPT ![p] = 1]
    /\ UNCHANGED <<wal, table, executed, recorded>>

OpenFails(p) == stage[p] \notin {"closed", "ready"} /\ Leave(p)

\* Close at the end of the command.
CloseStore(p) == stage[p] = "ready" /\ Leave(p)

\* The death of the process anywhere.
StoreDies(p) == stage[p] # "closed" /\ Leave(p)

MigrateStep(p) ==
    \/ PingSucceeds(p) \/ BeginConversion(p) \/ EndConversion(p)
    \/ BeginEnsure(p) \/ CommitEnsure(p)
    \/ Probe(p) \/ BeginMigration(p)
    \/ FindApplied(p) \/ FindUnapplied(p) \/ CommitMigration(p) \/ EndMigrate(p)

StoreNext == \E p \in Procs : Open(p) \/ MigrateStep(p) \/ OpenFails(p) \/ CloseStore(p) \/ StoreDies(p)

StoreSpec == StoreInit /\ [][StoreNext]_storeVars

-------------------------------------------------------------------------------
(* However many processes race on a fresh store, wherever one of them dies or      *)
(* rolls back, and although binaries with fewer migrations take part, the schema  *)
(* is that of some version: the DDL of every version up to it was committed       *)
(* exactly once, together with its row, and none beyond. Most migrations are      *)
(* ALTER TABLEs, which fail when repeated.                                        *)
OnceInOrder ==
    \E n \in 0..Latest :
       /\ recorded = 1..n
       /\ executed = [v \in Versions |-> IF v <= n THEN 1 ELSE 0]

(* A process that goes on past Migrate finds the schema its binary was built for,  *)
(* in a file that is in WAL mode.                                                 *)
SchemaBeforeUse ==
    \A p \in Procs : stage[p] = "ready" => wal /\ table /\ 1..Embedded[p] \subseteq recorded
===============================================================================
