--------------------------- MODULE MigrationLock ---------------------------
(* backend/tools/db_backup_and_migrate.py: runs of the tool that backs up    *)
(* the database and migrates it, serialised by a key in Redis with a time to *)
(* live.  The token of a run is drawn once, so the value of the key is the   *)
(* run that set it.                                                          *)
EXTENDS Naturals

CONSTANTS Runs, NoRun, MaxAttempts

ASSUME RunsAssumption == NoRun \notin Runs
ASSUME AttemptsAssumption == MaxAttempts \in Nat

VARIABLES
  key,     \* the run whose token the key holds, or NoRun
  pc,      \* where each run is
  tries,   \* the attempts of a run to set the key
  locked,  \* the runs with a token to release
  lapsed   \* history: the runs whose key ran out while they worked

migrationVars == <<key, pc, tries, locked, lapsed>>

Places == {"start", "acquire", "backup", "migrate", "release", "done"}
AtWork == {"backup", "migrate", "release"}
Holding == {r \in locked : pc[r] \in AtWork}

MigrationTypeOK ==
  /\ key \in Runs \cup {NoRun}
  /\ pc \in [Runs -> Places]
  /\ tries \in [Runs -> 0..MaxAttempts]
  /\ locked \in SUBSET Runs
  /\ lapsed \in SUBSET Runs

MigrationInit ==
  /\ key = NoRun
  /\ pc = [r \in Runs |-> "start"]
  /\ tries = [r \in Runs |-> 0]
  /\ locked = {} /\ lapsed = {}

Goto(r, place) == pc' = [pc EXCEPT ![r] = place]

(* The end of a run: its process is gone, and with it what it believed.      *)
End(r) == Goto(r, "done") /\ lapsed' = lapsed \ {r}

(* Without a URL, with --no-lock or when the ping fails, the run works       *)
(* without the lock.                                                         *)
Begin(r) ==
  /\ pc[r] = "start"
  /\ Goto(r, "acquire") \/ Goto(r, "backup")
  /\ UNCHANGED <<key, tries, locked, lapsed>>

(* SET NX EX: the key is granted; or granted by a call that then fails, and  *)
(* the exception leaves main before the try that would release it.           *)
Granted(r) ==
  /\ pc[r] = "acquire" /\ tries[r] < MaxAttempts /\ key = NoRun
  /\ key' = r
  /\ \/ Goto(r, "backup") /\ locked' = locked \cup {r}
     \/ Goto(r, "done") /\ UNCHANGED locked
  /\ UNCHANGED <<tries, lapsed>>

(* The key is taken: the run sleeps and tries again, up to max_attempts.     *)
Refused(r) ==
  /\ pc[r] = "acquire" /\ tries[r] < MaxAttempts /\ key # NoRun
  /\ tries' = [tries EXCEPT ![r] = @ + 1]
  /\ UNCHANGED <<key, pc, locked, lapsed>>

(* The attempts are used up, or the call fails before Redis has seen it.     *)
NotAcquired(r) ==
  /\ pc[r] = "acquire"
  /\ Goto(r, "done")
  /\ UNCHANGED <<key, tries, locked, lapsed>>

(* pg_dump, then alembic; when one fails the other is skipped and finally    *)
(* runs.                                                                     *)
Backup(r) ==
  /\ pc[r] = "backup"
  /\ Goto(r, "migrate") \/ Goto(r, "release")
  /\ UNCHANGED <<key, tries, locked, lapsed>>

Migrate(r) ==
  /\ pc[r] = "migrate"
  /\ Goto(r, "release")
  /\ UNCHANGED <<key, tries, locked, lapsed>>

(* Mutant: a release that deletes the key without comparing the token.       *)
ReleaseAnyKey(r) ==
  /\ pc[r] = "release"
  /\ End(r)
  /\ key' \in {key, IF r \in locked THEN NoRun ELSE key}
  /\ UNCHANGED <<tries, locked>>

(* LOCK_SCRIPT deletes the key if it holds the run's token; a call that      *)
(* fails may have had no effect, and is only logged.                         *)
Release(r) ==
  /\ pc[r] = "release"
  /\ End(r)
  /\ key' \in {key, IF r \in locked /\ key = r THEN NoRun ELSE key}
  /\ UNCHANGED <<tries, locked>>

(* The process is killed: finally does not run.                              *)
Killed(r) ==
  /\ pc[r] # "done"
  /\ End(r)
  /\ UNCHANGED <<key, tries, locked>>

(* The time to live of the key runs out; nothing tells or stops its run.     *)
Expire ==
  /\ key # NoRun
  /\ key' = NoRun
  /\ lapsed' = lapsed \cup ({key} \cap Holding)
  /\ UNCHANGED <<pc, tries, locked>>

RunStep(r) ==
  \/ Begin(r) \/ Granted(r) \/ Refused(r) \/ NotAcquired(r)
  \/ Backup(r) \/ Migrate(r) \/ Release(r) \/ Killed(r)

MigrationNext == Expire \/ \E r \in Runs : RunStep(r)

MigrationSpec == MigrationInit /\ [][MigrationNext]_migrationVars

---------------------------------------------------------------------------
TheLease == INSTANCE Lease WITH owner <- key, holding <- Holding

(* The runs of the tool implement the lease: a run that ends, at whatever    *)
(* step and after whatever failed call, never takes the key of another run,  *)
(* and a run works inside the lock only between its own SET and its end.     *)
Implements == TheLease!LeaseSpec

(* Two runs back up and migrate at once only if one of them works without    *)
(* the lock or has outlived the time to live of its key.                     *)
Exclusive == \A r, s \in Holding \ lapsed : r = s

(* What makes it inductive: a run that holds the lock and has not outlived   *)
(* it owns the key.                                                          *)
HolderOwnsKey == \A r \in Holding \ lapsed : key = r
LapsedAreHolding == lapsed \subseteq Holding
LapsedLostKey == key \notin lapsed
OwnerHasBegun == \A r \in Runs : pc[r] \in {"start", "acquire"} => r \notin locked /\ key # r

MigrationInv ==
  MigrationTypeOK /\ HolderOwnsKey /\ LapsedAreHolding /\ LapsedLostKey /\ OwnerHasBegun
=============================================================================
