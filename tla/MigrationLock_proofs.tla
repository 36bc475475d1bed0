------------------------ MODULE MigrationLock_proofs -----------------------
(* Theorems about MigrationLock, for any number of runs of the tool and any  *)
(* number of attempts: the runs implement the lease, and two of them work at *)
(* once only when one outlived its key or never had the lock.                *)
EXTENDS MigrationLock, TLAPS

-----------------------------------------------------------------------------
(* How a step changes the set of runs that hold the lock.                    *)

\* A run that moves among the steps before, within or after its work, and
\* keeps its token, changes the set of holders by itself at most.
LEMMA HoldingAfterMove ==
    ASSUME MigrationTypeOK, NEW r \in Runs, NEW place \in Places,
           Goto(r, place), UNCHANGED locked
    PROVE  Holding' = IF r \in locked /\ place \in AtWork
                      THEN Holding \cup {r} ELSE Holding \ {r}
BY DEF MigrationTypeOK, Goto, Holding

\* A run that is granted the lock and told so joins the holders.
LEMMA HoldingAfterGrant ==
    ASSUME MigrationTypeOK, NEW r \in Runs,
           Goto(r, "backup"), locked' = locked \cup {r}
    PROVE  Holding' = Holding \cup {r}
BY DEF MigrationTypeOK, Goto, Holding, AtWork

\* A run that ends leaves the holders and the lapsed.
LEMMA AfterEnd ==
    ASSUME MigrationTypeOK, NEW r \in Runs, End(r), UNCHANGED locked
    PROVE  Holding' = Holding \ {r} /\ lapsed' = lapsed \ {r}
BY HoldingAfterMove DEF End, Places, AtWork

-----------------------------------------------------------------------------
(* Type correctness and the inductive invariant.                             *)

\* The type of every variable survives every step of every run and the
\* expiry of the key.
LEMMA TypeStep ==
    ASSUME MigrationTypeOK, MigrationNext
    PROVE  MigrationTypeOK'
<1>1. CASE Expire
  BY <1>1 DEF MigrationTypeOK, Expire, Holding
<1>2. ASSUME NEW r \in Runs, RunStep(r)
      PROVE  MigrationTypeOK'
  <2>1. CASE Begin(r)
    BY <2>1 DEF MigrationTypeOK, Begin, Goto, Places
  <2>2. CASE Granted(r)
    BY <2>2 DEF MigrationTypeOK, Granted, Goto, Places
  <2>3. CASE Refused(r)
    BY <2>3, AttemptsAssumption DEF MigrationTypeOK, Refused
  <2>4. CASE NotAcquired(r)
    BY <2>4 DEF MigrationTypeOK, NotAcquired, Goto, Places
  <2>5. CASE Backup(r)
    BY <2>5 DEF MigrationTypeOK, Backup, Goto, Places
  <2>6. CASE Migrate(r)
    BY <2>6 DEF MigrationTypeOK, Migrate, Goto, Places
  <2>7. CASE Release(r)
    BY <2>7 DEF MigrationTypeOK, Release, End, Goto, Places
  <2>8. CASE Killed(r)
    BY <2>8 DEF MigrationTypeOK, Killed, End, Goto, Places
  <2> QED BY <1>2, <2>1, <2>2, <2>3, <2>4, <2>5, <2>6, <2>7, <2>8 DEF RunStep
<1> QED BY <1>1, <1>2 DEF MigrationNext

\* The invariant holds before any run has begun.
LEMMA InvInit == MigrationInit => MigrationInv
BY RunsAssumption, AttemptsAssumption
DEF MigrationInit, MigrationInv, MigrationTypeOK, HolderOwnsKey, LapsedAreHolding,
    LapsedLostKey, OwnerHasBegun, Holding, Places

\* A step that leaves key, tokens and history alone, and moves a run without
\* taking it into or out of the lock or back to its start, keeps the invariant.
LEMMA InvMove ==
    ASSUME MigrationInv, MigrationTypeOK', NEW r \in Runs, NEW place \in Places,
           Goto(r, place), UNCHANGED <<key, locked, lapsed>>,
           r \in locked => pc[r] \in AtWork /\ place \in AtWork,
           place \in {"start", "acquire"} => pc[r] \in {"start", "acquire"}
    PROVE  MigrationInv'
<1> USE DEF MigrationInv
<1>1. Holding' = Holding
  BY HoldingAfterMove DEF Holding
<1>2. HolderOwnsKey' /\ LapsedAreHolding' /\ LapsedLostKey'
  BY <1>1 DEF HolderOwnsKey, LapsedAreHolding, LapsedLostKey
<1>3. OwnerHasBegun'
  BY DEF OwnerHasBegun, MigrationTypeOK, Goto
<1> QED BY <1>2, <1>3

\* A run that ends takes at most its own key with it.
LEMMA InvEnd ==
    ASSUME MigrationInv, MigrationTypeOK', NEW r \in Runs, End(r), UNCHANGED locked,
           key' = key \/ (key = r /\ key' = NoRun)
    PROVE  MigrationInv'
<1> USE DEF MigrationInv
<1>1. Holding' = Holding \ {r} /\ lapsed' = lapsed \ {r}
  BY AfterEnd
<1>2. HolderOwnsKey'
  BY <1>1 DEF HolderOwnsKey
<1>3. LapsedAreHolding'
  BY <1>1 DEF LapsedAreHolding
<1>4. LapsedLostKey'
  BY <1>1, RunsAssumption DEF LapsedLostKey, MigrationTypeOK
<1>5. OwnerHasBegun'
  BY RunsAssumption DEF OwnerHasBegun, MigrationTypeOK, End, Goto
<1> QED BY <1>2, <1>3, <1>4, <1>5

\* The invariant survives every step.
LEMMA InvStep ==
    ASSUME MigrationInv, MigrationNext
    PROVE  MigrationInv'
<1>0. MigrationTypeOK /\ MigrationTypeOK'
  BY TypeStep DEF MigrationInv
<1>1. CASE Expire
  <2>1. Holding' = Holding
    BY <1>1 DEF Expire, Holding
  <2>2. HolderOwnsKey' /\ LapsedAreHolding'
    BY <1>1, <2>1
    DEF Expire, MigrationInv, HolderOwnsKey, LapsedAreHolding
  <2>3. LapsedLostKey'
    BY <1>0, <1>1, RunsAssumption DEF Expire, LapsedLostKey, MigrationTypeOK
  <2>4. OwnerHasBegun'
    BY <1>1, RunsAssumption DEF Expire, MigrationInv, OwnerHasBegun
  <2> QED BY <1>0, <2>2, <2>3, <2>4 DEF MigrationInv
<1>2. ASSUME NEW r \in Runs, RunStep(r)
      PROVE  MigrationInv'
  <2>1. CASE Begin(r)
    <3>1. r \notin locked
      BY <2>1 DEF Begin, MigrationInv, OwnerHasBegun
    <3> QED BY <1>0, <2>1, <3>1, InvMove DEF Begin, Places
  <2>2. CASE Granted(r)
    <3>1. CASE Goto(r, "backup") /\ locked' = locked \cup {r}
      <4>1. Holding' = Holding \cup {r} /\ key' = r /\ lapsed' = lapsed
        BY <1>0, <2>2, <3>1, HoldingAfterGrant DEF Granted
      <4>2. Holding \ lapsed = {} /\ r \notin Holding
        BY <1>0, <2>2, RunsAssumption
        DEF Granted, MigrationInv, HolderOwnsKey, Holding, MigrationTypeOK, OwnerHasBegun
      <4>3. HolderOwnsKey' /\ LapsedAreHolding' /\ LapsedLostKey'
        BY <4>1, <4>2
        DEF MigrationInv, HolderOwnsKey, LapsedAreHolding, LapsedLostKey
      <4>4. OwnerHasBegun'
        BY <1>0, <2>2, <3>1
        DEF Granted, Goto, MigrationInv, OwnerHasBegun, MigrationTypeOK
      <4> QED BY <1>0, <4>3, <4>4 DEF MigrationInv
    <3>2. CASE Goto(r, "done") /\ UNCHANGED locked
      <4>1. Holding \ lapsed = {} /\ r \notin Holding
        BY <1>0, <2>2, RunsAssumption
        DEF Granted, MigrationInv, HolderOwnsKey, Holding, MigrationTypeOK, OwnerHasBegun
      <4>2. Holding' = Holding /\ key' = r /\ lapsed' = lapsed
        BY <1>0, <2>2, <3>2, <4>1, HoldingAfterMove DEF Granted, Places, AtWork
      <4>3. HolderOwnsKey' /\ LapsedAreHolding' /\ LapsedLostKey'
        BY <4>1, <4>2
        DEF MigrationInv, HolderOwnsKey, LapsedAreHolding, LapsedLostKey
      <4>4. OwnerHasBegun'
        BY <1>0, <2>2, <3>2
        DEF Granted, Goto, MigrationInv, OwnerHasBegun, MigrationTypeOK
      <4> QED BY <1>0, <4>3, <4>4 DEF MigrationInv
    <3> QED BY <2>2, <3>1, <3>2 DEF Granted
  <2>3. CASE Refused(r)
    BY <1>0, <2>3
    DEF Refused, MigrationInv, HolderOwnsKey, LapsedAreHolding, LapsedLostKey,
        OwnerHasBegun, Holding
  <2>4. CASE NotAcquired(r)
    <3>1. r \notin locked
      BY <2>4 DEF NotAcquired, MigrationInv, OwnerHasBegun
    <3> QED BY <1>0, <2>4, <3>1, InvMove DEF NotAcquired, Places
  <2>5. CASE Backup(r)
    BY <1>0, <2>5, InvMove DEF Backup, Places, AtWork
  <2>6. CASE Migrate(r)
    BY <1>0, <2>6, InvMove DEF Migrate, Places, AtWork
  <2>7. CASE Release(r)
    BY <1>0, <2>7, InvEnd DEF Release
  <2>8. CASE Killed(r)
    BY <1>0, <2>8, InvEnd DEF Killed
  <2> QED BY <1>2, <2>1, <2>2, <2>3, <2>4, <2>5, <2>6, <2>7, <2>8 DEF RunStep
<1> QED BY <1>1, <1>2 DEF MigrationNext

\* The invariant holds in every behaviour of the runs.
THEOREM MigrationInvariance == MigrationSpec => []MigrationInv
<1>1. MigrationInv /\ UNCHANGED migrationVars => MigrationInv'
  BY DEF MigrationInv, MigrationTypeOK, HolderOwnsKey, LapsedAreHolding, LapsedLostKey,
         OwnerHasBegun, Holding, migrationVars
<1> QED BY InvInit, InvStep, <1>1, PTL DEF MigrationSpec

\* Two runs back up and migrate at once only if one of them works without the
\* lock or has outlived the time to live of its key.
THEOREM MutualExclusion == MigrationSpec => []Exclusive
<1>1. MigrationInv => Exclusive
  BY DEF MigrationInv, HolderOwnsKey, Exclusive
<1> QED BY MigrationInvariance, <1>1, PTL

-----------------------------------------------------------------------------
(* The runs implement the lease.                                             *)

\* The first state of the tool is the first state of the lease.
LEMMA LeaseStart == MigrationInit => TheLease!LeaseInit
BY DEF MigrationInit, TheLease!LeaseInit, Holding

\* A run that ends is a holder that stops, or nothing the lease sees.
LEMMA EndIsStop ==
    ASSUME MigrationInv, NEW r \in Runs, End(r), UNCHANGED locked,
           key' \in {key, IF r \in locked /\ key = r THEN NoRun ELSE key},
           r \in Holding \/ key' = key
    PROVE  TheLease!LeaseNext \/ UNCHANGED TheLease!leaseVars
<1>1. Holding' = Holding \ {r} /\ lapsed' = lapsed \ {r}
  BY AfterEnd DEF MigrationInv
<1>2. CASE r \in Holding
  <2>1. TheLease!Stop(r)
    BY <1>1, <1>2 DEF TheLease!Stop
  <2> QED BY <2>1 DEF TheLease!LeaseNext
<1>3. CASE r \notin Holding
  BY <1>1, <1>3 DEF MigrationInv, LapsedAreHolding, TheLease!leaseVars
<1> QED BY <1>2, <1>3

\* Every step of the tool is a step of the lease or leaves it alone.
LEMMA LeaseStep ==
    ASSUME MigrationInv, MigrationNext
    PROVE  TheLease!LeaseNext \/ UNCHANGED TheLease!leaseVars
<1>0. MigrationTypeOK
  BY DEF MigrationInv
<1>1. CASE Expire
  <2>1. Holding' = Holding
    BY <1>1 DEF Expire, Holding
  <2>2. TheLease!Lapse
    BY <1>1, <2>1 DEF Expire, TheLease!Lapse
  <2> QED BY <2>2 DEF TheLease!LeaseNext
<1>2. ASSUME NEW r \in Runs, RunStep(r)
      PROVE  TheLease!LeaseNext \/ UNCHANGED TheLease!leaseVars
  <2>1. CASE Begin(r)
    <3>1. r \notin locked
      BY <2>1 DEF Begin, MigrationInv, OwnerHasBegun
    <3>2. Holding' = Holding
      BY <1>0, <2>1, <3>1, HoldingAfterMove DEF Begin, Places, Holding
    <3> QED BY <2>1, <3>2 DEF Begin, TheLease!leaseVars
  <2>2. CASE Granted(r)
    <3>1. r \notin Holding
      BY <2>2 DEF Granted, MigrationInv, OwnerHasBegun, Holding
    <3>2. Holding' \in {Holding, Holding \cup {r}}
      <4>1. CASE Goto(r, "backup") /\ locked' = locked \cup {r}
        BY <1>0, <4>1, HoldingAfterGrant
      <4>2. CASE Goto(r, "done") /\ UNCHANGED locked
        BY <1>0, <3>1, <4>2, HoldingAfterMove DEF Places, AtWork
      <4> QED BY <2>2, <4>1, <4>2 DEF Granted
    <3>3. TheLease!Grant(r)
      BY <2>2, <3>1, <3>2 DEF Granted, TheLease!Grant
    <3> QED BY <3>3 DEF TheLease!LeaseNext
  <2>3. CASE Refused(r)
    BY <2>3 DEF Refused, Holding, TheLease!leaseVars
  <2>4. CASE NotAcquired(r)
    <3>1. r \notin locked
      BY <2>4 DEF NotAcquired, MigrationInv, OwnerHasBegun
    <3>2. Holding' = Holding
      BY <1>0, <2>4, <3>1, HoldingAfterMove DEF NotAcquired, Places, Holding
    <3> QED BY <2>4, <3>2 DEF NotAcquired, TheLease!leaseVars
  <2>5. CASE Backup(r)
    <3>1. Holding' = Holding
      BY <1>0, <2>5, HoldingAfterMove DEF Backup, Places, AtWork, Holding
    <3> QED BY <2>5, <3>1 DEF Backup, TheLease!leaseVars
  <2>6. CASE Migrate(r)
    <3>1. Holding' = Holding
      BY <1>0, <2>6, HoldingAfterMove DEF Migrate, Places, AtWork, Holding
    <3> QED BY <2>6, <3>1 DEF Migrate, TheLease!leaseVars
  <2>7. CASE Release(r)
    <3>1. r \in Holding \/ key' = key
      BY <2>7 DEF Release, Holding, AtWork
    <3> QED BY <2>7, <3>1, EndIsStop DEF Release
  <2>8. CASE Killed(r)
    BY <2>8, EndIsStop DEF Killed
  <2> QED BY <1>2, <2>1, <2>2, <2>3, <2>4, <2>5, <2>6, <2>7, <2>8 DEF RunStep
<1> QED BY <1>1, <1>2 DEF MigrationNext

\* The runs of the tool implement the lease: a run that ends, at whatever step
\* and after whatever failed call, never takes the key of another run.
THEOREM LeaseRefinement == MigrationSpec => Implements
<1>1. UNCHANGED migrationVars => UNCHANGED TheLease!leaseVars
  BY DEF migrationVars, TheLease!leaseVars, Holding
<1>2. MigrationInv /\ [MigrationNext]_migrationVars
        => [TheLease!LeaseNext]_(TheLease!leaseVars)
  BY <1>1, LeaseStep
<1> QED BY LeaseStart, MigrationInvariance, <1>2, PTL
        DEF MigrationSpec, Implements, TheLease!LeaseSpec
=============================================================================
