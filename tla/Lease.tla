------------------------------- MODULE Lease -------------------------------
(* What a lock with a time to live promises to the runs of a program: the   *)
(* lease is granted when nobody owns it, only the owner's own end or the     *)
(* time to live takes it away, and a run that goes on after its lease has    *)
(* lapsed does so outside the lock.                                          *)
CONSTANTS Runs, NoRun

VARIABLES
  owner,    \* the run the lease belongs to, or NoRun
  holding,  \* the runs that work believing they hold the lease
  lapsed    \* those of them whose lease has run out

leaseVars == <<owner, holding, lapsed>>

LeaseInit == owner = NoRun /\ holding = {} /\ lapsed = {}

(* A run that hears of its grant holds the lease; one that does not owns it  *)
(* without knowing.                                                          *)
Grant(r) ==
  /\ owner = NoRun /\ r \notin holding
  /\ owner' = r
  /\ holding' \in {holding, holding \cup {r}}
  /\ UNCHANGED lapsed

Lapse ==
  /\ owner # NoRun
  /\ owner' = NoRun
  /\ lapsed' = lapsed \cup ({owner} \cap holding)
  /\ UNCHANGED holding

(* A run that stops gives back the lease if it is its own, or leaves it      *)
(* behind; the lease of another run stays.                                   *)
Stop(r) ==
  /\ r \in holding
  /\ holding' = holding \ {r}
  /\ lapsed' = lapsed \ {r}
  /\ owner' \in {owner, IF owner = r THEN NoRun ELSE owner}

LeaseNext == Lapse \/ \E r \in Runs : Grant(r) \/ Stop(r)

LeaseSpec == LeaseInit /\ [][LeaseNext]_leaseVars
=============================================================================
