---------------------------- MODULE OfflineQueue ----------------------------
(***************************************************************************)
(* The offline write queue of the web client (frontend/src/lib):           *)
(* offlineQueue.ts over the IndexedDB wrapper localDb.ts, with the callers *)
(* that queue a write (api.ts) and that flush the queue (OfflineStatus.tsx *)
(* and Settings.tsx), and the server as the callers see it.                *)
(*                                                                         *)
(* A write is a row; ids are drawn in the order of createdAt, so the sort  *)
(* by createdAt is the order of ids and an array of rows is a set.  A row  *)
(* "waits" while its nextAttemptAt lies in the future.  An action is the   *)
(* code between two awaits.                                                *)
(***************************************************************************)
EXTENDS Naturals, FiniteSets

CONSTANTS
    Keys,          \* idempotency keys: method, path and body of a write
    Flushers,      \* the places that can have a flush under way
    MaxQueueSize,  \* MAX_QUEUE_SIZE
    MaxAttempts,   \* MAX_OFFLINE_RETRY_ATTEMPTS
    NoRow,         \* no row: a flush between two rows
    MaxRows,       \* bound: rows ever queued
    MaxReloads     \* bound: page reloads

ASSUME BoundAssumption ==
    /\ MaxQueueSize \in Nat \ {0} /\ MaxAttempts \in Nat \ {0}
    /\ MaxRows \in Nat /\ MaxReloads \in Nat
ASSUME NoRowAssumption == NoRow \notin [id : 1..MaxRows, key : Keys,
    attempts : 0..MaxAttempts, failed : BOOLEAN, waits : BOOLEAN]

VARIABLES
    rows,        \* the rows queued so far: ids 1..rows
    store,       \* the syncQueue object store
    puts,        \* rows whose first put has not completed
    hydration,   \* how far hydrateQueue is: "idle", "read", "merged" or "done"
    fetched,     \* the rows hydrateQueue read
    queue,       \* the array hydratePromise resolved to
    snapshot,    \* queueSnapshot
    run,         \* per flusher, the flushQueuedRequests call under way
    applied,     \* rows the server executed at least once
    acked,       \* rows a flush saw succeed
    lost,        \* rows whose first put a reload cut short
    online,      \* navigator.onLine
    reloads

vars == <<rows, store, puts, hydration, fetched, queue, snapshot, run,
          applied, acked, lost, online, reloads>>

Ids == 1..MaxRows
Row == [id : Ids, key : Keys, attempts : 0..MaxAttempts, failed : BOOLEAN,
        waits : BOOLEAN]
IdsOf(S) == {r.id : r \in S}

Stage == {"off", "pick", "inflight", "executed", "ok", "error"}
Off == [at |-> "off", todo |-> {}, row |-> NoRow, remaining |-> {}]

TypeOK ==
    /\ rows \in 0..MaxRows
    /\ store \in SUBSET Row /\ puts \in SUBSET Row
    /\ hydration \in {"idle", "read", "merged", "done"}
    /\ fetched \in SUBSET Row /\ queue \in SUBSET Row
    /\ snapshot \in SUBSET Row
    /\ run \in [Flushers -> [at : Stage, todo : SUBSET Row,
                             row : Row \cup {NoRow}, remaining : SUBSET Row]]
    /\ applied \in SUBSET Ids /\ acked \in SUBSET Ids /\ lost \in SUBSET Ids
    /\ online \in BOOLEAN
    /\ reloads \in 0..MaxReloads

Init ==
    /\ rows = 0
    /\ store = {} /\ puts = {} /\ fetched = {} /\ queue = {} /\ snapshot = {}
    /\ hydration = "idle"
    /\ run = [f \in Flushers |-> Off]
    /\ applied = {} /\ acked = {} /\ lost = {}
    /\ online \in BOOLEAN
    /\ reloads = 0

-----------------------------------------------------------------------------
\* The last n of a set of rows: slice(-n).
Last(n, S) == {r \in S : Cardinality({q \in S : q.id > r.id}) < n}

\* What setSnapshot keeps of an array.
Kept(S) ==
    Last(MaxQueueSize, {r \in S : ~r.failed \/ r.attempts < MaxAttempts})

\* localDbPut: the row of that id is replaced.
Put(S, r) == {q \in S : q.id # r.id} \cup {r}

-----------------------------------------------------------------------------
(* hydrateQueue, started when the module is loaded and shared by all callers *)

HydrateRead ==
    /\ hydration = "idle"
    /\ fetched' = store
    /\ hydration' = "read"
    /\ UNCHANGED <<rows, store, puts, queue, snapshot, run, applied, acked,
                   lost, online, reloads>>

\* One row per key survives the merge; the younger by updatedAt, a time this
\* model does not keep, so either.
Merged(S) ==
    {M \in SUBSET S :
        /\ {r.key : r \in M} = {r.key : r \in S}
        /\ \A q, r \in M : q.key = r.key => q = r}

\* slice(-MAX_QUEUE_SIZE) of the merged rows, which stand in the order their
\* keys were first met in S.
LastMet(M, S) ==
    LET later(q, r) == \E x \in S : /\ x.key = r.key
                                   /\ \A y \in S : y.key = q.key => x.id < y.id
    IN  {r \in M : Cardinality({q \in M : later(q, r)}) < MaxQueueSize}

\* The merge becomes the snapshot, and drops what was queued since the read.
HydrateMerge ==
    /\ hydration = "read"
    /\ \E M \in Merged(fetched) :
           snapshot' = Kept(LastMet(M, fetched))
    /\ fetched' = {}
    /\ hydration' = "merged"
    /\ UNCHANGED <<rows, store, puts, queue, run, applied, acked, lost, online,
                   reloads>>

\* Mutant: a merged row is stored as if it were new.
HydrateAnew ==
    /\ hydration = "merged"
    /\ queue' = snapshot /\ hydration' = "done"
    /\ store' = {IF r \in snapshot THEN [r EXCEPT !.attempts = 0] ELSE r :
                    r \in store}
    /\ UNCHANGED <<rows, puts, fetched, snapshot, run, applied, acked, lost,
                   online, reloads>>

\* The merged rows are stored again, unchanged; the promise resolves to the
\* snapshot of that moment, and keeps that array for good.
HydrateDone ==
    /\ hydration = "merged"
    /\ queue' = snapshot
    /\ hydration' = "done"
    /\ UNCHANGED <<rows, store, puts, fetched, snapshot, run, applied, acked,
                   lost, online, reloads>>

-----------------------------------------------------------------------------
(* queueRequest, from apiRequest when a write cannot be sent.               *)

\* A write already in the snapshot is not queued twice.
QueueRequest(k) ==
    LET new == [id |-> rows + 1, key |-> k, attempts |-> 0, failed |-> FALSE,
                waits |-> FALSE]
    IN  /\ rows < MaxRows
        /\ ~ \E r \in snapshot : r.key = k /\ r.attempts < MaxAttempts
        /\ rows' = rows + 1
        /\ snapshot' = Kept(snapshot \cup {new})
        /\ puts' = puts \cup {new}
        /\ UNCHANGED <<store, hydration, fetched, queue, run, applied, acked,
                       lost, online, reloads>>

\* The put queueRequest did not wait for completes.  IndexedDB runs the
\* transactions on a store in the order they were created, so it comes after
\* the read of hydrateQueue and before a later put or delete of the row.
PutLands(r) ==
    /\ r \in puts /\ hydration # "idle"
    /\ store' = Put(store, r)
    /\ puts' = puts \ {r}
    /\ UNCHANGED <<rows, hydration, fetched, queue, snapshot, run, applied,
                   acked, lost, online, reloads>>

-----------------------------------------------------------------------------
(* flushQueuedRequests.  Nothing keeps two calls apart.                     *)

\* A call that finds the hydrated array empty or the client offline returns.
FlushStart(f) ==
    /\ run[f].at = "off" /\ hydration = "done"
    /\ queue # {} /\ online
    /\ run' = [run EXCEPT ![f] =
                 [at |-> "pick", row |-> NoRow,
                  todo |-> {r \in queue : ~r.waits},
                  remaining |-> {r \in queue : r.waits}]]
    /\ UNCHANGED <<rows, store, puts, hydration, fetched, queue, snapshot,
                   applied, acked, lost, online, reloads>>

Oldest(S) == CHOOSE r \in S : \A q \in S : r.id <= q.id

\* The next row that does not wait is sent.
FlushSend(f) ==
    /\ run[f].at = "pick" /\ run[f].todo # {}
    /\ LET r == Oldest(run[f].todo)
       IN  run' = [run EXCEPT ![f].at = "inflight", ![f].row = r,
                              ![f].todo = @ \ {r}]
    /\ UNCHANGED <<rows, store, puts, hydration, fetched, queue, snapshot,
                   applied, acked, lost, online, reloads>>

\* The server executes the request; it does not look at Idempotency-Key.
ServerExecutes(f) ==
    /\ run[f].at = "inflight" /\ online
    /\ applied' = applied \cup {run[f].row.id}
    /\ run' = [run EXCEPT ![f].at = "executed"]
    /\ UNCHANGED <<rows, store, puts, hydration, fetched, queue, snapshot,
                   acked, lost, online, reloads>>

\* send resolves.
FlushReply(f) ==
    /\ run[f].at = "executed"
    /\ acked' = acked \cup {run[f].row.id}
    /\ run' = [run EXCEPT ![f].at = "ok"]
    /\ UNCHANGED <<rows, store, puts, hydration, fetched, queue, snapshot,
                   applied, lost, online, reloads>>

\* Mutant: a request that never reached the server does not fail.
ErrorOnlyAfterExecution(f) ==
    /\ run[f].at = "executed"
    /\ run' = [run EXCEPT ![f].at = "error"]
    /\ UNCHANGED <<rows, store, puts, hydration, fetched, queue, snapshot,
                   applied, acked, lost, online, reloads>>

\* send rejects: no connection, a refusal of any status, a time-out, which
\* also happens to a request the server did execute.
FlushError(f) ==
    /\ run[f].at \in {"inflight", "executed"}
    /\ run' = [run EXCEPT ![f].at = "error"]
    /\ UNCHANGED <<rows, store, puts, hydration, fetched, queue, snapshot,
                   applied, acked, lost, online, reloads>>

\* The row of a request that succeeded is deleted.
FlushDelete(f) ==
    /\ run[f].at = "ok" /\ run[f].row.id \notin IdsOf(puts)
    /\ store' = {r \in store : r.id # run[f].row.id}
    /\ run' = [run EXCEPT ![f].at = "pick", ![f].row = NoRow]
    /\ UNCHANGED <<rows, puts, hydration, fetched, queue, snapshot, applied,
                   acked, lost, online, reloads>>

\* Mutant: the attempt is counted twice.
RetriedTwice(r) ==
    LET capped == r.attempts + 1 >= MaxAttempts
    IN  [r EXCEPT !.attempts = @ + 2, !.failed = capped, !.waits = TRUE]

\* What a failed attempt makes of a row: the row of the array is not changed.
Retried(r) ==
    LET capped == r.attempts + 1 >= MaxAttempts
    IN  [r EXCEPT !.attempts = @ + 1, !.failed = capped, !.waits = TRUE]

\* Mutant: a row that failed too often is deleted.
RetryDropsCapped(f) ==
    LET next == Retried(run[f].row)
    IN  /\ run[f].at = "error" /\ run[f].row.id \notin IdsOf(puts)
        /\ store' = IF next.failed THEN {q \in store : q.id # next.id}
                                   ELSE Put(store, next)
        /\ run' = [run EXCEPT
                     ![f].at = "pick", ![f].row = NoRow,
                     ![f].remaining = IF next.failed THEN @ ELSE @ \cup {next}]
        /\ UNCHANGED <<rows, puts, hydration, fetched, queue, snapshot,
                       applied, acked, lost, online, reloads>>

\* The row of a request that failed is stored with one attempt more.
FlushRetry(f) ==
    LET next == Retried(run[f].row)
    IN  /\ run[f].at = "error" /\ run[f].row.id \notin IdsOf(puts)
        /\ store' = Put(store, next)
        /\ run' = [run EXCEPT
                     ![f].at = "pick", ![f].row = NoRow,
                     ![f].remaining = IF next.failed THEN @ ELSE @ \cup {next}]
        /\ UNCHANGED <<rows, puts, hydration, fetched, queue, snapshot,
                       applied, acked, lost, online, reloads>>

\* The rows that remain of the array become the snapshot.
FlushEnd(f) ==
    /\ run[f].at = "pick" /\ run[f].todo = {}
    /\ snapshot' = Kept(run[f].remaining)
    /\ run' = [run EXCEPT ![f] = Off]
    /\ UNCHANGED <<rows, store, puts, hydration, fetched, queue, applied,
                   acked, lost, online, reloads>>

-----------------------------------------------------------------------------
(* The browser.                                                             *)

\* The longest backoff has passed.  A failed row is never due again.
Awake(S) == {[r EXCEPT !.waits = r.failed] : r \in S}
BackoffEnds ==
    /\ \E r \in store \cup queue \cup snapshot : r.waits /\ ~r.failed
    /\ store' = Awake(store) /\ queue' = Awake(queue)
    /\ fetched' = Awake(fetched) /\ snapshot' = Awake(snapshot)
    /\ run' = [f \in Flushers |->
                 [run[f] EXCEPT !.remaining = Awake(run[f].remaining)]]
    /\ UNCHANGED <<rows, puts, hydration, applied, acked, lost, online,
                   reloads>>

Network ==
    /\ online' = ~online
    /\ UNCHANGED <<rows, store, puts, hydration, fetched, queue, snapshot, run,
                   applied, acked, lost, reloads>>

\* The page is closed and opened again: only the object store survives.
Reload ==
    /\ reloads < MaxReloads
    /\ reloads' = reloads + 1
    /\ lost' = lost \cup IdsOf(puts)
    /\ puts' = {} /\ fetched' = {} /\ queue' = {} /\ snapshot' = {}
    /\ hydration' = "idle"
    /\ run' = [f \in Flushers |-> Off]
    /\ UNCHANGED <<rows, store, applied, acked, online>>

-----------------------------------------------------------------------------
Hydrate == HydrateRead \/ HydrateMerge \/ HydrateDone
\* A flush under way; fetch gives up after DEFAULT_TIMEOUT_MS.
FlushStep(f) ==
    \/ FlushSend(f) \/ ServerExecutes(f) \/ FlushReply(f) \/ FlushError(f)
    \/ FlushDelete(f) \/ FlushRetry(f) \/ FlushEnd(f)

Next ==
    \/ Hydrate
    \/ \E k \in Keys : QueueRequest(k)
    \/ \E r \in puts : PutLands(r)
    \/ \E f \in Flushers : FlushStart(f) \/ FlushStep(f)
    \/ BackoffEnds \/ Network \/ Reload

\* The browser completes what it started, and the flush effect runs.
Fairness ==
    /\ WF_vars(Hydrate)
    /\ WF_vars(\E r \in puts : PutLands(r))
    /\ \A f \in Flushers : WF_vars(FlushStep(f))

Spec == Init /\ [][Next]_vars /\ Fairness

\* A client that goes on flushing, as the manual sync of Settings.tsx allows,
\* with a server that answers.
EagerSpec ==
    /\ Spec
    /\ \A f \in Flushers : WF_vars(FlushStart(f)) /\ SF_vars(ServerExecutes(f))
                            /\ SF_vars(FlushReply(f))

-----------------------------------------------------------------------------
(* Properties.                                                              *)

\* A write that was queued is in the object store, or its first put is under
\* way, until a flush has seen it succeed: no hydration, merge, cut of the
\* queue, failed attempt, second flush or reload drops it.  The one loss is
\* the put that queueRequest does not wait for, when the page goes away.
DurableUntilAcked ==
    \A i \in 1..rows : i \in IdsOf(store) \cup IdsOf(puts) \cup acked \cup lost

\* The retry bookkeeping of a stored row never goes back: not in a second
\* flush of the same array, nor after a reload.  This is true of one page: tabs
\* share the store with arrays of their own (offlineQueue.ts:169).
RetriesNeverRegress ==
    [][\A r \in store, q \in store' :
          q.id = r.id => q.attempts >= r.attempts /\ (r.failed => q.failed)]_vars

\* Every flush comes to its end, whatever the others and the network do.
FlushTerminates ==
    \A f \in Flushers : run[f].at # "off" ~> run[f].at = "off"

\* docs/architecture/PRD.md: every request queued in IndexedDB is synced when
\* the network is back.
QueuedWriteSynced ==
    <>[]online =>
        \A i \in Ids : i \in IdsOf(store) ~> i \in applied

\* docs/architecture/LOCAL_FIRST_MULTI_USER_STABILITY_PLAN.md: a reconnect
\* sends a queued mutation once.
SentOnce ==
    [][\A f \in Flushers :
          (run[f].at # "inflight" /\ run'[f].at = "inflight")
              => run'[f].row.id \notin acked]_vars
=============================================================================
