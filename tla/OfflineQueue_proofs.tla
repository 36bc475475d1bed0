------------------------ MODULE OfflineQueue_proofs ------------------------
(***************************************************************************)
(* Theorems about OfflineQueue, for any keys, flushers and sizes: the      *)
(* bookkeeping of retries never goes back and no row is tried more than    *)
(* MaxAttempts times, and a queued write is kept until it is acknowledged. *)
(***************************************************************************)
EXTENDS OfflineQueue, NaturalsInduction, WellFoundedInduction, TLAPS

-----------------------------------------------------------------------------
(* The invariant behind the retries.                                        *)

\* A row is marked as failed at the last attempt, and then only.
Consistent(r) == r.failed <=> r.attempts >= MaxAttempts
Live(r) == ~r.failed /\ r.attempts < MaxAttempts

\* Two versions of one row have the same attempts.
Agree(S) == \A q, r \in S : q.id = r.id => q.attempts = r.attempts

\* The versions a flush may still send: of the hydrated array, or taken from it.
Held == {r \in Row : \/ r \in queue
                     \/ \E f \in Flushers : r \in run[f].todo \/ r = run[f].row}

\* What the bookkeeping says of one row, wherever the row is.
RowsOK ==
    /\ \A r \in store \cup fetched : Consistent(r)
    /\ \A r \in puts : r.attempts = 0 /\ ~r.failed
    /\ \A r \in snapshot \cup Held : Live(r)
    /\ \A f \in Flushers : \A r \in run[f].remaining : Live(r)
    /\ \A r \in store \cup puts \cup fetched \cup Held : r.id <= rows

\* A flush starts after the hydration, and holds the row it has taken.
FlushHasRow ==
    \A f \in Flushers :
        /\ run[f].at # "off" => hydration = "done"
        /\ run[f].at \in {"inflight", "executed", "ok", "error"}
              => run[f].row \in Row

\* A flush works on old versions of its rows.  What the store has got since is
\* at most one attempt ahead, because every flush starts from the same array.
OneAhead ==
    /\ Agree(store \cup puts)
    /\ Agree(Held)
    /\ \A r \in store, q \in Held : r.id = q.id => r.attempts <= q.attempts + 1

\* Until the hydration is done no flush holds a row, and the rows that become
\* the array agree with the store.
BeforeFlush ==
    hydration # "done" =>
        /\ Held = {}
        /\ \A r \in snapshot : r.id <= rows
        /\ Agree(store \cup puts \cup fetched \cup snapshot)

RetryInv == TypeOK /\ RowsOK /\ FlushHasRow /\ OneAhead /\ BeforeFlush

-----------------------------------------------------------------------------
(* The operators on rows.                                                   *)

\* The snapshot keeps only rows of the array it is set to.
LEMMA KeptRows ==
    ASSUME NEW S, NEW r \in Kept(S)
    PROVE  r \in S /\ (~r.failed \/ r.attempts < MaxAttempts)
BY DEF Kept, Last

\* When a backoff ends a row keeps its id and its bookkeeping.
LEMMA AwakeRows ==
    ASSUME NEW S \in SUBSET Row
    PROVE  /\ Awake(S) \in SUBSET Row
           /\ \A q \in Awake(S) : \E r \in S :
                  q.id = r.id /\ q.attempts = r.attempts /\ q.failed = r.failed
           /\ \A r \in S : \E q \in Awake(S) : q.id = r.id
<1>1. \A r \in S : [r EXCEPT !.waits = r.failed] \in Awake(S)
  BY DEF Awake
<1>2. \A r \in Row : [r EXCEPT !.waits = r.failed].id = r.id
  BY DEF Row
<1>3. \A r \in S : \E q \in Awake(S) : q.id = r.id
  BY <1>1, <1>2
<1>4. /\ Awake(S) \in SUBSET Row
      /\ \A q \in Awake(S) : \E r \in S :
             q.id = r.id /\ q.attempts = r.attempts /\ q.failed = r.failed
  BY DEF Awake, Row
<1> QED BY <1>3, <1>4

\* A row that is not spent, tried once more, is a row with a right failure mark.
LEMMA RetriedRow ==
    ASSUME NEW r \in Row, Live(r)
    PROVE  /\ Retried(r) \in Row
           /\ Retried(r).id = r.id
           /\ Retried(r).attempts = r.attempts + 1
           /\ Consistent(Retried(r))
<1>1. r.id \in Ids /\ r.key \in Keys /\ r.attempts \in 0..MaxAttempts
  BY DEF Row
<1>2. r.attempts + 1 \in 0..MaxAttempts
  BY <1>1, BoundAssumption DEF Live
<1> DEFINE c == r.attempts + 1 >= MaxAttempts
           n == [r EXCEPT !.attempts = @ + 1, !.failed = c, !.waits = TRUE]
<1>3. c \in BOOLEAN
  OBVIOUS
<1> HIDE DEF c
<1>4. /\ n \in Row /\ n.id = r.id /\ n.attempts = r.attempts + 1
      /\ n.failed = c
  BY <1>1, <1>2, <1>3 DEF Row
<1> QED BY <1>4 DEF Retried, Consistent, c

\* A new row's record.
LEMMA NewRow ==
    ASSUME TypeOK, rows < MaxRows, NEW k \in Keys
    PROVE  [id |-> rows + 1, key |-> k, attempts |-> 0, failed |-> FALSE,
            waits |-> FALSE] \in Row
BY BoundAssumption DEF TypeOK, Row, Ids

\* A flush sends a row of its array: a set of rows that is not empty has an
\* oldest one.
LEMMA OldestRow ==
    ASSUME NEW S \in SUBSET Row, S # {}
    PROVE  Oldest(S) \in S
<1> DEFINE R == {p \in Nat \X Nat : p[1] < p[2]}
<1>1. IsWellFoundedOn(R, Nat)
  BY NatLessThanWellFounded DEF OpToRel
<1>2. {r.id : r \in S} \subseteq Nat /\ {r.id : r \in S} # {}
  BY DEF Row, Ids
<1>3. \E n \in {r.id : r \in S} : \A m \in {r.id : r \in S} :
          <<m, n>> \notin R
  <2> HIDE DEF R
  <2> QED BY <1>1, <1>2, WFMin
<1>4. \E n \in {r.id : r \in S} : \A m \in {r.id : r \in S} : n <= m
  <2>1. \A m, n \in Nat : <<m, n>> \notin R => n <= m
    OBVIOUS
  <2> HIDE DEF R
  <2> QED BY <1>2, <1>3, <2>1
<1>5. \E r \in S : \A q \in S : r.id <= q.id
  BY <1>4
<1> QED BY <1>5 DEF Oldest

-----------------------------------------------------------------------------
(* The invariant is inductive.                                              *)

\* No row is anywhere at the start.
LEMMA RetryInit == Init => RetryInv
<1> SUFFICES ASSUME Init PROVE RetryInv
  OBVIOUS
<1>1. Held = {}
  BY NoRowAssumption DEF Init, Held, Off, Row, Ids
<1>2. TypeOK
  BY BoundAssumption DEF Init, TypeOK, Off, Stage
<1>3. RowsOK /\ OneAhead
  BY <1>1 DEF Init, RowsOK, OneAhead, Agree, Off
<1>4. FlushHasRow /\ BeforeFlush
  BY <1>1 DEF Init, FlushHasRow, BeforeFlush, Agree, Off
<1> QED BY <1>2, <1>3, <1>4 DEF RetryInv

\* A step that leaves the rows where they are, and can only make the flushes
\* hold fewer.
LEMMA HeldShrinks ==
    ASSUME RetryInv, TypeOK', FlushHasRow',
           UNCHANGED <<rows, store, puts, fetched, snapshot, hydration>>,
           Held' \subseteq Held,
           \A f \in Flushers : \A r \in run'[f].remaining : Live(r)
    PROVE  RetryInv'
<1>1. RowsOK'
  BY DEF RetryInv, RowsOK, Live, Consistent
<1>2. OneAhead' /\ BeforeFlush'
  BY DEF RetryInv, OneAhead, BeforeFlush, Agree
<1> QED BY <1>1, <1>2 DEF RetryInv

\* The read takes the rows of the store as they are.
LEMMA RetryHydrateRead == RetryInv /\ HydrateRead => RetryInv'
<1> SUFFICES ASSUME RetryInv, HydrateRead PROVE RetryInv'
  OBVIOUS
<1>1. Held' = Held
  BY DEF HydrateRead, Held
<1>2. TypeOK'
  BY DEF RetryInv, HydrateRead, TypeOK
<1>3. RowsOK' /\ FlushHasRow'
  BY <1>1 DEF RetryInv, HydrateRead, RowsOK, Live, Consistent, FlushHasRow
<1>4. OneAhead' /\ BeforeFlush'
  BY <1>1 DEF RetryInv, HydrateRead, OneAhead, BeforeFlush, Agree
<1> QED BY <1>2, <1>3, <1>4 DEF RetryInv

\* The snapshot gets rows that were read, and none that is marked as failed.
LEMMA RetryHydrateMerge == RetryInv /\ HydrateMerge => RetryInv'
<1> SUFFICES ASSUME RetryInv, HydrateMerge PROVE RetryInv'
  OBVIOUS
<1>1. Held' = Held
  BY DEF HydrateMerge, Held
<1>2. PICK M \in Merged(fetched) : snapshot' = Kept(LastMet(M, fetched))
  BY DEF HydrateMerge
<1>3. \A r \in snapshot' : r \in fetched /\ Live(r)
  <2> TAKE r \in snapshot'
  <2>1. r \in LastMet(M, fetched) /\ (~r.failed \/ r.attempts < MaxAttempts)
    BY <1>2, KeptRows
  <2>2. r \in fetched
    BY <2>1 DEF LastMet, Merged
  <2>3. Consistent(r) /\ r \in Row
    BY <2>2 DEF RetryInv, RowsOK, TypeOK
  <2> QED BY <2>1, <2>2, <2>3, BoundAssumption DEF Consistent, Live, Row
<1>4. TypeOK'
  BY <1>3 DEF RetryInv, HydrateMerge, TypeOK
<1>5. RowsOK' /\ FlushHasRow'
  BY <1>1, <1>3
  DEF RetryInv, HydrateMerge, RowsOK, Live, Consistent, FlushHasRow
<1>6. OneAhead' /\ BeforeFlush'
  BY <1>1, <1>3
  DEF RetryInv, HydrateMerge, RowsOK, OneAhead, BeforeFlush, Agree
<1> QED BY <1>4, <1>5, <1>6 DEF RetryInv

\* The hydrated array is the snapshot, which agrees with the store.
LEMMA RetryHydrateDone == RetryInv /\ HydrateDone => RetryInv'
<1> SUFFICES ASSUME RetryInv, HydrateDone PROVE RetryInv'
  OBVIOUS
<1>1. Held' \subseteq snapshot
  BY DEF RetryInv, HydrateDone, BeforeFlush, Held
<1>2. TypeOK'
  BY DEF RetryInv, HydrateDone, TypeOK
<1>3. RowsOK' /\ FlushHasRow'
  BY <1>1
  DEF RetryInv, HydrateDone, RowsOK, Live, Consistent, FlushHasRow, BeforeFlush
<1>4. OneAhead'
  <2>1. Agree(store \cup puts \cup snapshot) /\ Agree(store \cup puts)
    BY DEF RetryInv, HydrateDone, BeforeFlush, Agree
  <2>2. \A r \in store : r.attempts \in Nat
    BY DEF RetryInv, TypeOK, Row
  <2> QED BY <1>1, <2>1, <2>2 DEF OneAhead, Agree, HydrateDone
<1>5. BeforeFlush'
  BY DEF HydrateDone, BeforeFlush
<1> QED BY <1>2, <1>3, <1>4, <1>5 DEF RetryInv

\* A new row has an id no other row has.
LEMMA RetryQueueRequest ==
    ASSUME RetryInv, NEW k \in Keys, QueueRequest(k)
    PROVE  RetryInv'
<1> DEFINE new == [id |-> rows + 1, key |-> k, attempts |-> 0,
                   failed |-> FALSE, waits |-> FALSE]
<1>1. /\ rows < MaxRows /\ rows \in Nat /\ rows' = rows + 1
      /\ new \in Row
      /\ new.id = rows + 1 /\ new.attempts = 0 /\ ~new.failed
      /\ puts' = puts \cup {new}
      /\ snapshot' = Kept(snapshot \cup {new})
      /\ Held' = Held
  BY NewRow, BoundAssumption DEF QueueRequest, RetryInv, TypeOK, Held
<1>2. snapshot' \subseteq snapshot \cup {new}
  BY <1>1, KeptRows
<1> HIDE DEF new
<1>3. Live(new)
  BY <1>1, BoundAssumption DEF Live
<1>4. \A r \in Row : r.id \in Nat /\ r.attempts \in Nat
  BY DEF Row, Ids
<1>5. store \cup puts \cup fetched \cup snapshot \cup Held \subseteq Row
  BY DEF RetryInv, TypeOK, Held
<1>6. TypeOK'
  <2>1. rows' \in 0..MaxRows
    BY <1>1, BoundAssumption
  <2>2. puts' \subseteq Row /\ snapshot' \subseteq Row
    BY <1>1, <1>2, <1>5
  <2> QED BY <2>1, <2>2 DEF QueueRequest, RetryInv, TypeOK
<1>7. RowsOK'
  <2>1. \A r \in (store \cup puts \cup fetched \cup Held)' : r.id <= rows'
    BY <1>1, <1>4, <1>5 DEF QueueRequest, RetryInv, RowsOK
  <2>2. \A r \in (snapshot \cup Held)' : Live(r)
    BY <1>1, <1>2, <1>3 DEF RetryInv, RowsOK
  <2> QED
    BY <1>1, <2>1, <2>2 DEF QueueRequest, RetryInv, RowsOK, Live, Consistent
<1>8. FlushHasRow'
  BY DEF QueueRequest, RetryInv, FlushHasRow
<1>9. \A r \in store \cup puts \cup fetched \cup Held : r.id # new.id
  BY <1>1, <1>4, <1>5 DEF RetryInv, RowsOK
<1>10. OneAhead'
  BY <1>1, <1>9 DEF QueueRequest, RetryInv, OneAhead, Agree
<1>11. BeforeFlush'
  <2> SUFFICES ASSUME hydration # "done"
               PROVE  BeforeFlush'
    BY DEF QueueRequest, BeforeFlush
  <2>1. \A r \in snapshot : r.id <= rows /\ r.id # new.id
    BY <1>1, <1>4, <1>5 DEF RetryInv, BeforeFlush
  <2>2. Agree((store \cup puts \cup fetched \cup snapshot)')
    <3> DEFINE S == store \cup puts \cup fetched \cup snapshot
    <3>1. Agree(S) /\ \A r \in S : r.id # new.id
      BY <1>9, <2>1 DEF RetryInv, BeforeFlush
    <3>2. (store \cup puts \cup fetched \cup snapshot)' \subseteq S \cup {new}
      BY <1>1, <1>2 DEF QueueRequest
    <3> HIDE DEF S
    <3> QED BY <3>1, <3>2 DEF Agree
  <2>3. \A r \in snapshot' : r.id <= rows'
    <3> SUFFICES ASSUME NEW r \in snapshot' PROVE r.id <= rows + 1
      BY <1>1
    <3>1. CASE r = new
      BY <1>1, <3>1
    <3>2. CASE r \in snapshot
      BY <1>1, <1>4, <1>5, <2>1, <3>2
    <3> QED BY <1>2, <3>1, <3>2
  <2> QED BY <1>1, <2>2, <2>3 DEF RetryInv, BeforeFlush
<1> QED BY <1>6, <1>7, <1>8, <1>10, <1>11 DEF RetryInv

\* The put of a new row cannot undo a retry: no attempt was made on it before.
LEMMA RetryPutLands ==
    ASSUME RetryInv, NEW r \in puts, PutLands(r)
    PROVE  RetryInv'
<1>1. Held' = Held /\ store' \subseteq store \cup puts
  BY DEF PutLands, Held, Put
<1>2. \A q \in puts : Consistent(q) /\ q \in Row
  BY BoundAssumption DEF RetryInv, RowsOK, TypeOK, Consistent, Row
<1>3. TypeOK'
  BY <1>1, <1>2 DEF PutLands, RetryInv, TypeOK
<1>4. RowsOK' /\ FlushHasRow'
  BY <1>1, <1>2 DEF PutLands, RetryInv, RowsOK, Live, Consistent, FlushHasRow
<1>5. \A q \in Held : q.attempts \in Nat
  BY DEF Held, Row
<1>6. \A s \in store', q \in Held' : s.id = q.id => s.attempts <= q.attempts + 1
  <2> TAKE s \in store', q \in Held'
  <2>1. CASE s \in store
    BY <1>1, <2>1 DEF RetryInv, OneAhead
  <2>2. CASE s \in puts
    BY <1>1, <1>5, <2>2 DEF RetryInv, RowsOK
  <2> QED BY <1>1, <2>1, <2>2
<1>7. OneAhead' /\ BeforeFlush'
  BY <1>1, <1>6 DEF PutLands, RetryInv, OneAhead, BeforeFlush, Agree
<1> QED BY <1>3, <1>4, <1>7 DEF RetryInv

\* Every flush starts from the hydrated array.
LEMMA RetryFlushStart ==
    ASSUME RetryInv, NEW f \in Flushers, FlushStart(f)
    PROVE  RetryInv'
<1>1. \A g \in Flushers : g # f => run'[g] = run[g]
  BY DEF FlushStart
<1>2. /\ run'[f].at = "pick" /\ run'[f].row = NoRow
      /\ run'[f].todo \subseteq queue
      /\ run'[f].remaining \subseteq queue
  BY DEF FlushStart, RetryInv, TypeOK
<1>3. TypeOK'
  BY DEF FlushStart, RetryInv, TypeOK, Stage
<1>4. Held' \subseteq Held
  BY <1>1, <1>2, NoRowAssumption DEF FlushStart, Held, Row, Ids
<1>5. \A g \in Flushers : \A r \in run'[g].remaining : Live(r)
  BY <1>1, <1>2 DEF RetryInv, RowsOK, TypeOK, Held
<1>6. FlushHasRow'
  BY <1>1, <1>2 DEF FlushStart, RetryInv, FlushHasRow
<1> QED BY <1>3, <1>4, <1>5, <1>6, HeldShrinks DEF FlushStart

\* The row that is sent moves from the array to the flush.
LEMMA RetryFlushSend ==
    ASSUME RetryInv, NEW f \in Flushers, FlushSend(f)
    PROVE  RetryInv'
<1>1. PICK r \in run[f].todo :
          run' = [run EXCEPT ![f].at = "inflight", ![f].row = r,
                             ![f].todo = @ \ {r}]
  BY OldestRow DEF FlushSend, RetryInv, TypeOK
<1>2. \A g \in Flushers : g # f => run'[g] = run[g]
  BY <1>1 DEF RetryInv, TypeOK
<1>3. /\ run'[f].at = "inflight" /\ run'[f].row = r
      /\ run'[f].todo = run[f].todo \ {r}
      /\ run'[f].remaining = run[f].remaining
      /\ r \in Row
  BY <1>1 DEF RetryInv, TypeOK
<1>4. TypeOK'
  BY <1>1, <1>3 DEF FlushSend, RetryInv, TypeOK, Stage
<1>5. Held' \subseteq Held
  BY <1>2, <1>3 DEF FlushSend, Held
<1>6. \A g \in Flushers : \A q \in run'[g].remaining : Live(q)
  BY <1>2, <1>3 DEF RetryInv, RowsOK
<1>7. FlushHasRow'
  BY <1>2, <1>3 DEF FlushSend, RetryInv, FlushHasRow
<1> QED BY <1>4, <1>5, <1>6, <1>7, HeldShrinks DEF FlushSend

\* A flush that moves on with the row it has.
LEMMA RetryStage ==
    ASSUME RetryInv, NEW f \in Flushers,
           run[f].at \in {"inflight", "executed"}, NEW s \in Stage,
           run' = [run EXCEPT ![f].at = s],
           UNCHANGED <<rows, store, puts, hydration, fetched, queue, snapshot,
                       lost, reloads>>,
           applied' \in SUBSET Ids, acked' \in SUBSET Ids, online' \in BOOLEAN
    PROVE  RetryInv'
<1>1. \A g \in Flushers : g # f => run'[g] = run[g]
  BY DEF RetryInv, TypeOK
<1>2. /\ run'[f].at = s /\ run'[f].row = run[f].row
      /\ run'[f].todo = run[f].todo
      /\ run'[f].remaining = run[f].remaining
  BY DEF RetryInv, TypeOK
<1>3. TypeOK'
  BY <1>2 DEF RetryInv, TypeOK
<1>4. Held' \subseteq Held
  BY <1>1, <1>2 DEF Held
<1>5. \A g \in Flushers : \A q \in run'[g].remaining : Live(q)
  BY <1>1, <1>2 DEF RetryInv, RowsOK
<1>6. FlushHasRow'
  BY <1>1, <1>2 DEF RetryInv, FlushHasRow
<1> QED BY <1>3, <1>4, <1>5, <1>6, HeldShrinks

\* What the server and the network answer changes no row.
LEMMA RetryAnswer ==
    ASSUME RetryInv, NEW f \in Flushers,
           ServerExecutes(f) \/ FlushReply(f) \/ FlushError(f)
    PROVE  RetryInv'
<1>1. run[f].at \in {"inflight", "executed"}
  BY DEF ServerExecutes, FlushReply, FlushError
<1>2. run[f].row.id \in Ids
  BY <1>1 DEF RetryInv, FlushHasRow, Row
<1>3. CASE ServerExecutes(f)
  BY <1>1, <1>2, <1>3, RetryStage DEF ServerExecutes, RetryInv, TypeOK, Stage
<1>4. CASE FlushReply(f)
  BY <1>1, <1>2, <1>4, RetryStage DEF FlushReply, RetryInv, TypeOK, Stage
<1>5. CASE FlushError(f)
  BY <1>1, <1>5, RetryStage DEF FlushError, RetryInv, TypeOK, Stage
<1> QED BY <1>3, <1>4, <1>5

\* A flush is done with its row: whatever became of the row in the store, the
\* flush goes on without it.
LEMMA RetryRowDone ==
    ASSUME RetryInv, NEW f \in Flushers, NEW rest \in SUBSET Row,
           run' = [run EXCEPT ![f].at = "pick", ![f].row = NoRow,
                              ![f].remaining = rest],
           \A r \in rest : Live(r),
           UNCHANGED <<rows, puts, hydration, fetched, queue, snapshot, applied,
                       acked, lost, online, reloads>>,
           store' \in SUBSET Row,
           \A r \in store' : Consistent(r) /\ r.id <= rows,
           Agree(store' \cup puts),
           \A r \in store', q \in Held :
               r.id = q.id => r.attempts <= q.attempts + 1,
           hydration = "done"
    PROVE  RetryInv'
<1>1. \A g \in Flushers : g # f => run'[g] = run[g]
  BY DEF RetryInv, TypeOK
<1>2. /\ run'[f].at = "pick" /\ run'[f].row = NoRow
      /\ run'[f].todo = run[f].todo
      /\ run'[f].remaining = rest
  BY DEF RetryInv, TypeOK
<1>3. TypeOK'
  BY <1>2 DEF RetryInv, TypeOK, Stage
<1>4. Held' \subseteq Held
  BY <1>1, <1>2, NoRowAssumption DEF Held, Row, Ids
<1>5. RowsOK'
  BY <1>1, <1>2, <1>4 DEF RetryInv, RowsOK, Live, Consistent
<1>6. FlushHasRow'
  BY <1>1, <1>2 DEF RetryInv, FlushHasRow
<1>7. OneAhead' /\ BeforeFlush'
  BY <1>4 DEF RetryInv, OneAhead, BeforeFlush, Agree
<1> QED BY <1>3, <1>5, <1>6, <1>7 DEF RetryInv

\* Only after the hydration does a flush hold a row.
LEMMA HeldRow ==
    ASSUME RetryInv, NEW f \in Flushers, run[f].at \in {"ok", "error"}
    PROVE  run[f].row \in Held /\ run[f].row \in Row /\ hydration = "done"
BY DEF RetryInv, FlushHasRow, BeforeFlush, Held

\* Deleting a row leaves the versions of the others alone.
LEMMA RetryFlushDelete ==
    ASSUME RetryInv, NEW f \in Flushers, FlushDelete(f)
    PROVE  RetryInv'
<1>1. hydration = "done"
  BY HeldRow DEF FlushDelete
<1>2. store' \subseteq store
  BY DEF FlushDelete
<1>3. /\ run[f].remaining \in SUBSET Row /\ \A r \in run[f].remaining : Live(r)
      /\ run' = [run EXCEPT ![f].at = "pick", ![f].row = NoRow,
                            ![f].remaining = run[f].remaining]
  BY DEF FlushDelete, RetryInv, TypeOK, RowsOK
<1>4. /\ store' \in SUBSET Row
      /\ \A r \in store' : Consistent(r) /\ r.id <= rows
      /\ Agree(store' \cup puts)
      /\ \A r \in store', q \in Held :
             r.id = q.id => r.attempts <= q.attempts + 1
  BY <1>2 DEF RetryInv, TypeOK, RowsOK, OneAhead, Agree
<1> QED BY <1>1, <1>3, <1>4, RetryRowDone DEF FlushDelete

\* The new version is one attempt ahead of the one the flush holds, and so of
\* every version a flush holds.
LEMMA RetryFlushRetry ==
    ASSUME RetryInv, NEW f \in Flushers, FlushRetry(f)
    PROVE  RetryInv'
<1> DEFINE row == run[f].row
           next == Retried(row)
           rest == IF next.failed THEN run[f].remaining
                                  ELSE run[f].remaining \cup {next}
<1>1. row \in Held /\ row \in Row /\ hydration = "done" /\ Live(row)
  BY HeldRow DEF FlushRetry, RetryInv, RowsOK
<1>2. /\ next \in Row /\ next.id = row.id
      /\ next.attempts = row.attempts + 1 /\ Consistent(next)
  BY <1>1, RetriedRow
<1>3. /\ store' = Put(store, next)
      /\ run' = [run EXCEPT ![f].at = "pick", ![f].row = NoRow,
                            ![f].remaining = rest]
      /\ UNCHANGED <<rows, puts, hydration, fetched, queue, snapshot, applied,
                     acked, lost, online, reloads>>
      /\ \A r \in puts : r.id # row.id
  BY DEF FlushRetry, IdsOf
<1>4. row.attempts \in Nat
  BY <1>1 DEF Row
<1> HIDE DEF row, next
<1>5. rest \in SUBSET Row /\ \A r \in rest : Live(r)
  <2>1. ~next.failed => Live(next)
    BY <1>2, <1>4, BoundAssumption DEF Consistent, Live
  <2> QED BY <1>2, <2>1 DEF RetryInv, TypeOK, RowsOK
<1> HIDE DEF rest
<1>6. \A r \in store' : r = next \/ (r \in store /\ r.id # next.id)
  BY <1>3 DEF Put
<1>7. store' \in SUBSET Row
  BY <1>2, <1>6 DEF RetryInv, TypeOK
<1>8. \A r \in store' : Consistent(r) /\ r.id <= rows
  BY <1>1, <1>2, <1>6 DEF RetryInv, RowsOK
<1>9. Agree(store' \cup puts)
  BY <1>2, <1>3, <1>6 DEF RetryInv, OneAhead, Agree
<1>10. \A r \in store', q \in Held : r.id = q.id => r.attempts <= q.attempts + 1
  <2>1. \A q \in Held : q.id = row.id => q.attempts = row.attempts
    BY <1>1 DEF RetryInv, OneAhead, Agree
  <2> QED BY <1>2, <1>4, <1>6, <2>1 DEF RetryInv, OneAhead
<1> QED BY <1>1, <1>3, <1>5, <1>7, <1>8, <1>9, <1>10, RetryRowDone

\* The snapshot gets the rows that remain, none of them spent.
LEMMA RetryFlushEnd ==
    ASSUME RetryInv, NEW f \in Flushers, FlushEnd(f)
    PROVE  RetryInv'
<1>1. \A g \in Flushers : g # f => run'[g] = run[g]
  BY DEF FlushEnd
<1>2. run'[f] = Off /\ NoRow \notin Row
  BY NoRowAssumption DEF FlushEnd, RetryInv, TypeOK, Row, Ids
<1>3. \A r \in snapshot' : r \in run[f].remaining
  BY KeptRows DEF FlushEnd
<1>4. TypeOK'
  <2>1. snapshot' \in SUBSET Row
    BY <1>3 DEF RetryInv, TypeOK
  <2>2. Off \in [at : Stage, todo : SUBSET Row, row : Row \cup {NoRow},
                remaining : SUBSET Row]
    BY DEF Off, Stage
  <2> QED BY <2>1, <2>2 DEF FlushEnd, RetryInv, TypeOK
<1>5. Held' \subseteq Held
  BY <1>1, <1>2 DEF FlushEnd, Held, Off
<1>6. RowsOK'
  BY <1>1, <1>2, <1>3, <1>5
  DEF FlushEnd, RetryInv, RowsOK, Live, Consistent, Off
<1>7. FlushHasRow'
  BY <1>1, <1>2 DEF FlushEnd, RetryInv, FlushHasRow, Off
<1>8. OneAhead' /\ BeforeFlush'
  <2>1. hydration = "done"
    BY DEF FlushEnd, RetryInv, FlushHasRow
  <2> QED
    BY <1>5, <2>1 DEF FlushEnd, RetryInv, OneAhead, BeforeFlush, Agree
<1> QED BY <1>4, <1>6, <1>7, <1>8 DEF RetryInv

\* What a row is to the invariant does not change when a backoff ends.
LEMMA RetryBackoffEnds == RetryInv /\ BackoffEnds => RetryInv'
<1> SUFFICES ASSUME RetryInv, BackoffEnds PROVE RetryInv'
  OBVIOUS
<1> DEFINE Version(q, r) == /\ q.id = r.id /\ q.attempts = r.attempts
                            /\ q.failed = r.failed
<1>1. /\ store' \subseteq Row
      /\ \A q \in store' : \E r \in store : Version(q, r)
      /\ queue' \subseteq Row
      /\ \A q \in queue' : \E r \in queue : Version(q, r)
      /\ fetched' \subseteq Row
      /\ \A q \in fetched' : \E r \in fetched : Version(q, r)
      /\ snapshot' \subseteq Row
      /\ \A q \in snapshot' : \E r \in snapshot : Version(q, r)
  BY AwakeRows DEF BackoffEnds, RetryInv, TypeOK
<1>2. \A f \in Flushers :
         /\ run'[f].at = run[f].at /\ run'[f].row = run[f].row
         /\ run'[f].todo = run[f].todo
         /\ run'[f].remaining \subseteq Row
         /\ \A q \in run'[f].remaining :
                \E r \in run[f].remaining : Version(q, r)
  BY AwakeRows DEF BackoffEnds, RetryInv, TypeOK
<1>3. \A q \in Held' : \E r \in Held : Version(q, r)
  BY <1>1, <1>2 DEF Held, RetryInv, TypeOK
<1>4. TypeOK'
  <2>1. run' \in [Flushers -> [at : Stage, todo : SUBSET Row,
                              row : Row \cup {NoRow}, remaining : SUBSET Row]]
    <3>1. \A f \in Flushers : Awake(run[f].remaining) \in SUBSET Row
      BY AwakeRows DEF RetryInv, TypeOK
    <3> QED BY <3>1 DEF BackoffEnds, RetryInv, TypeOK
  <2> QED BY <1>1, <2>1 DEF BackoffEnds, RetryInv, TypeOK
<1>5. RowsOK'
  BY <1>1, <1>2, <1>3 DEF BackoffEnds, RetryInv, RowsOK, Live, Consistent
<1>6. FlushHasRow'
  BY <1>2 DEF BackoffEnds, RetryInv, FlushHasRow
<1>7. OneAhead'
  <2>1. \A q \in (store \cup puts)' : \E r \in store \cup puts : Version(q, r)
    BY <1>1 DEF BackoffEnds
  <2> QED BY <1>1, <1>3, <2>1 DEF RetryInv, OneAhead, Agree
<1>8. BeforeFlush'
  <2>1. \A q \in (store \cup puts \cup fetched \cup snapshot)' :
           \E r \in store \cup puts \cup fetched \cup snapshot : Version(q, r)
    BY <1>1 DEF BackoffEnds
  <2> QED BY <1>1, <1>3, <2>1 DEF BackoffEnds, RetryInv, BeforeFlush, Agree
<1> QED BY <1>4, <1>5, <1>6, <1>7, <1>8 DEF RetryInv

\* A reload leaves nothing but the store.
LEMMA RetryReload == RetryInv /\ Reload => RetryInv'
<1> SUFFICES ASSUME RetryInv, Reload PROVE RetryInv'
  OBVIOUS
<1>1. Held' = {} /\ \A f \in Flushers : run'[f] = Off
  BY NoRowAssumption DEF Reload, Held, Off, Row, Ids
<1>2. TypeOK'
  <2>1. Off \in [at : Stage, todo : SUBSET Row, row : Row \cup {NoRow},
                remaining : SUBSET Row]
    BY DEF Off, Stage
  <2>2. IdsOf(puts) \subseteq Ids
    BY DEF RetryInv, TypeOK, IdsOf, Row
  <2>3. reloads' \in 0..MaxReloads
    BY BoundAssumption DEF Reload, RetryInv, TypeOK
  <2> QED BY <2>1, <2>2, <2>3 DEF Reload, RetryInv, TypeOK
<1>3. RowsOK' /\ FlushHasRow'
  BY <1>1 DEF Reload, RetryInv, RowsOK, FlushHasRow, Live, Consistent, Off
<1>4. OneAhead' /\ BeforeFlush'
  BY <1>1 DEF Reload, RetryInv, OneAhead, BeforeFlush, Agree
<1> QED BY <1>2, <1>3, <1>4 DEF RetryInv

\* Every step keeps the invariant: one case per action.
LEMMA RetryNext == RetryInv /\ [Next]_vars => RetryInv'
<1> SUFFICES ASSUME RetryInv, [Next]_vars PROVE RetryInv'
  OBVIOUS
<1>1. CASE Hydrate
  BY <1>1, RetryHydrateRead, RetryHydrateMerge, RetryHydrateDone DEF Hydrate
<1>2. CASE \E k \in Keys : QueueRequest(k)
  BY <1>2, RetryQueueRequest
<1>3. CASE \E r \in puts : PutLands(r)
  BY <1>3, RetryPutLands
<1>4. ASSUME NEW f \in Flushers, FlushStart(f) \/ FlushStep(f)
      PROVE  RetryInv'
  BY <1>4, RetryFlushStart, RetryFlushSend, RetryAnswer, RetryFlushDelete,
     RetryFlushRetry, RetryFlushEnd DEF FlushStep
<1>5. CASE BackoffEnds
  BY <1>5, RetryBackoffEnds
<1>6. CASE Network
  BY <1>6 DEF Network, RetryInv, TypeOK, RowsOK, FlushHasRow, OneAhead,
          BeforeFlush, Held, Agree, Live, Consistent
<1>7. CASE Reload
  BY <1>7, RetryReload
<1>8. CASE UNCHANGED vars
  BY <1>8 DEF vars, RetryInv, TypeOK, RowsOK, FlushHasRow, OneAhead,
          BeforeFlush, Held, Agree, Live, Consistent
<1> QED BY <1>1, <1>2, <1>3, <1>4, <1>5, <1>6, <1>7, <1>8 DEF Next

\* The invariant holds in every reachable state.
LEMMA RetryInvariant == Spec => []RetryInv
BY RetryInit, RetryNext, PTL DEF Spec

-----------------------------------------------------------------------------
(* The theorems.                                                            *)

\* Types are kept: in particular no row is ever stored with more attempts than
\* MAX_OFFLINE_RETRY_ATTEMPTS, however many flushes overlap.
THEOREM RetryTypeCorrect == Spec => []TypeOK
<1>1. RetryInv => TypeOK
  BY DEF RetryInv
<1> QED BY <1>1, RetryInvariant, PTL

\* In one page, the attempts and the failure mark of a stored row never go
\* back, although overlapping flushes write versions made from an array as old
\* as the page.
THEOREM RetriesKept == Spec => RetriesNeverRegress
<1> DEFINE Forward == \A r \in store, q \in store' :
               q.id = r.id => q.attempts >= r.attempts /\ (r.failed => q.failed)
<1>1. RetryInv /\ RetryInv' /\ [Next]_vars => [Forward]_vars
  <2> SUFFICES ASSUME RetryInv, RetryInv', Next, NEW r \in store,
                      NEW q \in store', q.id = r.id
               PROVE  q.attempts >= r.attempts
    <3>1. ASSUME RetryInv, RetryInv'
          PROVE  \A r \in store, q \in store' :
                     q.attempts >= r.attempts => (r.failed => q.failed)
      BY <3>1, BoundAssumption DEF RetryInv, TypeOK, RowsOK, Consistent, Row
    <3> QED BY <3>1
  <2>1. r.attempts \in Nat /\ q.attempts \in Nat
    BY DEF RetryInv, TypeOK, Row
  <2>2. q \in store => q.attempts >= r.attempts
    BY <2>1 DEF RetryInv, OneAhead, Agree
  <2>3. CASE \E p \in puts : PutLands(p)
    BY <2>1, <2>2, <2>3 DEF PutLands, Put, RetryInv, OneAhead, Agree
  <2>4. ASSUME NEW f \in Flushers, FlushRetry(f)
        PROVE  q.attempts >= r.attempts
    <3>1. run[f].row \in Held /\ run[f].row \in Row /\ Live(run[f].row)
      BY <2>4, HeldRow DEF FlushRetry, RetryInv, RowsOK
    <3>2. /\ Retried(run[f].row).id = run[f].row.id
          /\ Retried(run[f].row).attempts = run[f].row.attempts + 1
      BY <3>1, RetriedRow
    <3>3. q \in store \/ q = Retried(run[f].row)
      BY <2>4 DEF FlushRetry, Put
    <3>4. CASE q = Retried(run[f].row)
      BY <3>1, <3>2, <3>4 DEF RetryInv, OneAhead
    <3> QED BY <2>2, <3>3, <3>4
  <2>5. CASE BackoffEnds
    <3>1. PICK p \in store : p.id = q.id /\ p.attempts = q.attempts
      BY <2>5, AwakeRows DEF BackoffEnds, RetryInv, TypeOK
    <3> QED BY <2>1, <3>1 DEF RetryInv, OneAhead, Agree
  <2>6. CASE store' \subseteq store
    BY <2>2, <2>6
  <2> QED
    BY <2>3, <2>4, <2>5, <2>6
    DEF Next, Hydrate, HydrateRead, HydrateMerge, HydrateDone, QueueRequest,
        FlushStart, FlushStep, FlushSend, ServerExecutes, FlushReply,
        FlushError, FlushDelete, FlushEnd, Network, Reload
<1>2. Spec => [][Forward]_vars
  BY <1>1, RetryInvariant, PTL DEF Spec
<1> QED BY <1>2 DEF RetriesNeverRegress

\* A flush deletes the row of a request that succeeded, and no other.
DurableInv ==
    /\ DurableUntilAcked
    /\ \A f \in Flushers : run[f].at = "ok" => run[f].row.id \in acked

\* A step that queues nothing is harmless when a row that leaves the store and
\* the puts is acknowledged or lost.
LEMMA DurableStep ==
    ASSUME DurableInv, UNCHANGED rows,
           acked \subseteq acked', lost \subseteq lost',
           IdsOf(store) \cup IdsOf(puts)
               \subseteq IdsOf(store') \cup IdsOf(puts') \cup acked' \cup lost',
           \A f \in Flushers :
               run'[f].at = "ok" => run'[f].row.id \in acked'
    PROVE  DurableInv'
BY DEF DurableInv, DurableUntilAcked

\* A step of a flush deletes no row but the one it has seen acknowledged.
LEMMA DurableFlush ==
    ASSUME RetryInv, DurableInv, NEW f \in Flushers,
           FlushStart(f) \/ FlushStep(f)
    PROVE  DurableInv'
<1>1. \A g \in Flushers : g # f => run'[g] = run[g]
  BY DEF RetryInv, TypeOK, FlushStep, FlushStart, FlushSend, ServerExecutes,
         FlushReply, FlushError, FlushDelete, FlushRetry, FlushEnd
<1>2. UNCHANGED <<rows, puts, lost>> /\ acked \subseteq acked'
  BY DEF FlushStep, FlushStart, FlushSend, ServerExecutes,
         FlushReply, FlushError, FlushDelete, FlushRetry, FlushEnd
<1>3. run'[f].at = "ok" => run'[f].row.id \in acked'
  BY DEF RetryInv, TypeOK, FlushStep, FlushStart, FlushSend, ServerExecutes,
         FlushReply, FlushError, FlushDelete, FlushRetry, FlushEnd, Off
<1>4. IdsOf(store) \subseteq IdsOf(store') \cup acked'
  <2>1. CASE FlushDelete(f)
    <3>1. run[f].row.id \in acked /\ acked' = acked
      BY <2>1 DEF FlushDelete, DurableInv
    <3>2. store' = {r \in store : r.id # run[f].row.id}
      BY <2>1 DEF FlushDelete
    <3> QED BY <3>1, <3>2 DEF IdsOf
  <2>2. CASE FlushRetry(f)
    <3>1. Retried(run[f].row).id = run[f].row.id
      BY <2>2, HeldRow, RetriedRow DEF FlushRetry, RetryInv, RowsOK
    <3>2. store' = Put(store, Retried(run[f].row))
      BY <2>2 DEF FlushRetry
    <3> QED BY <3>1, <3>2 DEF Put, IdsOf
  <2>3. CASE UNCHANGED store
    BY <2>3
  <2> QED
    BY <2>1, <2>2, <2>3
    DEF FlushStep, FlushStart, FlushSend, ServerExecutes, FlushReply,
        FlushError, FlushEnd
<1>5. \A g \in Flushers : run'[g].at = "ok" => run'[g].row.id \in acked'
  BY <1>1, <1>2, <1>3 DEF DurableInv
<1> QED BY <1>2, <1>4, <1>5, DurableStep

\* A queued write is stored, or on its way into the store, until it is
\* acknowledged; only the put a reload cuts short is lost.
THEOREM Durable == Spec => []DurableUntilAcked
<1>1. Init => DurableInv
  BY DEF Init, DurableInv, DurableUntilAcked, Off
<1>2. RetryInv /\ DurableInv /\ [Next]_vars => DurableInv'
  <2> SUFFICES ASSUME RetryInv, DurableInv, [Next]_vars PROVE DurableInv'
    OBVIOUS
  <2>1. rows \in Nat
    BY DEF RetryInv, TypeOK
  <2>2. CASE \E k \in Keys : QueueRequest(k)
    <3>1. \A i \in 1..rows' : i \in 1..rows \/ i = rows + 1
      BY <2>1, <2>2 DEF QueueRequest
    <3>2. IdsOf(puts) \subseteq IdsOf(puts') /\ rows + 1 \in IdsOf(puts')
      BY <2>2 DEF QueueRequest, IdsOf
    <3> QED BY <2>2, <3>1, <3>2
            DEF QueueRequest, DurableInv, DurableUntilAcked
  <2>3. CASE \E r \in puts : PutLands(r)
    <3>1. IdsOf(store) \cup IdsOf(puts)
              \subseteq IdsOf(store') \cup IdsOf(puts')
      BY <2>3 DEF PutLands, Put, IdsOf
    <3> QED BY <2>3, <3>1, DurableStep DEF PutLands, DurableInv
  <2>4. ASSUME NEW f \in Flushers, FlushStart(f) \/ FlushStep(f)
        PROVE  DurableInv'
    BY <2>4, DurableFlush
  <2>5. CASE BackoffEnds
    <3>1. IdsOf(store) \subseteq IdsOf(store')
      BY <2>5, AwakeRows DEF BackoffEnds, IdsOf, RetryInv, TypeOK
    <3>2. \A f \in Flushers : run'[f].at = run[f].at /\ run'[f].row = run[f].row
      BY <2>5 DEF BackoffEnds, RetryInv, TypeOK
    <3>3. UNCHANGED <<rows, puts, acked, lost>>
      BY <2>5 DEF BackoffEnds
    <3> QED BY <3>1, <3>2, <3>3, DurableStep DEF DurableInv
  <2>6. CASE Reload
    <3>1. \A f \in Flushers : run'[f].at # "ok"
      BY <2>6 DEF Reload, Off
    <3>2. /\ UNCHANGED <<rows, store, acked>> /\ puts' = {}
          /\ lost' = lost \cup IdsOf(puts)
      BY <2>6 DEF Reload
    <3>3. IdsOf(store) = IdsOf(store')
      BY <3>2
    <3> QED BY <3>1, <3>2, <3>3, DurableStep
  <2>7. CASE UNCHANGED <<rows, store, puts, run, acked, lost>>
    BY <2>7 DEF DurableInv, DurableUntilAcked
  <2> QED
    BY <2>2, <2>3, <2>4, <2>5, <2>6, <2>7
    DEF Next, Hydrate, HydrateRead, HydrateMerge, HydrateDone, Network, vars
<1>3. DurableInv => DurableUntilAcked
  BY DEF DurableInv
<1> QED BY <1>1, <1>2, <1>3, RetryInvariant, PTL DEF Spec
=============================================================================
