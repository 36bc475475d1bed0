------------------------- MODULE UnitOfWork_proofs --------------------------
(***************************************************************************)
(* Proofs about UnitOfWork, for any number of workers and any tables: what *)
(* a commit does to a table, row by row, and what each step of a request   *)
(* does to the batches that are open.  The models of the handlers rest on  *)
(* these lemmas and need not look into a commit again.                     *)
(***************************************************************************)
EXTENDS UnitOfWork, TLAPS

-----------------------------------------------------------------------------
(* Writes.                                                                  *)

\* The columns set are as given, the others as they were.
LEMMA OverlayColumns ==
    ASSUME NEW cols, NEW row
    PROVE  /\ DOMAIN Overlay(cols, row) = DOMAIN cols \cup DOMAIN row
           /\ \A c \in DOMAIN cols : Overlay(cols, row)[c] = cols[c]
           /\ \A c \in DOMAIN row \ DOMAIN cols : Overlay(cols, row)[c] = row[c]
BY DEF Overlay

\* An update names the row and the columns.
LEMMA UpdateWrites ==
    ASSUME NEW t, NEW i, NEW cols, "id" \notin DOMAIN cols
    PROVE  /\ Update(t, i, cols).op = "update"
           /\ Update(t, i, cols).on = t
           /\ Update(t, i, cols).key = {}
           /\ DOMAIN Update(t, i, cols).row = {"id"} \cup DOMAIN cols
           /\ Update(t, i, cols).row.id = i
           /\ Update(t, i, cols).row["id"] = i
           /\ \A c \in DOMAIN cols : Update(t, i, cols).row[c] = cols[c]
BY DEF Update, Overlay

\* An edit is at most one update, of some of the columns it was given.
LEMMA EditWrites ==
    ASSUME NEW t, NEW row, NEW cols, "id" \notin DOMAIN cols, NEW w \in Edit(t, row, cols)
    PROVE  /\ w.op = "update" /\ w.on = t /\ w.key = {}
           /\ w.row.id = row.id
           /\ "id" \in DOMAIN w.row
           /\ DOMAIN w.row \subseteq {"id"} \cup DOMAIN cols
           /\ \A c \in DOMAIN w.row \ {"id"} : w.row[c] = cols[c]
<1> DEFINE changed == {c \in DOMAIN cols : cols[c] # row[c]}
           set == [c \in changed |-> cols[c]]
<1>1. w = Update(t, row.id, set)
  BY DEF Edit
<1>2. DOMAIN set = changed /\ changed \subseteq DOMAIN cols
  OBVIOUS
<1> HIDE DEF changed
<1> QED BY <1>1, <1>2, UpdateWrites

\* A column that differs is written.
LEMMA EditChanges ==
    ASSUME NEW t, NEW row, NEW cols, "id" \notin DOMAIN cols,
           NEW c \in DOMAIN cols, cols[c] # row[c]
    PROVE  \E w \in Edit(t, row, cols) : c \in DOMAIN w.row
<1> DEFINE changed == {d \in DOMAIN cols : cols[d] # row[d]}
           set == [d \in changed |-> cols[d]]
<1>1. c \in changed
  OBVIOUS
<1>2. Edit(t, row, cols) = {Update(t, row.id, set)}
  BY <1>1 DEF Edit
<1>3. DOMAIN set = changed /\ changed \subseteq DOMAIN cols
  OBVIOUS
<1> HIDE DEF changed
<1> QED BY <1>1, <1>2, <1>3, UpdateWrites

-----------------------------------------------------------------------------
(* What a commit leaves in a table.                                         *)

\* A row of a table after the batch is one the batch inserted, one that it
\* did not touch, or one that it changed.
LEMMA WrittenRows ==
    ASSUME NEW t, NEW batch, NEW r \in Written(t, batch)
    PROVE  \/ \E w \in batch : /\ w.on = t /\ w.op = "insert"
                               /\ r = Overlay(w.row, [born |-> served])
           \/ /\ r \in store[t] /\ r.id \notin Gone(t, batch)
              /\ \A w \in batch : ~(w.on = t /\ w.row.id = r.id /\ w.op \in {"update", "patch"})
           \/ \E s \in store[t], w \in batch :
                 /\ w.on = t /\ w.op \in {"update", "patch"}
                 /\ w.row.id = s.id /\ s.id \notin Gone(t, batch)
                 /\ r = Overlay(w.row, s)
BY DEF Written

\* Every table after the batch is what it was or what the batch left.
LEMMA StoredTables ==
    ASSUME NEW t \in Tables, NEW batch
    PROVE  /\ Stored(batch)[t] \in {store[t], Written(t, batch)}
           /\ (\E w \in batch : w.on = t) => Stored(batch)[t] = Written(t, batch)
BY DEF Stored

\* The three ways a row can be in a table after a commit.
LEMMA CommittedRows ==
    ASSUME NEW batch, store' = Stored(batch), NEW t \in Tables, NEW r \in store'[t]
    PROVE  \/ \E w \in batch : /\ w.on = t /\ w.op = "insert"
                               /\ r = Overlay(w.row, [born |-> served])
           \/ /\ r \in store[t] /\ r.id \notin Gone(t, batch)
              /\ \A w \in batch : ~(w.on = t /\ w.row.id = r.id /\ w.op \in {"update", "patch"})
           \/ \E s \in store[t], w \in batch :
                 /\ w.on = t /\ w.op \in {"update", "patch"}
                 /\ w.row.id = s.id /\ s.id \notin Gone(t, batch)
                 /\ r = Overlay(w.row, s)
<1>1. CASE r \in Written(t, batch)
  BY <1>1, WrittenRows
<1>2. CASE r \notin Written(t, batch)
  <2>1. r \in store[t] /\ \A w \in batch : w.on # t /\ w.op # "delete"
    BY <1>2 DEF Stored
  <2> QED BY <2>1 DEF Gone
<1> QED BY <1>1, <1>2

\* A row that a batch neither deletes nor changes, and that refers to no other,
\* is still there after it.
LEMMA CommitKeeps ==
    ASSUME NEW batch, store' = Stored(batch), NEW t \in Tables, NEW r \in store[t],
           References(r) = {},
           \A w \in batch : w.on # t \/ w.op \notin {"update", "patch", "delete"}
    PROVE  r \in store'[t]
<1>1. r \in Written(t, batch)
  BY DEF Written, Gone
<1> QED BY <1>1 DEF Stored

\* A table that no write of the batch is on, and whose rows refer to no other,
\* is the same after it.
LEMMA CommitSpares ==
    ASSUME NEW batch, store' = Stored(batch), NEW t \in Tables,
           \A w \in batch : w.on # t
    PROVE  store'[t] \subseteq store[t]
<1>1. SUFFICES ASSUME NEW r \in Written(t, batch) PROVE r \in store[t]
  BY StoredTables
<1> QED BY WrittenRows

-----------------------------------------------------------------------------
(* The batches that are open, and what each step does to them.              *)

Batches(p) == {tx[p][i] : i \in DOMAIN tx[p]}
Open == UNION {Batches(p) : p \in Workers}

\* The shape of the state that every step keeps.
UnitInv ==
    /\ served \in Nat
    /\ store = [t \in Tables |-> store[t]]
    /\ tx = [p \in Workers |-> tx[p]]
    /\ \A p \in Workers : \E S : tx[p] \in Seq(S)

\* A request begins: its batches are the only new ones.
LEMMA BeginOpens ==
    ASSUME UnitInv, NEW p \in Workers, NEW batches, Begin(p, batches),
           \E S : batches \in Seq(S)
    PROVE  /\ UnitInv'
           /\ tx'[p] = batches
           /\ \A q \in Workers \ {p} : tx'[q] = tx[q]
           /\ Open' \subseteq Open \cup {batches[i] : i \in DOMAIN batches}
<1>1. tx'[p] = batches /\ \A q \in Workers \ {p} : tx'[q] = tx[q]
  BY DEF Begin, UnitInv
<1>2. tx' = [q \in Workers |-> tx'[q]]
  BY DEF Begin, UnitInv
<1>3. UnitInv'
  BY <1>1, <1>2 DEF Begin, Self, UnitInv
<1>4. /\ Batches(p)' = {batches[i] : i \in DOMAIN batches}
      /\ \A q \in Workers \ {p} : Batches(q)' = Batches(q)
  BY <1>1 DEF Batches
<1> QED BY <1>1, <1>3, <1>4 DEF Open

\* A commit closes the first batch of the worker.
LEMMA CommitCloses ==
    ASSUME UnitInv, NEW p \in Workers, Commit(p)
    PROVE  /\ UnitInv'
           /\ 1 \in DOMAIN tx[p]
           /\ Head(tx[p]) = tx[p][1]
           /\ tx[p][1] \in Open
           /\ tx'[p] = Tail(tx[p])
           /\ \A i \in DOMAIN tx'[p] : i + 1 \in DOMAIN tx[p] /\ tx'[p][i] = tx[p][i + 1]
           /\ \A q \in Workers \ {p} : tx'[q] = tx[q]
           /\ Open' \subseteq Open
<1>1. PICK S : tx[p] \in Seq(S)
  BY DEF UnitInv
<1>2. tx[p] # <<>>
  BY DEF Commit
<1>3. tx' = [tx EXCEPT ![p] = Tail(@)]
  BY DEF Commit
<1>4. /\ 1 \in DOMAIN tx[p]
      /\ Head(tx[p]) = tx[p][1]
      /\ Tail(tx[p]) \in Seq(S)
      /\ \A i \in DOMAIN Tail(tx[p]) : i + 1 \in DOMAIN tx[p] /\ Tail(tx[p])[i] = tx[p][i + 1]
  BY <1>1, <1>2
<1>5. tx'[p] = Tail(tx[p]) /\ \A q \in Workers \ {p} : tx'[q] = tx[q]
  BY <1>3 DEF UnitInv
<1>6. tx' = [q \in Workers |-> tx'[q]]
  BY <1>3 DEF UnitInv
<1>7. store' = [t \in Tables |-> store'[t]] /\ served' \in Nat
  BY DEF Commit, Stored, UnitInv
<1>8. UnitInv'
  <2>1. \A q \in Workers : \E T : tx'[q] \in Seq(T)
    <3> SUFFICES ASSUME NEW q \in Workers PROVE \E T : tx'[q] \in Seq(T)
      OBVIOUS
    <3>1. CASE q = p
      BY <1>4, <1>5, <3>1
    <3>2. CASE q # p
      BY <1>5, <3>2 DEF UnitInv
    <3> QED BY <3>1, <3>2
  <2> QED BY <1>6, <1>7, <2>1 DEF UnitInv
<1>9. Batches(p)' \subseteq Batches(p) /\ \A q \in Workers \ {p} : Batches(q)' = Batches(q)
  BY <1>4, <1>5 DEF Batches
<1>10. Open' \subseteq Open
  BY <1>9 DEF Open
<1>11. tx[p][1] \in Open
  BY <1>4 DEF Open, Batches
<1> QED BY <1>4, <1>5, <1>8, <1>10, <1>11

\* A rollback closes every batch of the worker.
LEMMA AbandonCloses ==
    ASSUME UnitInv, NEW p \in Workers, Abandon(p)
    PROVE  /\ UnitInv'
           /\ tx'[p] = <<>>
           /\ \A q \in Workers \ {p} : tx'[q] = tx[q]
           /\ Open' \subseteq Open
<1>1. tx'[p] = <<>> /\ \A q \in Workers \ {p} : tx'[q] = tx[q]
  BY DEF Abandon, UnitInv
<1>2. tx' = [q \in Workers |-> tx'[q]]
  BY DEF Abandon, UnitInv
<1>3. UnitInv'
  BY <1>1, <1>2 DEF Abandon, UnitInv
<1>4. Batches(p)' = {} /\ \A q \in Workers \ {p} : Batches(q)' = Batches(q)
  BY <1>1 DEF Batches
<1> QED BY <1>1, <1>3, <1>4 DEF Open

\* A step of the handler that reads again replaces the first batch.
LEMMA ResolveOpens ==
    ASSUME UnitInv, NEW p \in Workers, NEW batches, Resolve(p, batches), tx[p] # <<>>,
           \E S : batches \in Seq(S)
    PROVE  /\ UnitInv'
           /\ tx'[p] = batches \o Tail(tx[p])
           /\ \A q \in Workers \ {p} : tx'[q] = tx[q]
           /\ Open' \subseteq Open \cup {batches[i] : i \in DOMAIN batches}
<1>1. PICK S : tx[p] \in Seq(S)
  BY DEF UnitInv
<1>2. PICK R : batches \in Seq(R)
  OBVIOUS
<1>3. tx'[p] = batches \o Tail(tx[p]) /\ \A q \in Workers \ {p} : tx'[q] = tx[q]
  BY DEF Resolve, UnitInv
<1>4. tx' = [q \in Workers |-> tx'[q]]
  BY DEF Resolve, UnitInv
<1>5. /\ Tail(tx[p]) \in Seq(S)
      /\ \A i \in DOMAIN Tail(tx[p]) : i + 1 \in DOMAIN tx[p] /\ Tail(tx[p])[i] = tx[p][i + 1]
  BY <1>1
<1>6. tx'[p] \in Seq(R \cup S)
  <2>1. batches \in Seq(R \cup S) /\ Tail(tx[p]) \in Seq(R \cup S)
    BY <1>2, <1>5
  <2> QED BY <2>1, <1>3
<1>7. UnitInv'
  BY <1>3, <1>4, <1>6 DEF Resolve, UnitInv
<1>8. \A i \in DOMAIN tx'[p] :
          tx'[p][i] \in {batches[j] : j \in DOMAIN batches} \cup Batches(p)
  <2> SUFFICES ASSUME NEW i \in DOMAIN tx'[p]
               PROVE  tx'[p][i] \in {batches[j] : j \in DOMAIN batches} \cup Batches(p)
    OBVIOUS
  <2>1. CASE i \in DOMAIN batches
    BY <1>2, <1>3, <1>5, <2>1
  <2>2. CASE i \notin DOMAIN batches
    <3>1. i - Len(batches) \in DOMAIN Tail(tx[p]) /\ tx'[p][i] = Tail(tx[p])[i - Len(batches)]
      BY <1>2, <1>3, <1>5, <2>2
    <3> QED BY <3>1, <1>5 DEF Batches
  <2> QED BY <2>1, <2>2
<1>9. Batches(p)' \subseteq {batches[j] : j \in DOMAIN batches} \cup Batches(p)
  BY <1>8 DEF Batches
<1>10. \A q \in Workers \ {p} : Batches(q)' = Batches(q)
  BY <1>3 DEF Batches
<1> QED BY <1>3, <1>7, <1>9, <1>10 DEF Open
=============================================================================
