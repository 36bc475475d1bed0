----------------------------- MODULE UnitOfWork -----------------------------
(***************************************************************************)
(* A request of the HTTP backend as a unit of work over the database: the  *)
(* handler reads the tables, decides, and leaves what it writes to one or  *)
(* more commits (database/connection.py, core/transaction.py).             *)
(*                                                                         *)
(* PostgreSQL runs the sessions under READ COMMITTED and the handlers take *)
(* no row locks, so what a handler has read may be old when it commits:    *)
(* Begin is everything up to the first commit, with the rows the handler   *)
(* saw, and Commit applies one batch of writes to the tables as they are   *)
(* then.  Calls of Redis and of the broker are batches of their own.       *)
(***************************************************************************)
EXTENDS Integers, Sequences, FiniteSets, TLC

CONSTANTS
    Workers,       \* requests that can be in flight at once
    Users,         \* accounts; every one of them exists
    Tables,        \* tables, Redis keyspaces and outgoing channels
    RefreshFlushes \* whether session.refresh writes what is pending first

ASSUME RequestAssumption == RefreshFlushes \subseteq BOOLEAN

VARIABLES
    store,         \* the rows of every table
    tx,            \* per worker, the batches its request has yet to commit
    served         \* requests begun so far

requestVars == <<store, tx, served>>

Self == served + 1      \* the id of the rows the next request inserts

-----------------------------------------------------------------------------
(* Writes.  A row knows the request that wrote it (id) and, stamped by the  *)
(* commit, how many requests had begun by then (born).  The key of a write  *)
(* is the set of the unique constraints it can break.                       *)

None == "none"          \* a NULL column
ASSUME UsersAssumption == None \notin Users

\* The row with the columns set over it.
Overlay(cols, row) == [c \in DOMAIN cols \cup DOMAIN row |->
                          IF c \in DOMAIN cols THEN cols[c] ELSE row[c]]

Insert(t, row) == [op |-> "insert", on |-> t, row |-> row, key |-> {}]

\* An insert under a UNIQUE constraint or a primary key on the columns.
InsertUnique(t, row, cols) ==
    [op |-> "insert", on |-> t, row |-> row, key |-> {cols}]

\* A flushed change of a loaded object: no row left is a StaleDataError.
Update(t, i, cols) ==
    [op |-> "update", on |-> t, row |-> Overlay([id |-> i], cols), key |-> {}]

\* An UPDATE statement: no row left is no error.
Patch(t, i, cols) ==
    [op |-> "patch", on |-> t, row |-> Overlay([id |-> i], cols), key |-> {}]

\* What the flush of a loaded row writes: the columns that differ from those
\* it was loaded with, and nothing when none does.
Edit(t, row, cols) ==
    LET changed == {c \in DOMAIN cols : cols[c] # row[c]}
    IN  IF changed = {} THEN {}
        ELSE {Update(t, row.id, [c \in changed |-> cols[c]])}

Delete(t, i) == [op |-> "delete", on |-> t, row |-> [id |-> i], key |-> {}]
DeleteAll(t, rows) == {Delete(t, r.id) : r \in rows}
Put(t, row) == {Delete(t, row.id), Insert(t, row)}     \* a key of Redis

\* A step of the handler that reads again, after what it has committed so
\* far: some action replaces it by the writes it stands for.
Later(name, row) == [op |-> name, on |-> "handler", row |-> row, key |-> {}]
Writes == {"insert", "update", "patch", "delete"}

\* What a later step writes is of request i, whichever is the next to begin.
By(i, batches) ==
    [k \in DOMAIN batches |-> {[w EXCEPT !.row.id = i] : w \in batches[k]}]

\* What the client is told, kept for the properties.
Answer(kind, about) ==
    {Insert("answers", [id |-> Self, kind |-> kind, about |-> about])}

\* The foreign keys, all of them ON DELETE CASCADE, and the directory of a file.
Parent == [post |-> "posts", message |-> "messages", group |-> "groups",
           report |-> "reports", gallery |-> "galleries", list |-> "user_lists",
           call |-> "call_sessions", plan |-> "subscription_plans", directory |-> "uploads"]
References(row) == DOMAIN row \cap DOMAIN Parent

Agree(r, s, cols) == \A c \in cols : r[c] = s[c]
Gone(t, batch) == {w.row.id : w \in {x \in batch : x.on = t /\ x.op = "delete"}}

\* The database refuses the batch: a key is taken, a loaded row or the row a
\* foreign key refers to is gone.
Fails(batch) ==
    \E w \in batch :
        \/ /\ w.op = "insert"
           /\ \/ \E cols \in w.key : \E r \in store[w.on] : Agree(r, w.row, cols)
              \/ \E c \in References(w.row) :
                     /\ \A r \in store[Parent[c]] : r.id # w.row[c]
                     /\ \A x \in batch : x.on # Parent[c] \/ x.row.id # w.row[c]
        \/ /\ w.op = "update"
           /\ \/ \A r \in store[w.on] : r.id # w.row.id
              \/ \E cols \in w.key : \E r \in store[w.on] :
                     r.id # w.row.id /\ Agree(r, w.row, cols)

\* A table after the batch.
Written(t, batch) ==
    LET kept == {r \in store[t] : /\ r.id \notin Gone(t, batch)
                                  /\ \A c \in References(r) :
                                        r[c] \notin Gone(Parent[c], batch)}
        new  == {Overlay(w.row, [born |-> served]) :
                    w \in {x \in batch : x.on = t /\ x.op = "insert"}}
        changes(r) == {w \in batch : /\ w.on = t /\ w.row.id = r.id
                                     /\ w.op \in {"update", "patch"}}
        changed(r) == IF changes(r) = {} THEN r
                      ELSE Overlay((CHOOSE w \in changes(r) : TRUE).row, r)
    IN  {changed(r) : r \in kept} \cup new

Stored(batch) ==
    LET deletes == \E w \in batch : w.op = "delete"
    IN  [t \in Tables |-> IF deletes \/ \E w \in batch : w.on = t
                          THEN Written(t, batch) ELSE store[t]]

-----------------------------------------------------------------------------
(* Requests.                                                                *)

\* The handler has read, and left what it will commit.
Begin(p, batches) ==
    /\ tx[p] = <<>>
    /\ tx' = [tx EXCEPT ![p] = batches]
    /\ served' = Self
    /\ UNCHANGED store

\* session.refresh before any flush: SQLAlchemy refuses a pending row and
\* reads a changed one back, so nothing of it is written.  A build whose
\* refresh flushes first is admitted too, so that no property rests on it.
BeginRefreshed(p, batches) ==
    \E flushes \in RefreshFlushes : Begin(p, IF flushes THEN batches ELSE <<>>)

Commit(p) ==
    /\ tx[p] # <<>>
    /\ \A w \in Head(tx[p]) : w.op \in Writes
    /\ ~Fails(Head(tx[p]))
    /\ store' = Stored(Head(tx[p]))
    /\ tx' = [tx EXCEPT ![p] = Tail(@)]
    /\ UNCHANGED served

\* A later read of the handler has been answered.
Resolve(p, batches) ==
    /\ tx' = [tx EXCEPT ![p] = batches \o Tail(@)]
    /\ UNCHANGED <<store, served>>

\* The commit fails and the session rolls back, or the process is killed or
\* the client gone: what is committed stays, the rest never happens.
Abandon(p) ==
    /\ tx[p] # <<>>
    /\ tx' = [tx EXCEPT ![p] = <<>>]
    /\ UNCHANGED <<store, served>>

-----------------------------------------------------------------------------
(* Questions the properties ask.                                            *)

\* The requests that wrote two rows were in flight at the same time.
Overlapped(r, s) == r.id <= s.born /\ s.id <= r.born

\* A write some request has still to commit.
Pending(w) == \E p \in Workers : \E i \in DOMAIN tx[p] : w \in tx[p][i]
=============================================================================
