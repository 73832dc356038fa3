----------------------------- MODULE FenceStore -----------------------------
(***************************************************************************)
(* pkg/storage/storage.go: the fences table, the R-Tree fence_index beside *)
(* it, and the calls that change both in one SQLite transaction while they *)
(* hold the store's RWMutex.  Each SQL statement is a step, so a call may  *)
(* fail, and the process may die, between any two of them.                 *)
(***************************************************************************)
EXTENDS FiniteSets, Naturals

CONSTANTS
  Threads,  \* goroutines that call the store
  Ids,      \* identifiers of fences
  Revs,     \* what a fence may say
  Absent,   \* no fence under this identifier
  RowIds,   \* row numbers; the choice of an unused one is left open
  Null,     \* no row, no index entry, no transaction, no goroutine
  Points,   \* places one can ask about
  Area,     \* Area[r]: the points inside a fence that says r
  Box       \* Box[r]: the points inside its bounding box, as the R-Tree has it

Row    == [id : Ids, rev : Revs]
Rows   == [RowIds -> Row \cup {Null}]
Index  == [RowIds -> {Null} \cup SUBSET Points]
Tx     == [rows : Rows, index : Index]

ASSUME FenceStoreAssumption ==
  /\ Absent \notin Revs
  /\ Null \notin Row /\ Null \notin Tx
  /\ Null \notin Threads /\ Null \notin RowIds
  /\ \A box \in SUBSET Points : box # Null
  /\ Area \in [Revs -> SUBSET Points]
  /\ Box \in [Revs -> SUBSET Points]

VARIABLES
  rows,    \* the committed fences table, by rowid
  index,   \* the committed fence_index, by rowid
  tx,      \* the tables as the open transaction sees them, or Null
  holder,  \* the goroutine that holds the write lock, or Null
  calls    \* the call each goroutine is in

vars == <<rows, index, tx, holder, calls>>

(***************************************************************************)
(* A call: op, id and rev are its arguments; pc is the statement it runs   *)
(* next, row the row it made or found, res what it returns.                *)
(***************************************************************************)
Ops     == {"AddFence", "UpdateFence", "DeleteFence"}
Results == {"pending", "ok", "not found", "error"}
Steps   == {"lock", "row", "index", "commit", "return"}
Call    == [op : Ops, id : Ids, rev : Revs, res : Results,
            pc : Steps, row : RowIds \cup {Null}]
NoCall  == [op |-> "none"]

Init ==
  /\ rows = [n \in RowIds |-> Null]
  /\ index = [n \in RowIds |-> Null]
  /\ tx = Null
  /\ holder = Null
  /\ calls = [t \in Threads |-> NoCall]

\* The rows of a fences table that hold the fence id: SELECT ... WHERE id = ?.
RowsOf(table, id) == {n \in RowIds : table[n] # Null /\ table[n].id = id}

InTx(t)         == calls[t] # NoCall /\ calls[t].pc \in {"row", "index", "commit"}
At(t, op, step) == calls[t] # NoCall /\ calls[t].op = op /\ calls[t].pc = step
Goto(t, rec)    == calls' = [calls EXCEPT ![t] = rec]

\* The Unlock is forgotten.
RollbackLocked(t, res) ==
  /\ tx' = Null
  /\ UNCHANGED holder
  /\ Goto(t, [calls[t] EXCEPT !.pc = "return", !.res = res])

\* The deferred Rollback and Unlock of a call that returns res.
Rollback(t, res) ==
  /\ tx' = Null
  /\ holder' = Null
  /\ Goto(t, [calls[t] EXCEPT !.pc = "return", !.res = res])

-----------------------------------------------------------------------------
Invoke(t) ==
  /\ calls[t] = NoCall
  /\ \E op \in Ops, id \in Ids, rev \in Revs :
       Goto(t, [op |-> op, id |-> id, rev |-> rev, res |-> "pending",
                pc |-> "lock", row |-> Null])
  /\ UNCHANGED <<rows, index, tx, holder>>

\* mu.Lock and BeginTx.
Begin(t) ==
  /\ \E op \in Ops : At(t, op, "lock")
  /\ holder = Null
  /\ holder' = t
  /\ tx' = [rows |-> rows, index |-> index]
  /\ Goto(t, [calls[t] EXCEPT !.pc = "row"])
  /\ UNCHANGED <<rows, index>>

\* The statement on the fences table changed row n to r.
WriteRow(t, n, r) ==
  /\ tx' = [tx EXCEPT !.rows[n] = r]
  /\ Goto(t, [calls[t] EXCEPT !.pc = "index", !.row = n])
  /\ UNCHANGED <<rows, index, holder>>

\* INSERT INTO fences; id is UNIQUE.
InsertRow(t) ==
  /\ At(t, "AddFence", "row")
  /\ LET c == calls[t] IN
       \/ /\ RowsOf(tx.rows, c.id) = {}
          /\ \E n \in RowIds : tx.rows[n] = Null /\ WriteRow(t, n, [id |-> c.id, rev |-> c.rev])
       \/ /\ RowsOf(tx.rows, c.id) # {}
          /\ Rollback(t, "error")
          /\ UNCHANGED <<rows, index>>

\* UPDATE fences; no row affected is ErrFenceNotFound.
UpdateRow(t) ==
  /\ At(t, "UpdateFence", "row")
  /\ LET c == calls[t] IN
       \/ \E n \in RowsOf(tx.rows, c.id) : WriteRow(t, n, [id |-> c.id, rev |-> c.rev])
       \/ /\ RowsOf(tx.rows, c.id) = {}
          /\ Rollback(t, "not found")
          /\ UNCHANGED <<rows, index>>

\* SELECT rowid and DELETE FROM fences; no row is ErrFenceNotFound.
DeleteRow(t) ==
  /\ At(t, "DeleteFence", "row")
  /\ LET c == calls[t] IN
       \/ \E n \in RowsOf(tx.rows, c.id) : WriteRow(t, n, Null)
       \/ /\ RowsOf(tx.rows, c.id) = {}
          /\ Rollback(t, "not found")
          /\ UNCHANGED <<rows, index>>

\* The statement on fence_index changed the entry of the call's row to b.
WriteIndex(t, b) ==
  /\ tx' = [tx EXCEPT !.index[calls[t].row] = b]
  /\ Goto(t, [calls[t] EXCEPT !.pc = "commit"])
  /\ UNCHANGED <<rows, index, holder>>

InsertIndex(t) == At(t, "AddFence", "index") /\ WriteIndex(t, Box[calls[t].rev])

\* The index entry is left as it was.
UpdateIndexNot(t) ==
  At(t, "UpdateFence", "index") /\ WriteIndex(t, tx.index[calls[t].row])

\* UPDATE fence_index changes nothing, without an error, if there is no entry.
UpdateIndex(t) ==
  /\ At(t, "UpdateFence", "index")
  /\ WriteIndex(t, IF tx.index[calls[t].row] = Null THEN Null ELSE Box[calls[t].rev])

DeleteIndex(t) == At(t, "DeleteFence", "index") /\ WriteIndex(t, Null)

Commit(t) ==
  /\ \E op \in Ops : At(t, op, "commit")
  /\ rows' = tx.rows
  /\ index' = tx.index
  /\ Rollback(t, "ok")

\* A statement fails and returns the error, but what it wrote before stays.
FailKeeping(t) ==
  /\ InTx(t)
  /\ rows' = tx.rows
  /\ index' = tx.index
  /\ Rollback(t, "error")

\* A statement, BeginTx or Commit fails (context cancelled, disk full, busy).
Fail(t) ==
  /\ InTx(t)
  /\ Rollback(t, "error")
  /\ UNCHANGED <<rows, index>>

Return(t) ==
  /\ \E op \in Ops : At(t, op, "return")
  /\ Goto(t, NoCall)
  /\ UNCHANGED <<rows, index, tx, holder>>

\* The process dies and is started again: only what was committed is left.
Crash ==
  /\ tx' = Null
  /\ holder' = Null
  /\ calls' = [t \in Threads |-> NoCall]
  /\ UNCHANGED <<rows, index>>

Step(t) ==
  \/ InsertRow(t) \/ UpdateRow(t) \/ DeleteRow(t)
  \/ InsertIndex(t) \/ UpdateIndex(t) \/ DeleteIndex(t)
  \/ Commit(t) \/ Return(t)

Next == Crash \/ \E t \in Threads : Invoke(t) \/ Begin(t) \/ Step(t) \/ Fail(t)

Spec == Init /\ [][Next]_vars

\* Statements return; sync.RWMutex hands the lock to a goroutine that waits
\* long enough (strong fairness: others may take it in between).
Fairness == \A t \in Threads : WF_vars(Step(t)) /\ SF_vars(Begin(t))

FairSpec == Spec /\ Fairness

-----------------------------------------------------------------------------
(* What the calls promise: FenceTable. *)

Fence(table, id) == LET n == CHOOSE n \in RowsOf(table, id) : TRUE IN table[n].rev
TableOf(table)   == [id \in Ids |-> IF RowsOf(table, id) = {} THEN Absent
                                                            ELSE Fence(table, id)]

Table    == TableOf(rows)
Promised == [t \in Threads |->
               IF calls[t] = NoCall THEN NoCall
               ELSE [op |-> calls[t].op, id |-> calls[t].id,
                     rev |-> calls[t].rev, res |-> calls[t].res]]

Abstract == INSTANCE FenceTable WITH table <- Table, calls <- Promised

-----------------------------------------------------------------------------
(* Properties. *)

\* Every variable holds a value of its kind; a call is between Begin and its
\* Rollback or Commit exactly while it holds the lock and the transaction.
TypeOK ==
  /\ rows \in Rows
  /\ index \in Index
  /\ tx \in Tx \cup {Null}
  /\ holder \in Threads \cup {Null}
  /\ calls \in [Threads -> Call \cup {NoCall}]
  /\ tx = Null <=> holder = Null
  /\ \A t \in Threads : holder = t <=> InTx(t)

\* QueryAtPoint: the R-Tree gives the candidates, ContainsPoint decides.
QueryAtPoint(pt) ==
  {rows[n].id : n \in {m \in RowIds : /\ rows[m] # Null /\ index[m] # Null
                                      /\ pt \in index[m]
                                      /\ pt \in Area[rows[m].rev]}}

\* The query for a point finds no fence but those of the table that contain it,
\* and each of those unless the point lies outside the fence's own box: no call,
\* failure or crash leaves a fence out of the index or an entry behind, or the
\* box of what the fence said before (docs/issues/remaining-issues.md:108).  The
\* box of a polygon or a rectangle covers it (BoundsCover of Algorithms), so of
\* these all are found; that of a circle may be too small (types.go:128-140).
QueryExact ==
  \A pt \in Points :
    LET containing == {id \in Ids : Table[id] # Absent /\ pt \in Area[Table[id]]} IN
    /\ QueryAtPoint(pt) \subseteq containing
    /\ \A id \in containing : pt \in Box[Table[id]] => id \in QueryAtPoint(pt)

\* The calls take effect atomically, or not at all, and answer accordingly.
Atomic == Abstract!Spec

\* Every call returns (or dies with its process): no call waits for ever.
CallsReturn == \A t \in Threads : calls[t] # NoCall ~> calls[t] = NoCall
=============================================================================
