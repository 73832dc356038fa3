-------------------------- MODULE FenceStoreProofs --------------------------
(***************************************************************************)
(* Theorems about FenceStore, for every set of goroutines, fences, rows    *)
(* and places.                                                             *)
(***************************************************************************)
EXTENDS FenceStore, TLAPS

(***************************************************************************)
(* The two tables agree: an identifier has one row, and a row has the      *)
(* bounding box of its fence in the index.                                 *)
(***************************************************************************)
Unique(r)     == \A n, m \in RowIds :
                   (r[n] # Null /\ r[m] # Null /\ r[n].id = r[m].id) => n = m
Indexed(r, i) == \A n \in RowIds :
                   i[n] = IF r[n] = Null THEN Null ELSE Box[r[n].rev]

(***************************************************************************)
(* What the open transaction has done to the committed tables, by the step *)
(* its call has reached.                                                   *)
(***************************************************************************)
NewRow(c)   == IF c.op = "DeleteFence" THEN Null ELSE [id |-> c.id, rev |-> c.rev]
NewEntry(c) == IF c.op = "DeleteFence" THEN Null ELSE Box[c.rev]
Target(c)   == IF c.op = "AddFence"
                 THEN RowsOf(rows, c.id) = {} /\ rows[c.row] = Null
                 ELSE c.row \in RowsOf(rows, c.id)

TxOK(t) ==
  LET c == calls[t] IN
  /\ c.pc = "row" => tx.rows = rows
  /\ c.pc \in {"row", "index"} => tx.index = index
  /\ c.pc \in {"index", "commit"} =>
       c.row \in RowIds /\ Target(c) /\ tx.rows = [rows EXCEPT ![c.row] = NewRow(c)]
  /\ c.pc = "commit" => tx.index = [index EXCEPT ![c.row] = NewEntry(c)]

IInv ==
  /\ TypeOK
  /\ Unique(rows)
  /\ Indexed(rows, index)
  /\ \A t \in Threads : InTx(t) => TxOK(t)
  /\ \A t \in Threads : calls[t] # NoCall =>
       (calls[t].res = "pending" <=> calls[t].pc # "return")

-----------------------------------------------------------------------------
LEMMA NullFacts ==
  /\ \A r \in Row : r # Null
  /\ \A x \in Tx : x # Null
  /\ \A t \in Threads : t # Null
  /\ \A n \in RowIds : n # Null
  /\ \A r \in Revs : r # Absent /\ Box[r] \in SUBSET Points /\ Box[r] # Null
  BY FenceStoreAssumption

LEMMA CallFacts ==
  ASSUME NEW c \in Call
  PROVE  /\ c # NoCall
         /\ c.op \in Ops /\ c.id \in Ids /\ c.rev \in Revs /\ c.res \in Results
         /\ c.pc \in Steps /\ c.row \in RowIds \cup {Null}
  <1>1. c.op # NoCall.op
    BY DEF Call, Ops, NoCall
  <1> QED
    BY <1>1 DEF Call

\* A call that has taken the lock: its type, and it is the only one.
LEMMA InTxFacts ==
  ASSUME TypeOK, NEW t \in Threads, InTx(t)
  PROVE  /\ calls[t] \in Call /\ tx \in Tx /\ holder = t
         /\ \A u \in Threads : InTx(u) => u = t
  <1>1. calls[t] \in Call
    BY DEF TypeOK, InTx
  <1>2. holder = t /\ \A u \in Threads : InTx(u) => u = t
    BY DEF TypeOK
  <1>3. tx # Null
    BY <1>2, NullFacts DEF TypeOK
  <1> QED
    BY <1>1, <1>2, <1>3 DEF TypeOK

\* A statement inside the transaction keeps the invariant if the transaction
\* still is what TxOK says.
LEMMA StatementInv ==
  ASSUME IInv, NEW t \in Threads, InTx(t), NEW c \in Call, Goto(t, c),
         c.pc \in {"row", "index", "commit"}, c.res = "pending",
         tx' \in Tx, UNCHANGED <<rows, index, holder>>, TxOK(t)'
  PROVE  IInv'
  <1>1. TypeOK
    BY DEF IInv
  <1>2. calls' = [calls EXCEPT ![t] = c] /\ calls \in [Threads -> Call \cup {NoCall}]
    BY <1>1 DEF Goto, TypeOK
  <1>3. calls'[t] = c /\ \A u \in Threads \ {t} : calls'[u] = calls[u]
    BY <1>2
  <1>4. InTx(t)' /\ \A u \in Threads \ {t} : ~InTx(u)'
    BY <1>1, <1>3, InTxFacts, CallFacts DEF InTx
  <1>5. holder' = t /\ tx' # Null /\ t # Null
    BY <1>1, InTxFacts, NullFacts
  <1>6. TypeOK'
    BY <1>1, <1>2, <1>4, <1>5 DEF TypeOK
  <1> QED
    BY <1>3, <1>4, <1>6 DEF IInv, Unique, Indexed

\* The end of a call keeps the invariant if it leaves the two tables agreeing.
LEMMA EndInv ==
  ASSUME IInv, NEW t \in Threads, InTx(t), NEW res \in Results \ {"pending"},
         Rollback(t, res), rows' \in Rows, index' \in Index,
         Unique(rows)', Indexed(rows, index)'
  PROVE  IInv'
  <1> DEFINE c == [calls[t] EXCEPT !.pc = "return", !.res = res]
  <1>1. TypeOK
    BY DEF IInv
  <1>2. c \in Call /\ c.pc = "return" /\ c.res = res
    BY <1>1, InTxFacts DEF Call, Steps
  <1>3. calls' = [calls EXCEPT ![t] = c] /\ calls \in [Threads -> Call \cup {NoCall}]
    BY <1>1 DEF Goto, Rollback, TypeOK
  <1>4. calls'[t] = c /\ \A u \in Threads \ {t} : calls'[u] = calls[u]
    BY <1>3
  <1>5. \A u \in Threads : ~InTx(u)'
    BY <1>1, <1>2, <1>4, InTxFacts DEF InTx
  <1>6. tx' = Null /\ holder' = Null
    BY DEF Rollback
  <1>7. TypeOK'
    BY <1>2, <1>3, <1>5, <1>6, NullFacts DEF TypeOK
  <1> QED
    BY <1>2, <1>4, <1>5, <1>7 DEF IInv

\* A call that fails leaves both tables as they were.
LEMMA RollbackInv ==
  ASSUME IInv, NEW t \in Threads, InTx(t), NEW res \in Results \ {"pending"},
         Rollback(t, res), UNCHANGED <<rows, index>>
  PROVE  IInv'
  BY EndInv DEF IInv, TypeOK, Unique, Indexed

LEMMA AtInTx ==
  ASSUME NEW t \in Threads, NEW op, NEW step \in {"row", "index", "commit"},
         At(t, op, step)
  PROVE  InTx(t) /\ calls[t].op = op /\ calls[t].pc = step
  BY DEF At, InTx

\* The statement on the fences table keeps the invariant.
LEMMA WriteRowInv ==
  ASSUME IInv, NEW t \in Threads, NEW op, At(t, op, "row"), NEW n \in RowIds,
         NEW r \in Row \cup {Null}, WriteRow(t, n, r),
         LET c == calls[t] IN
           /\ r = NewRow(c)
           /\ IF c.op = "AddFence"
                THEN RowsOf(rows, c.id) = {} /\ rows[n] = Null
                ELSE n \in RowsOf(rows, c.id)
  PROVE  IInv'
  <1> DEFINE c == [calls[t] EXCEPT !.pc = "index", !.row = n]
  <1>1. TypeOK /\ InTx(t) /\ calls[t].pc = "row" /\ TxOK(t)
    BY AtInTx DEF IInv
  <1>2. calls[t] \in Call /\ tx \in Tx
    BY <1>1, InTxFacts
  <1>3. c \in Call /\ c.pc = "index" /\ c.row = n /\ c.op = calls[t].op
        /\ c.id = calls[t].id /\ c.rev = calls[t].rev /\ c.res = calls[t].res
    BY <1>2 DEF Call, Steps
  <1>4. c.res = "pending"
    BY <1>1, <1>2, <1>3, CallFacts DEF IInv
  <1>5. Goto(t, c) /\ calls'[t] = c
    BY <1>1 DEF WriteRow, Goto, TypeOK
  <1>6. tx.rows = rows /\ tx.index = index
    BY <1>1 DEF TxOK
  <1>7. tx' = [tx EXCEPT !.rows[n] = r] /\ UNCHANGED <<rows, index, holder>>
    BY DEF WriteRow
  <1>8. tx' \in Tx /\ tx'.rows = [rows EXCEPT ![n] = r] /\ tx'.index = index
    BY <1>2, <1>6, <1>7 DEF Tx, Rows
  <1>9. TxOK(t)'
    BY <1>3, <1>5, <1>7, <1>8 DEF TxOK, Target, NewRow, RowsOf
  <1> QED
    BY <1>1, <1>3, <1>4, <1>5, <1>7, <1>8, <1>9, StatementInv

\* The statement on the index keeps the invariant.
LEMMA WriteIndexInv ==
  ASSUME IInv, NEW t \in Threads, NEW op, At(t, op, "index"),
         NEW b \in {Null} \cup SUBSET Points, WriteIndex(t, b),
         b = NewEntry(calls[t])
  PROVE  IInv'
  <1> DEFINE c == [calls[t] EXCEPT !.pc = "commit"]
  <1> DEFINE n == calls[t].row
  <1>1. TypeOK /\ InTx(t) /\ calls[t].pc = "index" /\ TxOK(t)
    BY AtInTx DEF IInv
  <1>2. calls[t] \in Call /\ tx \in Tx
    BY <1>1, InTxFacts
  <1>3. c \in Call /\ c.pc = "commit" /\ c.row = n /\ c.op = calls[t].op
        /\ c.id = calls[t].id /\ c.rev = calls[t].rev /\ c.res = calls[t].res
    BY <1>2 DEF Call, Steps
  <1>4. c.res = "pending"
    BY <1>1, <1>2, <1>3, CallFacts DEF IInv
  <1>5. Goto(t, c) /\ calls'[t] = c
    BY <1>1 DEF WriteIndex, Goto, TypeOK
  <1>6. /\ n \in RowIds /\ Target(calls[t]) /\ tx.index = index
        /\ tx.rows = [rows EXCEPT ![n] = NewRow(calls[t])]
    BY <1>1 DEF TxOK
  <1>7. tx' = [tx EXCEPT !.index[n] = b] /\ UNCHANGED <<rows, index, holder>>
    BY DEF WriteIndex
  <1>8. tx' \in Tx /\ tx'.index = [index EXCEPT ![n] = b] /\ tx'.rows = tx.rows
    BY <1>2, <1>6, <1>7 DEF Tx, Index
  <1>9. TxOK(t)'
    BY <1>3, <1>5, <1>6, <1>7, <1>8 DEF TxOK, Target, NewRow, NewEntry, RowsOf
  <1> QED
    BY <1>1, <1>3, <1>4, <1>5, <1>7, <1>8, <1>9, StatementInv

\* The commit makes the row and its index entry visible together.
LEMMA CommitInv ==
  ASSUME IInv, NEW t \in Threads, Commit(t)
  PROVE  IInv'
  <1> DEFINE c == calls[t]
  <1>1. PICK op \in Ops : At(t, op, "commit")
    BY DEF Commit
  <1>2. TypeOK /\ InTx(t) /\ c.pc = "commit" /\ TxOK(t)
    BY <1>1, AtInTx DEF IInv
  <1>3. c \in Call /\ tx \in Tx
    BY <1>2, InTxFacts
  <1>4. c.op \in Ops /\ c.id \in Ids /\ c.rev \in Revs
    BY <1>3, CallFacts
  <1>5. /\ c.row \in RowIds /\ Target(c)
        /\ rows' = [rows EXCEPT ![c.row] = NewRow(c)]
        /\ index' = [index EXCEPT ![c.row] = NewEntry(c)]
    BY <1>2 DEF TxOK, Commit
  <1>6. rows' \in Rows /\ index' \in Index
    BY <1>3 DEF Commit, Tx
  <1>7. rows \in Rows /\ index \in Index
    BY <1>2 DEF TypeOK
  <1>8. NewRow(c) = Null \/ (NewRow(c) \in Row /\ NewRow(c) # Null)
    BY <1>4, NullFacts DEF NewRow, Row
  <1>9. Unique(rows)'
    <2> SUFFICES ASSUME NEW n \in RowIds, NEW m \in RowIds, n # m,
                        rows'[n] # Null, rows'[m] # Null
                 PROVE  rows'[n].id # rows'[m].id
      BY DEF Unique
    <2>1. CASE n # c.row /\ m # c.row
      BY <1>5, <1>7, <2>1 DEF Unique, IInv, Rows
    <2>2. CASE n = c.row \/ m = c.row
      <3>1. PICK k \in {n, m} : k # c.row
        BY <2>2
      <3>2. rows'[k] = rows[k] /\ rows[k] # Null
        BY <1>5, <1>7, <3>1 DEF Rows
      <3>3. rows'[c.row] = NewRow(c) /\ NewRow(c) # Null
        BY <1>5, <1>7, <2>2 DEF Rows
      <3>4. NewRow(c).id = c.id
        BY <3>3 DEF NewRow
      <3>5. rows[k].id # c.id
        BY <1>5, <3>1, <3>2 DEF Target, RowsOf, IInv, Unique
      <3> QED
        BY <2>2, <3>1, <3>2, <3>3, <3>4, <3>5
    <2> QED
      BY <2>1, <2>2
  <1>10. Indexed(rows, index)'
    <2> SUFFICES ASSUME NEW n \in RowIds
                 PROVE  index'[n] = IF rows'[n] = Null THEN Null ELSE Box[rows'[n].rev]
      BY DEF Indexed
    <2>1. CASE n = c.row
      <3>1. rows'[n] = NewRow(c) /\ index'[n] = NewEntry(c)
        BY <1>5, <1>7, <2>1 DEF Rows, Index
      <3>2. CASE c.op = "DeleteFence"
        BY <3>1, <3>2 DEF NewRow, NewEntry
      <3>3. CASE c.op # "DeleteFence"
        <4>1. NewRow(c) \in Row /\ NewRow(c).rev = c.rev /\ NewEntry(c) = Box[c.rev]
          BY <1>4, <3>3 DEF NewRow, NewEntry, Row
        <4> QED
          BY <3>1, <4>1, NullFacts
      <3> QED
        BY <3>2, <3>3
    <2>2. CASE n # c.row
      BY <1>5, <1>7, <2>2 DEF Rows, Index, Indexed, IInv
    <2> QED
      BY <2>1, <2>2
  <1> QED
    BY <1>2, <1>6, <1>9, <1>10, EndInv DEF Commit, Results

\* The statements on the fences table, with the rows they meet.
LEMMA RowStepInv ==
  ASSUME IInv, NEW t \in Threads, InsertRow(t) \/ UpdateRow(t) \/ DeleteRow(t)
  PROVE  IInv'
  <1> DEFINE c == calls[t]
  <1>1. PICK op \in Ops : At(t, op, "row")
    BY DEF InsertRow, UpdateRow, DeleteRow, Ops
  <1>2. TypeOK /\ InTx(t) /\ c.pc = "row" /\ TxOK(t) /\ c.op = op
    BY <1>1, AtInTx DEF IInv
  <1>3. c \in Call /\ c.id \in Ids /\ c.rev \in Revs
    BY <1>2, InTxFacts, CallFacts
  <1>4. [id |-> c.id, rev |-> c.rev] \in Row
    BY <1>3 DEF Row
  <1>5. tx.rows = rows
    BY <1>2 DEF TxOK
  <1>6. {"error", "not found"} \subseteq Results \ {"pending"}
    BY DEF Results
  <1>7. CASE InsertRow(t)
    <2>1. c.op = "AddFence"
      BY <1>7, AtInTx DEF InsertRow
    <2>2. CASE RowsOf(rows, c.id) = {}
      <3>1. PICK n \in RowIds : rows[n] = Null /\ WriteRow(t, n, [id |-> c.id, rev |-> c.rev])
        BY <1>5, <1>7, <2>2 DEF InsertRow
      <3> QED
        BY <1>1, <1>4, <2>1, <2>2, <3>1, WriteRowInv DEF NewRow
    <2>3. CASE RowsOf(rows, c.id) # {}
      BY <1>2, <1>5, <1>6, <1>7, <2>3, RollbackInv DEF InsertRow
    <2> QED
      BY <2>2, <2>3
  <1>8. CASE UpdateRow(t)
    <2>1. c.op = "UpdateFence"
      BY <1>8, AtInTx DEF UpdateRow
    <2>2. CASE RowsOf(rows, c.id) # {}
      <3>1. PICK n \in RowsOf(rows, c.id) : WriteRow(t, n, [id |-> c.id, rev |-> c.rev])
        BY <1>5, <1>8, <2>2 DEF UpdateRow
      <3>2. n \in RowIds
        BY DEF RowsOf
      <3> QED
        BY <1>1, <1>4, <2>1, <3>1, <3>2, WriteRowInv DEF NewRow
    <2>3. CASE RowsOf(rows, c.id) = {}
      BY <1>2, <1>5, <1>6, <1>8, <2>3, RollbackInv DEF UpdateRow
    <2> QED
      BY <2>2, <2>3
  <1>9. CASE DeleteRow(t)
    <2>1. c.op = "DeleteFence"
      BY <1>9, AtInTx DEF DeleteRow
    <2>2. CASE RowsOf(rows, c.id) # {}
      <3>1. PICK n \in RowsOf(rows, c.id) : WriteRow(t, n, Null)
        BY <1>5, <1>9, <2>2 DEF DeleteRow
      <3>2. n \in RowIds
        BY DEF RowsOf
      <3> QED
        BY <1>1, <2>1, <3>1, <3>2, WriteRowInv DEF NewRow
    <2>3. CASE RowsOf(rows, c.id) = {}
      BY <1>2, <1>5, <1>6, <1>9, <2>3, RollbackInv DEF DeleteRow
    <2> QED
      BY <2>2, <2>3
  <1> QED
    BY <1>7, <1>8, <1>9

\* The statements on the index.  UpdateIndex meets an entry, since the row it
\* follows was there.
LEMMA IndexStepInv ==
  ASSUME IInv, NEW t \in Threads, InsertIndex(t) \/ UpdateIndex(t) \/ DeleteIndex(t)
  PROVE  IInv'
  <1> DEFINE c == calls[t]
  <1>1. PICK op \in Ops : At(t, op, "index")
    BY DEF InsertIndex, UpdateIndex, DeleteIndex, Ops
  <1>2. TypeOK /\ InTx(t) /\ c.pc = "index" /\ TxOK(t)
    BY <1>1, AtInTx DEF IInv
  <1>3. c.rev \in Revs /\ Box[c.rev] \in SUBSET Points /\ Box[c.rev] # Null
    BY <1>2, InTxFacts, CallFacts, NullFacts
  <1>4. CASE InsertIndex(t)
    <2>1. c.op = "AddFence" /\ WriteIndex(t, Box[c.rev])
      BY <1>4, AtInTx DEF InsertIndex
    <2> QED
      BY <1>1, <1>3, <2>1, WriteIndexInv DEF NewEntry
  <1>5. CASE UpdateIndex(t)
    <2>1. c.op = "UpdateFence"
      BY <1>5, AtInTx DEF UpdateIndex
    <2>2. c.row \in RowIds /\ rows[c.row] # Null
      BY <1>2, <2>1 DEF TxOK, Target, RowsOf
    <2>3. index[c.row] # Null
      <3>1. rows[c.row] \in Row
        BY <1>2, <2>2 DEF TypeOK, Rows
      <3> QED
        BY <2>2, <3>1, NullFacts DEF IInv, Indexed, Row
    <2>4. WriteIndex(t, Box[c.rev])
      BY <1>2, <1>5, <2>3 DEF UpdateIndex, TxOK
    <2> QED
      BY <1>1, <1>3, <2>1, <2>4, WriteIndexInv DEF NewEntry
  <1>6. CASE DeleteIndex(t)
    <2>1. c.op = "DeleteFence" /\ WriteIndex(t, Null)
      BY <1>6, AtInTx DEF DeleteIndex
    <2> QED
      BY <1>1, <2>1, WriteIndexInv DEF NewEntry
  <1> QED
    BY <1>4, <1>5, <1>6

\* A goroutine that starts or leaves a call, outside the transaction.
LEMMA OutsideInv ==
  ASSUME IInv, NEW t \in Threads, Invoke(t) \/ Return(t)
  PROVE  IInv'
  <1>1. TypeOK
    BY DEF IInv
  <1>2. PICK c \in Call \cup {NoCall} :
          /\ Goto(t, c)
          /\ c # NoCall => c.pc = "lock" /\ c.res = "pending"
    <2>1. CASE Invoke(t)
      <3>1. PICK op \in Ops, id \in Ids, rev \in Revs :
              Goto(t, [op |-> op, id |-> id, rev |-> rev, res |-> "pending",
                       pc |-> "lock", row |-> Null])
        BY <2>1 DEF Invoke
      <3>2. [op |-> op, id |-> id, rev |-> rev, res |-> "pending",
             pc |-> "lock", row |-> Null] \in Call
        BY DEF Call, Results, Steps
      <3> QED
        BY <3>1, <3>2
    <2>2. CASE Return(t)
      BY <2>2 DEF Return
    <2> QED
      BY <2>1, <2>2
  <1>3. ~InTx(t)
    BY DEF Invoke, Return, At, InTx
  <1>4. calls' = [calls EXCEPT ![t] = c] /\ calls \in [Threads -> Call \cup {NoCall}]
    BY <1>1, <1>2 DEF Goto, TypeOK
  <1>5. calls'[t] = c /\ \A u \in Threads \ {t} : calls'[u] = calls[u]
    BY <1>4
  <1>6. \A u \in Threads : InTx(u)' <=> InTx(u)
    BY <1>2, <1>3, <1>5 DEF InTx
  <1>7. UNCHANGED <<rows, index, tx, holder>>
    BY DEF Invoke, Return
  <1>8. TypeOK'
    BY <1>1, <1>4, <1>6, <1>7 DEF TypeOK
  <1>9. \A u \in Threads : InTx(u)' => TxOK(u)'
    <2> SUFFICES ASSUME NEW u \in Threads, InTx(u)' PROVE TxOK(u)'
      OBVIOUS
    <2>1. u # t /\ InTx(u)
      BY <1>3, <1>6
    <2> QED
      BY <1>5, <1>7, <2>1 DEF IInv, TxOK, Target, RowsOf
  <1> QED
    BY <1>2, <1>5, <1>7, <1>8, <1>9 DEF IInv, Unique, Indexed

\* The transaction starts from the committed tables.
LEMMA BeginInv ==
  ASSUME IInv, NEW t \in Threads, Begin(t)
  PROVE  IInv'
  <1> DEFINE c == [calls[t] EXCEPT !.pc = "row"]
  <1>1. TypeOK /\ calls[t] # NoCall /\ calls[t].pc = "lock"
    BY DEF IInv, Begin, At
  <1>2. calls[t] \in Call
    BY <1>1 DEF TypeOK
  <1>3. c \in Call /\ c.pc = "row" /\ c.res = calls[t].res
    BY <1>2 DEF Call, Steps
  <1>4. c # NoCall /\ c.res = "pending"
    BY <1>1, <1>3, CallFacts DEF IInv
  <1>5. calls' = [calls EXCEPT ![t] = c] /\ calls \in [Threads -> Call \cup {NoCall}]
    BY <1>1 DEF Begin, Goto, TypeOK
  <1>6. calls'[t] = c /\ \A u \in Threads \ {t} : calls'[u] = calls[u]
    BY <1>5
  <1>7. \A u \in Threads : ~InTx(u)
    BY <1>1, NullFacts DEF Begin, TypeOK
  <1>8. InTx(t)' /\ \A u \in Threads \ {t} : ~InTx(u)'
    BY <1>3, <1>4, <1>6, <1>7 DEF InTx
  <1>9. tx' = [rows |-> rows, index |-> index] /\ holder' = t
        /\ UNCHANGED <<rows, index>>
    BY DEF Begin
  <1>10. tx' \in Tx /\ tx'.rows = rows /\ tx'.index = index
    BY <1>1, <1>9 DEF TypeOK, Tx
  <1>11. TypeOK'
    BY <1>1, <1>3, <1>5, <1>8, <1>9, <1>10, NullFacts DEF TypeOK
  <1>12. TxOK(t)'
    BY <1>3, <1>6, <1>9, <1>10 DEF TxOK
  <1> QED
    BY <1>3, <1>4, <1>6, <1>8, <1>9, <1>11, <1>12 DEF IInv, Unique, Indexed

\* Every step keeps the invariant.
LEMMA NextInv == IInv /\ [Next]_vars => IInv'
  <1> SUFFICES ASSUME IInv, [Next]_vars PROVE IInv'
    OBVIOUS
  <1>1. CASE Crash
    <2>1. \A t \in Threads : calls'[t] = NoCall /\ ~InTx(t)'
      BY <1>1 DEF Crash, InTx
    <2>2. TypeOK'
      BY <1>1, <2>1, NullFacts DEF Crash, IInv, TypeOK
    <2> QED
      BY <1>1, <2>1, <2>2 DEF Crash, IInv, Unique, Indexed
  <1>2. ASSUME NEW t \in Threads, Invoke(t) \/ Begin(t) \/ Step(t) \/ Fail(t)
        PROVE  IInv'
    <2>1. CASE Invoke(t) \/ Return(t)
      BY <2>1, OutsideInv
    <2>2. CASE Begin(t)
      BY <2>2, BeginInv
    <2>3. CASE InsertRow(t) \/ UpdateRow(t) \/ DeleteRow(t)
      BY <2>3, RowStepInv
    <2>4. CASE InsertIndex(t) \/ UpdateIndex(t) \/ DeleteIndex(t)
      BY <2>4, IndexStepInv
    <2>5. CASE Commit(t)
      BY <2>5, CommitInv
    <2>6. CASE Fail(t)
      BY <2>6, RollbackInv DEF Fail, Results
    <2> QED
      BY <1>2, <2>1, <2>2, <2>3, <2>4, <2>5, <2>6 DEF Step
  <1>3. CASE UNCHANGED vars
    <2>1. UNCHANGED <<rows, index, tx, holder, calls>>
      BY <1>3 DEF vars
    <2>2. TypeOK'
      BY <2>1 DEF IInv, TypeOK, InTx
    <2> QED
      BY <2>1, <2>2 DEF IInv, Unique, Indexed, InTx, TxOK, Target, RowsOf
  <1> QED
    BY <1>1, <1>2, <1>3 DEF Next

LEMMA InitInv == Init => IInv
  <1> SUFFICES ASSUME Init PROVE IInv
    OBVIOUS
  <1>1. \A t \in Threads : calls[t] = NoCall /\ ~InTx(t)
    BY DEF Init, InTx
  <1>2. TypeOK
    BY <1>1, NullFacts DEF Init, TypeOK, Rows, Index
  <1> QED
    BY <1>1, <1>2 DEF Init, IInv, Unique, Indexed

LEMMA AlwaysInv == Spec => []IInv
  BY InitInv, NextInv, PTL DEF Spec

\* No goroutine touches the tables without the lock and the transaction.
THEOREM StoreTypeCorrect == Spec => []TypeOK
  BY AlwaysInv, PTL DEF IInv

\* What a table without duplicates says of an identifier.
LEMMA TableFacts ==
  ASSUME NEW r \in Rows, Unique(r), NEW id \in Ids
  PROVE  /\ TableOf(r)[id] = Absent <=> RowsOf(r, id) = {}
         /\ \A n \in RowsOf(r, id) : r[n] \in Row /\ TableOf(r)[id] = r[n].rev
  <1>1. ASSUME NEW n \in RowsOf(r, id)
        PROVE  r[n] \in Row /\ TableOf(r)[id] = r[n].rev /\ TableOf(r)[id] # Absent
    <2>1. n \in RowIds /\ r[n] # Null /\ r[n].id = id
      BY DEF RowsOf
    <2>2. r[n] \in Row
      BY <2>1 DEF Rows
    <2>3. \A m \in RowsOf(r, id) : m = n
      BY <2>1 DEF RowsOf, Unique
    <2>4. (CHOOSE m \in RowsOf(r, id) : TRUE) = n
      BY <2>3
    <2>5. TableOf(r)[id] = r[n].rev
      BY <2>4 DEF TableOf, Fence
    <2> QED
      BY <2>2, <2>5, NullFacts DEF Row
  <1>2. RowsOf(r, id) = {} => TableOf(r)[id] = Absent
    BY DEF TableOf
  <1> QED
    BY <1>1, <1>2

\* For every number of goroutines, fences, rows and places, and whatever boxes the
\* fences have: a query for a point finds only fences that contain it, and each
\* of those whose box has it, whatever calls have failed or died.
THEOREM QueriesAreExact == Spec => []QueryExact
  <1>1. IInv => QueryExact
    <2> SUFFICES ASSUME IInv, NEW pt \in Points, NEW id
                 PROVE  LET containing == {i \in Ids : /\ Table[i] # Absent
                                                      /\ pt \in Area[Table[i]]} IN
                        /\ id \in QueryAtPoint(pt) => id \in containing
                        /\ id \in containing /\ pt \in Box[Table[id]] =>
                             id \in QueryAtPoint(pt)
      BY DEF QueryExact
    <2>1. rows \in Rows /\ Unique(rows) /\ Indexed(rows, index) /\ Table = TableOf(rows)
      BY DEF IInv, TypeOK, Table
    <2>2. ASSUME id \in QueryAtPoint(pt)
          PROVE  id \in Ids /\ Table[id] # Absent /\ pt \in Area[Table[id]]
      <3>1. PICK n \in RowIds : rows[n] # Null /\ rows[n].id = id /\ pt \in Area[rows[n].rev]
        BY <2>2 DEF QueryAtPoint
      <3>2. rows[n] \in Row
        BY <2>1, <3>1 DEF Rows
      <3>3. id \in Ids /\ n \in RowsOf(rows, id)
        BY <3>1, <3>2 DEF Row, RowsOf
      <3> QED
        BY <2>1, <3>1, <3>3, TableFacts
    <2>3. ASSUME id \in Ids, Table[id] # Absent, pt \in Area[Table[id]],
                 pt \in Box[Table[id]]
          PROVE  id \in QueryAtPoint(pt)
      <3>1. PICK n \in RowsOf(rows, id) : TRUE
        BY <2>1, <2>3, TableFacts
      <3>2. rows[n] \in Row /\ Table[id] = rows[n].rev
        BY <2>1, <2>3, TableFacts
      <3>3. n \in RowIds /\ rows[n] # Null /\ rows[n].id = id
        BY DEF RowsOf
      <3>4. rows[n].rev \in Revs /\ index[n] = Box[rows[n].rev]
        BY <2>1, <3>2, <3>3 DEF Row, Indexed
      <3>5. index[n] # Null /\ pt \in index[n]
        BY <2>3, <3>2, <3>4, NullFacts
      <3> QED
        BY <2>3, <3>2, <3>3, <3>5 DEF QueryAtPoint
    <2> QED
      BY <2>2, <2>3
  <1> QED
    BY <1>1, AlwaysInv, PTL

-----------------------------------------------------------------------------
(* FenceStore implements FenceTable. *)

View(c) == IF c = NoCall THEN NoCall
           ELSE [op |-> c.op, id |-> c.id, rev |-> c.rev, res |-> c.res]

\* What a step that changes one call does to the promised calls.
LEMMA PromisedStep ==
  ASSUME TypeOK, NEW t \in Threads, NEW c, Goto(t, c)
  PROVE  Promised' = [Promised EXCEPT ![t] = View(c)]
  <1>1. calls' = [calls EXCEPT ![t] = c] /\ calls \in [Threads -> Call \cup {NoCall}]
    BY DEF Goto, TypeOK
  <1>2. Promised = [u \in Threads |-> View(calls[u])]
    BY DEF Promised, View
  <1>3. Promised' = [u \in Threads |-> View(calls'[u])]
    BY DEF Promised, View
  <1> QED
    BY <1>1, <1>2, <1>3

LEMMA SameRowsSameTable == UNCHANGED rows => UNCHANGED Table
  BY DEF Table

\* A statement inside the transaction is invisible.
LEMMA StatementHidden ==
  ASSUME TypeOK, NEW t \in Threads, calls[t] \in Call, NEW c \in Call, Goto(t, c),
         c.op = calls[t].op, c.id = calls[t].id, c.rev = calls[t].rev,
         c.res = calls[t].res, UNCHANGED rows
  PROVE  UNCHANGED <<Table, Promised>>
  <1>1. View(c) = Promised[t]
    BY CallFacts DEF View, Promised
  <1>2. Promised' = [Promised EXCEPT ![t] = Promised[t]]
    BY <1>1, PromisedStep
  <1> QED
    BY <1>2, SameRowsSameTable DEF Promised

LEMMA WriteHidden ==
  ASSUME TypeOK, NEW t \in Threads, calls[t] \in Call,
         (\E n \in RowIds, r \in Row \cup {Null} : WriteRow(t, n, r))
           \/ (\E b \in {Null} \cup SUBSET Points : WriteIndex(t, b))
  PROVE  UNCHANGED <<Table, Promised>>
  <1>1. PICK c \in Call :
          /\ Goto(t, c)
          /\ c.op = calls[t].op /\ c.id = calls[t].id /\ c.rev = calls[t].rev
          /\ c.res = calls[t].res
    <2>1. CASE \E n \in RowIds, r \in Row \cup {Null} : WriteRow(t, n, r)
      <3>1. PICK n \in RowIds : Goto(t, [calls[t] EXCEPT !.pc = "index", !.row = n])
        BY <2>1 DEF WriteRow
      <3>2. [calls[t] EXCEPT !.pc = "index", !.row = n] \in Call
        BY DEF Call, Steps
      <3> QED
        BY <3>1, <3>2 DEF Call
    <2>2. CASE \E b \in {Null} \cup SUBSET Points : WriteIndex(t, b)
      <3>1. Goto(t, [calls[t] EXCEPT !.pc = "commit"])
        BY <2>2 DEF WriteIndex
      <3>2. [calls[t] EXCEPT !.pc = "commit"] \in Call
        BY DEF Call, Steps
      <3> QED
        BY <3>1, <3>2 DEF Call
    <2> QED
      BY <2>1, <2>2
  <1>2. UNCHANGED rows
    BY DEF WriteRow, WriteIndex
  <1> QED
    BY <1>1, <1>2, StatementHidden

\* The end of a call answers it.
LEMMA RollbackAnswers ==
  ASSUME IInv, NEW t \in Threads, InTx(t), NEW res \in Results, Rollback(t, res)
  PROVE  /\ Promised[t] # NoCall /\ Promised[t].res = "pending"
         /\ Promised[t].op = calls[t].op /\ Promised[t].id = calls[t].id
         /\ Promised[t].rev = calls[t].rev
         /\ Promised' = [Promised EXCEPT ![t] = [Promised[t] EXCEPT !.res = res]]
  <1> DEFINE c == [calls[t] EXCEPT !.pc = "return", !.res = res]
  <1>1. TypeOK /\ calls[t] \in Call
    BY InTxFacts DEF IInv
  <1>2. calls[t] # NoCall /\ calls[t].res = "pending" /\ calls[t].op # "none"
    BY <1>1 DEF IInv, InTx, Call, Ops
  <1>3. Promised[t] = [op |-> calls[t].op, id |-> calls[t].id,
                       rev |-> calls[t].rev, res |-> calls[t].res]
    BY <1>2 DEF Promised
  <1>4. Promised[t].op # NoCall.op
    BY <1>2, <1>3 DEF NoCall
  <1>5. c \in Call /\ c.op = calls[t].op /\ c.id = calls[t].id
        /\ c.rev = calls[t].rev /\ c.res = res
    BY <1>1 DEF Call, Steps
  <1>6. View(c) = [Promised[t] EXCEPT !.res = res]
    BY <1>3, <1>5, CallFacts DEF View
  <1>7. Promised' = [Promised EXCEPT ![t] = View(c)]
    BY <1>1, PromisedStep DEF Rollback
  <1>8. Promised' = [Promised EXCEPT ![t] = [Promised[t] EXCEPT !.res = res]]
    BY <1>6, <1>7, Zenon
  <1>9. Promised[t] # NoCall
    BY <1>4
  <1>10. /\ Promised[t].res = "pending" /\ Promised[t].op = calls[t].op
         /\ Promised[t].id = calls[t].id /\ Promised[t].rev = calls[t].rev
    BY <1>2, <1>3
  <1> QED
    BY <1>8, <1>9, <1>10

\* Commit is the instant at which the call takes effect.
LEMMA CommitSucceeds ==
  ASSUME IInv, IInv', NEW t \in Threads, Commit(t)
  PROVE  Abstract!Succeed(t)
  <1> DEFINE c == calls[t]
             new == IF c.op = "DeleteFence" THEN Absent ELSE c.rev
  <1>1. PICK op \in Ops : At(t, op, "commit")
    BY DEF Commit
  <1>2. InTx(t) /\ c.pc = "commit" /\ TxOK(t) /\ c \in Call
    BY <1>1, AtInTx, InTxFacts DEF IInv
  <1>3. c.id \in Ids /\ c.rev \in Revs /\ c.op \in Ops
    BY <1>2, CallFacts
  <1>4. /\ c.row \in RowIds /\ Target(c)
        /\ rows' = [rows EXCEPT ![c.row] = NewRow(c)]
    BY <1>2 DEF TxOK, Commit
  <1>5. /\ rows \in Rows /\ Unique(rows) /\ Table = TableOf(rows)
        /\ rows' \in Rows /\ Unique(rows') /\ Table' = TableOf(rows')
    BY DEF IInv, TypeOK, Table, Unique
  <1>6. (c.op = "AddFence") <=> Table[c.id] = Absent
    BY <1>3, <1>4, <1>5, TableFacts DEF Target
  <1>7. ASSUME NEW id \in Ids, id # c.id
        PROVE  Table'[id] = Table[id]
    <2>1. ASSUME NEW n \in RowIds
          PROVE  n \in RowsOf(rows', id) <=> n \in RowsOf(rows, id)
      <3>1. CASE n = c.row
        <4>1. rows'[n] = NewRow(c)
          BY <1>4, <1>5, <3>1 DEF Rows
        <4>2. n \notin RowsOf(rows', id)
          BY <1>7, <4>1 DEF RowsOf, NewRow
        <4>3. n \notin RowsOf(rows, id)
          BY <1>4, <1>7, <3>1 DEF Target, RowsOf
        <4> QED
          BY <4>2, <4>3
      <3>2. CASE n # c.row
        BY <1>4, <1>5, <3>2 DEF RowsOf, Rows
      <3> QED
        BY <3>1, <3>2
    <2>2. RowsOf(rows', id) = RowsOf(rows, id)
      BY <2>1 DEF RowsOf
    <2>3. CASE RowsOf(rows, id) = {}
      BY <1>5, <2>2, <2>3, TableFacts
    <2>4. CASE RowsOf(rows, id) # {}
      <3>1. PICK n \in RowsOf(rows, id) : TRUE
        BY <2>4
      <3>2. n # c.row /\ n \in RowIds
        BY <1>4, <1>7, <3>1 DEF Target, RowsOf
      <3>3. rows'[n] = rows[n]
        BY <1>4, <1>5, <3>2 DEF Rows
      <3> QED
        BY <1>5, <2>2, <3>1, <3>3, TableFacts
    <2> QED
      BY <2>3, <2>4
  <1>8. Table'[c.id] = new
    <2>1. CASE c.op = "DeleteFence"
      <3>1. RowsOf(rows', c.id) = {}
        <4>1. \A n \in RowsOf(rows, c.id) : n = c.row
          BY <1>4, <1>5, <2>1 DEF Target, RowsOf, Unique
        <4>2. rows'[c.row] = Null /\ \A n \in RowIds \ {c.row} : rows'[n] = rows[n]
          BY <1>4, <1>5, <2>1 DEF NewRow, Rows
        <4> QED
          BY <4>1, <4>2 DEF RowsOf
      <3> QED
        BY <1>3, <1>5, <2>1, <3>1, TableFacts
    <2>2. CASE c.op # "DeleteFence"
      <3>1. rows'[c.row] = [id |-> c.id, rev |-> c.rev]
        BY <1>4, <1>5, <2>2 DEF NewRow, Rows
      <3>2. rows'[c.row] # Null
        BY <1>3, <3>1, NullFacts DEF Row
      <3>3. c.row \in RowsOf(rows', c.id)
        BY <1>4, <3>1, <3>2 DEF RowsOf
      <3> QED
        BY <1>3, <1>5, <2>2, <3>1, <3>3, TableFacts
    <2> QED
      BY <2>1, <2>2
  <1>9. Table' = [Table EXCEPT ![c.id] = new]
    BY <1>3, <1>5, <1>7, <1>8 DEF TableOf
  <1>10. Rollback(t, "ok")
    BY DEF Commit
  <1> QED
    BY <1>2, <1>6, <1>9, <1>10, RollbackAnswers
    DEF Results, Abstract!Succeed, Abstract!Finish, Abstract!NoCall, NoCall

\* A call that rolls back was answered "error", or "not found" when the fence
\* to change is not there.
LEMMA RollbackFails ==
  ASSUME IInv, NEW t \in Threads, InTx(t), UNCHANGED rows,
         \/ Rollback(t, "error")
         \/ /\ Rollback(t, "not found")
            /\ calls[t].op # "AddFence" /\ RowsOf(rows, calls[t].id) = {}
  PROVE  Abstract!Error(t) \/ Abstract!NotFound(t)
  <1>1. UNCHANGED Table
    BY SameRowsSameTable
  <1>2. CASE Rollback(t, "error")
    BY <1>1, <1>2, RollbackAnswers
    DEF Results, Abstract!Error, Abstract!Finish, Abstract!NoCall, NoCall
  <1>3. CASE ~Rollback(t, "error")
    <2>1. calls[t] \in Call
      BY InTxFacts DEF IInv
    <2>2. Table[calls[t].id] = Absent
      BY <1>3, <2>1, CallFacts, TableFacts DEF IInv, TypeOK, Table
    <2> QED
      BY <1>1, <1>3, <2>2, RollbackAnswers
      DEF Results, Abstract!NotFound, Abstract!Finish, Abstract!NoCall, NoCall
  <1> QED
    BY <1>2, <1>3

\* For every number of goroutines, fences and rows: each call of the store
\* takes effect at one instant or not at all, whatever fails or dies.
THEOREM StoreIsAtomic == Spec => Atomic
  <1>1. Init => Abstract!Init
    BY DEF Init, Abstract!Init, Table, TableOf, RowsOf, Promised,
           NoCall, Abstract!NoCall
  <1>2. IInv /\ IInv' /\ [Next]_vars => [Abstract!Next]_<<Table, Promised>>
    <2> SUFFICES ASSUME IInv, IInv', [Next]_vars
                 PROVE  Abstract!Next \/ UNCHANGED <<Table, Promised>>
      OBVIOUS
    <2>0. TypeOK
      BY DEF IInv
    <2>1. CASE Crash
      <3>1. UNCHANGED Table
        BY <2>1, SameRowsSameTable DEF Crash
      <3>2. Promised' = [t \in Threads |-> NoCall]
        BY <2>1 DEF Crash, Promised
      <3> QED
        BY <3>1, <3>2 DEF Abstract!Next, Abstract!Crash, Abstract!NoCall, NoCall
    <2>2. CASE UNCHANGED vars
      BY <2>2 DEF vars, Table, Promised
    <2>3. ASSUME NEW t \in Threads, Invoke(t)
          PROVE  Abstract!Next
      <3>1. PICK op \in Ops, id \in Ids, rev \in Revs :
              Goto(t, [op |-> op, id |-> id, rev |-> rev, res |-> "pending",
                       pc |-> "lock", row |-> Null])
        BY <2>3 DEF Invoke
      <3> DEFINE c == [op |-> op, id |-> id, rev |-> rev, res |-> "pending",
                       pc |-> "lock", row |-> Null]
                 v == [op |-> op, id |-> id, rev |-> rev, res |-> "pending"]
      <3>2. c \in Call
        BY DEF Call, Results, Steps
      <3>3. View(c) = v
        BY <3>2, CallFacts DEF View
      <3>4. Promised[t] = NoCall
        BY <2>3 DEF Invoke, Promised
      <3>5. Promised' = [Promised EXCEPT ![t] = v]
        BY <2>0, <3>1, <3>3, PromisedStep
      <3>6. v \in Abstract!Call /\ v.res = "pending"
        BY DEF Abstract!Call, Abstract!Ops, Abstract!Results, Ops
      <3>7. UNCHANGED Table
        BY <2>3, SameRowsSameTable DEF Invoke
      <3>8. Abstract!Invoke(t)
        BY <3>4, <3>5, <3>6, <3>7 DEF Abstract!Invoke, Abstract!NoCall, NoCall
      <3> QED
        BY <3>8 DEF Abstract!Next
    <2>4. ASSUME NEW t \in Threads, Begin(t)
          PROVE  UNCHANGED <<Table, Promised>>
      <3> DEFINE c == [calls[t] EXCEPT !.pc = "row"]
      <3>1. calls[t] \in Call
        BY <2>0, <2>4 DEF Begin, At, TypeOK
      <3>2. c \in Call /\ c.op = calls[t].op /\ c.id = calls[t].id
            /\ c.rev = calls[t].rev /\ c.res = calls[t].res
        BY <3>1 DEF Call, Steps
      <3> QED
        BY <2>0, <2>4, <3>1, <3>2, StatementHidden DEF Begin
    <2>5. ASSUME NEW t \in Threads, InsertRow(t) \/ UpdateRow(t) \/ DeleteRow(t)
          PROVE  Abstract!Next \/ UNCHANGED <<Table, Promised>>
      <3>1. PICK op \in Ops : At(t, op, "row")
        BY <2>5 DEF InsertRow, UpdateRow, DeleteRow, Ops
      <3>2. InTx(t) /\ calls[t].op = op /\ calls[t].pc = "row" /\ tx.rows = rows
        BY <3>1, AtInTx DEF IInv, TxOK
      <3>3. calls[t] \in Call
        BY <2>0, <3>2, InTxFacts
      <3>4. [id |-> calls[t].id, rev |-> calls[t].rev] \in Row
        BY <3>3, CallFacts DEF Row
      <3>5. CASE \E n \in RowIds, r \in Row \cup {Null} : WriteRow(t, n, r)
        BY <2>0, <3>3, <3>5, WriteHidden
      <3>6. CASE ~\E n \in RowIds, r \in Row \cup {Null} : WriteRow(t, n, r)
        <4>1. /\ UNCHANGED rows
              /\ \/ Rollback(t, "error")
                 \/ /\ Rollback(t, "not found")
                    /\ op # "AddFence" /\ RowsOf(rows, calls[t].id) = {}
          BY <2>5, <3>2, <3>4, <3>6 DEF InsertRow, UpdateRow, DeleteRow, At, RowsOf
        <4> QED
          BY <3>2, <4>1, RollbackFails DEF Abstract!Next
      <3> QED
        BY <3>5, <3>6
    <2>6. ASSUME NEW t \in Threads, InsertIndex(t) \/ UpdateIndex(t) \/ DeleteIndex(t)
          PROVE  UNCHANGED <<Table, Promised>>
      <3>1. PICK op \in Ops : At(t, op, "index")
        BY <2>6 DEF InsertIndex, UpdateIndex, DeleteIndex, Ops
      <3>2. calls[t] \in Call
        BY <2>0, <3>1, AtInTx, InTxFacts
      <3>3. Box[calls[t].rev] \in SUBSET Points
        BY <3>2, CallFacts, NullFacts
      <3> QED
        BY <2>0, <2>6, <3>2, <3>3, WriteHidden DEF InsertIndex, UpdateIndex, DeleteIndex
    <2>7. ASSUME NEW t \in Threads, Commit(t)
          PROVE  Abstract!Next
      BY <2>7, CommitSucceeds DEF Abstract!Next
    <2>8. ASSUME NEW t \in Threads, Fail(t)
          PROVE  Abstract!Next
      BY <2>8, RollbackFails DEF Fail, Abstract!Next
    <2>9. ASSUME NEW t \in Threads, Return(t)
          PROVE  Abstract!Next
      <3>1. PICK op \in Ops : At(t, op, "return")
        BY <2>9 DEF Return
      <3>2. calls[t] \in Call /\ calls[t].pc = "return"
        BY <2>0, <3>1 DEF At, TypeOK
      <3>3. calls[t] # NoCall /\ calls[t].res # "pending" /\ calls[t].op # "none"
        BY <3>1, <3>2 DEF At, IInv, Call, Ops
      <3>4. Promised[t] = [op |-> calls[t].op, id |-> calls[t].id,
                           rev |-> calls[t].rev, res |-> calls[t].res]
        BY <3>3 DEF Promised
      <3>5. Promised[t].op # NoCall.op
        BY <3>3, <3>4 DEF NoCall
      <3>6. Promised' = [Promised EXCEPT ![t] = NoCall]
        BY <2>0, <2>9, PromisedStep DEF Return, View
      <3>7. UNCHANGED Table
        BY <2>9, SameRowsSameTable DEF Return
      <3>8. Abstract!Return(t)
        BY <3>3, <3>4, <3>5, <3>6, <3>7 DEF Abstract!Return, Abstract!NoCall, NoCall
      <3> QED
        BY <3>8 DEF Abstract!Next
    <2> QED
      BY <2>1, <2>2, <2>3, <2>4, <2>5, <2>6, <2>7, <2>8, <2>9 DEF Next, Step
  <1> QED
    BY <1>1, <1>2, AlwaysInv, PTL DEF Spec, Atomic, Abstract!Spec
=============================================================================
