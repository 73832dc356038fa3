----------------------------- MODULE FenceTable -----------------------------
(***************************************************************************)
(* What pkg/storage promises of its three writing calls: a table from      *)
(* fence identifiers to fences, on which AddFence, UpdateFence and         *)
(* DeleteFence each take effect at one instant between call and return, or *)
(* not at all.                                                             *)
(***************************************************************************)
CONSTANTS
  Threads,  \* goroutines that call the store
  Ids,      \* identifiers of fences
  Revs,     \* what a fence may say
  Absent    \* no fence under this identifier

VARIABLES
  table,  \* the fences
  calls   \* the call each goroutine is in

Ops     == {"AddFence", "UpdateFence", "DeleteFence"}
Results == {"pending", "ok", "not found", "error"}
Call    == [op : Ops, id : Ids, rev : Revs, res : Results]
NoCall  == [op |-> "none"]

Init == table = [id \in Ids |-> Absent] /\ calls = [t \in Threads |-> NoCall]

Invoke(t) ==
  /\ calls[t] = NoCall
  /\ \E c \in Call : c.res = "pending" /\ calls' = [calls EXCEPT ![t] = c]
  /\ UNCHANGED table

Finish(t, res) == calls' = [calls EXCEPT ![t] = [calls[t] EXCEPT !.res = res]]

\* The call takes effect.
Succeed(t) ==
  LET c == calls[t] IN
  /\ c # NoCall /\ c.res = "pending"
  /\ (c.op = "AddFence") <=> (table[c.id] = Absent)
  /\ table' = [table EXCEPT ![c.id] =
                 IF c.op = "DeleteFence" THEN Absent ELSE c.rev]
  /\ Finish(t, "ok")

\* The fence to change or to delete is not there.
NotFound(t) ==
  LET c == calls[t] IN
  /\ c # NoCall /\ c.res = "pending"
  /\ c.op # "AddFence" /\ table[c.id] = Absent
  /\ Finish(t, "not found")
  /\ UNCHANGED table

\* The call fails, and has changed nothing.
Error(t) ==
  /\ calls[t] # NoCall /\ calls[t].res = "pending"
  /\ Finish(t, "error")
  /\ UNCHANGED table

Return(t) ==
  /\ calls[t] # NoCall /\ calls[t].res # "pending"
  /\ calls' = [calls EXCEPT ![t] = NoCall]
  /\ UNCHANGED table

\* The process dies: its calls are gone, the table stays.
Crash == calls' = [t \in Threads |-> NoCall] /\ UNCHANGED table

Next ==
  \/ Crash
  \/ \E t \in Threads :
       Invoke(t) \/ Succeed(t) \/ NotFound(t) \/ Error(t) \/ Return(t)

Spec == Init /\ [][Next]_<<table, calls>>
=============================================================================
