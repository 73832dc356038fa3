------------------------------ MODULE AutoSync ------------------------------
(***************************************************************************)
(* StartAutoSync of pkg/sync/syncer.go, composed with the Syncer it runs   *)
(* on: a goroutine that calls Sync once, and then at every tick, and sends *)
(* each result into a channel of capacity 1 that the program reads.  Other *)
(* goroutines call Sync on the same Syncer meanwhile.  A result that is    *)
(* not read blocks the goroutine, and with it the next Sync; cancelling    *)
(* the context ends it and closes the channel.                             *)
(*                                                                         *)
(* The channel, the ticker, the context and select are Go's: external.     *)
(***************************************************************************)
EXTENDS Syncer, Sequences

CONSTANT AutoWorker  \* the worker whose Sync calls the goroutine makes

ASSUME AutoAssumption == AutoWorker \in Workers

VARIABLES
  phase,      \* where the goroutine of StartAutoSync is
  pending,    \* the result it wants to send
  results,    \* what is in the channel
  cancelled,  \* ctx is done
  reader,     \* the program ranges over the results, has left, or was told the end
  stored,     \* history: the version the goroutine's last update installed
  told        \* history: the version of the last update the program read of

loopVars == <<phase, pending, results, cancelled, reader, stored, told>>
autoVars == <<vars, loopVars>>

Capacity == 1
Phases   == {"off", "begin", "sync", "send", "wait", "closed"}
Result   == [updated : BOOLEAN, ver : 0..MaxVersion]
Nothing  == [updated |-> FALSE, ver |-> 0]

Off ==
  /\ phase = "off" /\ pending = Nothing /\ results = <<>>
  /\ cancelled = FALSE /\ reader = "away"
  /\ stored = 0 /\ told = 0

AutoInit == Init /\ Off

-----------------------------------------------------------------------------
(* The goroutine. *)

\* The program starts it, and ranges over the channel it gets.
StartAutoSync ==
  /\ up /\ phase = "off"
  /\ phase' = "begin" /\ reader' = "reading"
  /\ UNCHANGED <<vars, pending, results, cancelled, stored, told>>

\* The SyncResult of a call that returns in this step.
Outcome == [updated |-> job[AutoWorker].pc = "store", ver |-> job[AutoWorker].man]

\* The goroutine ends when a call fails.
CallSyncUntilError ==
  /\ phase \in {"begin", "sync"}
  /\ Step(AutoWorker) \/ Fail(AutoWorker)
  /\ phase' = IF job'[AutoWorker].pc # "idle" THEN "sync"
              ELSE IF faults' # faults THEN "closed" ELSE "send"
  /\ pending' = IF phase' = "send" THEN Outcome ELSE pending
  /\ stored' = IF phase' = "send" /\ Outcome.updated THEN Outcome.ver ELSE stored
  /\ UNCHANGED <<results, cancelled, reader, told>>

\* One step of the Sync call the goroutine makes, or the call fails.  That a
\* cancelled context makes downloads and storage calls fail is such a Fail.
CallSync ==
  /\ phase \in {"begin", "sync"}
  /\ Step(AutoWorker) \/ Fail(AutoWorker)
  /\ IF job'[AutoWorker].pc = "idle"
       THEN /\ phase' = "send" /\ pending' = Outcome
            /\ stored' = IF Outcome.updated THEN Outcome.ver ELSE stored
       ELSE phase' = "sync" /\ UNCHANGED <<pending, stored>>
  /\ UNCHANGED <<results, cancelled, reader, told>>

\* The result is thrown away when the channel is full (select with default).
SendOrDrop ==
  /\ up /\ phase = "send"
  /\ results' = IF Len(results) < Capacity THEN Append(results, pending) ELSE results
  /\ pending' = Nothing /\ phase' = "wait"
  /\ UNCHANGED <<vars, cancelled, reader, stored, told>>

\* The channel has no bound.
SendAlways ==
  /\ up /\ phase = "send"
  /\ Len(results) <= Capacity
  /\ results' = Append(results, pending)
  /\ pending' = Nothing /\ phase' = "wait"
  /\ UNCHANGED <<vars, cancelled, reader, stored, told>>

\* case results <- result
Send ==
  /\ up /\ phase = "send"
  /\ Len(results) < Capacity
  /\ results' = Append(results, pending)
  /\ pending' = Nothing /\ phase' = "wait"
  /\ UNCHANGED <<vars, cancelled, reader, stored, told>>

\* case <-ticker.C: the interval has passed.  The ticker runs from before the
\* first Sync and holds one tick, so a late goroutine finds one waiting.
Wake ==
  /\ up /\ phase = "wait"
  /\ phase' = "begin"
  /\ UNCHANGED <<vars, pending, results, cancelled, reader, stored, told>>

\* The context is looked at only while there is nothing to send.
StopWaiting ==
  /\ up /\ phase = "wait" /\ cancelled
  /\ phase' = "closed" /\ pending' = Nothing
  /\ UNCHANGED <<vars, results, cancelled, reader, stored, told>>

\* case <-ctx.Done(): the deferred ticker.Stop and close(results).
Stop ==
  /\ up /\ phase \in {"send", "wait"} /\ cancelled
  /\ phase' = "closed" /\ pending' = Nothing
  /\ UNCHANGED <<vars, results, cancelled, reader, stored, told>>

-----------------------------------------------------------------------------
(* What surrounds it. *)

Cancel ==
  /\ up /\ phase # "off" /\ ~cancelled
  /\ cancelled' = TRUE
  /\ UNCHANGED <<vars, phase, pending, results, reader, stored, told>>

\* The program takes the next result, or finds the channel closed.
Read ==
  /\ up /\ reader = "reading"
  /\ \/ /\ results # <<>>
        /\ results' = Tail(results)
        /\ told' = IF Head(results).updated THEN Head(results).ver ELSE told
        /\ UNCHANGED reader
     \/ /\ results = <<>> /\ phase = "closed"
        /\ reader' = "ended"
        /\ UNCHANGED <<results, told>>
  /\ UNCHANGED <<vars, phase, pending, cancelled, stored>>

\* The program stops reading and keeps the goroutine running.
Leave ==
  /\ up /\ reader = "reading"
  /\ reader' = "away"
  /\ UNCHANGED <<vars, phase, pending, results, cancelled, stored, told>>

\* Calls of Sync by other goroutines, and the remote side.
Others ==
  /\ \/ PublishRelease \/ CdnRefresh \/ CdnStale \/ Restart
     \/ \E w \in Workers \ {AutoWorker} : Step(w) \/ Fail(w)
  /\ UNCHANGED loopVars

\* The process dies, and the goroutine, the channel and the reader with it.
CrashAuto ==
  /\ Crash
  /\ phase' = "off" /\ pending' = Nothing /\ results' = <<>>
  /\ cancelled' = FALSE /\ reader' = "away"
  /\ stored' = 0 /\ told' = 0

AutoNext ==
  \/ StartAutoSync \/ CallSync \/ Send \/ Wake \/ Stop
  \/ Cancel \/ Read \/ Leave
  \/ Others \/ CrashAuto

\* The Go scheduler runs the goroutine, every call returns, the ticker ticks
\* and a program that reads goes on reading.  When several cases of a select
\* are ready Go picks one at random, so none is passed over for ever (SF).
AutoFairness ==
  /\ WF_autoVars(CallSync) /\ WF_autoVars(Send) /\ WF_autoVars(Wake)
  /\ SF_autoVars(Stop)
  /\ WF_autoVars(Read)

AutoSpec     == AutoInit /\ [][AutoNext]_autoVars
AutoFairSpec == AutoSpec /\ AutoFairness

-----------------------------------------------------------------------------
(* Properties. *)

\* Every variable holds a value of its kind; the goroutine is inside Sync just
\* when it says so, and the channel never holds more than its capacity.
AutoTypeOK ==
  /\ phase \in Phases
  /\ pending \in Result /\ results \in Seq(Result) /\ Len(results) <= Capacity
  /\ cancelled \in BOOLEAN
  /\ reader \in {"away", "reading", "ended"}
  /\ stored \in 0..MaxVersion /\ told \in 0..MaxVersion
  /\ phase = "sync" <=> job[AutoWorker].pc # "idle"
  /\ ~up => phase = "off"

\* The results of updates still on their way to the program, oldest first.
OnTheWay == results \o (IF phase = "send" THEN <<pending>> ELSE <<>>)

\* As long as the context is not cancelled, the program learns of every update
\* the goroutine installs: the last one was read, or it is on its way and
\* nothing after it says otherwise.  A result is never dropped for want of room.
NoSilentUpdate ==
  ~cancelled =>
    LET updates == {i \in 1..Len(OnTheWay) : OnTheWay[i].updated} IN
    IF updates = {} THEN told = stored
    ELSE \E i \in updates : /\ \A k \in updates : k <= i
                            /\ OnTheWay[i].ver = stored

\* Cancelling the context ends the goroutine, even if nobody reads.
EndsAfterCancel == cancelled ~> (phase = "closed" \/ ~up)

\* While the context lives and the program reads, Sync runs again and again,
\* whether its calls succeed or fail.
KeepsSyncing ==
  <>[](up /\ phase # "off" /\ ~cancelled /\ reader # "away")
    => []<>(phase = "begin") /\ []<>(phase = "sync")

\* A program that stops reading stops the synchronisation: the goroutine ends
\* up at its send and stays there as long as the context lives.
UnreadStopsSyncing ==
  <>[](up /\ phase # "off" /\ ~cancelled /\ reader = "away")
    => <>[](phase = "send")
=============================================================================
