--------------------------- MODULE AutoSyncProofs ---------------------------
(***************************************************************************)
(* Proofs about module AutoSync, for any callers, fences, releases and     *)
(* faults.  The goroutine is one more caller of Sync, so that what         *)
(* SyncerProofs shows of any number of callers carries over; and its       *)
(* results reach the program, none dropped and none out of order.          *)
(***************************************************************************)
EXTENDS AutoSync, SyncerProofs

-----------------------------------------------------------------------------
(* AutoSync implements Syncer. *)

\* Each step of the composition is a step of Syncer, or changes nothing there.
LEMMA AutoStep == [AutoNext]_autoVars => [Next]_vars
  <1> SUFFICES ASSUME [AutoNext]_autoVars PROVE [Next]_vars
    OBVIOUS
  <1>1. CASE CallSync
    BY <1>1, AutoAssumption DEF CallSync, Next
  <1>2. CASE StartAutoSync \/ Send \/ Wake \/ Stop \/ Cancel \/ Read \/ Leave
    BY <1>2 DEF StartAutoSync, Send, Wake, Stop, Cancel, Read, Leave
  <1>3. CASE Others
    BY <1>3 DEF Others, Next
  <1>4. CASE CrashAuto
    BY <1>4 DEF CrashAuto, Next
  <1>5. CASE UNCHANGED autoVars
    BY <1>5 DEF autoVars
  <1> QED
    BY <1>1, <1>2, <1>3, <1>4, <1>5 DEF AutoNext

\* The goroutine of StartAutoSync and its channel do nothing to the client that
\* concurrent callers of Sync do not do.
THEOREM AutoImplementsSyncer == AutoSpec => Spec
  BY AutoStep, PTL DEF AutoSpec, AutoInit, Spec

\* With the goroutine and any other callers running, failing and dying, a
\* recorded version installed from a snapshot has all its fences.
THEOREM AutoVersionIsBacked == AutoSpec => []Covered
  BY AutoImplementsSyncer, VersionIsBacked, PTL

\* Nor do they bring in a fence that no release holds.
THEOREM AutoOnlyPublishedFences == AutoSpec => []Provenance
  BY AutoImplementsSyncer, OnlyPublishedFences, PTL

-----------------------------------------------------------------------------
(* Type correctness.  Every action but CallSync leaves the goroutine's call *)
(* alone, or ends it with the process.                                      *)

AutoInv == TypeOK /\ AutoTypeOK

LEMMA ResultFacts == Nothing \in Result
  BY SyncerAssumption DEF Nothing, Result

\* A result names a version that was published.
LEMMA OutcomeType == TypeOK => Outcome \in Result
  <1> SUFFICES ASSUME TypeOK PROVE Outcome \in Result
    OBVIOUS
  <1>1. job[AutoWorker].man \in Nat /\ job[AutoWorker].man <= latest
    BY AutoAssumption DEF TypeOK, Job
  <1>2. job[AutoWorker].man \in 0..MaxVersion
    BY <1>1, SyncerAssumption DEF TypeOK
  <1> QED
    BY <1>2 DEF Outcome, Result

\* A call of Sync neither starts nor ends the process.
LEMMA CallKeepsUp ==
  ASSUME NEW w \in Workers, Step(w) \/ Fail(w)
  PROVE  up /\ up'
  <1>1. up
    BY DEF Step, Fail, Begin, FetchManifest, FetchDelta, FetchSnapshot,
       UpdateFence, AddFence, SetManifest, SetVersion, StoreCurrentVer, At
  <1>2. up' = up
    BY DEF Step, Fail, Begin, FetchManifest, FetchDelta, FetchSnapshot,
       UpdateFence, AddFence, SetManifest, SetVersion, StoreCurrentVer
  <1> QED
    BY <1>1, <1>2

\* What the others do leaves the goroutine's call alone.
LEMMA OthersKeepAuto ==
  ASSUME TypeOK, Others
  PROVE  job'[AutoWorker] = job[AutoWorker] /\ (up => up')
  <1>1. CASE PublishRelease \/ CdnRefresh \/ CdnStale \/ Restart
    BY <1>1 DEF PublishRelease, CdnRefresh, CdnStale, Restart
  <1>2. ASSUME NEW w \in Workers \ {AutoWorker}, Step(w) \/ Fail(w)
        PROVE  job'[AutoWorker] = job[AutoWorker] /\ (up => up')
    BY <1>2, OthersKept, CallKeepsUp, AutoAssumption DEF TypeOK
  <1> QED
    BY <1>1, <1>2 DEF Others

LEMMA AutoInitType == AutoInit => AutoInv
  <1> SUFFICES ASSUME AutoInit PROVE AutoTypeOK
    BY InitTypeOK DEF AutoInv, AutoInit
  <1>1. job[AutoWorker].pc = "idle" /\ up
    BY IdleFacts, AutoAssumption DEF AutoInit, Init
  <1>2. <<>> \in Seq(Result) /\ Len(<<>>) <= Capacity /\ 0 \in 0..MaxVersion
    BY SyncerAssumption DEF Capacity
  <1> QED
    BY <1>1, <1>2, ResultFacts DEF AutoInit, Off, AutoTypeOK, Phases

LEMMA CallSyncType ==
  ASSUME AutoInv, CallSync
  PROVE  AutoTypeOK'
  <1>1. up /\ up'
    BY CallKeepsUp, AutoAssumption DEF CallSync
  <1>2. Outcome \in Result
    BY OutcomeType DEF AutoInv
  <1>3. CASE job'[AutoWorker].pc = "idle"
    BY <1>1, <1>2, <1>3 DEF AutoInv, AutoTypeOK, CallSync, Phases, Result
  <1>4. CASE job'[AutoWorker].pc # "idle"
    BY <1>1, <1>4 DEF AutoInv, AutoTypeOK, CallSync, Phases
  <1> QED
    BY <1>3, <1>4

\* Sending, reading and the rest of the loop.
LEMMA LoopType ==
  ASSUME AutoInv, StartAutoSync \/ Send \/ Wake \/ Stop \/ Cancel \/ Read \/ Leave
  PROVE  AutoTypeOK'
  <1> USE DEF AutoInv, AutoTypeOK, Phases
  <1>1. job' = job /\ up' = up
    BY DEF StartAutoSync, Send, Wake, Stop, Cancel, Read, Leave, vars
  <1>2. CASE StartAutoSync
    BY <1>1, <1>2 DEF StartAutoSync
  <1>3. CASE Send
    BY <1>1, <1>3, ResultFacts DEF Send, Capacity
  <1>4. CASE Wake \/ Cancel \/ Leave
    BY <1>1, <1>4 DEF Wake, Cancel, Leave
  <1>5. CASE Stop
    BY <1>1, <1>5, ResultFacts DEF Stop
  <1>6. CASE Read
    <2>1. CASE results = <<>>
      BY <1>1, <1>6, <2>1 DEF Read
    <2>2. CASE results # <<>>
      <3>1. /\ results' = Tail(results) /\ UNCHANGED <<reader, phase, pending, cancelled, stored>>
            /\ told' = IF Head(results).updated THEN Head(results).ver ELSE told
        BY <1>6, <2>2 DEF Read
      <3>2. Head(results) \in Result /\ Tail(results) \in Seq(Result)
            /\ Len(Tail(results)) <= Capacity
        BY <2>2 DEF Capacity
      <3>3. told' \in 0..MaxVersion
        BY <3>1, <3>2 DEF Result
      <3> QED
        BY <1>1, <3>1, <3>2, <3>3
    <2> QED
      BY <2>1, <2>2
  <1> QED
    BY <1>2, <1>3, <1>4, <1>5, <1>6

LEMMA AutoInvStep == AutoInv /\ [AutoNext]_autoVars => AutoInv'
  <1> SUFFICES ASSUME AutoInv, [AutoNext]_autoVars PROVE AutoTypeOK'
    BY AutoStep, NextTypeOK DEF AutoInv
  <1>1. CASE Others
    <2>1. job'[AutoWorker] = job[AutoWorker] /\ (up => up')
      BY <1>1, OthersKeepAuto DEF AutoInv
    <2> QED
      BY <1>1, <2>1 DEF Others, loopVars, AutoInv, AutoTypeOK
  <1>2. CASE CrashAuto
    <2>1. job'[AutoWorker].pc = "idle" /\ up' = FALSE
      BY <1>2, IdleFacts, AutoAssumption DEF CrashAuto, Crash
    <2>2. <<>> \in Seq(Result) /\ Len(<<>>) <= Capacity /\ 0 \in 0..MaxVersion
      BY SyncerAssumption DEF Capacity
    <2> QED
      BY <1>2, <2>1, <2>2, ResultFacts DEF CrashAuto, AutoTypeOK, Phases
  <1>3. CASE UNCHANGED autoVars
    BY <1>3 DEF autoVars, vars, loopVars, AutoInv, AutoTypeOK
  <1> QED
    BY <1>1, <1>2, <1>3, CallSyncType, LoopType DEF AutoNext

\* The goroutine is inside Sync exactly when its call runs, and the channel
\* never holds more than its capacity.
THEOREM AutoTypeCorrect == AutoSpec => []AutoTypeOK
  <1>1. AutoSpec => []AutoInv
    BY AutoInitType, AutoInvStep, PTL DEF AutoSpec
  <1> QED
    BY <1>1, PTL DEF AutoInv

-----------------------------------------------------------------------------
(* The results. *)

\* What a sequence of results says of the version installed last, if the
\* results before it said `told`.
Tells(s, told0, ver) ==
  LET updates == {i \in 1..Len(s) : s[i].updated} IN
  IF updates = {} THEN told0 = ver
  ELSE \E i \in updates : (\A k \in updates : k <= i) /\ s[i].ver = ver

\* One more result at the end.
LEMMA TellsAppend ==
  ASSUME NEW s \in Seq(Result), NEW r \in Result, NEW a, NEW v, Tells(s, a, v)
  PROVE  Tells(s \o <<r>>, a, IF r.updated THEN r.ver ELSE v)
  <1> DEFINE t == s \o <<r>>
             before == {i \in 1..Len(s) : s[i].updated}
             after  == {i \in 1..Len(t) : t[i].updated}
  <1>1. /\ Len(t) = Len(s) + 1 /\ Len(s) \in Nat
        /\ t[Len(s) + 1] = r
        /\ \A i \in 1..Len(s) : t[i] = s[i]
    OBVIOUS
  <1>2. CASE r.updated
    <2>1. Len(s) + 1 \in after /\ \A k \in after : k <= Len(s) + 1
      BY <1>1, <1>2
    <2> QED
      BY <1>1, <1>2, <2>1 DEF Tells
  <1>3. CASE ~r.updated
    <2>1. after = before
      BY <1>1, <1>3
    <2>2. \A i \in before : t[i] = s[i]
      BY <1>1
    <2> HIDE DEF t
    <2> QED
      BY <1>3, <2>1, <2>2 DEF Tells
  <1> QED
    BY <1>2, <1>3

\* The first result is read.
LEMMA TellsTail ==
  ASSUME NEW s \in Seq(Result), s # <<>>, NEW a, NEW v, Tells(s, a, v)
  PROVE  Tells(Tail(s), IF Head(s).updated THEN Head(s).ver ELSE a, v)
  <1> DEFINE t == Tail(s)
             before == {i \in 1..Len(s) : s[i].updated}
             after  == {i \in 1..Len(t) : t[i].updated}
  <1>1. /\ Len(s) = Len(t) + 1 /\ Len(t) \in Nat
        /\ Head(s) = s[1]
        /\ \A i \in 1..Len(t) : t[i] = s[i + 1]
    OBVIOUS
  <1>2. \A i \in 1..Len(t) : i \in after <=> i + 1 \in before
    BY <1>1
  <1>3. \A i \in before : i \in Nat /\ (i = 1 \/ i - 1 \in after)
    BY <1>1
  <1> DEFINE first == IF Head(s).updated THEN Head(s).ver ELSE a
  <1>4. Tells(t, first, v)
    <2> HIDE DEF t
    <2>1. CASE before = {}
      <3>1. after = {} /\ ~s[1].updated
        BY <1>1, <1>2, <2>1
      <3>2. first = a /\ a = v
        BY <1>1, <2>1, <3>1 DEF Tells
      <3> QED
        BY <3>1, <3>2 DEF Tells
    <2>2. CASE before # {}
      <3>1. PICK i \in before : (\A k \in before : k <= i) /\ s[i].ver = v
        BY <2>2 DEF Tells
      <3>2. CASE i = 1
        <4>1. after = {} /\ s[1].updated
          BY <1>1, <1>2, <3>1, <3>2
        <4>2. first = v
          BY <1>1, <3>1, <3>2, <4>1
        <4> QED
          BY <4>1, <4>2 DEF Tells
      <3>3. CASE i # 1
        <4>1. i - 1 \in after /\ t[i - 1].ver = v
          BY <1>1, <1>3, <3>1, <3>3
        <4>2. \A k \in after : k <= i - 1
          BY <1>1, <1>2, <1>3, <3>1
        <4> QED
          BY <4>1, <4>2 DEF Tells
      <3> QED
        BY <3>2, <3>3
    <2> QED
      BY <2>1, <2>2
  <1> QED
    BY <1>4

\* The empty channel tells nothing.
LEMMA TellsNothing == ASSUME NEW a PROVE Tells(<<>>, a, a)
  BY DEF Tells

LEMMA NoSilentIs == NoSilentUpdate <=> (~cancelled => Tells(OnTheWay, told, stored))
  BY DEF NoSilentUpdate, Tells

ReportInv == ~cancelled => Tells(OnTheWay, told, stored)

LEMMA ReportStep ==
  ASSUME AutoInv, ReportInv, [AutoNext]_autoVars
  PROVE  ReportInv'
  <1> SUFFICES ASSUME ~cancelled' PROVE Tells(OnTheWay', told', stored')
    BY DEF ReportInv
  <1>1. results \in Seq(Result) /\ pending \in Result
    BY DEF AutoInv, AutoTypeOK
  <1>2. CASE CallSync
    <2>1. Tells(results, told, stored) /\ told' = told /\ results' = results
      <3>1. phase # "send" /\ UNCHANGED <<cancelled, told, results>>
        BY <1>2 DEF CallSync
      <3>2. OnTheWay = results
        BY <1>1, <3>1 DEF OnTheWay
      <3> QED
        BY <3>1, <3>2 DEF ReportInv
    <2>2. CASE phase' = "send"
      <3>1. /\ OnTheWay' = results \o <<Outcome>>
            /\ stored' = IF Outcome.updated THEN Outcome.ver ELSE stored
        BY <1>2, <2>1, <2>2 DEF CallSync, OnTheWay
      <3> QED
        BY <1>1, <2>1, <3>1, TellsAppend, OutcomeType DEF AutoInv
    <2>3. CASE phase' # "send"
      BY <1>1, <1>2, <2>1, <2>3 DEF CallSync, OnTheWay
    <2> QED
      BY <2>2, <2>3
  <1>3. CASE Read
    <2>1. CASE results = <<>>
      BY <1>3, <2>1 DEF Read, ReportInv, OnTheWay
    <2>2. CASE results # <<>>
      <3> DEFINE waiting == IF phase = "send" THEN <<pending>> ELSE <<>>
      <3>1. /\ OnTheWay = results \o waiting /\ OnTheWay' = Tail(results) \o waiting
            /\ told' = IF Head(results).updated THEN Head(results).ver ELSE told
            /\ stored' = stored /\ cancelled' = cancelled
        BY <1>3, <2>2 DEF Read, OnTheWay
      <3>2. /\ OnTheWay \in Seq(Result) /\ OnTheWay # <<>>
            /\ Head(OnTheWay) = Head(results)
            /\ Tail(OnTheWay) = Tail(results) \o waiting
        BY <1>1, <2>2, <3>1
      <3> QED
        BY <3>1, <3>2, TellsTail DEF ReportInv
    <2> QED
      BY <2>1, <2>2
  <1>4. CASE Send
    <2>1. OnTheWay' = OnTheWay /\ UNCHANGED <<told, stored, cancelled>>
      BY <1>1, <1>4 DEF Send, OnTheWay
    <2> QED
      BY <2>1 DEF ReportInv
  <1>5. CASE StartAutoSync \/ Wake
    <2>1. OnTheWay' = OnTheWay /\ UNCHANGED <<told, stored, cancelled>>
      BY <1>5 DEF StartAutoSync, Wake, OnTheWay
    <2> QED
      BY <2>1 DEF ReportInv
  <1>6. CASE Stop \/ Cancel
    BY <1>6 DEF Stop, Cancel
  <1>7. CASE Leave \/ Others \/ UNCHANGED autoVars
    <2>1. OnTheWay' = OnTheWay /\ UNCHANGED <<told, stored, cancelled>>
      BY <1>7 DEF Leave, Others, loopVars, autoVars, OnTheWay
    <2> QED
      BY <2>1 DEF ReportInv
  <1>8. CASE CrashAuto
    <2>1. OnTheWay' = <<>> /\ told' = 0 /\ stored' = 0
      BY <1>8 DEF CrashAuto, OnTheWay
    <2> QED
      BY <2>1, TellsNothing
  <1> QED
    BY <1>2, <1>3, <1>4, <1>5, <1>6, <1>7, <1>8 DEF AutoNext

LEMMA ReportInit == AutoInit => ReportInv
  <1> SUFFICES ASSUME AutoInit PROVE Tells(OnTheWay, told, stored)
    BY DEF ReportInv
  <1>1. OnTheWay = <<>> /\ told = 0 /\ stored = 0
    BY DEF AutoInit, Off, OnTheWay
  <1> QED
    BY <1>1, TellsNothing

\* As long as the context lives, no update that the goroutine installs is kept
\* from the program: it was read, or is the last one on its way.
THEOREM UpdatesAreReported == AutoSpec => []NoSilentUpdate
  <1>1. AutoInv /\ ReportInv /\ [AutoNext]_autoVars => AutoInv' /\ ReportInv'
    BY AutoInvStep, ReportStep
  <1>2. AutoSpec => [](AutoInv /\ ReportInv)
    BY <1>1, AutoInitType, ReportInit, PTL DEF AutoSpec
  <1>3. ReportInv => NoSilentUpdate
    BY NoSilentIs DEF ReportInv
  <1> QED
    BY <1>2, <1>3, PTL
=============================================================================
