---------------------------- MODULE SyncerProofs ----------------------------
(***************************************************************************)
(* Theorems about Syncer, for every set of fences, collections, callers    *)
(* and every bound.                                                        *)
(***************************************************************************)
EXTENDS Syncer, TLAPS

(***************************************************************************)
(* What the local state of a call means to the shared state: which release *)
(* it installs, and that what it has taken off todo is in the table.       *)
(***************************************************************************)
JobOK(w) ==
  /\ job[w].pc \in {"delta", "snapshot", "upsert", "add", "version", "store"}
       => job[w].man \in 1..latest
  /\ job[w].pc = "add" => job[w].cur \in job[w].todo
  /\ job[w].pc = "version" => job[w].todo = {}
  /\ job[w].pc \in {"upsert", "add", "version"} =>
       /\ job[w].new \in {NoFences, release[job[w].man].fences}
       /\ FromSnapshot(job[w].man) => job[w].new = release[job[w].man].fences
       /\ job[w].todo \subseteq Present(job[w].new)
       /\ Present(job[w].new) \ job[w].todo \subseteq Present(store)

IInv == TypeOK /\ Provenance /\ Covered /\ \A w \in Workers : JobOK(w)

(***************************************************************************)
(* One caller, and a version that can be read at every start.              *)
(***************************************************************************)
Solo == (\E w \in Workers : Workers = {w}) /\ VersionReadMayFail = FALSE

(***************************************************************************)
(* With one caller nothing moves under a running call: base is still the   *)
(* version on disk, the fences already installed are those of its release, *)
(* and the two metadata rows are written in order.                         *)
(***************************************************************************)
CallOK(w) ==
  /\ job[w].pc \in {"manifest", "delta", "snapshot", "upsert", "add", "version"}
       => job[w].base = currentVer
  /\ job[w].pc \in {"delta", "snapshot", "upsert", "add", "version", "store"}
       => job[w].base < job[w].man
  /\ job[w].pc \in {"upsert", "add", "version"} =>
       \A id \in Present(job[w].new) \ job[w].todo : store[id] = job[w].new[id]
  /\ job[w].pc = "version" => dbManifest = job[w].man
  /\ job[w].pc = "store" =>
       /\ dbVersion = job[w].man /\ dbManifest = job[w].man
       /\ job[w].base = currentVer
  /\ up /\ job[w].pc # "store" => currentVer = dbVersion
  /\ ~up => job[w] = Idle

SoloInv == IInv /\ ManifestAhead /\ Fresh /\ \A w \in Workers : CallOK(w)

LEMMA NoFencesFacts == NoFences \in Collection /\ Present(NoFences) = {}
  BY DEF NoFences, Collection, Present

LEMMA IdleFacts == Idle \in Job /\ Idle.pc = "idle" /\ Idle.base = 0 /\ Idle.man = 0
  BY NoFencesFacts DEF Idle, Job, Steps

LEMMA VersionFacts ==
  ASSUME TypeOK
  PROVE  /\ latest \in Nat /\ served \in Nat /\ currentVer \in Nat
         /\ dbVersion \in Nat /\ dbManifest \in Nat
         /\ served <= latest /\ currentVer <= latest
         /\ dbVersion <= latest /\ dbManifest <= latest
  BY SyncerAssumption DEF TypeOK

\* The initial state satisfies the type invariant.
LEMMA InitTypeOK == Init => TypeOK
  <1> SUFFICES ASSUME Init PROVE TypeOK
    OBVIOUS
  <1>1. Unpublished \in Release
    BY NoFencesFacts, SyncerAssumption DEF Unpublished, Release
  <1>2. job \in [Workers -> Job] /\ \A w \in Workers : job[w] = Idle
    BY IdleFacts DEF Init
  <1> QED
    BY <1>1, <1>2, IdleFacts, NoFencesFacts, SyncerAssumption DEF Init, TypeOK

\* Whatever a step writes into the job of one worker, if it is a job then the
\* jobs stay well typed.
LEMMA GotoType ==
  ASSUME TypeOK, NEW w \in Workers, NEW rec \in Job, Goto(w, rec),
         latest' = latest, rec.base <= latest, rec.man <= latest
  PROVE  /\ job' \in [Workers -> Job]
         /\ \A u \in Workers : job'[u].base <= latest' /\ job'[u].man <= latest'
  BY DEF TypeOK, Goto

LEMMA ReturnType ==
  ASSUME TypeOK, NEW w \in Workers, Return(w), latest' = latest
  PROVE  /\ job' \in [Workers -> Job]
         /\ \A u \in Workers : job'[u].base <= latest' /\ job'[u].man <= latest'
  <1>1. 0 <= latest
    BY DEF TypeOK
  <1> QED
    BY <1>1, GotoType, IdleFacts DEF Return

\* Collections stay collections when one fence is written.
LEMMA StoreType ==
  ASSUME NEW s \in Collection, NEW c \in Collection, NEW id \in Ids
  PROVE  [s EXCEPT ![id] = c[id]] \in Collection
  BY DEF Collection

\* A step of a call keeps the type invariant.
LEMMA StepTypeOK ==
  ASSUME TypeOK, NEW w \in Workers, Step(w)
  PROVE  TypeOK'
  <1> DEFINE j == job[w]
  <1>1. j \in Job /\ j.base <= latest /\ j.man <= latest
    BY DEF TypeOK
  <1>2. /\ j.pc \in Steps /\ j.base \in Nat /\ j.man \in Nat /\ j.new \in Collection
        /\ j.todo \in SUBSET Ids /\ j.cur \in Ids \cup {Absent}
    BY <1>1 DEF Job
  <1>3. CASE Begin(w)
    <2>1. [Idle EXCEPT !.pc = "manifest", !.base = currentVer] \in Job
      BY NoFencesFacts, VersionFacts DEF Idle, Job, Steps
    <2>2. /\ [Idle EXCEPT !.pc = "manifest", !.base = currentVer].base = currentVer
          /\ [Idle EXCEPT !.pc = "manifest", !.base = currentVer].man = 0
      BY DEF Idle
    <2>3. currentVer <= latest /\ 0 <= latest /\ latest' = latest
      BY <1>3 DEF TypeOK, Begin, remoteVars
    <2>4. /\ job' \in [Workers -> Job]
          /\ \A u \in Workers : job'[u].base <= latest' /\ job'[u].man <= latest'
      BY <1>3, <2>1, <2>2, <2>3, GotoType DEF Begin
    <2> QED
      BY <1>3, <2>4 DEF Begin, TypeOK, remoteVars, dbVars
  <1>4. CASE FetchManifest(w)
    <2>1. latest' = latest
      BY <1>4 DEF FetchManifest, remoteVars
    <2>2. CASE Return(w)
      BY <1>4, <2>1, <2>2, ReturnType DEF FetchManifest, TypeOK, remoteVars, dbVars
    <2>3. CASE ~Return(w)
      <3> DEFINE rec == [j EXCEPT !.man = served,
                                  !.pc  = IF UseDelta(j.base, served)
                                            THEN "delta" ELSE "snapshot"]
      <3>1. Goto(w, rec)
        BY <1>4, <2>3 DEF FetchManifest
      <3>2. rec \in Job /\ rec.base = j.base /\ rec.man = served
        BY <1>1, VersionFacts DEF Job, Steps
      <3>3. served <= latest
        BY DEF TypeOK
      <3>4. /\ job' \in [Workers -> Job]
            /\ \A u \in Workers : job'[u].base <= latest' /\ job'[u].man <= latest'
        BY <1>1, <2>1, <3>1, <3>2, <3>3, GotoType
      <3> QED
        BY <1>4, <3>4 DEF FetchManifest, TypeOK, remoteVars, dbVars
    <2> QED
      BY <2>2, <2>3
  <1>5. ASSUME NEW c \in Collection, Install(w, c), latest' = latest
        PROVE  /\ job' \in [Workers -> Job]
               /\ \A u \in Workers : job'[u].base <= latest' /\ job'[u].man <= latest'
    <2> DEFINE rec == [j EXCEPT !.pc = "upsert", !.new = c, !.todo = Present(c)]
    <2>1. rec \in Job /\ rec.base = j.base /\ rec.man = j.man
      BY <1>1 DEF Job, Steps, Present
    <2>2. Goto(w, rec)
      BY <1>5 DEF Install
    <2> QED
      BY <1>1, <1>5, <2>1, <2>2, GotoType
  <1>6. CASE FetchDelta(w)
    <2>1. latest' = latest /\ (Return(w) \/ Install(w, NoFences))
      BY <1>6 DEF FetchDelta, remoteVars
    <2>2. /\ job' \in [Workers -> Job]
          /\ \A u \in Workers : job'[u].base <= latest' /\ job'[u].man <= latest'
      BY <2>1, <1>5, ReturnType, NoFencesFacts
    <2> QED
      BY <1>6, <2>2 DEF FetchDelta, TypeOK, remoteVars, dbVars
  <1>7. CASE FetchSnapshot(w)
    <2>1. PICK data \in Contents :
            \/ Verified(data, j.man) /\ Install(w, data) /\ UNCHANGED faults
            \/ ~Verified(data, j.man) /\ Return(w) /\ Fault
      BY <1>7 DEF FetchSnapshot
    <2>2. latest' = latest /\ data \in Collection
      BY <1>7, SyncerAssumption DEF FetchSnapshot, remoteVars
    <2>3. /\ job' \in [Workers -> Job]
          /\ \A u \in Workers : job'[u].base <= latest' /\ job'[u].man <= latest'
      BY <2>1, <2>2, <1>5, ReturnType
    <2>4. faults' \in Nat
      BY <2>1 DEF Fault, TypeOK
    <2> QED
      BY <1>7, <2>3, <2>4 DEF FetchSnapshot, TypeOK, remoteVars, dbVars
  <1>8. CASE UpdateFence(w)
    <2>1. PICK id \in j.todo :
            \/ /\ store[id] # Absent
               /\ store' = [store EXCEPT ![id] = j.new[id]]
               /\ Goto(w, [j EXCEPT !.todo = @ \ {id}])
            \/ /\ store[id] = Absent
               /\ Goto(w, [j EXCEPT !.pc = "add", !.cur = id])
               /\ UNCHANGED store
      BY <1>8 DEF UpdateFence
    <2>2. id \in Ids /\ latest' = latest
      BY <1>2, <1>8 DEF UpdateFence, remoteVars
    <2>3. /\ [j EXCEPT !.todo = @ \ {id}] \in Job
          /\ [j EXCEPT !.todo = @ \ {id}].base = j.base
          /\ [j EXCEPT !.todo = @ \ {id}].man = j.man
          /\ [j EXCEPT !.pc = "add", !.cur = id] \in Job
          /\ [j EXCEPT !.pc = "add", !.cur = id].base = j.base
          /\ [j EXCEPT !.pc = "add", !.cur = id].man = j.man
      BY <1>1, <2>2 DEF Job, Steps
    <2>4. /\ job' \in [Workers -> Job]
          /\ \A u \in Workers : job'[u].base <= latest' /\ job'[u].man <= latest'
      BY <1>1, <2>1, <2>2, <2>3, GotoType
    <2>5. store' \in Collection
      BY <1>2, <2>1, <2>2, StoreType DEF TypeOK
    <2> QED
      BY <1>8, <2>4, <2>5 DEF UpdateFence, TypeOK, remoteVars
  <1>9. CASE AddFence(w)
    <2>1. latest' = latest
      BY <1>9 DEF AddFence, remoteVars
    <2>2. CASE Return(w) /\ UNCHANGED store
      BY <1>9, <2>1, <2>2, ReturnType DEF AddFence, TypeOK, remoteVars
    <2>3. CASE ~(Return(w) /\ UNCHANGED store)
      <3> DEFINE rec == [j EXCEPT !.pc = "upsert", !.todo = @ \ {j.cur}, !.cur = Absent]
      <3>1. Goto(w, rec) /\ store' = [store EXCEPT ![j.cur] = j.new[j.cur]]
        BY <1>9, <2>3 DEF AddFence
      <3>2. rec \in Job /\ rec.base = j.base /\ rec.man = j.man
        BY <1>1 DEF Job, Steps
      <3>3. /\ job' \in [Workers -> Job]
            /\ \A u \in Workers : job'[u].base <= latest' /\ job'[u].man <= latest'
        BY <1>1, <2>1, <3>1, <3>2, GotoType
      <3>4. store' \in Collection
        <4>1. CASE j.cur \in Ids
          BY <1>2, <3>1, <4>1, StoreType DEF TypeOK
        <4>2. CASE j.cur \notin Ids
          <5>1. store' = store
            BY <3>1, <4>2 DEF TypeOK, Collection
          <5> QED
            BY <5>1 DEF TypeOK
        <4> QED
          BY <4>1, <4>2
      <3> QED
        BY <1>9, <3>3, <3>4 DEF AddFence, TypeOK, remoteVars
    <2> QED
      BY <2>2, <2>3
  <1>10. ASSUME NEW step \in Steps, Goto(w, [j EXCEPT !.pc = step]), latest' = latest
         PROVE  /\ job' \in [Workers -> Job]
                /\ \A u \in Workers : job'[u].base <= latest' /\ job'[u].man <= latest'
    <2>1. /\ [j EXCEPT !.pc = step] \in Job
          /\ [j EXCEPT !.pc = step].base = j.base /\ [j EXCEPT !.pc = step].man = j.man
      BY <1>1 DEF Job
    <2> QED
      BY <1>1, <1>10, <2>1, GotoType
  <1>11. CASE SetManifest(w)
    <2>1. "version" \in Steps /\ latest' = latest /\ j.man \in 0..latest
      BY <1>1, <1>2, <1>11 DEF Steps, SetManifest, remoteVars, TypeOK
    <2> QED
      BY <1>10, <1>11, <2>1 DEF SetManifest, TypeOK, remoteVars
  <1>12. CASE SetVersion(w)
    <2>1. "store" \in Steps /\ latest' = latest /\ j.man \in 0..latest
      BY <1>1, <1>2, <1>12 DEF Steps, SetVersion, remoteVars, TypeOK
    <2> QED
      BY <1>10, <1>12, <2>1 DEF SetVersion, TypeOK, remoteVars
  <1>13. CASE StoreCurrentVer(w)
    <2>1. latest' = latest /\ j.man \in 0..latest
      BY <1>1, <1>2, <1>13 DEF StoreCurrentVer, remoteVars, TypeOK
    <2> QED
      BY <1>13, <2>1, ReturnType DEF StoreCurrentVer, TypeOK, remoteVars, dbVars
  <1> QED
    BY <1>3, <1>4, <1>6, <1>7, <1>8, <1>9, <1>11, <1>12, <1>13 DEF Step

\* What PublishRelease does: it extends the history and rewrites none of it.
LEMMA PublishFacts ==
  ASSUME TypeOK, PublishRelease
  PROVE  /\ release' \in [Versions -> Release]
         /\ latest' = latest + 1 /\ latest' \in 0..MaxVersion
         /\ \A v \in 1..latest : release'[v] = release[v]
  <1>1. PICK c \in Contents : \E k \in DeltaKinds(latest + 1, c) :
          release' = [release EXCEPT ![latest + 1] = [fences |-> c, delta |-> k]]
    BY DEF PublishRelease
  <1>2. PICK k \in DeltaKinds(latest + 1, c) :
          release' = [release EXCEPT ![latest + 1] = [fences |-> c, delta |-> k]]
    BY <1>1
  <1>3. [fences |-> c, delta |-> k] \in Release
    <2>1. c \in Collection /\ k \in Kinds
      BY SyncerAssumption DEF DeltaKinds
    <2> QED
      BY <2>1 DEF Release
  <1> QED
    BY <1>2, <1>3, SyncerAssumption DEF TypeOK, PublishRelease, Versions

\* Every step keeps the type invariant.
LEMMA NextTypeOK == TypeOK /\ [Next]_vars => TypeOK'
  <1> SUFFICES ASSUME TypeOK, [Next]_vars PROVE TypeOK'
    OBVIOUS
  <1>1. CASE PublishRelease
    <2>1. /\ \A w \in Workers : job[w].base \in Nat /\ job[w].man \in Nat
          /\ job' = job
      BY <1>1 DEF PublishRelease, TypeOK, Job
    <2>2. \A w \in Workers : job'[w].base <= latest' /\ job'[w].man <= latest'
      BY <1>1, <2>1, PublishFacts DEF TypeOK
    <2>3. /\ served' \in 0..latest' /\ dbManifest' \in 0..latest'
          /\ dbVersion' \in 0..latest' /\ currentVer' \in 0..latest'
      BY <1>1, PublishFacts, VersionFacts DEF PublishRelease, dbVars
    <2> QED
      BY <1>1, <2>2, <2>3, PublishFacts DEF PublishRelease, TypeOK, dbVars
  <1>2. CASE CdnRefresh
    BY <1>2, SyncerAssumption DEF CdnRefresh, TypeOK, dbVars
  <1>3. CASE CdnStale
    BY <1>3, SyncerAssumption DEF CdnStale, Fault, TypeOK, dbVars
  <1>4. CASE Crash
    <2>1. /\ job' \in [Workers -> Job]
          /\ \A w \in Workers : job'[w].base <= latest /\ job'[w].man <= latest
      BY <1>4, IdleFacts DEF Crash, TypeOK
    <2>2. currentVer' \in 0..latest
      BY <1>4, VersionFacts DEF Crash
    <2>3. up' \in BOOLEAN
      BY <1>4 DEF Crash
    <2>4. faults' \in Nat
      BY <1>4 DEF Crash, Fault, TypeOK
    <2>5. UNCHANGED <<release, latest, served, store, dbManifest, dbVersion>>
      BY <1>4 DEF Crash, remoteVars, dbVars
    <2> QED
      BY <2>1, <2>2, <2>3, <2>4, <2>5 DEF TypeOK
  <1>5. CASE Restart
    BY <1>5 DEF Restart, Fault, TypeOK, remoteVars, dbVars
  <1>6. ASSUME NEW w \in Workers, Step(w) PROVE TypeOK'
    BY <1>6, StepTypeOK
  <1>7. ASSUME NEW w \in Workers, Fail(w) PROVE TypeOK'
    <2>1. latest' = latest
      BY <1>7 DEF Fail, remoteVars
    <2> QED
      BY <1>7, <2>1, ReturnType DEF Fail, Fault, TypeOK, remoteVars, dbVars
  <1>8. CASE UNCHANGED vars
    BY <1>8 DEF vars, TypeOK, remoteVars, dbVars
  <1> QED
    BY <1>1, <1>2, <1>3, <1>4, <1>5, <1>6, <1>7, <1>8 DEF Next

\* Type correctness: in every reachable state each variable has its kind, and
\* no call or metadata row refers to a version that was never published.
THEOREM TypeCorrect == Spec => []TypeOK
  BY InitTypeOK, NextTypeOK, PTL DEF Spec

-----------------------------------------------------------------------------
(* Any number of callers. *)

\* The history of releases is only ever extended.
LEMMA HistoryKept ==
  ASSUME TypeOK, [Next]_vars
  PROVE  /\ latest' \in Nat /\ latest <= latest'
         /\ \A v \in 1..latest : release'[v] = release[v]
  <1>1. CASE PublishRelease
    BY <1>1, PublishFacts, VersionFacts
  <1>2. CASE ~PublishRelease
    <2>1. latest' = latest /\ release' = release
      BY <1>2 DEF Next, Step, CdnRefresh, CdnStale, Crash, Restart, Begin,
         FetchManifest, FetchDelta, FetchSnapshot, UpdateFence, AddFence,
         SetManifest, SetVersion, StoreCurrentVer, Fail, vars, remoteVars
    <2> QED
      BY <2>1, VersionFacts
  <1> QED
    BY <1>1, <1>2

\* A fence that is left to install is one of the release being installed.
LEMMA TodoFact ==
  ASSUME TypeOK, NEW w \in Workers, JobOK(w), job[w].pc \in {"upsert", "add"},
         NEW id \in job[w].todo
  PROVE  /\ id \in Ids /\ job[w].man \in 1..latest
         /\ job[w].new = release[job[w].man].fences
         /\ job[w].new[id] # Absent
  <1>1. id \in Present(job[w].new)
    BY DEF JobOK
  <1>2. job[w].new # NoFences
    BY <1>1, NoFencesFacts
  <1> QED
    BY <1>1, <1>2 DEF JobOK, Present

\* A step leaves the fences table alone, or writes one fence of a release.
LEMMA StoreStep ==
  ASSUME TypeOK, [Next]_vars, \A w \in Workers : JobOK(w)
  PROVE  \/ store' = store
         \/ \E id \in Ids : \E v \in 1..latest :
              /\ release[v].fences[id] # Absent
              /\ store' = [store EXCEPT ![id] = release[v].fences[id]]
  <1>1. ASSUME NEW w \in Workers, UpdateFence(w), store' # store
        PROVE  \E id \in Ids : \E v \in 1..latest :
                 /\ release[v].fences[id] # Absent
                 /\ store' = [store EXCEPT ![id] = release[v].fences[id]]
    <2>1. PICK id \in job[w].todo : store' = [store EXCEPT ![id] = job[w].new[id]]
      BY <1>1 DEF UpdateFence
    <2>2. job[w].pc = "upsert" /\ JobOK(w)
      BY <1>1 DEF UpdateFence, At
    <2> QED
      BY <2>1, <2>2, TodoFact
  <1>2. ASSUME NEW w \in Workers, AddFence(w), store' # store
        PROVE  \E id \in Ids : \E v \in 1..latest :
                 /\ release[v].fences[id] # Absent
                 /\ store' = [store EXCEPT ![id] = release[v].fences[id]]
    <2> DEFINE id == job[w].cur
    <2>1. store' = [store EXCEPT ![id] = job[w].new[id]]
      BY <1>2 DEF AddFence
    <2>2. job[w].pc = "add" /\ JobOK(w) /\ id \in job[w].todo
      BY <1>2 DEF AddFence, At, JobOK
    <2> HIDE DEF id
    <2> QED
      BY <2>1, <2>2, TodoFact
  <1>3. CASE \A w \in Workers : ~UpdateFence(w) /\ ~AddFence(w)
    BY <1>3 DEF Next, Step, PublishRelease, CdnRefresh, CdnStale, Crash, Restart,
       Begin, FetchManifest, FetchDelta, FetchSnapshot, SetManifest, SetVersion,
       StoreCurrentVer, Fail, vars, dbVars
  <1> QED
    BY <1>1, <1>2, <1>3

\* No fence ever leaves the table.
LEMMA StoreGrows ==
  ASSUME TypeOK, [Next]_vars, \A w \in Workers : JobOK(w)
  PROVE  Present(store) \subseteq Present(store')
  BY StoreStep DEF Present, TypeOK, Collection

\* The recorded version is changed by SetVersion alone.
LEMMA VersionStep ==
  ASSUME [Next]_vars
  PROVE  dbVersion' = dbVersion \/ \E w \in Workers : SetVersion(w)
  BY DEF Next, Step, PublishRelease, CdnRefresh, CdnStale, Crash, Restart,
     Begin, FetchManifest, FetchDelta, FetchSnapshot, UpdateFence, AddFence,
     SetManifest, StoreCurrentVer, Fail, vars, dbVars

\* Provenance survives every step.
LEMMA ProvenanceStep ==
  ASSUME IInv, [Next]_vars
  PROVE  Provenance'
  <1>1. ASSUME NEW id \in Present(store')
        PROVE  \E v \in 1..latest : release[v].fences[id] = store'[id]
    <2>1. CASE store' = store
      BY <1>1, <2>1 DEF IInv, Provenance
    <2>2. ASSUME NEW i \in Ids, NEW v \in 1..latest,
                 store' = [store EXCEPT ![i] = release[v].fences[i]]
          PROVE  \E u \in 1..latest : release[u].fences[id] = store'[id]
      <3>1. store \in Collection /\ id \in Ids
        BY <1>1 DEF IInv, TypeOK, Present
      <3>2. CASE id = i
        BY <2>2, <3>1, <3>2 DEF Collection
      <3>3. CASE id # i
        <4>1. store'[id] = store[id] /\ id \in Present(store)
          BY <1>1, <2>2, <3>1, <3>3 DEF Present, Collection
        <4> QED
          BY <4>1 DEF IInv, Provenance
      <3> QED
        BY <3>2, <3>3
    <2> QED
      BY <2>1, <2>2, StoreStep DEF IInv
  <1>2. \A v \in 1..latest : v \in 1..latest' /\ release'[v] = release[v]
    BY HistoryKept, VersionFacts DEF IInv
  <1> QED
    BY <1>1, <1>2 DEF Provenance, Present

\* Coverage survives every step: SetVersion runs only with todo empty.
LEMMA CoveredStep ==
  ASSUME IInv, [Next]_vars
  PROVE  Covered'
  <1>1. \A v \in 1..latest : release'[v] = release[v]
    BY HistoryKept DEF IInv
  <1>2. Present(store) \subseteq Present(store')
    BY StoreGrows DEF IInv
  <1>3. CASE dbVersion' = dbVersion
    <2>1. dbVersion = 0 \/ dbVersion \in 1..latest
      BY VersionFacts DEF IInv
    <2> QED
      BY <1>1, <1>2, <1>3, <2>1 DEF IInv, Covered, FromSnapshot, Present
  <1>4. ASSUME NEW w \in Workers, SetVersion(w)
        PROVE  Covered'
    <2>1. /\ dbVersion' = job[w].man /\ job[w].pc = "version"
          /\ JobOK(w)
      BY <1>4 DEF SetVersion, At, IInv
    <2>2. dbVersion' \in 1..latest /\ job[w].todo = {}
      BY <2>1 DEF JobOK
    <2>3. FromSnapshot(dbVersion') =>
            Present(release[dbVersion'].fences) \subseteq Present(store)
      BY <2>1, <2>2 DEF JobOK
    <2> QED
      BY <1>1, <1>2, <2>2, <2>3 DEF Covered, FromSnapshot, Present
  <1> QED
    BY <1>3, <1>4, VersionStep

\* A call that does not move keeps its invariant while others do.
LEMMA JobFrame ==
  ASSUME IInv, [Next]_vars, NEW u \in Workers, job'[u] = job[u]
  PROVE  JobOK(u)'
  <1>1. \A v \in 1..latest : v \in 1..latest' /\ release'[v] = release[v]
    BY HistoryKept, VersionFacts DEF IInv
  <1>2. Present(store) \subseteq Present(store') /\ JobOK(u)
    BY StoreGrows DEF IInv
  <1> DEFINE j == job[u]
  <1>3. j = job'[u]
    OBVIOUS
  <1> HIDE DEF j
  <1>4. CASE j.pc \in {"delta", "snapshot", "upsert", "add", "version", "store"}
    <2>1. j.man \in 1..latest /\ release'[j.man] = release[j.man] /\ j.man \in 1..latest'
      BY <1>1, <1>2, <1>4 DEF JobOK, j
    <2>2. FromSnapshot(j.man)' <=> FromSnapshot(j.man)
      BY <1>3, <2>1 DEF FromSnapshot, j
    <2> QED
      BY <1>2, <1>3, <2>1, <2>2 DEF JobOK, FromSnapshot, Present, j
  <1>5. CASE j.pc \notin {"delta", "snapshot", "upsert", "add", "version", "store"}
    BY <1>3, <1>5 DEF JobOK
  <1> QED
    BY <1>4, <1>5

\* A call that returned has nothing to keep.
LEMMA JobReturned ==
  ASSUME NEW u \in Workers, job'[u] = Idle
  PROVE  JobOK(u)'
  BY IdleFacts DEF JobOK

\* A step of the call itself keeps its invariant.
LEMMA JobStep ==
  ASSUME IInv, NEW u \in Workers, Step(u), release' = release, latest' = latest,
         Present(store) \subseteq Present(store')
  PROVE  JobOK(u)'
  <1> DEFINE j == job[u]
             k == job'[u]
  <1>1. j \in Job /\ JobOK(u) /\ TypeOK /\ job \in [Workers -> Job]
    BY DEF IInv, TypeOK
  <1>2. ASSUME NEW rec, Goto(u, rec) PROVE k = rec
    BY <1>1, <1>2 DEF Goto
  <1>3. ASSUME Return(u) PROVE JobOK(u)'
    BY <1>2, <1>3, JobReturned DEF Return
  <1>4. ASSUME NEW c \in Collection, Install(u, c), j.man \in 1..latest,
               c \in {NoFences, release[j.man].fences},
               FromSnapshot(j.man) => c = release[j.man].fences
        PROVE  JobOK(u)'
    <2>1. k = [j EXCEPT !.pc = "upsert", !.new = c, !.todo = Present(c)]
      BY <1>2, <1>4 DEF Install
    <2>2. k.pc = "upsert" /\ k.new = c /\ k.todo = Present(c) /\ k.man = j.man
      BY <1>1, <2>1 DEF Job
    <2> HIDE DEF k
    <2> QED
      BY <1>4, <2>2 DEF JobOK, FromSnapshot, Present, k
  <1>5. CASE Begin(u)
    <2>1. k = [Idle EXCEPT !.pc = "manifest", !.base = currentVer]
      BY <1>2, <1>5 DEF Begin
    <2>2. k.pc = "manifest"
      BY <2>1 DEF Idle
    <2> QED
      BY <2>2 DEF JobOK
  <1>6. CASE FetchManifest(u)
    <2>1. CASE ~Return(u)
      <3>1. /\ k = [j EXCEPT !.man = served,
                             !.pc  = IF UseDelta(j.base, served)
                                       THEN "delta" ELSE "snapshot"]
            /\ ~UpToDate(j.base, served)
        BY <1>2, <1>6, <2>1 DEF FetchManifest
      <3>2. k.pc \in {"delta", "snapshot"} /\ k.man = served
        BY <1>1, <3>1 DEF Job
      <3>3. served \in 1..latest
        BY <1>1, <3>1, VersionFacts DEF UpToDate, Job
      <3> HIDE DEF k
      <3> QED
        BY <3>2, <3>3 DEF JobOK, k
    <2> QED
      BY <1>3, <2>1
  <1>7. CASE FetchDelta(u)
    <2>1. CASE Install(u, NoFences) /\ ~Return(u)
      <3>1. j.man \in 1..latest
        BY <1>1, <1>7 DEF FetchDelta, At, JobOK
      <3>2. release[j.man].delta \in {"header", "raw"}
        BY <1>7, <2>1 DEF FetchDelta
      <3> QED
        BY <1>4, <2>1, <3>1, <3>2, NoFencesFacts DEF FromSnapshot
    <2> QED
      BY <1>3, <1>7, <2>1 DEF FetchDelta
  <1>8. CASE FetchSnapshot(u)
    <2>1. PICK data \in Contents :
            \/ Verified(data, j.man) /\ Install(u, data)
            \/ Return(u)
      BY <1>8 DEF FetchSnapshot
    <2>2. CASE Verified(data, j.man) /\ Install(u, data)
      <3>1. j.man \in 1..latest /\ data \in Collection
        BY <1>1, <1>8, SyncerAssumption DEF FetchSnapshot, At, JobOK
      <3> QED
        BY <1>4, <2>2, <3>1 DEF Verified
    <2> QED
      BY <1>3, <2>1, <2>2
  <1>9. CASE UpdateFence(u)
    <2>1. PICK id \in j.todo :
            \/ /\ store[id] # Absent
               /\ Goto(u, [j EXCEPT !.todo = @ \ {id}])
            \/ Goto(u, [j EXCEPT !.pc = "add", !.cur = id])
      BY <1>9 DEF UpdateFence
    <2>2. j.pc = "upsert" /\ id \in Ids
      BY <1>1, <1>9 DEF UpdateFence, At, Job
    <2>3. CASE store[id] # Absent /\ Goto(u, [j EXCEPT !.todo = @ \ {id}])
      <3>1. k = [j EXCEPT !.todo = @ \ {id}]
        BY <1>2, <2>3
      <3>2. k.pc = "upsert" /\ k.new = j.new /\ k.todo = j.todo \ {id} /\ k.man = j.man
        BY <1>1, <2>2, <3>1 DEF Job
      <3>3. id \in Present(store')
        BY <2>2, <2>3 DEF Present
      <3> HIDE DEF k
      <3> QED
        BY <1>1, <2>2, <3>2, <3>3 DEF JobOK, FromSnapshot, Present, k
    <2>4. CASE Goto(u, [j EXCEPT !.pc = "add", !.cur = id])
      <3>1. k = [j EXCEPT !.pc = "add", !.cur = id]
        BY <1>2, <2>4
      <3>2. k.pc = "add" /\ k.new = j.new /\ k.todo = j.todo /\ k.man = j.man /\ k.cur = id
        BY <1>1, <3>1 DEF Job
      <3> HIDE DEF k
      <3> QED
        BY <1>1, <2>1, <2>2, <3>2 DEF JobOK, FromSnapshot, Present, k
    <2> QED
      BY <2>1, <2>3, <2>4
  <1>10. CASE AddFence(u)
    <2> DEFINE id == j.cur
    <2>1. CASE ~Return(u)
      <3>1. /\ Goto(u, [j EXCEPT !.pc = "upsert", !.todo = @ \ {id}, !.cur = Absent])
            /\ store' = [store EXCEPT ![id] = j.new[id]]
            /\ j.pc = "add"
        BY <1>10, <2>1 DEF AddFence, At
      <3>2. k = [j EXCEPT !.pc = "upsert", !.todo = @ \ {id}, !.cur = Absent]
        BY <1>2, <3>1
      <3>3. k.pc = "upsert" /\ k.new = j.new /\ k.todo = j.todo \ {id} /\ k.man = j.man
        BY <1>1, <3>2 DEF Job
      <3>4. id \in Ids /\ j.new[id] # Absent
        BY <1>1, <3>1, TodoFact DEF JobOK
      <3>5. id \in Present(store')
        BY <1>1, <3>1, <3>4 DEF Present, TypeOK, Collection
      <3> HIDE DEF k
      <3> QED
        BY <1>1, <3>1, <3>3, <3>5 DEF JobOK, FromSnapshot, Present, k
    <2> QED
      BY <1>3, <2>1
  <1>11. CASE SetManifest(u)
    <2>1. k = [j EXCEPT !.pc = "version"] /\ j.todo = {} /\ j.pc = "upsert"
      BY <1>2, <1>11 DEF SetManifest, At
    <2>2. k.pc = "version" /\ k.new = j.new /\ k.todo = {} /\ k.man = j.man
      BY <1>1, <2>1 DEF Job
    <2> HIDE DEF k
    <2> QED
      BY <1>1, <2>1, <2>2 DEF JobOK, FromSnapshot, Present, k
  <1>12. CASE SetVersion(u)
    <2>1. k = [j EXCEPT !.pc = "store"] /\ j.pc = "version"
      BY <1>2, <1>12 DEF SetVersion, At
    <2>2. k.pc = "store" /\ k.man = j.man
      BY <1>1, <2>1 DEF Job
    <2> HIDE DEF k
    <2> QED
      BY <1>1, <2>1, <2>2 DEF JobOK, k
  <1>13. CASE StoreCurrentVer(u)
    BY <1>3, <1>13 DEF StoreCurrentVer
  <1> QED
    BY <1>5, <1>6, <1>7, <1>8, <1>9, <1>10, <1>11, <1>12, <1>13 DEF Step

\* A step of one call leaves the job of every other call alone.
LEMMA OthersKept ==
  ASSUME NEW w \in Workers, Step(w) \/ Fail(w), NEW u \in Workers, u # w,
         job \in [Workers -> Job]
  PROVE  job'[u] = job[u]
  <1>1. ASSUME NEW rec, Goto(w, rec) PROVE job'[u] = job[u]
    BY <1>1 DEF Goto
  <1> QED
    BY <1>1 DEF Step, Begin, FetchManifest, FetchDelta, FetchSnapshot,
       UpdateFence, AddFence, SetManifest, SetVersion, StoreCurrentVer, Fail,
       Return, Install

\* A step of a call leaves the releases alone.
LEMMA StepKeepsReleases ==
  ASSUME NEW w \in Workers, Step(w)
  PROVE  release' = release /\ latest' = latest
  BY DEF Step, Begin, FetchManifest, FetchDelta, FetchSnapshot, UpdateFence,
     AddFence, SetManifest, SetVersion, StoreCurrentVer, remoteVars

\* IInv is inductive.
LEMMA IInvStep ==
  ASSUME IInv, [Next]_vars
  PROVE  IInv'
  <1>1. TypeOK' /\ Provenance' /\ Covered'
    BY NextTypeOK, ProvenanceStep, CoveredStep DEF IInv
  <1>2. ASSUME NEW u \in Workers PROVE JobOK(u)'
    <2>1. CASE job' = job
      BY <2>1, JobFrame
    <2>2. CASE Crash
      BY <2>2, JobReturned DEF Crash
    <2>3. ASSUME NEW w \in Workers, Step(w) PROVE JobOK(u)'
      <3>1. CASE u = w
        BY <2>3, <3>1, JobStep, StepKeepsReleases, StoreGrows DEF IInv
      <3>2. CASE u # w
        BY <2>3, <3>2, OthersKept, JobFrame DEF IInv, TypeOK
      <3> QED
        BY <3>1, <3>2
    <2>4. ASSUME NEW w \in Workers, Fail(w) PROVE JobOK(u)'
      <3>1. CASE u = w
        <4>1. job'[u] = Idle
          BY <2>4, <3>1 DEF Fail, Return, Goto, IInv, TypeOK
        <4> QED
          BY <4>1, JobReturned
      <3>2. CASE u # w
        BY <2>4, <3>2, OthersKept, JobFrame DEF IInv, TypeOK
      <3> QED
        BY <3>1, <3>2
    <2> QED
      BY <2>1, <2>2, <2>3, <2>4
      DEF Next, PublishRelease, CdnRefresh, CdnStale, Restart, vars
  <1> QED
    BY <1>1, <1>2 DEF IInv

LEMMA IInvInit == Init => IInv
  <1> SUFFICES ASSUME Init PROVE IInv
    OBVIOUS
  <1>1. Provenance /\ Covered
    BY NoFencesFacts DEF Init, Provenance, Covered, FromSnapshot
  <1>2. \A w \in Workers : JobOK(w)
    BY IdleFacts DEF Init, JobOK
  <1> QED
    BY <1>1, <1>2, InitTypeOK DEF IInv

LEMMA IInvAlways == Spec => []IInv
  BY IInvInit, IInvStep, PTL DEF Spec

\* Whatever the number of callers, failures and crashes, the client's database
\* holds only fences of published releases, each in a published revision.
THEOREM OnlyPublishedFences == Spec => []Provenance
  <1>1. IInv => Provenance
    BY DEF IInv
  <1> QED
    BY <1>1, IInvAlways, PTL

\* Whatever the number of callers, failures and crashes, a version that came
\* from a snapshot is recorded only when every fence of it is in the database.
THEOREM VersionIsBacked == Spec => []Covered
  <1>1. IInv => Covered
    BY DEF IInv
  <1> QED
    BY <1>1, IInvAlways, PTL

-----------------------------------------------------------------------------
(* One caller. *)

\* A step that leaves the database alone keeps Fresh and ManifestAhead.
LEMMA FreshFrame ==
  ASSUME TypeOK, Fresh, ManifestAhead, [Next]_vars, UNCHANGED dbVars
  PROVE  Fresh' /\ ManifestAhead' /\ dbVersion' = dbVersion
  <1>1. \A v \in 1..latest : v \in 1..latest' /\ release'[v] = release[v]
    BY HistoryKept, VersionFacts
  <1>2. dbVersion' = dbVersion /\ store' = store /\ dbManifest' = dbManifest
    BY DEF dbVars
  <1>3. dbVersion # 0 => \A v \in dbVersion..latest :
          v \in 1..latest /\ v \in dbVersion..latest'
    BY HistoryKept, VersionFacts
  <1>4. ASSUME FromSnapshot(dbVersion)',
               NEW id \in Present(release'[dbVersion].fences)
        PROVE  \E v \in dbVersion..latest' :
                 store[id] # Absent /\ release'[v].fences[id] = store[id]
    <2>1. dbVersion \in 1..latest /\ dbVersion # 0
      BY <1>2, <1>4, VersionFacts DEF FromSnapshot
    <2>2. FromSnapshot(dbVersion) /\ id \in Present(release[dbVersion].fences)
      BY <1>1, <1>2, <1>4, <2>1 DEF FromSnapshot
    <2>3. PICK v \in dbVersion..latest :
            store[id] # Absent /\ release[v].fences[id] = store[id]
      BY <2>2 DEF Fresh
    <2> QED
      BY <1>1, <1>3, <2>1, <2>3
  <1> QED
    BY <1>2, <1>4 DEF Fresh, ManifestAhead, Present

\* Writing one fence of a release that is not older keeps Fresh.
LEMMA FreshWrite ==
  ASSUME TypeOK, Fresh, NEW id \in Ids, NEW m \in dbVersion..latest,
         release[m].fences[id] # Absent,
         store' = [store EXCEPT ![id] = release[m].fences[id]],
         UNCHANGED <<release, latest, dbVersion>>
  PROVE  Fresh'
  <1>1. ASSUME FromSnapshot(dbVersion),
               NEW i \in Present(release[dbVersion].fences)
        PROVE  \E v \in dbVersion..latest :
                 store'[i] # Absent /\ release[v].fences[i] = store'[i]
    <2>1. i \in Ids /\ store \in Collection
      BY <1>1 DEF Present, TypeOK
    <2>2. CASE i = id
      BY <2>1, <2>2 DEF Collection
    <2>3. CASE i # id
      <3>1. store'[i] = store[i]
        BY <2>1, <2>3 DEF Collection
      <3> QED
        BY <1>1, <3>1 DEF Fresh
    <2> QED
      BY <2>2, <2>3
  <1> QED
    BY <1>1 DEF Fresh, FromSnapshot, Present

\* A step of the only call keeps everything that holds of one caller.
LEMMA SoloCallStep ==
  ASSUME SoloInv, NEW w \in Workers, Step(w), [Next]_vars
  PROVE  CallOK(w)' /\ ManifestAhead' /\ Fresh' /\ dbVersion' >= dbVersion
  <1> DEFINE j == job[w]
             k == job'[w]
  <1>1. /\ j \in Job /\ TypeOK /\ job \in [Workers -> Job] /\ JobOK(w) /\ CallOK(w)
        /\ Fresh /\ ManifestAhead
    BY DEF SoloInv, IInv, TypeOK
  <1>2. ASSUME NEW rec, Goto(w, rec) PROVE k = rec
    BY <1>1, <1>2 DEF Goto
  <1>3. ASSUME Return(w), UNCHANGED <<dbVars, up, currentVer>>, up, j.pc # "store"
        PROVE  CallOK(w)'
    <2>1. k = Idle /\ k.pc = "idle" /\ currentVer = dbVersion
      BY <1>1, <1>2, <1>3, IdleFacts DEF Return, CallOK
    <2> QED
      BY <1>3, <2>1 DEF CallOK, dbVars
  <1>4. ASSUME UNCHANGED dbVars
        PROVE  ManifestAhead' /\ Fresh' /\ dbVersion' >= dbVersion
    BY <1>1, <1>4, FreshFrame, VersionFacts
  <1>5. ASSUME NEW c, Install(w, c), UNCHANGED <<dbVars, up, currentVer>>, up,
               j.pc \in {"delta", "snapshot"}
        PROVE  CallOK(w)'
    <2>1. k = [j EXCEPT !.pc = "upsert", !.new = c, !.todo = Present(c)]
      BY <1>2, <1>5 DEF Install
    <2>2. /\ k.pc = "upsert" /\ k.new = c /\ k.todo = Present(c)
          /\ k.man = j.man /\ k.base = j.base
      BY <1>1, <2>1 DEF Job
    <2> HIDE DEF k
    <2> QED
      BY <1>1, <1>5, <2>2 DEF CallOK, dbVars, Present, k
  <1>6. CASE Begin(w)
    <2>1. k = [Idle EXCEPT !.pc = "manifest", !.base = currentVer]
      BY <1>2, <1>6 DEF Begin
    <2>2. k.pc = "manifest" /\ k.base = currentVer /\ up /\ currentVer = dbVersion
      BY <1>1, <1>6, <2>1 DEF Idle, Begin, At, CallOK
    <2>3. UNCHANGED <<dbVars, up, currentVer>>
      BY <1>6 DEF Begin
    <2>4. CallOK(w)'
      BY <2>2, <2>3 DEF CallOK, dbVars
    <2> QED
      BY <1>4, <2>3, <2>4
  <1>7. CASE FetchManifest(w)
    <2>1. UNCHANGED <<dbVars, up, currentVer>> /\ up /\ j.pc = "manifest"
      BY <1>7 DEF FetchManifest, At
    <2>2. CASE ~Return(w)
      <3>1. /\ k = [j EXCEPT !.man = served,
                             !.pc  = IF UseDelta(j.base, served)
                                       THEN "delta" ELSE "snapshot"]
            /\ ~UpToDate(j.base, served)
        BY <1>2, <1>7, <2>2 DEF FetchManifest
      <3>2. k.pc \in {"delta", "snapshot"} /\ k.man = served /\ k.base = j.base
        BY <1>1, <3>1 DEF Job
      <3>3. j.base < served
        BY <1>1, <3>1, VersionFacts DEF UpToDate, Job
      <3> HIDE DEF k
      <3>4. CallOK(w)'
        BY <1>1, <2>1, <3>2, <3>3 DEF CallOK, dbVars, k
      <3> QED
        BY <1>4, <2>1, <3>4
    <2> QED
      BY <1>3, <1>4, <2>1, <2>2
  <1>8. CASE FetchDelta(w)
    <2>1. /\ UNCHANGED <<dbVars, up, currentVer>> /\ up /\ j.pc = "delta"
          /\ Return(w) \/ Install(w, NoFences)
      BY <1>8 DEF FetchDelta, At
    <2> QED
      BY <1>3, <1>4, <1>5, <2>1
  <1>9. CASE FetchSnapshot(w)
    <2>1. /\ UNCHANGED <<dbVars, up, currentVer>> /\ up /\ j.pc = "snapshot"
          /\ Return(w) \/ \E c : Install(w, c)
      BY <1>9 DEF FetchSnapshot, At
    <2> QED
      BY <1>3, <1>4, <1>5, <2>1
  <1>10. ASSUME j.pc \in {"upsert", "add"}, up
         PROVE  j.man \in dbVersion..latest
    BY <1>1, <1>10, VersionFacts DEF CallOK, JobOK, Job
  <1>11. CASE UpdateFence(w)
    <2>1. PICK id \in j.todo :
            \/ /\ store' = [store EXCEPT ![id] = j.new[id]]
               /\ Goto(w, [j EXCEPT !.todo = @ \ {id}])
            \/ Goto(w, [j EXCEPT !.pc = "add", !.cur = id]) /\ UNCHANGED store
      BY <1>11 DEF UpdateFence
    <2>2. /\ j.pc = "upsert" /\ up
          /\ UNCHANGED <<release, latest, dbManifest, dbVersion, up, currentVer>>
      BY <1>11 DEF UpdateFence, At, remoteVars
    <2>3. /\ id \in Ids /\ j.man \in 1..latest
          /\ j.new = release[j.man].fences /\ j.new[id] # Absent
      BY <1>1, <2>2, TodoFact
    <2>4. CASE /\ store' = [store EXCEPT ![id] = j.new[id]]
               /\ Goto(w, [j EXCEPT !.todo = @ \ {id}])
      <3>1. k = [j EXCEPT !.todo = @ \ {id}]
        BY <1>2, <2>4
      <3>2. /\ k.pc = "upsert" /\ k.new = j.new /\ k.todo = j.todo \ {id}
            /\ k.man = j.man /\ k.base = j.base
        BY <1>1, <2>2, <3>1 DEF Job
      <3>3. \A i \in Ids : store'[i] = IF i = id THEN j.new[i] ELSE store[i]
        BY <1>1, <2>4 DEF TypeOK, Collection
      <3> HIDE DEF k
      <3>4. CallOK(w)'
        BY <1>1, <2>2, <3>2, <3>3 DEF CallOK, Present, k
      <3>5. Fresh'
        BY <1>1, <1>10, <2>2, <2>3, <2>4, FreshWrite
      <3> QED
        BY <1>1, <2>2, <3>4, <3>5, VersionFacts DEF ManifestAhead
    <2>5. CASE Goto(w, [j EXCEPT !.pc = "add", !.cur = id]) /\ UNCHANGED store
      <3>1. k = [j EXCEPT !.pc = "add", !.cur = id]
        BY <1>2, <2>5
      <3>2. /\ k.pc = "add" /\ k.new = j.new /\ k.todo = j.todo
            /\ k.man = j.man /\ k.base = j.base
        BY <1>1, <3>1 DEF Job
      <3> HIDE DEF k
      <3>3. CallOK(w)'
        BY <1>1, <2>2, <2>5, <3>2 DEF CallOK, Present, k
      <3> QED
        BY <1>4, <2>2, <2>5, <3>3 DEF dbVars
    <2> QED
      BY <2>1, <2>4, <2>5
  <1>12. CASE AddFence(w)
    <2> DEFINE id == j.cur
    <2>1. /\ j.pc = "add" /\ up
          /\ UNCHANGED <<release, latest, dbManifest, dbVersion, up, currentVer>>
      BY <1>12 DEF AddFence, At, remoteVars
    <2>2. CASE Return(w) /\ UNCHANGED store
      <3>1. UNCHANGED <<dbVars, up, currentVer>>
        BY <2>1, <2>2 DEF dbVars
      <3> QED
        BY <1>3, <1>4, <2>1, <2>2, <3>1
    <2>3. CASE ~(Return(w) /\ UNCHANGED store)
      <3>1. /\ k = [j EXCEPT !.pc = "upsert", !.todo = @ \ {id}, !.cur = Absent]
            /\ store' = [store EXCEPT ![id] = j.new[id]]
        BY <1>2, <1>12, <2>3 DEF AddFence
      <3>2. /\ k.pc = "upsert" /\ k.new = j.new /\ k.todo = j.todo \ {id}
            /\ k.man = j.man /\ k.base = j.base
        BY <1>1, <3>1 DEF Job
      <3>3. /\ id \in Ids /\ j.man \in 1..latest
            /\ j.new = release[j.man].fences /\ j.new[id] # Absent
        BY <1>1, <2>1, TodoFact DEF JobOK
      <3>4. \A i \in Ids : store'[i] = IF i = id THEN j.new[i] ELSE store[i]
        BY <1>1, <3>1 DEF TypeOK, Collection
      <3> HIDE DEF k, id
      <3>5. CallOK(w)'
        BY <1>1, <2>1, <3>2, <3>4 DEF CallOK, Present, k
      <3>6. Fresh'
        BY <1>1, <1>10, <2>1, <3>1, <3>3, FreshWrite
      <3> QED
        BY <1>1, <2>1, <3>5, <3>6, VersionFacts DEF ManifestAhead
    <2> QED
      BY <2>2, <2>3
  <1>13. CASE SetManifest(w)
    <2>1. /\ k = [j EXCEPT !.pc = "version"] /\ j.todo = {} /\ j.pc = "upsert" /\ up
          /\ dbManifest' = j.man
          /\ UNCHANGED <<release, latest, store, dbVersion, up, currentVer>>
      BY <1>2, <1>13 DEF SetManifest, At, remoteVars
    <2>2. /\ k.pc = "version" /\ k.new = j.new /\ k.todo = {}
          /\ k.man = j.man /\ k.base = j.base
      BY <1>1, <2>1 DEF Job
    <2>3. j.man \in dbVersion..latest
      BY <1>10, <2>1
    <2> HIDE DEF k
    <2>4. CallOK(w)'
      BY <1>1, <2>1, <2>2 DEF CallOK, Present, k
    <2>5. Fresh' /\ ManifestAhead'
      BY <1>1, <2>1, <2>3, VersionFacts DEF Fresh, ManifestAhead, FromSnapshot, Present
    <2> QED
      BY <1>1, <2>1, <2>4, <2>5, VersionFacts
  <1>14. CASE SetVersion(w)
    <2>1. /\ k = [j EXCEPT !.pc = "store"] /\ j.pc = "version" /\ up
          /\ dbVersion' = j.man
          /\ UNCHANGED <<release, latest, store, dbManifest, up, currentVer>>
      BY <1>2, <1>14 DEF SetVersion, At, remoteVars
    <2>2. k.pc = "store" /\ k.man = j.man /\ k.base = j.base
      BY <1>1, <2>1 DEF Job
    <2>3. /\ j.man \in 1..latest /\ dbManifest = j.man /\ j.base = currentVer
          /\ currentVer = dbVersion /\ j.base < j.man /\ j.todo = {}
      BY <1>1, <2>1 DEF CallOK, JobOK
    <2>4. j.man > dbVersion /\ j.man \in j.man..latest
      BY <2>3, <1>1, VersionFacts DEF Job
    <2>5. Fresh'
      <3>1. FromSnapshot(j.man) =>
              \A id \in Present(release[j.man].fences) :
                store[id] = release[j.man].fences[id]
        BY <1>1, <2>1, <2>3 DEF CallOK, JobOK
      <3> QED
        BY <2>1, <2>4, <3>1 DEF Fresh, FromSnapshot, Present
    <2> HIDE DEF k
    <2>6. CallOK(w)'
      BY <2>1, <2>2, <2>3 DEF CallOK, k
    <2> QED
      BY <1>1, <2>1, <2>3, <2>4, <2>5, <2>6, VersionFacts DEF ManifestAhead
  <1>15. CASE StoreCurrentVer(w)
    <2>1. /\ k = Idle /\ j.pc = "store" /\ up /\ currentVer' = j.man
          /\ UNCHANGED <<dbVars, up>>
      BY <1>2, <1>15 DEF StoreCurrentVer, At, Return
    <2>2. CallOK(w)'
      BY <1>1, <2>1, IdleFacts DEF CallOK, dbVars
    <2> QED
      BY <1>4, <2>1, <2>2
  <1> QED
    BY <1>6, <1>7, <1>8, <1>9, <1>11, <1>12, <1>13, <1>14, <1>15 DEF Step

\* SoloInv is inductive when there is one caller, and no step that starts in it
\* lowers the recorded version.
LEMMA SoloStep ==
  ASSUME Solo, SoloInv, [Next]_vars
  PROVE  SoloInv' /\ dbVersion' >= dbVersion
  <1>1. PICK w0 \in Workers : Workers = {w0}
    BY DEF Solo
  <1>2. TypeOK /\ Fresh /\ ManifestAhead /\ CallOK(w0) /\ job \in [Workers -> Job]
    BY <1>1 DEF SoloInv, IInv, TypeOK
  <1>3. IInv'
    BY IInvStep DEF SoloInv
  <1>4. SUFFICES CallOK(w0)' /\ ManifestAhead' /\ Fresh' /\ dbVersion' >= dbVersion
    BY <1>1, <1>3 DEF SoloInv
  <1>5. ASSUME UNCHANGED dbVars
        PROVE  ManifestAhead' /\ Fresh' /\ dbVersion' >= dbVersion
    BY <1>2, <1>5, FreshFrame, VersionFacts
  <1>6. ASSUME UNCHANGED <<dbVars, up, currentVer, job>>
        PROVE  CallOK(w0)'
    BY <1>2, <1>6 DEF CallOK, dbVars, Present
  <1>7. CASE PublishRelease \/ CdnRefresh \/ CdnStale \/ UNCHANGED vars
    <2>1. UNCHANGED <<dbVars, up, currentVer, job>>
      BY <1>7 DEF PublishRelease, CdnRefresh, CdnStale, vars
    <2> QED
      BY <1>5, <1>6, <2>1
  <1>8. CASE Crash
    <2>1. UNCHANGED dbVars /\ up' = FALSE /\ job'[w0] = Idle
      BY <1>1, <1>8 DEF Crash
    <2> QED
      BY <1>5, <2>1, IdleFacts DEF CallOK
  <1>9. CASE Restart
    <2>1. UNCHANGED <<dbVars, job>> /\ currentVer' = dbVersion /\ ~up
      BY <1>9 DEF Restart, Solo
    <2>2. job'[w0] = Idle /\ dbVersion' = dbVersion
      BY <1>2, <2>1 DEF CallOK, dbVars
    <2> QED
      BY <1>5, <2>1, <2>2, IdleFacts DEF CallOK
  <1>10. CASE Step(w0)
    BY <1>10, SoloCallStep
  <1>11. CASE Fail(w0)
    <2>1. /\ UNCHANGED <<dbVars, up, currentVer>> /\ up /\ job[w0].pc # "store"
          /\ job'[w0] = Idle
      BY <1>2, <1>11 DEF Fail, Return, Goto
    <2>2. currentVer' = dbVersion' /\ up'
      BY <1>2, <2>1 DEF CallOK, dbVars
    <2> QED
      BY <1>5, <2>1, <2>2, IdleFacts DEF CallOK
  <1> QED
    BY <1>1, <1>7, <1>8, <1>9, <1>10, <1>11 DEF Next

LEMMA SoloInit == Init => SoloInv
  <1> SUFFICES ASSUME Init PROVE SoloInv
    OBVIOUS
  <1>1. \A w \in Workers : CallOK(w)
    BY IdleFacts DEF Init, CallOK
  <1>2. ManifestAhead /\ Fresh
    BY DEF Init, ManifestAhead, Fresh, FromSnapshot
  <1> QED
    BY <1>1, <1>2, IInvInit DEF SoloInv

LEMMA SoloAlways ==
  ASSUME Solo
  PROVE  Spec => []SoloInv
  <1>1. SoloInv /\ [Next]_vars => SoloInv'
    BY SoloStep
  <1> QED
    BY <1>1, SoloInit, PTL DEF Spec

\* With one caller and a readable version the recorded version never goes
\* back, whatever fails and however old the manifests the edges serve.
THEOREM SoloNoRollback ==
  ASSUME Solo
  PROVE  Spec => NoRollback
  <1>1. SoloInv /\ [Next]_vars => [dbVersion' >= dbVersion]_dbVersion
    BY SoloStep
  <1> QED
    BY <1>1, SoloAlways, PTL DEF Spec, NoRollback

\* With one caller no fence of the recorded version is ever older than that
\* version, however an update was interrupted.
THEOREM SoloFresh ==
  ASSUME Solo
  PROVE  Spec => []Fresh
  <1>1. SoloInv => Fresh
    BY DEF SoloInv
  <1> QED
    BY <1>1, SoloAlways, PTL

\* With one caller the stored manifest is never older than the stored version,
\* which updateStorage writes after it, whatever fails and restarts in between.
THEOREM SoloManifestAhead ==
  ASSUME Solo
  PROVE  Spec => []ManifestAhead
  <1>1. SoloInv => ManifestAhead
    BY DEF SoloInv
  <1> QED
    BY <1>1, SoloAlways, PTL

\* With one caller the version in memory trails the recorded one only between
\* the last two steps of a call: updateStorage's SetVersion and the store to
\* currentVer.
THEOREM SoloMemoryMatches ==
  ASSUME Solo
  PROVE  Spec => []MemoryMatchesDisk
  <1>1. SoloInv => MemoryMatchesDisk
    <2> SUFFICES ASSUME SoloInv PROVE MemoryMatchesDisk
      OBVIOUS
    <2>1. PICK w0 \in Workers : Workers = {w0}
      BY DEF Solo
    <2>2. CallOK(w0)
      BY DEF SoloInv
    <2>3. up => \/ currentVer = dbVersion
                \/ job[w0].pc = "store" /\ currentVer < dbVersion
      BY <2>2 DEF CallOK
    <2> QED
      BY <2>3 DEF SoloInv, MemoryMatchesDisk
  <1> QED
    BY <1>1, SoloAlways, PTL
=============================================================================
