------------------------ MODULE VersionManagerProofs ------------------------
(***************************************************************************)
(* Theorems about VersionManager, for every number of goroutines, every    *)
(* set of fences and versions, and whatever fails or dies.                 *)
(***************************************************************************)
EXTENDS VersionManager, TLAPS

(***************************************************************************)
(* What is announced is kept, and manifest.json was announced.             *)
(***************************************************************************)
SnapshotsKept == \A m \in announced : snapFile[m.body.ver] = m.body.fences
Current       == Complete(manFile) =>
                   /\ manFile \in announced
                   /\ manFile.body.delta # None =>
                        deltaFile[manFile.body.ver] = manFile.body.delta
InMemory      == IF up THEN currentVersion = dbVersion
                       ELSE \A t \in Threads : calls[t] = Idle

(***************************************************************************)
(* What the call that holds the lock has written, by the step it is at.    *)
(***************************************************************************)
Recording  == {"metaManifest", "metaVersion"}
Snapping   == {"snapshot", "snapshotData"}
Announcing == {"manifest", "manifestData"}
Patching   == {"old", "delta", "deltaData"}

Written(t) ==
  LET c == calls[t] IN
  /\ c.pc \in Recording => c.ver = dbVersion + 1
  /\ c.pc \in Snapping \cup Announcing \cup Patching => c.ver = dbVersion
  /\ c.pc \in Recording \cup Snapping => c.delta = None
  /\ c.pc \in Snapping => \A m \in announced : m.body.ver # c.ver
  /\ c.pc \in Announcing \cup Patching => snapFile[c.ver] = c.new
  /\ c.pc \in Announcing /\ c.delta # None => deltaFile[c.ver] = c.delta
  /\ c.pc \in Patching => Complete(manFile) /\ manFile.body.delta = None

Shared == RecordedFirst /\ SnapshotsKept /\ Current /\ InMemory
IInv   == TypeOK /\ Shared /\ \A t \in Threads : Written(t)

-----------------------------------------------------------------------------
LEMMA NoFencesType == NoFences \in Collection
  BY DEF NoFences, Collection

LEMMA IdleType == Idle \in Call /\ Idle.pc = "idle"
  BY NoFencesType DEF Idle, Call, Steps

LEMMA StepKinds ==
  /\ PublishSteps = Recording \cup Snapping \cup Announcing \cup Patching
  /\ {"idle", "get", "add", "update"} \cap PublishSteps = {}
  BY DEF PublishSteps, Recording, Snapping, Announcing, Patching

\* The call that publishes holds the lock, and no other call does.
LEMMA Holder ==
  ASSUME TypeOK, NEW t \in Threads, calls[t].pc \in PublishSteps
  PROVE  /\ holder = t /\ calls[t] \in Call /\ calls[t].ver \in Versions
         /\ calls[t].new \in Collection /\ calls[t].delta \in Delta \cup {None}
         /\ \A u \in Threads \ {t} : calls[u].pc \notin PublishSteps
  BY DEF TypeOK, Call

\* What a call signs and writes is a manifest.
LEMMA ManifestType ==
  ASSUME TypeOK, NEW t \in Threads, calls[t].pc \in PublishSteps
  PROVE  /\ ManifestOf(t) \in Manifest
         /\ ManifestOf(t).body.ver = calls[t].ver
         /\ ManifestOf(t).body.fences = calls[t].new
         /\ ManifestOf(t).body.delta = calls[t].delta
         /\ Complete(ManifestOf(t))
  <1>1. BodyOf(t, calls[t].delta) \in Body /\ BodyOf(t, None) \in Body
    BY Holder DEF BodyOf, Body
  <1>2. ManifestOf(t) \in Manifest
    BY <1>1 DEF ManifestOf, Manifest
  <1> QED
    BY <1>2, ManagerAssumption DEF ManifestOf, BodyOf, Complete

-----------------------------------------------------------------------------
(* Type correctness. *)

\* The part of TypeOK about calls and the lock, as a step leaves it.
CallsOK ==
  /\ calls \in [Threads -> Call]
  /\ holder \in Threads \cup {None}
  /\ \A t \in Threads : holder = t <=> calls[t].pc \in PublishSteps
  /\ \A t \in Threads : holder = t => calls[t].ver \in Versions

\* A step of a publishing call to the next, which may add the delta.
LEMMA NextStepType ==
  ASSUME TypeOK, NEW t \in Threads, calls[t].pc \in PublishSteps,
         NEW r \in Call, r.pc \in PublishSteps, r.ver = calls[t].ver,
         Goto(t, r), UNCHANGED holder
  PROVE  CallsOK'
  BY DEF TypeOK, CallsOK, Goto

\* A publishing call returns.
LEMMA UnlockType ==
  ASSUME TypeOK, NEW t \in Threads, calls[t].pc \in PublishSteps, Unlock(t)
  PROVE  CallsOK'
  <1>1. holder = t
    BY Holder
  <1>2. \A u \in Threads : calls'[u] = IF u = t THEN Idle ELSE calls[u]
    BY DEF Unlock, Goto, TypeOK
  <1>3. \A u \in Threads : calls'[u].pc \notin PublishSteps
    BY <1>2, Holder, IdleType, StepKinds
  <1>4. calls' \in [Threads -> Call]
    BY IdleType DEF Unlock, Goto, TypeOK
  <1> QED
    BY <1>3, <1>4, ManagerAssumption DEF Unlock, CallsOK

\* A step of a call that does not hold the lock.
LEMMA EditType ==
  ASSUME TypeOK, NEW t \in Threads, calls[t].pc \notin PublishSteps,
         NEW r \in Call, r.pc \notin PublishSteps, Goto(t, r), UNCHANGED holder
  PROVE  CallsOK'
  BY DEF TypeOK, CallsOK, Goto

LEMMA BecomeType ==
  ASSUME TypeOK, NEW t \in Threads, NEW step \in Steps
  PROVE  /\ [calls[t] EXCEPT !.pc = step] \in Call
         /\ [calls[t] EXCEPT !.pc = step].pc = step
         /\ [calls[t] EXCEPT !.pc = step].ver = calls[t].ver
  BY DEF TypeOK, Call

LEMMA PublishTypeOK ==
  ASSUME TypeOK, NEW t \in Threads, PublishNewVersion(t)
  PROVE  TypeOK'
  <1>1. CASE Begin(t)
    <2>1. PICK c \in Given :
            Goto(t, [Idle EXCEPT !.pc = "metaManifest", !.new = c,
                                 !.ver = currentVersion + 1])
      BY <1>1 DEF Begin
    <2> DEFINE r == [Idle EXCEPT !.pc = "metaManifest", !.new = c,
                                 !.ver = currentVersion + 1]
    <2>2. currentVersion + 1 \in Versions /\ currentVersion + 1 \in Nat
      BY <1>1, ManagerAssumption DEF Begin, TypeOK, Versions
    <2>3. r \in Call /\ r.pc = "metaManifest" /\ r.ver = currentVersion + 1
      BY <2>2, ManagerAssumption DEF Idle, Call, Steps, PublishSteps
    <2>4. holder = None /\ holder' = t
      BY <1>1 DEF Begin
    <2>5. \A u \in Threads : calls[u].pc \notin PublishSteps
      BY <2>4, ManagerAssumption DEF TypeOK
    <2>6. \A u \in Threads : calls'[u] = IF u = t THEN r ELSE calls[u]
      BY <2>1 DEF Goto, TypeOK
    <2>7. CallsOK'
      BY <2>1, <2>2, <2>3, <2>4, <2>5, <2>6 DEF CallsOK, Goto, TypeOK, PublishSteps
    <2> QED
      BY <1>1, <2>7 DEF Begin, dbVars, fileVars, TypeOK, CallsOK
  <1>2. CASE SetManifest(t)
    <2>1. calls[t].pc \in PublishSteps /\ Become(t, "metaVersion")
      BY <1>2 DEF SetManifest, At, PublishSteps
    <2>2. CallsOK'
      BY <1>2, <2>1, BecomeType, NextStepType
      DEF SetManifest, memVars, Become, Steps, PublishSteps
    <2> QED
      BY <1>2, <2>1, <2>2, ManifestType
      DEF SetManifest, memVars, fileVars, TypeOK, CallsOK
  <1>3. CASE SetVersion(t)
    <2>1. calls[t].pc \in PublishSteps /\ Become(t, "snapshot")
      BY <1>3 DEF SetVersion, At, PublishSteps
    <2>2. CallsOK'
      BY <1>3, <2>1, BecomeType, NextStepType
      DEF SetVersion, Become, Steps, PublishSteps
    <2>3. calls[t].ver \in 0..MaxVersion
      BY <2>1, Holder DEF Versions
    <2> QED
      BY <1>3, <2>2, <2>3 DEF SetVersion, fileVars, TypeOK, CallsOK
  <1>4. CASE TruncateSnapshot(t)
    <2>1. calls[t].pc \in PublishSteps /\ Become(t, "snapshotData")
      BY <1>4 DEF TruncateSnapshot, At, PublishSteps
    <2>2. CallsOK'
      BY <1>4, <2>1, BecomeType, NextStepType
      DEF TruncateSnapshot, memVars, Become, Steps, PublishSteps
    <2>3. snapFile' \in [Versions -> Collection \cup {None, Torn}]
      BY <1>4 DEF TruncateSnapshot, TypeOK
    <2> QED
      BY <1>4, <2>2, <2>3 DEF TruncateSnapshot, memVars, dbVars, TypeOK, CallsOK
  <1>5. CASE WriteSnapshot(t)
    <2>1. calls[t].pc \in PublishSteps /\ Become(t, "manifest")
      BY <1>5 DEF WriteSnapshot, At, PublishSteps
    <2>2. CallsOK'
      BY <1>5, <2>1, BecomeType, NextStepType
      DEF WriteSnapshot, memVars, Become, Steps, PublishSteps
    <2>3. snapFile' \in [Versions -> Collection \cup {None, Torn}]
      BY <1>5, <2>1, Holder DEF WriteSnapshot, TypeOK
    <2> QED
      BY <1>5, <2>2, <2>3 DEF WriteSnapshot, memVars, dbVars, TypeOK, CallsOK
  <1>6. CASE TruncateManifest(t)
    <2>1. calls[t].pc \in PublishSteps /\ Become(t, "manifestData")
      BY <1>6 DEF TruncateManifest, At, PublishSteps
    <2>2. CallsOK'
      BY <1>6, <2>1, BecomeType, NextStepType
      DEF TruncateManifest, memVars, Become, Steps, PublishSteps
    <2> QED
      BY <1>6, <2>2 DEF TruncateManifest, memVars, dbVars, TypeOK, CallsOK
  <1>7. CASE WriteManifest(t)
    <2>1. calls[t].pc \in PublishSteps
      BY <1>7 DEF WriteManifest, At, PublishSteps
    <2>2. CallsOK'
      <3>1. CASE Become(t, "old") /\ UNCHANGED holder
        BY <2>1, <3>1, BecomeType, NextStepType DEF Become, Steps, PublishSteps
      <3>2. CASE Unlock(t)
        BY <2>1, <3>2, UnlockType
      <3> QED
        BY <1>7, <3>1, <3>2 DEF WriteManifest
    <2>3. manFile' \in Manifest /\ announced' \subseteq Manifest
      BY <1>7, <2>1, ManifestType DEF WriteManifest, TypeOK
    <2> QED
      BY <1>7, <2>2, <2>3 DEF WriteManifest, dbVars, TypeOK, CallsOK
  <1>8. CASE ReadOld(t)
    <2>1. calls[t].pc \in PublishSteps
      BY <1>8 DEF ReadOld, At, PublishSteps
    <2> DEFINE r == [calls[t] EXCEPT !.pc = "delta",
                                     !.delta = [from |-> store, to |-> calls[t].new]]
    <2>2. CallsOK'
      <3>1. CASE Goto(t, r) /\ UNCHANGED holder
        <4>1. [from |-> store, to |-> calls[t].new] \in Delta
          BY <2>1, Holder DEF Delta, TypeOK
        <4>2. r \in Call /\ r.pc = "delta" /\ r.ver = calls[t].ver
          BY <2>1, <4>1, Holder DEF Call, Steps, PublishSteps
        <4> QED
          BY <2>1, <3>1, <4>2, NextStepType DEF PublishSteps
      <3>2. CASE Unlock(t)
        BY <2>1, <3>2, UnlockType
      <3> QED
        BY <1>8, <3>1, <3>2 DEF ReadOld
    <2>3. faults' \in Nat
      BY <1>8 DEF ReadOld, Fault, TypeOK
    <2> QED
      BY <1>8, <2>2, <2>3 DEF ReadOld, dbVars, fileVars, TypeOK, CallsOK
  <1>9. CASE TruncateDelta(t)
    <2>1. calls[t].pc \in PublishSteps
      BY <1>9 DEF TruncateDelta, At, PublishSteps
    <2>2. CallsOK'
      <3>1. CASE Become(t, "deltaData") /\ UNCHANGED holder
        BY <2>1, <3>1, BecomeType, NextStepType DEF Become, Steps, PublishSteps
      <3>2. CASE Unlock(t)
        BY <2>1, <3>2, UnlockType
      <3> QED
        BY <1>9, <3>1, <3>2 DEF TruncateDelta
    <2>3. deltaFile' \in [Versions -> Delta \cup {None, Torn}]
      BY <1>9 DEF TruncateDelta, TypeOK
    <2> QED
      BY <1>9, <2>2, <2>3 DEF TruncateDelta, dbVars, TypeOK, CallsOK
  <1>10. CASE WriteDelta(t)
    <2>1. calls[t].pc \in PublishSteps /\ Become(t, "manifest")
      BY <1>10 DEF WriteDelta, At, PublishSteps
    <2>2. CallsOK'
      BY <1>10, <2>1, BecomeType, NextStepType
      DEF WriteDelta, memVars, Become, Steps, PublishSteps
    <2>3. deltaFile' \in [Versions -> Delta \cup {None, Torn}]
      BY <1>10, <2>1, Holder DEF WriteDelta, TypeOK
    <2> QED
      BY <1>10, <2>2, <2>3 DEF WriteDelta, memVars, dbVars, TypeOK, CallsOK
  <1> QED
    BY <1>1, <1>2, <1>3, <1>4, <1>5, <1>6, <1>7, <1>8, <1>9, <1>10
    DEF PublishNewVersion

\* The steps outside PublishNewVersion.
LEMMA OtherTypeOK ==
  ASSUME TypeOK,
         \/ Crash \/ Restart
         \/ \E t \in Threads : UpdateFence(t) \/ RemoveFence(t) \/ Fail(t)
  PROVE  TypeOK'
  <1>1. CASE Crash
    <2>1. CallsOK'
      BY <1>1, IdleType, StepKinds, ManagerAssumption DEF Crash, CallsOK
    <2>2. up' \in BOOLEAN
      BY <1>1 DEF Crash
    <2>3. currentVersion' \in 0..MaxVersion /\ faults' \in Nat
      BY <1>1, ManagerAssumption DEF Crash, Fault, TypeOK
    <2> QED
      BY <1>1, <2>1, <2>2, <2>3 DEF Crash, dbVars, fileVars, TypeOK, CallsOK
  <1>2. CASE Restart
    <2>0. 0 \in 0..MaxVersion /\ dbVersion \in 0..MaxVersion
      BY ManagerAssumption DEF TypeOK
    <2>1. currentVersion' \in 0..MaxVersion /\ dbVersion' \in 0..MaxVersion
      BY <1>2, <2>0 DEF Restart
    <2>2. faults' \in Nat
      BY <1>2 DEF Restart, Fault, TypeOK
    <2>3. UNCHANGED <<store, dbManifest, fileVars, holder, calls>> /\ up' = TRUE
      BY <1>2 DEF Restart
    <2> QED
      BY <2>1, <2>2, <2>3 DEF fileVars, TypeOK
  <1>3. ASSUME NEW t \in Threads, StartUpdate(t)
        PROVE  TypeOK'
    <2>1. PICK id \in Ids, rev \in Revs :
            Goto(t, [Idle EXCEPT !.pc = "get", !.id = id, !.rev = rev])
      BY <1>3 DEF StartUpdate
    <2> DEFINE r == [Idle EXCEPT !.pc = "get", !.id = id, !.rev = rev]
    <2>2. r \in Call /\ r.pc = "get"
      BY NoFencesType DEF Idle, Call, Steps
    <2>3. CallsOK'
      BY <1>3, <2>1, <2>2, EditType, StepKinds DEF StartUpdate, At, memVars
    <2> QED
      BY <1>3, <2>3 DEF StartUpdate, dbVars, fileVars, memVars, TypeOK, CallsOK
  <1>4. ASSUME NEW t \in Threads, GetFence(t)
        PROVE  TypeOK'
    <2>1. PICK step \in {"add", "update"} : Become(t, step)
      BY <1>4 DEF GetFence
    <2>2. CallsOK'
      BY <1>4, <2>1, BecomeType, EditType, StepKinds
      DEF GetFence, At, Become, memVars, Steps
    <2>3. faults' \in Nat
      BY <1>4 DEF GetFence, Fault, TypeOK
    <2> QED
      BY <1>4, <2>2, <2>3 DEF GetFence, dbVars, fileVars, memVars, TypeOK, CallsOK
  <1>5. ASSUME NEW t \in Threads, Upsert(t)
        PROVE  TypeOK'
    <2>1. CallsOK'
      BY <1>5, IdleType, EditType, StepKinds DEF Upsert, At, memVars
    <2>2. store' \in Collection
      <3>1. calls[t].rev \in Revs \cup {Absent}
        BY DEF TypeOK, Call
      <3> QED
        BY <1>5, <3>1 DEF Upsert, TypeOK, Collection
    <2> QED
      BY <1>5, <2>1, <2>2 DEF Upsert, fileVars, memVars, TypeOK, CallsOK
  <1>6. ASSUME NEW t \in Threads, RemoveFence(t)
        PROVE  TypeOK'
    <2>1. store' \in Collection
      BY <1>6 DEF RemoveFence, TypeOK, Collection
    <2> QED
      BY <1>6, <2>1 DEF RemoveFence, fileVars, memVars, TypeOK
  <1>7. ASSUME NEW t \in Threads, Fail(t)
        PROVE  TypeOK'
    <2>1. CallsOK'
      <3>1. CASE calls[t].pc \in PublishSteps
        BY <1>7, <3>1, UnlockType DEF Fail, Unlock
      <3>2. CASE calls[t].pc \notin PublishSteps
        BY <1>7, <3>2, IdleType, EditType, StepKinds DEF Fail
      <3> QED
        BY <3>1, <3>2
    <2> QED
      BY <1>7, <2>1 DEF Fail, Fault, dbVars, fileVars, TypeOK, CallsOK
  <1> QED
    BY <1>1, <1>2, <1>3, <1>4, <1>5, <1>6, <1>7 DEF UpdateFence

LEMMA NextTypeOK == TypeOK /\ [Next]_vars => TypeOK'
  <1>1. TypeOK /\ UNCHANGED vars => TypeOK'
    BY DEF vars, dbVars, fileVars, memVars, TypeOK
  <1> QED
    BY <1>1, PublishTypeOK, OtherTypeOK DEF Next

LEMMA InitTypeOK == Init => TypeOK
  BY NoFencesType, IdleType, StepKinds, ManagerAssumption DEF Init, TypeOK, Versions

\* Any number of goroutines: every variable holds a value of its kind, and
\* only the goroutine that holds the lock is inside PublishNewVersion.
THEOREM ManagerTypeCorrect == Spec => []TypeOK
  BY InitTypeOK, NextTypeOK, PTL DEF Spec

-----------------------------------------------------------------------------
(* What is announced. *)

\* A step that leaves the versions and the files alone, and the publishing
\* call too, if there is one.
LEMMA Frame ==
  ASSUME IInv, TypeOK', UNCHANGED <<dbVersion, fileVars, up, currentVersion>>, up,
         \A t \in Threads : calls'[t].pc \in PublishSteps => calls'[t] = calls[t]
  PROVE  IInv'
  <1>1. UNCHANGED <<snapFile, manFile, deltaFile, announced>>
    BY DEF fileVars
  <1>2. Shared'
    BY <1>1 DEF IInv, Shared, RecordedFirst, SnapshotsKept, Current, InMemory, Complete
  <1>3. ASSUME NEW t \in Threads PROVE Written(t)'
    <2>1. CASE calls'[t].pc \in PublishSteps
      BY <1>1, <2>1 DEF IInv, Written, Complete
    <2>2. CASE calls'[t].pc \notin PublishSteps
      BY <2>2, StepKinds DEF Written
    <2> QED
      BY <2>1, <2>2
  <1> QED
    BY <1>2, <1>3 DEF IInv

\* Edits, failures and restarts.
LEMMA OtherInv ==
  ASSUME IInv, VersionReadMayFail = FALSE, TypeOK',
         \/ Crash \/ Restart
         \/ \E t \in Threads : UpdateFence(t) \/ RemoveFence(t) \/ Fail(t)
  PROVE  IInv' /\ UNCHANGED <<snapFile, announced>>
  <1>1. ASSUME Crash \/ Restart
        PROVE  IInv' /\ UNCHANGED <<snapFile, announced>>
    <2>1. UNCHANGED <<snapFile, manFile, deltaFile, announced, dbVersion>>
      BY <1>1 DEF Crash, Restart, dbVars, fileVars
    <2>2. \A t \in Threads : calls'[t] = Idle
      BY <1>1 DEF Crash, Restart, IInv, Shared, InMemory
    <2>3. InMemory'
      BY <1>1, <2>1, <2>2 DEF Crash, Restart, InMemory
    <2>4. Shared'
      BY <2>1, <2>3 DEF IInv, Shared, RecordedFirst, SnapshotsKept, Current, Complete
    <2>5. \A t \in Threads : Written(t)'
      BY <2>2, IdleType, StepKinds DEF Written
    <2> QED
      BY <2>1, <2>4, <2>5 DEF IInv
  <1>2. ASSUME NEW t \in Threads, UpdateFence(t) \/ RemoveFence(t) \/ Fail(t)
        PROVE  IInv' /\ UNCHANGED <<snapFile, announced>>
    <2>1. up /\ UNCHANGED <<dbVersion, fileVars, up, currentVersion>>
      BY <1>2 DEF UpdateFence, StartUpdate, GetFence, Upsert, RemoveFence, Fail, At,
                  dbVars, memVars
    <2>2. \A u \in Threads : calls'[u].pc \in PublishSteps => calls'[u] = calls[u]
      <3>1. CASE RemoveFence(t)
        BY <3>1 DEF RemoveFence
      <3>2. CASE StartUpdate(t)
        BY <3>2, StepKinds DEF StartUpdate, Goto, Idle, IInv, TypeOK
      <3>3. CASE GetFence(t)
        <4>1. PICK step \in {"add", "update"} : Become(t, step)
          BY <3>3 DEF GetFence
        <4>2. [calls[t] EXCEPT !.pc = step].pc \notin PublishSteps
          BY <4>1, BecomeType, StepKinds DEF IInv, Steps
        <4> QED
          BY <4>1, <4>2 DEF Become, Goto, IInv, TypeOK
      <3>4. CASE Upsert(t) \/ Fail(t)
        BY <3>4, IdleType, StepKinds DEF Upsert, Fail, Goto, IInv, TypeOK
      <3> QED
        BY <1>2, <3>1, <3>2, <3>3, <3>4 DEF UpdateFence
    <2> QED
      BY <2>1, <2>2, Frame DEF fileVars
  <1> QED
    BY <1>1, <1>2

\* A publishing call returns without having changed anything else.
LEMMA UnlockInv ==
  ASSUME IInv, TypeOK', NEW t \in Threads, At(t, "old") \/ At(t, "delta"),
         Unlock(t), UNCHANGED <<dbVersion, fileVars, up, currentVersion>>
  PROVE  IInv'
  <1>1. \A u \in Threads : calls'[u].pc \in PublishSteps => calls'[u] = calls[u]
    BY IdleType, StepKinds DEF Unlock, Goto, IInv, TypeOK
  <1> QED
    BY <1>1, Frame DEF At

\* A step of the call that holds the lock: the other calls need no proof.
LEMMA OthersIdle ==
  ASSUME TypeOK', NEW t \in Threads, calls'[t].pc \in PublishSteps,
         Shared', Written(t)'
  PROVE  IInv'
  <1>1. \A u \in Threads \ {t} : calls'[u].pc \notin PublishSteps
    BY DEF TypeOK
  <1>2. \A u \in Threads \ {t} : Written(u)'
    BY <1>1, StepKinds DEF Written
  <1> QED
    BY <1>2 DEF IInv

\* PublishNewVersion up to the snapshot.
LEMMA RecordInv ==
  ASSUME IInv, TypeOK', NEW t \in Threads,
         Begin(t) \/ SetManifest(t) \/ SetVersion(t)
  PROVE  IInv' /\ UNCHANGED <<snapFile, announced>>
  <1>1. UNCHANGED <<snapFile, manFile, deltaFile, announced>>
    BY DEF Begin, SetManifest, SetVersion, fileVars
  <1>2. up /\ up' /\ dbVersion = currentVersion /\ dbVersion \in Nat
    <2>1. up /\ up'
      <3>1. up /\ (up' = up)
        BY DEF Begin, SetManifest, SetVersion, At, memVars
      <3> QED
        BY <3>1
    <2>2. dbVersion = currentVersion
      BY <2>1 DEF IInv, Shared, InMemory
    <2>3. dbVersion \in Nat
      BY ManagerAssumption DEF IInv, TypeOK
    <2> QED
      BY <2>1, <2>2, <2>3
  <1>3. CASE Begin(t)
    <2>1. UNCHANGED <<dbVersion, currentVersion>>
      BY <1>3 DEF Begin, dbVars
    <2>2. /\ calls'[t].pc = "metaManifest" /\ calls'[t].delta = None
          /\ calls'[t].ver = currentVersion + 1
      <3>1. PICK c \in Given :
              calls' = [calls EXCEPT ![t] = [Idle EXCEPT
                          !.pc = "metaManifest", !.new = c, !.ver = currentVersion + 1]]
        BY <1>3 DEF Begin, Goto
      <3>2. calls'[t] = [Idle EXCEPT
                          !.pc = "metaManifest", !.new = c, !.ver = currentVersion + 1]
        BY <3>1 DEF IInv, TypeOK
      <3> QED
        BY <3>2 DEF Idle
    <2>3. Shared'
      BY <1>1, <1>2, <2>1
      DEF IInv, Shared, RecordedFirst, SnapshotsKept, Current, InMemory, Complete
    <2>4. Written(t)'
      BY <1>2, <2>1, <2>2 DEF Written, Recording, Snapping, Announcing, Patching
    <2> QED
      BY <1>1, <2>2, <2>3, <2>4, OthersIdle DEF PublishSteps
  <1>4. CASE SetManifest(t)
    <2>1. UNCHANGED <<dbVersion, currentVersion>> /\ calls[t].pc = "metaManifest"
      BY <1>4 DEF SetManifest, memVars, At
    <2>2. calls' = [calls EXCEPT ![t] = [calls[t] EXCEPT !.pc = "metaVersion"]]
      BY <1>4 DEF SetManifest, Become, Goto
    <2>3. /\ calls'[t].pc = "metaVersion" /\ calls'[t].delta = calls[t].delta
          /\ calls'[t].ver = calls[t].ver
      BY <2>2 DEF IInv, TypeOK, Call
    <2>4. Shared'
      BY <1>1, <1>2, <2>1
      DEF IInv, Shared, RecordedFirst, SnapshotsKept, Current, InMemory, Complete
    <2>5. Written(t)'
      BY <2>1, <2>3 DEF IInv, Written, Recording, Snapping, Announcing, Patching
    <2> QED
      BY <1>1, <2>3, <2>4, <2>5, OthersIdle DEF PublishSteps
  <1>5. CASE SetVersion(t)
    <2>1. /\ calls[t].pc = "metaVersion"
          /\ dbVersion' = calls[t].ver /\ currentVersion' = calls[t].ver
      BY <1>5 DEF SetVersion, At
    <2>2. calls' = [calls EXCEPT ![t] = [calls[t] EXCEPT !.pc = "snapshot"]]
      BY <1>5 DEF SetVersion, Become, Goto
    <2>3. /\ calls'[t].pc = "snapshot" /\ calls'[t].delta = calls[t].delta
          /\ calls'[t].ver = calls[t].ver
      BY <2>2 DEF IInv, TypeOK, Call
    <2>4. calls[t].ver = dbVersion + 1 /\ calls[t].delta = None
      BY <2>1 DEF IInv, Written, Recording
    <2>5. \A m \in announced : m.body.ver \in Nat /\ m.body.ver <= dbVersion
      BY DEF IInv, Shared, RecordedFirst, TypeOK, Manifest, Body, Versions
    <2>6. \A m \in announced : m.body.ver <= dbVersion' /\ m.body.ver # dbVersion'
      BY <1>2, <2>1, <2>4, <2>5
    <2>7. Shared'
      BY <1>1, <1>2, <2>1, <2>6
      DEF IInv, Shared, RecordedFirst, SnapshotsKept, Current, InMemory, Complete
    <2>8. Written(t)'
      BY <1>1, <2>1, <2>3, <2>4, <2>6
      DEF Written, Recording, Snapping, Announcing, Patching
    <2> QED
      BY <1>1, <2>3, <2>7, <2>8, OthersIdle DEF PublishSteps
  <1> QED
    BY <1>3, <1>4, <1>5

\* What a step to the next step of a publishing call keeps of it.
LEMMA SameCall ==
  ASSUME TypeOK, NEW t \in Threads, NEW step \in Steps, Become(t, step)
  PROVE  /\ calls'[t].pc = step /\ calls'[t].ver = calls[t].ver
         /\ calls'[t].new = calls[t].new /\ calls'[t].delta = calls[t].delta
  BY DEF TypeOK, Call, Become, Goto

\* The snapshot is written over nothing that was announced.
LEMMA SnapshotInv ==
  ASSUME IInv, TypeOK', NEW t \in Threads, TruncateSnapshot(t) \/ WriteSnapshot(t)
  PROVE  /\ IInv'
         /\ \A m \in announced : snapFile'[m.body.ver] = snapFile[m.body.ver]
  <1>1. /\ calls[t].pc \in Snapping
        /\ UNCHANGED <<manFile, deltaFile, announced, dbVersion, up, currentVersion>>
    BY DEF TruncateSnapshot, WriteSnapshot, At, Snapping, dbVars, memVars
  <1>2. PICK c \in Collection \cup {Torn} :
          /\ snapFile' = [snapFile EXCEPT ![calls[t].ver] = c]
          /\ TruncateSnapshot(t) \/ c = calls[t].new
    BY DEF TruncateSnapshot, WriteSnapshot, IInv, TypeOK, Call
  <1>3. TypeOK /\ calls[t].ver \in Versions
    BY <1>1, StepKinds, Holder DEF IInv
  <1>4. \A m \in announced : m.body.ver # calls[t].ver /\ m.body.ver \in Versions
    BY <1>1 DEF IInv, Written, TypeOK, Manifest, Body
  <1>5. \A m \in announced : snapFile'[m.body.ver] = snapFile[m.body.ver]
    BY <1>2, <1>3, <1>4 DEF TypeOK
  <1>6. Shared'
    BY <1>1, <1>5
    DEF At, IInv, Shared, RecordedFirst, SnapshotsKept, Current, InMemory, Complete,
        TruncateSnapshot, WriteSnapshot
  <1>7. calls'[t].pc \in PublishSteps /\ Written(t)'
    <2>1. CASE TruncateSnapshot(t)
      <3>1. Become(t, "snapshotData")
        BY <2>1 DEF TruncateSnapshot
      <3> QED
        BY <1>1, <1>3, <3>1, SameCall
        DEF IInv, Written, Steps, PublishSteps, Recording, Snapping, Announcing, Patching
    <2>2. CASE WriteSnapshot(t)
      <3>1. Become(t, "manifest") /\ snapFile'[calls[t].ver] = calls[t].new
        BY <1>3, <2>2 DEF WriteSnapshot, TypeOK
      <3> QED
        BY <1>1, <1>3, <3>1, SameCall
        DEF IInv, Written, Steps, PublishSteps, Recording, Snapping, Announcing, Patching
    <2> QED
      BY <2>1, <2>2
  <1> QED
    BY <1>5, <1>6, <1>7, OthersIdle

\* manifest.json: while it is torn it names nothing, then what was written.
LEMMA ManifestInv ==
  ASSUME IInv, TypeOK', NEW t \in Threads, TruncateManifest(t) \/ WriteManifest(t)
  PROVE  IInv' /\ UNCHANGED snapFile
  <1>1. /\ calls[t].pc \in Announcing /\ up
        /\ UNCHANGED <<snapFile, deltaFile, dbVersion, up, currentVersion>>
    BY DEF TruncateManifest, WriteManifest, At, Announcing, dbVars, memVars
  <1>2. TypeOK /\ calls[t].pc \in PublishSteps
    BY <1>1, StepKinds DEF IInv
  <1>3. CASE TruncateManifest(t)
    <2>1. manFile' = Torn /\ UNCHANGED announced /\ Become(t, "manifestData")
      BY <1>3 DEF TruncateManifest
    <2>2. Shared'
      BY <1>1, <2>1
      DEF IInv, Shared, RecordedFirst, SnapshotsKept, Current, InMemory, Complete
    <2>3. calls'[t].pc \in PublishSteps /\ Written(t)'
      BY <1>1, <1>2, <2>1, SameCall
      DEF IInv, Written, Steps, PublishSteps, Recording, Snapping, Announcing, Patching
    <2> QED
      BY <1>1, <2>2, <2>3, OthersIdle
  <1>4. CASE WriteManifest(t)
    <2>1. manFile' = ManifestOf(t) /\ announced' = announced \cup {ManifestOf(t)}
      BY <1>4 DEF WriteManifest
    <2>2. /\ calls[t].ver = dbVersion /\ snapFile[calls[t].ver] = calls[t].new
          /\ calls[t].delta # None => deltaFile[calls[t].ver] = calls[t].delta
          /\ dbVersion \in Nat
      BY <1>1, ManagerAssumption DEF IInv, Written, TypeOK
    <2>3. Shared'
      BY <1>1, <1>2, <2>1, <2>2, ManifestType
      DEF IInv, Shared, RecordedFirst, SnapshotsKept, Current, InMemory
    <2>4. CASE Become(t, "old") /\ calls[t].delta = None
      <3>1. calls'[t].pc \in PublishSteps /\ Written(t)'
        BY <1>1, <1>2, <2>1, <2>2, <2>4, SameCall, ManifestType
        DEF Written, Steps, PublishSteps, Recording, Snapping, Announcing, Patching
      <3> QED
        BY <1>1, <2>3, <3>1, OthersIdle
    <2>5. CASE Unlock(t)
      <3>1. \A u \in Threads : calls'[u].pc \notin PublishSteps
        BY <1>2, <2>5, Holder, IdleType, StepKinds DEF Unlock, Goto, TypeOK
      <3>2. \A u \in Threads : Written(u)'
        BY <3>1, StepKinds DEF Written
      <3> QED
        BY <1>1, <2>3, <3>2 DEF IInv
    <2> QED
      BY <1>4, <2>4, <2>5 DEF WriteManifest
  <1> QED
    BY <1>3, <1>4

\* The delta is written while manifest.json does not mention it.
LEMMA DeltaInv ==
  ASSUME IInv, TypeOK', NEW t \in Threads,
         ReadOld(t) \/ TruncateDelta(t) \/ WriteDelta(t)
  PROVE  IInv' /\ UNCHANGED <<snapFile, announced>>
  <1>1. /\ calls[t].pc \in Patching /\ up /\ calls[t].pc \in PublishSteps
        /\ UNCHANGED <<snapFile, manFile, announced, dbVersion, up, currentVersion>>
    BY DEF ReadOld, TruncateDelta, WriteDelta, At, Patching, dbVars, fileVars, memVars,
           PublishSteps
  <1>2. /\ TypeOK /\ calls[t].ver = dbVersion /\ calls[t].ver \in Versions
        /\ snapFile[calls[t].ver] = calls[t].new
        /\ Complete(manFile) /\ manFile.body.delta = None
    BY <1>1, Holder DEF IInv, Written
  <1>3. Shared'
    BY <1>1, <1>2
    DEF IInv, Shared, RecordedFirst, SnapshotsKept, Current, InMemory, Complete
  <1>4. CASE Unlock(t) /\ UNCHANGED fileVars /\ (ReadOld(t) \/ TruncateDelta(t))
    BY <1>1, <1>4, UnlockInv DEF ReadOld, TruncateDelta
  <1>5. CASE ReadOld(t) /\ ~Unlock(t)
    <2>1. /\ calls'[t].pc = "delta" /\ calls'[t].ver = calls[t].ver
          /\ calls'[t].new = calls[t].new
      <3>1. PICK d \in {[from |-> store, to |-> calls[t].new]} :
              calls' = [calls EXCEPT ![t] = [calls[t] EXCEPT !.pc = "delta", !.delta = d]]
        BY <1>5 DEF ReadOld, Goto
      <3>2. calls'[t] = [calls[t] EXCEPT !.pc = "delta", !.delta = d]
        BY <1>2, <3>1 DEF TypeOK
      <3> QED
        BY <1>2, <3>2 DEF TypeOK, Call
    <2>2. Written(t)'
      BY <1>1, <1>2, <2>1
      DEF Written, Recording, Snapping, Announcing, Patching, Complete
    <2> QED
      BY <1>1, <1>3, <2>1, <2>2, OthersIdle DEF PublishSteps
  <1>6. CASE TruncateDelta(t) /\ Become(t, "deltaData")
    <2>1. Written(t)' /\ calls'[t].pc \in PublishSteps
      BY <1>1, <1>2, <1>6, SameCall
      DEF Written, Recording, Snapping, Announcing, Patching, Complete, Steps, PublishSteps
    <2> QED
      BY <1>1, <1>3, <2>1, OthersIdle
  <1>7. CASE WriteDelta(t)
    <2>1. deltaFile'[calls[t].ver] = calls[t].delta /\ Become(t, "manifest")
      BY <1>2, <1>7 DEF WriteDelta, TypeOK
    <2>2. Written(t)' /\ calls'[t].pc \in PublishSteps
      BY <1>1, <1>2, <2>1, SameCall
      DEF Written, Recording, Snapping, Announcing, Patching, Steps, PublishSteps
    <2> QED
      BY <1>1, <1>3, <2>2, OthersIdle
  <1>8. CASE TruncateDelta(t) /\ ~Become(t, "deltaData")
    <2>1. Unlock(t) /\ UNCHANGED fileVars
      BY <1>8 DEF TruncateDelta, fileVars
    <2> QED
      BY <1>4, <1>8, <2>1
  <1>9. CASE ReadOld(t) /\ Unlock(t)
    BY <1>4, <1>9 DEF ReadOld
  <1> QED
    BY <1>5, <1>6, <1>7, <1>8, <1>9

LEMMA NextInv ==
  ASSUME IInv, VersionReadMayFail = FALSE, [Next]_vars
  PROVE  /\ IInv'
         /\ \A m \in announced : snapFile'[m.body.ver] = snapFile[m.body.ver]
  <1>1. TypeOK'
    BY NextTypeOK DEF IInv
  <1>2. CASE UNCHANGED vars
    BY <1>1, <1>2
    DEF vars, dbVars, fileVars, memVars, IInv, Shared, RecordedFirst, SnapshotsKept,
        Current, InMemory, Complete, Written
  <1>3. ASSUME NEW t \in Threads, PublishNewVersion(t)
        PROVE  /\ IInv'
               /\ \A m \in announced : snapFile'[m.body.ver] = snapFile[m.body.ver]
    BY <1>1, <1>3, RecordInv, SnapshotInv, ManifestInv, DeltaInv DEF PublishNewVersion
  <1> QED
    BY <1>1, <1>2, <1>3, OtherInv DEF Next

LEMMA InitInv == Init => IInv
  <1> SUFFICES ASSUME Init PROVE IInv
    OBVIOUS
  <1>1. \A t \in Threads : Written(t)
    BY IdleType, StepKinds DEF Init, Written
  <1>2. Shared
    BY DEF Init, Shared, RecordedFirst, SnapshotsKept, Current, InMemory, Complete
  <1> QED
    BY <1>1, <1>2, InitTypeOK DEF IInv

LEMMA AlwaysInv == VersionReadMayFail = FALSE => (Spec => []IInv)
  <1> SUFFICES ASSUME VersionReadMayFail = FALSE PROVE Spec => []IInv
    OBVIOUS
  <1>1. IInv /\ [Next]_vars => IInv'
    BY NextInv
  <1> QED
    BY <1>1, InitInv, PTL DEF Spec

\* With a version that can be read, any number of goroutines, and whatever
\* fails or dies: a number is recorded before it is announced, and it never
\* stands for two collections.
THEOREM NumbersAreUnique ==
  ASSUME VersionReadMayFail = FALSE
  PROVE  Spec => [](RecordedFirst /\ UniqueCollections)
  <1>1. IInv => RecordedFirst /\ UniqueCollections
    <2> SUFFICES ASSUME IInv PROVE RecordedFirst /\ UniqueCollections
      OBVIOUS
    <2>1. SnapshotsKept /\ RecordedFirst
      BY DEF IInv, Shared
    <2> QED
      BY <2>1 DEF SnapshotsKept, UniqueCollections
  <1> QED
    BY <1>1, AlwaysInv, PTL

\* The same: what manifest.json names is complete and is what the manifest was
\* made for.
THEOREM ManifestIsServable ==
  ASSUME VersionReadMayFail = FALSE
  PROVE  Spec => []ManifestServable
  <1>1. IInv => ManifestServable
    BY DEF IInv, Shared, Current, SnapshotsKept, ManifestServable
  <1> QED
    BY <1>1, AlwaysInv, PTL

\* The same: the snapshot of an announced version is never written again.
THEOREM AnnouncedIsImmutable ==
  ASSUME VersionReadMayFail = FALSE
  PROVE  Spec => SnapshotsImmutable
  <1>1. IInv /\ [Next]_vars
          => [\A m \in announced : snapFile'[m.body.ver] = snapFile[m.body.ver]]_vars
    BY NextInv
  <1> QED
    BY <1>1, AlwaysInv, PTL DEF Spec, SnapshotsImmutable
=============================================================================
