--------------------------- MODULE PublisherProofs ---------------------------
(***************************************************************************)
(* Theorems about Publisher, for every set of fences, every number of      *)
(* versions, failures and kills.                                           *)
(***************************************************************************)
EXTENDS Publisher, TLAPS

(***************************************************************************)
(* One process at a time, that can read the recorded version.              *)
(***************************************************************************)
Solo == (\E p \in Procs : Procs = {p}) /\ VersionReadMayFail = FALSE

(***************************************************************************)
(* What a Publish call has written, by the step it has reached.  It works  *)
(* on the version after the recorded one, so until SetVersion nothing it   *)
(* writes belongs to the recorded version.                                 *)
(***************************************************************************)
Written(p) ==
  /\ ~At(p, "off") => proc[p].cur = dbVersion
  /\ proc[p].pc \in {"manifest", "manifestData", "delta", "deltaData", "meta", "version"}
       => snapFile[NewVersion(p)] = proc[p].new
  /\ proc[p].pc \in {"delta", "deltaData", "meta", "version"} => manFile = ManifestOf(p)
  /\ proc[p].pc \in {"meta", "version"} /\ WritesDelta(p)
       => deltaFile[NewVersion(p)] = DeltaOf(p)

SoloInv == TypeOK /\ CommittedServable /\ \A p \in Procs : Written(p)

-----------------------------------------------------------------------------
LEMMA NoFencesType == NoFences \in Collection
  BY DEF NoFences, Collection

\* A process is well typed, and one inside Publish has a version left.
ProcOK(r) == r \in Proc /\ r.cur <= MaxVersion
               /\ (r.pc \notin {"off", "ready"} => r.cur < MaxVersion)

LEMMA ReadyOK == ASSUME NEW cur \in 0..MaxVersion PROVE ProcOK(Ready(cur)) /\ ProcOK(Off)
  <1>1. MaxVersion \in Nat
    BY PublisherAssumption
  <1>2. Off \in Proc /\ Off.pc = "off" /\ Off.cur = 0
    BY NoFencesType DEF Off, Proc, Steps
  <1>3. cur \in Nat
    BY <1>1
  <1>4. Ready(cur) \in Proc /\ Ready(cur).pc = "ready" /\ Ready(cur).cur = cur
    BY <1>3, NoFencesType DEF Ready, Proc, Steps
  <1> QED
    BY <1>1, <1>2, <1>4 DEF ProcOK

\* What a step writes into a process, if it is well typed, keeps all of them so.
LEMMA GotoOK ==
  ASSUME TypeOK, NEW p \in Procs, NEW r, ProcOK(r), Goto(p, r)
  PROVE  /\ proc' \in [Procs -> Proc]
         /\ \A q \in Procs : proc'[q].cur <= MaxVersion
         /\ \A q \in Procs : proc'[q].pc \notin {"off", "ready"} => proc'[q].cur < MaxVersion
         /\ proc'[p] = r /\ \A q \in Procs \ {p} : proc'[q] = proc[q]
  BY DEF TypeOK, ProcOK, Goto

LEMMA ProcFacts ==
  ASSUME TypeOK, NEW p \in Procs
  PROVE  /\ ProcOK(proc[p]) /\ proc[p].pc \in Steps /\ proc[p].cur \in 0..MaxVersion
         /\ proc[p].new \in Collection /\ proc[p].old \in Collection
         /\ proc[p].pc \notin {"off", "ready"} => NewVersion(p) \in Versions
  BY PublisherAssumption DEF TypeOK, ProcOK, Proc, NewVersion, Versions

\* The next step of a Publish call.
LEMMA BecomeOK ==
  ASSUME TypeOK, NEW p \in Procs, proc[p].pc \notin {"off", "ready"},
         NEW step \in Steps, step \notin {"off", "ready"}
  PROVE  /\ ProcOK([proc[p] EXCEPT !.pc = step])
         /\ [proc[p] EXCEPT !.pc = step].pc = step
         /\ [proc[p] EXCEPT !.pc = step].cur = proc[p].cur
         /\ [proc[p] EXCEPT !.pc = step].new = proc[p].new
         /\ [proc[p] EXCEPT !.pc = step].old = proc[p].old
  BY DEF TypeOK, ProcOK, Proc

\* What Publish signs and writes is a manifest and a delta.
LEMMA ManifestType ==
  ASSUME TypeOK, NEW p \in Procs, proc[p].pc \notin {"off", "ready"}
  PROVE  /\ DeltaOf(p) \in Delta \cup {None}
         /\ ManifestOf(p) \in Manifest
         /\ ManifestOf(p).ver = NewVersion(p)
         /\ ManifestOf(p).fences = proc[p].new
         /\ ManifestOf(p).delta = DeltaOf(p)
         /\ NewVersion(p) \in Versions
  <1>1. DeltaOf(p) \in Delta \cup {None}
    BY ProcFacts DEF DeltaOf, Delta
  <1>2. NewVersion(p) \in Versions
    BY ProcFacts
  <1> QED
    BY <1>1, <1>2, ProcFacts DEF ManifestOf, Manifest

\* Steps outside Publish keep the type invariant.
LEMMA OutsideTypeOK ==
  ASSUME TypeOK, NEW p \in Procs,
         \/ Open(p) \/ Close(p) \/ Fail(p) \/ Kill(p)
         \/ SignAndAdd(p) \/ SignAndUpdate(p) \/ DeleteFence(p)
  PROVE  TypeOK'
  <1>1. CASE Open(p)
    <2>1. PICK cur \in {dbVersion, 0} : Goto(p, Ready(cur))
      BY <1>1 DEF Open
    <2>2. ProcOK(Ready(cur))
      BY ReadyOK, PublisherAssumption DEF TypeOK
    <2> QED
      BY <1>1, <2>1, <2>2, GotoOK DEF Open, TypeOK, Fault, dbVars, fileVars
  <1>2. CASE Close(p)
    <2>1. ProcOK(Off)
      BY ReadyOK DEF TypeOK
    <2> QED
      BY <1>2, <2>1, GotoOK DEF Close, TypeOK, dbVars, fileVars
  <1>3. CASE Fail(p)
    <2>1. ProcOK(Ready(proc[p].cur))
      BY ReadyOK, ProcFacts
    <2> QED
      BY <1>3, <2>1, GotoOK DEF Fail, TypeOK, Fault, dbVars, fileVars
  <1>4. CASE Kill(p)
    <2>1. ProcOK(Off)
      BY ReadyOK DEF TypeOK
    <2> QED
      BY <1>4, <2>1, GotoOK DEF Kill, TypeOK, Fault, dbVars, fileVars
  <1>5. CASE SignAndAdd(p) \/ SignAndUpdate(p) \/ DeleteFence(p)
    <2>1. PICK id \in Ids, r \in Revs \cup {Absent} : Edit(p, id, r)
      BY <1>5 DEF SignAndAdd, SignAndUpdate, DeleteFence
    <2>2. store' \in Collection
      BY <2>1 DEF Edit, TypeOK, Collection
    <2> QED
      BY <2>1, <2>2 DEF Edit, TypeOK, fileVars
  <1> QED
    BY <1>1, <1>2, <1>3, <1>4, <1>5

\* Steps of Publish keep the type invariant.
LEMMA PublishTypeOK ==
  ASSUME TypeOK, NEW p \in Procs, Publish(p)
  PROVE  TypeOK'
  <1>1. CASE StartPublish(p)
    <2>1. PICK c \in {store} \cup Given : Goto(p, [proc[p] EXCEPT !.pc = "old", !.new = c])
      BY <1>1 DEF StartPublish
    <2>2. c \in Collection
      BY PublisherAssumption DEF TypeOK
    <2>3. MaxVersion \in Nat /\ proc[p] \in Proc /\ proc[p].cur \in Nat
      BY PublisherAssumption DEF TypeOK, Proc
    <2>4. proc[p].cur + 1 <= MaxVersion
      BY <1>1 DEF StartPublish, NewVersion
    <2>5. proc[p].cur < MaxVersion
      BY <2>3, <2>4
    <2>6. ProcOK([proc[p] EXCEPT !.pc = "old", !.new = c])
      <3> DEFINE r == [proc[p] EXCEPT !.pc = "old", !.new = c]
      <3>1. r \in Proc /\ r.cur = proc[p].cur
        BY <2>2, <2>3 DEF Proc, Steps
      <3> QED
        BY <2>3, <2>5, <3>1 DEF ProcOK
    <2> QED
      BY <1>1, <2>1, <2>6, GotoOK DEF StartPublish, TypeOK, dbVars, fileVars
  <1>2. CASE ReadOld(p)
    <2>1. PICK c \in {store, NoFences} :
            Goto(p, [proc[p] EXCEPT !.pc = "snapshot", !.old = c])
      BY <1>2 DEF ReadOld
    <2>2. c \in Collection /\ proc[p].pc = "old"
      BY <1>2, NoFencesType DEF ReadOld, At, TypeOK
    <2>3. ProcOK([proc[p] EXCEPT !.pc = "snapshot", !.old = c])
      BY <2>2 DEF ProcOK, Proc, Steps, TypeOK
    <2> QED
      BY <1>2, <2>1, <2>3, GotoOK DEF ReadOld, TypeOK, Fault, dbVars, fileVars
  <1>3. CASE \/ TruncateSnapshot(p) \/ WriteSnapshot(p) \/ TruncateManifest(p)
             \/ WriteManifest(p) \/ TruncateDelta(p) \/ WriteDelta(p) \/ SetManifest(p)
    <2>1. proc[p].pc \notin {"off", "ready"}
      BY <1>3 DEF TruncateSnapshot, WriteSnapshot, TruncateManifest, WriteManifest,
                  TruncateDelta, WriteDelta, SetManifest, At
    <2>2. PICK step \in Steps \ {"off", "ready"} : Become(p, step)
      BY <1>3 DEF TruncateSnapshot, WriteSnapshot, TruncateManifest, WriteManifest,
                  TruncateDelta, WriteDelta, SetManifest, Steps
    <2>3. /\ proc' \in [Procs -> Proc]
          /\ \A q \in Procs : proc'[q].cur <= MaxVersion
          /\ \A q \in Procs :
               proc'[q].pc \notin {"off", "ready"} => proc'[q].cur < MaxVersion
      BY <2>1, <2>2, BecomeOK, GotoOK DEF Become
    <2>4. snapFile' \in [Versions -> Collection \cup {None, Torn}]
      BY <1>3, <2>1, ProcFacts
      DEF TypeOK, TruncateSnapshot, WriteSnapshot, TruncateManifest, WriteManifest,
          TruncateDelta, WriteDelta, SetManifest, fileVars
    <2>5. deltaFile' \in [Versions -> Delta \cup {None, Torn}]
      BY <1>3, <2>1, ProcFacts, ManifestType
      DEF TypeOK, TruncateSnapshot, WriteSnapshot, TruncateManifest, WriteManifest,
          TruncateDelta, WriteDelta, SetManifest, fileVars
    <2>6. /\ manFile' \in Manifest \cup {None, Torn} /\ announced' \subseteq Manifest
          /\ dbManifest' \in Manifest \cup {None}
          /\ UNCHANGED <<store, dbVersion, faults>>
      BY <1>3, <2>1, ManifestType
      DEF TypeOK, TruncateSnapshot, WriteSnapshot, TruncateManifest, WriteManifest,
          TruncateDelta, WriteDelta, SetManifest, fileVars, dbVars
    <2> QED
      BY <2>3, <2>4, <2>5, <2>6 DEF TypeOK
  <1>4. CASE SetVersion(p)
    <2>1. NewVersion(p) \in Versions /\ NewVersion(p) \in 0..MaxVersion
      BY <1>4, ProcFacts, PublisherAssumption DEF SetVersion, At, Versions
    <2>2. ProcOK(Ready(NewVersion(p)))
      BY <2>1, ReadyOK
    <2> QED
      BY <1>4, <2>1, <2>2, GotoOK DEF SetVersion, TypeOK, fileVars
  <1> QED
    BY <1>1, <1>2, <1>3, <1>4 DEF Publish

LEMMA NextTypeOK == TypeOK /\ [Next]_vars => TypeOK'
  <1> SUFFICES ASSUME TypeOK, [Next]_vars PROVE TypeOK'
    OBVIOUS
  <1>1. CASE Initialize
    BY <1>1, NoFencesType, PublisherAssumption DEF Initialize, TypeOK
  <1>2. CASE UNCHANGED vars
    BY <1>2 DEF vars, dbVars, fileVars, TypeOK
  <1> QED
    BY <1>1, <1>2, OutsideTypeOK, PublishTypeOK DEF Next, Command

LEMMA InitTypeOK == Init => TypeOK
  <1> SUFFICES ASSUME Init PROVE TypeOK
    OBVIOUS
  <1>1. ProcOK(Off) /\ Off.pc = "off"
    BY ReadyOK, PublisherAssumption DEF Off
  <1> QED
    BY <1>1, NoFencesType, PublisherAssumption DEF Init, TypeOK, ProcOK

\* For any number of processes the files and rows hold values of their kind,
\* and no Publish call runs past the last version.
THEOREM PublisherTypeCorrect == Spec => []TypeOK
  BY InitTypeOK, NextTypeOK, PTL DEF Spec

-----------------------------------------------------------------------------
(* One process at a time. *)

\* A step to a later part of Publish changes nothing of what it publishes.
LEMMA SameCall ==
  ASSUME TypeOK, NEW p \in Procs, NEW step, Become(p, step)
  PROVE  /\ proc'[p].pc = step
         /\ proc'[p].cur = proc[p].cur /\ proc'[p].new = proc[p].new
         /\ NewVersion(p)' = NewVersion(p) /\ DeltaOf(p)' = DeltaOf(p)
         /\ ManifestOf(p)' = ManifestOf(p) /\ WritesDelta(p)' = WritesDelta(p)
  <1>1. /\ proc'[p].pc = step /\ proc'[p].cur = proc[p].cur
        /\ proc'[p].new = proc[p].new /\ proc'[p].old = proc[p].old
    BY DEF TypeOK, Become, Goto, Proc
  <1>2. NewVersion(p)' = NewVersion(p)
    BY <1>1 DEF NewVersion
  <1>3. DeltaOf(p)' = DeltaOf(p)
    BY <1>1, <1>2 DEF DeltaOf
  <1>4. ManifestOf(p)' = ManifestOf(p) /\ WritesDelta(p)' = WritesDelta(p)
    BY <1>1, <1>2, <1>3 DEF ManifestOf, WritesDelta
  <1> QED
    BY <1>1, <1>2, <1>3, <1>4

\* What holds of the one process while it publishes: it works on the version
\* after the recorded one.
LEMMA Publishing ==
  ASSUME TypeOK, NEW p \in Procs, Written(p), proc[p].pc \notin {"off", "ready"}
  PROVE  /\ NewVersion(p) = dbVersion + 1 /\ NewVersion(p) \in Versions
         /\ dbVersion \in Nat /\ proc[p].cur = dbVersion
  <1>1. proc[p].cur = dbVersion
    BY DEF Written, At
  <1>2. dbVersion \in Nat
    BY PublisherAssumption DEF TypeOK
  <1> QED
    BY <1>1, <1>2, ProcFacts DEF NewVersion

\* The files of the recorded version and the manifest that names it.
LEMMA ServableKept ==
  ASSUME TypeOK, CommittedServable, UNCHANGED <<dbVersion, manFile, deltaFile>>,
         dbVersion \in Versions => snapFile'[dbVersion] = snapFile[dbVersion]
  PROVE  CommittedServable'
  <1>1. Complete(manFile) => manFile.ver \in Versions
    BY DEF TypeOK, Complete, Manifest
  <1> QED
    BY <1>1 DEF CommittedServable, Complete

\* Steps outside Publish.
LEMMA OutsideSolo ==
  ASSUME SoloInv, VersionReadMayFail = FALSE, NEW p \in Procs, Procs = {p},
         \/ Open(p) \/ Close(p) \/ Fail(p) \/ Kill(p)
         \/ SignAndAdd(p) \/ SignAndUpdate(p) \/ DeleteFence(p)
  PROVE  CommittedServable' /\ Written(p)' /\ UNCHANGED snapFile
  <1>1. TypeOK /\ CommittedServable /\ Written(p)
    BY DEF SoloInv
  <1>2. UNCHANGED <<snapFile, manFile, deltaFile, dbVersion>>
    BY DEF Open, Close, Fail, Kill, SignAndAdd, SignAndUpdate, DeleteFence, Edit,
           dbVars, fileVars
  <1>3. CommittedServable'
    BY <1>1, <1>2, ServableKept
  <1>4. CASE SignAndAdd(p) \/ SignAndUpdate(p) \/ DeleteFence(p)
    <2>1. UNCHANGED proc
      BY <1>4 DEF SignAndAdd, SignAndUpdate, DeleteFence, Edit
    <2> QED
      BY <1>1, <1>2, <1>3, <2>1
      DEF Written, At, NewVersion, ManifestOf, DeltaOf, WritesDelta
  <1>5. CASE Open(p) \/ Close(p) \/ Fail(p) \/ Kill(p)
    <2>1. PICK r \in {Ready(dbVersion), Off} : Goto(p, r)
      <3>1. CASE Open(p)
        BY <3>1 DEF Open
      <3>2. CASE Close(p)
        BY <3>2 DEF Close
      <3>3. CASE Fail(p)
        <4>1. proc[p].cur = dbVersion
          BY <1>1, <3>3 DEF Written, At, Fail
        <4> QED
          BY <3>3, <4>1 DEF Fail
      <3>4. CASE Kill(p)
        BY <3>4 DEF Kill
      <3> QED
        BY <1>5, <3>1, <3>2, <3>3, <3>4
    <2>2. proc'[p] = r
      BY <1>1, <2>1 DEF TypeOK, Goto
    <2>3. r.pc \in {"off", "ready"} /\ (r.pc # "off" => r.cur = dbVersion)
      BY DEF Ready, Off
    <2>4. Written(p)'
      BY <1>2, <2>2, <2>3 DEF Written, At
    <2> QED
      BY <1>2, <1>3, <2>4
  <1> QED
    BY <1>4, <1>5

\* The steps of Publish up to the snapshot.
LEMMA SnapshotSolo ==
  ASSUME SoloInv, NEW p \in Procs, Procs = {p},
         StartPublish(p) \/ ReadOld(p) \/ TruncateSnapshot(p) \/ WriteSnapshot(p)
  PROVE  /\ CommittedServable' /\ Written(p)'
         /\ \A v \in Versions : v <= dbVersion => snapFile'[v] = snapFile[v]
  <1>1. TypeOK /\ CommittedServable /\ Written(p)
    BY DEF SoloInv
  <1>2. UNCHANGED <<manFile, deltaFile, dbVersion>>
    BY DEF StartPublish, ReadOld, TruncateSnapshot, WriteSnapshot, dbVars, fileVars
  <1>3. CASE StartPublish(p) \/ ReadOld(p)
    <2>1. UNCHANGED snapFile
      BY <1>3 DEF StartPublish, ReadOld, fileVars
    <2>2. ~At(p, "off") /\ proc'[p].cur = proc[p].cur /\ proc'[p].pc \in {"old", "snapshot"}
      BY <1>1, <1>3 DEF StartPublish, ReadOld, At, Goto, TypeOK, Proc
    <2>3. Written(p)'
      BY <1>1, <1>2, <2>2 DEF Written, At
    <2> QED
      BY <1>1, <1>2, <2>1, <2>3, ServableKept
  <1>4. CASE TruncateSnapshot(p) \/ WriteSnapshot(p)
    <2>1. proc[p].pc \notin {"off", "ready"}
      BY <1>4 DEF TruncateSnapshot, WriteSnapshot, At
    <2>2. PICK step \in {"snapshotData", "manifest"} :
            /\ Become(p, step)
            /\ step = "manifest" => snapFile' = [snapFile EXCEPT ![NewVersion(p)] = proc[p].new]
      BY <1>4 DEF TruncateSnapshot, WriteSnapshot
    <2>3. /\ NewVersion(p) = dbVersion + 1 /\ NewVersion(p) \in Versions
          /\ dbVersion \in Nat /\ proc[p].cur = dbVersion
      BY <1>1, <2>1, Publishing
    <2>4. ASSUME NEW v \in Versions, v # NewVersion(p)
          PROVE  snapFile'[v] = snapFile[v]
      BY <1>4, <2>4, <1>1 DEF TruncateSnapshot, WriteSnapshot, TypeOK
    <2>5. step = "manifest" => snapFile'[NewVersion(p)] = proc[p].new
      BY <1>1, <2>2, <2>3 DEF TypeOK
    <2>6. Written(p)'
      BY <1>1, <1>2, <2>2, <2>3, <2>5, SameCall DEF Written, At
    <2>7. dbVersion # NewVersion(p)
      BY <2>3
    <2>8. CommittedServable'
      BY <1>1, <1>2, <2>4, <2>7, ServableKept
    <2>9. \A v \in Versions : v <= dbVersion => v # NewVersion(p)
      BY <2>3 DEF Versions
    <2> QED
      BY <2>4, <2>6, <2>8, <2>9
  <1> QED
    BY <1>3, <1>4

\* The steps of Publish that write the manifest and the delta.
LEMMA ManifestSolo ==
  ASSUME SoloInv, NEW p \in Procs, Procs = {p},
         TruncateManifest(p) \/ WriteManifest(p) \/ TruncateDelta(p) \/ WriteDelta(p)
  PROVE  CommittedServable' /\ Written(p)' /\ UNCHANGED snapFile
  <1>1. TypeOK /\ CommittedServable /\ Written(p)
    BY DEF SoloInv
  <1>2. UNCHANGED <<snapFile, dbVersion>>
    BY DEF TruncateManifest, WriteManifest, TruncateDelta, WriteDelta, dbVars
  <1>3. proc[p].pc \in {"manifest", "manifestData", "delta", "deltaData"}
    BY DEF TruncateManifest, WriteManifest, TruncateDelta, WriteDelta, At
  <1>4. /\ NewVersion(p) = dbVersion + 1 /\ NewVersion(p) \in Versions
        /\ dbVersion \in Nat /\ proc[p].cur = dbVersion
    BY <1>1, <1>3, Publishing
  <1>5. snapFile[NewVersion(p)] = proc[p].new
    BY <1>1, <1>3 DEF Written
  <1>6. CASE TruncateManifest(p)
    <2>1. Become(p, "manifestData") /\ ~Complete(manFile')
      BY <1>6 DEF TruncateManifest, Complete
    <2>2. Written(p)'
      BY <1>1, <1>2, <1>4, <1>5, <2>1, SameCall DEF Written, At
    <2> QED
      BY <1>2, <2>1, <2>2 DEF CommittedServable
  <1>7. CASE WriteManifest(p)
    <2>1. PICK step \in {"delta", "meta"} :
            Become(p, step) /\ (step = "meta" => ~WritesDelta(p))
      BY <1>7 DEF WriteManifest
    <2>2. manFile' = ManifestOf(p)
      BY <1>7 DEF WriteManifest
    <2>3. manFile'.ver # dbVersion'
      BY <1>1, <1>2, <1>3, <1>4, <2>2, ManifestType
    <2>4. Written(p)'
      BY <1>1, <1>2, <1>4, <1>5, <2>1, <2>2, SameCall DEF Written, At
    <2> QED
      BY <1>2, <2>3, <2>4 DEF CommittedServable
  <1>8. CASE TruncateDelta(p) \/ WriteDelta(p)
    <2>1. PICK step \in {"deltaData", "meta"} :
            /\ Become(p, step)
            /\ step = "meta" =>
                 deltaFile' = [deltaFile EXCEPT ![NewVersion(p)] = DeltaOf(p)]
      BY <1>8 DEF TruncateDelta, WriteDelta
    <2>2. manFile = ManifestOf(p) /\ UNCHANGED manFile
      BY <1>1, <1>8 DEF TruncateDelta, WriteDelta, Written, At
    <2>3. step = "meta" => deltaFile'[NewVersion(p)] = DeltaOf(p)
      BY <1>1, <1>4, <2>1 DEF TypeOK
    <2>4. manFile'.ver # dbVersion'
      BY <1>1, <1>2, <1>3, <1>4, <2>2, ManifestType
    <2>5. Written(p)'
      BY <1>1, <1>2, <1>4, <1>5, <2>1, <2>2, <2>3, SameCall DEF Written, At
    <2> QED
      BY <1>2, <2>4, <2>5 DEF CommittedServable
  <1> QED
    BY <1>6, <1>7, <1>8

\* The two metadata writes: SetVersion commits what is complete by now.
LEMMA CommitSolo ==
  ASSUME SoloInv, NEW p \in Procs, Procs = {p}, SetManifest(p) \/ SetVersion(p)
  PROVE  CommittedServable' /\ Written(p)' /\ UNCHANGED snapFile
  <1>1. TypeOK /\ CommittedServable /\ Written(p)
    BY DEF SoloInv
  <1>2. UNCHANGED <<snapFile, manFile, deltaFile>>
    BY DEF SetManifest, SetVersion, fileVars
  <1>3. CASE SetManifest(p)
    <2>1. Become(p, "version") /\ At(p, "meta") /\ UNCHANGED dbVersion
      BY <1>3 DEF SetManifest
    <2>2. Written(p)'
      BY <1>1, <1>2, <2>1, SameCall DEF Written, At
    <2> QED
      BY <1>1, <1>2, <2>1, <2>2, ServableKept
  <1>4. CASE SetVersion(p)
    <2>1. proc[p].pc = "version" /\ dbVersion' = NewVersion(p)
      BY <1>4 DEF SetVersion, At
    <2>2. proc'[p] = Ready(NewVersion(p))
      BY <1>1, <1>4 DEF SetVersion, TypeOK, Goto
    <2>3. Written(p)'
      BY <2>1, <2>2 DEF Written, At, Ready
    <2>4. /\ snapFile[NewVersion(p)] = proc[p].new /\ manFile = ManifestOf(p)
          /\ WritesDelta(p) => deltaFile[NewVersion(p)] = DeltaOf(p)
      BY <1>1, <2>1 DEF Written
    <2>5. manFile.fences = proc[p].new /\ manFile.delta = DeltaOf(p)
      BY <1>1, <2>1, <2>4, ManifestType
    <2>6. CommittedServable'
      BY <1>2, <2>1, <2>4, <2>5 DEF CommittedServable, WritesDelta
    <2> QED
      BY <1>2, <2>3, <2>6
  <1> QED
    BY <1>3, <1>4

LEMMA NextSolo ==
  ASSUME Solo, SoloInv, [Next]_vars
  PROVE  /\ SoloInv'
         /\ \A v \in Versions : v <= dbVersion => snapFile'[v] = snapFile[v]
  <1>1. PICK p \in Procs : Procs = {p}
    BY DEF Solo
  <1>2. VersionReadMayFail = FALSE
    BY DEF Solo
  <1>3. TypeOK'
    BY NextTypeOK DEF SoloInv
  <1>4. CASE Initialize
    <2>1. proc[p].pc = "off" /\ UNCHANGED proc /\ dbVersion' = 0
          /\ UNCHANGED <<snapFile, manFile>>
      BY <1>4 DEF Initialize, At
    <2>2. Written(p)'
      BY <2>1 DEF Written, At
    <2>3. CommittedServable'
      <3>1. Complete(manFile) => manFile.ver # 0
        BY PublisherAssumption DEF SoloInv, TypeOK, Complete, Manifest, Versions
      <3> QED
        BY <2>1, <3>1 DEF CommittedServable, Complete
    <2> QED
      BY <1>1, <1>3, <2>1, <2>2, <2>3 DEF SoloInv
  <1>5. CASE UNCHANGED vars
    <2>1. UNCHANGED <<dbVersion, snapFile, manFile, deltaFile, proc>>
      BY <1>5 DEF vars, dbVars, fileVars
    <2>2. CommittedServable'
      BY <2>1, ServableKept DEF SoloInv
    <2>3. Written(p)'
      BY <2>1 DEF SoloInv, Written, At, NewVersion, ManifestOf, DeltaOf, WritesDelta
    <2> QED
      BY <1>1, <1>3, <2>1, <2>2, <2>3 DEF SoloInv
  <1>6. ASSUME NEW q \in Procs,
               \/ Open(q) \/ Close(q) \/ Fail(q) \/ Kill(q)
               \/ SignAndAdd(q) \/ SignAndUpdate(q) \/ DeleteFence(q)
               \/ Publish(q)
        PROVE  /\ SoloInv'
               /\ \A v \in Versions : v <= dbVersion => snapFile'[v] = snapFile[v]
    <2>1. q = p
      BY <1>1
    <2>2. /\ CommittedServable' /\ Written(p)'
          /\ \A v \in Versions : v <= dbVersion => snapFile'[v] = snapFile[v]
      <3>1. CASE \/ Open(p) \/ Close(p) \/ Fail(p) \/ Kill(p)
                 \/ SignAndAdd(p) \/ SignAndUpdate(p) \/ DeleteFence(p)
        BY <1>1, <1>2, <3>1, OutsideSolo
      <3>2. CASE StartPublish(p) \/ ReadOld(p) \/ TruncateSnapshot(p) \/ WriteSnapshot(p)
        BY <1>1, <3>2, SnapshotSolo
      <3>3. CASE \/ TruncateManifest(p) \/ WriteManifest(p)
                 \/ TruncateDelta(p) \/ WriteDelta(p)
        BY <1>1, <3>3, ManifestSolo
      <3>4. CASE SetManifest(p) \/ SetVersion(p)
        BY <1>1, <3>4, CommitSolo
      <3> QED
        BY <1>6, <2>1, <3>1, <3>2, <3>3, <3>4 DEF Publish
    <2> QED
      BY <1>1, <1>3, <2>2 DEF SoloInv
  <1> QED
    BY <1>4, <1>5, <1>6 DEF Next, Command

LEMMA InitSolo == Solo /\ Init => SoloInv
  BY InitTypeOK DEF Init, SoloInv, CommittedServable, Complete, Written, At, Off

LEMMA AlwaysSolo == Solo => (Spec => []SoloInv)
  <1>1. Solo /\ SoloInv /\ [Next]_vars => SoloInv'
    BY NextSolo
  <1> SUFFICES ASSUME Solo PROVE Spec => []SoloInv
    OBVIOUS
  <1> QED
    BY <1>1, InitSolo, PTL DEF Spec

\* With one process at a time, however often it fails or is killed: while
\* manifest.json names the recorded version, its snapshot and its delta are
\* complete and are the ones it was signed for.
THEOREM SoloServable == ASSUME Solo PROVE Spec => []CommittedServable
  <1>1. SoloInv => CommittedServable
    BY DEF SoloInv
  <1>2. Spec => []SoloInv
    BY AlwaysSolo
  <1> QED
    BY <1>1, <1>2, PTL

\* With one process at a time, the snapshot of a version up to the recorded
\* one is never written again.
THEOREM SoloImmutable == ASSUME Solo PROVE Spec => CommittedImmutable
  <1>1. SoloInv /\ [Next]_vars
          => [\A v \in Versions : v <= dbVersion => snapFile'[v] = snapFile[v]]_vars
    BY NextSolo
  <1>2. Spec => []SoloInv
    BY AlwaysSolo
  <1> QED
    BY <1>1, <1>2, PTL DEF Spec, CommittedImmutable

-----------------------------------------------------------------------------
(* Version numbers. *)

\* A step of Publish that neither announces a manifest nor records a version,
\* or a step outside Publish: the version stays, or a new database is made.
LEMMA VersionStep ==
  ASSUME Solo, SoloInv, [Next]_vars
  PROVE  \/ UNCHANGED dbVersion
         \/ Initialize
         \/ \E p \in Procs : SetVersion(p) /\ dbVersion' = dbVersion + 1
  <1>1. CASE UNCHANGED vars
    BY <1>1 DEF vars, dbVars
  <1>2. ASSUME NEW p \in Procs, SetVersion(p)
        PROVE  dbVersion' = dbVersion + 1
    <2>1. proc[p].pc = "version"
      BY <1>2 DEF SetVersion, At
    <2> QED
      BY <1>2, <2>1, Publishing DEF SoloInv, SetVersion
  <1>3. ASSUME NEW p \in Procs,
               \/ Open(p) \/ Close(p) \/ Fail(p) \/ Kill(p)
               \/ SignAndAdd(p) \/ SignAndUpdate(p) \/ DeleteFence(p)
        PROVE  UNCHANGED dbVersion
    BY <1>3 DEF Open, Close, Fail, Kill, SignAndAdd, SignAndUpdate, DeleteFence,
                Edit, dbVars
  <1>4. ASSUME NEW p \in Procs, Publish(p), ~SetVersion(p)
        PROVE  UNCHANGED dbVersion
    BY <1>4 DEF Publish, StartPublish, ReadOld, TruncateSnapshot, WriteSnapshot,
                TruncateManifest, WriteManifest, TruncateDelta, WriteDelta,
                SetManifest, dbVars
  <1> QED
    BY <1>1, <1>2, <1>3, <1>4 DEF Next, Command

\* With one process at a time the recorded version never decreases, whatever
\* fails and wherever the process is killed, until a new database is made.
THEOREM SoloVersionsIncrease == ASSUME Solo PROVE Spec => VersionsIncrease
  <1>1. SoloInv /\ [Next]_vars
          => [dbVersion' # 0 => dbVersion' >= dbVersion]_dbVersion
    <2> SUFFICES ASSUME SoloInv, [Next]_vars, dbVersion' # dbVersion
                 PROVE  dbVersion' # 0 => dbVersion' >= dbVersion
      OBVIOUS
    <2>1. dbVersion \in Nat
      BY PublisherAssumption DEF SoloInv, TypeOK
    <2>2. Initialize \/ dbVersion' = dbVersion + 1
      BY VersionStep
    <2> QED
      BY <2>1, <2>2 DEF Initialize
  <1> QED
    BY <1>1, AlwaysSolo, PTL DEF Spec, VersionsIncrease

(***************************************************************************)
(* Before the first fault, what was announced belongs to a recorded        *)
(* version, or is the manifest of the Publish call that has written it and *)
(* has yet to record its version.                                          *)
(***************************************************************************)
Announced(p)  == proc[p].pc \in {"delta", "deltaData", "meta", "version"}
Recorded      == \A m \in announced :
                   m.ver <= dbVersion \/ \E p \in Procs : Announced(p) /\ m = ManifestOf(p)
OnceInv       == faults = 0 => UniqueVersions /\ Recorded

\* Steps that write neither manifest.json nor the version, outside Publish.
LEMMA OnceOutside ==
  ASSUME SoloInv, NEW p \in Procs, Procs = {p}, OnceInv, faults' = 0,
         VersionReadMayFail = FALSE,
         \/ Open(p) \/ Close(p) \/ Fail(p) \/ Kill(p)
         \/ SignAndAdd(p) \/ SignAndUpdate(p) \/ DeleteFence(p)
  PROVE  UniqueVersions' /\ Recorded'
  <1>1. faults \in Nat
    BY DEF SoloInv, TypeOK
  <1>2. ~Fail(p) /\ ~Kill(p)
    BY <1>1 DEF Fail, Kill, Fault
  <1>3. UNCHANGED <<dbVersion, announced, faults>>
    BY <1>2 DEF Open, Close, SignAndAdd, SignAndUpdate, DeleteFence, Edit,
                dbVars, fileVars
  <1>4. proc[p].pc \in {"off", "ready"}
    BY <1>2 DEF Open, Close, SignAndAdd, SignAndUpdate, DeleteFence, Edit, At
  <1>5. UniqueVersions /\ \A m \in announced : m.ver <= dbVersion
    BY <1>3, <1>4 DEF OnceInv, Recorded, Announced
  <1> QED
    BY <1>3, <1>5 DEF UniqueVersions, Recorded

\* The steps of Publish before manifest.json is complete.
LEMMA OnceBefore ==
  ASSUME SoloInv, NEW p \in Procs, Procs = {p}, OnceInv, faults' = 0,
         \/ StartPublish(p) \/ ReadOld(p) \/ TruncateSnapshot(p)
         \/ WriteSnapshot(p) \/ TruncateManifest(p)
  PROVE  UniqueVersions' /\ Recorded'
  <1>1. faults \in Nat
    BY DEF SoloInv, TypeOK
  <1>2. UNCHANGED <<dbVersion, announced, faults>>
    <2>1. CASE ReadOld(p)
      <3>1. ~Fault
        BY <1>1 DEF Fault
      <3> QED
        BY <2>1, <3>1 DEF ReadOld, dbVars, fileVars
    <2>2. CASE ~ReadOld(p)
      BY <2>2 DEF StartPublish, TruncateSnapshot, WriteSnapshot,
                  TruncateManifest, dbVars, fileVars
    <2> QED
      BY <2>1, <2>2
  <1>3. ~Announced(p)
    BY DEF StartPublish, ReadOld, TruncateSnapshot, WriteSnapshot,
           TruncateManifest, At, Announced
  <1>4. UniqueVersions /\ \A m \in announced : m.ver <= dbVersion
    BY <1>2, <1>3 DEF OnceInv, Recorded
  <1> QED
    BY <1>2, <1>4 DEF UniqueVersions, Recorded

\* manifest.json is complete: the new manifest has the next number, and all
\* the others have a recorded one.
LEMMA OnceAnnounce ==
  ASSUME SoloInv, NEW p \in Procs, Procs = {p}, OnceInv, faults' = 0,
         WriteManifest(p)
  PROVE  UniqueVersions' /\ Recorded'
  <1>1. /\ TypeOK /\ Written(p) /\ proc[p].pc = "manifestData"
        /\ UNCHANGED <<dbVersion, faults>>
        /\ announced' = announced \cup {ManifestOf(p)}
    BY DEF SoloInv, WriteManifest, At, dbVars
  <1>2. /\ ManifestOf(p).ver = dbVersion + 1 /\ dbVersion \in Nat
    BY <1>1, ManifestType, Publishing
  <1>3. UniqueVersions /\ \A m \in announced : m.ver <= dbVersion
    BY <1>1 DEF OnceInv, Recorded, Announced
  <1>4. \A m \in announced : m.ver # dbVersion + 1
    <2> TAKE m \in announced
    <2>1. m.ver \in Nat
      BY <1>1, PublisherAssumption DEF TypeOK, Manifest, Versions
    <2> QED
      BY <1>2, <1>3, <2>1
  <1>5. UniqueVersions'
    BY <1>1, <1>2, <1>3, <1>4 DEF UniqueVersions
  <1>6. Announced(p)' /\ ManifestOf(p)' = ManifestOf(p)
    BY <1>1, SameCall DEF WriteManifest, Announced
  <1> QED
    BY <1>1, <1>3, <1>5, <1>6 DEF Recorded

\* The steps of Publish after that.
LEMMA OnceAfter ==
  ASSUME SoloInv, NEW p \in Procs, Procs = {p}, OnceInv, faults' = 0,
         TruncateDelta(p) \/ WriteDelta(p) \/ SetManifest(p) \/ SetVersion(p)
  PROVE  UniqueVersions' /\ Recorded'
  <1>1. /\ TypeOK /\ Written(p) /\ Announced(p)
        /\ UNCHANGED <<announced, faults>>
    BY DEF SoloInv, TruncateDelta, WriteDelta, SetManifest, SetVersion, At,
           Announced, fileVars
  <1>2. UniqueVersions /\ Recorded
    BY <1>1 DEF OnceInv
  <1>3. UniqueVersions'
    BY <1>1, <1>2 DEF UniqueVersions
  <1>4. CASE TruncateDelta(p) \/ WriteDelta(p) \/ SetManifest(p)
    <2>1. UNCHANGED dbVersion
      BY <1>4 DEF TruncateDelta, WriteDelta, SetManifest, dbVars
    <2>2. Announced(p)' /\ ManifestOf(p)' = ManifestOf(p)
      BY <1>1, <1>4, SameCall DEF TruncateDelta, WriteDelta, SetManifest, Announced
    <2> QED
      BY <1>1, <1>2, <1>3, <2>1, <2>2 DEF Recorded
  <1>5. CASE SetVersion(p)
    <2>1. /\ dbVersion' = NewVersion(p) /\ ManifestOf(p).ver = NewVersion(p)
          /\ NewVersion(p) = dbVersion + 1 /\ dbVersion \in Nat
      BY <1>1, <1>5, ManifestType, Publishing DEF SetVersion, Announced
    <2>2. \A m \in announced : m.ver \in Nat /\ m.ver <= dbVersion'
      BY <1>1, <1>2, <2>1, PublisherAssumption
      DEF Recorded, TypeOK, Manifest, Versions
    <2> QED
      BY <1>1, <1>3, <2>2 DEF Recorded
  <1> QED
    BY <1>4, <1>5

LEMMA OnceStep ==
  ASSUME Solo, SoloInv, OnceInv, [Next]_vars
  PROVE  OnceInv'
  <1> SUFFICES ASSUME faults' = 0 PROVE UniqueVersions' /\ Recorded'
    BY DEF OnceInv
  <1>1. PICK p \in Procs : Procs = {p}
    BY DEF Solo
  <1>2. CASE Initialize
    BY <1>2 DEF Initialize, UniqueVersions, Recorded
  <1>3. CASE UNCHANGED vars
    BY <1>1, <1>3 DEF vars, dbVars, fileVars, OnceInv, UniqueVersions, Recorded,
                      Announced, ManifestOf, DeltaOf, NewVersion
  <1>4. CASE \/ Open(p) \/ Close(p) \/ Fail(p) \/ Kill(p)
             \/ SignAndAdd(p) \/ SignAndUpdate(p) \/ DeleteFence(p)
    BY <1>1, <1>4, OnceOutside DEF Solo
  <1>5. CASE Publish(p)
    <2>1. CASE \/ StartPublish(p) \/ ReadOld(p) \/ TruncateSnapshot(p)
               \/ WriteSnapshot(p) \/ TruncateManifest(p)
      BY <1>1, <2>1, OnceBefore
    <2>2. CASE WriteManifest(p)
      BY <1>1, <2>2, OnceAnnounce
    <2>3. CASE TruncateDelta(p) \/ WriteDelta(p) \/ SetManifest(p) \/ SetVersion(p)
      BY <1>1, <2>3, OnceAfter
    <2> QED
      BY <1>5, <2>1, <2>2, <2>3 DEF Publish
  <1> QED
    BY <1>1, <1>2, <1>3, <1>4, <1>5 DEF Next, Command

\* With one process at a time, and until a call fails or the process is
\* killed, no version number is announced for two manifests.
THEOREM SoloPublishedOnce == ASSUME Solo PROVE Spec => []PublishedOnce
  <1>1. Init => OnceInv
    BY DEF Init, OnceInv, UniqueVersions, Recorded
  <1>2. SoloInv /\ OnceInv /\ [Next]_vars => OnceInv'
    BY OnceStep
  <1>3. OnceInv => PublishedOnce
    BY DEF OnceInv, PublishedOnce
  <1> QED
    BY <1>1, <1>2, <1>3, AlwaysSolo, PTL DEF Spec
=============================================================================
