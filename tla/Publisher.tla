----------------------------- MODULE Publisher -----------------------------
(***************************************************************************)
(* The publishing side: pkg/publisher/publisher.go and the commands of     *)
(* cmd/publisher.  Every command is a process of its own; a program that   *)
(* embeds the package keeps one Publisher open for many calls.  All share  *)
(* one output directory (snapshots, deltas, manifest.json) and the SQLite  *)
(* file in it, and nothing keeps two of them apart.  Publish writes its    *)
(* files with os.WriteFile, which truncates before it writes, and records  *)
(* the version in the database last, so a process that dies or fails in    *)
(* between leaves files behind that the next one does not know about.      *)
(***************************************************************************)
EXTENDS Naturals, FiniteSets

CONSTANTS
  Ids, Revs, Absent,   \* fences and what they say, as in Syncer
  Given,               \* collections a program may pass to Publish itself
  Procs,               \* publisher processes that may run at the same time
  None,                \* no such file or row
  Torn,                \* a file that was truncated and not written
  VersionReadMayFail,  \* whether GetVersion may fail inside NewPublisher
  MaxVersion,          \* bound: versions published
  MaxFaults            \* bound: failed calls and killed processes

Collection == [Ids -> Revs \cup {Absent}]
NoFences   == [id \in Ids |-> Absent]
Versions   == 1..MaxVersion

(***************************************************************************)
(* A manifest names its version, the collection (SnapshotHash, RootHash)   *)
(* and the delta (DeltaHash), or None when DeltaURL is empty.  A delta is  *)
(* determined by the two collections it was computed from.                 *)
(***************************************************************************)
Delta    == [from : Collection, to : Collection]
Manifest == [ver : Versions, fences : Collection, delta : Delta \cup {None}]

ASSUME PublisherAssumption ==
  /\ Absent \notin Revs
  /\ Given \subseteq Collection
  /\ None # Torn
  /\ None \notin Collection \cup Delta \cup Manifest
  /\ Torn \notin Collection \cup Delta \cup Manifest
  /\ VersionReadMayFail \in BOOLEAN
  /\ MaxVersion \in Nat
  /\ MaxFaults \in Nat

VARIABLES
  store,       \* the fences table
  dbManifest,  \* metadata row 'manifest'
  dbVersion,   \* metadata row 'version'
  snapFile,    \* v1.bin, v2.bin, ...
  manFile,     \* manifest.json
  deltaFile,   \* patches/v<n-1>_to_v<n>.bin, by n
  proc,        \* the Publisher of each process and its Publish call
  faults,      \* faults so far, see MaxFaults
  announced    \* history: manifests ever complete in manifest.json since init

dbVars   == <<store, dbManifest, dbVersion>>
fileVars == <<snapFile, manFile, deltaFile, announced>>
vars     == <<dbVars, fileVars, proc, faults>>

(***************************************************************************)
(* A process: pc is "off" outside the program, "ready" between calls, and  *)
(* otherwise the next step of Publish; cur is Publisher.currentVer, new    *)
(* the fences to publish and old those the delta starts from.              *)
(***************************************************************************)
Steps == {"off", "ready", "old", "snapshot", "snapshotData", "manifest",
          "manifestData", "delta", "deltaData", "meta", "version"}
Proc  == [pc : Steps, cur : Nat, new : Collection, old : Collection]
Off   == [pc |-> "off", cur |-> 0, new |-> NoFences, old |-> NoFences]

Init ==
  /\ store = NoFences
  /\ dbManifest = None
  /\ dbVersion = 0
  /\ snapFile = [v \in Versions |-> None]
  /\ manFile = None
  /\ deltaFile = [v \in Versions |-> None]
  /\ proc = [p \in Procs |-> Off]
  /\ faults = 0
  /\ announced = {}

Fault == faults < MaxFaults /\ faults' = faults + 1

At(p, step)    == proc[p].pc = step
Goto(p, rec)   == proc' = [proc EXCEPT ![p] = rec]
Become(p, step) == Goto(p, [proc[p] EXCEPT !.pc = step])

\* The publisher between two calls; what Publish held is gone.
Ready(cur) == [pc |-> "ready", cur |-> cur, new |-> NoFences, old |-> NoFences]

-----------------------------------------------------------------------------
(* Opening, closing and editing. *)

\* The recorded version is not read.
OpenBlind(p) ==
  /\ At(p, "off")
  /\ Goto(p, Ready(0))
  /\ UNCHANGED <<dbVars, fileVars, faults>>

\* NewPublisher: a version that cannot be read counts as 0.
Open(p) ==
  /\ At(p, "off")
  /\ \/ Goto(p, Ready(dbVersion)) /\ UNCHANGED faults
     \/ VersionReadMayFail /\ Fault /\ Goto(p, Ready(0))
  /\ UNCHANGED <<dbVars, fileVars>>

Close(p) ==
  /\ At(p, "ready")
  /\ Goto(p, Off)
  /\ UNCHANGED <<dbVars, fileVars, faults>>

\* SignAndAdd, SignAndUpdate, DeleteFence: one transaction each.
Edit(p, id, fence) ==
  /\ At(p, "ready")
  /\ store' = [store EXCEPT ![id] = fence]
  /\ UNCHANGED <<dbManifest, dbVersion, fileVars, proc, faults>>

SignAndAdd(p) ==
  \E id \in Ids, r \in Revs : store[id] = Absent /\ Edit(p, id, r)
SignAndUpdate(p) ==
  \E id \in Ids, r \in Revs : store[id] \notin {Absent, r} /\ Edit(p, id, r)
DeleteFence(p) ==
  \E id \in Ids : store[id] # Absent /\ Edit(p, id, Absent)

\* Initialize replaces the database; the files of earlier versions stay.
Initialize ==
  /\ \A p \in Procs : At(p, "off")
  /\ store' = NoFences /\ dbManifest' = None /\ dbVersion' = 0
  /\ announced' = {}
  /\ UNCHANGED <<snapFile, manFile, deltaFile, proc, faults>>

-----------------------------------------------------------------------------
(* Publish. *)

NewVersion(p) == proc[p].cur + 1

\* The publish command lists the table, a program may pass what it likes.
StartPublish(p) ==
  /\ At(p, "ready")
  /\ NewVersion(p) <= MaxVersion
  /\ \E c \in {store} \cup Given :
       Goto(p, [proc[p] EXCEPT !.pc = "old", !.new = c])
  /\ UNCHANGED <<dbVars, fileVars, faults>>

\* Publish lists the table again for the delta; an error means no delta.
ReadOld(p) ==
  /\ At(p, "old")
  /\ \/ Goto(p, [proc[p] EXCEPT !.pc = "snapshot", !.old = store])
        /\ UNCHANGED faults
     \/ Fault /\ Goto(p, [proc[p] EXCEPT !.pc = "snapshot", !.old = NoFences])
  /\ UNCHANGED <<dbVars, fileVars>>

\* What Publish signs.
DeltaOf(p) ==
  IF NewVersion(p) > 1 /\ proc[p].old # NoFences
    THEN [from |-> proc[p].old, to |-> proc[p].new] ELSE None
ManifestOf(p) ==
  [ver |-> NewVersion(p), fences |-> proc[p].new, delta |-> DeltaOf(p)]

\* An empty new collection has an empty delta, which is not written.
WritesDelta(p) == DeltaOf(p) # None /\ proc[p].new # NoFences

TruncateSnapshot(p) ==
  /\ At(p, "snapshot")
  /\ snapFile' = [snapFile EXCEPT ![NewVersion(p)] = Torn]
  /\ Become(p, "snapshotData")
  /\ UNCHANGED <<dbVars, manFile, deltaFile, announced, faults>>

WriteSnapshot(p) ==
  /\ At(p, "snapshotData")
  /\ snapFile' = [snapFile EXCEPT ![NewVersion(p)] = proc[p].new]
  /\ Become(p, "manifest")
  /\ UNCHANGED <<dbVars, manFile, deltaFile, announced, faults>>

TruncateManifest(p) ==
  /\ At(p, "manifest")
  /\ manFile' = Torn
  /\ Become(p, "manifestData")
  /\ UNCHANGED <<dbVars, snapFile, deltaFile, announced, faults>>

\* The delta file is forgotten.
WriteManifestOnly(p) ==
  /\ At(p, "manifestData")
  /\ manFile' = ManifestOf(p)
  /\ announced' = announced \cup {ManifestOf(p)}
  /\ Become(p, "meta")
  /\ UNCHANGED <<dbVars, snapFile, deltaFile, faults>>

WriteManifest(p) ==
  /\ At(p, "manifestData")
  /\ manFile' = ManifestOf(p)
  /\ announced' = announced \cup {ManifestOf(p)}
  /\ Become(p, IF WritesDelta(p) THEN "delta" ELSE "meta")
  /\ UNCHANGED <<dbVars, snapFile, deltaFile, faults>>

TruncateDelta(p) ==
  /\ At(p, "delta")
  /\ deltaFile' = [deltaFile EXCEPT ![NewVersion(p)] = Torn]
  /\ Become(p, "deltaData")
  /\ UNCHANGED <<dbVars, snapFile, manFile, announced, faults>>

WriteDelta(p) ==
  /\ At(p, "deltaData")
  /\ deltaFile' = [deltaFile EXCEPT ![NewVersion(p)] = DeltaOf(p)]
  /\ Become(p, "meta")
  /\ UNCHANGED <<dbVars, snapFile, manFile, announced, faults>>

SetManifest(p) ==
  /\ At(p, "meta")
  /\ dbManifest' = ManifestOf(p)
  /\ Become(p, "version")
  /\ UNCHANGED <<store, dbVersion, fileVars, faults>>

\* currentVer is not advanced.
SetVersionOnly(p) ==
  /\ At(p, "version")
  /\ dbVersion' = NewVersion(p)
  /\ Goto(p, Ready(proc[p].cur))
  /\ UNCHANGED <<store, dbManifest, fileVars, faults>>

\* currentVer is advanced past the version recorded.
SetVersionSkipping(p) ==
  /\ At(p, "version")
  /\ dbVersion' = NewVersion(p)
  /\ Goto(p, Ready(NewVersion(p) + 1))
  /\ UNCHANGED <<store, dbManifest, fileVars, faults>>

\* The version is advanced in memory only.
SetVersionInMemory(p) ==
  /\ At(p, "version")
  /\ Goto(p, Ready(NewVersion(p)))
  /\ UNCHANGED <<dbVars, fileVars, faults>>

\* SetVersion, and Publish advances currentVer and returns.
SetVersion(p) ==
  /\ At(p, "version")
  /\ dbVersion' = NewVersion(p)
  /\ Goto(p, Ready(NewVersion(p)))
  /\ UNCHANGED <<store, dbManifest, fileVars, faults>>

\* A write or a storage call of Publish fails, and Publish returns the error.
Fail(p) ==
  /\ proc[p].pc \notin {"off", "ready"}
  /\ Fault
  /\ Goto(p, Ready(proc[p].cur))
  /\ UNCHANGED <<dbVars, fileVars>>

\* The process is killed.
Kill(p) ==
  /\ ~At(p, "off")
  /\ Fault
  /\ Goto(p, Off)
  /\ UNCHANGED <<dbVars, fileVars>>

Publish(p) ==
  \/ StartPublish(p) \/ ReadOld(p) \/ TruncateSnapshot(p) \/ WriteSnapshot(p)
  \/ TruncateManifest(p) \/ WriteManifest(p) \/ TruncateDelta(p)
  \/ WriteDelta(p) \/ SetManifest(p) \/ SetVersion(p)

Command(p) ==
  \/ Open(p) \/ Close(p) \/ Fail(p) \/ Kill(p)
  \/ SignAndAdd(p) \/ SignAndUpdate(p) \/ DeleteFence(p)
  \/ Publish(p)

Next == Initialize \/ \E p \in Procs : Command(p)

Spec == Init /\ [][Next]_vars

-----------------------------------------------------------------------------
(* Properties. *)

\* Every variable holds a value of its kind.
TypeOK ==
  /\ store \in Collection
  /\ dbManifest \in Manifest \cup {None}
  /\ dbVersion \in 0..MaxVersion
  /\ snapFile \in [Versions -> Collection \cup {None, Torn}]
  /\ manFile \in Manifest \cup {None, Torn}
  /\ deltaFile \in [Versions -> Delta \cup {None, Torn}]
  /\ proc \in [Procs -> Proc]
  /\ \A p \in Procs : proc[p].cur <= MaxVersion
  /\ \A p \in Procs : proc[p].pc \notin {"off", "ready"} => proc[p].cur < MaxVersion
  /\ faults \in Nat
  /\ announced \subseteq Manifest

Complete(file) == file \notin {None, Torn}

\* With one process, however it fails or is killed: while manifest.json names
\* the recorded version, the snapshot it names is there, complete, and the one
\* it was signed for, and so is the delta, if the new collection is not empty.
CommittedServable ==
  (Complete(manFile) /\ manFile.ver = dbVersion) =>
    /\ snapFile[dbVersion] = manFile.fences
    /\ (manFile.delta # None /\ manFile.fences # NoFences)
         => deltaFile[dbVersion] = manFile.delta

\* With one process: the snapshot of a recorded version is never touched again.
CommittedImmutable ==
  [][\A v \in Versions : v <= dbVersion => snapFile'[v] = snapFile[v]]_vars

\* Two complete manifests with one version number are the same manifest.
UniqueVersions ==
  \A m1, m2 \in announced : m1.ver = m2.ver => m1 = m2

\* With one process, a version number is used for two manifests only after a
\* failed or killed Publish.
PublishedOnce == faults = 0 => UniqueVersions

\* With one process, the recorded version only grows ("Monotonically increasing
\* version number", manifest.proto:13), until a new database is made.
VersionsIncrease ==
  [][dbVersion' # 0 => dbVersion' >= dbVersion]_dbVersion
=============================================================================
