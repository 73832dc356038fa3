--------------------------- MODULE VersionManager ---------------------------
(***************************************************************************)
(* pkg/version/manager.go: a second way to publish.  One process owns one  *)
(* Manager; its goroutines publish under the manager's RWMutex and edit    *)
(* the fences without it.  Where Publisher writes its files first and      *)
(* records the version last, PublishNewVersion records the version first.  *)
(* It signs the manifest before it knows of a delta, and writes the delta  *)
(* into a directory that it does not make.                                 *)
(***************************************************************************)
EXTENDS Naturals, FiniteSets

CONSTANTS
  Ids, Revs, Absent,   \* fences and what they say, as in Syncer
  Given,               \* the collections callers publish
  Threads,             \* goroutines that share the Manager
  None,                \* no such file, row, delta or goroutine
  Torn,                \* a file that was truncated and not written
  VersionReadMayFail,  \* whether GetVersion may fail inside NewManager
  MaxVersion,          \* bound: versions published
  MaxFaults            \* bound: failed calls and killed processes

Collection == [Ids -> Revs \cup {Absent}]
NoFences   == [id \in Ids |-> Absent]
Versions   == 1..MaxVersion
Delta      == [from : Collection, to : Collection]
Body       == [ver : Versions, fences : Collection, delta : Delta \cup {None}]
Manifest   == [body : Body, signed : Body]   \* signed: what the signature is for

ASSUME ManagerAssumption ==
  /\ Absent \notin Revs
  /\ Given \subseteq Collection
  /\ None # Torn
  /\ None \notin Threads \cup Collection \cup Delta \cup Manifest
  /\ Torn \notin Collection \cup Delta \cup Manifest
  /\ VersionReadMayFail \in BOOLEAN
  /\ MaxVersion \in Nat
  /\ MaxFaults \in Nat

VARIABLES
  store,           \* the fences table
  dbManifest,      \* metadata row 'manifest'
  dbVersion,       \* metadata row 'version'
  snapFile,        \* v1.bin, v2.bin, ...
  manFile,         \* manifest.json
  deltaFile,       \* patches/v<n-1>_to_v<n>.bin, by n
  patchesDir,      \* the directory patches is there (no code here makes it)
  up,              \* the process runs
  currentVersion,  \* Manager.currentVersion
  holder,          \* the goroutine that holds Manager.mu, or None
  calls,           \* the call each goroutine is in
  faults,          \* faults so far, see MaxFaults
  announced        \* history: manifests that were ever complete in manifest.json

dbVars   == <<store, dbManifest, dbVersion>>
fileVars == <<snapFile, manFile, deltaFile, patchesDir, announced>>
memVars  == <<up, currentVersion, holder>>
vars     == <<dbVars, fileVars, memVars, calls, faults>>

(***************************************************************************)
(* A call: pc is the next step, ver the version it publishes, new the      *)
(* collection, delta what it adds to the manifest; id and rev are the      *)
(* fence an UpdateFence call is about.                                     *)
(***************************************************************************)
PublishSteps == {"metaManifest", "metaVersion", "snapshot", "snapshotData",
                 "manifest", "manifestData", "old", "delta", "deltaData"}
Steps == PublishSteps \cup {"idle", "get", "add", "update"}
Call  == [pc : Steps, ver : Nat, new : Collection, delta : Delta \cup {None},
          id : Ids \cup {Absent}, rev : Revs \cup {Absent}]
Idle  == [pc |-> "idle", ver |-> 0, new |-> NoFences, delta |-> None,
          id |-> Absent, rev |-> Absent]

Init ==
  /\ store = NoFences /\ dbManifest = None /\ dbVersion = 0
  /\ snapFile = [v \in Versions |-> None]
  /\ manFile = None
  /\ deltaFile = [v \in Versions |-> None]
  /\ patchesDir \in BOOLEAN
  /\ up = TRUE /\ currentVersion = 0 /\ holder = None
  /\ calls = [t \in Threads |-> Idle]
  /\ faults = 0
  /\ announced = {}

Fault == faults < MaxFaults /\ faults' = faults + 1

At(t, step)     == up /\ calls[t].pc = step
Goto(t, rec)    == calls' = [calls EXCEPT ![t] = rec]
Become(t, step) == Goto(t, [calls[t] EXCEPT !.pc = step])

\* A publishing call returns: the deferred Unlock.
Unlock(t) == Goto(t, Idle) /\ holder' = None

-----------------------------------------------------------------------------
(* PublishNewVersion. *)

\* The lock is not taken.
BeginUnlocked(t) ==
  /\ At(t, "idle")
  /\ currentVersion < MaxVersion
  /\ \E c \in Given : Goto(t, [Idle EXCEPT !.pc = "metaManifest", !.new = c,
                                             !.ver = currentVersion + 1])
  /\ UNCHANGED <<dbVars, fileVars, memVars, faults>>

\* mu.Lock; the next version, the tree, the snapshot and the signature.
Begin(t) ==
  /\ At(t, "idle")
  /\ currentVersion < MaxVersion
  /\ holder = None
  /\ holder' = t
  /\ \E c \in Given : Goto(t, [Idle EXCEPT !.pc = "metaManifest", !.new = c,
                                             !.ver = currentVersion + 1])
  /\ UNCHANGED <<dbVars, fileVars, up, currentVersion, faults>>

BodyOf(t, delta) == [ver |-> calls[t].ver, fences |-> calls[t].new, delta |-> delta]

\* The signature is made before the delta fields are added and never again.
ManifestOf(t) == [body |-> BodyOf(t, calls[t].delta), signed |-> BodyOf(t, None)]

SetManifest(t) ==
  /\ At(t, "metaManifest")
  /\ dbManifest' = ManifestOf(t)
  /\ Become(t, "metaVersion")
  /\ UNCHANGED <<store, dbVersion, fileVars, memVars, faults>>

\* The version is kept in memory only.
SetVersionInMemory(t) ==
  /\ At(t, "metaVersion")
  /\ currentVersion' = calls[t].ver
  /\ Become(t, "snapshot")
  /\ UNCHANGED <<dbVars, fileVars, up, holder, faults>>

\* SetVersion, and then currentVersion.
SetVersion(t) ==
  /\ At(t, "metaVersion")
  /\ dbVersion' = calls[t].ver
  /\ currentVersion' = calls[t].ver
  /\ Become(t, "snapshot")
  /\ UNCHANGED <<store, dbManifest, fileVars, up, holder, faults>>

TruncateSnapshot(t) ==
  /\ At(t, "snapshot")
  /\ snapFile' = [snapFile EXCEPT ![calls[t].ver] = Torn]
  /\ Become(t, "snapshotData")
  /\ UNCHANGED <<dbVars, manFile, deltaFile, patchesDir, announced, memVars, faults>>

\* The snapshot is left truncated.
WriteSnapshotNot(t) ==
  /\ At(t, "snapshotData")
  /\ Become(t, "manifest")
  /\ UNCHANGED <<dbVars, fileVars, memVars, faults>>

WriteSnapshot(t) ==
  /\ At(t, "snapshotData")
  /\ snapFile' = [snapFile EXCEPT ![calls[t].ver] = calls[t].new]
  /\ Become(t, "manifest")
  /\ UNCHANGED <<dbVars, manFile, deltaFile, patchesDir, announced, memVars, faults>>

TruncateManifest(t) ==
  /\ At(t, "manifest")
  /\ manFile' = Torn
  /\ Become(t, "manifestData")
  /\ UNCHANGED <<dbVars, snapFile, deltaFile, patchesDir, announced, memVars, faults>>

\* writeManifest; it runs again once there is a delta.
WriteManifest(t) ==
  /\ At(t, "manifestData")
  /\ manFile' = ManifestOf(t)
  /\ announced' = announced \cup {ManifestOf(t)}
  /\ \/ calls[t].ver > 1 /\ calls[t].delta = None /\ Become(t, "old")
        /\ UNCHANGED holder
     \/ ~(calls[t].ver > 1 /\ calls[t].delta = None) /\ Unlock(t)
  /\ UNCHANGED <<dbVars, snapFile, deltaFile, patchesDir, up, currentVersion, faults>>

\* ListFences: the table as it is now; an error or an empty table, and the
\* call returns without a delta.
ReadOld(t) ==
  /\ At(t, "old")
  /\ \/ /\ store # NoFences
        /\ Goto(t, [calls[t] EXCEPT !.pc = "delta",
                                    !.delta = [from |-> store, to |-> calls[t].new]])
        /\ UNCHANGED <<holder, faults>>
     \/ store = NoFences /\ Unlock(t) /\ UNCHANGED faults
     \/ Fault /\ Unlock(t)
  /\ UNCHANGED <<dbVars, fileVars, up, currentVersion>>

\* os.WriteFile of the delta fails if its directory is not there.
TruncateDelta(t) ==
  /\ At(t, "delta")
  /\ \/ /\ patchesDir
        /\ deltaFile' = [deltaFile EXCEPT ![calls[t].ver] = Torn]
        /\ Become(t, "deltaData")
        /\ UNCHANGED holder
     \/ ~patchesDir /\ Unlock(t) /\ UNCHANGED deltaFile
  /\ UNCHANGED <<dbVars, snapFile, manFile, patchesDir, announced,
                 up, currentVersion, faults>>

WriteDelta(t) ==
  /\ At(t, "deltaData")
  /\ deltaFile' = [deltaFile EXCEPT ![calls[t].ver] = calls[t].delta]
  /\ Become(t, "manifest")
  /\ UNCHANGED <<dbVars, snapFile, manFile, patchesDir, announced, memVars, faults>>

-----------------------------------------------------------------------------
(* UpdateFence and RemoveFence. *)

StartUpdate(t) ==
  /\ At(t, "idle")
  /\ \E id \in Ids, rev \in Revs :
       Goto(t, [Idle EXCEPT !.pc = "get", !.id = id, !.rev = rev])
  /\ UNCHANGED <<dbVars, fileVars, memVars, faults>>

\* Every error of GetFence counts as a fence that is not there.
GetFence(t) ==
  /\ At(t, "get")
  /\ \/ store[calls[t].id] # Absent /\ Become(t, "update") /\ UNCHANGED faults
     \/ store[calls[t].id] = Absent /\ Become(t, "add") /\ UNCHANGED faults
     \/ Fault /\ Become(t, "add")
  /\ UNCHANGED <<dbVars, fileVars, memVars>>

\* The fence is stored if it is still there, or still not there; otherwise
\* the UNIQUE constraint or ErrFenceNotFound ends the call.
Upsert(t) ==
  /\ At(t, "add") \/ At(t, "update")
  /\ LET id == calls[t].id IN
       IF At(t, "add") <=> store[id] = Absent
         THEN store' = [store EXCEPT ![id] = calls[t].rev]
         ELSE UNCHANGED store
  /\ Goto(t, Idle)
  /\ UNCHANGED <<dbManifest, dbVersion, fileVars, memVars, faults>>

RemoveFence(t) ==
  /\ At(t, "idle")
  /\ \E id \in Ids : store[id] # Absent /\ store' = [store EXCEPT ![id] = Absent]
  /\ UNCHANGED <<dbManifest, dbVersion, fileVars, memVars, calls, faults>>

-----------------------------------------------------------------------------
(* Failures and the process. *)

\* A storage call or a write fails, and the call returns the error.
Fail(t) ==
  /\ up
  /\ calls[t].pc \in PublishSteps \cup {"add", "update"}
  /\ Fault
  /\ Goto(t, Idle)
  /\ holder' = IF calls[t].pc \in PublishSteps THEN None ELSE holder
  /\ UNCHANGED <<dbVars, fileVars, up, currentVersion>>

\* The process dies.
Crash ==
  /\ up /\ Fault
  /\ up' = FALSE /\ currentVersion' = 0 /\ holder' = None
  /\ calls' = [t \in Threads |-> Idle]
  /\ UNCHANGED <<dbVars, fileVars>>

\* NewManager: a version that cannot be read is set to 0.
Restart ==
  /\ ~up
  /\ up' = TRUE
  /\ \/ currentVersion' = dbVersion /\ UNCHANGED <<dbVersion, faults>>
     \/ VersionReadMayFail /\ Fault /\ currentVersion' = 0 /\ dbVersion' = 0
  /\ UNCHANGED <<store, dbManifest, fileVars, holder, calls>>

PublishNewVersion(t) ==
  \/ Begin(t) \/ SetManifest(t) \/ SetVersion(t)
  \/ TruncateSnapshot(t) \/ WriteSnapshot(t)
  \/ TruncateManifest(t) \/ WriteManifest(t)
  \/ ReadOld(t) \/ TruncateDelta(t) \/ WriteDelta(t)

UpdateFence(t) == StartUpdate(t) \/ GetFence(t) \/ Upsert(t)

Next ==
  \/ Crash \/ Restart
  \/ \E t \in Threads :
       PublishNewVersion(t) \/ UpdateFence(t) \/ RemoveFence(t) \/ Fail(t)

Spec == Init /\ [][Next]_vars

-----------------------------------------------------------------------------
(* Properties.  Those of numbers and files, like their theorems, have as a      *)
(* premise that the recorded version can be read at every start: NewManager   *)
(* takes a version it cannot read for 0 and records that (manager.go:65-73).  *)

Complete(file) == file \notin {None, Torn}

\* Every variable holds a value of its kind; a goroutine is inside
\* PublishNewVersion exactly while it holds the lock.
TypeOK ==
  /\ store \in Collection
  /\ dbManifest \in Manifest \cup {None}
  /\ dbVersion \in 0..MaxVersion
  /\ snapFile \in [Versions -> Collection \cup {None, Torn}]
  /\ manFile \in Manifest \cup {None, Torn}
  /\ deltaFile \in [Versions -> Delta \cup {None, Torn}]
  /\ patchesDir \in BOOLEAN
  /\ up \in BOOLEAN
  /\ currentVersion \in 0..MaxVersion
  /\ calls \in [Threads -> Call]
  /\ holder \in Threads \cup {None}
  /\ \A t \in Threads : holder = t <=> calls[t].pc \in PublishSteps
  /\ \A t \in Threads : holder = t => calls[t].ver \in Versions
  /\ faults \in Nat
  /\ announced \subseteq Manifest

\* A number is recorded before it is announced, so whatever dies in between,
\* clients never see a number that the publisher could give away again.
RecordedFirst == \A m \in announced : m.body.ver <= dbVersion

\* Hence a number never stands for two collections, however many goroutines
\* publish and wherever they fail or die, if VersionReadMayFail is FALSE
\* (Publisher: UniqueVersions).
UniqueCollections ==
  \A m1, m2 \in announced :
    m1.body.ver = m2.body.ver => m1.body.fences = m2.body.fences

\* Whatever manifest.json names is there, complete, and what the manifest was
\* made for: the snapshot, and the delta once it is mentioned; if the version is
\* readable at every start.
ManifestServable ==
  Complete(manFile) =>
    LET m == manFile.body IN
    /\ snapFile[m.ver] = m.fences
    /\ m.delta # None => deltaFile[m.ver] = m.delta

\* A snapshot that was announced is never touched again, if the version is
\* readable at every start.
SnapshotsImmutable ==
  [][\A m \in announced : snapFile'[m.body.ver] = snapFile[m.body.ver]]_vars

\* manifest.json carries a signature of what it says.
ManifestSigned == Complete(manFile) => manFile.signed = manFile.body
=============================================================================
