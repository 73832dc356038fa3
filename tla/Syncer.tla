------------------------------- MODULE Syncer -------------------------------
(***************************************************************************)
(* The geofence client: pkg/sync/syncer.go over pkg/storage and            *)
(* pkg/client.  One process owns one Syncer and one SQLite file; any       *)
(* number of goroutines (the auto-sync loop and direct callers of Sync)    *)
(* run Sync on it, with no lock around the whole of it.  Every step that   *)
(* reads or writes shared state (the atomic currentVer, one storage call,  *)
(* one download) is an action of its own, so calls interleave between      *)
(* them, a call may fail at any of them, and the process may die there.    *)
(*                                                                         *)
(* The remote side is external: releases are numbered without gaps, their  *)
(* manifests are authentic, and a CDN edge may serve an old manifest or    *)
(* damaged data.                                                           *)
(***************************************************************************)
EXTENDS Naturals, FiniteSets

CONSTANTS
  Ids,                 \* identifiers of fences
  Revs,                \* what a fence may say: its type, geometry, times...
  Absent,              \* no fence under this identifier
  Contents,            \* the fence collections a release may hold
  Kinds,               \* the kinds of delta file a release may come with
  Workers,             \* goroutines that call Sync on the one Syncer
  VersionReadMayFail,  \* whether GetVersion may fail inside NewSyncer
  MaxVersion,          \* bound: number of releases
  MaxFaults            \* bound: crashes, failed calls, damaged or old data

Collection == [Ids -> Revs \cup {Absent}]
NoFences   == [id \in Ids |-> Absent]
Present(c) == {id \in Ids : c[id] # Absent}

(***************************************************************************)
(* What the client makes of the delta file of a release (Diff writes bare  *)
(* diff bytes, ReadDelta expects a DeltaFile message around them):         *)
(*   "none"     the manifest has no DeltaURL                               *)
(*   "raw"      the new collection itself; it parses as a DeltaFile of     *)
(*              unknown fields, so the patch is empty                      *)
(*   "header"   prefix and suffix lengths first; nearly always rejected    *)
(*   "missing"  DeltaURL set, no file written (the new collection is empty)*)
(***************************************************************************)
DeltaKind == {"none", "raw", "header", "missing"}

ASSUME SyncerAssumption ==
  /\ Absent \notin Revs
  /\ Absent \notin Ids
  /\ Contents \subseteq Collection
  /\ "none" \in Kinds /\ Kinds \subseteq DeltaKind
  /\ VersionReadMayFail \in BOOLEAN
  /\ MaxVersion \in Nat
  /\ MaxFaults \in Nat

VARIABLES
  release,     \* [1..MaxVersion -> what was published under that number]
  latest,      \* number of releases published so far
  served,      \* version of the manifest the CDN edge serves; 0: none yet
  faults,      \* faults so far, see MaxFaults
  store,       \* the fences table of the client's database
  dbManifest,  \* metadata row 'manifest': version of the stored manifest
  dbVersion,   \* metadata row 'version'
  up,          \* the client process is running
  currentVer,  \* Syncer.currentVer
  job          \* the local state of the Sync call of each worker

remoteVars == <<release, latest, served>>
dbVars     == <<store, dbManifest, dbVersion>>
vars       == <<remoteVars, faults, dbVars, up, currentVer, job>>

Versions    == 1..MaxVersion
Release     == [fences : Collection, delta : Kinds]
Unpublished == [fences |-> NoFences, delta |-> "none"]

(***************************************************************************)
(* A Sync call: pc names the step it takes next, base is the version it    *)
(* loaded, man the version of the manifest it fetched, new the collection  *)
(* it installs, todo what is left of it, and cur the fence UpdateFence did *)
(* not find.                                                               *)
(***************************************************************************)
Steps == {"idle", "manifest", "delta", "snapshot", "upsert", "add",
          "version", "store"}
Job   == [pc : Steps, base : Nat, man : Nat, new : Collection,
          todo : SUBSET Ids, cur : Ids \cup {Absent}]
Idle  == [pc |-> "idle", base |-> 0, man |-> 0, new |-> NoFences,
          todo |-> {}, cur |-> Absent]

Init ==
  /\ release = [v \in Versions |-> Unpublished]
  /\ latest = 0
  /\ served = 0
  /\ faults = 0
  /\ store = NoFences
  /\ dbManifest = 0
  /\ dbVersion = 0
  /\ up = TRUE
  /\ currentVer = 0
  /\ job = [w \in Workers |-> Idle]

Fault == faults < MaxFaults /\ faults' = faults + 1

-----------------------------------------------------------------------------
(* The remote side. *)

\* The delta kinds Publish can produce for version v with collection c.
DeltaKinds(v, c) ==
  IF v = 1 THEN {"none"}
  ELSE IF c = NoFences THEN Kinds \cap {"none", "missing"}
  ELSE Kinds \ {"missing"}

PublishRelease ==
  /\ latest < MaxVersion
  /\ latest' = latest + 1
  /\ \E c \in Contents : \E k \in DeltaKinds(latest + 1, c) :
       release' = [release EXCEPT ![latest + 1] = [fences |-> c, delta |-> k]]
  /\ UNCHANGED <<served, faults, dbVars, up, currentVer, job>>

\* The edge the client talks to gets the latest manifest.
CdnRefresh ==
  /\ served # latest
  /\ served' = latest
  /\ UNCHANGED <<release, latest, faults, dbVars, up, currentVer, job>>

\* The client is routed to an edge that still has an old manifest.
CdnStale ==
  /\ Fault
  /\ \E v \in 1..latest : v < served /\ served' = v
  /\ UNCHANGED <<release, latest, dbVars, up, currentVer, job>>

-----------------------------------------------------------------------------
(* One Sync call. *)

At(w, step)  == up /\ job[w].pc = step
Goto(w, rec) == job' = [job EXCEPT ![w] = rec]
Return(w)    == Goto(w, Idle)

\* Sync loads currentVer.
Begin(w) ==
  /\ At(w, "idle")
  /\ Goto(w, [Idle EXCEPT !.pc = "manifest", !.base = currentVer])
  /\ UNCHANGED <<remoteVars, faults, dbVars, up, currentVer>>

\* No manifest is served yet (served = 0) ends the call as well.
UpToDateSameOnly(base, v) == v \in {0, base}
UpToDate(base, v) == v <= base
UseDelta(base, v) == v - base = 1 /\ release[v].delta # "none"

\* currentVer is stored before the update instead of after it.
FetchManifestEager(w) ==
  /\ At(w, "manifest")
  /\ \/ UpToDate(job[w].base, served) /\ Return(w) /\ UNCHANGED currentVer
     \/ /\ ~UpToDate(job[w].base, served)
        /\ currentVer' = served
        /\ Goto(w, [job[w] EXCEPT !.man = served, !.pc = "snapshot"])
  /\ UNCHANGED <<remoteVars, faults, dbVars, up>>

\* Sync fetches the manifest, and is done or chooses how to update.
FetchManifest(w) ==
  /\ At(w, "manifest")
  /\ \/ UpToDate(job[w].base, served) /\ Return(w)
     \/ /\ ~UpToDate(job[w].base, served)
        /\ Goto(w, [job[w] EXCEPT
                      !.man = served,
                      !.pc  = IF UseDelta(job[w].base, served)
                                THEN "delta" ELSE "snapshot"])
  /\ UNCHANGED <<remoteVars, faults, dbVars, up, currentVer>>

\* updateStorage starts on the collection that was downloaded.
Install(w, c) ==
  Goto(w, [job[w] EXCEPT !.pc = "upsert", !.new = c, !.todo = Present(c)])

\* applyDelta up to updateStorage: the call ends, or an empty patch passes.
FetchDelta(w) ==
  /\ At(w, "delta")
  /\ LET kind == release[job[w].man].delta IN
       \/ kind \in {"header", "missing"} /\ Return(w)
       \/ kind \in {"header", "raw"} /\ Install(w, NoFences)
  /\ UNCHANGED <<remoteVars, faults, dbVars, up, currentVer>>

\* SnapshotHash and RootHash both match: hashes are equal when contents are.
VerifiedAny(data, v) == TRUE
Verified(data, v) == data = release[v].fences

\* applySnapshot up to updateStorage; damaged data counts as a fault.
FetchSnapshot(w) ==
  /\ At(w, "snapshot")
  /\ \E data \in Contents :
       \/ Verified(data, job[w].man) /\ Install(w, data) /\ UNCHANGED faults
       \/ ~Verified(data, job[w].man) /\ Return(w) /\ Fault
  /\ UNCHANGED <<remoteVars, dbVars, up, currentVer>>

\* ErrFenceNotFound is treated as success: the fence is never added.
UpdateFenceOnly(w) ==
  /\ At(w, "upsert")
  /\ \E id \in job[w].todo :
       /\ store' = IF store[id] # Absent
                     THEN [store EXCEPT ![id] = job[w].new[id]] ELSE store
       /\ Goto(w, [job[w] EXCEPT !.todo = @ \ {id}])
  /\ UNCHANGED <<remoteVars, faults, dbManifest, dbVersion, up, currentVer>>

\* updateStorage calls UpdateFence for one fence.
UpdateFence(w) ==
  /\ At(w, "upsert")
  /\ \E id \in job[w].todo :
       \/ /\ store[id] # Absent
          /\ store' = [store EXCEPT ![id] = job[w].new[id]]
          /\ Goto(w, [job[w] EXCEPT !.todo = @ \ {id}])
       \/ /\ store[id] = Absent
          /\ Goto(w, [job[w] EXCEPT !.pc = "add", !.cur = id])
          /\ UNCHANGED store
  /\ UNCHANGED <<remoteVars, faults, dbManifest, dbVersion, up, currentVer>>

\* updateStorage calls AddFence for the fence that was not found; the row
\* may exist by now, and the UNIQUE constraint then fails the whole call.
AddFence(w) ==
  /\ At(w, "add")
  /\ LET id == job[w].cur IN
       \/ /\ store[id] = Absent
          /\ store' = [store EXCEPT ![id] = job[w].new[id]]
          /\ Goto(w, [job[w] EXCEPT !.pc = "upsert", !.todo = @ \ {id},
                                    !.cur = Absent])
       \/ store[id] # Absent /\ Return(w) /\ UNCHANGED store
  /\ UNCHANGED <<remoteVars, faults, dbManifest, dbVersion, up, currentVer>>

\* The version is stored before the manifest.
SetManifestSwapped(w) ==
  /\ At(w, "upsert")
  /\ job[w].todo = {}
  /\ dbVersion' = job[w].man
  /\ Goto(w, [job[w] EXCEPT !.pc = "version"])
  /\ UNCHANGED <<remoteVars, faults, store, dbManifest, up, currentVer>>

SetManifest(w) ==
  /\ At(w, "upsert")
  /\ job[w].todo = {}
  /\ dbManifest' = job[w].man
  /\ Goto(w, [job[w] EXCEPT !.pc = "version"])
  /\ UNCHANGED <<remoteVars, faults, store, dbVersion, up, currentVer>>

SetVersion(w) ==
  /\ At(w, "version")
  /\ dbVersion' = job[w].man
  /\ Goto(w, [job[w] EXCEPT !.pc = "store"])
  /\ UNCHANGED <<remoteVars, faults, store, dbManifest, up, currentVer>>

\* currentVer is advanced past the version installed.
StoreCurrentVerNext(w) ==
  /\ At(w, "store")
  /\ currentVer' = job[w].man + 1
  /\ Return(w)
  /\ UNCHANGED <<remoteVars, faults, dbVars, up>>

\* Sync stores currentVer and returns.
StoreCurrentVer(w) ==
  /\ At(w, "store")
  /\ currentVer' = job[w].man
  /\ Return(w)
  /\ UNCHANGED <<remoteVars, faults, dbVars, up>>

\* A download or a storage call returns an error, and Sync returns it.
Fail(w) ==
  /\ up
  /\ job[w].pc \notin {"idle", "store"}
  /\ Fault
  /\ Return(w)
  /\ UNCHANGED <<remoteVars, dbVars, up, currentVer>>

-----------------------------------------------------------------------------
(* The process. *)

\* The process dies, or Close pulls the database away under its calls.
Crash ==
  /\ up
  /\ Fault
  /\ up' = FALSE
  /\ currentVer' = 0
  /\ job' = [w \in Workers |-> Idle]
  /\ UNCHANGED <<remoteVars, dbVars>>

\* The restarted process believes the stored manifest, not the version.
RestartFromManifest ==
  /\ ~up
  /\ up' = TRUE
  /\ currentVer' = dbManifest
  /\ UNCHANGED <<remoteVars, faults, dbVars, job>>

\* NewSyncer: a version that cannot be read counts as 0.
Restart ==
  /\ ~up
  /\ up' = TRUE
  /\ \/ currentVer' = dbVersion /\ UNCHANGED faults
     \/ VersionReadMayFail /\ Fault /\ currentVer' = 0
  /\ UNCHANGED <<remoteVars, dbVars, job>>

Step(w) ==
  \/ Begin(w) \/ FetchManifest(w) \/ FetchDelta(w) \/ FetchSnapshot(w)
  \/ UpdateFence(w) \/ AddFence(w) \/ SetManifest(w) \/ SetVersion(w)
  \/ StoreCurrentVer(w)

Next ==
  \/ PublishRelease \/ CdnRefresh \/ CdnStale
  \/ Crash \/ Restart
  \/ \E w \in Workers : Step(w) \/ Fail(w)

Spec == Init /\ [][Next]_vars

\* Each goroutine keeps running: the ticker starts Sync again, every download
\* and storage call returns (HTTPTimeout), and an operator restarts a dead
\* process.  Releases need not appear; a refreshed edge stays reachable.
Fairness ==
  /\ WF_vars(CdnRefresh)
  /\ WF_vars(Restart)
  /\ \A w \in Workers : WF_vars(Step(w))

FairSpec == Spec /\ Fairness

-----------------------------------------------------------------------------
(* Properties. *)

\* Every variable holds a value of its kind.
TypeOK ==
  /\ release \in [Versions -> Release]
  /\ latest \in 0..MaxVersion
  /\ served \in 0..latest
  /\ faults \in Nat
  /\ store \in Collection
  /\ dbManifest \in 0..latest
  /\ dbVersion \in 0..latest
  /\ up \in BOOLEAN
  /\ currentVer \in 0..latest
  /\ job \in [Workers -> Job]
  /\ \A w \in Workers : job[w].base <= latest /\ job[w].man <= latest

\* Every fence in the client's database is, in that very revision, part of
\* some published release: neither damaged downloads, nor deltas, nor
\* interleaved or interrupted calls ever leave anything else in the table.
Provenance ==
  \A id \in Present(store) :
    \E v \in 1..latest : release[v].fences[id] = store[id]

\* The versions that can only have been installed from a snapshot.
FromSnapshot(v) == v # 0 /\ release[v].delta \in {"none", "missing"}

\* Once a version is recorded in the database, the database has some revision
\* of every fence of that version, however calls interleave, fail or crash:
\* SetVersion comes only after the last AddFence.
Covered ==
  FromSnapshot(dbVersion) =>
    Present(release[dbVersion].fences) \subseteq Present(store)

\* With one caller, each fence of the recorded version has the revision of
\* that version or of a later one: an interrupted update may run ahead of the
\* recorded version but never behind it.
Fresh ==
  FromSnapshot(dbVersion) =>
    \A id \in Present(release[dbVersion].fences) :
      \E v \in dbVersion..latest :
        store[id] # Absent /\ release[v].fences[id] = store[id]

\* With one caller, a crash between the two metadata writes leaves the
\* manifest newer than the version, never older.
ManifestAhead == dbVersion <= dbManifest

\* With one caller, the version in memory is the recorded one, except between
\* SetVersion and the store of currentVer, when it is older.
MemoryMatchesDisk ==
  up => \/ currentVer = dbVersion
        \/ \E w \in Workers : job[w].pc = "store" /\ currentVer < dbVersion

\* The recorded version never decreases ("Version Rollback Protection",
\* README.md:45).
NoRollback == [][dbVersion' >= dbVersion]_dbVersion

\* A version is recorded only with the fences it holds, also when the update
\* came as a delta.
DeltaCovered ==
  dbVersion # 0 => Present(release[dbVersion].fences) \subseteq Present(store)

\* When no call is running, none ever failed and the latest release is
\* recorded, the database holds that release and nothing else.
NoLeftovers ==
  (faults = 0 /\ dbVersion = latest /\ dbVersion # 0
     /\ \A w \in Workers : job[w] = Idle)
    => Present(store) \subseteq Present(release[dbVersion].fences)

\* The database holds every fence of version v in its revision.
Installed(v) == \A id \in Present(release[v].fences) :
                  store[id] = release[v].fences[id]

\* Once releases, crashes and failures stop, and if the latest release comes
\* without a delta, the client ends up at it, in memory and on disk, with all
\* its fences, and stays there, whatever deltas and mishaps came before.
Converges ==
  <>[]((latest # 0 /\ release[latest].delta = "none")
         => /\ up /\ currentVer = latest
            /\ dbVersion = latest /\ Installed(latest))
=============================================================================
