# Geofence-Updater-Lite in TLA+

TLA+ modules of the parts of Geofence-Updater-Lite that keep state, TLC
configurations that model-check them on small instances, and theorems about them
that the TLAPS proof system checks for every instance. `PROJECT.json` says which
lines of the source each definition stands for.

    tlc -workers 2 -config SyncerSolo.cfg MCSyncer      # one run
    tlapm SyncerProofs.tla                              # the proofs of a module

Contents: [the system](#the-system) · [modules](#modules) · [runs](#runs) ·
[bounds](#bounds) · [fairness](#fairness) · [proofs](#proofs) ·
[disagreements](#disagreements-found) · [assumptions](#assumptions-and-abstractions) ·
[not modelled](#not-modelled) · [plan](#plan)

## The system

An authority signs collections of geofences and publishes them as numbered
versions on a CDN; a drone's client downloads them, verifies them and answers
whether a place may be flown through.

    cmd/publisher                     CDN (files)                     client
    ------------                      -----------                     ------
    Publisher --os.WriteFile--> v<n>.bin, manifest.json, --HTTP--> client.Client
       |                        patches/v<n-1>_to_v<n>.bin             |
       v                                                               v
    SQLiteStore                                            Syncer --> SQLiteStore
    (fences, fence_index,                                    ^        (the same package,
     metadata: version, manifest)         StartAutoSync, Sync, Check   another file)

| component | state it keeps | operations | what is hard | what makes it correct |
|---|---|---|---|---|
| sync client, `pkg/sync/syncer.go` | `currentVer` (atomic), `mu` for two timestamps, the client's database | `NewSyncer`, `Sync`, `applyDelta`, `applySnapshot`, `updateStorage`, `StartAutoSync`, `Check`, `Close` | no lock around `Sync`; fences, manifest and version are written one storage call after the other; restart from the recorded version; stale manifests | the recorded version never decreases and is backed by the fences; every stored fence was published; after the last release the client reaches it |
| publisher, `pkg/publisher/publisher.go`, `cmd/publisher` | `currentVer`, the publisher's database, the files of the output directory | `NewPublisher`, `SignAndAdd`, `SignAndUpdate`, `DeleteFence`, `Publish`, `Initialize`, `Close` | four files and two metadata rows are written without a transaction; a version number is used before it is recorded; several processes on one directory | what a recorded version names is complete and never rewritten; a number means one manifest; numbers only grow |
| fence store, `pkg/storage/storage.go` | table `fences`, R-Tree `fence_index`, table `metadata`, an RWMutex | `AddFence`, `UpdateFence`, `DeleteFence`, `QueryAtPoint`, `QueryInBounds`, `Get/SetVersion`, `Get/SetManifest` | two tables to keep in step, linked by rowid; early returns in a transaction under a lock | each call is atomic; a query finds the fences that contain the point and whose box does, and no other; no path keeps the lock |
| version manager, `pkg/version/manager.go` | `currentVersion`, RWMutex, database and files | `PublishNewVersion`, `UpdateFence`, `RemoveFence`, `Sync` | records the version before it writes the files; signs before it adds the delta fields | as for the publisher |
| HTTP client, `pkg/client/http.go` | nothing across calls | `FetchManifest`, `FetchSnapshot`, `FetchDelta`, `FetchManifestWithRetry` | retries, sizes, hashes, signatures | what it returns was verified; retries end |
| binary diff, `pkg/binarydiff/delta.go` | none | `Diff`, `PatchFences`, `ReadDelta`, `WriteDelta`, `ReadDeltaFile`, `WriteDeltaFile` | two formats told apart by guessing | `PatchFences(a, Diff(a, b)) = b` |
| Merkle tree, `pkg/merkle` | none | `NewTree`, `GetProof`, `VerifyProof`, `CreateSnapshot`, `LoadSnapshot` | odd levels, order of siblings | a proof verifies exactly for a leaf of the tree |
| geofence types, `pkg/geofence` | none | `CreateDelta`, `ApplyDelta`, `GetBounds`, `ContainsPoint`, `IsActiveAt` | equality that leaves fields out; floating point | `ApplyDelta(a, CreateDelta(a, b)) = b` |
| converter, `pkg/converter` | none | proto to Go and back | one shape on the wire, several in memory | what round trips |
| crypto, config, build information, sample program, generated code | none that changes | | | |

The components meet at three places. The publisher hands the client *files* through the
CDN: a manifest with a version, hashes and URLs, a snapshot, and perhaps a delta. Both
sides keep their facts in a *store*. Inside the client the auto-sync goroutine and direct
callers share one *Syncer*, and the program reads the goroutine's results from a *channel*. What is hard to test in each of them is listed under
`hazards` in `PROJECT.json`, at the line where it bites, with the properties that cover it.

## Modules

| module | models | extended by |
|---|---|---|
| `Syncer` | the client: `pkg/sync` over the store and the HTTP client, with the CDN as its environment | `AutoSync`, `MCSyncer` (TLC), `SyncerProofs` |
| `AutoSync` | `StartAutoSync`: the goroutine, its channel, ticker and context, over `Syncer` | `MCAutoSync`, `AutoSyncProofs` |
| `Publisher` | the publisher's processes, their database and their files | `GulSystem`, `MCPublisher`, `PublisherProofs` |
| `GulSystem` | publisher and clients over one output directory | `MCGulSystem`, `GulSystemProofs` |
| `FenceStore` | the store's writing calls, one SQL statement per step | `MCFenceStore`, `FenceStoreProofs` |
| `VersionManager` | one `Manager` of `pkg/version` with its goroutines, database and files | `MCVersionManager`, `VersionManagerProofs` |
| `FenceTable` | what the store promises: a table on which every call is atomic. `FenceStore` instantiates it as `Abstract` | |
| `Fences` | a fence, its protobuf form, the deltas of `pkg/geofence` and `pkg/merkle` | `Merkle` |
| `Merkle` | the Merkle tree, level by level, and its proofs | `Delivery` |
| `Delivery` | the signed manifest, and what a client accepts of the answers it gets | `Algorithms` |
| `DeltaCodec` | `pkg/binarydiff`: diff, patch and the delta file | `Algorithms`, `DeltaCodecProofs` |
| `Words` | integers of a width: powers of two, two's complement | `GeoQuery`, `Retry` |
| `GeoQuery` | shapes, the index, the queries and the decisions made from them | `Algorithms` |
| `Retry` | `FetchManifestWithRetry` | `Algorithms` |
| `Algorithms` | calls each of the pure parts above with every input of its sets | `MCAlgorithms`, `AlgorithmsProofs` |

### Syncer

`store`, `dbManifest` and `dbVersion` are the client's database (fences table and the two
metadata rows; a manifest is represented by its version). `currentVer` is the field of
that name, `up` says that the process runs. `job[w]` is the stack frame of the `Sync` call
of goroutine `w`: the version it loaded, the manifest it fetched, the collection it
installs, the fences left. `release`, `latest` and `served` are the remote side.

| action | code |
|---|---|
| `Begin` | `Sync` loads `currentVer` (line 98) |
| `FetchManifest` | `FetchManifest`, the comparison, and the choice of delta or snapshot (104-131) |
| `FetchDelta`, `FetchSnapshot` | `applyDelta`, `applySnapshot` up to `updateStorage` |
| `UpdateFence`, `AddFence` | one call of the store each inside the loop of `updateStorage`; they are separate because another call may come between them |
| `SetManifest`, `SetVersion`, `StoreCurrentVer` | the tail of `updateStorage` and of `Sync` |
| `Fail` | any download or storage call returns an error |
| `Crash`, `Restart` | the process dies; `NewSyncer` reads the version |

A fence is loaded in the order of the collection in the code and in any order in the
model, which only adds behaviours. Each storage call is one step because `FenceStore`
shows that it is atomic.

`DeltaKind` says what the client makes of a delta file the publisher writes. `Publish`
stores the bare bytes of `diff.DiffData`, while `ReadDelta` expects a `DeltaFile` message.
If the two collections have no common prefix or suffix worth using, the bytes are the new
collection in protobuf, every field of which the `DeltaFile` parser skips as unknown, and
the patch is empty ("raw"); otherwise they begin with two lengths, which parses only by
accident ("header", either outcome is allowed); and a delta to the empty collection is not
written at all ("missing").

### AutoSync

`AutoSync` extends `Syncer`: worker `AutoWorker` is the goroutine, the other workers are direct
callers of `Sync`. `phase` is where the goroutine is, `results` the content of the channel,
`pending` the result at the `select` that sends, `reader` the program at the other end.
`stored` and `told` are history variables.

| action | code in `StartAutoSync` |
|---|---|
| `StartAutoSync` | the call, the channel of capacity 1 and the goroutine (294-298) |
| `CallSync` | every step of the `Sync` calls, the first one and the one per tick (301, 308); a failing call returns a result like any other |
| `Send` | `case results <- result` (302, 310) |
| `Wake` | `case <-ticker.C` (307) |
| `Stop` | `case <-ctx.Done()` (303, 311, 314), with the deferred `ticker.Stop` and `close(results)` |
| `Cancel`, `Read`, `Leave` | the program: cancels the context, takes a result or sees the channel closed, stops reading |
| `Others`, `CrashAuto` | direct callers and the remote side; the process dies |

### Publisher

`snapFile`, `manFile`, `deltaFile` are the files of the output directory; `proc[p]` is a
process: where its `Publish` call is, its `currentVer` and the two collections it holds.
`os.WriteFile` is two steps, truncate and write, since a process may die between them. The
four files and rows are written in the order of the code: snapshot, manifest, delta,
metadata `manifest`, metadata `version`. `Fail` returns an error and leaves the process
ready for another call; `Kill` ends it. `Command(p)` is the disjunction of everything
process `p` may do, used by `GulSystem`. `announced` is a history variable: every manifest
that was ever complete in `manifest.json` since the database was made.

### GulSystem

`GulSystem` extends `Publisher` with clients and drops what `Syncer` assumes of the CDN:
that releases are complete, numbered without gaps and never rewritten. Here a client reads
the files `Publisher` writes, between any two of its writes, after a kill or after
`Initialize`. `client[c]` is a client's database and the `Sync` call it is in; the steps
inside `updateStorage` are `Syncer`'s subject and are one step here, or a part of the
fences (`InstallSome`). `ever` remembers every manifest that was ever complete.

| action | code |
|---|---|
| `PublisherStep` | any step of the publisher; `Initialize` at most `MaxInits` times |
| `Sync` | `Sync` up to the choice of the update; the origin answers with `manifest.json`, a cache with any manifest of `ever` |
| `FetchSnapshot` | `fetchBinary` and the two hash checks of `applySnapshot` |
| `FetchDelta` | `applyDelta` up to `updateStorage` |
| `Install`, `InstallSome` | `updateStorage` and the tail of `Sync`; a storage call fails or the client dies and restarts |
| `FetchFails` | a download fails |

### FenceStore

`rows` and `index` are the two tables by rowid, `tx` the tables as the open transaction
sees them, `holder` who holds the RWMutex for writing. A call runs lock + `BeginTx`, the
statement on `fences`, the statement on `fence_index`, `Commit`, return; the deferred
`Rollback` and `Unlock` are part of every step that leaves (`Rollback`). SQLite may reuse a
rowid after a delete, so the choice of an unused one is left open. `UPDATE fence_index` on
a missing entry changes nothing and reports nothing, as in SQL.

### VersionManager

The variables are those of `Publisher`, plus `holder` (who holds `Manager.mu`), `calls[t]`
(the call each goroutine is in) and `patchesDir`: the delta goes into a directory that no
code here makes, so whether it is there is chosen once. A file is again truncated, then
written.

| action | code in `pkg/version/manager.go` |
|---|---|
| `Begin` | `mu.Lock`, the next version, the tree, the snapshot and the signature, all in memory |
| `SetManifest`, `SetVersion` | the metadata rows, and `currentVersion`; both before any file |
| `TruncateSnapshot`, `WriteSnapshot`, `TruncateManifest`, `WriteManifest` | the snapshot, then `manifest.json`; version 1 ends here |
| `ReadOld` | `ListFences`: the old side of the delta is the table as it is now; an empty table or an error, and there is no delta |
| `TruncateDelta`, `WriteDelta` | the delta; then `manifest.json` is written again, under the signature it had without the delta |
| `StartUpdate`, `GetFence`, `Upsert`, `RemoveFence` | edits, which do not take the lock and may run in the middle of a publishing call |
| `Fail`, `Crash`, `Restart` | a call returns an error with the deferred `Unlock`; the process dies; `NewManager` |

`signed` is the body of the manifest the signature was computed for, so that a manifest
verifies exactly if `signed` equals `body`.

### The pure parts

They have no state of their own. `Algorithms` is a workbench of one call at a time: an action
picks the inputs, notes the call and the answer, and the invariants compare them with what
the code promises. `Return` clears both.

| call | code |
|---|---|
| `MakeDelta` | `CreateDelta` (`pkg/geofence`), `ComputeDelta` and `ApplyDelta` (`pkg/merkle`); the delta is applied twice |
| `TakeSnapshot` | what `Publish` signs and writes, then `FetchManifest`, `fetchBinary` and `applySnapshot`; parts of two releases, signed with the same or different keys, with or without a configured `key_id`, are mixed |
| `ClaimFence` | `NewTree`, `GetProof`, `VerifyProof` |
| `CarryDelta` | `WriteDeltaFile`, damage in one cell or a lost end, `ReadDeltaFile` with the buffer it allocates, `PatchFences` |
| `Locate` | `ContainsPoint` and `GetBounds` |
| `CheckPoint` | `CheckFences`, `Syncer.Check`, `Manager.QueryAtPoint` |
| `AskFence` | `RestrictionLevel`, `GetAltitudeLimit`, `GetSpeedLimit` |
| `QueryArea` | `QueryInBounds` |
| `FetchRetrying` | `FetchManifestWithRetry` |

What loops in the code is a recursive function of the number of rounds (`Merkle!Levels`,
`Merkle!Walk`, `Words!TwoTo`) or a set of the places where the loop may end
(`Retry!Ended`), so that it can be proved about. `Rebuild` and `Rebuilt` of `Merkle` are no
code: they are the verifier that `GetProof`'s hashes are meant for, one that knows the place
of the leaf. Where the database returns rows of equal priority in any order, `Check` and
`ManagerQuery` are the sets of the answers that may come.

## Runs

| run | instance | shows |
|---|---|---|
| `syncer_solo` | one caller, all delta kinds, 3 releases, 2 faults | `NoRollback`, `Fresh`, `ManifestAhead`, `MemoryMatchesDisk`, `Provenance` hold under stale manifests, damaged snapshots, failing calls and crashes; `Converges`: once the latest release has no delta, memory, rows and fences reach it and stay |
| `auto_sync` | the goroutine and one direct caller, 2 releases, 1 fault | `NoSilentUpdate`, `EndsAfterCancel`, `KeepsSyncing`, `UnreadStopsSyncing`; `Covered` with overlapping calls |
| `gul_system` | one publisher process, one client, 2 versions, 1 fault, 1 `Initialize` | of the publisher, `CommittedServable`, `CommittedImmutable`, `VersionsIncrease`, `PublishedOnce`; of the clients, `Traceable`, `HeldServable`, `ClientsAgree`, `OneAhead`, `ClientsAdvance`, `CatchesUp`, without assuming anything of the files |
| `version_manager` | two goroutines, one fence, 3 versions, 2 faults | `UniqueCollections`, `ManifestServable`, `SnapshotsImmutable` under failures, kills and edits during a publication |
| `fence_store` | two goroutines, two fences with overlapping boxes, one of them larger than its box | `QueryExact`; `Atomic`: `FenceStore` implements `FenceTable`; `CallsReturn`: no failing path keeps the lock |
| `algorithms` | every input of the sets in `MCAlgorithms` | what the pure parts compute, one property per call |

The six runs that are expected to find a violation are described under
[disagreements](#disagreements-found).

What the passing properties say about the code:

* `Provenance`: no damaged download, delta, interleaving or crash puts a fence in the
  client's table that no release holds in that very revision.
* `Covered`: the recorded version is written after the last fence, so the database has some
  revision of every fence of the recorded version, even with concurrent callers.
* `Fresh`: with one caller, an interrupted update may run ahead of the recorded version,
  never behind it; this is the argument that makes the unsynchronised writes of
  `updateStorage` acceptable (its comment, lines 253-255). It implies `Covered`.
* `CommittedServable`: as long as `manifest.json` names the recorded version, the snapshot
  and a nonempty delta it names are complete and those it was signed for, wherever an
  earlier `Publish` failed or died.
* `CommittedImmutable`: no later `Publish` rewrites the snapshot of a recorded version; the
  leftovers of a failed one are rewritten, which is why `UniqueVersions` fails.
* `NoSilentUpdate`: as long as the context lives, no update the goroutine installs goes
  unreported: the program has read of it, or the last update on its way is that one.
* `UnreadStopsSyncing`: the price. A program that stops reading the channel stops the
  synchronisation for ever, although the context lives and the ticker runs.
* `EndsAfterCancel` holds nevertheless, since both `select`s watch the context; a cancelled
  goroutine ends even with a full channel.
* `KeepsSyncing`: a failing `Sync` does not end the loop.
* `Traceable`: whatever half-written, overwritten or forgotten files a client meets, every
  fence it has was in a collection a complete, signed manifest announced.
* `HeldServable`: a client that holds an old manifest can still fetch its snapshot while
  later versions are published.
* `ClientsAgree`: until something fails, a number a client has installed stands for one
  collection; after a fault it does not (`publisher_crash`).
* `OneAhead`: a client may know a version before the publisher has recorded it, but one
  at most.
* `ClientsAdvance`: whatever publishers do to their numbers and files, a client's version
  never decreases.
* `CatchesUp`: whatever caches answer, a client reaches what `manifest.json` announces if it
  names no delta. The client may also be *above* it, after `Initialize`, and then stays
  there: a database made anew is not noticed by clients of the old one.
* `SnapshotFaithful`: from any mixture of two releases a client takes a whole release signed
  by its key, or nothing. It takes every release that is meant for it, but for those that
  protobuf or the download limit change, and but for every release of a publisher with a
  `key_id` of its own.
* `DeltaRestores`: with `pkg/geofence`'s delta a fence may keep its old form, but only where
  all the fields that are compared are the same.
* `DeltaFileRestores`: a delta file with a damaged cell or a lost end is refused or still
  right, although `Patch` guesses what it is given; the one exception is a length too large
  to allocate.
* `ProofsRebuild`: `GetProof`'s hashes lead to the root, and `VerifyProof` never takes a fence
  for a member that is none. That it takes the members is `ProofsVerify`, which fails.
* `AreaFound`: `QueryInBounds` finds nothing away from the area, and everything that has a
  place on its southern side and one on its northern.
* `CheckAgrees`: the three places that decide whether a flight is allowed agree, unless two
  fences of equal, highest priority disagree; then the order of the rows decides. The limits
  of one fence fit its decision, but that a limit of 32 ones reads as "no flight".
* `PublishedOnce`: with one process, without failures or kills, a number is used once.
* `UniqueCollections`: the order of `PublishNewVersion` pays for what
  `Publish` does not give. A number that was ever announced is on record, so it never stands
  for two collections, even if every publication is killed. The price is that a recorded
  number may have no files; `ManifestServable` says that what `manifest.json` names, the
  delta included, is complete nevertheless.
* `QueryExact`: the index has, at any moment a query can run, the box of every fence and no
  other, so `QueryAtPoint` finds only fences that contain the point and every one of them whose
  own box has the point. The box of a polygon or a rectangle covers it (`BoundsCover`); that of
  a circle may not, and what the circle then has outside of its box is not found.

Every property of a passing run has a mutant of the model in `PROJECT.json` that breaks it:
a dropped guard, two writes swapped, a value advanced too early, a lock not released.

## Bounds

| bound | value | why it is enough |
|---|---|---|
| `MaxVersion` (Syncer) | 3 with one caller, 2 with two | a call can hold an older, the same and a newer version than another; a delta needs two releases, an update over an update three |
| `MaxFaults` | 0 to 2 | a fault during the recovery from a fault; faults include crashes, errors, damaged snapshots and stale edges |
| `Ids`, `Revs`, `Contents` | two fences, two revisions, four collections | a fence is added, changed, dropped and comes back, and the empty collection occurs |
| `Ids` (Publisher) | one fence, two revisions | collections grow, change, become empty, repeat; the publisher treats a collection as a whole |
| `Given` (Publisher, VersionManager) | none | a collection handed to `Publish` could as well be the one stored, which the edits make any; the theorems allow every set |
| `Workers`, `Ids`, `MaxVersion`, `MaxFaults` (AutoSync) | 2, 1, 2, 1, no deltas | the loop is about results, which differ in being an update or not, and in their version; one goroutine can interfere with another |
| `Capacity` (AutoSync) | 1, as in the code | |
| `Clients`, `Procs`, `MaxVersion`, `MaxFaults`, `MaxInits` (GulSystem) | 1, 1, 2, 1, 1 | clients do not interact, and `ClientsAgree` compares a client with every manifest there ever was; a version over a version, one kill or one failing download, one database made anew with the old files around. The publisher's own properties are proved for any number of versions and faults |
| `Threads`, `Ids`, `MaxVersion`, `MaxFaults` (VersionManager) | 2, 1, 3, 2 | one publishes while the other wants to, or edits; a version before, at and after the one a fault hits; a fault after a fault |
| `RowIds`, `Points` (FenceStore) | 2, 3 | a row is freed and reused; a point is inside a box but outside its fence, and inside a fence but outside its box |
| collections (Algorithms) | up to 5 fences in a tree, 2 or 3 elsewhere | trees with odd levels at the bottom, in the middle and at the top |
| coordinates (Algorithms) | 0 to 2, polygons of up to 3 points, and two of 4 | a point on, inside and outside of edges, corners and boxes, a concave polygon |
| `Signers` (Algorithms) | 2 keys, one of them with and without a `key_id` | a release of the client's key and one of another; an identifier that is the computed one and one that is not |
| `MaxDownload`, `MaxPatched`, `MaxAlloc` | 2 fences, 10 cells, 10 cells | collections of 3 exceed the first; a header read from data exceeds the second, a damaged length (20) the third |
| `LimitBits`; `Width`, `Second`, `Cap` | 4 for 32; 12 for 64, 3, 90 | limits with the sign bit set; waits that reach the cap, wrap around and become 0, with `Tries` = 13 > `Width` |

No other counter is bounded: the number of calls, restarts and edits is unlimited in every run.
`CHECK_DEADLOCK` is left on everywhere.

## Fairness

`Syncer!FairSpec`: weak fairness of each goroutine's next step (the ticker of
`StartAutoSync` calls `Sync` again, its results are read, and every download is bounded by
`HTTPTimeout`), of the edge that gets the latest manifest, and of an operator who restarts
a dead process. No fairness is assumed of `PublishRelease`, `Fail`, `Crash` or `CdnStale`;
faults are bounded, so "once failures stop" is a premise of the liveness properties and not
a claim about the network.

`AutoSync!AutoFairSpec`: weak fairness of the goroutine's own steps (the scheduler runs it,
calls return, the ticker ticks) and of a program that reads. `Stop` is strongly fair:
when several cases of a `select` are ready Go picks one at random, so a context that stays
done is not passed over at every turn. Nothing is assumed of `Cancel`, `Leave`, other callers,
faults, or of the program starting the goroutine.

`GulSystem!GulFairSpec`: weak fairness of a client's downloads and installation, and strong
fairness of the one `Sync` that the origin answers with `manifest.json` as it is: caches may
answer as often as they like, but not for ever. Nothing is assumed of the publisher.

`FenceStore!FairSpec`: statements of SQLite return, and `sync.RWMutex`, which hands the lock
to a waiting writer, is strongly fair. `Publisher` has no liveness property: a command may be
killed at any time and need never be run again. Nor has `VersionManager`, a library that no
program of the repository keeps calling.

## Proofs

Each proof module extends the module it is about; nothing but the named assumptions on the
constants is assumed (`SyncerAssumption`, `AutoAssumption`, `PublisherAssumption`,
`GulAssumption`, `ManagerAssumption`, `FenceStoreAssumption`, `DeltaCodecAssumption`,
`FencesAssumption`, `DeliveryAssumption`, `GeoQueryAssumption`, `RetryAssumption`,
`AlgorithmsAssumption`, which TLC evaluates on every run of the module). `AlgorithmsAssumption`
says of what kind the inputs are (polygons are sequences of points, limits are unsigned
integers of `LimitBits` bits, serialised data is within the limits of the codec, and the diffs
of it fit in memory) and bounds none of their sizes. What it says of `None` is that a missing value is no manifest and no
collection.

| theorem | states | holds for |
|---|---|---|
| `SyncerProofs!TypeCorrect` | `Spec => []TypeOK` | any callers, fences, releases, faults |
| `SyncerProofs!OnlyPublishedFences` | `Spec => []Provenance` | the same, even if the version cannot be read at a start |
| `SyncerProofs!VersionIsBacked` | `Spec => []Covered` | the same |
| `SyncerProofs!SoloNoRollback` | `Spec => NoRollback` | one caller, readable version |
| `SyncerProofs!SoloFresh`, `SoloManifestAhead`, `SoloMemoryMatches` | `Spec => []Fresh`, `Spec => []ManifestAhead`, `Spec => []MemoryMatchesDisk` | the same |
| `PublisherProofs!PublisherTypeCorrect` | `Spec => []TypeOK` | any processes |
| `PublisherProofs!SoloServable`, `SoloImmutable` | `Spec => []CommittedServable`, `Spec => CommittedImmutable` | one process at a time, readable version |
| `PublisherProofs!SoloVersionsIncrease`, `SoloPublishedOnce` | `Spec => VersionsIncrease`, `Spec => []PublishedOnce` | the same |
| `VersionManagerProofs!ManagerTypeCorrect` | `Spec => []TypeOK` | any goroutines, fences, collections, faults |
| `VersionManagerProofs!NumbersAreUnique` | `Spec => [](RecordedFirst /\ UniqueCollections)` | the same, readable version |
| `VersionManagerProofs!ManifestIsServable`, `AnnouncedIsImmutable` | `Spec => []ManifestServable`, `Spec => SnapshotsImmutable` | the same, readable version |
| `FenceStoreProofs!StoreTypeCorrect`, `QueriesAreExact` | `Spec => []TypeOK`, `Spec => []QueryExact` | any goroutines, fences, rows, places; any areas, within their boxes or not |
| `FenceStoreProofs!StoreIsAtomic` | `Spec => Atomic` | the same; refinement of `FenceTable` |
| `AutoSyncProofs!AutoImplementsSyncer` | `AutoSpec => Spec` | any other callers and releases |
| `AutoSyncProofs!AutoVersionIsBacked`, `AutoOnlyPublishedFences` | `AutoSpec => []Covered`, `AutoSpec => []Provenance` | the same, even if the version cannot be read at a start |
| `AutoSyncProofs!AutoTypeCorrect`, `UpdatesAreReported` | `AutoSpec => []AutoTypeOK`, `AutoSpec => []NoSilentUpdate` | the same |
| `GulSystemProofs!ClientsAreTraceable`, `ClientsOnlyAdvance`, `InstalledIsCovered` | `GulSpec => []Traceable`, `GulSpec => ClientsAdvance`, `GulSpec => []InstalledCovered` | any publisher processes, clients, faults, new databases |
| `GulSystemProofs!HeldIsServable`, `InstalledAgree`, `AtMostOneAhead` | `GulSpec => []HeldServable`, `[]ClientsAgree`, `[]OneAhead` | any clients; one publisher process at a time, readable version |
| `DeltaCodecProofs!PatchUndoesDiff` | `Patch(old, ComputeDiff(old, new)) = new` | data of any content, shorter than its first bytes read as a length say; new data of at most `MaxPatched` cells, unless it is sent whole |
| `DeltaCodecProofs!HashProtectsFile` | a delta file with the hash it was written with gives `new` or an error, whatever else is damaged, or names a length above `MaxAlloc` and ends the process | the same |
| `AlgorithmsProofs!ProofsAreRebuilt` | `Spec => []ProofsRebuild` | trees of any number of fences |
| `AlgorithmsProofs!SnapshotsFaithful` | `Spec => []SnapshotFaithful` | releases of any size, any signers and clients, any mixture of two releases |
| `AlgorithmsProofs!DeltasRestore` | `Spec => []DeltaRestores` | collections of any size |
| `AlgorithmsProofs!DeltaFilesRestore` | `Spec => []DeltaFileRestores` | data within the codec's limits whose diffs fit in memory; one cell changed or the end lost |
| `AlgorithmsProofs!BoundsCoverFences` | `Spec => []BoundsCover` | boxes, and polygons of any number of vertices, anywhere |
| `AlgorithmsProofs!ChecksAgree` | `Spec => []CheckAgrees` | tables of any size, limits of any width |
| `AlgorithmsProofs!AreasAreFound` | `Spec => []AreaFound` | tables and areas of any size; polygons and boxes |
| `AlgorithmsProofs!RetryIsPaced` | `Spec => []RetryPaced` | any number of retries, any width of a `Duration`, any cap from a second up |

The arguments:

* **Syncer, any number of callers.** `Provenance` and `Covered` are not inductive: nothing
  in them ties a running call to the tables. `IInv` adds `JobOK`: past the download, the
  collection a call installs is the published one (or empty, after a delta), and what it has
  taken off `todo` is in the table. Fences are never deleted from the client's table, which
  is what lets this survive other callers; it is also the reason for `NoLeftovers`.
* **Syncer, one caller** (`Solo`). `SoloInv` adds `CallOK`: `base` is still the version on
  disk, the manifest held is newer, the fences already installed have its revision, and the
  two metadata rows are written in order. The premise is
  needed: `syncer_duo_rollback` refutes `NoRollback` with two callers, and with one caller
  TLC refutes it when `VersionReadMayFail` is TRUE and three faults are allowed (a crash, a
  start that cannot read the version and takes it for 0 (`syncer.go:54`), a stale edge).
* **Publisher, one process.** `SoloInv` adds `Written(p)`: `currentVer` is the recorded
  version, so everything a running `Publish` touches belongs to the next number, and each
  file holds what its step has written. `OnceInv` adds, for `PublishedOnce`, that until the
  first fault every announced manifest has a recorded version or is the one the running call
  is about to record. With two processes `VersionsIncrease` is false: the one that opened
  first records its older number last (`publisher.go:107`).
* **VersionManager.** `IInv` adds that an announced snapshot is still the one announced
  (`SnapshotsKept`), that `manifest.json` was announced and its delta is in place (`Current`),
  that `currentVersion` is the recorded version while the process runs (`InMemory`), and what
  the call that holds the lock has written at each step (`Written`). `UniqueCollections`
  follows from `SnapshotsKept`: two announced manifests of one number name one snapshot file.
  The lock enters through `TypeOK`: at most one call is past `Begin`. If `GetVersion` could
  fail in `NewManager`, the manager would start again at 1 (`manager.go`, `NewManager`) and
  none of this would hold, hence the premise.
* **FenceStore.** `IInv` says that an identifier has one row, that the index holds exactly
  the boxes of the rows, and how the open transaction differs from the committed tables by
  the step its call is at. `QueryExact` follows: outside a transaction the index has exactly
  the boxes of the rows, whatever they cover. For
  `StoreIsAtomic`, `Commit` maps to `Succeed`, a rollback to `NotFound` or `Error`, the
  statements to stuttering steps; the proof needs the invariant before and after the step.

* **AutoSync.** Every step of the composition is a step of `Syncer` or leaves its variables
  alone: the goroutine is one more caller, so what holds for any callers holds with it.
  `NoSilentUpdate` is about the order of three sequences, what was read, what is in the channel
  and what waits at the `select`; `ReportInv` states it as `Tells`, a relation that appending
  and taking a result preserve (`TellsAppend`, `TellsTail`), and needs from `AutoTypeOK` that
  the goroutine holds a result only between two calls.
* **GulSystem, any processes.** `GulInv` says that a complete `manifest.json` was announced
  (`FilesKnown`), and that the manifest a client's call holds, and the one it installed last,
  were too, and the fences it is about to install are that manifest's (`Known`). The rest
  follows although files are overwritten: `FetchSnapshot` takes what matches the manifest in
  hand, and nothing is assumed of the other files. `Ahead` adds that a call goes on with a
  newer manifest only and that what was installed is still in the table: versions grow and
  `InstalledCovered` holds although publishers may give a number away twice.
* **GulSystem, one process.** The publisher's own invariants hold in the composition, since
  clients change none of its files. `Served` adds that every announced manifest's snapshot is
  still in place, `AnnouncedNext` that none is more than one ahead of the recorded version,
  `ClientAhead` the same for clients, and `BaseKept` that a client's fences are those of the
  manifest it has installed. All but `AnnouncedNext` and `ClientAhead` are lost with the first
  fault, as `publisher_crash` shows.

* **DeltaCodec.** `commonPrefixLen` and `commonSuffixLen` are least elements of sets of
  places, which exist because `<` is well founded on the naturals (`LeastOfNats`); the suffix
  is taken of what follows the prefix, so the two do not overlap (`SuffixOfRest`), and the
  three pieces are the new data cell by cell (`Reassembled`). A raw diff is not taken for a
  header because its first cell is a tag (`RawIsTaken`). Beyond 10 MB `Patch` returns the
  diff itself (`delta.go:154`), hence the bound.

* **The pure parts** (`AlgorithmsProofs`). Every property is about the call at hand, so the
  induction over the steps is trivial (`CallIs`) and each theorem is one about operators.
  - *Recursion.* The prover knows of a recursive function only that it is *some* function if
    there is one that satisfies the equation. `Glued` puts the finite beginnings of such a
    function together, `AllNats` is induction for a property given as the set of the numbers
    that have it (from the least number that does not), and with them `LevelsAre`, `WalkIs`,
    `VerifyIs`, `RebuildIs` and the laws of `TwoTo` are proved: each is the loop of the code,
    round by round.
  - *Trees.* A level has half the nodes of the one below, rounded up, so one node is left in
    the end (`HeightIs`). As SHA-256 is ideal a level gives away the level below it, and as
    the hash of a leaf is over a fence and that of a node over one or two hashes, trees of
    different heights have different roots: two collections with one root agree in all but
    signatures. That is what `SnapshotsFaithful` rests on, with the signature of the manifest
    for the clients that check it. `Place` numbers the sorted identifiers one to one.
  - *Proofs.* The verifier that knows the place of the leaf goes through the levels `GetProof`
    went through: in each round the hash it has is the node at that place, and what is left
    of the proof are the siblings of the rounds to come (`RebuildFollows`; `ProofGrows`, since
    `GetProof` only appends). It stops where `buildTree` stops. `VerifyProof` ends with the
    leaf or with the hash of a single hash, and the top of a tree of more than one leaf is
    the hash of two (`TopOfTree`), so there it refuses whatever it is given
    (`NoPairVerifies`): a claim it accepts is about the only leaf of a tree of one.
  - *Polygons.* Were a point left or right of, above or below all vertices, then no edge, or
    every edge that crosses its longitude, would be met. No edge is no odd number; and the
    edges of a closed polygon cross a longitude an even number of times, which is shown by
    counting the changes of side along the vertices (`InsideIsBounded`).
  - *Decisions.* All three take the fences of the highest priority that hold; the index hides
    none of them by `BoundsCover`. Rows of equal priority are left in any order, and the
    proof needs `Tied` exactly there. For the limits, two's complement takes one unsigned
    number only to -1 (`WrapIsMinusOne`).
  - *Areas.* A fence with a place on the southern side of the area and one on the northern has
    both in its box (`BoundsCoverShape`), which therefore spans the area's latitudes, as the
    query demands.
  - *Delta files.* With the hash intact `HashProtectsFile` applies, with the length and the
    diff intact `KeptDiff`; a file cut inside the header is refused (`RefusedIs`), and one cell
    or a lost end leaves one of these, unless the cell is a length above `MaxAlloc`, which is
    read as soon as magic, format and version are right.
  - *Snapshots.* A client that verifies accepts exactly what its key signed under the
    identifier it computes of the key (`InstallsAll`).

The inductive invariants were model-checked as invariants before they were proved.
`RecordedFirst`, a part of what `NumbersAreUnique` proves, and `InstalledCovered`, the
`Covered` of the composed system, are proved and in no run. Every invariant and every action
property that a passing run checks is proved for all values of the constants, under the
premises in the table. Checked by TLC only are the liveness properties (`Converges`,
`EndsAfterCancel`, `KeepsSyncing`, `UnreadStopsSyncing`, `CatchesUp`, `CallsReturn`), since
the prover handles neither fairness nor ENABLED.

## Disagreements found

Each has a run that TLC ends with a counterexample, and an entry in `findings` that quotes
the text the code disagrees with.

| run | property | what happens |
|---|---|---|
| `syncer_duo_rollback` | `NoRollback` | a slow `Sync` records its older version over a newer one |
| `syncer_delta` | `DeltaCovered` | a delta parses as an empty patch: the version is recorded, its fences are not stored |
| `syncer_removal` | `NoLeftovers` | a fence that a release dropped stays on the client |
| `publisher_crash` | `UniqueVersions` | a publisher killed after `manifest.json` and before the version publishes the number again |
| `version_signature` | `ManifestSigned` | the delta fields are added after the signature was made: `manifest.json` no longer verifies |
| `proof_verify` | `ProofsVerify` | `VerifyProof` hashes a pair twice and always puts the sibling on the right: it refuses the proofs `GetProof` returns |

The overlap behind `syncer_duo_rollback` has a second effect: the database may be left
behind `currentVer`, after which every later `Sync` of the process finds itself up to date.
`Converges` therefore holds with one caller only.

Other behaviour of the code that a reader should know, met while modelling; the passing
properties are stated so as to be true of it:

* A delta that is missing or does not parse is tried for ever, there is no fall back to the
  snapshot (`syncer.go:123`). `Converges` and `CatchesUp` therefore speak of a latest release
  without a delta. `Publish` announces a delta to the empty collection and does not write it
  (`publisher.go:192`), which is one such case.
* A fence with more than one shape in memory loses all but one in protobuf
  (`converter.go:85`): the root hash the publisher signs is over the one, the one a client
  computes over the other, and every client rejects the snapshot (`SnapshotFaithful`, which
  excepts exactly these collections and those over the download limit).
* `QueryInBounds` compares latitudes the wrong way round (`storage.go:486`; `storage.go:476`
  says "finds all fences intersecting the given bounding box"): it finds only fences that span
  the whole area from south to north. `AreaFound` says what is left of the promise.
* A `key_id` in the publisher's configuration (`config.example.yaml:16`, or `-key-id` of
  `cmd/publisher`) replaces the identifier computed of the key (`publisher.go:47-50`). A client
  compares the manifest's identifier with the computed one (`http.go:155-163`), so every client
  that verifies rejects every manifest of such a publisher. `SnapshotFaithful` names the case.
* `ReadDeltaFile` allocates a buffer of the header's `DiffSize`, a `uint64`, before it has read
  or verified the data (`delta.go:360`): a damaged length is a panic or an exhausted memory and
  no error. `DeltaFileRestores` names the case.
* The box of a circle (`types.go:128-140`, with the cosine of 171-178) is too small at high
  latitudes for what `ContainsPoint` accepts (`fence.go:46-71`, earth radius 6371000 m): at 60
  degrees north, half the width of the box of a circle of 1000 m is 0.017953 degrees, and a
  point 0.017986 degrees away is inside the circle. The index does not return such a fence, so
  `QueryAtPoint` (`storage.go:428`, "finds all fences containing the given point") misses it.
  `QueryExact` therefore speaks of points in the fence's own box.
* `fencesEqual` of `pkg/geofence` (`manifest.go:156`) does not compare the geometry: a delta of
  `CreateDelta` leaves out a fence that only moved. That of `pkg/merkle` compares it.
  `DeltaRestores` says which fences may differ.
* A limit above 2^31 - 1 is returned as a negative one (`fence.go:124`); of these only the
  greatest, of 32 ones, is -1, which means "no flight" (`CheckAgrees` excepts that one).
* After enough retries the wait of `FetchManifestWithRetry` wraps around, becomes negative and
  so passes the cap (`http.go:350`); the loop also sleeps after its last attempt (356).

## Assumptions and abstractions

* A fence is an identifier and a revision that stands for everything else it says. Its
  validity in time and its geometry are its `Area`, a set of points (`FenceStore`), or spelled
  out (`Fences`, `GeoQuery`).
* Ed25519 and SHA-256 are ideal: a signature is the key and the data it was made with, a hash
  is what was hashed. In `Syncer` and `GulSystem` a manifest that does not verify is a failed
  download; `Delivery` shows what verifying does.
* Nothing is assumed of how a fence's bounding box relates to its area in `FenceStore`.
  `BoundsCoverFences` proves of polygons and boxes that the one covers the other.
* Coordinates are integers, and the crossing test of `pointInPolygon` is done without division.
  The `1e-10` the code adds to the divisor decides between integers only for a point on the
  line through an edge, and is modelled as that tie break. Of floating-point coordinates that
  are closer together, or closer to the line, than `1e-10` allows for, nothing is said.
* What a machine cannot allocate is a length above `MaxAlloc`, and asking for it ends the
  process.
* Serialised data is a sequence of cells, of which the first is a protobuf tag that read as a
  length is longer than any data; a header of two lengths is two cells.
* A manifest names its snapshot `/snapshots/v<n>.bin` (`publisher.go:157`, `manager.go`) and the
  file is written as `v<n>.bin` of the output directory: the deployment is assumed to map one
  to the other.
* SQLite transactions are atomic and durable, and a process that dies leaves what it had
  committed. Files are written whole or found truncated.
* `Initialize` runs while no other command does: it removes the database file, which a
  running process would keep using under another name.
* In `Syncer`, releases on the CDN are numbered without gaps and keep their contents; what
  becomes of clients when the publisher breaks this is the subject of `GulSystem`.

## Not modelled

| what | why |
|---|---|
| circles (`haversineDistance`, the box of a circle, `cosDegrees`) | floating-point formulas; TLA+ has integers |
| protobuf form of a delta (`WriteDelta`, `ReadDelta`), size statistics of `pkg/binarydiff` | what matters of the first, that the client parses another format than the publisher writes, is `DeltaKind` of `Syncer` |
| progress reporting, `GetLastModified`, the resolution of URLs | they keep no state. `FetchManifest` completes a base URL without a path with `path.Join` (`http.go:80`), which turns `https://host` into `https:/host/manifest.json`: a matter of strings |
| the encoding and sizes of keys, key files | strings and pure I/O |
| `ComputeRootHash` of `pkg/geofence`, the conversion of `FenceDelta` and `Manifest` in `pkg/converter` | called by tests at most |
| `Manager.Sync`, `LoadVersion`, `CheckForUpdates`, `BeginTx` | read or hand out, change nothing |
| configuration, build information, test utilities, output of the sample program | no state that changes |
| generated protobuf code | generated |

A reader of the database between two storage calls of `updateStorage` sees a mixture of two
releases. The comment at `syncer.go:253-255` allows it and no property forbids it.

## Plan

Done: all components of the table at the top with their runs, and every invariant and action
property of the passing runs proved.

Next, most important first:

1. What the publisher's own records still guarantee with several processes.
2. That installing fences one by one implements an atomic installation for a reader who asks
   only after the version is recorded: an abstract client, with `Syncer` as its refinement.
3. Circles over a grid of latitudes, with the sine and the cosine as tables of bounds, so that
   the size of their boxes becomes a property.

Runs are kept few: one per question. The pure modules share one run that evaluates all of
them; `GulSystem` and `AutoSync` take over the questions of the single-component runs they
subsume.
