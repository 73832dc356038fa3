---------------------------- MODULE Algorithms ----------------------------
(***************************************************************************)
(* The pure parts of the system, called one at a time: a call picks its    *)
(* inputs and notes what the code answers, and the properties compare the  *)
(* two.  The inputs are sets given as constants.                           *)
(***************************************************************************)
EXTENDS Delivery, DeltaCodec, GeoQuery, Retry

CONSTANTS
  DeltaCollections,     \* collections that deltas are made of
  SnapshotCollections,  \* collections that are published
  ProofCollections,     \* collections that Merkle trees are made of
  Signers,              \* publishers, with their keys
  Serialised,           \* serialised collections
  DeltaVersions,        \* version numbers in a delta file
  Geometries,           \* polygons and boxes, and the points asked for
  Places,
  Tables,               \* the rows of a database, the times and areas asked for
  Times,
  Areas,
  Limiting,             \* fences with limits
  Tries                 \* how often a fetch is tried at most

ASSUME AlgorithmsAssumption ==
  /\ DeltaCollections \cup SnapshotCollections \cup ProofCollections
       \subseteq Collection
  /\ Signers \subseteq Signer
  /\ \A c \in SnapshotCollections, signer \in Signers :
       LET m == SignedManifest(c, signer) IN
       None \notin {m, m.signature, m.keyID, CreateSnapshot(c)}
  /\ \A s \in Serialised : s \in Data /\ Len(s) < Tag /\ Len(s) <= MaxPatched
  /\ \A old, new \in Serialised : Len(ComputeDiff(old, new)) <= MaxAlloc
  /\ \A g \in Geometries : IsShape(g)
  /\ Places \subseteq Points /\ Times \subseteq Int
  /\ \A t \in Tables : t \in Seq(Range(t)) /\ \A i \in DOMAIN t : IsRow(t[i])
  /\ \A b \in Areas : b \in BoundingBox /\ b.minLat <= b.maxLat /\ b.minLon <= b.maxLon
  /\ \A f \in Limiting : IsRow(f) /\ f.maxAltitude \in Uint /\ f.maxSpeed \in Uint
  /\ Tries \in Nat

VARIABLES
  call,   \* the call that was made last, with its inputs
  answer  \* what it returned

Idle == [api |-> "none"]

Init == call = Idle /\ answer = None

Called(c, result) == call' = c /\ answer' = result

\* geofence.CreateDelta or merkle.ComputeDelta, and ApplyDelta on the old
\* collection, twice: the second time as a retry of the first.
MakeDelta ==
  /\ call = Idle
  /\ \E old, new \in DeltaCollections :
       \E delta \in {CreateDelta(old, new), ComputeDelta(old, new)} :
         LET once == ApplyDelta(old, delta) IN
         Called([api |-> "delta", old |-> old, new |-> new, delta |-> delta],
                [once |-> once,
                 twice |-> IF once = None THEN None ELSE ApplyDelta(once, delta)])

\* Parts of one manifest taken for those of another: a cache that mixes two.
Mixed(m, other, parts) ==
  [f \in DOMAIN m |-> IF f \in parts THEN other[f] ELSE m[f]]

\* A client is given the manifest of one release, perhaps mixed with that of
\* another, whose publisher may have another key or identifier, and is sent the
\* snapshot of the other.
TakeSnapshot ==
  /\ call = Idle
  /\ \E announced, sent \in SnapshotCollections :
     \E signer, otherSigner \in Signers : \E client \in Client :
     \E declared \in BOOLEAN :
       LET m == SignedManifest(announced, signer)
           other == SignedManifest(sent, otherSigner) IN
       \E parts \in SUBSET DOMAIN m :
         Called([api |-> "snapshot", announced |-> announced, sent |-> sent,
                 signer |-> signer, otherKey |-> otherSigner.key,
                 client |-> client, parts |-> parts],
                Delivered(client, Mixed(m, other, parts), CreateSnapshot(sent),
                          declared))

\* Somebody claims that a fence, in some form, is in the tree under an ID.
ClaimFence ==
  /\ call = Idle
  /\ \E c \in ProofCollections : \E id \in Present(c) :
       \E claimed \in {d[id] : d \in ProofCollections} \ {None} :
         LET proof == GetProof(c, id) IN
         Called([api |-> "proof", tree |-> c, id |-> id, claimed |-> claimed],
                [proof |-> proof,
                 verified |-> VerifyProof(Leaf(id, claimed), proof, RootHash(c))])

\* A file as it was written, cut off after some cell, or with one cell changed
\* (a cell of the hash is not a number).
Harm == {"none", "cut", "cell"}
Harmed(file, harm, at, v) ==
  CASE harm = "none" -> file
    [] harm = "cut"  -> SubSeq(file, 1, at - 1)
    [] harm = "cell" ->
         [file EXCEPT ![at] = IF at \in HeaderLen + 1..HeaderLen + HashLen
                                THEN [of |-> <<>>, part |-> v] ELSE v]

\* The harm is to the length of the diff, which is now more than fits in memory.
Oversized(harm, at, v) == harm = "cell" /\ at = SizeAt /\ v > MaxAlloc

\* The file of a delta is written, harmed perhaps, read and applied.
CarryDelta ==
  /\ call = Idle
  /\ \E old, new \in Serialised : \E to \in DeltaVersions :
       LET file == WriteDeltaFile(old, new, to - 1, to) IN
       \E harm \in Harm : \E at \in DOMAIN file : \E v \in DeltaVersions \cup Cells :
         Called([api |-> "file", old |-> old, new |-> new,
                 oversized |-> Oversized(harm, at, v)],
                PatchFences(old, ReadDeltaFile(Harmed(file, harm, at, v), to)))

\* A point is tested against a shape and against the box the index holds.
Locate ==
  /\ call = Idle
  /\ \E g \in Geometries : \E p \in Places :
       Called([api |-> "locate", geometry |-> g, point |-> p],
              [inside |-> ContainsPoint(g, p), bounds |-> GetBounds(g)])

\* The three decisions about a point.
CheckPoint ==
  /\ call = Idle
  /\ \E t \in Tables : \E p \in Places : \E now \in Times :
       \E syncer \in Check(t, p, now) : \E manager \in ManagerQuery(t, p, now) :
         Called([api |-> "check", table |-> t, point |-> p, now |-> now],
                [direct |-> CheckFences(t, p, now), syncer |-> syncer,
                 manager |-> manager])

\* One fence is asked what it says at a point.
AskFence ==
  /\ call = Idle
  /\ \E f \in Limiting : \E p \in Places : \E now \in Times :
       Called([api |-> "fence", fence |-> f, point |-> p, now |-> now],
              [check |-> CheckFences(<<f>>, p, now).allowed,
               level |-> RestrictionLevel(f, p, now),
               altitude |-> GetAltitudeLimit(f, p, now),
               speed |-> GetSpeedLimit(f, p, now)])

QueryArea ==
  /\ call = Idle
  /\ \E t \in Tables : \E b \in Areas :
       Called([api |-> "area", table |-> t, area |-> b], QueryInBounds(t, b))

Retries ==
  [maxRetries : 0..Tries, good : 0..Tries, cancelAt : 1..Tries,
   cancel : {"never", "fetch", "wait"}, percent : {0, 50, 99}]

FetchRetrying ==
  /\ call = Idle
  /\ \E run \in Retries :
       Called([api |-> "retry", run |-> run], FetchManifestWithRetry(run))

\* The caller has the answer.
Return == call # Idle /\ call' = Idle /\ answer' = None

Next ==
  \/ MakeDelta \/ ClaimFence \/ CarryDelta \/ Locate \/ AskFence
  \/ FetchRetrying \/ CheckPoint \/ QueryArea \/ TakeSnapshot \/ Return

Spec == Init /\ [][Next]_<<call, answer>>

-----------------------------------------------------------------------------
(* Properties. *)

\* A delta, applied to the collection it was made from, gives the new one: in
\* all but the signatures if pkg/merkle made it, in the fields alone if
\* pkg/geofence did, which leaves a fence out that only moved; what is in the
\* delta arrives whole.  Applying it again fails or changes nothing.
DeltaRestores ==
  call.api = "delta" =>
    LET new == call.new  once == answer.once IN
    /\ once # None
    /\ Present(once) = Present(new)
    /\ \A id \in Present(new) :
         IF call.delta = ComputeDelta(call.old, new)
           THEN SameFence(once[id], new[id])
           ELSE \/ once[id] = new[id]
                \/ once[id] = call.old[id] /\ SameFields(call.old[id], new[id])
    /\ answer.twice \in {None, once}

\* Two collections differ in signatures at most.
SameCollection(a, b) ==
  /\ Present(a) = Present(b)
  /\ \A id \in Present(a) : SameFence(a[id], b[id])

\* What a client installs from a snapshot is a whole release, signed by the
\* key the client knows, whatever parts of manifests and snapshots get mixed
\* up, are cut off or changed by the conversion; without the check of the
\* signature it is one in all but the fences' signatures.  And the client does
\* install what the publisher with its key sends it, unless a fence has a shape
\* that protobuf cannot carry, the snapshot exceeds the limit, or the publisher
\* is configured with another key_id than the one computed of the key: then
\* every client that verifies rejects every manifest (publisher.go:48,
\* http.go:155-163).
SnapshotFaithful ==
  call.api = "snapshot" =>
    LET announced == call.announced  sent == call.sent  client == call.client IN
    /\ answer # None =>
         \E c \in {announced, sent} : SameCollection(answer, c)
    /\ answer # None /\ ~client.skip =>
         \/ answer = announced /\ call.signer.key = client.key
         \/ answer = sent /\ call.otherKey = client.key
    /\ (sent = announced /\ call.parts = {}
          /\ (client.skip \/ call.signer.key = client.key)) =>
         (answer = None <=>
            \/ ~client.skip /\ SignerID(call.signer) # KeyID(client.key)
            \/ Cardinality(Present(sent)) > MaxDownload
            \/ \E id \in Present(sent) : ~Simple(sent[id].geometry))

\* The hashes of GetProof are enough: with them, and the leaf's place in the tree,
\* a verifier gets its root.  And VerifyProof never takes a fence for one of the
\* tree that is not, in this form, in it under that identifier.
ProofsRebuild ==
  call.api = "proof" =>
    LET ids == Present(call.tree) IN
    /\ Rebuilt(Leaf(call.id, call.tree[call.id]),
               Place(ids, call.id), Cardinality(ids), answer.proof) = RootHash(call.tree)
    /\ answer.verified => SameFence(call.claimed, call.tree[call.id])

\* "VerifyProof verifies a Merkle proof for a given fence ID and root hash"
\* (merkle.go:242): the proof GetProof returns for a fence of the tree is valid,
\* as README.md:445-449 has it.
ProofsVerify ==
  (call.api = "proof" /\ SameFence(call.claimed, call.tree[call.id])) => answer.verified

\* A delta file of which one cell was changed or the end lost cannot be read
\* as its version, or still turns the old data into the new.  Only a length of
\* the diff that no memory holds ends the process: it is allocated unchecked
\* (delta.go:360).
DeltaFileRestores ==
  call.api = "file" =>
    answer \in IF call.oversized THEN {Panic} ELSE {Error, call.new}

\* A point inside a polygon or a rectangle lies in the box the index holds for
\* it, so the index hides no such fence: FenceStore's Area is within its Box.
BoundsCover ==
  (call.api = "locate" /\ answer.inside) => BoxContains(answer.bounds, call.point)

\* The decision over the database is the one over the fences in memory, in
\* whatever order they come, and so is the manager's; a fence returned with a
\* refusal forbids the flight.  Only when fences of the same highest priority
\* disagree does the order decide.
DecisionsAgree ==
  call.api = "check" =>
    /\ ~Tied(call.table, call.point, call.now) =>
         /\ answer.syncer.allowed = answer.direct.allowed
         /\ answer.manager.allowed = answer.direct.allowed
    /\ ~answer.syncer.allowed =>
         /\ answer.syncer.fence.type \in Forbidding
         /\ Holds(answer.syncer.fence, call.point, call.now)

\* The three answers of one fence fit together: an altitude limit of -1, or a
\* level of 80 and more, just where the fence forbids the flight, but for the
\* one limit, of all ones, that an int32 takes for -1; limits only where the
\* fence restricts.
LimitsAgree ==
  call.api = "fence" =>
    LET f == call.fence IN
    /\ ~answer.check <=> answer.level >= 80
    /\ ~answer.check => answer.altitude = -1
    /\ answer.check /\ answer.altitude = -1 => f.maxAltitude = TwoTo[LimitBits] - 1
    /\ answer.level = 0 => answer.altitude = 0 /\ answer.speed = 0

\* Every part of the program that says whether a flight is allowed says the
\* same: the decisions over many fences, and the answers of one.
CheckAgrees == DecisionsAgree /\ LimitsAgree

\* What QueryInBounds finds meets the area, and it finds every fence that has a
\* place on the southern side of the area and one on the northern: for an area
\* that is a point, or of one latitude, everything that contains a place of it.
\* (Of a wider area it misses the fences that do not span it: the latitudes are
\* compared the wrong way round, storage.go:486.)
AreaFound ==
  call.api = "area" =>
    LET area == call.area
        Reaches(g, lat) ==
          \E p \in Places : p.lat = lat /\ BoxContains(area, p) /\ ContainsPoint(g, p)
    IN /\ \A i \in answer : Intersect(GetBounds(call.table[i].geometry), area)
       /\ \A i \in DOMAIN call.table :
            LET g == call.table[i].geometry IN
            Reaches(g, area.minLat) /\ Reaches(g, area.maxLat) => i \in answer

\* FetchManifestWithRetry fetches no more often than it may, at most once after
\* the context is cancelled, and waits a second to thirty between, as long as
\* the wait stays in the range of a Duration.
RetryPaced ==
  call.api = "retry" =>
    LET run == call.run IN
    /\ answer.fetches <= run.maxRetries
    /\ run.cancel # "never" => answer.fetches <= run.cancelAt + 1
    /\ \A i \in DOMAIN answer.waits :
         /\ answer.waits[i] <= Cap
         /\ InRange(i - 1) => answer.waits[i] >= Second
=============================================================================
