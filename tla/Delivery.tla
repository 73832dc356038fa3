------------------------------ MODULE Delivery ------------------------------
(***************************************************************************)
(* How a release reaches a client: the manifest Publish signs              *)
(* (pkg/publisher, pkg/geofence, pkg/crypto), what pkg/client accepts of   *)
(* the answers it gets, and what pkg/sync makes of a snapshot.  Ed25519 is *)
(* ideal: a signature is the key and the data it was made with.            *)
(***************************************************************************)
EXTENDS Merkle

CONSTANTS
  SigningKeys,  \* key pairs of publishers
  GivenIDs,     \* what may be configured as a key's identifier
  MaxDownload   \* bound of the client on a download, in fences

ASSUME DeliveryAssumption ==
  MaxDownload \in Nat /\ None \notin SigningKeys /\ None \notin GivenIDs

\* computeKeyID
KeyID(key) == Hash(key)

\* A publisher: its key pair, and the key_id of its configuration if it has one.
Signer == [key : SigningKeys, given : GivenIDs \cup {None}]

\* NewPublisher: a configured identifier replaces the one computed of the key.
SignerID(signer) == IF signer.given # None THEN signer.given ELSE KeyID(signer.key)

Sign(key, data) == [by |-> key, over |-> data]
Verify(key, data, signature) == signature = Sign(key, data)

\* What Publish announces of a collection; version, times, URLs and sizes are
\* left out.
Unsigned(c) ==
  [rootHash |-> RootHash(c), snapshotHash |-> Hash(CreateSnapshot(c)),
   signature |-> None, keyID |-> None]

\* MarshalBinaryForSigning: the signature and its key ID are not covered.
Body(m) == [m EXCEPT !.signature = None, !.keyID = None]

\* Publish signs the manifest, SetSignature puts the signature in.
SignedManifest(c, signer) ==
  LET m == Unsigned(c) IN
  [m EXCEPT !.signature = Sign(signer.key, Body(m)), !.keyID = SignerID(signer)]

-----------------------------------------------------------------------------
(* The client: a key, None when none is configured, and insecureSkipVerify. *)

Client == [key : SigningKeys \cup {None}, skip : BOOLEAN]

VerifyManifestSignature(client, m) ==
  \/ client.skip
  \/ /\ client.key # None
     /\ m.signature # None
     /\ Verify(client.key, Body(m), m.signature)
     /\ m.keyID # None => m.keyID = KeyID(client.key)

\* FetchManifest: None stands for its errors; an answer of another kind than
\* a manifest does not parse.
FetchManifest(client, m) ==
  IF m # None /\ VerifyManifestSignature(client, m) THEN m ELSE None

\* The first fences of a serialised collection.
Start(data, n) ==
  Restrict(data, {id \in DOMAIN data : Place(DOMAIN data, id) <= n})

\* fetchBinary: too long an answer is refused if it declares its length and
\* read up to the limit if it does not.  What is cut between two fences still
\* parses.
FetchBinary(data, declared) ==
  IF declared /\ Cardinality(DOMAIN data) > MaxDownload THEN None
  ELSE Start(data, MaxDownload)

\* The root hash is not compared.
ReceiveUnrooted(data, m) ==
  IF data = None \/ Hash(data) # m.snapshotHash THEN None
  ELSE FenceCollectionFromProto(data)

\* applySnapshot up to updateStorage: None stands for its errors.
Receive(data, m) ==
  IF data = None \/ Hash(data) # m.snapshotHash THEN None
  ELSE LET c == FenceCollectionFromProto(data) IN
       IF RootHash(c) # m.rootHash THEN None ELSE c

\* The collection a client installs from the manifest and the snapshot it is
\* sent, or None.
Delivered(client, m, data, declared) ==
  IF FetchManifest(client, m) = None THEN None
  ELSE Receive(FetchBinary(data, declared), m)
=============================================================================
