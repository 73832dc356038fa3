----------------------------- MODULE GulSystem -----------------------------
(***************************************************************************)
(* The system end to end: the publisher of module Publisher writes its     *)
(* output directory file by file, is killed, started again and             *)
(* re-initialised, while clients (pkg/sync over pkg/client) fetch          *)
(* manifest.json, snapshots and deltas from that directory at any moment,  *)
(* also between two of its writes.  An HTTP cache may still answer with a  *)
(* manifest that was there before.                                         *)
(*                                                                         *)
(* A client runs one Sync call at a time.  The steps inside updateStorage  *)
(* are module Syncer's; here an installation is one step, or stops after   *)
(* any part of the fences was written.                                     *)
(***************************************************************************)
EXTENDS Publisher

CONSTANTS
  Clients,
  MaxInits  \* bound: how often the database is made anew

ASSUME GulAssumption == MaxInits \in Nat

VARIABLES
  client,  \* each client's database and its Sync call
  ever,    \* history: every manifest that was ever complete
  inits    \* how often the database was made anew

gulVars == <<vars, client, ever, inits>>

(***************************************************************************)
(* A client: pc is the step its Sync call takes next, ver and fences are   *)
(* its database, man the manifest the call holds, new what it is about to  *)
(* install, and base (history) the manifest installed last if that was by  *)
(* a snapshot, None otherwise.                                             *)
(***************************************************************************)
ClientSteps == {"idle", "delta", "snapshot", "install"}
Client  == [pc : ClientSteps, ver : 0..MaxVersion, fences : Collection,
            man : Manifest \cup {None}, new : Collection,
            base : Manifest \cup {None}]
Fresh   == [pc |-> "idle", ver |-> 0, fences |-> NoFences, man |-> None,
            new |-> NoFences, base |-> None]

GulInit == Init /\ client = [c \in Clients |-> Fresh] /\ ever = {} /\ inits = 0

\* A step of the publisher.
PublisherStep ==
  /\ \/ Initialize /\ inits < MaxInits /\ inits' = inits + 1
     \/ (\E p \in Procs : Command(p)) /\ UNCHANGED inits
  /\ ever' = ever \cup announced'
  /\ UNCHANGED client

-----------------------------------------------------------------------------
(* A Sync call. *)

ClientAt(c, step) == client[c].pc = step
Proceed(c, rec) ==
  /\ client' = [client EXCEPT ![c] = rec]
  /\ UNCHANGED <<dbVars, fileVars, proc, ever, inits>>

\* The call returns; the database keeps what it has.
Returned(k) == [k EXCEPT !.pc = "idle", !.man = None, !.new = NoFences]

\* FetchManifest: a file that is missing or torn does not parse, what parses
\* verifies.  The origin answers, or a cache.
Answers == (IF Complete(manFile) THEN {manFile} ELSE {}) \cup ever

\* Only the next version is taken.
SyncNextOnly(c) ==
  /\ ClientAt(c, "idle")
  /\ \E m \in Answers :
       /\ m.ver = client[c].ver + 1
       /\ Proceed(c, [client[c] EXCEPT !.man = m, !.pc = "snapshot"])
  /\ UNCHANGED faults

\* Any other version is taken.
SyncOther(c) ==
  /\ ClientAt(c, "idle")
  /\ \E m \in Answers :
       /\ m.ver # client[c].ver
       /\ Proceed(c, [client[c] EXCEPT !.man = m, !.pc = "snapshot"])
  /\ UNCHANGED faults

\* Sync up to the choice of the update; an answer that is not newer, or none,
\* ends the call and changes nothing.
Sync(c) ==
  /\ ClientAt(c, "idle")
  /\ \E m \in Answers :
       /\ m.ver > client[c].ver
       /\ Proceed(c, [client[c] EXCEPT
            !.man = m,
            !.pc  = IF m.ver = client[c].ver + 1 /\ m.delta # None
                      THEN "delta" ELSE "snapshot"])
  /\ UNCHANGED faults

\* The snapshot is not compared with the manifest.
FetchSnapshotBlind(c) ==
  /\ ClientAt(c, "snapshot")
  /\ LET k == client[c]  data == snapFile[k.man.ver] IN
       Proceed(c, IF Complete(data)
                    THEN [k EXCEPT !.pc = "install", !.new = data]
                    ELSE Returned(k))
  /\ UNCHANGED faults

\* fetchBinary and the two hash checks of applySnapshot.
FetchSnapshot(c) ==
  /\ ClientAt(c, "snapshot")
  /\ LET k == client[c]  data == snapFile[k.man.ver] IN
       Proceed(c, IF data = k.man.fences
                    THEN [k EXCEPT !.pc = "install", !.new = data]
                    ELSE Returned(k))
  /\ UNCHANGED faults

\* fetchBinary, the hash check of applyDelta, and what becomes of the diff: it
\* does not parse, or parses as a patch to the empty collection (see Syncer).
FetchDelta(c) ==
  /\ ClientAt(c, "delta")
  /\ LET k == client[c] IN
       \/ Proceed(c, Returned(k))
       \/ /\ deltaFile[k.man.ver] = k.man.delta
          /\ Proceed(c, [k EXCEPT !.pc = "install", !.new = NoFences])
  /\ UNCHANGED faults

\* What the table holds after the fences under ids were updated or added.
Stored(k, ids) ==
  [id \in Ids |-> IF id \in ids THEN k.new[id] ELSE k.fences[id]]
Present(c) == {id \in Ids : c[id] # Absent}

\* updateStorage.
Install(c) ==
  /\ ClientAt(c, "install")
  /\ LET k == client[c]
         done == [k EXCEPT !.fences = Stored(k, Present(k.new)),
                           !.ver = k.man.ver,
                           !.base = IF k.new = k.man.fences THEN k.man ELSE None]
     IN Proceed(c, Returned(done))
  /\ UNCHANGED faults

\* updateStorage stops somewhere: a call failed, or the client died and starts
\* again with what it had recorded.
InstallSome(c) ==
  /\ ClientAt(c, "install")
  /\ Fault
  /\ LET k == client[c] IN
       \E ids \in SUBSET Present(k.new) :
         Proceed(c, Returned([k EXCEPT !.fences = Stored(k, ids)]))

\* A download fails.
FetchFails(c) ==
  /\ client[c].pc \in {"snapshot", "delta"}
  /\ Fault
  /\ Proceed(c, Returned(client[c]))

SyncStep(c) ==
  \/ Sync(c) \/ FetchSnapshot(c) \/ FetchDelta(c)
  \/ Install(c) \/ InstallSome(c) \/ FetchFails(c)

GulNext == PublisherStep \/ \E c \in Clients : SyncStep(c)

GulSpec == GulInit /\ [][GulNext]_gulVars

\* A client polls again and again, its downloads and storage calls return, and
\* no cache hides the origin for ever: the call that the origin answers is
\* not passed over for ever, however often a cache answers instead (SF).
GulFairness ==
  \A c \in Clients :
    /\ SF_gulVars(Sync(c) /\ client'[c].man = manFile)
    /\ WF_gulVars(FetchSnapshot(c)) /\ WF_gulVars(FetchDelta(c))
    /\ WF_gulVars(Install(c))

GulFairSpec == GulSpec /\ GulFairness

-----------------------------------------------------------------------------
(* Properties. *)

\* Every fence in a client's database was, in that revision, in a manifest's
\* collection, whatever half-written, overwritten or unannounced files the
\* publisher leaves and however installations stop half way.
Traceable ==
  \A c \in Clients : \A id \in Present(client[c].fences) :
    \E m \in ever : m.fences[id] = client[c].fences[id]

\* A client's version never decreases ("Version Rollback Protection",
\* README.md:45), even if several publishers, or one with a new database, put
\* lower numbers into manifest.json, and whatever old manifests caches answer with.
ClientsAdvance ==
  [][\A c \in Clients : client'[c].ver >= client[c].ver]_client

\* Whatever was installed from a snapshot stays covered: a client has some
\* revision of each of its fences, also when the publisher has since
\* overwritten the file and when a later installation stopped half way.
InstalledCovered ==
  \A c \in Clients : client[c].base # None =>
    Present(client[c].base.fences) \subseteq Present(client[c].fences)

\* Nothing failed and the database is the first one.
Undisturbed == faults = 0 /\ inits = 0

\* Until something fails or the database is made anew, a client that holds a
\* manifest, however old, can download the snapshot it names: the file was
\* complete before the manifest was and is not written again.
HeldServable ==
  Undisturbed =>
    \A c \in Clients : ClientAt(c, "snapshot") =>
      snapFile[client[c].man.ver] = client[c].man.fences

\* Until something fails or the database is made anew, what a client installed
\* from a snapshot is the only release of that number, and its fences are there:
\* any two such clients agree.
ClientsAgree ==
  Undisturbed =>
    \A c \in Clients : client[c].base # None =>
      LET base == client[c].base IN
      /\ \A m \in ever : m.ver = base.ver => m = base
      /\ base.ver = client[c].ver =>
           \A id \in Present(base.fences) : client[c].fences[id] = base.fences[id]

\* With one publisher process, wherever it is killed, no client is more than
\* one version ahead of what the publisher has recorded, unless the database
\* was made anew.
OneAhead ==
  inits = 0 => \A c \in Clients : client[c].ver <= dbVersion + 1

\* Once manifest.json stays complete, its snapshot is in place and it names no
\* delta, every client gets to that version, or is at a higher one (of an
\* earlier database), whatever old manifests caches answer with.
CatchesUp ==
  \A c \in Clients :
    <>[](/\ Complete(manFile) /\ manFile.delta = None
         /\ snapFile[manFile.ver] = manFile.fences)
      => <>[](Complete(manFile) => client[c].ver >= manFile.ver)
=============================================================================
