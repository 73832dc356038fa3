-------------------------- MODULE GulSystemProofs --------------------------
(***************************************************************************)
(* Theorems about the publisher and its clients, for every number of       *)
(* clients, versions, failures, kills and new databases: for any number of *)
(* publisher processes first, then for one.                                *)
(***************************************************************************)
EXTENDS GulSystem, PublisherProofs

GulTypeOK ==
  /\ TypeOK
  /\ client \in [Clients -> Client]
  /\ ever \subseteq Manifest
  /\ inits \in Nat

(***************************************************************************)
(* What a client holds comes from a manifest that was announced: the       *)
(* manifest of its call, what the call installs, and its last snapshot.    *)
(***************************************************************************)
Known(c) ==
  LET k == client[c] IN
  /\ k.pc # "idle" => k.man \in ever
  /\ k.pc = "install" =>
       \A id \in Present(k.new) : k.new[id] = k.man.fences[id]
  /\ k.base # None => k.base \in ever

FencesTraceable(c) ==
  \A id \in Present(client[c].fences) :
    \E m \in ever : m.fences[id] = client[c].fences[id]

FilesKnown ==
  /\ announced \subseteq ever
  /\ Complete(manFile) => manFile \in ever

GulInv ==
  /\ GulTypeOK /\ FilesKnown
  /\ \A c \in Clients : Known(c) /\ FencesTraceable(c)

-----------------------------------------------------------------------------
(* A step of a client. *)

LEMMA NoFencesEmpty == NoFences \in Collection /\ Present(NoFences) = {}
  BY DEF NoFences, Collection, Present

LEMMA FreshType == Fresh \in Client /\ Fresh.pc = "idle" /\ Fresh.base = None
  <1>1. 0 \in 0..MaxVersion
    BY PublisherAssumption
  <1> QED
    BY <1>1, NoFencesEmpty DEF Fresh, Client, ClientSteps

\* What a client's step writes is its own record.
LEMMA ProceedFacts ==
  ASSUME GulTypeOK, NEW c \in Clients, NEW rec, Proceed(c, rec)
  PROVE  /\ client'[c] = rec
         /\ \A d \in Clients : d # c => client'[d] = client[d]
         /\ rec \in Client => client' \in [Clients -> Client]
         /\ UNCHANGED <<dbVars, fileVars, proc, ever, inits>>
  BY DEF GulTypeOK, Proceed

\* A call that returns keeps the database and forgets the rest.
LEMMA ReturnedFacts ==
  ASSUME NEW k \in Client
  PROVE  /\ Returned(k) \in Client /\ Returned(k).pc = "idle"
         /\ Returned(k).fences = k.fences /\ Returned(k).ver = k.ver
         /\ Returned(k).base = k.base
  BY NoFencesEmpty DEF Client, ClientSteps, Returned

\* What is in the table after some of the new fences were written.
LEMMA StoredFacts ==
  ASSUME NEW k \in Client, NEW ids \in SUBSET Ids
  PROVE  /\ Stored(k, ids) \in Collection
         /\ \A id \in Ids : Stored(k, ids)[id] =
                              IF id \in ids THEN k.new[id] ELSE k.fences[id]
  BY DEF Stored, Client, Collection

\* The possible outcomes of a client's step, given where the call is.
Choosing(k, rec) ==
  \E m \in ever : \E step \in {"delta", "snapshot"} :
    m.ver > k.ver /\ rec = [k EXCEPT !.man = m, !.pc = step]
Downloaded(k, rec) ==
  /\ k.pc \in {"delta", "snapshot"}
  /\ \E data \in {k.man.fences, NoFences} :
       rec = [k EXCEPT !.pc = "install", !.new = data]
Installed(k, rec) ==
  /\ k.pc = "install"
  /\ rec = Returned([k EXCEPT !.fences = Stored(k, Present(k.new)),
                              !.ver = k.man.ver,
                              !.base = IF k.new = k.man.fences THEN k.man ELSE None])
PartlyInstalled(k, rec) ==
  /\ k.pc = "install" /\ Fault
  /\ \E ids \in SUBSET Present(k.new) :
       rec = Returned([k EXCEPT !.fences = Stored(k, ids)])

LEMMA SyncStepCases ==
  ASSUME GulInv, NEW c \in Clients, SyncStep(c)
  PROVE  /\ faults' = faults \/ Fault
         /\ \E rec : /\ Proceed(c, rec)
                     /\ \/ Choosing(client[c], rec)
                        \/ rec = Returned(client[c])
                        \/ Downloaded(client[c], rec)
                        \/ Installed(client[c], rec)
                        \/ PartlyInstalled(client[c], rec)
  <1>1. CASE Sync(c)
    <2>1. Answers \subseteq ever
      BY DEF GulInv, FilesKnown, Answers
    <2>2. PICK m \in Answers :
            /\ m.ver > client[c].ver
            /\ Proceed(c, [client[c] EXCEPT
                 !.man = m,
                 !.pc  = IF m.ver = client[c].ver + 1 /\ m.delta # None
                           THEN "delta" ELSE "snapshot"])
      BY <1>1 DEF Sync
    <2>3. PICK step \in {"delta", "snapshot"} :
            Proceed(c, [client[c] EXCEPT !.man = m, !.pc = step])
      BY <2>2
    <2> QED
      BY <1>1, <2>1, <2>2, <2>3 DEF Sync, Choosing
  <1>2. CASE FetchSnapshot(c)
    BY <1>2 DEF FetchSnapshot, ClientAt, Downloaded
  <1>3. CASE FetchDelta(c)
    BY <1>3 DEF FetchDelta, ClientAt, Downloaded
  <1>4. CASE Install(c)
    BY <1>4 DEF Install, ClientAt, Installed
  <1>5. CASE InstallSome(c)
    BY <1>5 DEF InstallSome, ClientAt, PartlyInstalled
  <1>6. CASE FetchFails(c)
    BY <1>6 DEF FetchFails
  <1> QED
    BY <1>1, <1>2, <1>3, <1>4, <1>5, <1>6 DEF SyncStep

\* The step keeps what is said of this client.
LEMMA ClientKept ==
  ASSUME GulInv, NEW c \in Clients, NEW rec, Proceed(c, rec),
         \/ Choosing(client[c], rec) \/ rec = Returned(client[c])
         \/ Downloaded(client[c], rec) \/ Installed(client[c], rec)
         \/ PartlyInstalled(client[c], rec)
  PROVE  rec \in Client /\ Known(c)' /\ FencesTraceable(c)'
  <1> DEFINE k == client[c]
  <1>1. /\ k \in Client /\ Known(c) /\ FencesTraceable(c)
        /\ client'[c] = rec /\ ever' = ever /\ ever \subseteq Manifest
    BY ProceedFacts DEF GulInv, GulTypeOK
  <1>2. CASE Choosing(k, rec)
    <2>1. PICK m \in ever, step \in {"delta", "snapshot"} :
            rec = [k EXCEPT !.man = m, !.pc = step]
      BY <1>2 DEF Choosing
    <2>2. /\ rec \in Client /\ rec.man \in ever /\ rec.pc # "install"
          /\ rec.fences = k.fences /\ rec.base = k.base
      BY <1>1, <2>1 DEF Client, ClientSteps
    <2> QED
      BY <1>1, <2>2 DEF Known, FencesTraceable
  <1>3. CASE rec = Returned(k)
    BY <1>1, <1>3, ReturnedFacts DEF Known, FencesTraceable
  <1>4. CASE Downloaded(k, rec)
    <2>1. PICK data \in {k.man.fences, NoFences} :
            rec = [k EXCEPT !.pc = "install", !.new = data]
      BY <1>4 DEF Downloaded
    <2>2. k.man \in ever /\ k.man.fences \in Collection
      BY <1>1, <1>4 DEF Known, Downloaded, Manifest
    <2>3. /\ rec \in Client /\ rec.man = k.man /\ rec.new = data
          /\ rec.fences = k.fences /\ rec.base = k.base
      <3>1. data \in Collection /\ k \in Client
        BY <1>1, <2>2, NoFencesEmpty
      <3> HIDE DEF k
      <3> QED
        BY <2>1, <3>1 DEF Client, ClientSteps
    <2>4. \A id \in Present(data) : data[id] = k.man.fences[id]
      BY NoFencesEmpty
    <2>5. Known(c)'
      <3>1. client'[c].man = k.man /\ client'[c].new = data /\ client'[c].base = k.base
        BY <1>1, <2>3
      <3> QED
        BY <1>1, <2>2, <2>4, <3>1 DEF Known
    <2>6. FencesTraceable(c)'
      BY <1>1, <2>3 DEF FencesTraceable
    <2> QED
      BY <2>3, <2>5, <2>6
  <1>5. ASSUME NEW ids \in SUBSET Present(k.new), k.pc = "install"
        PROVE  \A id \in Present(Stored(k, ids)) :
                 \E m \in ever : m.fences[id] = Stored(k, ids)[id]
    <2> TAKE id \in Present(Stored(k, ids))
    <2>1. id \in Ids /\ ids \subseteq Ids
      BY DEF Present
    <2>2. CASE id \in ids
      BY <1>1, <1>5, <2>1, <2>2, StoredFacts DEF Known
    <2>3. CASE id \notin ids
      <3>1. Stored(k, ids)[id] = k.fences[id] /\ id \in Present(k.fences)
        BY <1>1, <2>1, <2>3, StoredFacts DEF Present
      <3> QED
        BY <1>1, <3>1 DEF FencesTraceable
    <2> QED
      BY <2>2, <2>3
  <1>6. CASE Installed(k, rec)
    <2> DEFINE base == IF k.new = k.man.fences THEN k.man ELSE None
               done == [k EXCEPT !.fences = Stored(k, Present(k.new)),
                                 !.ver = k.man.ver, !.base = base]
    <2>1. /\ k.pc = "install" /\ rec = Returned(done) /\ k.man \in ever
      BY <1>1, <1>6 DEF Installed, Known
    <2>2. /\ Present(k.new) \in SUBSET Ids /\ k.man.ver \in 0..MaxVersion
          /\ Stored(k, Present(k.new)) \in Collection
      BY <1>1, <2>1, StoredFacts, PublisherAssumption
      DEF Present, Manifest, Versions
    <2>3. /\ done \in Client /\ done.fences = Stored(k, Present(k.new))
          /\ done.base = base
      BY <1>1, <2>1, <2>2 DEF Client
    <2>4. /\ rec \in Client /\ rec.pc = "idle"
          /\ rec.fences = Stored(k, Present(k.new)) /\ rec.base = base
      BY <2>1, <2>3, ReturnedFacts
    <2>5. FencesTraceable(c)'
      BY <1>1, <1>5, <2>1, <2>4 DEF FencesTraceable
    <2> QED
      BY <1>1, <2>1, <2>4, <2>5 DEF Known
  <1>7. CASE PartlyInstalled(k, rec)
    <2>1. PICK ids \in SUBSET Present(k.new) :
            rec = Returned([k EXCEPT !.fences = Stored(k, ids)])
      BY <1>7 DEF PartlyInstalled
    <2> DEFINE done == [k EXCEPT !.fences = Stored(k, ids)]
    <2>2. Stored(k, ids) \in Collection
      BY <1>1, StoredFacts DEF Present
    <2>3. done \in Client /\ done.fences = Stored(k, ids) /\ done.base = k.base
      BY <1>1, <2>2 DEF Client
    <2>4. /\ rec \in Client /\ rec.pc = "idle"
          /\ rec.fences = Stored(k, ids) /\ rec.base = k.base
      BY <2>1, <2>3, ReturnedFacts
    <2>5. FencesTraceable(c)'
      BY <1>1, <1>5, <1>7, <2>4 DEF FencesTraceable, PartlyInstalled
    <2> QED
      BY <1>1, <2>4, <2>5 DEF Known
  <1> QED
    BY <1>2, <1>3, <1>4, <1>6, <1>7

-----------------------------------------------------------------------------
(* A step of the publisher, by any number of processes. *)

\* manifest.json is torn, or what was last announced.
LEMMA FileStep ==
  ASSUME [Next]_vars
  PROVE  manFile' \in {manFile, Torn} \cup announced'
  <1>1. CASE UNCHANGED vars \/ Initialize
    BY <1>1 DEF vars, fileVars, Initialize
  <1>2. ASSUME NEW p \in Procs, Command(p)
        PROVE  manFile' \in {manFile, Torn} \cup announced'
    <2>1. CASE WriteManifest(p) \/ TruncateManifest(p)
      BY <2>1 DEF WriteManifest, TruncateManifest
    <2>2. CASE ~WriteManifest(p) /\ ~TruncateManifest(p)
      BY <1>2, <2>2 DEF Command, Publish, Open, Close, Fail, Kill, SignAndAdd,
         SignAndUpdate, DeleteFence, Edit, StartPublish, ReadOld,
         TruncateSnapshot, WriteSnapshot, TruncateDelta, WriteDelta,
         SetManifest, SetVersion, fileVars
    <2> QED
      BY <2>1, <2>2
  <1> QED
    BY <1>1, <1>2 DEF Next

LEMMA PublisherNext == PublisherStep => Next
  BY DEF PublisherStep, Next

\* Nothing that was announced is forgotten.
LEMMA PublisherKeeps ==
  ASSUME GulInv, PublisherStep
  PROVE  GulInv'
  <1>1. TypeOK'
    BY PublisherNext, NextTypeOK DEF GulInv, GulTypeOK
  <1>2. /\ UNCHANGED client /\ ever' = ever \cup announced' /\ inits' \in Nat
    BY DEF PublisherStep, GulInv, GulTypeOK
  <1>3. GulTypeOK'
    BY <1>1, <1>2 DEF GulInv, GulTypeOK, TypeOK
  <1>4. FilesKnown'
    BY <1>2, PublisherNext, FileStep DEF GulInv, FilesKnown, Complete
  <1>5. ASSUME NEW c \in Clients PROVE Known(c)' /\ FencesTraceable(c)'
    BY <1>2 DEF GulInv, Known, FencesTraceable
  <1> QED
    BY <1>3, <1>4, <1>5 DEF GulInv

\* A client's step changes nothing of the publisher's but the count of faults.
LEMMA ClientKeeps ==
  ASSUME GulInv, NEW c \in Clients, SyncStep(c)
  PROVE  GulInv'
  <1>1. PICK rec : /\ Proceed(c, rec)
                   /\ \/ Choosing(client[c], rec) \/ rec = Returned(client[c])
                      \/ Downloaded(client[c], rec) \/ Installed(client[c], rec)
                      \/ PartlyInstalled(client[c], rec)
    BY SyncStepCases
  <1>2. rec \in Client /\ Known(c)' /\ FencesTraceable(c)'
    BY <1>1, ClientKept
  <1>3. /\ client' \in [Clients -> Client]
        /\ \A d \in Clients : d # c => client'[d] = client[d]
        /\ UNCHANGED <<dbVars, fileVars, proc, ever, inits>>
    BY <1>1, <1>2, ProceedFacts DEF GulInv
  <1>4. faults' \in Nat
    BY SyncStepCases DEF GulInv, GulTypeOK, TypeOK, Fault
  <1>5. GulTypeOK'
    BY <1>3, <1>4 DEF GulInv, GulTypeOK, TypeOK, dbVars, fileVars
  <1>6. FilesKnown'
    BY <1>3 DEF GulInv, FilesKnown, fileVars
  <1>7. ASSUME NEW d \in Clients, d # c PROVE Known(d)' /\ FencesTraceable(d)'
    BY <1>3, <1>7 DEF GulInv, Known, FencesTraceable
  <1> QED
    BY <1>2, <1>5, <1>6, <1>7 DEF GulInv

LEMMA GulInvStep == GulInv /\ [GulNext]_gulVars => GulInv'
  <1>1. ASSUME GulInv, UNCHANGED gulVars PROVE GulInv'
    BY <1>1 DEF gulVars, vars, dbVars, fileVars, GulInv, GulTypeOK, TypeOK,
                FilesKnown, Known, FencesTraceable
  <1> QED
    BY <1>1, PublisherKeeps, ClientKeeps DEF GulNext

LEMMA GulInvInit == GulInit => GulInv
  <1> SUFFICES ASSUME GulInit PROVE GulInv
    OBVIOUS
  <1>1. TypeOK
    BY InitTypeOK DEF GulInit
  <1>2. \A c \in Clients : client[c] = Fresh
    BY DEF GulInit
  <1>3. GulTypeOK
    BY <1>1, FreshType DEF GulInit, GulTypeOK
  <1>4. FilesKnown
    BY DEF GulInit, Init, FilesKnown, Complete
  <1>5. ASSUME NEW c \in Clients PROVE Known(c) /\ FencesTraceable(c)
    BY <1>2, FreshType, NoFencesEmpty DEF Known, FencesTraceable, Fresh
  <1> QED
    BY <1>3, <1>4, <1>5 DEF GulInv

LEMMA GulInvAlways == GulSpec => []GulInv
  BY GulInvInit, GulInvStep, PTL DEF GulSpec

\* However many processes publish, die, overwrite each other's files and start
\* again with a new database, and however installations stop half way, every
\* fence in a client's database was announced in that revision.
THEOREM ClientsAreTraceable == GulSpec => []Traceable
  <1>1. GulInv => Traceable
    BY DEF GulInv, FencesTraceable, Traceable
  <1> QED
    BY <1>1, GulInvAlways, PTL

(***************************************************************************)
(* A call goes on with a newer manifest only, and fences are never taken   *)
(* out of a client's table: this is what keeps versions growing and what   *)
(* was installed in place, whatever the publishers do to their files.      *)
(***************************************************************************)
Ahead(c) ==
  LET k == client[c] IN
  /\ k.pc # "idle" => k.man.ver > k.ver
  /\ k.base # None => Present(k.base.fences) \subseteq Present(k.fences)

\* A call that returns leaves nothing undone.
LEMMA ReturnedAhead ==
  ASSUME GulInv, NEW c \in Clients, NEW k \in Client, client'[c] = Returned(k),
         k.base # None => Present(k.base.fences) \subseteq Present(k.fences)
  PROVE  Ahead(c)'
  <1>1. /\ Returned(k).pc = "idle" /\ Returned(k).base = k.base
        /\ Returned(k).fences = k.fences
    BY ReturnedFacts
  <1> QED
    BY <1>1 DEF Ahead

\* What is stored adds to the table.
LEMMA StoredGrows ==
  ASSUME NEW k \in Client, NEW ids \in SUBSET Present(k.new)
  PROVE  Present(k.fences) \cup ids \subseteq Present(Stored(k, ids))
  BY DEF Stored, Present

LEMMA AheadKept ==
  ASSUME GulInv, NEW c \in Clients, Ahead(c), NEW rec, Proceed(c, rec),
         \/ Choosing(client[c], rec) \/ rec = Returned(client[c])
         \/ Downloaded(client[c], rec) \/ Installed(client[c], rec)
         \/ PartlyInstalled(client[c], rec)
  PROVE  Ahead(c)' /\ rec.ver >= client[c].ver
  <1> DEFINE k == client[c]
  <1>1. /\ k \in Client /\ Known(c) /\ client'[c] = rec /\ ever \subseteq Manifest
        /\ k.ver \in Nat
    BY ProceedFacts, PublisherAssumption DEF GulInv, GulTypeOK, Client
  <1>2. CASE Choosing(k, rec)
    <2>1. PICK m \in ever, step \in {"delta", "snapshot"} :
            m.ver > k.ver /\ rec = [k EXCEPT !.man = m, !.pc = step]
      BY <1>2 DEF Choosing
    <2>2. /\ rec.man = m /\ rec.ver = k.ver /\ rec.base = k.base
          /\ rec.fences = k.fences
      BY <1>1, <2>1 DEF Client
    <2> QED
      BY <1>1, <2>1, <2>2 DEF Ahead
  <1>3. CASE rec = Returned(k)
    <2>1. rec.ver = k.ver
      BY <1>1, <1>3, ReturnedFacts
    <2> QED
      BY <1>1, <1>3, <2>1, ReturnedAhead DEF Ahead
  <1>4. CASE Downloaded(k, rec)
    <2>1. PICK data \in {k.man.fences, NoFences} :
            rec = [k EXCEPT !.pc = "install", !.new = data]
      BY <1>4 DEF Downloaded
    <2>2. /\ rec.man = k.man /\ rec.ver = k.ver /\ rec.base = k.base
          /\ rec.fences = k.fences /\ k.pc # "idle"
      BY <1>1, <1>4, <2>1 DEF Client, Downloaded
    <2> QED
      BY <1>1, <2>2 DEF Ahead
  <1>5. CASE Installed(k, rec)
    <2> DEFINE base == IF k.new = k.man.fences THEN k.man ELSE None
               done == [k EXCEPT !.fences = Stored(k, Present(k.new)),
                                 !.ver = k.man.ver, !.base = base]
    <2>1. /\ k.pc = "install" /\ rec = Returned(done)
          /\ k.man \in ever /\ k.man.ver > k.ver
      BY <1>1, <1>5 DEF Installed, Known, Ahead
    <2>2. /\ Present(k.new) \in SUBSET Ids /\ k.man.ver \in 0..MaxVersion
          /\ k.man.ver \in Nat /\ Stored(k, Present(k.new)) \in Collection
      BY <1>1, <2>1, StoredFacts, PublisherAssumption
      DEF Present, Manifest, Versions
    <2>3. /\ done \in Client /\ done.fences = Stored(k, Present(k.new))
          /\ done.base = base /\ done.ver = k.man.ver
      BY <1>1, <2>1, <2>2 DEF Client
    <2>4. base # None => Present(base.fences) \subseteq Present(done.fences)
      BY <1>1, <2>3, StoredGrows
    <2>5. rec.ver = k.man.ver
      BY <2>1, <2>3, ReturnedFacts
    <2>6. Ahead(c)'
      BY <1>1, <2>1, <2>3, <2>4, ReturnedAhead
    <2> QED
      BY <1>1, <2>1, <2>2, <2>5, <2>6
  <1>6. CASE PartlyInstalled(k, rec)
    <2>1. PICK ids \in SUBSET Present(k.new) :
            rec = Returned([k EXCEPT !.fences = Stored(k, ids)])
      BY <1>6 DEF PartlyInstalled
    <2> DEFINE done == [k EXCEPT !.fences = Stored(k, ids)]
    <2>2. Stored(k, ids) \in Collection
      BY <1>1, StoredFacts DEF Present
    <2>3. /\ done \in Client /\ done.fences = Stored(k, ids)
          /\ done.base = k.base /\ done.ver = k.ver
      BY <1>1, <2>2 DEF Client
    <2>4. done.base # None => Present(done.base.fences) \subseteq Present(done.fences)
      BY <1>1, <2>3, StoredGrows DEF Ahead
    <2>5. rec.ver = k.ver
      BY <2>1, <2>3, ReturnedFacts
    <2>6. Ahead(c)'
      BY <1>1, <2>1, <2>3, <2>4, ReturnedAhead
    <2> QED
      BY <1>1, <2>5, <2>6
  <1> QED
    BY <1>2, <1>3, <1>4, <1>5, <1>6

AheadInv == GulInv /\ \A c \in Clients : Ahead(c)

LEMMA AheadStep ==
  ASSUME AheadInv, [GulNext]_gulVars
  PROVE  /\ AheadInv'
         /\ \A c \in Clients : client'[c].ver >= client[c].ver
  <1>1. GulInv /\ GulInv'
    BY GulInvStep DEF AheadInv
  <1>2. \A c \in Clients : client[c].ver \in Nat
    BY <1>1, PublisherAssumption DEF GulInv, GulTypeOK, Client
  <1>3. CASE UNCHANGED client
    BY <1>1, <1>2, <1>3 DEF AheadInv, Ahead
  <1>4. ASSUME NEW c \in Clients, SyncStep(c)
        PROVE  \A d \in Clients : Ahead(d)' /\ client'[d].ver >= client[d].ver
    <2>1. PICK rec : /\ Proceed(c, rec)
                     /\ \/ Choosing(client[c], rec) \/ rec = Returned(client[c])
                        \/ Downloaded(client[c], rec) \/ Installed(client[c], rec)
                        \/ PartlyInstalled(client[c], rec)
      BY <1>1, <1>4, SyncStepCases
    <2>2. /\ client'[c] = rec
          /\ \A d \in Clients : d # c => client'[d] = client[d]
      BY <1>1, <2>1, ProceedFacts DEF GulInv
    <2>3. Ahead(c)' /\ client'[c].ver >= client[c].ver
      BY <1>1, <2>1, <2>2, AheadKept DEF AheadInv
    <2>4. ASSUME NEW d \in Clients, d # c
          PROVE  Ahead(d)' /\ client'[d].ver >= client[d].ver
      BY <1>2, <2>2, <2>4 DEF AheadInv, Ahead
    <2> QED
      BY <2>3, <2>4
  <1> QED
    BY <1>1, <1>3, <1>4 DEF GulNext, gulVars, PublisherStep, AheadInv

LEMMA AheadAlways == GulSpec => []AheadInv
  <1>1. GulInit => AheadInv
    BY GulInvInit, FreshType DEF GulInit, AheadInv, Ahead
  <1>2. AheadInv /\ [GulNext]_gulVars => AheadInv'
    BY AheadStep
  <1> QED
    BY <1>1, <1>2, PTL DEF GulSpec

\* However many processes publish and however often the database is made anew,
\* no client goes back to a lower version.
THEOREM ClientsOnlyAdvance == GulSpec => ClientsAdvance
  <1>1. AheadInv /\ [GulNext]_gulVars =>
          [\A c \in Clients : client'[c].ver >= client[c].ver]_client
    BY AheadStep
  <1> QED
    BY <1>1, AheadAlways, PTL DEF GulSpec, ClientsAdvance

\* However many processes publish and overwrite each other's snapshots, what a
\* client has installed from one stays covered.
THEOREM InstalledIsCovered == GulSpec => []InstalledCovered
  <1>1. AheadInv => InstalledCovered
    BY DEF AheadInv, Ahead, InstalledCovered
  <1> QED
    BY <1>1, AheadAlways, PTL

-----------------------------------------------------------------------------
(* One publisher process that can read the recorded version. *)

(***************************************************************************)
(* What was announced is the recorded version, an older one, or the next.  *)
(* Before the first fault every announced snapshot is in place.            *)
(***************************************************************************)
AnnouncedNext == \A m \in announced : m.ver <= dbVersion + 1
Served        == faults = 0 => \A m \in announced : snapFile[m.ver] = m.fences

FirstDatabase == inits = 0 => ever = announced

ClientAhead(c) == inits = 0 => client[c].ver <= dbVersion + 1

BaseKept(c) ==
  LET k == client[c] IN
  (Undisturbed /\ k.base # None /\ k.base.ver = k.ver) =>
    \A id \in Present(k.base.fences) : k.fences[id] = k.base.fences[id]

PublisherInv == SoloInv /\ OnceInv /\ AnnouncedNext /\ Served

SoloGulInv ==
  /\ GulInv /\ PublisherInv /\ FirstDatabase
  /\ \A c \in Clients : ClientAhead(c) /\ BaseKept(c)

\* Only WriteManifest announces, and only Initialize forgets.
LEMMA AnnouncedStep ==
  ASSUME [Next]_vars, ~Initialize
  PROVE  \/ UNCHANGED announced
         \/ \E p \in Procs : WriteManifest(p)
  <1>1. CASE UNCHANGED vars
    BY <1>1 DEF vars, fileVars
  <1>2. ASSUME NEW p \in Procs, Command(p), ~WriteManifest(p)
        PROVE  UNCHANGED announced
    BY <1>2 DEF Command, Publish, Open, Close, Fail, Kill, SignAndAdd,
       SignAndUpdate, DeleteFence, Edit, StartPublish, ReadOld,
       TruncateSnapshot, WriteSnapshot, TruncateManifest, TruncateDelta,
       WriteDelta, SetManifest, SetVersion, fileVars
  <1> QED
    BY <1>1, <1>2 DEF Next

\* The new manifest has the number after the recorded one, and its snapshot is
\* in place.
LEMMA NewManifest ==
  ASSUME SoloInv, NEW p \in Procs, WriteManifest(p)
  PROVE  /\ announced' = announced \cup {ManifestOf(p)}
         /\ ManifestOf(p).ver = dbVersion + 1
         /\ snapFile[ManifestOf(p).ver] = ManifestOf(p).fences
         /\ UNCHANGED <<dbVersion, snapFile>>
  <1>1. /\ TypeOK /\ Written(p) /\ proc[p].pc = "manifestData"
        /\ announced' = announced \cup {ManifestOf(p)}
        /\ UNCHANGED <<dbVersion, snapFile>>
    BY DEF SoloInv, WriteManifest, At, dbVars
  <1>2. /\ ManifestOf(p).ver = NewVersion(p) /\ ManifestOf(p).fences = proc[p].new
        /\ NewVersion(p) = dbVersion + 1
    BY <1>1, ManifestType, Publishing
  <1>3. snapFile[NewVersion(p)] = proc[p].new
    BY <1>1 DEF Written
  <1> QED
    BY <1>1, <1>2, <1>3

LEMMA AnnouncedNextStep ==
  ASSUME Solo, SoloInv, AnnouncedNext, [Next]_vars
  PROVE  AnnouncedNext'
  <1>1. CASE Initialize
    BY <1>1 DEF Initialize, AnnouncedNext
  <1>2. CASE ~Initialize
    <2>1. /\ dbVersion \in Nat /\ dbVersion' \in Nat /\ dbVersion <= dbVersion'
      BY <1>2, VersionStep, PublisherAssumption DEF SoloInv, TypeOK
    <2>2. \A m \in announced : m.ver \in Nat
      BY PublisherAssumption DEF SoloInv, TypeOK, Manifest, Versions
    <2>3. CASE UNCHANGED announced
      BY <2>1, <2>2, <2>3 DEF AnnouncedNext
    <2>4. ASSUME NEW p \in Procs, WriteManifest(p) PROVE AnnouncedNext'
      BY <2>1, <2>2, <2>4, NewManifest DEF AnnouncedNext
    <2> QED
      BY <1>2, <2>3, <2>4, AnnouncedStep
  <1> QED
    BY <1>1, <1>2

\* A snapshot is written for the next version only, before that is announced.
LEMMA SnapshotStep ==
  ASSUME Solo, SoloInv, OnceInv, faults = 0, [Next]_vars, ~Initialize,
         NEW m \in announced
  PROVE  snapFile'[m.ver] = snapFile[m.ver]
  <1>1. PICK p \in Procs : Procs = {p}
    BY DEF Solo
  <1>2. /\ TypeOK /\ Written(p) /\ m.ver \in Versions
        /\ snapFile \in [Versions -> Collection \cup {None, Torn}]
    BY <1>1 DEF SoloInv, TypeOK, Manifest
  <1>3. CASE TruncateSnapshot(p) \/ WriteSnapshot(p)
    <2>1. proc[p].pc \in {"snapshot", "snapshotData"}
      BY <1>3 DEF TruncateSnapshot, WriteSnapshot, At
    <2>2. NewVersion(p) = dbVersion + 1 /\ dbVersion \in Nat
      BY <1>2, <2>1, Publishing
    <2>3. m.ver <= dbVersion
      BY <1>1, <2>1 DEF OnceInv, Recorded, Announced
    <2>4. m.ver # NewVersion(p)
      BY <1>2, <2>2, <2>3, PublisherAssumption DEF Versions
    <2> QED
      BY <1>2, <1>3, <2>4 DEF TruncateSnapshot, WriteSnapshot
  <1>4. CASE ~TruncateSnapshot(p) /\ ~WriteSnapshot(p)
    <2>1. UNCHANGED vars \/ Command(p)
      BY <1>1 DEF Next
    <2>2. UNCHANGED snapFile
      BY <1>4, <2>1 DEF vars, fileVars, Command, Publish, Open, Close, Fail,
         Kill, SignAndAdd, SignAndUpdate, DeleteFence, Edit, StartPublish,
         ReadOld, TruncateManifest, WriteManifest, TruncateDelta, WriteDelta,
         SetManifest, SetVersion
    <2> QED
      BY <2>2
  <1> QED
    BY <1>3, <1>4

LEMMA FaultsGrow ==
  ASSUME SoloInv, [Next]_vars, faults' = 0
  PROVE  faults = 0
  <1>1. faults \in Nat
    BY DEF SoloInv, TypeOK
  <1>2. faults' = faults \/ faults' = faults + 1
    BY DEF Next, Command, Publish, vars, Initialize, Open, Close, Fail, Kill,
       SignAndAdd, SignAndUpdate, DeleteFence, Edit, StartPublish, ReadOld,
       TruncateSnapshot, WriteSnapshot, TruncateManifest, WriteManifest,
       TruncateDelta, WriteDelta, SetManifest, SetVersion, Fault
  <1> QED
    BY <1>1, <1>2

LEMMA ServedStep ==
  ASSUME Solo, SoloInv, OnceInv, Served, [Next]_vars
  PROVE  Served'
  <1> SUFFICES ASSUME faults' = 0, NEW m \in announced'
               PROVE  snapFile'[m.ver] = m.fences
    BY DEF Served
  <1>1. faults = 0 /\ \A n \in announced : snapFile[n.ver] = n.fences
    BY FaultsGrow DEF Served
  <1>2. ~Initialize
    BY DEF Initialize
  <1>3. CASE m \in announced
    BY <1>1, <1>2, <1>3, SnapshotStep
  <1>4. CASE m \notin announced
    <2>1. PICK p \in Procs : WriteManifest(p)
      BY <1>2, <1>4, AnnouncedStep
    <2> QED
      BY <1>4, <2>1, NewManifest
  <1> QED
    BY <1>3, <1>4

LEMMA PublisherInvStep ==
  ASSUME Solo, PublisherInv, [Next]_vars
  PROVE  PublisherInv'
  BY NextSolo, OnceStep, AnnouncedNextStep, ServedStep DEF PublisherInv

-----------------------------------------------------------------------------
(* The clients of one process. *)

LEMMA PublisherStepSolo ==
  ASSUME Solo, SoloGulInv, PublisherStep
  PROVE  SoloGulInv'
  <1>1. GulInv' /\ PublisherInv'
    BY PublisherKeeps, PublisherNext, PublisherInvStep DEF SoloGulInv
  <1>2. /\ UNCHANGED client /\ ever' = ever \cup announced' /\ inits \in Nat
        /\ \/ Initialize /\ inits' = inits + 1
           \/ (\E p \in Procs : Command(p)) /\ inits' = inits
    BY DEF PublisherStep, SoloGulInv, GulInv, GulTypeOK
  <1>4. ASSUME inits' = 0
        PROVE  /\ inits = 0 /\ announced \subseteq announced'
               /\ dbVersion \in Nat /\ dbVersion' \in Nat /\ dbVersion <= dbVersion'
    <2>1. PICK p \in Procs : Command(p)
      BY <1>2, <1>4
    <2>2. ~Initialize \/ UNCHANGED <<announced, dbVersion>>
      BY <2>1 DEF Initialize, Command, Publish, Open, Close, Fail, Kill,
         SignAndAdd, SignAndUpdate, DeleteFence, Edit, StartPublish, ReadOld,
         TruncateSnapshot, WriteSnapshot, TruncateManifest, WriteManifest,
         TruncateDelta, WriteDelta, SetManifest, SetVersion, fileVars, dbVars, At
    <2>3. dbVersion \in Nat
      BY PublisherAssumption DEF SoloGulInv, GulInv, GulTypeOK, TypeOK
    <2>4. SoloInv /\ [Next]_vars
      BY PublisherNext DEF SoloGulInv, PublisherInv
    <2>5. announced \subseteq announced'
      BY <2>2, <2>4, AnnouncedStep, NewManifest
    <2>6. dbVersion' = dbVersion \/ dbVersion' = dbVersion + 1
      BY <2>2, <2>4, VersionStep
    <2> QED
      BY <1>2, <1>4, <2>3, <2>5, <2>6
  <1>5. FirstDatabase'
    BY <1>2, <1>4 DEF SoloGulInv, FirstDatabase
  <1>6. ASSUME NEW c \in Clients PROVE ClientAhead(c)' /\ BaseKept(c)'
    <2>1. client[c].ver \in Nat
      BY PublisherAssumption DEF SoloGulInv, GulInv, GulTypeOK, Client
    <2>2. ClientAhead(c)'
      BY <1>2, <1>4, <2>1 DEF SoloGulInv, ClientAhead
    <2>3. faults' = 0 => faults = 0
      BY FaultsGrow, PublisherNext DEF SoloGulInv, PublisherInv
    <2>4. BaseKept(c)'
      BY <1>2, <1>4, <2>3 DEF SoloGulInv, BaseKept, Undisturbed
    <2> QED
      BY <2>2, <2>4
  <1> QED
    BY <1>1, <1>5, <1>6 DEF SoloGulInv

\* A fault of a client is no change to the publisher.
LEMMA PublisherIdle ==
  ASSUME PublisherInv, UNCHANGED <<dbVars, fileVars, proc>>,
         faults' = faults \/ Fault
  PROVE  PublisherInv' /\ (faults' = 0 => faults = 0)
  <1>1. /\ faults' \in Nat /\ (faults' = 0 => faults = 0)
        /\ UNCHANGED <<store, dbManifest, dbVersion, snapFile, manFile,
                       deltaFile, announced, proc>>
    BY DEF PublisherInv, SoloInv, TypeOK, Fault, dbVars, fileVars
  <1>2. TypeOK'
    BY <1>1 DEF PublisherInv, SoloInv, TypeOK
  <1>3. CommittedServable' /\ \A p \in Procs : Written(p)'
    BY <1>1 DEF PublisherInv, SoloInv, CommittedServable, Written, At,
       NewVersion, ManifestOf, WritesDelta, DeltaOf
  <1>4. OnceInv'
    BY <1>1 DEF PublisherInv, OnceInv, UniqueVersions, Recorded, Announced,
       ManifestOf, NewVersion, DeltaOf
  <1>5. AnnouncedNext' /\ Served'
    BY <1>1 DEF PublisherInv, AnnouncedNext, Served
  <1> QED
    BY <1>1, <1>2, <1>3, <1>4, <1>5 DEF PublisherInv, SoloInv

\* A client installs a version that was announced, and all of its fences.
LEMMA ClientStepSolo ==
  ASSUME SoloGulInv, NEW c \in Clients, SyncStep(c)
  PROVE  SoloGulInv'
  <1> DEFINE k == client[c]
  <1>1. GulInv' /\ GulInv /\ k \in Client
    BY ClientKeeps DEF SoloGulInv, GulInv, GulTypeOK
  <1>2. faults' = faults \/ Fault
    BY SyncStepCases DEF SoloGulInv
  <1>3. PICK rec : /\ Proceed(c, rec)
                   /\ \/ Choosing(k, rec) \/ rec = Returned(k)
                      \/ Downloaded(k, rec) \/ Installed(k, rec)
                      \/ PartlyInstalled(k, rec)
    BY <1>1, SyncStepCases
  <1>4. /\ client'[c] = rec /\ \A d \in Clients : d # c => client'[d] = client[d]
        /\ UNCHANGED <<dbVars, fileVars, proc, ever, inits>>
        /\ UNCHANGED <<dbVersion, announced>>
    BY <1>1, <1>3, ProceedFacts DEF GulInv, dbVars, fileVars
  <1>5. PublisherInv' /\ (faults' = 0 => faults = 0)
    BY <1>2, <1>4, PublisherIdle DEF SoloGulInv
  <1>6. FirstDatabase'
    BY <1>4 DEF SoloGulInv, FirstDatabase
  <1>7. ASSUME NEW d \in Clients, d # c PROVE ClientAhead(d)' /\ BaseKept(d)'
    BY <1>4, <1>5, <1>7 DEF SoloGulInv, ClientAhead, BaseKept, Undisturbed
  <1> SUFFICES ClientAhead(c)' /\ BaseKept(c)'
    BY <1>1, <1>5, <1>6, <1>7 DEF SoloGulInv
  <1>8. ASSUME rec.ver = k.ver, rec.base = k.base, rec.fences = k.fences
        PROVE  ClientAhead(c)' /\ BaseKept(c)'
    BY <1>4, <1>5, <1>8 DEF SoloGulInv, ClientAhead, BaseKept, Undisturbed
  <1>9. CASE Choosing(k, rec) \/ Downloaded(k, rec)
    <2>1. rec.ver = k.ver /\ rec.base = k.base /\ rec.fences = k.fences
      BY <1>1, <1>9 DEF Choosing, Downloaded, Client
    <2> QED
      BY <1>8, <2>1
  <1>10. CASE rec = Returned(k)
    BY <1>1, <1>8, <1>10, ReturnedFacts
  <1>11. CASE Installed(k, rec)
    <2> DEFINE base == IF k.new = k.man.fences THEN k.man ELSE None
               done == [k EXCEPT !.fences = Stored(k, Present(k.new)),
                                 !.ver = k.man.ver, !.base = base]
    <2>1. k.pc = "install" /\ rec = Returned(done) /\ k.man \in ever
      BY <1>1, <1>11 DEF Installed, GulInv, Known
    <2>2. /\ Present(k.new) \in SUBSET Ids /\ k.man.ver \in 0..MaxVersion
          /\ Stored(k, Present(k.new)) \in Collection /\ k.man \in Manifest
      BY <1>1, <2>1, StoredFacts, PublisherAssumption
      DEF Present, Manifest, Versions, GulInv, GulTypeOK
    <2>3. /\ done \in Client /\ done.fences = Stored(k, Present(k.new))
          /\ done.base = base /\ done.ver = k.man.ver
      <3> HIDE DEF k, base
      <3> QED
        BY <1>1, <2>1, <2>2 DEF Client, base
    <2>4. /\ rec.fences = Stored(k, Present(k.new)) /\ rec.base = base
          /\ rec.ver = k.man.ver
      BY <2>1, <2>3, ReturnedFacts
    <2>5. ClientAhead(c)'
      BY <1>4, <2>1, <2>4
      DEF SoloGulInv, PublisherInv, AnnouncedNext, FirstDatabase, ClientAhead
    <2>6. ASSUME base # None
          PROVE  \A id \in Present(base.fences) : rec.fences[id] = base.fences[id]
      BY <1>1, <2>2, <2>4, <2>6, StoredFacts DEF Present
    <2>7. BaseKept(c)'
      BY <1>4, <2>4, <2>6 DEF BaseKept
    <2> QED
      BY <2>5, <2>7
  <1>12. CASE PartlyInstalled(k, rec)
    <2>1. PICK ids \in SUBSET Present(k.new) :
            rec = Returned([k EXCEPT !.fences = Stored(k, ids)])
      BY <1>12 DEF PartlyInstalled
    <2> DEFINE done == [k EXCEPT !.fences = Stored(k, ids)]
    <2>2. Stored(k, ids) \in Collection
      BY <1>1, StoredFacts DEF Present
    <2>3. done \in Client /\ done.ver = k.ver
      BY <1>1, <2>2 DEF Client
    <2>4. rec.ver = k.ver
      BY <2>1, <2>3, ReturnedFacts
    <2>5. ClientAhead(c)'
      BY <1>4, <2>4 DEF SoloGulInv, ClientAhead
    <2>6. faults' # 0
      BY <1>12 DEF PartlyInstalled, Fault, SoloGulInv, GulInv, GulTypeOK, TypeOK
    <2>7. BaseKept(c)'
      BY <2>6 DEF BaseKept, Undisturbed
    <2> QED
      BY <2>5, <2>7
  <1> QED
    BY <1>3, <1>9, <1>10, <1>11, <1>12

LEMMA SoloGulStep == Solo /\ SoloGulInv /\ [GulNext]_gulVars => SoloGulInv'
  <1>1. ASSUME Solo, SoloGulInv, UNCHANGED gulVars PROVE SoloGulInv'
    <2>1. GulInv'
      BY <1>1, GulInvStep DEF SoloGulInv
    <2>2. UNCHANGED <<client, ever, inits, dbVersion, announced, faults>>
          /\ UNCHANGED <<dbVars, fileVars, proc>>
      BY <1>1 DEF gulVars, vars, dbVars, fileVars
    <2>3. PublisherInv'
      BY <1>1, <2>2, PublisherIdle DEF SoloGulInv
    <2> QED
      BY <1>1, <2>1, <2>2, <2>3 DEF SoloGulInv, FirstDatabase, ClientAhead,
                                    BaseKept, Undisturbed
  <1> QED
    BY <1>1, PublisherStepSolo, ClientStepSolo DEF GulNext

LEMMA SoloGulInit == Solo /\ GulInit => SoloGulInv
  <1> SUFFICES ASSUME Solo, GulInit PROVE SoloGulInv
    OBVIOUS
  <1>1. GulInv
    BY GulInvInit
  <1>2. /\ announced = {} /\ ever = {} /\ dbVersion = 0
        /\ \A c \in Clients : client[c] = Fresh
    BY DEF GulInit, Init
  <1>3. PublisherInv
    BY <1>2, InitSolo DEF GulInit, PublisherInv, OnceInv, UniqueVersions,
                          Recorded, AnnouncedNext, Served
  <1>4. ASSUME NEW c \in Clients PROVE ClientAhead(c) /\ BaseKept(c)
    BY <1>2, FreshType DEF ClientAhead, BaseKept, Fresh
  <1> QED
    BY <1>1, <1>2, <1>3, <1>4 DEF SoloGulInv, FirstDatabase

LEMMA SoloGulAlways == Solo => (GulSpec => []SoloGulInv)
  <1> SUFFICES ASSUME Solo PROVE GulSpec => []SoloGulInv
    OBVIOUS
  <1>1. GulInit => SoloGulInv
    BY SoloGulInit
  <1>2. SoloGulInv /\ [GulNext]_gulVars => SoloGulInv'
    BY SoloGulStep
  <1> QED
    BY <1>1, <1>2, PTL DEF GulSpec

\* Until something fails or a new database is made, the snapshot of any
\* manifest that a client holds can be downloaded, whatever the publisher has
\* published since.
THEOREM HeldIsServable == ASSUME Solo PROVE GulSpec => []HeldServable
  <1>1. SoloGulInv => HeldServable
    BY DEF SoloGulInv, GulInv, Known, FirstDatabase, PublisherInv, Served,
           Undisturbed, ClientAt, HeldServable
  <1> QED
    BY <1>1, SoloGulAlways, PTL

\* Until then, a number that a client has installed from a snapshot stands for
\* one manifest, and the client holds its fences.
THEOREM InstalledAgree == ASSUME Solo PROVE GulSpec => []ClientsAgree
  <1>1. ASSUME SoloGulInv, Undisturbed, NEW c \in Clients, client[c].base # None
        PROVE  /\ \A m \in ever : m.ver = client[c].base.ver => m = client[c].base
               /\ client[c].base.ver = client[c].ver =>
                    \A id \in Present(client[c].base.fences) :
                      client[c].fences[id] = client[c].base.fences[id]
    <2>1. ever = announced /\ UniqueVersions
      BY <1>1 DEF SoloGulInv, FirstDatabase, PublisherInv, OnceInv, Undisturbed
    <2>2. client[c].base \in ever
      BY <1>1 DEF SoloGulInv, GulInv, Known
    <2>3. \A m \in ever : m.ver = client[c].base.ver => m = client[c].base
      BY <2>1, <2>2 DEF UniqueVersions
    <2> QED
      BY <1>1, <2>3 DEF SoloGulInv, BaseKept
  <1>2. SoloGulInv => ClientsAgree
    BY <1>1 DEF ClientsAgree
  <1> QED
    BY <1>2, SoloGulAlways, PTL

\* Wherever the process fails or is killed, no client is more than one version
\* ahead of what is recorded in the first database.
THEOREM AtMostOneAhead == ASSUME Solo PROVE GulSpec => []OneAhead
  <1>1. SoloGulInv => OneAhead
    BY DEF SoloGulInv, ClientAhead, OneAhead
  <1> QED
    BY <1>1, SoloGulAlways, PTL
=============================================================================
