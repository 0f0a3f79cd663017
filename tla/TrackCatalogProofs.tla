-------------------------- MODULE TrackCatalogProofs --------------------------
(***************************************************************************)
(* Proofs about TrackCatalog: the registry and the collections agree, a    *)
(* composition takes no component at an outdated release, each part of a   *)
(* composed snapshot names a release of a standard track, the snapshot     *)
(* accounts for all that these releases offer, and an exported bundle has  *)
(* the pinned objects that were there.                                     *)
(***************************************************************************)
EXTENDS TrackCatalog, Maxima, TLAPS

Reading == {"validate", "resolve", "clone"}

\* A request whose document is of the type of its track.
Claiming == Reading \cup {"save", "import", "register", "fill"}

Known(q) ==
  /\ DOMAIN q = DOMAIN Idle
  /\ IsSnapshot(q.doc)
  /\ q.phase # "idle" => q.track \in Tracks

TypeOK ==
  /\ DOMAIN colls = Tracks
  /\ DOMAIN registry = Tracks
  /\ DOMAIN req = Requests
  /\ \A t \in Tracks : /\ registry[t] \in {"standard", "virtual", None}
                       /\ \A m \in DOMAIN colls[t] : /\ IsSnapshot(colls[t][m])
                                                     /\ colls[t][m].modified = m
  /\ \A r \in Requests : Known(req[r])

Busy(r, t) == req[r].phase # "idle" /\ req[r].track = t

Registering(t) == \E r \in Requests : req[r].phase = "register" /\ req[r].track = t

\* A request that is about to make a track has its identifier to itself.
Sole ==
  \A r \in Requests : req[r].phase \in {"save", "import"} =>
    /\ registry[req[r].track] = None
    /\ DOMAIN colls[req[r].track] = {}
    /\ \A s \in Requests \ {r} : ~Busy(s, req[r].track)

\* What a request that is half done can count on.
Underway ==
  \A r \in Requests : LET t == req[r].track IN
    /\ req[r].phase = "register" => DOMAIN colls[t] # {} \/ t \in unmade
    /\ req[r].phase = "deregister" => t \in unmade
    /\ req[r].phase \in Reading \cup {"fill"} =>
         registry[t] # None \/ t \in unmade \/ Registering(t)

CatalogInv == TypeOK /\ Sole /\ Underway /\ CatalogAgrees

-----------------------------------------------------------------------------
(***************************************************************************)
(* Snapshots and requests, field by field.                                 *)
(***************************************************************************)
LEMMA Fields ==
  /\ DOMAIN Idle = {"phase", "op", "track", "doc", "name", "next", "found", "queue", "floor"}
  /\ \A type, members, c : DOMAIN Snapshot(type, members, c) =
       {"type", "modified", "version", "past", "members", "quarantine", "composition", "resolution",
        "edited"}
  BY DEF Idle, Request, Snapshot

LEMMA Fresh ==
  ASSUME NEW members
  PROVE  IsSnapshot(Snapshot("standard", members, NoComposition))
  <1>1. DOMAIN <<>> = 1..0 /\ Len(<<>>) = 0
    OBVIOUS
  <1> QED
    BY <1>1 DEF IsSnapshot, Snapshot, NoComposition

\* Two snapshots that say the same of their objects.
Alike(s, d) ==
  /\ s.type = d.type /\ s.resolution = d.resolution
  /\ s.members = d.members /\ s.quarantine = d.quarantine /\ s.edited = d.edited

LEMMA Redated ==
  ASSUME NEW s, IsSnapshot(s), NEW time
  PROVE  /\ IsSnapshot(At(s, time))
         /\ At(s, time).modified = time /\ At(s, time).version = 0
         /\ At(s, time).type = s.type /\ At(s, time).composition = s.composition
         /\ At(s, time).resolution = s.resolution
         /\ Alike(At(s, time), s)
  BY Fields DEF IsSnapshot, At, Alike

LEMMA Remade ==
  ASSUME NEW s, IsSnapshot(s), NEW members
  PROVE  LET n == [s EXCEPT !.members = members] IN
         /\ IsSnapshot(n) /\ n.type = s.type /\ n.composition = s.composition
         /\ n.resolution = s.resolution /\ n.modified = s.modified
         /\ n.members = members /\ n.quarantine = s.quarantine /\ n.edited = s.edited
  BY Fields DEF IsSnapshot

\* The same, by a user.
LEMMA Replaced ==
  ASSUME NEW s, IsSnapshot(s), NEW members
  PROVE  LET n == [s EXCEPT !.members = members, !.edited = TRUE] IN
         /\ IsSnapshot(n) /\ n.type = s.type /\ n.resolution = s.resolution
         /\ n.members = members /\ n.edited
  BY Fields DEF IsSnapshot

LEMMA CopiedKeeps ==
  ASSUME NEW s, IsSnapshot(s)
  PROVE  /\ IsSnapshot(Copied(s)) /\ Copied(s).type = s.type
         /\ Copied(s).resolution = s.resolution /\ Alike(Copied(s), s)
  BY Fields DEF IsSnapshot, Copied, Alike

LEMMA IdleKnown ==
  /\ Known(Idle) /\ Idle.phase = "idle" /\ Idle.op = None
  /\ Idle.doc.resolution = None /\ Idle.doc.members = <<>>
  BY Fresh DEF Known, Idle, Request, Snapshot

LEMMA RequestKnown ==
  ASSUME NEW phase, NEW op, NEW t \in Tracks, NEW s, IsSnapshot(s)
  PROVE  /\ Known(Request(phase, op, t, s))
         /\ Request(phase, op, t, s).phase = phase
         /\ Request(phase, op, t, s).op = op
         /\ Request(phase, op, t, s).track = t
         /\ Request(phase, op, t, s).doc = s
         /\ Request(phase, op, t, s).found = <<>>
  BY DEF Known, Idle, Request

-----------------------------------------------------------------------------
(***************************************************************************)
(* The quiet steps: those that change no collection, no entry of the       *)
(* registry and one request only.                                          *)
(***************************************************************************)
Alters(r) ==
  /\ DOMAIN req' = Requests
  /\ Known(req'[r])
  /\ \A s \in Requests \ {r} : req'[s] = req[s]

Onward(r) ==
  /\ req'[r].track = req[r].track
  /\ req'[r].doc.type = req[r].doc.type
  /\ req'[r].op = req[r].op
  /\ \/ req'[r].phase = req[r].phase /\ req[r].phase \in {"validate", "resolve", "import", "hydrate"}
     \/ req[r].phase = "import" /\ req'[r].phase = "save"
     \/ req[r].phase = "validate" /\ req'[r].phase \in {"resolve", "clone"}
     \/ req[r].phase = "resolve" /\ req'[r].phase = "clone"

\* A request that begins, after what it makes sure of.
Starts(r) ==
  /\ req[r].phase = "idle"
  /\ LET q == req'[r] IN
       \/ q.phase \in {"save", "import"} /\ ~InUse(q.track)
       \/ q.phase = "validate" /\ \E m \in DOMAIN colls[q.track] : q.doc.type = colls[q.track][m].type
       \/ q.phase = "hydrate" /\ DOMAIN colls[q.track] # {}
       \/ q.phase = "drop" /\ registry[q.track] # None

Stops(r) == req[r].phase # "register" /\ req'[r] = Idle

Calm(r) ==
  /\ UNCHANGED <<colls, registry, unmade>>
  /\ Alters(r)
  /\ Onward(r) \/ Starts(r) \/ Stops(r)

\* Where the composition_resolution of a request's document is from.
Inherits(r) ==
  \/ req'[r].doc.resolution = None
  \/ req'[r].doc.resolution = req[r].doc.resolution
  \/ \E t \in Tracks : \E m \in DOMAIN colls[t] : req'[r].doc.resolution = colls[t][m].resolution

LEMMA Going ==
  ASSUME TypeOK, NEW r \in Requests, NEW q, Known(q), Goes(r, q)
  PROVE  Alters(r) /\ req'[r] = q
  BY DEF TypeOK, Goes, Alters

LEMMA Ending ==
  ASSUME TypeOK, NEW r \in Requests, Ends(r)
  PROVE  Alters(r) /\ req'[r] = Idle
  BY IdleKnown, Going DEF Ends

\* A request may change whatever its document and its track do not depend on.
LEMMA Advance ==
  ASSUME NEW q, Known(q), NEW phase, q.phase # "idle"
  PROVE  LET n == [q EXCEPT !.phase = phase] IN
         /\ Known(n) /\ n.phase = phase /\ n.track = q.track /\ n.doc = q.doc /\ n.op = q.op
         /\ n.found = q.found /\ n.floor = q.floor
  BY Fields DEF Known

LEMMA EndCalm ==
  ASSUME TypeOK, NEW r \in Requests,
         SaveTrackFails(r) \/ Preview(r) \/ Answer(r)
  PROVE  Calm(r)
  BY Ending DEF SaveTrackFails, Preview, Answer, Calm, Stops

LEMMA SnapshotKnown ==
  ASSUME TypeOK, NEW t \in Tracks, NEW m \in DOMAIN colls[t]
  PROVE  IsSnapshot(colls[t][m]) /\ colls[t][m].modified = m
  BY DEF TypeOK

LEMMA CreateCalm ==
  ASSUME TypeOK, CatalogAssumption, NEW r \in Requests, BeginCreate(r)
  PROVE  /\ Calm(r) /\ req'[r].phase \notin Reading /\ Inherits(r)
         /\ req'[r].phase = "save" /\ req'[r].found = <<>>
         /\ req'[r].doc.members = <<>> /\ req'[r].doc.resolution = None
  <1>1. PICK t \in Tracks, s \in {Snapshot("standard", <<>>, NoComposition)}
                                   \cup {Snapshot("virtual", <<>>, c) : c \in Compositions} :
          ~InUse(t) /\ Goes(r, Request("save", "create", t, s))
    BY DEF BeginCreate
  <1>2. IsSnapshot(s) /\ s.resolution = None /\ s.members = <<>>
    BY Fresh DEF CatalogAssumption, Snapshot
  <1> QED
    BY <1>1, <1>2, RequestKnown, Going DEF BeginCreate, Begins, Calm, Starts, Reading, Inherits

LEMMA CloneCalm ==
  ASSUME TypeOK, NEW r \in Requests, BeginClone(r)
  PROVE  /\ Calm(r) /\ req'[r].phase \notin Reading /\ Inherits(r)
         /\ req'[r].phase = "save" /\ req'[r].found = <<>>
         /\ \E t \in Tracks : \E m \in DOMAIN colls[t] : Alike(req'[r].doc, colls[t][m])
  <1>0. PICK source \in Tracks, t \in Tracks, name \in {"plain", "copy"} :
          \E m \in DOMAIN colls[source] :
            /\ ~InUse(t)
            /\ Goes(r, [Request("save", "clone", t, Copied(colls[source][m])) EXCEPT !.name = name])
    BY DEF BeginClone
  <1>1. PICK m \in DOMAIN colls[source] :
          /\ ~InUse(t)
          /\ Goes(r, [Request("save", "clone", t, Copied(colls[source][m])) EXCEPT !.name = name])
    BY <1>0
  <1> DEFINE q == Request("save", "clone", t, Copied(colls[source][m]))
             n == [q EXCEPT !.name = name]
  <1>2. /\ Known(q) /\ q.phase = "save" /\ q.track = t /\ q.found = <<>>
        /\ q.doc.resolution = colls[source][m].resolution /\ Alike(q.doc, colls[source][m])
    BY SnapshotKnown, CopiedKeeps, RequestKnown
  <1>3. Known(n) /\ n.phase = "save" /\ n.track = t /\ n.doc = q.doc /\ n.found = q.found
    <2> HIDE DEF q
    <2> QED
      BY <1>2, Fields DEF Known
  <1>4. Goes(r, n) /\ ~InUse(t)
    BY <1>1
  <1>5. req[r].phase = "idle" /\ UNCHANGED <<colls, registry, unmade>>
    BY DEF BeginClone, Begins
  <1> HIDE DEF n, q
  <1> QED
    BY <1>2, <1>3, <1>4, <1>5, Going DEF Calm, Starts, Reading, Inherits

LEMMA BeginImportCalm ==
  ASSUME TypeOK, NEW r \in Requests, BeginImport(r)
  PROVE  /\ Calm(r) /\ req'[r].phase \notin Reading /\ Inherits(r)
         /\ req'[r].phase = "import" /\ req'[r].op = "import" /\ req'[r].found = <<>>
         /\ \E b \in Bundles : req'[r].queue = b.objects /\ req'[r].doc.members = b.contents
         /\ req'[r].doc.resolution = None
  <1>1. PICK t \in Tracks, b \in Bundles :
          /\ ~InUse(t)
          /\ Goes(r, [Request("import", "import", t, Snapshot("standard", b.contents, NoComposition))
                        EXCEPT !.name = b.name, !.queue = b.objects])
    BY DEF BeginImport
  <1> DEFINE q == Request("import", "import", t, Snapshot("standard", b.contents, NoComposition))
             n == [q EXCEPT !.name = b.name, !.queue = b.objects]
  <1>2. /\ Known(q) /\ q.phase = "import" /\ q.op = "import" /\ q.track = t /\ q.found = <<>>
        /\ q.doc.resolution = None /\ q.doc.members = b.contents
    BY Fresh, RequestKnown DEF Snapshot
  <1>3. /\ Known(n) /\ n.phase = "import" /\ n.op = "import" /\ n.track = t /\ n.doc = q.doc
        /\ n.found = q.found /\ n.queue = b.objects
    <2> HIDE DEF q
    <2> QED
      BY <1>2, Fields DEF Known
  <1>4. Goes(r, n) /\ ~InUse(t)
    BY <1>1
  <1>5. req[r].phase = "idle" /\ UNCHANGED <<colls, registry, unmade>>
    BY DEF BeginImport, Begins
  <1> HIDE DEF n, q
  <1> QED
    BY <1>2, <1>3, <1>4, <1>5, Going DEF Calm, Starts, Reading, Inherits

LEMMA ImportObjectCalm ==
  ASSUME TypeOK, NEW r \in Requests, ImportObject(r)
  PROVE  /\ Calm(r) /\ req'[r].doc = req[r].doc /\ req'[r].phase = "import"
         /\ req[r].phase = "import" /\ req[r].queue # <<>> /\ req'[r].queue = Tail(req[r].queue)
         /\ req'[r].found \in {req[r].found, Append(req[r].found, Pin(Head(req[r].queue)))}
  <1> DEFINE q == req[r]
             o == Head(q.queue)
             n == [q EXCEPT !.queue = Tail(@), !.found = IF o.known THEN Append(@, Pin(o)) ELSE @]
  <1>1. /\ q.phase = "import" /\ Known(q) /\ Goes(r, n) /\ UNCHANGED <<colls, registry, unmade>>
        /\ q.queue # <<>>
    BY DEF ImportObject, TypeOK
  <1>2. /\ Known(n) /\ n.phase = "import" /\ n.track = q.track /\ n.doc = q.doc /\ n.op = q.op
        /\ n.queue = Tail(q.queue) /\ n.found \in {q.found, Append(q.found, Pin(o))}
    <2> HIDE DEF q, o
    <2> QED
      BY <1>1, Fields DEF Known
  <1> HIDE DEF n
  <1> QED
    BY <1>1, <1>2, Going DEF Calm, Onward, q

LEMMA ImportedCalm ==
  ASSUME TypeOK, NEW r \in Requests, Imported(r)
  PROVE  /\ Calm(r) /\ req'[r].phase = "save" /\ req[r].phase = "import"
         /\ req'[r].doc.resolution = req[r].doc.resolution
         /\ req'[r].doc.members = <<>>
         /\ req'[r].found \in {req[r].found, req[r].doc.members}
  <1> DEFINE q == req[r]
             n == [q EXCEPT !.phase = "save", !.doc.members = <<>>,
                            !.found = IF q.doc.members # <<>> THEN q.doc.members ELSE @]
  <1>1. q.phase = "import" /\ Known(q) /\ Goes(r, n) /\ UNCHANGED <<colls, registry, unmade>>
    BY DEF Imported, TypeOK
  <1>2. /\ DOMAIN n = DOMAIN Idle /\ n.phase = "save" /\ n.track = q.track /\ n.op = q.op
        /\ n.doc = [q.doc EXCEPT !.members = <<>>] /\ n.found \in {q.found, q.doc.members}
    <2> HIDE DEF q
    <2> QED
      BY <1>1, Fields DEF Known
  <1>3. /\ Known(n) /\ n.doc.type = q.doc.type /\ n.doc.resolution = q.doc.resolution
        /\ n.doc.members = <<>>
    <2> HIDE DEF q, n
    <2> QED
      BY <1>1, <1>2, Remade DEF Known
  <1> HIDE DEF n
  <1> QED
    BY <1>1, <1>2, <1>3, Going DEF Calm, Onward, q

LEMMA DeleteCalm ==
  ASSUME TypeOK, NEW r \in Requests, BeginDelete(r)
  PROVE  /\ Calm(r) /\ req'[r].phase \notin Reading /\ Inherits(r)
         /\ req'[r].phase = "drop" /\ req'[r].doc.members = <<>> /\ req'[r].doc.resolution = None
  <1>1. PICK t \in Tracks :
          /\ registry[t] # None
          /\ Goes(r, [Idle EXCEPT !.phase = "drop", !.op = "delete", !.track = t])
    BY DEF BeginDelete
  <1> DEFINE n == [Idle EXCEPT !.phase = "drop", !.op = "delete", !.track = t]
  <1>2. /\ Known(n) /\ n.phase = "drop" /\ n.track = t
        /\ n.doc.resolution = None /\ n.doc.members = <<>>
    BY IdleKnown, Fields DEF Known
  <1>3. Goes(r, n)
    BY <1>1
  <1>4. req[r].phase = "idle" /\ UNCHANGED <<colls, registry, unmade>>
    BY DEF BeginDelete, Begins
  <1> HIDE DEF n
  <1> QED
    BY <1>1, <1>2, <1>3, <1>4, Going DEF Calm, Starts, Reading, Inherits

\* The types of the objects a snapshot pins.
TypesPinned(s) == {TypeOf[s.members[i].ref] : i \in DOMAIN s.members}

LEMMA ExportCalm ==
  ASSUME TypeOK, NEW r \in Requests, BeginExport(r)
  PROVE  /\ Calm(r) /\ req'[r].op = "export" /\ req'[r].phase = "hydrate" /\ Inherits(r)
         /\ \E t \in Tracks : \E m \in DOMAIN colls[t] : req'[r].doc = colls[t][m]
         /\ req'[r].queue = TypesPinned(req'[r].doc) /\ req'[r].found = {} /\ req'[r].floor = store
  <1>1. PICK t \in Tracks :
          \E m \in DOMAIN colls[t] :
            Goes(r, [Request("hydrate", "export", t, colls[t][m])
                       EXCEPT !.queue = TypesPinned(colls[t][m]), !.found = {}, !.floor = store])
    BY DEF BeginExport, TypesPinned
  <1>2. PICK m \in DOMAIN colls[t] :
          Goes(r, [Request("hydrate", "export", t, colls[t][m])
                     EXCEPT !.queue = TypesPinned(colls[t][m]), !.found = {}, !.floor = store])
    BY <1>1
  <1> DEFINE q == Request("hydrate", "export", t, colls[t][m])
             n == [q EXCEPT !.queue = TypesPinned(colls[t][m]), !.found = {}, !.floor = store]
  <1>3. Known(q) /\ q.phase = "hydrate" /\ q.op = "export" /\ q.track = t /\ q.doc = colls[t][m]
    BY SnapshotKnown, RequestKnown
  <1>4. /\ Known(n) /\ n.phase = "hydrate" /\ n.op = "export" /\ n.track = t /\ n.doc = q.doc
        /\ n.queue = TypesPinned(colls[t][m]) /\ n.found = {} /\ n.floor = store
    <2> HIDE DEF q
    <2> QED
      BY <1>3, Fields DEF Known
  <1>5. Goes(r, n)
    BY <1>2
  <1>6. req[r].phase = "idle" /\ UNCHANGED <<colls, registry, unmade>>
    BY DEF BeginExport, Begins
  <1> HIDE DEF n, q
  <1> QED
    BY <1>3, <1>4, <1>5, <1>6, Going DEF Calm, Starts, Inherits

\* What fetching one type adds to what was found, or takes from what may be asked for.
HydrateGives(r) ==
  LET q == req[r]  n == req'[r] IN
  \E type \in q.queue :
    /\ n.queue = q.queue \ {type}
    /\ \/ /\ n.found = q.found \cup (IF type \in Types THEN Fetched(q.doc.members, type) ELSE {})
          /\ n.floor = q.floor
       \/ /\ n.found = q.found
          /\ n.floor = {o \in q.floor : TypeOf[o.ref] # type}

LEMMA HydrateCalm ==
  ASSUME TypeOK, NEW r \in Requests, Hydrate(r) \/ HydrateFails(r)
  PROVE  /\ Calm(r) /\ req'[r].op = req[r].op /\ req'[r].phase = "hydrate"
         /\ req[r].phase = "hydrate" /\ req'[r].doc = req[r].doc
         /\ HydrateGives(r)
  <1> DEFINE q == req[r]
  <1>1. q.phase = "hydrate" /\ Known(q) /\ UNCHANGED <<colls, registry, unmade>>
    BY DEF Hydrate, HydrateFails, TypeOK
  <1>2. ASSUME NEW queue, NEW found, NEW floor,
               Goes(r, [q EXCEPT !.queue = queue, !.found = found, !.floor = floor])
        PROVE  /\ Calm(r)
               /\ LET n == req'[r] IN
                    /\ n.phase = q.phase /\ n.op = q.op /\ n.doc = q.doc
                    /\ n.queue = queue /\ n.found = found /\ n.floor = floor
    <2> DEFINE n == [q EXCEPT !.queue = queue, !.found = found, !.floor = floor]
    <2>1. /\ Known(n) /\ n.phase = q.phase /\ n.track = q.track /\ n.doc = q.doc /\ n.op = q.op
          /\ n.queue = queue /\ n.found = found /\ n.floor = floor
      <3> HIDE DEF q
      <3> QED
        BY <1>1, Fields DEF Known
    <2>2. Goes(r, n)
      BY <1>2
    <2>3. Alters(r) /\ req'[r] = n
      <3> HIDE DEF n
      <3> QED
        BY <2>1, <2>2, Going
    <2> HIDE DEF n
    <2> QED
      BY <1>1, <2>1, <2>3 DEF Calm, Onward
  <1>3. CASE Hydrate(r)
    <2>1. PICK type \in q.queue :
            LET docs == IF type \in Types THEN Fetched(q.doc.members, type) ELSE {} IN
            Goes(r, [q EXCEPT !.queue = @ \ {type}, !.found = @ \cup docs])
      BY <1>3 DEF Hydrate
    <2> DEFINE queue == q.queue \ {type}
               found == q.found \cup (IF type \in Types THEN Fetched(q.doc.members, type) ELSE {})
    <2>2. Goes(r, [q EXCEPT !.queue = queue, !.found = found, !.floor = q.floor])
      <3>1. [q EXCEPT !.queue = queue, !.found = found, !.floor = q.floor]
              = [q EXCEPT !.queue = queue, !.found = found]
        <4> HIDE DEF q, queue, found
        <4> QED
          BY <1>1, Fields DEF Known
      <3> QED
        BY <2>1, <3>1
    <2> HIDE DEF queue, found
    <2>3. Calm(r) /\ LET n == req'[r] IN
                      /\ n.phase = q.phase /\ n.op = q.op /\ n.doc = q.doc
                      /\ n.queue = queue /\ n.found = found /\ n.floor = q.floor
      BY <1>2, <2>2
    <2> QED
      BY <1>1, <2>3 DEF HydrateGives, queue, found
  <1>4. CASE HydrateFails(r)
    <2>1. PICK type \in q.queue :
            Goes(r, [q EXCEPT !.queue = @ \ {type}, !.floor = {o \in @ : TypeOf[o.ref] # type}])
      BY <1>4 DEF HydrateFails
    <2> DEFINE queue == q.queue \ {type}
               floor == {o \in q.floor : TypeOf[o.ref] # type}
    <2>2. Goes(r, [q EXCEPT !.queue = queue, !.found = q.found, !.floor = floor])
      <3>1. [q EXCEPT !.queue = queue, !.found = q.found, !.floor = floor]
              = [q EXCEPT !.queue = queue, !.floor = floor]
        <4> HIDE DEF q, queue, floor
        <4> QED
          BY <1>1, Fields DEF Known
      <3> QED
        BY <2>1, <3>1
    <2> HIDE DEF queue, floor
    <2>3. Calm(r) /\ LET n == req'[r] IN
                      /\ n.phase = q.phase /\ n.op = q.op /\ n.doc = q.doc
                      /\ n.queue = queue /\ n.found = q.found /\ n.floor = floor
      BY <1>2, <2>2
    <2> QED
      BY <1>1, <2>3 DEF HydrateGives, queue, floor
  <1> QED
    BY <1>3, <1>4

-----------------------------------------------------------------------------
(***************************************************************************)
(* The steps of a composition.                                             *)
(***************************************************************************)
\* A request that composes, or shows what it would compose, begins.
ComposeBegun(r) ==
  /\ req'[r].op \in {"compose", "preview"}
  /\ req'[r].phase = "validate"
  /\ req'[r].next = 1
  /\ req'[r].floor = Floor(Components(req'[r]))
  /\ \E m \in DOMAIN colls[req'[r].track] : req'[r].doc = colls[req'[r].track][m]
  /\ req'[r].doc.type = "virtual"

LEMMA ComposeCalm ==
  ASSUME TypeOK, NEW r \in Requests, BeginCompose(r)
  PROVE  Calm(r) /\ ComposeBegun(r)
  <1>1. PICK op \in {"compose", "preview"} :
          /\ Begins(r, op)
          /\ \E t \in Tracks : \E m \in Latest(t) :
               LET s == colls[t][m] IN
                 /\ s.type = "virtual"
                 /\ Goes(r, [Request("validate", op, t, s) EXCEPT
                               !.floor = Floor(s.composition.components)])
          /\ UNCHANGED <<colls, registry, unmade>>
    BY DEF BeginCompose
  <1>2. PICK t \in Tracks : \E m \in Latest(t) :
               LET s == colls[t][m] IN
                 /\ s.type = "virtual"
                 /\ Goes(r, [Request("validate", op, t, s) EXCEPT
                               !.floor = Floor(s.composition.components)])
    BY <1>1
  <1>3. PICK m \in Latest(t) :
               LET s == colls[t][m] IN
                 /\ s.type = "virtual"
                 /\ Goes(r, [Request("validate", op, t, s) EXCEPT
                               !.floor = Floor(s.composition.components)])
    BY <1>2
  <1> DEFINE s == colls[t][m]
             q == Request("validate", op, t, s)
             n == [q EXCEPT !.floor = Floor(s.composition.components)]
  <1>4. m \in DOMAIN colls[t] /\ IsSnapshot(s)
    BY SnapshotKnown DEF Latest
  <1>5. /\ Known(q) /\ q.phase = "validate" /\ q.op = op /\ q.track = t /\ q.doc = s /\ q.next = 1
    BY <1>4, RequestKnown DEF Request
  <1>6. /\ Known(n) /\ n.phase = "validate" /\ n.op = op /\ n.track = t /\ n.doc = s /\ n.next = 1
        /\ n.floor = Floor(Components(n))
    <2> HIDE DEF q, s
    <2>1. n.doc = s /\ n.floor = Floor(s.composition.components)
      BY <1>5, Fields DEF Known
    <2> QED
      BY <1>5, <2>1, Fields DEF Known, Components
  <1>7. Goes(r, n) /\ s.type = "virtual"
    BY <1>3
  <1>8. req[r].phase = "idle"
    BY <1>1 DEF Begins
  <1> HIDE DEF n
  <1>9. Alters(r) /\ req'[r] = n
    BY <1>6, <1>7, Going
  <1> QED
    BY <1>1, <1>4, <1>6, <1>7, <1>8, <1>9 DEF Calm, Starts, ComposeBegun

LEMMA RecomposeCalm ==
  ASSUME TypeOK, CatalogAssumption, NEW r \in Requests, BeginRecompose(r)
  PROVE  /\ Calm(r) /\ req'[r].op = "recompose" /\ req'[r].track \in Tracks
         /\ req'[r].phase = "validate"
         /\ \E m \in DOMAIN colls[req'[r].track] : Alike(req'[r].doc, colls[req'[r].track][m])
  <1>1. PICK t \in Tracks, c \in Compositions :
          \E m \in Latest(t) :
            Goes(r, Request("validate", "recompose", t, [colls[t][m] EXCEPT !.composition = c]))
    BY DEF BeginRecompose
  <1>2. PICK m \in Latest(t) :
            Goes(r, Request("validate", "recompose", t, [colls[t][m] EXCEPT !.composition = c]))
    BY <1>1
  <1> DEFINE s == colls[t][m]
             d == [s EXCEPT !.composition = c]
  <1>3. m \in DOMAIN colls[t] /\ IsSnapshot(s)
    BY SnapshotKnown DEF Latest
  <1>4. IsSnapshot(d) /\ d.type = s.type /\ Alike(d, s)
    <2>1. IsSnapshot(Snapshot("virtual", <<>>, c))
      BY DEF CatalogAssumption
    <2>2. Snapshot("virtual", <<>>, c).composition = c
      BY DEF Snapshot
    <2> HIDE DEF s
    <2>3. DOMAIN d = DOMAIN s /\ d.composition = c /\ Alike(d, s)
      BY <1>3, Fields DEF IsSnapshot, Alike
    <2> HIDE DEF d
    <2> QED
      BY <1>3, <2>1, <2>2, <2>3 DEF IsSnapshot, Alike
  <1> DEFINE n == Request("validate", "recompose", t, d)
  <1>5. Known(n) /\ n.phase = "validate" /\ n.op = "recompose" /\ n.track = t /\ n.doc = d
    <2> HIDE DEF d
    <2> QED
      BY <1>4, RequestKnown
  <1>6. Goes(r, n)
    BY <1>2
  <1>7. req[r].phase = "idle" /\ UNCHANGED <<colls, registry, unmade>>
    BY DEF BeginRecompose, Begins
  <1> HIDE DEF n, d
  <1>8. Alters(r) /\ req'[r] = n
    BY <1>5, <1>6, Going
  <1> QED
    BY <1>3, <1>4, <1>5, <1>7, <1>8 DEF Calm, Starts

LEMMA ValidateCalm ==
  ASSUME TypeOK, NEW r \in Requests, Validate(r)
  PROVE  Calm(r)
  <1> DEFINE q == req[r]
             type == registry[Components(q)[q.next].track]
             more == [q EXCEPT !.next = @ + 1]
             clone == [q EXCEPT !.phase = "clone"]
             resolve == [q EXCEPT !.phase = "resolve", !.found = [i \in DOMAIN Components(q) |-> None]]
  <1>1. Known(q) /\ q.phase = "validate" /\ UNCHANGED <<colls, registry, unmade>>
    BY DEF TypeOK, Validate
  <1>2. Ends(r) \/ Goes(r, more) \/ Goes(r, clone) \/ Goes(r, resolve)
    BY DEF Validate
  <1>3. \A n \in {more, clone, resolve} :
          /\ Known(n) /\ n.phase \in Reading /\ n.track = q.track /\ n.doc = q.doc /\ n.op = q.op
    <2> HIDE DEF q
    <2> QED
      BY <1>1, Fields DEF Known, Reading
  <1>4. CASE Ends(r)
    BY <1>1, <1>4, Ending DEF Calm, Stops, q
  <1>5. CASE \E n \in {more, clone, resolve} : Goes(r, n)
    <2> HIDE DEF more, clone, resolve
    <2>1. PICK n \in {more, clone, resolve} : Goes(r, n)
      BY <1>5
    <2>2. Alters(r) /\ req'[r] = n
      BY <1>3, <2>1, Going
    <2> QED
      BY <1>1, <1>3, <2>2 DEF Calm, Onward, Reading
  <1> QED
    BY <1>2, <1>4, <1>5

LEMMA ResolveCalm ==
  ASSUME TypeOK, NEW r \in Requests, Resolve(r)
  PROVE  Calm(r)
  <1> DEFINE q == req[r]
             Found(i, s) == [q EXCEPT !.found[i] = s]
  <1>1. Known(q) /\ q.phase = "resolve" /\ UNCHANGED <<colls, registry, unmade>>
    BY DEF TypeOK, Resolve
  <1>2. Ends(r) \/ \E i \in Unresolved(q) : \E s \in Resolved(Components(q)[i]) : Goes(r, Found(i, s))
    BY DEF Resolve
  <1>3. \A i, s : /\ Known(Found(i, s)) /\ Found(i, s).phase = "resolve"
                  /\ Found(i, s).track = q.track /\ Found(i, s).doc = q.doc /\ Found(i, s).op = q.op
    <2> HIDE DEF q
    <2> QED
      BY <1>1, Fields DEF Known
  <1>4. CASE Ends(r)
    BY <1>1, <1>4, Ending DEF Calm, Stops, q
  <1>5. CASE \E i, s : Goes(r, Found(i, s))
    <2>1. PICK i, s : Goes(r, Found(i, s))
      BY <1>5
    <2> HIDE DEF Found
    <2>2. Alters(r) /\ req'[r] = Found(i, s)
      BY <1>3, <2>1, Going
    <2> QED
      BY <1>1, <1>3, <2>2 DEF Calm, Onward
  <1> QED
    BY <1>2, <1>4, <1>5

\* What a composition leaves of the document it started from.
LEMMA ComposedKeeps ==
  ASSUME NEW q, Known(q)
  PROVE  /\ IsSnapshot(Composed(q)) /\ Composed(q).type = q.doc.type
         /\ Composed(q).composition = q.doc.composition
         /\ DOMAIN Composed(q).resolution.parts = DOMAIN Components(q)
         /\ \A i \in DOMAIN Components(q) : LET p == Composed(q).resolution.parts[i] IN
              /\ p.track = Components(q)[i].track
              /\ p.snapshot = q.found[i].modified
              /\ p.version = q.found[i].version
  <1> DEFINE entries == AllAnnotated(Components(q), q.found)
             result == Deduplicate(entries, Strategy(q.doc.composition))
             parts == [i \in DOMAIN Components(q) |->
                         Part(Components(q)[i], q.found[i], entries, result.members)]
             resolution == [parts |-> parts, strategy |-> Strategy(q.doc.composition)]
             d == [q.doc EXCEPT !.members = result.members, !.quarantine = result.quarantine,
                                !.edited = FALSE, !.resolution = resolution]
  <1>1. Composed(q) = d
    BY DEF Composed
  <1>2. /\ DOMAIN d = DOMAIN q.doc /\ d.type = q.doc.type /\ d.composition = q.doc.composition
        /\ d.resolution = resolution
    <2> HIDE DEF result, resolution
    <2> QED
      BY Fields DEF Known, IsSnapshot
  <1>3. resolution.parts = parts
    OBVIOUS
  <1>4. DOMAIN parts = DOMAIN Components(q)
    OBVIOUS
  <1>5. \A i \in DOMAIN Components(q) :
          /\ parts[i].track = Components(q)[i].track
          /\ parts[i].snapshot = q.found[i].modified
          /\ parts[i].version = q.found[i].version
    <2> HIDE DEF entries, result
    <2> QED
      BY DEF Part
  <1> HIDE DEF d, resolution, parts
  <1> QED
    BY <1>1, <1>2, <1>3, <1>4, <1>5 DEF Known, IsSnapshot

LEMMA ComposeStep ==
  ASSUME TypeOK, NEW r \in Requests, Compose(r)
  PROVE  /\ Calm(r)
         /\ req[r].phase = "resolve" /\ Unresolved(req[r]) = {} /\ req[r].op = "compose"
         /\ req'[r].phase = "clone" /\ req'[r].op = "compose"
         /\ req'[r].doc = Composed(req[r])
         /\ req'[r].found = req[r].found /\ req'[r].floor = req[r].floor
  <1> DEFINE q == req[r]
             n == [q EXCEPT !.phase = "clone", !.doc = Composed(q)]
  <1>1. /\ Known(q) /\ q.phase = "resolve" /\ UNCHANGED <<colls, registry, unmade>>
        /\ Unresolved(q) = {} /\ q.op = "compose" /\ Goes(r, n)
    BY DEF TypeOK, Compose
  <1>2. /\ Known(n) /\ n.phase = "clone" /\ n.track = q.track /\ n.doc = Composed(q) /\ n.op = q.op
        /\ n.found = q.found /\ n.floor = q.floor
    <2> HIDE DEF q
    <2> QED
      BY <1>1, ComposedKeeps, Fields DEF Known
  <1> HIDE DEF n
  <1>3. Alters(r) /\ req'[r] = n
    BY <1>1, <1>2, Going
  <1> QED
    BY <1>1, <1>2, <1>3, ComposedKeeps DEF Calm, Onward

-----------------------------------------------------------------------------
(***************************************************************************)
(* The steps that change a collection or the registry.                     *)
(***************************************************************************)
\* Snapshot s is saved in track t.
Adds(t, s) ==
  /\ DOMAIN colls' = Tracks
  /\ \A u \in Tracks \ {t} : colls'[u] = colls[u]
  /\ DOMAIN colls'[t] = DOMAIN colls[t] \cup {s.modified}
  /\ \A m \in DOMAIN colls[t] \ {s.modified} : colls'[t][m] = colls[t][m]
  /\ colls'[t][s.modified] = s

LEMMA Storing ==
  ASSUME TypeOK, NEW t \in Tracks, NEW s, colls' = Stored(t, s)
  PROVE  Adds(t, s)
  <1> DEFINE f == [m \in DOMAIN colls[t] \cup {s.modified} |->
                     IF m = s.modified THEN s ELSE colls[t][m]]
  <1>1. colls' = [colls EXCEPT ![t] = f]
    BY DEF Stored
  <1>2. DOMAIN f = DOMAIN colls[t] \cup {s.modified}
    OBVIOUS
  <1>3. \A m \in DOMAIN colls[t] \ {s.modified} : f[m] = colls[t][m]
    OBVIOUS
  <1>4. f[s.modified] = s
    OBVIOUS
  <1> HIDE DEF f
  <1> QED
    BY <1>1, <1>2, <1>3, <1>4 DEF TypeOK, Adds

\* The requests keep everything but what they know of the releases.
Steady ==
  /\ DOMAIN req' = Requests
  /\ \A r \in Requests :
       /\ Known(req'[r])
       /\ req'[r].phase = req[r].phase /\ req'[r].op = req[r].op /\ req'[r].track = req[r].track
       /\ req'[r].doc = req[r].doc /\ req'[r].found = req[r].found /\ req'[r].next = req[r].next

LEMMA UnchangedSteady ==
  ASSUME TypeOK, UNCHANGED req
  PROVE  Steady
  BY DEF TypeOK, Steady

Comparing(q) == q.op \in {"compose", "preview"}

Without(q, t, gone) ==
  [i \in DOMAIN q.floor |->
     IF Components(q)[i].track = t THEN q.floor[i] \ gone ELSE q.floor[i]]

LEMMA Forgetting ==
  ASSUME TypeOK, NEW t, NEW gone, NEW r \in Requests
  PROVE  LET q == req[r]  n == Forgets(t, gone)[r] IN
         /\ DOMAIN Forgets(t, gone) = Requests
         /\ Known(n)
         /\ n.phase = q.phase /\ n.op = q.op /\ n.track = q.track
         /\ n.doc = q.doc /\ n.found = q.found /\ n.next = q.next
         /\ ~Comparing(q) => n = q
         /\ Comparing(q) => n.floor = Without(q, t, gone)
  <1> DEFINE q == req[r]
             floor == Without(q, t, gone)
             n == IF q.op \notin {"compose", "preview"} THEN q ELSE [q EXCEPT !.floor = floor]
  <1>1. DOMAIN Forgets(t, gone) = Requests /\ Forgets(t, gone)[r] = n
    BY DEF Forgets, Without
  <1>2. Known(q)
    BY DEF TypeOK
  <1>3. /\ Known(n)
        /\ n.phase = q.phase /\ n.op = q.op /\ n.track = q.track
        /\ n.doc = q.doc /\ n.found = q.found /\ n.next = q.next
        /\ ~Comparing(q) => n = q
        /\ Comparing(q) => n.floor = floor
    <2> HIDE DEF q, floor
    <2> QED
      BY <1>2, Fields DEF Known, Comparing
  <1> HIDE DEF n
  <1> QED
    BY <1>1, <1>3

LEMMA EditEffect ==
  ASSUME TypeOK, NEW t \in Tracks, Edit(t)
  PROVE  /\ UNCHANGED <<registry, unmade, req, released>>
         /\ \E m \in DOMAIN colls[t] : \E s :
              /\ Adds(t, s) /\ s.modified \notin DOMAIN colls[t]
              /\ IsSnapshot(s) /\ s.version = 0
              /\ s.type = colls[t][m].type /\ s.resolution = colls[t][m].resolution
              /\ s.edited /\ s.members \in Lists /\ s.modified \in Now
  <1>1. PICK m \in DOMAIN colls[t], now \in Now, members \in Lists :
          /\ Free(t, now)
          /\ colls' = Stored(t, At([colls[t][m] EXCEPT !.members = members, !.edited = TRUE], now))
    BY DEF Edit
  <1> DEFINE d == [colls[t][m] EXCEPT !.members = members, !.edited = TRUE]
             s == At(d, now)
  <1>2. IsSnapshot(colls[t][m])
    BY SnapshotKnown
  <1>3. /\ IsSnapshot(d) /\ d.type = colls[t][m].type /\ d.resolution = colls[t][m].resolution
        /\ d.members = members /\ d.edited
    BY <1>2, Replaced
  <1>4. /\ IsSnapshot(s) /\ s.modified = now /\ s.version = 0 /\ s.type = colls[t][m].type
        /\ s.resolution = colls[t][m].resolution /\ s.members = members /\ s.edited
    <2> HIDE DEF d
    <2> QED
      BY <1>3, Redated DEF Alike
  <1>5. colls' = Stored(t, s) /\ now \notin DOMAIN colls[t]
    BY <1>1 DEF Free
  <1> HIDE DEF s
  <1>6. Adds(t, s)
    BY <1>5, Storing
  <1> QED
    BY <1>4, <1>5, <1>6 DEF Edit

LEMMA TagEffect ==
  ASSUME TypeOK, NEW t \in Tracks, Tag(t)
  PROVE  /\ UNCHANGED <<registry, unmade, req>>
         /\ \E m \in DOMAIN colls[t] : \E s :
              /\ DOMAIN colls' = Tracks
              /\ \A u \in Tracks \ {t} : colls'[u] = colls[u]
              /\ DOMAIN colls'[t] = DOMAIN colls[t]
              /\ \A n \in DOMAIN colls[t] \ {m} : colls'[t][n] = colls[t][n]
              /\ colls'[t][m] = s
              /\ ~IsTagged(colls[t][m])
              /\ IsSnapshot(s) /\ s.modified = m
              /\ s.type = colls[t][m].type /\ s.resolution = colls[t][m].resolution
              /\ Alike(s, colls[t][m])
              /\ released' = released \cup {Release(t, s)}
  <1>1. PICK m \in DOMAIN colls[t] :
          LET v == colls[t][m].past + 1
              s == [colls[t][m] EXCEPT !.version = v, !.past = v] IN
          /\ ~IsTagged(colls[t][m])
          /\ colls' = [colls EXCEPT ![t][m] = s]
          /\ released' = released \cup {Release(t, s)}
    BY DEF Tag
  <1> DEFINE o == colls[t][m]
             v == o.past + 1
             s == [o EXCEPT !.version = v, !.past = v]
  <1>2. IsSnapshot(o) /\ o.modified = m
    BY SnapshotKnown
  <1>3. /\ IsSnapshot(s) /\ s.modified = m /\ s.type = o.type /\ s.resolution = o.resolution
        /\ Alike(s, o)
    <2> HIDE DEF o, v
    <2> QED
      BY <1>2, Fields DEF IsSnapshot, Alike
  <1>4. /\ ~IsTagged(o) /\ colls' = [colls EXCEPT ![t][m] = s]
        /\ released' = released \cup {Release(t, s)}
    BY <1>1
  <1> HIDE DEF s
  <1> QED
    BY <1>3, <1>4 DEF TypeOK, Tag

LEMMA WithdrawEffect ==
  ASSUME TypeOK, NEW t \in Tracks, Withdraw(t)
  PROVE  /\ UNCHANGED <<registry, released>> /\ Steady
         /\ \E m \in DOMAIN colls[t] :
              /\ DOMAIN colls' = Tracks
              /\ \A u \in Tracks \ {t} : colls'[u] = colls[u]
              /\ DOMAIN colls'[t] = DOMAIN colls[t] \ {m}
              /\ \A n \in DOMAIN colls'[t] : colls'[t][n] = colls[t][n]
              /\ unmade' = IF DOMAIN colls[t] = {m} THEN unmade \cup {t} ELSE unmade
              /\ req' = Forgets(t, {m})
  <1>1. PICK m \in DOMAIN colls[t] :
          /\ colls' = [colls EXCEPT ![t] = [n \in DOMAIN colls[t] \ {m} |-> colls[t][n]]]
          /\ unmade' = IF DOMAIN colls[t] = {m} THEN unmade \cup {t} ELSE unmade
          /\ req' = Forgets(t, {m})
    BY DEF Withdraw
  <1>2. Steady
    <2> DEFINE forgot == Forgets(t, {m})
    <2>1. req' = forgot
      BY <1>1
    <2>2. ASSUME NEW r \in Requests
          PROVE  /\ DOMAIN forgot = Requests /\ Known(forgot[r])
                 /\ forgot[r].phase = req[r].phase /\ forgot[r].op = req[r].op
                 /\ forgot[r].track = req[r].track /\ forgot[r].doc = req[r].doc
                 /\ forgot[r].found = req[r].found /\ forgot[r].next = req[r].next
      BY Forgetting
    <2>3. DOMAIN forgot = Requests
      BY DEF Forgets
    <2> HIDE DEF forgot
    <2> QED
      BY <2>1, <2>2, <2>3 DEF Steady
  <1> DEFINE f == [n \in DOMAIN colls[t] \ {m} |-> colls[t][n]]
  <1>3. DOMAIN f = DOMAIN colls[t] \ {m} /\ \A n \in DOMAIN f : f[n] = colls[t][n]
    OBVIOUS
  <1>4. colls' = [colls EXCEPT ![t] = f]
    BY <1>1
  <1>6. req' = Forgets(t, {m}) /\ unmade' = IF DOMAIN colls[t] = {m} THEN unmade \cup {t} ELSE unmade
    BY <1>1
  <1> HIDE DEF f
  <1>5. /\ DOMAIN colls' = Tracks /\ \A u \in Tracks \ {t} : colls'[u] = colls[u]
        /\ colls'[t] = f
    BY <1>4 DEF TypeOK
  <1> QED
    BY <1>2, <1>3, <1>5, <1>6 DEF Withdraw

LEMMA WriteEffect ==
  ASSUME TypeOK, NEW o \in Objects, Write(o)
  PROVE  /\ UNCHANGED <<colls, registry, unmade, released>> /\ Steady
         /\ \A r \in Requests : req[r].phase # "hydrate" => req'[r] = req[r]
         /\ \A r \in Requests : req[r].phase = "hydrate" =>
              req'[r].floor = req[r].floor \ {o} /\ req'[r].queue = req[r].queue
  <1> DEFINE Less(q) == [q EXCEPT !.floor = @ \ {o}]
  <1>1. req' = [r \in Requests |-> IF req[r].phase = "hydrate" THEN Less(req[r]) ELSE req[r]]
    BY DEF Write
  <1>2. ASSUME NEW q, Known(q)
        PROVE  LET n == Less(q) IN
               /\ Known(n)
               /\ n.phase = q.phase /\ n.op = q.op /\ n.track = q.track
               /\ n.doc = q.doc /\ n.found = q.found /\ n.next = q.next
               /\ n.floor = q.floor \ {o} /\ n.queue = q.queue
    BY <1>2, Fields DEF Known
  <1> HIDE DEF Less
  <1>3. Steady
    <2>1. DOMAIN req' = Requests
      BY <1>1
    <2>2. \A r \in Requests : Known(req[r]) /\ (req'[r] = req[r] \/ req'[r] = Less(req[r]))
      BY <1>1 DEF TypeOK
    <2> QED
      BY <1>2, <2>1, <2>2 DEF Steady
  <1>4. \A r \in Requests : req[r].phase = "hydrate" =>
          req'[r].floor = req[r].floor \ {o} /\ req'[r].queue = req[r].queue
    BY <1>1, <1>2 DEF TypeOK
  <1> QED
    BY <1>1, <1>3, <1>4 DEF Write

LEMMA SaveEffect ==
  ASSUME TypeOK, NEW r \in Requests, SaveTrack(r)
  PROVE  /\ UNCHANGED <<registry, unmade, released>> /\ Alters(r)
         /\ req[r].phase = "save" /\ req'[r].phase = "register" /\ req'[r].track = req[r].track
         /\ req'[r].op = req[r].op
         /\ req'[r].doc.type = req[r].doc.type /\ req'[r].doc.resolution = req[r].doc.resolution
         /\ IsSnapshot(req'[r].doc) /\ req'[r].doc.version = 0
         /\ Alike(req'[r].doc, req[r].doc) /\ req'[r].found = req[r].found
         /\ req'[r].doc.modified \in Now
         /\ Adds(req[r].track, req'[r].doc)
  <1> DEFINE q == req[r]
  <1>1. PICK now \in Now : /\ colls' = Stored(q.track, At(q.doc, now))
                           /\ Goes(r, [q EXCEPT !.phase = "register", !.doc = At(q.doc, now)])
    BY DEF SaveTrack
  <1> DEFINE d == At(q.doc, now)
             n == [q EXCEPT !.phase = "register", !.doc = d]
  <1>2. Known(q) /\ q.phase = "save" /\ q.track \in Tracks
    BY DEF SaveTrack, TypeOK, Known
  <1>3. /\ IsSnapshot(d) /\ d.version = 0 /\ d.type = q.doc.type /\ d.resolution = q.doc.resolution
        /\ Alike(d, q.doc) /\ d.modified = now
    BY <1>2, Redated DEF Known
  <1>4. Goes(r, n) /\ colls' = Stored(q.track, d)
    BY <1>1
  <1>5. /\ Known(n) /\ n.phase = "register" /\ n.track = q.track /\ n.op = q.op /\ n.doc = d
        /\ n.found = q.found
    <2> HIDE DEF q, d
    <2> QED
      BY <1>2, <1>3, Fields DEF Known
  <1> HIDE DEF n, d
  <1>6. Alters(r) /\ req'[r] = n
    BY <1>4, <1>5, Going
  <1>7. Adds(q.track, d)
    BY <1>2, <1>4, Storing
  <1> QED
    BY <1>2, <1>3, <1>5, <1>6, <1>7 DEF SaveTrack

LEMMA RegisterEffect ==
  ASSUME TypeOK, NEW r \in Requests, RegisterTrack(r)
  PROVE  /\ UNCHANGED <<colls, unmade, released>> /\ Alters(r)
         /\ req[r].phase = "register"
         /\ registry' = [registry EXCEPT ![req[r].track] = req[r].doc.type]
         /\ \/ req'[r] = Idle
            \/ /\ req'[r].phase = "fill" /\ req'[r].track = req[r].track
               /\ req'[r].op = req[r].op /\ req'[r].doc = req[r].doc
               /\ req'[r].found = req[r].found /\ req[r].found # <<>>
  <1> DEFINE q == req[r]
             n == [q EXCEPT !.phase = "fill"]
  <1>1. Known(q) /\ q.phase = "register" /\ (Ends(r) \/ (Goes(r, n) /\ q.found # <<>>))
    BY DEF RegisterTrack, TypeOK
  <1>2. /\ Known(n) /\ n.phase = "fill" /\ n.track = q.track /\ n.op = q.op /\ n.doc = q.doc
        /\ n.found = q.found
    <2> HIDE DEF q
    <2> QED
      BY <1>1, Advance
  <1>3. CASE Ends(r)
    BY <1>1, <1>3, Ending DEF RegisterTrack
  <1>4. CASE Goes(r, n) /\ q.found # <<>>
    <2> HIDE DEF n
    <2>1. Alters(r) /\ req'[r] = n
      BY <1>2, <1>4, Going
    <2> QED
      BY <1>2, <1>4, <2>1 DEF RegisterTrack
  <1> QED
    BY <1>1, <1>3, <1>4

\* Whichever request saves last, Fill and Clone end alike.
Saves(r) ==
  \/ UNCHANGED colls
  \/ \E s :
       /\ Adds(req[r].track, s) /\ s.modified \notin DOMAIN colls[req[r].track]
       /\ IsSnapshot(s) /\ s.version = 0
       /\ s.type = req[r].doc.type /\ s.resolution = req[r].doc.resolution
       /\ s.quarantine = req[r].doc.quarantine /\ s.edited = req[r].doc.edited
       /\ s.members = IF req[r].phase = "fill" THEN req[r].found ELSE req[r].doc.members
       /\ s.modified \in Now

LEMMA FillEffect ==
  ASSUME TypeOK, NEW r \in Requests, Fill(r)
  PROVE  /\ UNCHANGED <<registry, unmade, released>> /\ Alters(r)
         /\ req[r].phase = "fill" /\ req'[r] = Idle /\ Saves(r)
  <1> DEFINE q == req[r]
             f == [q.doc EXCEPT !.members = q.found]
  <1>1. PICK now \in Now : colls' = IF Free(q.track, now) THEN Stored(q.track, At(f, now)) ELSE colls
    BY DEF Fill
  <1>2. Known(q) /\ q.phase = "fill" /\ q.track \in Tracks
    BY DEF Fill, TypeOK, Known
  <1>3. /\ IsSnapshot(f) /\ f.type = q.doc.type /\ f.resolution = q.doc.resolution
        /\ f.members = q.found /\ f.quarantine = q.doc.quarantine /\ f.edited = q.doc.edited
    <2> HIDE DEF q
    <2> QED
      BY <1>2, Remade DEF Known
  <1> DEFINE d == At(f, now)
  <1>4. /\ IsSnapshot(d) /\ d.modified = now /\ d.version = 0
        /\ d.type = q.doc.type /\ d.resolution = q.doc.resolution
        /\ d.members = q.found /\ d.quarantine = q.doc.quarantine /\ d.edited = q.doc.edited
    <2> HIDE DEF q, f
    <2> QED
      BY <1>3, Redated DEF Alike
  <1>5. UNCHANGED colls \/ (colls' = Stored(q.track, d) /\ now \notin DOMAIN colls[q.track])
    BY <1>1 DEF Free
  <1> HIDE DEF f, d
  <1>6. Saves(r)
    BY <1>2, <1>4, <1>5, Storing DEF Saves
  <1> QED
    BY <1>2, <1>6, Ending DEF Fill

LEMMA CloneEffect ==
  ASSUME TypeOK, NEW r \in Requests, Clone(r)
  PROVE  /\ UNCHANGED <<registry, unmade, released>> /\ Alters(r)
         /\ req[r].phase = "clone" /\ req'[r] = Idle /\ Saves(r)
  <1> DEFINE q == req[r]
  <1>1. PICK now \in Now : colls' = IF Free(q.track, now) THEN Stored(q.track, At(q.doc, now)) ELSE colls
    BY DEF Clone
  <1>2. Known(q) /\ q.phase = "clone" /\ q.track \in Tracks
    BY DEF Clone, TypeOK, Known
  <1> DEFINE d == At(q.doc, now)
  <1>4. /\ IsSnapshot(d) /\ d.modified = now /\ d.version = 0
        /\ d.type = q.doc.type /\ d.resolution = q.doc.resolution
        /\ d.members = q.doc.members /\ d.quarantine = q.doc.quarantine
        /\ d.edited = q.doc.edited
    <2> HIDE DEF q
    <2> QED
      BY <1>2, Redated DEF Known, Alike
  <1>5. UNCHANGED colls \/ (colls' = Stored(q.track, d) /\ now \notin DOMAIN colls[q.track])
    BY <1>1 DEF Free
  <1> HIDE DEF d
  <1>6. Saves(r)
    BY <1>2, <1>4, <1>5, Storing DEF Saves
  <1> QED
    BY <1>2, <1>6, Ending DEF Clone

LEMMA DropEffect ==
  ASSUME TypeOK, NEW r \in Requests, Drop(r)
  PROVE  LET t == req[r].track IN
         /\ UNCHANGED <<registry, released>>
         /\ req[r].phase = "drop" /\ t \in Tracks
         /\ DOMAIN colls' = Tracks /\ DOMAIN colls'[t] = {}
         /\ \A u \in Tracks \ {t} : colls'[u] = colls[u]
         /\ unmade' = unmade \cup {t}
         /\ DOMAIN req' = Requests
         /\ \A s \in Requests \ {r} : req'[s] = Forgets(t, DOMAIN colls[t])[s]
         /\ Known(req'[r]) /\ req'[r].phase = "deregister" /\ req'[r].track = t
         /\ req'[r].op = req[r].op /\ req'[r].doc = req[r].doc
  <1> DEFINE t == req[r].track
             forgot == Forgets(t, DOMAIN colls[t])
             n == [forgot[r] EXCEPT !.phase = "deregister"]
  <1>1. req[r].phase = "drop" /\ t \in Tracks
    BY DEF Drop, TypeOK, Known
  <1>2. /\ DOMAIN forgot = Requests /\ Known(forgot[r]) /\ forgot[r].track = t
        /\ forgot[r].phase = "drop" /\ forgot[r].op = req[r].op /\ forgot[r].doc = req[r].doc
    BY <1>1, Forgetting
  <1>3. Known(n) /\ n.phase = "deregister" /\ n.track = t /\ n.op = req[r].op /\ n.doc = req[r].doc
    <2> HIDE DEF forgot, t
    <2> QED
      BY <1>2, Advance
  <1>4. req' = [forgot EXCEPT ![r].phase = "deregister"]
    BY DEF Drop
  <1>5. DOMAIN req' = Requests /\ req'[r] = n /\ \A s \in Requests \ {r} : req'[s] = forgot[s]
    <2> HIDE DEF forgot
    <2> QED
      BY <1>2, <1>4
  <1>6. DOMAIN colls' = Tracks /\ colls'[t] = <<>> /\ \A u \in Tracks \ {t} : colls'[u] = colls[u]
    BY <1>1 DEF Drop, TypeOK
  <1>7. UNCHANGED <<registry, released>> /\ unmade' = unmade \cup {t}
    BY DEF Drop
  <1>8. DOMAIN colls'[t] = {}
    BY <1>6
  <1> HIDE DEF n
  <1> QED
    BY <1>1, <1>3, <1>5, <1>6, <1>7, <1>8

LEMMA DeregisterEffect ==
  ASSUME TypeOK, NEW r \in Requests, Deregister(r)
  PROVE  /\ UNCHANGED <<colls, unmade, released>> /\ Alters(r)
         /\ req[r].phase = "deregister" /\ req'[r] = Idle
         /\ registry' = [registry EXCEPT ![req[r].track] = None]
  BY Ending DEF Deregister

LEMMA FailEffect ==
  ASSUME TypeOK, NEW r \in Requests, Fail(r)
  PROVE  /\ UNCHANGED <<colls, registry, released>> /\ Alters(r)
         /\ req[r].phase # "idle" /\ req'[r] = Idle
         /\ unmade' = IF req[r].phase = "register" THEN unmade \cup {req[r].track} ELSE unmade
  BY Ending DEF Fail

LEMMA CalmSteps ==
  ASSUME TypeOK, CatalogAssumption, NEW r \in Requests,
         \/ BeginCreate(r) \/ BeginClone(r) \/ SaveTrackFails(r)
         \/ BeginImport(r) \/ ImportObject(r) \/ Imported(r) \/ BeginDelete(r)
         \/ BeginCompose(r) \/ BeginRecompose(r) \/ Validate(r) \/ Resolve(r) \/ Preview(r)
         \/ Compose(r) \/ BeginExport(r) \/ Hydrate(r) \/ HydrateFails(r)
         \/ Answer(r)
  PROVE  Calm(r)
  BY EndCalm, CreateCalm, CloneCalm, BeginImportCalm, ImportObjectCalm, ImportedCalm, DeleteCalm,
     ExportCalm, HydrateCalm, ComposeCalm, RecomposeCalm, ValidateCalm, ResolveCalm, ComposeStep

-----------------------------------------------------------------------------
(***************************************************************************)
(* The invariant, step by step.                                            *)
(***************************************************************************)
LEMMA CatalogInit ==
  ASSUME CatalogAssumption, Init
  PROVE  CatalogInv
  <1>1. /\ DOMAIN colls = Tracks
        /\ \A t \in Tracks :
             /\ IsFiniteSet(DOMAIN colls[t]) /\ DOMAIN colls[t] \subseteq Nat
             /\ \A m \in DOMAIN colls[t] : IsSnapshot(colls[t][m]) /\ colls[t][m].modified = m
    BY DEF Init, CatalogAssumption
  <1>2. ASSUME NEW t \in Tracks, DOMAIN colls[t] # {}
        PROVE  \E m \in DOMAIN colls[t] : registry[t] = colls[t][m].type
    <2>1. PICK m \in DOMAIN colls[t] : \A n \in DOMAIN colls[t] : m >= n
      BY <1>1, <1>2, GreatestExists
    <2>2. m \in Latest(t)
      <3>1. \A n \in DOMAIN colls[t] : n <= m
        BY <1>1, <2>1
      <3> QED
        BY <3>1 DEF Latest
    <2>3. (CHOOSE k \in Latest(t) : TRUE) \in DOMAIN colls[t]
      BY <2>2 DEF Latest
    <2>4. registry[t] = colls[t][CHOOSE k \in Latest(t) : TRUE].type
      BY <1>2 DEF Init
    <2> QED
      BY <2>3, <2>4
  <1>3. \A t \in Tracks : DOMAIN colls[t] = {} => registry[t] = None
    BY DEF Init
  <1>4. \A t \in Tracks : IF DOMAIN colls[t] = {} THEN registry[t] = None
                          ELSE registry[t] \in {"standard", "virtual"}
    BY <1>1, <1>2, <1>3 DEF IsSnapshot
  <1>5. DOMAIN registry = Tracks /\ DOMAIN req = Requests /\ \A r \in Requests : req[r] = Idle
    BY DEF Init
  <1>6. TypeOK
    BY <1>1, <1>4, <1>5, IdleKnown DEF TypeOK
  <1>7. Sole /\ Underway
    BY <1>5, IdleKnown DEF Sole, Underway, Reading
  <1>8. CatalogAgrees
    BY <1>4 DEF CatalogAgrees, CatalogAssumption
  <1> QED
    BY <1>6, <1>7, <1>8 DEF CatalogInv

LEMMA CalmKeeps ==
  ASSUME CatalogInv, CatalogAssumption, NEW r \in Requests, Calm(r)
  PROVE  CatalogInv'
  <1> USE DEF CatalogInv
  <1>1. TypeOK'
    BY DEF TypeOK, Calm, Alters
  <1>2. /\ UNCHANGED <<colls, registry, unmade>>
        /\ \A s \in Requests \ {r} : req'[s] = req[s]
        /\ Onward(r) \/ Starts(r) \/ Stops(r)
        /\ Known(req'[r])
    BY DEF Calm, Alters
  <1>3. Idle.phase = "idle"
    BY IdleKnown
  <1>4. \A t : Registering(t)' <=> Registering(t)
    BY <1>2, <1>3 DEF Registering, Onward, Starts, Stops
  <1>5. CatalogAgrees'
    BY <1>2, <1>4 DEF CatalogAgrees, Registering
  <1>6. Underway'
    <2> SUFFICES ASSUME NEW s \in Requests
                 PROVE  LET t == req'[s].track IN
                        /\ req'[s].phase = "register" => DOMAIN colls[t] # {} \/ t \in unmade
                        /\ req'[s].phase = "deregister" => t \in unmade
                        /\ req'[s].phase \in Reading \cup {"fill"} =>
                             registry[t] # None \/ t \in unmade \/ Registering(t)
      BY <1>2, <1>4 DEF Underway
    <2>1. CASE s # r
      BY <1>2, <2>1 DEF Underway
    <2>2. CASE s = r /\ Onward(r)
      BY <2>2 DEF Underway, Onward, Reading
    <2>3. CASE s = r /\ Starts(r)
      <3>1. CASE req'[r].phase \in {"save", "import", "hydrate", "drop"}
        BY <2>3, <3>1 DEF Reading
      <3>2. CASE req'[r].phase = "validate"
        <4>1. DOMAIN colls[req'[r].track] # {} /\ req'[r].track \in Tracks
          BY <1>2, <2>3, <3>2 DEF Starts, Known
        <4> QED
          BY <2>3, <3>2, <4>1 DEF CatalogAgrees, Registering, Reading
      <3> QED
        BY <2>3, <3>1, <3>2 DEF Starts
    <2>4. CASE s = r /\ Stops(r)
      BY <1>3, <2>4 DEF Stops, Reading
    <2> QED
      BY <1>2, <2>1, <2>2, <2>3, <2>4
  <1>7. Sole'
    <2> SUFFICES ASSUME NEW s \in Requests, req'[s].phase \in {"save", "import"}
                 PROVE  /\ registry[req'[s].track] = None
                        /\ DOMAIN colls[req'[s].track] = {}
                        /\ \A u \in Requests \ {s} :
                             ~(req'[u].phase # "idle" /\ req'[u].track = req'[s].track)
      BY <1>2 DEF Sole, Busy
    <2>1. CASE s = r
      <3>1. CASE Onward(r)
        <4>1. req[r].phase = "import" /\ req'[r].track = req[r].track
          BY <2>1, <3>1 DEF Onward
        <4> QED
          BY <1>2, <2>1, <4>1 DEF Sole, Busy
      <3>2. CASE Starts(r)
        BY <1>2, <2>1, <3>2 DEF Starts, InUse
      <3> QED
        BY <1>2, <1>3, <2>1, <3>1, <3>2 DEF Stops
    <2>2. CASE s # r
      <3>1. req'[s] = req[s]
        BY <1>2, <2>2
      <3>2. ~(req'[r].phase # "idle" /\ req'[r].track = req[s].track)
        <4>1. CASE Onward(r)
          BY <2>2, <3>1, <4>1 DEF Sole, Onward, Busy
        <4>2. CASE Starts(r)
          <5>1. DOMAIN colls[req[s].track] = {} /\ registry[req[s].track] = None
            BY <3>1 DEF Sole
          <5>2. InUse(req[s].track)
            BY <3>1 DEF InUse
          <5> QED
            BY <4>2, <5>1, <5>2 DEF Starts
        <4>3. CASE Stops(r)
          BY <1>3, <4>3 DEF Stops
        <4> QED
          BY <1>2, <4>1, <4>2, <4>3
      <3> QED
        BY <1>2, <2>2, <3>1, <3>2 DEF Sole, Busy
    <2> QED
      BY <2>1, <2>2
  <1> QED
    BY <1>1, <1>5, <1>6, <1>7

\* Steps that leave the requests where they are keep what requests count on.
LEMMA SteadyKeeps ==
  ASSUME CatalogInv, Steady, UNCHANGED registry,
         unmade \subseteq unmade',
         \A t \in Tracks : /\ DOMAIN colls[t] = {} => DOMAIN colls'[t] = {}
                           /\ DOMAIN colls'[t] = {} => DOMAIN colls[t] = {} \/ t \in unmade'
  PROVE  Sole' /\ Underway' /\ CatalogAgrees'
  <1> USE DEF CatalogInv
  <1>1. /\ DOMAIN req' = Requests
        /\ \A r \in Requests : req'[r].phase = req[r].phase /\ req'[r].track = req[r].track
        /\ \A r \in Requests : req[r].phase # "idle" => req[r].track \in Tracks
    BY DEF Steady, TypeOK, Known
  <1>2. Sole'
    BY <1>1 DEF Sole, Busy
  <1>3. \A t : Registering(t)' <=> Registering(t)
    BY <1>1 DEF Registering
  <1>4. Underway'
    <2> SUFFICES ASSUME NEW s \in Requests
                 PROVE  LET t == req[s].track IN
                        /\ req[s].phase = "register" => DOMAIN colls'[t] # {} \/ t \in unmade'
                        /\ req[s].phase = "deregister" => t \in unmade'
                        /\ req[s].phase \in Reading \cup {"fill"} =>
                             registry[t] # None \/ t \in unmade' \/ Registering(t)
      BY <1>1, <1>3 DEF Underway
    <2> QED
      BY <1>1 DEF Underway
  <1>5. CatalogAgrees'
    BY <1>1 DEF CatalogAgrees
  <1> QED
    BY <1>2, <1>4, <1>5

LEMMA EditKeeps ==
  ASSUME CatalogInv, NEW t \in Tracks, Edit(t) \/ Tag(t)
  PROVE  CatalogInv'
  <1>0. TypeOK
    BY DEF CatalogInv
  <1>1. /\ UNCHANGED <<registry, unmade, req>>
        /\ DOMAIN colls' = Tracks
        /\ \A u \in Tracks : /\ DOMAIN colls[u] \subseteq DOMAIN colls'[u]
                             /\ DOMAIN colls[u] = {} => DOMAIN colls'[u] = {}
        /\ \A u \in Tracks : \A m \in DOMAIN colls'[u] :
             IsSnapshot(colls'[u][m]) /\ colls'[u][m].modified = m
    <2>1. CASE Edit(t)
      <3>1. PICK s : Adds(t, s) /\ IsSnapshot(s)
        BY <1>0, <2>1, EditEffect
      <3> QED
        BY <1>0, <2>1, <3>1, EditEffect DEF Adds, TypeOK
    <2>2. CASE Tag(t)
      BY <1>0, <2>2, TagEffect DEF TypeOK
    <2> QED
      BY <2>1, <2>2
  <1>2. TypeOK'
    BY <1>0, <1>1 DEF TypeOK
  <1>3. \A u \in Tracks : DOMAIN colls'[u] = {} => DOMAIN colls[u] = {}
    BY <1>1
  <1> QED
    BY <1>0, <1>1, <1>2, <1>3, UnchangedSteady, SteadyKeeps DEF CatalogInv

LEMMA WithdrawKeeps ==
  ASSUME CatalogInv, NEW t \in Tracks, Withdraw(t)
  PROVE  CatalogInv'
  <1>0. TypeOK
    BY DEF CatalogInv
  <1>1. PICK m \in DOMAIN colls[t] :
          /\ DOMAIN colls' = Tracks
          /\ \A u \in Tracks \ {t} : colls'[u] = colls[u]
          /\ DOMAIN colls'[t] = DOMAIN colls[t] \ {m}
          /\ \A n \in DOMAIN colls'[t] : colls'[t][n] = colls[t][n]
          /\ unmade' = IF DOMAIN colls[t] = {m} THEN unmade \cup {t} ELSE unmade
    BY <1>0, WithdrawEffect
  <1>2. Steady /\ UNCHANGED registry
    BY <1>0, WithdrawEffect
  <1>3. TypeOK'
    BY <1>0, <1>1, <1>2 DEF TypeOK, Steady
  <1>4. \A u \in Tracks : /\ DOMAIN colls[u] = {} => DOMAIN colls'[u] = {}
                         /\ DOMAIN colls'[u] = {} => DOMAIN colls[u] = {} \/ u \in unmade'
    BY <1>1
  <1> QED
    BY <1>1, <1>2, <1>3, <1>4, SteadyKeeps DEF CatalogInv

LEMMA WriteKeeps ==
  ASSUME CatalogInv, NEW o \in Objects, Write(o)
  PROVE  CatalogInv'
  <1>0. TypeOK
    BY DEF CatalogInv
  <1>1. Steady /\ UNCHANGED <<colls, registry, unmade>>
    BY <1>0, WriteEffect
  <1>2. TypeOK'
    BY <1>0, <1>1 DEF TypeOK, Steady
  <1> QED
    BY <1>1, <1>2, SteadyKeeps DEF CatalogInv

LEMMA SaveKeeps ==
  ASSUME CatalogInv, NEW r \in Requests, SaveTrack(r)
  PROVE  CatalogInv'
  <1> DEFINE t == req[r].track
  <1>0. TypeOK /\ Sole /\ Underway /\ CatalogAgrees
    BY DEF CatalogInv
  <1>1. /\ UNCHANGED <<registry, unmade>> /\ Alters(r)
        /\ req[r].phase = "save" /\ req'[r].phase = "register" /\ req'[r].track = t
        /\ IsSnapshot(req'[r].doc) /\ Adds(t, req'[r].doc) /\ t \in Tracks
    BY <1>0, SaveEffect DEF TypeOK, Known
  <1>2. /\ DOMAIN req' = Requests /\ Known(req'[r])
        /\ \A s \in Requests \ {r} : req'[s] = req[s] /\ ~(req[s].phase # "idle" /\ req[s].track = t)
    BY <1>0, <1>1 DEF Alters, Sole, Busy
  <1>3. TypeOK'
    BY <1>0, <1>1, <1>2 DEF TypeOK, Adds
  <1>4. Sole'
    BY <1>0, <1>1, <1>2 DEF Sole, Busy, Adds, TypeOK, Known
  <1>5. Underway'
    <2>1. \A u : Registering(u) => Registering(u)'
      BY <1>1, <1>2 DEF Registering
    <2>2. DOMAIN colls'[t] # {}
      BY <1>1 DEF Adds
    <2> SUFFICES ASSUME NEW s \in Requests
                 PROVE  LET u == req'[s].track IN
                        /\ req'[s].phase = "register" => DOMAIN colls'[u] # {} \/ u \in unmade
                        /\ req'[s].phase = "deregister" => u \in unmade
                        /\ req'[s].phase \in Reading \cup {"fill"} =>
                             registry[u] # None \/ u \in unmade \/ Registering(u)
      BY <1>1, <1>2, <2>1 DEF Underway
    <2>3. CASE s = r
      BY <1>1, <2>2, <2>3 DEF Reading
    <2>4. CASE s # r
      <3>1. req[s].phase = "register" => req[s].track \in Tracks \ {t}
        BY <1>0, <1>2, <2>4 DEF TypeOK, Known
      <3> QED
        BY <1>0, <1>1, <1>2, <2>4, <3>1 DEF Underway, Adds
    <2> QED
      BY <2>3, <2>4
  <1>6. CatalogAgrees'
    BY <1>0, <1>1, <1>2 DEF CatalogAgrees, Adds
  <1> QED
    BY <1>3, <1>4, <1>5, <1>6 DEF CatalogInv

LEMMA RegisterKeeps ==
  ASSUME CatalogInv, CatalogAssumption, NEW r \in Requests, RegisterTrack(r)
  PROVE  CatalogInv'
  <1> DEFINE t == req[r].track
  <1>0. TypeOK /\ Sole /\ Underway /\ CatalogAgrees /\ Idle.phase = "idle"
    BY IdleKnown DEF CatalogInv
  <1>1. /\ UNCHANGED <<colls, unmade>> /\ Alters(r)
        /\ req[r].phase = "register" /\ req'[r].phase \in {"idle", "fill"}
        /\ req'[r].phase = "fill" => req'[r].track = t
        /\ registry' = [registry EXCEPT ![t] = req[r].doc.type]
    BY <1>0, RegisterEffect
  <1>2. t \in Tracks /\ req[r].doc.type \in {"standard", "virtual"}
    BY <1>0, <1>1 DEF TypeOK, Known, IsSnapshot
  <1>3. /\ DOMAIN registry' = Tracks /\ registry'[t] \in {"standard", "virtual"} /\ registry'[t] # None
        /\ \A u \in Tracks \ {t} : registry'[u] = registry[u]
    BY <1>0, <1>1, <1>2 DEF TypeOK, CatalogAssumption
  <1>4. /\ DOMAIN req' = Requests /\ Known(req'[r])
        /\ \A s \in Requests \ {r} : req'[s] = req[s]
    BY <1>1 DEF Alters
  <1>5. TypeOK'
    BY <1>0, <1>1, <1>3, <1>4 DEF TypeOK
  <1>6. Sole'
    <2> SUFFICES ASSUME NEW s \in Requests, req'[s].phase \in {"save", "import"}
                 PROVE  /\ registry'[req'[s].track] = None
                        /\ DOMAIN colls[req'[s].track] = {}
                        /\ \A u \in Requests \ {s} :
                             ~(req'[u].phase # "idle" /\ req'[u].track = req'[s].track)
      BY <1>1 DEF Sole, Busy
    <2>1. s # r /\ req'[s] = req[s] /\ req[s].track \in Tracks
      BY <1>0, <1>1, <1>4 DEF TypeOK, Known
    <2>2. req[s].track # t
      BY <1>0, <1>1, <2>1 DEF Sole, Busy
    <2> QED
      BY <1>0, <1>1, <1>3, <1>4, <2>1, <2>2 DEF Sole, Busy
  <1>7. \A u \in Tracks : Registering(u) => Registering(u)' \/ registry'[u] # None
    BY <1>1, <1>3, <1>4 DEF Registering
  <1>8. Underway'
    <2> SUFFICES ASSUME NEW s \in Requests
                 PROVE  LET u == req'[s].track IN
                        /\ req'[s].phase = "register" => DOMAIN colls[u] # {} \/ u \in unmade
                        /\ req'[s].phase = "deregister" => u \in unmade
                        /\ req'[s].phase \in Reading \cup {"fill"} =>
                             registry'[u] # None \/ u \in unmade
                             \/ \E x \in Requests : req'[x].phase = "register" /\ req'[x].track = u
      BY <1>1, <1>4 DEF Underway, Registering
    <2>1. CASE s = r
      BY <1>1, <1>3, <2>1 DEF Reading
    <2>2. CASE s # r
      <3>1. req'[s] = req[s] /\ (req[s].phase # "idle" => req[s].track \in Tracks)
        BY <1>0, <1>4, <2>2 DEF TypeOK, Known
      <3> QED
        BY <1>0, <1>3, <1>7, <3>1 DEF Underway, Reading, Registering
    <2> QED
      BY <2>1, <2>2
  <1>9. CatalogAgrees'
    <2>1. DOMAIN colls[t] # {} \/ t \in unmade
      BY <1>0, <1>1 DEF Underway
    <2>2. ASSUME NEW u \in Tracks
          PROVE  /\ registry'[u] # None /\ DOMAIN colls[u] = {} => u \in unmade
                 /\ registry'[u] = None /\ DOMAIN colls[u] # {} => u \in unmade \/ Registering(u)'
      BY <1>0, <1>3, <1>7, <2>1 DEF CatalogAgrees, Registering
    <2> QED
      BY <1>1, <2>2 DEF CatalogAgrees, Registering
  <1> QED
    BY <1>5, <1>6, <1>8, <1>9 DEF CatalogInv

\* A request leaves without having registered anything, unless unmade remembers it.
LEMMA LeavingKeeps ==
  ASSUME TypeOK, Sole, Underway, NEW r \in Requests, Alters(r), req'[r].phase = "idle",
         UNCHANGED registry, unmade \subseteq unmade',
         req[r].phase = "register" => req[r].track \in unmade',
         \A t \in Tracks : DOMAIN colls'[t] = {} <=> DOMAIN colls[t] = {}
  PROVE  /\ Sole' /\ Underway'
         /\ \A t \in Tracks : Registering(t) => Registering(t)' \/ t \in unmade'
  <1>1. /\ DOMAIN req' = Requests /\ \A s \in Requests \ {r} : req'[s] = req[s]
        /\ \A s \in Requests : req[s].phase # "idle" => req[s].track \in Tracks
    BY DEF Alters, TypeOK, Known
  <1>2. Sole'
    BY <1>1 DEF Sole, Busy
  <1>3. \A t \in Tracks : Registering(t) => Registering(t)' \/ t \in unmade'
    BY <1>1 DEF Registering
  <1>4. Underway'
    <2> SUFFICES ASSUME NEW s \in Requests
                 PROVE  LET u == req'[s].track IN
                        /\ req'[s].phase = "register" => DOMAIN colls'[u] # {} \/ u \in unmade'
                        /\ req'[s].phase = "deregister" => u \in unmade'
                        /\ req'[s].phase \in Reading \cup {"fill"} =>
                             registry[u] # None \/ u \in unmade'
                             \/ \E x \in Requests : req'[x].phase = "register" /\ req'[x].track = u
      BY <1>1 DEF Underway, Registering
    <2>1. CASE s = r
      BY <2>1 DEF Reading
    <2>2. CASE s # r
      BY <1>1, <1>3, <2>2 DEF Underway, Reading, Registering
    <2> QED
      BY <2>1, <2>2
  <1> QED
    BY <1>2, <1>3, <1>4

LEMMA SavesKeeps ==
  ASSUME CatalogInv, NEW r \in Requests, Fill(r) \/ Clone(r)
  PROVE  CatalogInv'
  <1> DEFINE t == req[r].track
  <1>0. TypeOK /\ Sole /\ Underway /\ CatalogAgrees
    BY DEF CatalogInv
  <1>1. /\ UNCHANGED <<registry, unmade>> /\ Alters(r) /\ Saves(r)
        /\ req[r].phase \in {"fill", "clone"} /\ req'[r].phase = "idle" /\ t \in Tracks
    BY <1>0, FillEffect, CloneEffect, IdleKnown DEF TypeOK, Known
  <1>2. /\ DOMAIN req' = Requests /\ Known(req'[r])
        /\ \A s \in Requests \ {r} : req'[s] = req[s]
        /\ \A s \in Requests : req[s].phase # "idle" => req[s].track \in Tracks
    BY <1>0, <1>1 DEF Alters, TypeOK, Known
  <1>3. /\ DOMAIN colls' = Tracks
        /\ \A u \in Tracks \ {t} : colls'[u] = colls[u]
        /\ DOMAIN colls[t] \subseteq DOMAIN colls'[t]
        /\ \A m \in DOMAIN colls'[t] : IsSnapshot(colls'[t][m]) /\ colls'[t][m].modified = m
    <2>1. CASE UNCHANGED colls
      BY <1>0, <1>1, <2>1 DEF TypeOK
    <2>2. CASE \E s : Adds(t, s) /\ IsSnapshot(s)
      BY <1>0, <1>1, <2>2 DEF TypeOK, Adds
    <2> QED
      BY <1>1, <2>1, <2>2 DEF Saves
  <1>4. TypeOK'
    BY <1>0, <1>1, <1>2, <1>3 DEF TypeOK
  <1>5. registry[t] # None \/ t \in unmade \/ Registering(t)
    BY <1>0, <1>1 DEF Underway, Reading
  <1>6. \A u : Registering(u)' <=> Registering(u)
    BY <1>1, <1>2 DEF Registering
  <1>7. \A s \in Requests : req[s].phase \in {"save", "import"} => req[s].track # t
    BY <1>0, <1>1 DEF Sole, Busy
  <1>8. Sole'
    <2> SUFFICES ASSUME NEW s \in Requests, req'[s].phase \in {"save", "import"}
                 PROVE  /\ registry[req'[s].track] = None
                        /\ DOMAIN colls'[req'[s].track] = {}
                        /\ \A u \in Requests \ {s} :
                             ~(req'[u].phase # "idle" /\ req'[u].track = req'[s].track)
      BY <1>1 DEF Sole, Busy
    <2>1. s # r /\ req'[s] = req[s] /\ req[s].track \in Tracks \ {t}
      BY <1>1, <1>2, <1>7
    <2> QED
      BY <1>0, <1>1, <1>2, <1>3, <2>1 DEF Sole, Busy
  <1>9. Underway'
    <2> SUFFICES ASSUME NEW s \in Requests
                 PROVE  LET u == req'[s].track IN
                        /\ req'[s].phase = "register" => DOMAIN colls'[u] # {} \/ u \in unmade
                        /\ req'[s].phase = "deregister" => u \in unmade
                        /\ req'[s].phase \in Reading \cup {"fill"} =>
                             registry[u] # None \/ u \in unmade \/ Registering(u)
      BY <1>1, <1>2, <1>6 DEF Underway
    <2>1. CASE s = r
      BY <1>1, <2>1 DEF Reading
    <2>2. CASE s # r
      <3>1. req'[s] = req[s] /\ (req[s].phase # "idle" => req[s].track \in Tracks)
        BY <1>2, <2>2
      <3> QED
        BY <1>0, <1>3, <3>1 DEF Underway, Reading
    <2> QED
      BY <2>1, <2>2
  <1>10. CatalogAgrees'
    <2> SUFFICES ASSUME NEW u \in Tracks
                 PROVE  /\ registry[u] # None /\ DOMAIN colls'[u] = {} => u \in unmade
                        /\ registry[u] = None /\ DOMAIN colls'[u] # {} => u \in unmade \/ Registering(u)
      BY <1>1, <1>6 DEF CatalogAgrees, Registering
    <2>1. CASE u = t
      BY <1>0, <1>3, <1>5, <2>1 DEF CatalogAgrees
    <2>2. CASE u # t
      BY <1>0, <1>3, <2>2 DEF CatalogAgrees, Registering
    <2> QED
      BY <2>1, <2>2
  <1> QED
    BY <1>4, <1>8, <1>9, <1>10 DEF CatalogInv

LEMMA FailKeeps ==
  ASSUME CatalogInv, NEW r \in Requests, Fail(r)
  PROVE  CatalogInv'
  <1>0. TypeOK /\ Sole /\ Underway /\ CatalogAgrees
    BY DEF CatalogInv
  <1>1. /\ UNCHANGED <<colls, registry>> /\ Alters(r) /\ req'[r].phase = "idle"
        /\ unmade' = IF req[r].phase = "register" THEN unmade \cup {req[r].track} ELSE unmade
    BY <1>0, FailEffect, IdleKnown
  <1>2. TypeOK'
    BY <1>0, <1>1 DEF TypeOK, Alters
  <1>3. /\ Sole' /\ Underway'
        /\ \A t \in Tracks : Registering(t) => Registering(t)' \/ t \in unmade'
    BY <1>0, <1>1, LeavingKeeps
  <1>4. CatalogAgrees'
    BY <1>0, <1>1, <1>3 DEF CatalogAgrees, Registering
  <1> QED
    BY <1>2, <1>3, <1>4 DEF CatalogInv

LEMMA DeregisterKeeps ==
  ASSUME CatalogInv, NEW r \in Requests, Deregister(r)
  PROVE  CatalogInv'
  <1> DEFINE t == req[r].track
  <1>0. TypeOK /\ Sole /\ Underway /\ CatalogAgrees
    BY DEF CatalogInv
  <1>1. /\ UNCHANGED <<colls, unmade>> /\ Alters(r)
        /\ req[r].phase = "deregister" /\ req'[r].phase = "idle"
        /\ registry' = [registry EXCEPT ![t] = None]
        /\ t \in unmade /\ t \in Tracks
    BY <1>0, DeregisterEffect, IdleKnown DEF Underway, TypeOK, Known
  <1>2. /\ DOMAIN registry' = Tracks /\ registry'[t] = None
        /\ \A u \in Tracks \ {t} : registry'[u] = registry[u]
    BY <1>0, <1>1 DEF TypeOK
  <1>3. /\ DOMAIN req' = Requests /\ Known(req'[r])
        /\ \A s \in Requests \ {r} : req'[s] = req[s]
        /\ \A s \in Requests : req[s].phase # "idle" => req[s].track \in Tracks
    BY <1>0, <1>1 DEF Alters, TypeOK, Known
  <1>4. TypeOK'
    BY <1>0, <1>1, <1>2, <1>3 DEF TypeOK
  <1>5. \A u : Registering(u)' <=> Registering(u)
    BY <1>1, <1>3 DEF Registering
  <1>6. Sole'
    BY <1>0, <1>1, <1>2, <1>3 DEF Sole, Busy
  <1>7. Underway'
    <2> SUFFICES ASSUME NEW s \in Requests
                 PROVE  LET u == req'[s].track IN
                        /\ req'[s].phase = "register" => DOMAIN colls[u] # {} \/ u \in unmade
                        /\ req'[s].phase = "deregister" => u \in unmade
                        /\ req'[s].phase \in Reading \cup {"fill"} =>
                             registry'[u] # None \/ u \in unmade \/ Registering(u)
      BY <1>1, <1>3, <1>5 DEF Underway
    <2>1. CASE s = r
      BY <1>1, <2>1 DEF Reading
    <2>2. CASE s # r
      BY <1>0, <1>1, <1>2, <1>3, <2>2 DEF Underway, Reading
    <2> QED
      BY <2>1, <2>2
  <1>8. CatalogAgrees'
    BY <1>0, <1>1, <1>2, <1>5 DEF CatalogAgrees, Registering
  <1> QED
    BY <1>4, <1>6, <1>7, <1>8 DEF CatalogInv

LEMMA DropKeeps ==
  ASSUME CatalogInv, NEW r \in Requests, Drop(r)
  PROVE  CatalogInv'
  <1> DEFINE t == req[r].track
  <1>0. TypeOK /\ Sole /\ Underway /\ CatalogAgrees
    BY DEF CatalogInv
  <1>1. /\ UNCHANGED registry /\ req[r].phase = "drop" /\ t \in Tracks
        /\ DOMAIN colls' = Tracks /\ DOMAIN colls'[t] = {}
        /\ \A u \in Tracks \ {t} : colls'[u] = colls[u]
        /\ unmade' = unmade \cup {t}
        /\ DOMAIN req' = Requests
        /\ Known(req'[r]) /\ req'[r].phase = "deregister" /\ req'[r].track = t
    BY <1>0, DropEffect
  <1>2. ASSUME NEW s \in Requests \ {r}
        PROVE  /\ Known(req'[s]) /\ req'[s].phase = req[s].phase /\ req'[s].track = req[s].track
               /\ req[s].phase # "idle" => req[s].track \in Tracks
    <2>1. req'[s] = Forgets(t, DOMAIN colls[t])[s]
      BY <1>0, DropEffect
    <2> QED
      BY <1>0, <2>1, Forgetting DEF TypeOK, Known
  <1>3. TypeOK'
    BY <1>0, <1>1, <1>2 DEF TypeOK
  <1>4. \A u : Registering(u)' <=> Registering(u)
    BY <1>1, <1>2 DEF Registering
  <1>5. Sole'
    <2> SUFFICES ASSUME NEW s \in Requests, req'[s].phase \in {"save", "import"}
                 PROVE  /\ registry[req'[s].track] = None
                        /\ DOMAIN colls'[req'[s].track] = {}
                        /\ \A u \in Requests \ {s} :
                             ~(req'[u].phase # "idle" /\ req'[u].track = req'[s].track)
      BY <1>1 DEF Sole, Busy
    <2>1. /\ s # r /\ req[s].phase \in {"save", "import"} /\ req'[s].track = req[s].track
          /\ req[s].track \in Tracks
      BY <1>1, <1>2
    <2>2. req[s].track # t
      BY <1>0, <1>1, <2>1 DEF Sole, Busy
    <2>3. \A u \in Requests \ {s} :
            ~(req'[u].phase # "idle" /\ req'[u].track = req[s].track)
      <3> TAKE u \in Requests \ {s}
      <3>1. CASE u = r
        BY <1>1, <2>2, <3>1
      <3>2. CASE u # r
        <4>1. req'[u].phase = req[u].phase /\ req'[u].track = req[u].track
          BY <1>2, <3>2
        <4> QED
          BY <1>0, <2>1, <4>1 DEF Sole, Busy
      <3> QED
        BY <3>1, <3>2
    <2>4. registry[req[s].track] = None /\ DOMAIN colls'[req[s].track] = {}
      BY <1>0, <1>1, <2>1, <2>2 DEF Sole
    <2> QED
      BY <2>1, <2>3, <2>4
  <1>6. Underway'
    <2> SUFFICES ASSUME NEW s \in Requests
                 PROVE  LET u == req'[s].track IN
                        /\ req'[s].phase = "register" => DOMAIN colls'[u] # {} \/ u \in unmade'
                        /\ req'[s].phase = "deregister" => u \in unmade'
                        /\ req'[s].phase \in Reading \cup {"fill"} =>
                             registry[u] # None \/ u \in unmade' \/ Registering(u)
      BY <1>1, <1>4 DEF Underway
    <2>1. CASE s = r
      BY <1>1, <2>1 DEF Reading
    <2>2. CASE s # r
      <3>1. req'[s].phase = req[s].phase /\ req'[s].track = req[s].track
            /\ (req[s].phase # "idle" => req[s].track \in Tracks)
        BY <1>2, <2>2
      <3> QED
        BY <1>0, <1>1, <3>1 DEF Underway, Reading
    <2> QED
      BY <2>1, <2>2
  <1>7. CatalogAgrees'
    BY <1>0, <1>1, <1>4 DEF CatalogAgrees, Registering
  <1> QED
    BY <1>3, <1>5, <1>6, <1>7 DEF CatalogInv

\* Every step, of whatever request.
LEMMA CatalogStep ==
  ASSUME CatalogInv, CatalogAssumption, [Next]_vars
  PROVE  CatalogInv'
  <1>1. CASE UNCHANGED vars
    BY <1>1 DEF vars, CatalogInv, TypeOK, Sole, Busy, Underway, Registering, CatalogAgrees
  <1>2. ASSUME NEW t \in Tracks, Edit(t) \/ Tag(t) \/ Withdraw(t)
        PROVE  CatalogInv'
    BY <1>2, EditKeeps, WithdrawKeeps
  <1>3. ASSUME NEW o \in Objects, Write(o)
        PROVE  CatalogInv'
    BY <1>3, WriteKeeps
  <1>4. ASSUME NEW r \in Requests,
               \/ SaveTrack(r) \/ RegisterTrack(r) \/ Fill(r) \/ Clone(r)
               \/ Drop(r) \/ Deregister(r) \/ Fail(r)
        PROVE  CatalogInv'
    BY <1>4, SaveKeeps, RegisterKeeps, SavesKeeps, DropKeeps, DeregisterKeeps, FailKeeps
  <1>5. ASSUME NEW r \in Requests, Calm(r)
        PROVE  CatalogInv'
    BY <1>5, CalmKeeps
  <1> QED
    BY <1>1, <1>2, <1>3, <1>4, <1>5, CalmSteps DEF Next, CatalogInv

LEMMA CatalogInvariant ==
  Spec => []CatalogInv
  <1>1. Init => CatalogInv
    BY CatalogInit, CatalogAssumption
  <1>2. CatalogInv /\ [Next]_vars => CatalogInv'
    BY CatalogStep, CatalogAssumption
  <1> QED
    BY <1>1, <1>2, PTL DEF Spec

\* The registry and the collections agree, whatever requests meet and wherever they are
\* cut short: release-track-registry and the collection of a track part only where a
\* deletion or a failed creation left them apart.
THEOREM RegistryAndCollectionsAgree ==
  Spec => []CatalogAgrees
  <1>1. CatalogInv => CatalogAgrees
    BY DEF CatalogInv
  <1> QED
    BY <1>1, CatalogInvariant, PTL

-----------------------------------------------------------------------------
(***************************************************************************)
(* Compositions are up to date.                                            *)
(***************************************************************************)
\* What a composition must know of is still there.
Aware(q) ==
  Comparing(q) /\ q.phase \in Reading =>
    /\ DOMAIN q.floor = DOMAIN Components(q)
    /\ \A i \in DOMAIN Components(q) : q.floor[i] \subseteq Tagged(Components(q)[i].track)

\* What it has found is no older than that.
Timely(q) ==
  Comparing(q) /\ q.phase \in {"resolve", "clone"} =>
    /\ DOMAIN q.found = DOMAIN Components(q)
    /\ \A i \in DOMAIN Components(q) :
         /\ q.phase = "clone" => q.found[i] # None
         /\ Components(q)[i].by = "latest_tagged" /\ q.found[i] # None =>
              \A m \in q.floor[i] : m <= q.found[i].modified

FreshInv == CatalogInv /\ \A r \in Requests : Aware(req[r]) /\ Timely(req[r])

LEMMA ValidateStep ==
  ASSUME TypeOK, NEW r \in Requests, Validate(r)
  PROVE  LET q == req[r]  n == req'[r] IN
         /\ q.phase = "validate"
         /\ \/ n = Idle
            \/ /\ registry[Components(q)[q.next].track] = "standard"
               /\ n.op = q.op /\ n.doc = q.doc /\ n.floor = q.floor /\ n.track = q.track
               /\ \/ n.phase = "validate" /\ q.next < Len(Components(q)) /\ n.next = q.next + 1
                  \/ n.phase = "clone" /\ q.op = "recompose"
                  \/ /\ n.phase = "resolve" /\ ~(q.next < Len(Components(q)))
                     /\ n.found = [i \in DOMAIN Components(q) |-> None]
  <1> DEFINE q == req[r]
             type == registry[Components(q)[q.next].track]
             more == [q EXCEPT !.next = @ + 1]
             clone == [q EXCEPT !.phase = "clone"]
             nothing == [i \in DOMAIN Components(q) |-> None]
             resolve == [q EXCEPT !.phase = "resolve", !.found = nothing]
  <1>1. Known(q) /\ q.phase = "validate"
    BY DEF TypeOK, Validate
  <1>2. \/ Ends(r)
        \/ /\ type = "standard"
           /\ \/ Goes(r, more) /\ q.next < Len(Components(q))
              \/ Goes(r, clone) /\ q.op = "recompose"
              \/ Goes(r, resolve) /\ ~(q.next < Len(Components(q)))
    BY DEF Validate
  <1>3. /\ Known(more) /\ more.phase = "validate" /\ more.op = q.op /\ more.doc = q.doc
        /\ more.floor = q.floor /\ more.track = q.track /\ more.next = q.next + 1
    <2> HIDE DEF q
    <2> QED
      BY <1>1, Fields DEF Known
  <1>4. /\ Known(clone) /\ clone.phase = "clone" /\ clone.op = q.op /\ clone.doc = q.doc
        /\ clone.floor = q.floor /\ clone.track = q.track
    <2> HIDE DEF q
    <2> QED
      BY <1>1, Fields DEF Known
  <1>5. /\ Known(resolve) /\ resolve.phase = "resolve" /\ resolve.op = q.op /\ resolve.doc = q.doc
        /\ resolve.floor = q.floor /\ resolve.track = q.track /\ resolve.found = nothing
    <2> HIDE DEF q, nothing
    <2> QED
      BY <1>1, Fields DEF Known
  <1>6. CASE Ends(r)
    BY <1>1, <1>6, Ending
  <1>7. CASE type = "standard" /\ Goes(r, more) /\ q.next < Len(Components(q))
    <2> HIDE DEF more
    <2>1. req'[r] = more
      BY <1>3, <1>7, Going
    <2> QED
      BY <1>1, <1>3, <1>7, <2>1
  <1>8. CASE type = "standard" /\ Goes(r, clone) /\ q.op = "recompose"
    <2> HIDE DEF clone
    <2>1. req'[r] = clone
      BY <1>4, <1>8, Going
    <2> QED
      BY <1>1, <1>4, <1>8, <2>1
  <1>9. CASE type = "standard" /\ Goes(r, resolve) /\ ~(q.next < Len(Components(q)))
    <2> HIDE DEF resolve
    <2>1. req'[r] = resolve
      BY <1>5, <1>9, Going
    <2> QED
      BY <1>1, <1>5, <1>9, <2>1
  <1> QED
    BY <1>2, <1>6, <1>7, <1>8, <1>9

LEMMA ResolveStep ==
  ASSUME TypeOK, NEW r \in Requests, Resolve(r)
  PROVE  LET q == req[r]  n == req'[r] IN
         /\ q.phase = "resolve"
         /\ \/ n = Idle
            \/ /\ n.op = q.op /\ n.doc = q.doc /\ n.floor = q.floor /\ n.phase = "resolve"
               /\ n.track = q.track
               /\ \E i \in DOMAIN q.found : \E s \in Resolved(Components(q)[i]) :
                    n.found = [q.found EXCEPT ![i] = s]
  <1> DEFINE q == req[r]
             Find(i, s) == [q EXCEPT !.found[i] = s]
  <1>1. Known(q) /\ q.phase = "resolve"
    BY DEF TypeOK, Resolve
  <1>2. Ends(r) \/ \E i \in DOMAIN q.found : \E s \in Resolved(Components(q)[i]) : Goes(r, Find(i, s))
    BY DEF Resolve, Unresolved
  <1>3. \A i, s : LET n == Find(i, s) IN
          /\ Known(n) /\ n.phase = "resolve" /\ n.doc = q.doc /\ n.op = q.op /\ n.floor = q.floor
          /\ n.track = q.track /\ n.found = [q.found EXCEPT ![i] = s]
    <2> HIDE DEF q
    <2> QED
      BY <1>1, Fields DEF Known
  <1>4. CASE Ends(r)
    BY <1>1, <1>4, Ending
  <1>5. CASE \E i \in DOMAIN q.found : \E s \in Resolved(Components(q)[i]) : Goes(r, Find(i, s))
    <2>1. PICK i \in DOMAIN q.found : \E s \in Resolved(Components(q)[i]) : Goes(r, Find(i, s))
      BY <1>5
    <2>2. PICK s \in Resolved(Components(q)[i]) : Goes(r, Find(i, s))
      BY <2>1
    <2> DEFINE n == Find(i, s)
    <2>3. /\ Known(n) /\ n.phase = "resolve" /\ n.doc = q.doc /\ n.op = q.op /\ n.floor = q.floor
          /\ n.track = q.track /\ n.found = [q.found EXCEPT ![i] = s]
      BY <1>3
    <2> HIDE DEF Find, n
    <2>4. req'[r] = n
      <3>1. Goes(r, n)
        BY <2>2 DEF n
      <3> QED
        BY <2>3, <3>1, Going
    <2>5. \E k \in DOMAIN q.found : \E d \in Resolved(Components(q)[k]) :
            n.found = [q.found EXCEPT ![k] = d]
      BY <2>2, <2>3
    <2> QED
      BY <1>1, <2>3, <2>4, <2>5
  <1> QED
    BY <1>2, <1>4, <1>5

LEMMA ComponentTracks ==
  ASSUME NEW q, Known(q)
  PROVE  \A i \in DOMAIN Components(q) : Components(q)[i].track \in Tracks
  BY DEF Known, IsSnapshot, Components

\* What other requests know of stays true as long as no release is deleted.
LEMMA OthersFresh ==
  ASSUME FreshInv, NEW s \in Requests, req'[s] = req[s],
         \A t \in Tracks : Tagged(t) \subseteq Tagged(t)'
  PROVE  Aware(req[s])' /\ Timely(req[s])'
  <1> DEFINE q == req[s]
  <1>1. Aware(q) /\ Timely(q) /\ Known(q)
    BY DEF FreshInv, CatalogInv, TypeOK
  <1>2. \A i \in DOMAIN Components(q) :
          Tagged(Components(q)[i].track) \subseteq Tagged(Components(q)[i].track)'
    BY <1>1, ComponentTracks
  <1>3. Timely(req[s])'
    BY <1>1 DEF Timely, Comparing, Components
  <1>4. Aware(req[s])'
    <2>1. ASSUME Comparing(q), q.phase \in Reading
          PROVE  /\ DOMAIN q.floor = DOMAIN Components(q)
                 /\ \A i \in DOMAIN Components(q) : q.floor[i] \subseteq Tagged(Components(q)[i].track)'
      BY <1>1, <1>2, <2>1 DEF Aware
    <2> QED
      BY <2>1 DEF Aware, Comparing, Components, Tagged, IsTagged
  <1> QED
    BY <1>3, <1>4

LEMMA TaggedKept ==
  ASSUME CatalogInv,
         \/ UNCHANGED colls
         \/ \E t \in Tracks : Edit(t) \/ Tag(t)
         \/ \E r \in Requests : SaveTrack(r) \/ Fill(r) \/ Clone(r)
  PROVE  \A t \in Tracks : Tagged(t) \subseteq Tagged(t)'
  <1> USE DEF CatalogInv
  <1>1. ASSUME NEW t \in Tracks, NEW s, Adds(t, s), s.modified \notin DOMAIN colls[t]
        PROVE  \A u \in Tracks : Tagged(u) \subseteq Tagged(u)'
    BY <1>1 DEF Adds, Tagged, IsTagged
  <1>2. CASE UNCHANGED colls
    BY <1>2 DEF Tagged, IsTagged
  <1>3. ASSUME NEW t \in Tracks, Edit(t)
        PROVE  \A u \in Tracks : Tagged(u) \subseteq Tagged(u)'
    BY <1>1, <1>3, EditEffect
  <1>4. ASSUME NEW t \in Tracks, Tag(t)
        PROVE  \A u \in Tracks : Tagged(u) \subseteq Tagged(u)'
    BY <1>4, TagEffect DEF Tagged, IsTagged
  <1>5. ASSUME NEW r \in Requests, SaveTrack(r)
        PROVE  \A u \in Tracks : Tagged(u) \subseteq Tagged(u)'
    <2>1. req[r].track \in Tracks /\ DOMAIN colls[req[r].track] = {}
      BY <1>5, SaveEffect DEF Sole, TypeOK, Known
    <2> QED
      BY <1>1, <1>5, <2>1, SaveEffect
  <1>6. ASSUME NEW r \in Requests, Fill(r) \/ Clone(r)
        PROVE  \A u \in Tracks : Tagged(u) \subseteq Tagged(u)'
    <2>1. req[r].track \in Tracks /\ Saves(r)
      BY <1>6, FillEffect, CloneEffect DEF TypeOK, Known
    <2> QED
      BY <1>1, <1>2, <2>1 DEF Saves
  <1> QED
    BY <1>2, <1>3, <1>4, <1>5, <1>6

\* The request that moves.
LEMMA ComposeFresh ==
  ASSUME TypeOK, NEW r \in Requests, BeginCompose(r)
  PROVE  Aware(req[r])' /\ Timely(req[r])'
  <1>1. ComposeBegun(r) /\ UNCHANGED colls
    BY ComposeCalm DEF Calm
  <1>2. Timely(req[r])'
    BY <1>1 DEF ComposeBegun, Timely
  <1>3. \A i \in DOMAIN Components(req'[r]) :
          req'[r].floor[i] \subseteq Tagged(Components(req'[r])[i].track)
    BY <1>1 DEF ComposeBegun, Floor, LatestTagged
  <1>4. DOMAIN req'[r].floor = DOMAIN Components(req'[r])
    BY <1>1 DEF ComposeBegun, Floor
  <1>5. Aware(req[r])'
    BY <1>1, <1>3, <1>4 DEF Aware, Tagged, IsTagged, Components
  <1> QED
    BY <1>2, <1>5

LEMMA ValidateFresh ==
  ASSUME FreshInv, NEW r \in Requests, Validate(r)
  PROVE  Aware(req[r])' /\ Timely(req[r])'
  <1> DEFINE q == req[r]
             n == req'[r]
  <1>1. UNCHANGED colls /\ Aware(q)
    BY DEF Validate, FreshInv
  <1>2. /\ q.phase = "validate"
        /\ \/ n.phase = "idle"
           \/ /\ n.op = q.op /\ n.doc = q.doc /\ n.floor = q.floor
              /\ \/ n.phase = "validate"
                 \/ n.phase = "clone" /\ q.op = "recompose"
                 \/ n.phase = "resolve" /\ n.found = [i \in DOMAIN Components(q) |-> None]
    BY ValidateStep, IdleKnown DEF FreshInv, CatalogInv
  <1>3. Aware(req[r])'
    <2>1. ASSUME Comparing(n), n.phase \in Reading
          PROVE  /\ DOMAIN n.floor = DOMAIN Components(n)
                 /\ \A i \in DOMAIN Components(n) : n.floor[i] \subseteq Tagged(Components(n)[i].track)
      <3>1. n.op = q.op /\ n.doc = q.doc /\ n.floor = q.floor
        BY <1>2, <2>1 DEF Reading
      <3> QED
        BY <1>1, <1>2, <2>1, <3>1 DEF Aware, Comparing, Components, Reading
    <2> QED
      BY <1>1, <2>1 DEF Aware, Comparing, Components, Tagged, IsTagged
  <1>4. ASSUME Comparing(n), n.phase \in {"resolve", "clone"}
        PROVE  /\ DOMAIN n.found = DOMAIN Components(n) /\ n.phase # "clone"
               /\ \A i \in DOMAIN Components(n) : n.found[i] = None
    <2>1. n.phase = "resolve" /\ n.found = [i \in DOMAIN Components(q) |-> None] /\ n.doc = q.doc
      BY <1>2, <1>4 DEF Comparing
    <2> QED
      BY <2>1 DEF Components
  <1>5. Timely(req[r])'
    BY <1>4 DEF Timely, Comparing, Components
  <1> QED
    BY <1>3, <1>5

LEMMA ResolveFresh ==
  ASSUME FreshInv, NEW r \in Requests, Resolve(r)
  PROVE  Aware(req[r])' /\ Timely(req[r])'
  <1> DEFINE q == req[r]
             n == req'[r]
  <1>1. UNCHANGED colls /\ Aware(q) /\ Timely(q) /\ TypeOK /\ Known(q)
    BY DEF Resolve, FreshInv, CatalogInv, TypeOK
  <1>2. CASE n = Idle
    BY <1>2, IdleKnown DEF Aware, Timely, Reading
  <1>3. CASE /\ n.op = q.op /\ n.doc = q.doc /\ n.floor = q.floor /\ n.phase = "resolve"
             /\ \E i \in DOMAIN q.found : \E s \in Resolved(Components(q)[i]) :
                  n.found = [q.found EXCEPT ![i] = s]
    <2>0. q.phase = "resolve"
      BY <1>1, ResolveStep
    <2>1. Aware(req[r])'
      <3>1. ASSUME Comparing(n), n.phase \in Reading
            PROVE  /\ DOMAIN n.floor = DOMAIN Components(n)
                   /\ \A i \in DOMAIN Components(n) : n.floor[i] \subseteq Tagged(Components(n)[i].track)
        BY <1>1, <1>3, <2>0, <3>1 DEF Aware, Comparing, Components, Reading
      <3> QED
        BY <1>1, <3>1 DEF Aware, Comparing, Components, Tagged, IsTagged
    <2>2. ASSUME Comparing(n)
          PROVE  /\ DOMAIN n.found = DOMAIN Components(n)
                 /\ \A j \in DOMAIN Components(n) :
                      /\ Components(n)[j].by = "latest_tagged" /\ n.found[j] # None =>
                           \A m \in n.floor[j] : m <= n.found[j].modified
      <3> DEFINE C == Components(q)
      <3>1. PICK i \in DOMAIN q.found : \E s \in Resolved(C[i]) : n.found = [q.found EXCEPT ![i] = s]
        BY <1>3
      <3>2. PICK s \in Resolved(C[i]) : n.found = [q.found EXCEPT ![i] = s]
        BY <3>1
      <3>3. /\ DOMAIN q.floor = DOMAIN C /\ DOMAIN q.found = DOMAIN C
            /\ \A j \in DOMAIN C : q.floor[j] \subseteq Tagged(C[j].track)
            /\ \A j \in DOMAIN C : C[j].by = "latest_tagged" /\ q.found[j] # None =>
                 \A m \in q.floor[j] : m <= q.found[j].modified
        BY <1>1, <1>3, <2>0, <2>2 DEF Aware, Timely, Comparing, Reading
      <3>4. ASSUME C[i].by = "latest_tagged"
            PROVE  \A m \in q.floor[i] : m <= s.modified
        <4>1. PICK k \in LatestTagged(C[i].track) : s = colls[C[i].track][k]
          BY <3>4 DEF Resolved
        <4>2. C[i].track \in Tracks /\ k \in DOMAIN colls[C[i].track]
          BY <1>1, <3>3, <4>1, ComponentTracks DEF LatestTagged, Tagged
        <4>3. s.modified = k
          BY <1>1, <4>1, <4>2 DEF TypeOK
        <4> QED
          BY <3>3, <4>1, <4>3 DEF LatestTagged
      <3>5. Components(n) = C
        BY <1>3 DEF Components
      <3> HIDE DEF C
      <3> QED
        BY <1>3, <3>2, <3>3, <3>4, <3>5
    <2>3. Timely(req[r])'
      BY <1>3, <2>2 DEF Timely, Comparing, Components
    <2> QED
      BY <2>1, <2>3
  <1> QED
    BY <1>1, <1>2, <1>3, ResolveStep

LEMMA ComposedFresh ==
  ASSUME FreshInv, NEW r \in Requests, Compose(r)
  PROVE  Aware(req[r])' /\ Timely(req[r])'
  <1> DEFINE q == req[r]
             n == req'[r]
  <1>1. UNCHANGED colls /\ Aware(q) /\ Timely(q) /\ TypeOK /\ Known(q)
    BY DEF Compose, FreshInv, CatalogInv, TypeOK
  <1>2. /\ q.phase = "resolve" /\ Unresolved(q) = {} /\ q.op = "compose"
        /\ n.phase = "clone" /\ n.op = "compose" /\ n.doc = Composed(q)
        /\ n.found = q.found /\ n.floor = q.floor
    BY <1>1, ComposeStep
  <1>3. Components(n) = Components(q)
    BY <1>1, <1>2, ComposedKeeps DEF Components
  <1>4. /\ DOMAIN q.floor = DOMAIN Components(q) /\ DOMAIN q.found = DOMAIN Components(q)
        /\ \A i \in DOMAIN Components(q) : q.floor[i] \subseteq Tagged(Components(q)[i].track)
        /\ \A i \in DOMAIN Components(q) :
             Components(q)[i].by = "latest_tagged" /\ q.found[i] # None =>
               \A m \in q.floor[i] : m <= q.found[i].modified
    BY <1>1, <1>2 DEF Aware, Timely, Comparing, Reading
  <1>5. \A i \in DOMAIN Components(q) : q.found[i] # None
    BY <1>2, <1>4 DEF Unresolved
  <1>6. Timely(req[r])'
    <2>1. /\ DOMAIN n.found = DOMAIN Components(n)
          /\ \A i \in DOMAIN Components(n) :
               /\ n.found[i] # None
               /\ Components(n)[i].by = "latest_tagged" => \A m \in n.floor[i] : m <= n.found[i].modified
      BY <1>2, <1>3, <1>4, <1>5
    <2> QED
      BY <2>1 DEF Timely, Components
  <1>7. Aware(req[r])'
    <2>1. /\ DOMAIN n.floor = DOMAIN Components(n)
          /\ \A i \in DOMAIN Components(n) : n.floor[i] \subseteq Tagged(Components(n)[i].track)
      BY <1>2, <1>3, <1>4
    <2> QED
      BY <1>1, <2>1 DEF Aware, Components, Tagged, IsTagged
  <1> QED
    BY <1>6, <1>7

\* The releases of a track after the step.
Remaining(t) == {m \in DOMAIN colls'[t] : IsTagged(colls'[t][m])}

LEMMA ForgottenFresh ==
  ASSUME FreshInv, NEW s \in Requests, NEW t \in Tracks, NEW gone,
         req'[s] = Forgets(t, gone)[s],
         \A u \in Tracks \ {t} : Tagged(u) \subseteq Remaining(u),
         Tagged(t) \ gone \subseteq Remaining(t)
  PROVE  Aware(req[s])' /\ Timely(req[s])'
  <1> DEFINE q == req[s]
             n == req'[s]
             C == Components(q)
  <1>1. Aware(q) /\ Timely(q) /\ Known(q) /\ TypeOK
    BY DEF FreshInv, CatalogInv, TypeOK
  <1>2. /\ n.phase = q.phase /\ n.op = q.op /\ n.doc = q.doc /\ n.found = q.found
        /\ Comparing(q) => n.floor = Without(q, t, gone)
    BY <1>1, Forgetting
  <1>3. Components(n) = C
    BY <1>2 DEF Components
  <1>4. ASSUME Comparing(n), n.phase \in Reading
        PROVE  /\ DOMAIN n.floor = DOMAIN Components(n)
               /\ \A i \in DOMAIN Components(n) :
                    /\ n.floor[i] \subseteq q.floor[i]
                    /\ n.floor[i] \subseteq Remaining(Components(n)[i].track)
    <2>1. /\ DOMAIN q.floor = DOMAIN C /\ n.floor = Without(q, t, gone)
          /\ \A i \in DOMAIN C : q.floor[i] \subseteq Tagged(C[i].track) /\ C[i].track \in Tracks
      BY <1>1, <1>2, <1>4, ComponentTracks DEF Aware, Comparing
    <2>2. DOMAIN n.floor = DOMAIN C
      BY <2>1 DEF Without
    <2>3. ASSUME NEW i \in DOMAIN C
          PROVE  n.floor[i] \subseteq q.floor[i] /\ n.floor[i] \subseteq Remaining(C[i].track)
      <3>1. n.floor[i] = IF C[i].track = t THEN q.floor[i] \ gone ELSE q.floor[i]
        BY <2>1 DEF Without
      <3>2. CASE C[i].track = t
        BY <2>1, <3>1, <3>2
      <3>3. CASE C[i].track # t
        BY <2>1, <3>1, <3>3
      <3> QED
        BY <3>2, <3>3
    <2> QED
      BY <1>3, <2>2, <2>3
  <1>5. Aware(req[s])'
    <2>1. Comparing(n) /\ n.phase \in Reading =>
            /\ DOMAIN n.floor = DOMAIN Components(n)
            /\ \A i \in DOMAIN Components(n) : n.floor[i] \subseteq Remaining(Components(n)[i].track)
      BY <1>4
    <2> QED
      BY <2>1 DEF Aware, Comparing, Components, Tagged, IsTagged, Remaining
  <1>6. Timely(req[s])'
    <2>1. ASSUME Comparing(n), n.phase \in {"resolve", "clone"}
          PROVE  /\ DOMAIN n.found = DOMAIN Components(n)
                 /\ \A i \in DOMAIN Components(n) :
                      /\ n.phase = "clone" => n.found[i] # None
                      /\ Components(n)[i].by = "latest_tagged" /\ n.found[i] # None =>
                           \A m \in n.floor[i] : m <= n.found[i].modified
      BY <1>1, <1>2, <1>3, <1>4, <2>1 DEF Timely, Comparing, Reading
    <2> QED
      BY <2>1 DEF Timely, Comparing, Components
  <1> QED
    BY <1>5, <1>6

\* The rest of the requests have nothing to be up to date about.
LEMMA Unconcerned ==
  ASSUME NEW r \in Requests,
         req'[r].phase \notin Reading \/ ~Comparing(req'[r])
  PROVE  Aware(req[r])' /\ Timely(req[r])'
  BY DEF Aware, Timely, Comparing, Reading

LEMMA FreshStep ==
  ASSUME FreshInv, CatalogAssumption, [Next]_vars
  PROVE  \A s \in Requests : Aware(req[s])' /\ Timely(req[s])'
  <1>0. TypeOK /\ CatalogInv /\ Idle.phase \notin Reading
    BY IdleKnown DEF FreshInv, CatalogInv, Reading
  <1>1. CASE UNCHANGED vars
    BY <1>0, <1>1, TaggedKept, OthersFresh DEF vars
  <1>2. ASSUME NEW t \in Tracks, Edit(t) \/ Tag(t)
        PROVE  \A s \in Requests : Aware(req[s])' /\ Timely(req[s])'
    BY <1>0, <1>2, TaggedKept, EditEffect, TagEffect, OthersFresh
  <1>3. ASSUME NEW t \in Tracks, Withdraw(t)
        PROVE  \A s \in Requests : Aware(req[s])' /\ Timely(req[s])'
    <2>1. PICK m \in DOMAIN colls[t] :
            /\ \A u \in Tracks \ {t} : colls'[u] = colls[u]
            /\ DOMAIN colls'[t] = DOMAIN colls[t] \ {m}
            /\ \A n \in DOMAIN colls'[t] : colls'[t][n] = colls[t][n]
            /\ req' = Forgets(t, {m})
      BY <1>0, <1>3, WithdrawEffect
    <2>2. /\ \A u \in Tracks \ {t} : Tagged(u) \subseteq Remaining(u)
          /\ Tagged(t) \ {m} \subseteq Remaining(t)
      BY <2>1 DEF Tagged, IsTagged, Remaining
    <2>3. \A s \in Requests : req'[s] = Forgets(t, {m})[s]
      BY <2>1
    <2> QED
      BY <2>2, <2>3, ForgottenFresh
  <1>4. ASSUME NEW o \in Objects, Write(o)
        PROVE  \A s \in Requests : Aware(req[s])' /\ Timely(req[s])'
    <2> TAKE s \in Requests
    <2>1. UNCHANGED colls /\ Steady /\ (req[s].phase # "hydrate" => req'[s] = req[s])
      BY <1>0, <1>4, WriteEffect
    <2>2. CASE req[s].phase = "hydrate"
      BY <2>1, <2>2, Unconcerned DEF Steady, Reading
    <2>3. CASE req[s].phase # "hydrate"
      BY <1>0, <2>1, <2>3, TaggedKept, OthersFresh
    <2> QED
      BY <2>2, <2>3
  <1>5. ASSUME NEW r \in Requests, Drop(r)
        PROVE  \A s \in Requests : Aware(req[s])' /\ Timely(req[s])'
    <2> DEFINE t == req[r].track
    <2>1. /\ t \in Tracks /\ \A u \in Tracks \ {t} : colls'[u] = colls[u]
          /\ \A s \in Requests \ {r} : req'[s] = Forgets(t, DOMAIN colls[t])[s]
          /\ req'[r].phase = "deregister"
      BY <1>0, <1>5, DropEffect
    <2>2. /\ \A u \in Tracks \ {t} : Tagged(u) \subseteq Remaining(u)
          /\ Tagged(t) \ DOMAIN colls[t] \subseteq Remaining(t)
      BY <2>1 DEF Tagged, IsTagged, Remaining
    <2>3. Aware(req[r])' /\ Timely(req[r])'
      BY <2>1, Unconcerned DEF Reading
    <2> QED
      BY <2>1, <2>2, <2>3, ForgottenFresh
  <1>6. ASSUME NEW r \in Requests, Alters(r), \A t \in Tracks : Tagged(t) \subseteq Tagged(t)',
               Aware(req[r])' /\ Timely(req[r])'
        PROVE  \A s \in Requests : Aware(req[s])' /\ Timely(req[s])'
    BY <1>6, OthersFresh DEF Alters
  <1>7. ASSUME NEW r \in Requests,
               SaveTrack(r) \/ RegisterTrack(r) \/ Fill(r) \/ Clone(r) \/ Deregister(r) \/ Fail(r)
        PROVE  \A s \in Requests : Aware(req[s])' /\ Timely(req[s])'
    <2>1. Alters(r) /\ req'[r].phase \notin Reading
      BY <1>0, <1>7, SaveEffect, RegisterEffect, FillEffect, CloneEffect, DeregisterEffect, FailEffect
      DEF Reading
    <2>2. \A t \in Tracks : Tagged(t) \subseteq Tagged(t)'
      BY <1>0, <1>7, TaggedKept, RegisterEffect, DeregisterEffect, FailEffect
    <2> QED
      BY <1>6, <2>1, <2>2, Unconcerned
  <1>8. ASSUME NEW r \in Requests,
               \/ BeginCreate(r) \/ BeginClone(r) \/ SaveTrackFails(r)
               \/ BeginImport(r) \/ ImportObject(r) \/ Imported(r) \/ BeginDelete(r)
               \/ BeginCompose(r) \/ BeginRecompose(r) \/ Validate(r) \/ Resolve(r) \/ Preview(r)
               \/ Compose(r) \/ BeginExport(r) \/ Hydrate(r) \/ HydrateFails(r)
               \/ Answer(r)
        PROVE  \A s \in Requests : Aware(req[s])' /\ Timely(req[s])'
    <2>1. Alters(r) /\ UNCHANGED colls
      BY <1>0, <1>8, CalmSteps DEF Calm
    <2>2. \A t \in Tracks : Tagged(t) \subseteq Tagged(t)'
      BY <1>0, <2>1, TaggedKept
    <2>3. CASE SaveTrackFails(r) \/ Preview(r) \/ Answer(r)
      <3>1. req'[r] = Idle
        BY <1>0, <2>3, Ending DEF SaveTrackFails, Preview, Answer
      <3> QED
        BY <1>0, <1>6, <2>1, <2>2, <3>1, Unconcerned
    <2>4. CASE \/ BeginCreate(r) \/ BeginClone(r) \/ BeginImport(r) \/ ImportObject(r) \/ Imported(r)
               \/ BeginDelete(r) \/ BeginExport(r) \/ Hydrate(r) \/ HydrateFails(r)
      <3>1. req'[r].phase \notin Reading
        BY <1>0, <2>4, CreateCalm, CloneCalm, BeginImportCalm, ImportObjectCalm, ImportedCalm,
           DeleteCalm, ExportCalm, HydrateCalm DEF Reading
      <3> QED
        BY <1>6, <2>1, <2>2, <3>1, Unconcerned
    <2>5. CASE BeginRecompose(r)
      <3>1. ~Comparing(req'[r])
        BY <1>0, <2>5, RecomposeCalm DEF Comparing
      <3> QED
        BY <1>6, <2>1, <2>2, <3>1, Unconcerned
    <2>6. CASE BeginCompose(r) \/ Validate(r) \/ Resolve(r) \/ Compose(r)
      BY <1>0, <1>6, <2>1, <2>2, <2>6, ComposeFresh, ValidateFresh, ResolveFresh, ComposedFresh
    <2> QED
      BY <1>8, <2>3, <2>4, <2>5, <2>6
  <1> QED
    BY <1>1, <1>2, <1>3, <1>4, <1>5, <1>7, <1>8 DEF Next

LEMMA FreshInvariant ==
  Spec => []FreshInv
  <1>1. Init => FreshInv
    <2> SUFFICES ASSUME Init PROVE FreshInv
      OBVIOUS
    <2>1. \A r \in Requests : req[r].phase = "idle"
      BY IdleKnown DEF Init
    <2> QED
      BY <2>1, CatalogInit, CatalogAssumption DEF FreshInv, Aware, Timely, Reading
  <1>2. FreshInv /\ [Next]_vars => FreshInv'
    <2> SUFFICES ASSUME FreshInv, [Next]_vars PROVE FreshInv'
      OBVIOUS
    <2>1. CatalogInv' /\ Requests = Requests'
      BY CatalogStep, CatalogAssumption DEF FreshInv
    <2>2. \A s \in Requests : Aware(req[s])' /\ Timely(req[s])'
      BY FreshStep, CatalogAssumption
    <2> QED
      BY <2>1, <2>2 DEF FreshInv
  <1> QED
    BY <1>1, <1>2, PTL DEF Spec

\* resolveComponentSnapshot after validateComponentTracks: although the components are
\* read one by one while tracks go on, no component of a new composition is older than
\* its latest release was when the request came in.
THEOREM CompositionsAreFresh ==
  Spec => []FreshWhenAsked
  <1>1. FreshInv => FreshWhenAsked
    <2> SUFFICES ASSUME FreshInv, NEW r \in Requests,
                        req[r].op = "compose", req[r].phase = "clone",
                        NEW i \in DOMAIN Components(req[r]),
                        Components(req[r])[i].by = "latest_tagged",
                        NEW m \in req[r].floor[i]
                 PROVE  m <= req[r].found[i].modified
      BY DEF FreshWhenAsked
    <2> QED
      BY DEF FreshInv, Timely, Comparing
  <1> QED
    BY <1>1, FreshInvariant, PTL

-----------------------------------------------------------------------------
(***************************************************************************)
(* A track never changes its type.                                         *)
(***************************************************************************)
\* Someone has it that track t is of type k.
Claim(t, k) ==
  \/ registry[t] = k
  \/ \E m \in DOMAIN colls[t] : colls[t][m].type = k
  \/ \E r \in Requests : /\ req[r].phase \in Claiming
                        /\ req[r].track = t /\ req[r].doc.type = k

Kinds == {"standard", "virtual"}

OneType == \A t \in Tracks : \A k, l \in Kinds : Claim(t, k) /\ Claim(t, l) => k = l

\* The identifier will not be given to another track.
Settled(t) == registry[t] # None \/ t \in unmade

\* What a step may do to the claims on a track.
Consistent ==
  \A t \in Tracks :
    \/ \A k \in Kinds : Claim(t, k)' => Claim(t, k)
    \/ /\ ~Settled(t) /\ \A k \in Kinds : ~Claim(t, k)
       /\ \A k, l \in Kinds : Claim(t, k)' /\ Claim(t, l)' => k = l

LEMMA SteadyClaims ==
  ASSUME Steady, UNCHANGED registry, NEW t,
         \A m \in DOMAIN colls'[t] : \E n \in DOMAIN colls[t] : colls'[t][m].type = colls[t][n].type
  PROVE  \A k \in Kinds : Claim(t, k)' => Claim(t, k)
  BY DEF Steady, Claim

LEMMA StartClaims ==
  ASSUME CatalogInv, CatalogAssumption, NEW r \in Requests, Calm(r), Starts(r)
  PROVE  Consistent
  <1> DEFINE u == req'[r].track
  <1>1. /\ UNCHANGED <<colls, registry, unmade>>
        /\ \A s \in Requests \ {r} : req'[s] = req[s]
        /\ req[r].phase = "idle" /\ req[r].phase \notin Claiming
    BY DEF Calm, Alters, Starts, Claiming, Reading
  <1>2. \A t \in Tracks, k \in Kinds :
          Claim(t, k)' => \/ Claim(t, k)
                         \/ /\ req'[r].phase \in Claiming
                            /\ t = u /\ k = req'[r].doc.type
    BY <1>1 DEF Claim
  <1>3. CASE req'[r].phase \in {"save", "import"} /\ ~InUse(u)
    <2>1. \A t \in Tracks : t = u => ~Settled(t) /\ \A k \in Kinds : ~Claim(t, k)
      <3> SUFFICES ASSUME NEW k \in Kinds
                   PROVE  ~Settled(u) /\ ~Claim(u, k)
        <4> HIDE DEF u
        <4> QED
          BY DEF Kinds
      <3>1. /\ registry[u] = None /\ DOMAIN colls[u] = {} /\ u \notin unmade
            /\ \A s \in Requests : ~(req[s].phase # "idle" /\ req[s].track = u)
        BY <1>3 DEF InUse
      <3>2. k # None
        BY DEF Kinds, CatalogAssumption
      <3> QED
        BY <3>1, <3>2 DEF Settled, Claim, Claiming, Reading
    <2>2. ASSUME NEW t \in Tracks
          PROVE  \/ \A k \in Kinds : Claim(t, k)' => Claim(t, k)
                 \/ /\ ~Settled(t) /\ \A k \in Kinds : ~Claim(t, k)
                    /\ \A k, l \in Kinds : Claim(t, k)' /\ Claim(t, l)' => k = l
      BY <1>2, <2>1
    <2> QED
      BY <2>2 DEF Consistent
  <1>4. CASE req'[r].phase = "validate" /\ \E m \in DOMAIN colls[u] : req'[r].doc.type = colls[u][m].type
    <2>1. \A k \in Kinds : k = req'[r].doc.type => Claim(u, k)
      BY <1>4 DEF Claim
    <2>2. ASSUME NEW t \in Tracks
          PROVE  \A k \in Kinds : Claim(t, k)' => Claim(t, k)
      BY <1>2, <2>1
    <2> QED
      BY <2>2 DEF Consistent
  <1>5. CASE req'[r].phase \in {"hydrate", "drop"}
    <2>1. \A t \in Tracks : \A k \in Kinds : Claim(t, k)' => Claim(t, k)
      BY <1>2, <1>5 DEF Claiming, Reading
    <2> QED
      BY <2>1 DEF Consistent
  <1> QED
    BY <1>3, <1>4, <1>5 DEF Starts

LEMMA CalmClaims ==
  ASSUME CatalogInv, CatalogAssumption, NEW r \in Requests, Calm(r)
  PROVE  Consistent
  <1>1. /\ UNCHANGED <<colls, registry, unmade>>
        /\ \A s \in Requests \ {r} : req'[s] = req[s]
        /\ Onward(r) \/ Starts(r) \/ Stops(r)
    BY DEF Calm, Alters
  <1>2. CASE Onward(r)
    <2>1. \A t \in Tracks : \A k \in Kinds : Claim(t, k)' => Claim(t, k)
      BY <1>1, <1>2 DEF Claim, Onward, Claiming, Reading
    <2> QED
      BY <2>1 DEF Consistent
  <1>3. CASE Stops(r)
    <2>1. req'[r].phase \notin Claiming
      BY <1>3, IdleKnown DEF Stops, Claiming, Reading
    <2>2. \A t \in Tracks : \A k \in Kinds : Claim(t, k)' => Claim(t, k)
      BY <1>1, <2>1 DEF Claim
    <2> QED
      BY <2>2 DEF Consistent
  <1> QED
    BY <1>1, <1>2, <1>3, StartClaims

LEMMA EditClaims ==
  ASSUME CatalogInv, NEW t \in Tracks, Edit(t) \/ Tag(t) \/ Withdraw(t)
  PROVE  Consistent
  <1>0. TypeOK
    BY DEF CatalogInv
  <1>1. Steady /\ UNCHANGED registry
    BY <1>0, EditEffect, TagEffect, WithdrawEffect, UnchangedSteady
  <1>2. ASSUME NEW u \in Tracks
        PROVE  \A m \in DOMAIN colls'[u] : \E n \in DOMAIN colls[u] : colls'[u][m].type = colls[u][n].type
    <2>1. CASE Edit(t)
      <3>1. PICK m \in DOMAIN colls[t] : \E s : Adds(t, s) /\ s.type = colls[t][m].type
        BY <1>0, <2>1, EditEffect
      <3> QED
        BY <3>1 DEF Adds
    <2>2. CASE Tag(t)
      BY <1>0, <2>2, TagEffect
    <2>3. CASE Withdraw(t)
      BY <1>0, <2>3, WithdrawEffect
    <2> QED
      BY <2>1, <2>2, <2>3
  <1>3. \A u \in Tracks : \A k \in Kinds : Claim(u, k)' => Claim(u, k)
    BY <1>1, <1>2, SteadyClaims
  <1> QED
    BY <1>3 DEF Consistent

LEMMA RequestClaims ==
  ASSUME CatalogInv, CatalogAssumption, NEW r \in Requests,
         \/ SaveTrack(r) \/ RegisterTrack(r) \/ Fill(r) \/ Clone(r) \/ Deregister(r) \/ Fail(r)
  PROVE  Consistent
  <1> DEFINE u == req[r].track
             k0 == req[r].doc.type
  <1>0. TypeOK /\ Idle.phase \notin Claiming
    BY IdleKnown DEF CatalogInv, Claiming, Reading
  <1>1. SUFFICES \A t \in Tracks : \A k \in Kinds : Claim(t, k)' => Claim(t, k)
    BY DEF Consistent
  <1>2. Alters(r) /\ \A s \in Requests \ {r} : req'[s] = req[s]
    BY <1>0, SaveEffect, RegisterEffect, FillEffect, CloneEffect, DeregisterEffect, FailEffect DEF Alters
  <1>3. req'[r].phase \in Claiming => /\ req[r].phase \in Claiming /\ req'[r].track = u
                                     /\ req'[r].doc.type = k0
    BY <1>0, SaveEffect, RegisterEffect, FillEffect, CloneEffect, DeregisterEffect, FailEffect
    DEF Claiming
  <1>4. ASSUME NEW t \in Tracks, NEW k \in Kinds, Claim(t, k)', UNCHANGED <<registry, colls>>
        PROVE  Claim(t, k)
    BY <1>2, <1>3, <1>4 DEF Claim
  <1>5. CASE SaveTrack(r)
    <2>1. /\ UNCHANGED registry /\ req[r].phase \in Claiming
          /\ \E s : Adds(u, s) /\ s.type = k0
      BY <1>0, <1>5, SaveEffect DEF Claiming
    <2>2. \A t \in Tracks : \A m \in DOMAIN colls'[t] :
            (t = u /\ colls'[t][m].type = k0) \/ (m \in DOMAIN colls[t] /\ colls'[t][m] = colls[t][m])
      BY <2>1 DEF Adds
    <2> QED
      BY <1>2, <1>3, <2>1, <2>2 DEF Claim
  <1>6. CASE Fill(r) \/ Clone(r)
    <2>1. UNCHANGED registry /\ req[r].phase \in Claiming /\ Saves(r)
      BY <1>0, <1>6, FillEffect, CloneEffect DEF Claiming, Reading
    <2>2. CASE \E s : Adds(u, s) /\ s.type = k0
      <3>1. \A t \in Tracks : \A m \in DOMAIN colls'[t] :
              (t = u /\ colls'[t][m].type = k0) \/ (m \in DOMAIN colls[t] /\ colls'[t][m] = colls[t][m])
        BY <2>2 DEF Adds
      <3> QED
        BY <1>2, <1>3, <2>1, <3>1 DEF Claim
    <2> QED
      BY <1>4, <2>1, <2>2 DEF Saves
  <1>7. CASE RegisterTrack(r)
    <2>1. /\ UNCHANGED colls /\ req[r].phase \in Claiming
          /\ \A t \in Tracks : registry'[t] = IF t = u THEN k0 ELSE registry[t]
      BY <1>0, <1>7, RegisterEffect DEF Claiming, TypeOK
    <2> QED
      BY <1>2, <1>3, <2>1 DEF Claim
  <1>8. CASE Deregister(r)
    <2>1. /\ UNCHANGED colls
          /\ \A t \in Tracks : registry'[t] = IF t = u THEN None ELSE registry[t]
      BY <1>0, <1>8, DeregisterEffect DEF TypeOK
    <2>2. None \notin Kinds
      BY DEF CatalogAssumption, Kinds
    <2> QED
      BY <1>2, <1>3, <2>1, <2>2 DEF Claim
  <1>9. CASE Fail(r)
    BY <1>0, <1>4, <1>9, FailEffect
  <1> QED
    BY <1>5, <1>6, <1>7, <1>8, <1>9

LEMMA DropClaims ==
  ASSUME CatalogInv, NEW r \in Requests, Drop(r)
  PROVE  Consistent
  <1> DEFINE u == req[r].track
  <1>0. TypeOK
    BY DEF CatalogInv
  <1>1. /\ UNCHANGED registry /\ DOMAIN colls'[u] = {}
        /\ \A t \in Tracks \ {u} : colls'[t] = colls[t]
        /\ req'[r].phase \notin Claiming
    BY <1>0, DropEffect DEF Claiming, Reading
  <1>2. ASSUME NEW s \in Requests \ {r}
        PROVE  req'[s].phase = req[s].phase /\ req'[s].track = req[s].track /\ req'[s].doc = req[s].doc
    <2>1. req'[s] = Forgets(u, DOMAIN colls[u])[s]
      BY <1>0, DropEffect
    <2> QED
      BY <1>0, <2>1, Forgetting
  <1>3. \A t \in Tracks : \A k \in Kinds : Claim(t, k)' => Claim(t, k)
    BY <1>1, <1>2 DEF Claim
  <1> QED
    BY <1>3 DEF Consistent

LEMMA StepsConsistent ==
  ASSUME CatalogInv, CatalogAssumption, [Next]_vars
  PROVE  Consistent
  <1>0. TypeOK
    BY DEF CatalogInv
  <1>1. CASE Steady /\ UNCHANGED <<colls, registry>>
    <2>1. \A t \in Tracks : \A k \in Kinds : Claim(t, k)' => Claim(t, k)
      BY <1>1, SteadyClaims
    <2> QED
      BY <2>1 DEF Consistent
  <1>2. CASE UNCHANGED vars
    BY <1>0, <1>1, <1>2, UnchangedSteady DEF vars
  <1>3. ASSUME NEW o \in Objects, Write(o)
        PROVE  Consistent
    BY <1>0, <1>1, <1>3, WriteEffect
  <1> QED
    BY <1>0, <1>2, <1>3, EditClaims, RequestClaims, DropClaims, CalmClaims, CalmSteps DEF Next

LEMMA SettledKept ==
  ASSUME CatalogInv, CatalogAssumption, [Next]_vars
  PROVE  \A t \in Tracks : Settled(t) => Settled(t)'
  <1>0. TypeOK /\ Underway
    BY DEF CatalogInv
  <1>1. CASE UNCHANGED registry /\ unmade \subseteq unmade'
    BY <1>1 DEF Settled
  <1>2. ASSUME NEW r \in Requests, RegisterTrack(r)
        PROVE  \A t \in Tracks : Settled(t) => Settled(t)'
    <2>1. /\ UNCHANGED unmade /\ req[r].doc.type \in Kinds
          /\ \A t \in Tracks : registry'[t] = IF t = req[r].track THEN req[r].doc.type ELSE registry[t]
      BY <1>0, <1>2, RegisterEffect DEF TypeOK, Known, IsSnapshot, Kinds
    <2> QED
      BY <2>1 DEF Settled, CatalogAssumption, Kinds
  <1>3. ASSUME NEW r \in Requests, Deregister(r)
        PROVE  \A t \in Tracks : Settled(t) => Settled(t)'
    <2>1. /\ UNCHANGED unmade /\ req[r].track \in unmade
          /\ \A t \in Tracks : registry'[t] = IF t = req[r].track THEN None ELSE registry[t]
      BY <1>0, <1>3, DeregisterEffect DEF TypeOK, Underway
    <2> QED
      BY <2>1 DEF Settled
  <1>4. ASSUME NEW t \in Tracks, Edit(t) \/ Tag(t) \/ Withdraw(t)
        PROVE  UNCHANGED registry /\ unmade \subseteq unmade'
    BY <1>4 DEF Edit, Tag, Withdraw
  <1>5. ASSUME NEW r \in Requests, SaveTrack(r) \/ Fill(r) \/ Clone(r) \/ Drop(r) \/ Fail(r)
        PROVE  UNCHANGED registry /\ unmade \subseteq unmade'
    BY <1>0, <1>5, SaveEffect, FillEffect, CloneEffect, DropEffect, FailEffect
  <1>6. ASSUME NEW o \in Objects, Write(o)
        PROVE  UNCHANGED registry /\ unmade \subseteq unmade'
    BY <1>6 DEF Write
  <1>7. ASSUME NEW r \in Requests, Calm(r)
        PROVE  UNCHANGED registry /\ unmade \subseteq unmade'
    BY <1>7 DEF Calm
  <1> QED
    BY <1>0, <1>1, <1>2, <1>3, <1>4, <1>5, <1>6, <1>7, CalmSteps DEF Next, vars

-----------------------------------------------------------------------------
(***************************************************************************)
(* What a composed snapshot says of its parts.                             *)
(***************************************************************************)
StandardTracks == {t \in Tracks : Settled(t) /\ \A k \in Kinds : Claim(t, k) => k = "standard"}

\* Snapshot s of track t is a release of a standard track.
Vouched(t, s, releases) == Release(t, s) \in releases /\ s.type = "standard"

\* A composition looks only at releases of tracks that were found to be standard.
Checked(q, standard, releases) ==
  Comparing(q) =>
    /\ q.phase = "validate" =>
         /\ q.next \in Nat
         /\ \A i \in DOMAIN Components(q) : i < q.next => Components(q)[i].track \in standard
    /\ q.phase = "resolve" =>
         \A i \in DOMAIN Components(q) :
           /\ Components(q)[i].track \in standard
           /\ q.found[i] # None => Vouched(Components(q)[i].track, q.found[i], releases)

Sourced(s, releases) ==
  s.resolution # None =>
    \A i \in DOMAIN s.resolution.parts :
      \E x \in releases : /\ x.track = s.resolution.parts[i].track
                         /\ x.modified = s.resolution.parts[i].snapshot
                         /\ x.version = s.resolution.parts[i].version
                         /\ x.type = "standard"

\* Every snapshot composed for a virtual track says of each of its parts from which
\* release, of which standard track, it was taken; and there was such a release.
PartsAreReleases == \A t \in Tracks : \A m \in DOMAIN colls[t] : Sourced(colls[t][m], released)

SourceInv ==
  /\ FreshInv
  /\ OneType
  /\ \A t \in Tracks : \A m \in Tagged(t) : Release(t, colls[t][m]) \in released
  /\ \A r \in Requests : /\ Checked(req[r], StandardTracks, released)
                        /\ Sourced(req[r].doc, released)
  /\ PartsAreReleases

LEMMA SourceInit ==
  ASSUME CatalogAssumption, Init, FreshInv
  PROVE  SourceInv
  <1>1. /\ DOMAIN colls = Tracks
        /\ \A t \in Tracks : \A m \in DOMAIN colls[t] :
             /\ colls[t][m].resolution = None /\ IsSnapshot(colls[t][m])
             /\ \A n \in DOMAIN colls[t] : colls[t][n].type = colls[t][m].type
    BY DEF Init, CatalogAssumption
  <1>2. \A r \in Requests : req[r].phase = "idle" /\ req[r].doc.resolution = None
    BY IdleKnown DEF Init
  <1>3. OneType
    <2>1. \A t \in Tracks : DOMAIN colls[t] = {} => registry[t] = None
      BY DEF Init
    <2>2. \A t \in Tracks : DOMAIN colls[t] # {} =>
            \E m \in DOMAIN colls[t] : registry[t] = colls[t][m].type
      <3> SUFFICES ASSUME NEW t \in Tracks, DOMAIN colls[t] # {}
                   PROVE  \E m \in DOMAIN colls[t] : registry[t] = colls[t][m].type
        OBVIOUS
      <3>1. IsFiniteSet(DOMAIN colls[t]) /\ DOMAIN colls[t] \subseteq Nat
        BY DEF Init, CatalogAssumption
      <3>2. PICK m \in DOMAIN colls[t] : \A n \in DOMAIN colls[t] : m >= n
        BY <3>1, GreatestExists
      <3>3. m \in Latest(t)
        <4>1. \A n \in DOMAIN colls[t] : n <= m
          BY <3>1, <3>2
        <4> QED
          BY <4>1 DEF Latest
      <3>4. (CHOOSE k \in Latest(t) : TRUE) \in DOMAIN colls[t]
        BY <3>3 DEF Latest
      <3>5. registry[t] = colls[t][CHOOSE k \in Latest(t) : TRUE].type
        BY DEF Init
      <3> QED
        BY <3>4, <3>5
    <2>3. None \notin Kinds
      BY DEF CatalogAssumption, Kinds
    <2> QED
      BY <1>1, <1>2, <2>1, <2>2, <2>3 DEF OneType, Claim, Claiming, Reading
  <1>4. \A t \in Tracks : \A m \in Tagged(t) : Release(t, colls[t][m]) \in released
    BY DEF Init
  <1>5. \A r \in Requests : /\ Checked(req[r], StandardTracks, released)
                           /\ Sourced(req[r].doc, released)
    BY <1>2 DEF Checked, Sourced
  <1>6. PartsAreReleases
    BY <1>1 DEF PartsAreReleases, Sourced
  <1> QED
    BY <1>3, <1>4, <1>5, <1>6 DEF SourceInv

LEMMA StandardKept ==
  ASSUME CatalogInv, CatalogAssumption, [Next]_vars
  PROVE  StandardTracks \subseteq StandardTracks'
  BY StepsConsistent, SettledKept DEF Consistent, StandardTracks

LEMMA OneTypeKept ==
  ASSUME CatalogInv, CatalogAssumption, OneType, [Next]_vars
  PROVE  OneType'
  BY StepsConsistent DEF Consistent, OneType

\* Only tagging makes a release.
LEMMA ReleasedChanges ==
  ASSUME TypeOK, CatalogAssumption, [Next]_vars
  PROVE  UNCHANGED released \/ \E t \in Tracks : Tag(t)
  <1>1. CASE UNCHANGED vars
    BY <1>1 DEF vars
  <1>2. ASSUME NEW t \in Tracks, Edit(t) \/ Withdraw(t)
        PROVE  UNCHANGED released
    BY <1>2 DEF Edit, Withdraw
  <1>3. ASSUME NEW o \in Objects, Write(o)
        PROVE  UNCHANGED released
    BY <1>3 DEF Write
  <1>4. ASSUME NEW r \in Requests,
               \/ SaveTrack(r) \/ Fill(r) \/ Clone(r) \/ RegisterTrack(r) \/ Deregister(r)
               \/ Fail(r) \/ Drop(r)
        PROVE  UNCHANGED released
    BY <1>4, SaveEffect, FillEffect, CloneEffect, RegisterEffect, DeregisterEffect,
       FailEffect, DropEffect
  <1>5. ASSUME NEW r \in Requests,
               \/ BeginCreate(r) \/ BeginClone(r) \/ SaveTrackFails(r)
               \/ BeginImport(r) \/ ImportObject(r) \/ Imported(r) \/ BeginDelete(r)
        PROVE  UNCHANGED released
    BY <1>5 DEF BeginCreate, BeginClone, SaveTrackFails, BeginImport, ImportObject, Imported,
       BeginDelete
  <1>6. ASSUME NEW r \in Requests,
               \/ BeginCompose(r) \/ BeginRecompose(r) \/ Validate(r) \/ Resolve(r) \/ Preview(r)
               \/ Compose(r) \/ BeginExport(r) \/ Hydrate(r) \/ HydrateFails(r)
               \/ Answer(r)
        PROVE  UNCHANGED released
    <2>1. BeginCompose(r) => UNCHANGED released
      BY DEF BeginCompose
    <2>2. BeginRecompose(r) \/ BeginExport(r) \/ Hydrate(r) \/ HydrateFails(r) => UNCHANGED released
      BY DEF BeginRecompose, BeginExport, Hydrate, HydrateFails
    <2>3. Validate(r) \/ Resolve(r) \/ Preview(r) \/ Compose(r) \/ Answer(r) => UNCHANGED released
      BY DEF Validate, Resolve, Preview, Compose, Answer
    <2> QED
      BY <1>6, <2>1, <2>2, <2>3
  <1> QED
    BY <1>1, <1>2, <1>3, <1>4, <1>5, <1>6 DEF Next

LEMMA ReleasedGrows ==
  ASSUME CatalogInv, CatalogAssumption, [Next]_vars
  PROVE  released \subseteq released'
  <1>1. UNCHANGED released \/ \E t \in Tracks : Tag(t)
    BY ReleasedChanges DEF CatalogInv
  <1>2. ASSUME NEW t \in Tracks, Tag(t)
        PROVE  released \subseteq released'
    BY <1>2 DEF Tag
  <1> QED
    BY <1>1, <1>2

\* Where the snapshots after a step come from.
LEMMA SnapshotsFrom ==
  ASSUME CatalogInv, CatalogAssumption, [Next]_vars, NEW t \in Tracks, NEW m \in DOMAIN colls'[t]
  PROVE  LET s == colls'[t][m] IN
         \/ m \in DOMAIN colls[t] /\ s = colls[t][m]
         \/ /\ Release(t, s) \in released' \/ ~IsTagged(s)
            /\ \/ \E n \in DOMAIN colls[t] : s.resolution = colls[t][n].resolution
               \/ \E r \in Requests : s.resolution = req[r].doc.resolution
  <1> DEFINE s == colls'[t][m]
             Same == m \in DOMAIN colls[t] /\ s = colls[t][m]
  <1>0. TypeOK
    BY DEF CatalogInv
  <1>1. UNCHANGED colls => Same
    OBVIOUS
  <1>2. ASSUME NEW u \in Tracks, Edit(u)
        PROVE  Same \/ (~IsTagged(s) /\ \E n \in DOMAIN colls[t] : s.resolution = colls[t][n].resolution)
    <2>0. PICK n \in DOMAIN colls[u] : \E d : /\ Adds(u, d) /\ d.version = 0
                                             /\ d.resolution = colls[u][n].resolution
      BY <1>0, <1>2, EditEffect
    <2>1. PICK d : Adds(u, d) /\ d.version = 0 /\ d.resolution = colls[u][n].resolution
      BY <2>0
    <2>2. u # t \/ m # d.modified => Same
      BY <2>1 DEF Adds
    <2>3. u = t /\ m = d.modified => s = d
      BY <2>1 DEF Adds
    <2> HIDE DEF s, Same
    <2> QED
      BY <2>1, <2>2, <2>3 DEF IsTagged
  <1>3. ASSUME NEW u \in Tracks, Tag(u)
        PROVE  Same \/ (/\ Release(t, s) \in released'
                        /\ \E n \in DOMAIN colls[t] : s.resolution = colls[t][n].resolution)
    <2>1. PICK n \in DOMAIN colls[u] : \E d :
            /\ \A v \in Tracks \ {u} : colls'[v] = colls[v]
            /\ DOMAIN colls'[u] = DOMAIN colls[u]
            /\ \A k \in DOMAIN colls[u] \ {n} : colls'[u][k] = colls[u][k]
            /\ colls'[u][n] = d /\ d.resolution = colls[u][n].resolution
            /\ released' = released \cup {Release(u, d)}
      BY <1>0, <1>3, TagEffect
    <2> QED
      BY <2>1
  <1>4. ASSUME NEW u \in Tracks, Withdraw(u)
        PROVE  Same
    BY <1>0, <1>4, WithdrawEffect
  <1>5. ASSUME NEW r \in Requests, SaveTrack(r) \/ Fill(r) \/ Clone(r)
        PROVE  Same \/ (~IsTagged(s) /\ s.resolution = req[r].doc.resolution)
    <2>1. \/ UNCHANGED colls
          \/ \E d : Adds(req[r].track, d) /\ d.version = 0 /\ d.resolution = req[r].doc.resolution
      BY <1>0, <1>5, SaveEffect, FillEffect, CloneEffect DEF Saves
    <2> QED
      BY <1>1, <2>1 DEF Adds, IsTagged
  <1>6. ASSUME NEW r \in Requests, Drop(r)
        PROVE  Same
    BY <1>0, <1>6, DropEffect
  <1>7. ASSUME NEW r \in Requests, RegisterTrack(r) \/ Deregister(r) \/ Fail(r) \/ Calm(r)
        PROVE  Same
    BY <1>0, <1>1, <1>7, RegisterEffect, DeregisterEffect, FailEffect DEF Calm
  <1>8. ASSUME NEW o \in Objects, Write(o)
        PROVE  Same
    BY <1>1, <1>8 DEF Write
  <1> QED
    <2>1. \A r \in Requests : SaveTrack(r) \/ Fill(r) \/ Clone(r) \/ RegisterTrack(r) \/ Deregister(r)
                             \/ Fail(r) \/ Drop(r) \/ Calm(r) =>
            Same \/ (~IsTagged(s) /\ s.resolution = req[r].doc.resolution)
      BY <1>5, <1>6, <1>7
    <2>2. \A u \in Tracks : Edit(u) \/ Tag(u) \/ Withdraw(u) =>
            Same \/ ((Release(t, s) \in released' \/ ~IsTagged(s))
                     /\ \E n \in DOMAIN colls[t] : s.resolution = colls[t][n].resolution)
      BY <1>2, <1>3, <1>4
    <2> HIDE DEF s, Same
    <2>3. \/ UNCHANGED vars
          \/ \E u \in Tracks : Edit(u) \/ Tag(u) \/ Withdraw(u)
          \/ \E o \in Objects : Write(o)
          \/ \E r \in Requests : SaveTrack(r) \/ Fill(r) \/ Clone(r) \/ RegisterTrack(r) \/ Deregister(r)
                                 \/ Fail(r) \/ Drop(r) \/ Calm(r)
      BY <1>0, CalmSteps DEF Next
    <2>4. CASE UNCHANGED vars \/ \E o \in Objects : Write(o)
      <3>1. UNCHANGED vars => Same
        BY <1>1 DEF vars
      <3>2. (\E o \in Objects : Write(o)) => Same
        BY <1>8
      <3>3. Same
        BY <2>4, <3>1, <3>2
      <3> QED
        BY <3>3 DEF s, Same
    <2>5. CASE \E u \in Tracks : Edit(u) \/ Tag(u) \/ Withdraw(u)
      <3>1. \/ Same
            \/ /\ Release(t, s) \in released' \/ ~IsTagged(s)
               /\ \E n \in DOMAIN colls[t] : s.resolution = colls[t][n].resolution
        BY <2>2, <2>5
      <3> QED
        BY <3>1 DEF s, Same
    <2>6. CASE \E r \in Requests : \/ SaveTrack(r) \/ Fill(r) \/ Clone(r) \/ RegisterTrack(r)
                                   \/ Deregister(r) \/ Fail(r) \/ Drop(r) \/ Calm(r)
      <3>1. Same \/ (~IsTagged(s) /\ \E r \in Requests : s.resolution = req[r].doc.resolution)
        BY <2>1, <2>6
      <3> QED
        BY <3>1 DEF s, Same
    <2> QED
      BY <2>3, <2>4, <2>5, <2>6

LEMMA SourcedLike ==
  ASSUME NEW s, NEW d, NEW old, NEW new, Sourced(s, old), d.resolution = s.resolution,
         old \subseteq new
  PROVE  Sourced(d, new)
  BY DEF Sourced

\* A request that did not move, or only forgot releases.
LEMMA OthersChecked ==
  ASSUME NEW q, NEW n, NEW standard, NEW standard1, NEW releases, NEW releases1,
         Checked(q, standard, releases), standard \subseteq standard1, releases \subseteq releases1,
         n.phase = q.phase, n.op = q.op, n.doc = q.doc, n.found = q.found, n.next = q.next
  PROVE  Checked(n, standard1, releases1)
  <1>1. Components(n) = Components(q) /\ (Comparing(n) <=> Comparing(q))
    BY DEF Components, Comparing
  <1> QED
    BY <1>1 DEF Checked, Vouched

LEMMA ComposeChecked ==
  ASSUME TypeOK, NEW r \in Requests, BeginCompose(r), NEW standard, NEW releases
  PROVE  Checked(req'[r], standard, releases)
  <1> DEFINE n == req'[r]
  <1>1. n.phase = "validate" /\ n.next = 1 /\ Known(n)
    BY ComposeCalm DEF ComposeBegun, Calm, Alters
  <1>2. \A i \in DOMAIN Components(n) : ~(i < n.next)
    BY <1>1 DEF Known, IsSnapshot, Components
  <1> QED
    BY <1>1, <1>2 DEF Checked

LEMMA RegisteredStandard ==
  ASSUME OneType, CatalogAssumption, NEW t \in Tracks, registry[t] = "standard"
  PROVE  t \in StandardTracks
  <1>1. "standard" \in Kinds /\ "standard" # None
    BY DEF Kinds, CatalogAssumption
  <1>2. Claim(t, "standard") /\ Settled(t)
    BY <1>1 DEF Claim, Settled
  <1> QED
    BY <1>1, <1>2 DEF OneType, StandardTracks

LEMMA ValidateChecked ==
  ASSUME SourceInv, CatalogAssumption, NEW r \in Requests, Validate(r), NEW releases
  PROVE  Checked(req'[r], StandardTracks, releases)
  <1> DEFINE q == req[r]
             n == req'[r]
             C == Components(q)
  <1>1. Checked(q, StandardTracks, released) /\ Known(q) /\ TypeOK /\ OneType
    BY DEF SourceInv, FreshInv, CatalogInv, TypeOK
  <1>2. /\ Len(C) \in Nat /\ DOMAIN C = 1..Len(C)
        /\ \A i \in DOMAIN C : C[i].track \in Tracks
    BY <1>1 DEF Known, IsSnapshot, Components
  <1>3. CASE n = Idle
    BY <1>3, IdleKnown DEF Checked
  <1>4. CASE /\ registry[C[q.next].track] = "standard" /\ n.op = q.op /\ n.doc = q.doc
             /\ n.phase = "validate" /\ q.next < Len(C) /\ n.next = q.next + 1
    <2> SUFFICES ASSUME Comparing(n)
                 PROVE  /\ n.next \in Nat
                        /\ \A i \in DOMAIN C : i < n.next => C[i].track \in StandardTracks
      BY <1>4 DEF Checked, Components
    <2>1. /\ q.next \in Nat /\ \A i \in DOMAIN C : i < q.next => C[i].track \in StandardTracks
      BY <1>1, <1>4, ValidateStep DEF Checked, Comparing
    <2>2. \A i \in DOMAIN C : i < n.next => i < q.next \/ i = q.next
      BY <1>2, <1>4, <2>1
    <2>3. q.next \in DOMAIN C => C[q.next].track \in StandardTracks
      BY <1>1, <1>2, <1>4, RegisteredStandard
    <2> QED
      BY <1>4, <2>1, <2>2, <2>3
  <1>5. CASE n.phase = "clone"
    BY <1>5 DEF Checked
  <1>6. CASE /\ registry[C[q.next].track] = "standard" /\ n.op = q.op /\ n.doc = q.doc
             /\ n.phase = "resolve" /\ ~(q.next < Len(C)) /\ n.found = [i \in DOMAIN C |-> None]
    <2> SUFFICES ASSUME Comparing(n)
                 PROVE  \A i \in DOMAIN C : C[i].track \in StandardTracks
      BY <1>6 DEF Checked, Components
    <2>1. /\ q.next \in Nat /\ \A i \in DOMAIN C : i < q.next => C[i].track \in StandardTracks
      BY <1>1, <1>6, ValidateStep DEF Checked, Comparing
    <2>2. \A i \in DOMAIN C : i < q.next \/ i = q.next
      BY <1>2, <1>6, <2>1
    <2>3. q.next \in DOMAIN C => C[q.next].track \in StandardTracks
      BY <1>1, <1>2, <1>6, RegisteredStandard
    <2> QED
      BY <2>1, <2>2, <2>3
  <1> QED
    BY <1>1, <1>3, <1>4, <1>5, <1>6, ValidateStep

LEMMA ResolveChecked ==
  ASSUME SourceInv, NEW r \in Requests, Resolve(r)
  PROVE  Checked(req'[r], StandardTracks, released)
  <1> DEFINE q == req[r]
             n == req'[r]
             C == Components(q)
  <1>1. Checked(q, StandardTracks, released) /\ Timely(q) /\ Known(q) /\ TypeOK
    BY DEF SourceInv, FreshInv, CatalogInv, TypeOK
  <1>2. CASE n = Idle
    BY <1>2, IdleKnown DEF Checked
  <1>3. CASE /\ n.op = q.op /\ n.doc = q.doc /\ n.phase = "resolve"
             /\ \E i \in DOMAIN q.found : \E s \in Resolved(C[i]) : n.found = [q.found EXCEPT ![i] = s]
    <2>0. q.phase = "resolve"
      BY <1>1, ResolveStep
    <2> SUFFICES ASSUME Comparing(n)
                 PROVE  \A j \in DOMAIN C : /\ C[j].track \in StandardTracks
                                            /\ n.found[j] # None => Vouched(C[j].track, n.found[j], released)
      BY <1>3 DEF Checked, Components
    <2>1. /\ DOMAIN q.found = DOMAIN C
          /\ \A j \in DOMAIN C : C[j].track \in StandardTracks
          /\ \A j \in DOMAIN C : q.found[j] # None => Vouched(C[j].track, q.found[j], released)
      BY <1>1, <1>3, <2>0 DEF Checked, Timely, Comparing
    <2>2. PICK i \in DOMAIN q.found : \E s \in Resolved(C[i]) : n.found = [q.found EXCEPT ![i] = s]
      BY <1>3
    <2>3. PICK s \in Resolved(C[i]) : n.found = [q.found EXCEPT ![i] = s]
      BY <2>2
    <2>4. PICK m \in Tagged(C[i].track) : s = colls[C[i].track][m]
      <3>1. C[i].by \in {"latest_tagged", "specific_version", "specific_snapshot"}
        BY <1>1, <2>1 DEF Known, IsSnapshot, Components
      <3>2. CASE C[i].by = "latest_tagged"
        BY <3>2 DEF Resolved, LatestTagged
      <3>3. CASE C[i].by = "specific_version"
        BY <3>3 DEF Resolved
      <3>4. CASE C[i].by = "specific_snapshot"
        BY <3>4 DEF Resolved
      <3> QED
        BY <3>1, <3>2, <3>3, <3>4
    <2>5. C[i].track \in Tracks /\ m \in DOMAIN colls[C[i].track] /\ C[i].track \in StandardTracks
      <3>1. C[i].track \in StandardTracks
        <4> HIDE DEF n, C, q
        <4>1. i \in DOMAIN C
          BY <2>1
        <4> QED
          BY <2>1, <4>1
      <3>2. StandardTracks \subseteq Tracks
        BY DEF StandardTracks
      <3>3. Tagged(C[i].track) \subseteq DOMAIN colls[C[i].track]
        BY DEF Tagged
      <3> QED
        BY <3>1, <3>2, <3>3
    <2>6. Release(C[i].track, s) \in released
      BY <2>4, <2>5 DEF SourceInv
    <2>7. s.type = "standard"
      <3>1. s.type \in Kinds
        BY <1>1, <2>4, <2>5 DEF TypeOK, IsSnapshot, Kinds
      <3>2. Claim(C[i].track, s.type)
        BY <2>4, <2>5 DEF Claim
      <3> QED
        BY <2>5, <3>1, <3>2 DEF StandardTracks
    <2>8. Vouched(C[i].track, s, released)
      BY <2>6, <2>7 DEF Vouched
    <2>9. n.found[i] = s /\ \A j \in DOMAIN C \ {i} : n.found[j] = q.found[j]
      BY <2>1, <2>3
    <2> HIDE DEF n, C, q
    <2> QED
      <3>1. SUFFICES ASSUME NEW j \in DOMAIN C
                     PROVE  /\ C[j].track \in StandardTracks
                            /\ n.found[j] # None => Vouched(C[j].track, n.found[j], released)
        OBVIOUS
      <3>2. CASE j = i
        BY <2>5, <2>8, <2>9, <3>2
      <3>3. CASE j # i
        BY <2>1, <2>9, <3>3
      <3> QED
        BY <3>2, <3>3
  <1> QED
    BY <1>1, <1>2, <1>3, ResolveStep

\* Every component of a composition is resolved to a release of a standard track.
LEMMA ComposedVouched ==
  ASSUME SourceInv, NEW r \in Requests, Compose(r)
  PROVE  \A i \in DOMAIN Components(req[r]) :
           Vouched(Components(req[r])[i].track, req[r].found[i], released)
  <1> DEFINE q == req[r]
             C == Components(q)
  <1>1. Checked(q, StandardTracks, released) /\ Timely(q) /\ TypeOK
    BY DEF SourceInv, FreshInv, CatalogInv, TypeOK
  <1>2. q.phase = "resolve" /\ Unresolved(q) = {} /\ q.op = "compose"
    BY <1>1, ComposeStep
  <1>3. /\ DOMAIN q.found = DOMAIN C
        /\ \A i \in DOMAIN C : q.found[i] # None => Vouched(C[i].track, q.found[i], released)
    BY <1>1, <1>2 DEF Checked, Timely, Comparing
  <1> QED
    BY <1>2, <1>3 DEF Unresolved

LEMMA ComposedSourced ==
  ASSUME SourceInv, NEW r \in Requests, Compose(r)
  PROVE  Sourced(req'[r].doc, released)
  <1> DEFINE q == req[r]
             C == Components(q)
             p == Composed(q).resolution.parts
  <1>1. Known(q) /\ TypeOK
    BY DEF SourceInv, FreshInv, CatalogInv, TypeOK
  <1>2. req'[r].doc = Composed(q)
    BY <1>1, ComposeStep
  <1>4. \A i \in DOMAIN C : Vouched(C[i].track, q.found[i], released)
    BY ComposedVouched
  <1>5. /\ DOMAIN p = DOMAIN C
        /\ \A i \in DOMAIN C : /\ p[i].track = C[i].track
                               /\ p[i].snapshot = q.found[i].modified
                               /\ p[i].version = q.found[i].version
    BY <1>1, ComposedKeeps
  <1>6. ASSUME NEW i \in DOMAIN p
        PROVE  \E x \in released : /\ x.track = p[i].track /\ x.modified = p[i].snapshot
                                  /\ x.version = p[i].version /\ x.type = "standard"
    <2> DEFINE x == Release(C[i].track, q.found[i])
    <2>1. /\ x.track = C[i].track /\ x.modified = q.found[i].modified
          /\ x.version = q.found[i].version /\ x.type = q.found[i].type
      BY DEF Release
    <2>2. x \in released /\ q.found[i].type = "standard"
      BY <1>4, <1>5 DEF Vouched
    <2> HIDE DEF x
    <2> QED
      BY <1>5, <2>1, <2>2
  <1> QED
    BY <1>2, <1>6 DEF Sourced

LEMMA RequestSourced ==
  ASSUME SourceInv, CatalogAssumption, NEW r \in Requests, Calm(r), Inherits(r)
  PROVE  Sourced(req'[r].doc, released)
  <1>1. /\ Sourced(req[r].doc, released)
        /\ \A t \in Tracks : \A m \in DOMAIN colls[t] : Sourced(colls[t][m], released)
    BY DEF SourceInv, PartsAreReleases
  <1>2. CASE req'[r].doc.resolution = None
    BY <1>2 DEF Sourced
  <1>3. CASE req'[r].doc.resolution # None
    <2>1. \/ req'[r].doc.resolution = req[r].doc.resolution
          \/ \E t \in Tracks : \E m \in DOMAIN colls[t] :
               req'[r].doc.resolution = colls[t][m].resolution
      BY <1>3 DEF Inherits
    <2> QED
      BY <1>1, <2>1 DEF Sourced
  <1> QED
    BY <1>2, <1>3

LEMMA MoverSourced ==
  ASSUME SourceInv, CatalogAssumption, NEW r \in Requests,
         \/ BeginCreate(r) \/ BeginClone(r) \/ SaveTrackFails(r)
         \/ BeginImport(r) \/ ImportObject(r) \/ Imported(r) \/ BeginDelete(r)
         \/ BeginCompose(r) \/ BeginRecompose(r) \/ Validate(r) \/ Resolve(r) \/ Preview(r)
         \/ Compose(r) \/ BeginExport(r) \/ Hydrate(r) \/ HydrateFails(r)
         \/ Answer(r)
  PROVE  Checked(req'[r], StandardTracks, released) /\ Sourced(req'[r].doc, released)
  <1>0. TypeOK /\ Calm(r)
    BY CalmSteps DEF SourceInv, FreshInv, CatalogInv
  <1>1. CASE Compose(r)
    <2>1. req'[r].phase = "clone"
      BY <1>0, <1>1, ComposeStep
    <2> QED
      BY <1>1, <2>1, ComposedSourced DEF Checked
  <1>2. SUFFICES ASSUME ~Compose(r)
                 PROVE  Checked(req'[r], StandardTracks, released) /\ Inherits(r)
    BY <1>0, <1>1, RequestSourced
  <1>3. CASE SaveTrackFails(r) \/ Preview(r) \/ Answer(r)
    <2>1. req'[r] = Idle
      BY <1>0, <1>3, Ending DEF SaveTrackFails, Preview, Answer
    <2> QED
      BY <2>1, IdleKnown DEF Checked, Inherits
  <1>4. CASE BeginCreate(r) \/ BeginClone(r) \/ BeginImport(r) \/ BeginDelete(r) \/ BeginExport(r)
    <2>1. req'[r].phase \notin Reading /\ Inherits(r)
      BY <1>0, <1>4, CreateCalm, CloneCalm, BeginImportCalm, DeleteCalm, ExportCalm DEF Reading
    <2> QED
      BY <2>1 DEF Checked, Reading
  <1>5. CASE ImportObject(r) \/ Imported(r) \/ Hydrate(r) \/ HydrateFails(r)
    <2>1. req'[r].phase \notin Reading /\ Inherits(r)
      BY <1>0, <1>5, ImportObjectCalm, ImportedCalm, HydrateCalm DEF Reading, Inherits
    <2> QED
      BY <2>1 DEF Checked, Reading
  <1>6. CASE BeginRecompose(r)
    <2>1. /\ ~Comparing(req'[r])
          /\ \E m \in DOMAIN colls[req'[r].track] :
               req'[r].doc.resolution = colls[req'[r].track][m].resolution
      BY <1>0, <1>6, RecomposeCalm DEF Comparing, Alike
    <2>2. req'[r].track \in Tracks
      BY <1>0, <1>6, RecomposeCalm
    <2> QED
      BY <2>1, <2>2 DEF Checked, Inherits
  <1>7. CASE BeginCompose(r)
    <2>1. ComposeBegun(r) /\ Known(req'[r])
      BY <1>0, <1>7, ComposeCalm DEF Calm, Alters
    <2>2. Inherits(r)
      BY <2>1 DEF ComposeBegun, Known, Inherits
    <2> QED
      BY <1>0, <1>7, <2>2, ComposeChecked
  <1>8. CASE Validate(r) \/ Resolve(r)
    <2>1. req'[r].doc = req[r].doc \/ req'[r] = Idle
      BY <1>0, <1>8, ValidateStep, ResolveStep
    <2>2. Inherits(r)
      BY <2>1, IdleKnown DEF Inherits
    <2> QED
      BY <1>8, <2>2, ValidateChecked, ResolveChecked
  <1> QED
    BY <1>2, <1>3, <1>4, <1>5, <1>6, <1>7, <1>8

\* A request after a step that changed a collection or the registry.
LEMMA SaverSourced ==
  ASSUME SourceInv, CatalogAssumption, NEW r \in Requests,
         \/ SaveTrack(r) \/ RegisterTrack(r) \/ Fill(r) \/ Clone(r)
         \/ Drop(r) \/ Deregister(r) \/ Fail(r)
  PROVE  Checked(req'[r], StandardTracks, released) /\ Sourced(req'[r].doc, released)
  <1>0. TypeOK /\ Sourced(req[r].doc, released)
    BY DEF SourceInv, FreshInv, CatalogInv
  <1>1. req'[r].phase \notin Reading
    BY <1>0, IdleKnown, SaveEffect, RegisterEffect, FillEffect, CloneEffect, DropEffect,
       DeregisterEffect, FailEffect DEF Reading
  <1>2. req'[r] = Idle \/ req'[r].doc.resolution = req[r].doc.resolution
    <2>1. Drop(r) => req'[r].doc.resolution = req[r].doc.resolution
      BY <1>0, DropEffect
    <2> QED
      BY <1>0, <2>1, SaveEffect, RegisterEffect, FillEffect, CloneEffect, DeregisterEffect, FailEffect
  <1>3. Sourced(req'[r].doc, released)
    BY <1>0, <1>2, IdleKnown DEF Sourced
  <1> QED
    BY <1>1, <1>3 DEF Checked, Reading

LEMMA RequestsSourced ==
  ASSUME SourceInv, CatalogAssumption, [Next]_vars, NEW s \in Requests
  PROVE  Checked(req'[s], StandardTracks', released') /\ Sourced(req'[s].doc, released')
  <1>0. CatalogInv /\ TypeOK /\ Checked(req[s], StandardTracks, released) /\ Sourced(req[s].doc, released)
    BY DEF SourceInv, FreshInv, CatalogInv
  <1>1. StandardTracks \subseteq StandardTracks' /\ released \subseteq released'
    BY <1>0, StandardKept, ReleasedGrows
  <1>2. ASSUME LET q == req[s]  n == req'[s] IN
                 /\ n.phase = q.phase /\ n.op = q.op /\ n.doc = q.doc /\ n.found = q.found
                 /\ n.next = q.next
        PROVE  Checked(req'[s], StandardTracks', released') /\ Sourced(req'[s].doc, released')
    BY <1>0, <1>1, <1>2, OthersChecked, SourcedLike
  <1>3. ASSUME Checked(req'[s], StandardTracks, released) /\ Sourced(req'[s].doc, released)
        PROVE  Checked(req'[s], StandardTracks', released') /\ Sourced(req'[s].doc, released')
    BY <1>1, <1>3, OthersChecked, SourcedLike
  <1>4. CASE Steady
    BY <1>2, <1>4 DEF Steady
  <1>5. CASE UNCHANGED vars
    BY <1>0, <1>4, <1>5, UnchangedSteady DEF vars
  <1>6. ASSUME NEW t \in Tracks, Edit(t) \/ Tag(t) \/ Withdraw(t)
        PROVE  Steady
    BY <1>0, <1>6, EditEffect, TagEffect, WithdrawEffect, UnchangedSteady
  <1>7. ASSUME NEW o \in Objects, Write(o)
        PROVE  Steady
    BY <1>0, <1>7, WriteEffect
  <1>8. ASSUME NEW r \in Requests,
               \/ SaveTrack(r) \/ RegisterTrack(r) \/ Fill(r) \/ Clone(r)
               \/ Drop(r) \/ Deregister(r) \/ Fail(r)
        PROVE  Checked(req'[s], StandardTracks', released') /\ Sourced(req'[s].doc, released')
    <2>1. CASE s = r
      BY <1>3, <1>8, <2>1, SaverSourced
    <2>2. CASE s # r /\ Drop(r)
      <3>1. req'[s] = Forgets(req[r].track, DOMAIN colls[req[r].track])[s]
        BY <1>0, <2>2, DropEffect
      <3> QED
        BY <1>0, <1>2, <3>1, Forgetting
    <2>3. CASE s # r /\ ~Drop(r)
      <3>1. req'[s] = req[s]
        BY <1>0, <1>8, <2>3, SaveEffect, RegisterEffect, FillEffect, CloneEffect,
           DeregisterEffect, FailEffect DEF Alters
      <3> QED
        BY <1>2, <3>1
    <2> QED
      BY <2>1, <2>2, <2>3
  <1>9. ASSUME NEW r \in Requests,
               \/ BeginCreate(r) \/ BeginClone(r) \/ SaveTrackFails(r)
               \/ BeginImport(r) \/ ImportObject(r) \/ Imported(r) \/ BeginDelete(r)
               \/ BeginCompose(r) \/ BeginRecompose(r) \/ Validate(r) \/ Resolve(r) \/ Preview(r)
               \/ Compose(r) \/ BeginExport(r) \/ Hydrate(r) \/ HydrateFails(r)
               \/ Answer(r)
        PROVE  Checked(req'[s], StandardTracks', released') /\ Sourced(req'[s].doc, released')
    <2>1. CASE s = r
      BY <1>3, <1>9, <2>1, MoverSourced
    <2>2. CASE s # r
      <3>1. req'[s] = req[s]
        BY <1>0, <1>9, <2>2, CalmSteps DEF Calm, Alters
      <3> QED
        BY <1>2, <3>1
    <2> QED
      BY <2>1, <2>2
  <1> QED
    BY <1>4, <1>5, <1>6, <1>7, <1>8, <1>9 DEF Next

LEMMA SourceStep ==
  ASSUME SourceInv, FreshInv', CatalogAssumption, [Next]_vars
  PROVE  SourceInv'
  <1>0. CatalogInv /\ OneType
    BY DEF SourceInv, FreshInv
  <1>1. OneType'
    BY <1>0, OneTypeKept
  <1>2. released \subseteq released'
    BY <1>0, ReleasedGrows
  <1>3. \A t \in Tracks : \A m \in Tagged(t)' : Release(t, colls'[t][m]) \in released'
    <2> SUFFICES ASSUME NEW t \in Tracks, NEW m \in DOMAIN colls'[t], IsTagged(colls'[t][m])
                 PROVE  Release(t, colls'[t][m]) \in released'
      BY DEF Tagged, IsTagged
    <2>1. CASE m \in DOMAIN colls[t] /\ colls'[t][m] = colls[t][m]
      BY <1>2, <2>1 DEF SourceInv, Tagged
    <2> QED
      BY <1>0, <2>1, SnapshotsFrom
  <1>4. ASSUME NEW t \in Tracks, NEW m \in DOMAIN colls'[t]
        PROVE  Sourced(colls'[t][m], released')
    <2>1. /\ \A n \in DOMAIN colls[t] : Sourced(colls[t][n], released)
          /\ \A r \in Requests : Sourced(req[r].doc, released)
      BY DEF SourceInv, PartsAreReleases
    <2> QED
      BY <1>0, <1>2, <2>1, SnapshotsFrom, SourcedLike
  <1>5. PartsAreReleases'
    BY <1>4 DEF PartsAreReleases
  <1>6. \A r \in Requests : /\ Checked(req'[r], StandardTracks', released')
                           /\ Sourced(req'[r].doc, released')
    BY RequestsSourced
  <1> QED
    BY <1>1, <1>3, <1>5, <1>6 DEF SourceInv, Release

LEMMA SourceInvariant ==
  Spec => []SourceInv
  <1>1. Init /\ FreshInv => SourceInv
    BY SourceInit, CatalogAssumption
  <1>2. SourceInv /\ FreshInv' /\ [Next]_vars => SourceInv'
    BY SourceStep, CatalogAssumption
  <1> QED
    BY <1>1, <1>2, FreshInvariant, PTL DEF Spec

\* createVirtualSnapshot: whatever happens to the tracks while the components are read,
\* each part of composition_resolution is a release that a standard track did make.
THEOREM CompositionsNameReleases ==
  Spec => []PartsAreReleases
  <1>1. SourceInv => PartsAreReleases
    BY DEF SourceInv
  <1> QED
    BY <1>1, SourceInvariant, PTL

-----------------------------------------------------------------------------
(***************************************************************************)
(* An export has what it should.                                           *)
(***************************************************************************)
Pinned(q) == {Pin(q.doc.members[i]) : i \in DOMAIN q.doc.members}

\* What an export has fetched, and what it may still be asked for.
Fetching(q, stored) ==
  q.phase = "hydrate" =>
    /\ q.floor \subseteq stored
    /\ q.found \subseteq Pinned(q)
    /\ {p \in Pinned(q) \cap q.floor : TypeOf[p.ref] \in Types /\ TypeOf[p.ref] \notin q.queue}
         \subseteq q.found

\* The objects of a bundle that are still to be imported.
Queued(q) == q.phase = "import" => q.queue \in Seq(BundleObjects)

\* Neither is a request that has a floor of releases.
Apart(q) == q.phase \in {"import", "hydrate"} => ~Comparing(q)

ExportInv ==
  /\ store \subseteq Pins
  /\ \A r \in Requests : Fetching(req[r], store) /\ Queued(req[r]) /\ Apart(req[r])

\* Nothing else begins to import or to hydrate.
LEMMA OthersElsewhere ==
  ASSUME TypeOK, CatalogAssumption, NEW r \in Requests,
         \/ BeginCreate(r) \/ BeginClone(r) \/ SaveTrackFails(r) \/ Imported(r) \/ BeginDelete(r)
         \/ BeginCompose(r) \/ BeginRecompose(r) \/ Validate(r) \/ Resolve(r) \/ Preview(r)
         \/ Compose(r) \/ Answer(r)
         \/ SaveTrack(r) \/ RegisterTrack(r) \/ Fill(r) \/ Clone(r)
         \/ Drop(r) \/ Deregister(r) \/ Fail(r)
  PROVE  req'[r].phase \notin {"import", "hydrate"}
  <1>1. CASE SaveTrackFails(r) \/ Preview(r) \/ Answer(r)
    BY <1>1, Ending, IdleKnown DEF SaveTrackFails, Preview, Answer
  <1>2. CASE BeginCreate(r) \/ BeginClone(r) \/ Imported(r) \/ BeginDelete(r) \/ BeginRecompose(r)
    BY <1>2, CreateCalm, CloneCalm, ImportedCalm, DeleteCalm, RecomposeCalm
  <1>3. CASE BeginCompose(r) \/ Compose(r)
    BY <1>3, ComposeCalm, ComposeStep DEF ComposeBegun
  <1>4. CASE Validate(r) \/ Resolve(r)
    BY <1>4, ValidateStep, ResolveStep, IdleKnown
  <1>5. CASE \/ SaveTrack(r) \/ RegisterTrack(r) \/ Fill(r) \/ Clone(r)
             \/ Drop(r) \/ Deregister(r) \/ Fail(r)
    BY <1>5, SaveEffect, RegisterEffect, FillEffect, CloneEffect, DropEffect, DeregisterEffect,
       FailEffect, IdleKnown
  <1> QED
    BY <1>1, <1>2, <1>3, <1>4, <1>5

\* Fetching one type: all that is pinned and stored of it, and nothing else.
LEMMA HydrateFetches ==
  ASSUME TypeOK, ExportInv, NEW r \in Requests, Hydrate(r) \/ HydrateFails(r)
  PROVE  Fetching(req'[r], store) /\ Apart(req'[r])
  <1> DEFINE q == req[r]
             n == req'[r]
  <1>1. /\ q.phase = "hydrate" /\ n.doc = q.doc /\ n.op = q.op /\ HydrateGives(r)
        /\ Fetching(q, store) /\ Apart(q)
    BY HydrateCalm DEF ExportInv
  <1>2. PICK type \in q.queue :
          /\ n.queue = q.queue \ {type}
          /\ \/ /\ n.found = q.found \cup (IF type \in Types THEN Fetched(q.doc.members, type) ELSE {})
                /\ n.floor = q.floor
             \/ /\ n.found = q.found
                /\ n.floor = {o \in q.floor : TypeOf[o.ref] # type}
    BY <1>1 DEF HydrateGives
  <1>3. Pinned(n) = Pinned(q)
    BY <1>1 DEF Pinned
  <1>4. Fetched(q.doc.members, type) \subseteq Pinned(q)
    <2> SUFFICES ASSUME NEW o \in Fetched(q.doc.members, type) PROVE o \in Pinned(q)
      OBVIOUS
    <2>1. o \in Pins /\ \E i \in DOMAIN q.doc.members : SamePin(q.doc.members[i], o)
      BY DEF Fetched, ExportInv
    <2>2. PICK i \in DOMAIN q.doc.members : SamePin(q.doc.members[i], o)
      BY <2>1
    <2>3. o = Pin(q.doc.members[i])
      BY <2>1, <2>2 DEF Pins, SamePin, Pin
    <2> QED
      BY <2>3 DEF Pinned
  <1>5. ASSUME NEW p \in Pinned(q), p \in q.floor, TypeOf[p.ref] = type
        PROVE  p \in Fetched(q.doc.members, type)
    <2>1. PICK i \in DOMAIN q.doc.members : p = Pin(q.doc.members[i])
      BY <1>5 DEF Pinned
    <2>2. SamePin(q.doc.members[i], p)
      BY <2>1 DEF Pin, SamePin
    <2>3. p \in store
      BY <1>1, <1>5 DEF Fetching
    <2> QED
      BY <1>5, <2>2, <2>3 DEF Fetched
  <1>6. n.floor \subseteq store /\ n.found \subseteq Pinned(q)
    BY <1>1, <1>2, <1>4 DEF Fetching
  <1>7. ASSUME NEW p \in Pinned(q) \cap n.floor, TypeOf[p.ref] \in Types, TypeOf[p.ref] \notin n.queue
        PROVE  p \in n.found
    <2>1. p \in q.floor /\ (TypeOf[p.ref] = type => Fetched(q.doc.members, type) \subseteq n.found)
      BY <1>2, <1>7
    <2>2. CASE TypeOf[p.ref] = type
      BY <1>5, <2>1, <2>2
    <2>3. CASE TypeOf[p.ref] # type
      <3>1. TypeOf[p.ref] \notin q.queue /\ q.found \subseteq n.found
        BY <1>2, <1>7, <2>3
      <3> QED
        BY <1>1, <1>7, <2>1, <3>1 DEF Fetching
    <2> QED
      BY <2>2, <2>3
  <1>8. Fetching(n, store)
    BY <1>3, <1>6, <1>7 DEF Fetching
  <1>9. Apart(n)
    BY <1>1 DEF Apart, Comparing
  <1> QED
    BY <1>8, <1>9

LEMMA ExportBegins ==
  ASSUME TypeOK, NEW r \in Requests, BeginExport(r)
  PROVE  Fetching(req'[r], store) /\ Apart(req'[r])
  <1> DEFINE n == req'[r]
  <1>1. /\ n.phase = "hydrate" /\ n.op = "export" /\ n.queue = TypesPinned(n.doc)
        /\ n.found = {} /\ n.floor = store
    BY ExportCalm
  <1>2. \A p \in Pinned(n) : TypeOf[p.ref] \in n.queue
    BY <1>1 DEF Pinned, TypesPinned, Pin
  <1> QED
    BY <1>1, <1>2 DEF Fetching, Apart, Comparing

\* The object that is next in a bundle is an object version, and so are the others.
LEMMA ImportQueued ==
  ASSUME TypeOK, ExportInv, NEW r \in Requests, ImportObject(r)
  PROVE  /\ Pin(Head(req[r].queue)) \in Pins
         /\ Queued(req'[r]) /\ Apart(req'[r]) /\ req'[r].phase = "import"
  <1> DEFINE queue == req[r].queue
  <1>1. /\ req[r].phase = "import" /\ req'[r].phase = "import" /\ queue # <<>>
        /\ req'[r].queue = Tail(queue) /\ Calm(r)
    BY ImportObjectCalm
  <1>2. queue \in Seq(BundleObjects) /\ ~Comparing(req[r])
    BY <1>1 DEF ExportInv, Queued, Apart
  <1>3. Head(queue) \in BundleObjects /\ Tail(queue) \in Seq(BundleObjects)
    BY <1>1, <1>2
  <1>4. req'[r].op = req[r].op
    BY <1>1, IdleKnown DEF Calm, Onward, Starts, Stops
  <1> QED
    BY <1>1, <1>2, <1>3, <1>4 DEF Queued, Apart, Comparing, Pin, Pins, BundleObjects

\* What the step of a request leaves of the stored objects.
LEMMA StoreGrows ==
  ASSUME TypeOK, ExportInv, CatalogAssumption, [Next]_vars
  PROVE  store' \subseteq Pins /\ (store \subseteq store' \/ \E o \in Objects : Write(o))
  <1>0. store \subseteq Pins /\ Objects \subseteq Pins
    BY DEF ExportInv, CatalogAssumption
  <1>1. CASE UNCHANGED store
    BY <1>0, <1>1
  <1>2. ASSUME NEW o \in Objects, Write(o)
        PROVE  store' \subseteq Pins
    BY <1>0, <1>2 DEF Write
  <1>3. ASSUME NEW r \in Requests, ImportObject(r)
        PROVE  store' \subseteq Pins /\ store \subseteq store'
    <2>1. store' = store \/ store' = store \cup {Pin(Head(req[r].queue))}
      BY <1>3 DEF ImportObject
    <2> QED
      BY <1>0, <1>3, <2>1, ImportQueued
  <1>4. ASSUME NEW t \in Tracks, Edit(t) \/ Tag(t) \/ Withdraw(t)
        PROVE  UNCHANGED store
    BY <1>4 DEF Edit, Tag, Withdraw
  <1>5. ASSUME NEW r \in Requests,
               \/ BeginCreate(r) \/ BeginClone(r) \/ SaveTrack(r) \/ SaveTrackFails(r)
               \/ RegisterTrack(r) \/ BeginImport(r) \/ Imported(r) \/ Fill(r)
               \/ BeginDelete(r) \/ Drop(r) \/ Deregister(r) \/ Clone(r) \/ Fail(r)
        PROVE  UNCHANGED store
    BY <1>5 DEF BeginCreate, BeginClone, SaveTrack, SaveTrackFails, RegisterTrack, BeginImport,
       Imported, Fill, BeginDelete, Drop, Deregister, Clone, Fail
  <1>6. ASSUME NEW r \in Requests,
               \/ BeginCompose(r) \/ BeginRecompose(r) \/ Validate(r) \/ Resolve(r) \/ Preview(r)
               \/ Compose(r) \/ BeginExport(r) \/ Hydrate(r) \/ HydrateFails(r) \/ Answer(r)
        PROVE  UNCHANGED store
    <2>1. BeginCompose(r) => UNCHANGED store
      BY DEF BeginCompose
    <2>2. BeginRecompose(r) \/ BeginExport(r) \/ Hydrate(r) \/ HydrateFails(r) => UNCHANGED store
      BY DEF BeginRecompose, BeginExport, Hydrate, HydrateFails
    <2>3. Validate(r) \/ Resolve(r) \/ Preview(r) \/ Compose(r) \/ Answer(r) => UNCHANGED store
      BY DEF Validate, Resolve, Preview, Compose, Answer
    <2> QED
      BY <1>6, <2>1, <2>2, <2>3
  <1> QED
    <2>1. UNCHANGED vars => UNCHANGED store
      BY DEF vars
    <2> QED
      BY <1>1, <1>2, <1>3, <1>4, <1>5, <1>6, <2>1 DEF Next

LEMMA ExportStep ==
  ASSUME TypeOK, ExportInv, CatalogAssumption, [Next]_vars
  PROVE  ExportInv'
  <1>1. store' \subseteq Pins /\ (store \subseteq store' \/ \E o \in Objects : Write(o))
    BY StoreGrows
  <1>2. \A s \in Requests : Fetching(req[s], store) /\ Queued(req[s]) /\ Apart(req[s])
    BY DEF ExportInv
  <1>3. ASSUME NEW o \in Objects, Write(o), NEW s \in Requests
        PROVE  Fetching(req'[s], store') /\ Queued(req'[s]) /\ Apart(req'[s])
    <2>1. CASE req[s].phase # "hydrate"
      <3>1. req'[s] = req[s]
        BY <1>3, <2>1, WriteEffect
      <3> QED
        BY <1>2, <2>1, <3>1 DEF Fetching
    <2>2. CASE req[s].phase = "hydrate"
      <3>1. /\ req'[s].floor = req[s].floor \ {o} /\ req'[s].queue = req[s].queue
            /\ req'[s].phase = "hydrate" /\ req'[s].op = req[s].op /\ req'[s].doc = req[s].doc
            /\ req'[s].found = req[s].found
        BY <1>3, <2>2, WriteEffect DEF Steady
      <3>2. store \ {o} \subseteq store'
        BY <1>3 DEF Write
      <3>3. Pinned(req'[s]) = Pinned(req[s])
        BY <3>1 DEF Pinned
      <3> QED
        BY <1>2, <2>2, <3>1, <3>2, <3>3 DEF Fetching, Pinned, Queued, Apart, Comparing
    <2> QED
      BY <2>1, <2>2
  <1>4. ASSUME store \subseteq store', NEW s \in Requests,
               Fetching(req'[s], store) /\ Queued(req'[s]) /\ Apart(req'[s])
        PROVE  Fetching(req'[s], store') /\ Queued(req'[s]) /\ Apart(req'[s])
    BY <1>4 DEF Fetching, Pinned
  <1>5. ASSUME NEW s \in Requests, req'[s] = req[s]
        PROVE  Fetching(req'[s], store) /\ Queued(req'[s]) /\ Apart(req'[s])
    BY <1>2, <1>5
  <1>6. ASSUME NEW s \in Requests, NEW t, NEW gone, req'[s] = Forgets(t, gone)[s]
        PROVE  Fetching(req'[s], store) /\ Queued(req'[s]) /\ Apart(req'[s])
    <2>1. CASE Comparing(req[s])
      <3>1. req'[s].phase = req[s].phase /\ req[s].phase \notin {"import", "hydrate"}
        BY <1>2, <1>6, <2>1, Forgetting DEF Apart
      <3> QED
        BY <3>1 DEF Fetching, Queued, Apart
    <2>2. CASE ~Comparing(req[s])
      BY <1>5, <1>6, <2>2, Forgetting
    <2> QED
      BY <2>1, <2>2
  <1>7. ASSUME NEW s \in Requests, req'[s].phase \notin {"import", "hydrate"}
        PROVE  Fetching(req'[s], store) /\ Queued(req'[s]) /\ Apart(req'[s])
    BY <1>7 DEF Fetching, Queued, Apart
  <1>8. ASSUME NEW t \in Tracks, Edit(t) \/ Tag(t) \/ Withdraw(t), NEW s \in Requests
        PROVE  Fetching(req'[s], store) /\ Queued(req'[s]) /\ Apart(req'[s])
    <2>1. CASE Withdraw(t)
      <3>1. PICK m \in DOMAIN colls[t] : req' = Forgets(t, {m})
        BY <2>1, WithdrawEffect
      <3> QED
        BY <1>6, <3>1
    <2>2. CASE Edit(t) \/ Tag(t)
      BY <1>5, <2>2, EditEffect, TagEffect
    <2> QED
      BY <1>8, <2>1, <2>2
  <1>9. ASSUME NEW r \in Requests,
               \/ SaveTrack(r) \/ RegisterTrack(r) \/ Fill(r) \/ Clone(r)
               \/ Drop(r) \/ Deregister(r) \/ Fail(r),
               NEW s \in Requests
        PROVE  Fetching(req'[s], store) /\ Queued(req'[s]) /\ Apart(req'[s])
    <2>1. CASE s = r
      BY <1>7, <1>9, <2>1, OthersElsewhere
    <2>2. CASE s # r /\ Drop(r)
      BY <1>6, <2>2, DropEffect
    <2>3. CASE s # r /\ ~Drop(r)
      <3>1. req'[s] = req[s]
        BY <1>9, <2>3, SaveEffect, RegisterEffect, FillEffect, CloneEffect,
           DeregisterEffect, FailEffect DEF Alters
      <3> QED
        BY <1>5, <3>1
    <2> QED
      BY <2>1, <2>2, <2>3
  <1>10. ASSUME NEW r \in Requests,
               \/ BeginCreate(r) \/ BeginClone(r) \/ SaveTrackFails(r)
               \/ BeginImport(r) \/ ImportObject(r) \/ Imported(r) \/ BeginDelete(r)
               \/ BeginCompose(r) \/ BeginRecompose(r) \/ Validate(r) \/ Resolve(r) \/ Preview(r)
               \/ Compose(r) \/ BeginExport(r) \/ Hydrate(r) \/ HydrateFails(r)
               \/ Answer(r),
               NEW s \in Requests
        PROVE  Fetching(req'[s], store) /\ Queued(req'[s]) /\ Apart(req'[s])
    <2>1. CASE s # r
      <3>1. req'[s] = req[s]
        BY <1>10, <2>1, CalmSteps DEF Calm, Alters
      <3> QED
        BY <1>5, <3>1
    <2>2. CASE s = r /\ (BeginExport(r) \/ Hydrate(r) \/ HydrateFails(r))
      <3>1. req'[r].phase = "hydrate"
        BY <2>2, ExportCalm, HydrateCalm
      <3>2. Fetching(req'[r], store) /\ Apart(req'[r])
        BY <2>2, ExportBegins, HydrateFetches
      <3> QED
        BY <2>2, <3>1, <3>2 DEF Queued
    <2>3. CASE s = r /\ ImportObject(r)
      BY <2>3, ImportQueued DEF Fetching
    <2>4. CASE s = r /\ BeginImport(r)
      <3>1. /\ req'[r].phase = "import" /\ req'[r].op = "import"
            /\ \E b \in Bundles : req'[r].queue = b.objects
        BY <2>4, BeginImportCalm
      <3> QED
        BY <2>4, <3>1 DEF CatalogAssumption, Fetching, Queued, Apart, Comparing
    <2> QED
      BY <1>7, <1>10, <2>1, <2>2, <2>3, <2>4, OthersElsewhere
  <1>11. ASSUME UNCHANGED vars, NEW s \in Requests
         PROVE  Fetching(req'[s], store) /\ Queued(req'[s]) /\ Apart(req'[s])
    BY <1>5, <1>11 DEF vars
  <1>12. ASSUME store \subseteq store', ~\E o \in Objects : Write(o), NEW s \in Requests
         PROVE  Fetching(req'[s], store) /\ Queued(req'[s]) /\ Apart(req'[s])
    BY <1>8, <1>9, <1>10, <1>11, <1>12 DEF Next
  <1>13. \A s \in Requests : Fetching(req'[s], store') /\ Queued(req'[s]) /\ Apart(req'[s])
    BY <1>1, <1>3, <1>4, <1>12
  <1> QED
    BY <1>1, <1>13 DEF ExportInv, Fetching, Pinned, Queued, Apart, Comparing

LEMMA ExportInvariant ==
  Spec => []ExportInv
  <1>1. Init => ExportInv
    <2> SUFFICES ASSUME Init PROVE ExportInv
      OBVIOUS
    <2>1. store \subseteq Pins /\ \A r \in Requests : req[r].phase = "idle"
      BY CatalogAssumption, IdleKnown DEF Init, CatalogAssumption
    <2> QED
      BY <2>1 DEF ExportInv, Fetching, Queued, Apart
  <1>2. CatalogInv /\ ExportInv /\ [Next]_vars => ExportInv'
    BY ExportStep, CatalogAssumption DEF CatalogInv
  <1> QED
    BY <1>1, <1>2, CatalogInvariant, PTL DEF Spec

\* exportSnapshot with format=bundle: although the pinned objects are fetched type by type
\* while objects come and go, the bundle has all those that were there throughout and
\* whose type was not given up on, and nothing that is not pinned.
THEOREM ExportsAreFaithful ==
  Spec => []ExportFaithful
  <1>1. ExportInv => ExportFaithful
    <2> SUFFICES ASSUME ExportInv, NEW r \in Requests,
                        req[r].phase = "hydrate", req[r].queue = {}
                 PROVE  /\ req[r].found \subseteq Pinned(req[r])
                        /\ {p \in Pinned(req[r]) \cap req[r].floor : TypeOf[p.ref] \in Types}
                             \subseteq req[r].found
      BY DEF ExportFaithful, Pinned
    <2> QED
      BY DEF ExportInv, Fetching
  <1> QED
    BY <1>1, ExportInvariant, PTL

-----------------------------------------------------------------------------
(***************************************************************************)
(* What deduplicate makes of a list of entries.                            *)
(***************************************************************************)
\* An entry has what a strategy compares.
IsEntry(e) == e.mod \in Nat /\ e.snapshot \in Nat /\ e.priority \in Nat

\* The winner among the first entries of a list, for each number of them.
Besting(strategy, group) ==
  LET best[n \in 0 .. Len(group) - 1] ==
        IF n = 0 THEN group[1]
        ELSE IF Beats(strategy, group[n + 1], best[n - 1]) THEN group[n + 1] ELSE best[n - 1]
  IN  best

\* The recursive definition of the winner has its fixed point.
LEMMA BestingSteps ==
  ASSUME NEW S, NEW group \in Seq(S), Len(group) > 0, NEW strategy
  PROVE  LET B == Besting(strategy, group) IN
         /\ B[0] = group[1]
         /\ \A n \in 1 .. (Len(group) - 1) :
              B[n] = IF Beats(strategy, group[n + 1], B[n - 1]) THEN group[n + 1] ELSE B[n - 1]
  <1> DEFINE N == Len(group) - 1
             Step(e, n) == IF Beats(strategy, group[n + 1], e) THEN group[n + 1] ELSE e
             D == [p \in S \X (1 .. N) |-> Step(p[1], p[2])]
             Body(g) == [n \in 0 .. N |-> IF n = 0 THEN group[1] ELSE Step(g[n - 1], n)]
  <1>1. N \in Nat /\ group[1] \in S /\ \A e \in S, n \in 1 .. N : Step(e, n) \in S
    <2>1. Len(group) \in Nat /\ \A i \in 1 .. Len(group) : group[i] \in S
      BY LenProperties, ElementOfSeq
    <2>2. \A n \in 1 .. N : n + 1 \in 1 .. Len(group)
      BY <2>1
    <2> QED
      BY <2>1, <2>2
  <1>2. D \in [S \X (1 .. N) -> S]
    <2> HIDE DEF Step, N
    <2> QED
      BY <1>1
  <1>3. PICK g \in [0 .. N -> S] : g[0] = group[1] /\ \A n \in 1 .. N : g[n] = D[<<g[n - 1], n>>]
    <2> DEFINE v == group[1]
    <2>1. v \in S /\ N \in Nat
      BY <1>1
    <2> HIDE DEF D, N, v
    <2>2. \E g \in [0 .. N -> S] : Follows(g, N, v, D)
      BY <1>2, <2>1, Recursion
    <2> QED
      BY <2>2 DEF v, Follows
  <1>4. g = Body(g)
    <2>1. \A n \in 1 .. N : g[n] = Step(g[n - 1], n)
      <3> TAKE n \in 1 .. N
      <3>1. n - 1 \in 0 .. N
        BY <1>1
      <3>2. g[n - 1] \in S
        BY <1>3, <3>1
      <3> HIDE DEF Step, N
      <3> QED
        BY <1>3, <3>2
    <2> HIDE DEF Step, N
    <2> QED
      BY <1>1, <1>3, <2>1
  <1> DEFINE B == Besting(strategy, group)
  <1>5. B = CHOOSE f : f = Body(f)
    BY DEF Besting
  <1>6. B = Body(B)
    <2> HIDE DEF Body, B
    <2> QED
      BY <1>4, <1>5
  <1>7. B[0] = group[1] /\ \A n \in 1 .. N : B[n] = Step(B[n - 1], n)
    <2>1. \A n \in 0 .. N : Body(B)[n] = IF n = 0 THEN group[1] ELSE Step(B[n - 1], n)
      <3> HIDE DEF Step, N, B
      <3> QED
        OBVIOUS
    <2> HIDE DEF Step, N, B, Body
    <2> QED
      BY <1>1, <1>6, <2>1
  <1> QED
    BY <1>7

\* The winner is an entry that no other beats.
LEMMA WinnerPreferred ==
  ASSUME NEW S, NEW group \in Seq(S), Len(group) > 0, \A e \in S : IsEntry(e),
         NEW strategy \in Strategies \ {"quarantine"}
  PROVE  \E w \in 1 .. Len(group) :
           /\ Winner(strategy, group) = group[w]
           /\ \A j \in 1 .. Len(group) : ~Beats(strategy, group[j], group[w])
  <1> DEFINE N == Len(group) - 1
             B == Besting(strategy, group)
             P(n) == \E w \in 1 .. (n + 1) : /\ B[n] = group[w]
                                             /\ \A j \in 1 .. (n + 1) : ~Beats(strategy, group[j], group[w])
             J == {n \in Nat : n <= N => P(n)}
  <1>1. /\ B[0] = group[1]
        /\ \A n \in 1 .. N :
             B[n] = IF Beats(strategy, group[n + 1], B[n - 1]) THEN group[n + 1] ELSE B[n - 1]
    BY BestingSteps
  <1>2. N \in Nat /\ Len(group) = N + 1 /\ \A i \in 1 .. (N + 1) : IsEntry(group[i])
    BY LenProperties, ElementOfSeq
  <1>3. Winner(strategy, group) = B[N]
    BY DEF Winner, Besting
  <1> HIDE DEF N, B
  <1>4. \A e, f : IsEntry(e) /\ IsEntry(f) =>
          /\ ~Beats(strategy, e, e)
          /\ Beats(strategy, e, f) => ~Beats(strategy, f, e)
          /\ \A d : IsEntry(d) /\ Beats(strategy, e, f) /\ ~Beats(strategy, d, f) => ~Beats(strategy, d, e)
    <2>1. CASE strategy = "prioritize_latest_object"
      BY <2>1 DEF Beats, IsEntry
    <2>2. CASE strategy = "prioritize_latest_snapshot"
      BY <2>2 DEF Beats, IsEntry
    <2>3. CASE strategy = "prioritize_higher_priority"
      BY <2>3 DEF Beats, IsEntry
    <2> QED
      BY <2>1, <2>2, <2>3 DEF Strategies
  <1>5. 0 \in J
    <2>1. IsEntry(group[1])
      BY <1>2
    <2>2. \A j \in 1 .. (0 + 1) : j = 1
      OBVIOUS
    <2> QED
      BY <1>1, <1>4, <2>1, <2>2
  <1>6. ASSUME NEW n \in J PROVE n + 1 \in J
    <2> SUFFICES ASSUME n + 1 <= N PROVE P(n + 1)
      OBVIOUS
    <2>1. n \in Nat /\ n + 1 \in 1 .. N /\ (n + 1) - 1 = n /\ n + 2 \in 1 .. (N + 1)
      BY <1>2
    <2>2. PICK w \in 1 .. (n + 1) :
            B[n] = group[w] /\ \A j \in 1 .. (n + 1) : ~Beats(strategy, group[j], group[w])
      BY <1>2, <2>1
    <2>3. B[n + 1] = IF Beats(strategy, group[n + 2], group[w]) THEN group[n + 2] ELSE group[w]
      <3>1. (n + 1) + 1 = n + 2
        BY <2>1
      <3> QED
        BY <1>1, <2>1, <2>2, <3>1
    <2>4. \A j \in 1 .. ((n + 1) + 1) : j \in 1 .. (n + 1) \/ j = n + 2
      BY <2>1
    <2>5. \A j \in 1 .. ((n + 1) + 1) : IsEntry(group[j])
      <3>1. \A j \in 1 .. ((n + 1) + 1) : j \in 1 .. (N + 1)
        BY <1>2, <2>1
      <3> QED
        BY <1>2, <3>1
    <2>6. w \in 1 .. ((n + 1) + 1) /\ n + 2 \in 1 .. ((n + 1) + 1)
      BY <2>1
    <2>7. CASE Beats(strategy, group[n + 2], group[w])
      <3>1. \A j \in 1 .. ((n + 1) + 1) : ~Beats(strategy, group[j], group[n + 2])
        BY <1>4, <2>2, <2>4, <2>5, <2>6, <2>7
      <3> QED
        BY <2>3, <2>6, <2>7, <3>1
    <2>8. CASE ~Beats(strategy, group[n + 2], group[w])
      <3>1. \A j \in 1 .. ((n + 1) + 1) : ~Beats(strategy, group[j], group[w])
        BY <2>2, <2>4, <2>8
      <3> QED
        BY <2>3, <2>6, <2>8, <3>1
    <2> QED
      BY <2>7, <2>8
  <1>7. P(N)
    <2>1. J \in SUBSET Nat
      OBVIOUS
    <2>2. \A n \in Nat : n \in J
      <3> HIDE DEF J
      <3> QED
        BY <1>5, <1>6, <2>1, SetInduction
    <2> QED
      BY <1>2, <2>2
  <1> QED
    BY <1>2, <1>3, <1>7

\* h leads from each entry of an object to its place, and to each of them.
GroupAt(h, entries, ref) ==
  LET group == Group(entries, ref) IN
  /\ h \in [1 .. Len(group) -> DOMAIN entries]
  /\ \A i \in 1 .. Len(group) : group[i] = entries[h[i]] /\ entries[h[i]].ref = ref
  /\ \A i, j \in 1 .. Len(group) : h[i] = h[j] => i = j
  /\ \A k \in DOMAIN entries : entries[k].ref = ref => \E i \in 1 .. Len(group) : h[i] = k

LEMMA GroupPlaces ==
  ASSUME NEW S, NEW entries \in Seq(S), NEW ref
  PROVE  Group(entries, ref) \in Seq(S) /\ \E h : GroupAt(h, entries, ref)
  <1> DEFINE wanted == {e \in ToSet(entries) : e.ref = ref}
             K == Kept(entries, wanted)
  <1>1. K \in Seq(S) /\ Group(entries, ref) = K
    BY KeptPlaces DEF Group
  <1>2. PICK h : Places(h, K, entries, wanted, Len(entries))
    BY KeptPlaces
  <1>3. /\ DOMAIN entries = 1 .. Len(entries)
        /\ \A k \in DOMAIN entries : entries[k] \in wanted <=> entries[k].ref = ref
    <2>1. DOMAIN entries = 1 .. Len(entries)
      BY LenProperties
    <2>2. \A k \in DOMAIN entries : entries[k] \in ToSet(entries)
      BY DEF ToSet
    <2> QED
      BY <2>1, <2>2
  <1> DEFINE N == Len(K)
  <1> HIDE DEF K, wanted
  <1>4. h \in [1 .. N -> DOMAIN entries]
    BY <1>2, <1>3 DEF Places
  <1>5. \A i \in 1 .. N : K[i] = entries[h[i]] /\ entries[h[i]].ref = ref
    <2> SUFFICES ASSUME NEW i \in 1 .. N
                 PROVE  K[i] = entries[h[i]] /\ entries[h[i]].ref = ref
      OBVIOUS
    <2>1. K[i] = entries[h[i]] /\ entries[h[i]] \in wanted
      BY <1>2 DEF Places
    <2> QED
      BY <1>3, <1>4, <2>1
  <1>6. \A i, j \in 1 .. N : h[i] = h[j] => i = j
    BY <1>2 DEF Places
  <1>7. \A k \in DOMAIN entries : entries[k].ref = ref => \E i \in 1 .. N : h[i] = k
    BY <1>2, <1>3 DEF Places
  <1>8. GroupAt(h, entries, ref)
    BY <1>1, <1>4, <1>5, <1>6, <1>7 DEF GroupAt
  <1> QED
    BY <1>1, <1>8

\* Two entries of one object conflict, and nothing else does.
LEMMA Conflicting ==
  ASSUME NEW S, NEW entries \in Seq(S), NEW k \in DOMAIN entries
  PROVE  /\ Len(Group(entries, entries[k].ref)) > 0
         /\ Conflict(entries, entries[k].ref) <=>
              \E j \in DOMAIN entries \ {k} : entries[j].ref = entries[k].ref
  <1> DEFINE ref == entries[k].ref
             G == Group(entries, ref)
             N == Len(G)
  <1>0. PICK h : GroupAt(h, entries, ref)
    BY GroupPlaces
  <1>1. /\ h \in [1 .. N -> DOMAIN entries]
        /\ \A i \in 1 .. N : entries[h[i]].ref = ref
        /\ \A i, j \in 1 .. N : h[i] = h[j] => i = j
        /\ \A m \in DOMAIN entries : entries[m].ref = ref => \E i \in 1 .. N : h[i] = m
    BY <1>0 DEF GroupAt
  <1>2. N \in Nat
    BY GroupPlaces, LenProperties
  <1>3. Conflict(entries, ref) <=> N > 1
    BY DEF Conflict
  <1> HIDE DEF ref, G, N
  <1>4. PICK i \in 1 .. N : h[i] = k
    BY <1>1 DEF ref
  <1>5. ASSUME N > 1
        PROVE  \E j \in DOMAIN entries \ {k} : entries[j].ref = ref
    <2>1. PICK m \in 1 .. N : m # i
      <3>1. 1 \in 1 .. N /\ 2 \in 1 .. N /\ 1 # 2
        BY <1>2, <1>5
      <3> QED
        BY <3>1
    <2>2. h[m] \in DOMAIN entries /\ h[m] # k /\ entries[h[m]].ref = ref
      BY <1>1, <1>4, <2>1
    <2> QED
      BY <2>2
  <1>6. ASSUME NEW j \in DOMAIN entries \ {k}, entries[j].ref = ref
        PROVE  N > 1
    <2>1. PICK m \in 1 .. N : h[m] = j
      BY <1>1, <1>6
    <2>2. m # i
      BY <1>4, <2>1
    <2> QED
      BY <1>2, <2>2
  <1> QED
    BY <1>2, <1>3, <1>4, <1>5, <1>6 DEF ref, G, N

\* No entry of the same object is preferred to w.
Unbeaten(strategy, entries, w) ==
  \A j \in DOMAIN entries : entries[j].ref = entries[w].ref =>
    IF strategy = "quarantine" THEN j = w ELSE ~Beats(strategy, entries[j], entries[w])

\* What a strategy takes of the entries of one object, if it does not set them aside.
Choice(strategy, entries, ref) ==
  LET group == Group(entries, ref)
  IN  Pin(IF Len(group) > 1 THEN Winner(strategy, group) ELSE group[1])

LEMMA ChoiceUnbeaten ==
  ASSUME NEW S, NEW entries \in Seq(S), \A e \in S : IsEntry(e), NEW strategy \in Strategies,
         NEW k \in DOMAIN entries, ~SetAside(entries, entries[k].ref, strategy)
  PROVE  \E w \in DOMAIN entries :
           /\ Choice(strategy, entries, entries[k].ref) = Pin(entries[w])
           /\ entries[w].ref = entries[k].ref
           /\ Unbeaten(strategy, entries, w)
  <1> DEFINE ref == entries[k].ref
             G == Group(entries, ref)
             N == Len(G)
  <1>0. PICK h : GroupAt(h, entries, ref)
    BY GroupPlaces
  <1>1. /\ h \in [1 .. N -> DOMAIN entries]
        /\ \A i \in 1 .. N : G[i] = entries[h[i]] /\ entries[h[i]].ref = ref
        /\ \A i, j \in 1 .. N : h[i] = h[j] => i = j
        /\ \A m \in DOMAIN entries : entries[m].ref = ref => \E i \in 1 .. N : h[i] = m
    BY <1>0 DEF GroupAt
  <1>2. G \in Seq(S) /\ N \in Nat /\ N > 0
    BY GroupPlaces, LenProperties, Conflicting
  <1>3. Conflict(entries, ref) <=> N > 1
    BY DEF Conflict
  <1>4. Choice(strategy, entries, ref) = Pin(IF N > 1 THEN Winner(strategy, G) ELSE G[1])
    BY DEF Choice
  <1>5. Conflict(entries, ref) <=> \E j \in DOMAIN entries \ {k} : entries[j].ref = ref
    BY Conflicting
  <1>6. strategy = "quarantine" => ~(N > 1)
    BY <1>3 DEF SetAside
  <1> HIDE DEF ref, G, N
  <1>7. CASE N > 1
    <2>1. PICK w \in 1 .. N : /\ Winner(strategy, G) = G[w]
                              /\ \A j \in 1 .. N : ~Beats(strategy, G[j], G[w])
      <3>1. strategy \in Strategies \ {"quarantine"}
        BY <1>6, <1>7
      <3> QED
        BY <1>2, <3>1, WinnerPreferred DEF N
    <2>2. h[w] \in DOMAIN entries /\ entries[h[w]].ref = ref /\ G[w] = entries[h[w]]
      BY <1>1
    <2>3. Unbeaten(strategy, entries, h[w])
      <3>1. \A j \in DOMAIN entries : entries[j].ref = ref => ~Beats(strategy, entries[j], entries[h[w]])
        BY <1>1, <2>1, <2>2
      <3> QED
        BY <1>6, <1>7, <2>2, <3>1 DEF Unbeaten
    <2> QED
      BY <1>4, <1>7, <2>1, <2>2, <2>3 DEF ref
  <1>8. CASE ~(N > 1)
    <2>1. \A j \in DOMAIN entries : entries[j].ref = ref => j = k
      BY <1>3, <1>5, <1>8
    <2>2. 1 \in 1 .. N /\ G[1] = entries[h[1]] /\ h[1] = k
      <3>1. 1 \in 1 .. N
        BY <1>2
      <3> QED
        BY <1>1, <2>1, <3>1
    <2>3. ~Beats(strategy, entries[k], entries[k]) \/ strategy = "quarantine"
      <3>1. IsEntry(entries[k])
        BY ElementOfSeq, LenProperties
      <3>2. CASE strategy = "prioritize_latest_object"
        BY <3>1, <3>2 DEF Beats, IsEntry
      <3>3. CASE strategy = "prioritize_latest_snapshot"
        BY <3>1, <3>3 DEF Beats, IsEntry
      <3>4. CASE strategy = "prioritize_higher_priority"
        BY <3>1, <3>4 DEF Beats, IsEntry
      <3> QED
        BY <3>2, <3>3, <3>4 DEF Strategies
    <2>4. Unbeaten(strategy, entries, k)
      BY <2>1, <2>3 DEF Unbeaten, ref
    <2> QED
      BY <1>4, <1>8, <2>2, <2>4 DEF ref
  <1> QED
    BY <1>7, <1>8

\* The positions kept, each once.
LEMMA PositionsKept ==
  ASSUME NEW S, NEW entries \in Seq(S), NEW wanted \in SUBSET DOMAIN entries
  PROVE  LET K == Kept(Positions(entries), wanted) IN
         /\ K \in Seq(Nat)
         /\ \A i \in DOMAIN K : K[i] \in wanted
         /\ \A i, j \in DOMAIN K : K[i] = K[j] => i = j
         /\ \A k \in wanted : \E i \in DOMAIN K : K[i] = k
  <1> DEFINE P == Positions(entries)
             K == Kept(P, wanted)
  <1>1. DOMAIN entries = 1 .. Len(entries) /\ Len(entries) \in Nat
    BY LenProperties
  <1>2. P \in Seq(Nat) /\ Len(P) = Len(entries) /\ \A k \in 1 .. Len(entries) : P[k] = k
    BY <1>1 DEF Positions
  <1> HIDE DEF P
  <1>3. K \in Seq(Nat) /\ \E h : Places(h, K, P, wanted, Len(P))
    BY <1>2, KeptPlaces
  <1>4. PICK h : Places(h, K, P, wanted, Len(P))
    BY <1>3
  <1> HIDE DEF K
  <1>5. DOMAIN K = 1 .. Len(K)
    BY <1>3, LenProperties
  <1>6. \A i \in DOMAIN K : K[i] = h[i] /\ h[i] \in 1 .. Len(entries) /\ K[i] \in wanted
    BY <1>2, <1>4, <1>5 DEF Places
  <1>7. \A k \in wanted : \E i \in DOMAIN K : K[i] = k
    <2> TAKE k \in wanted
    <2>1. k \in 1 .. Len(P) /\ P[k] \in wanted
      BY <1>1, <1>2
    <2> QED
      BY <1>4, <1>5, <1>6, <2>1 DEF Places
  <1>8. \A i, j \in DOMAIN K : K[i] = K[j] => i = j
    BY <1>4, <1>5, <1>6 DEF Places
  <1> QED
    BY <1>3, <1>6, <1>7, <1>8 DEF K, P

\* Each object is met somewhere first.
LEMMA FirstPlaces ==
  ASSUME NEW S, NEW entries \in Seq(S)
  PROVE  /\ \A k \in DOMAIN entries : \E f \in Firsts(entries) : entries[f].ref = entries[k].ref
         /\ \A f, g \in Firsts(entries) : entries[f].ref = entries[g].ref => f = g
  <1>1. DOMAIN entries = 1 .. Len(entries) /\ Len(entries) \in Nat
    BY LenProperties
  <1>2. ASSUME NEW k \in DOMAIN entries
        PROVE  \E f \in Firsts(entries) : entries[f].ref = entries[k].ref
    <2> DEFINE T == {j \in DOMAIN entries : entries[j].ref = entries[k].ref}
    <2>1. T \in SUBSET (1 .. Len(entries)) /\ T # {}
      BY <1>1, <1>2
    <2> HIDE DEF T
    <2>2. Min(T) \in T /\ \A j \in T : Min(T) <= j
      BY <1>1, <2>1, BoundedMin
    <2>3. Min(T) \in Firsts(entries)
      BY <2>2 DEF T, Firsts
    <2> QED
      BY <2>2, <2>3 DEF T
  <1>3. \A f, g \in Firsts(entries) : entries[f].ref = entries[g].ref => f = g
    <2> TAKE f, g \in Firsts(entries)
    <2>1. f \in 1 .. Len(entries) /\ g \in 1 .. Len(entries)
      BY <1>1 DEF Firsts
    <2>2. entries[f].ref = entries[g].ref => f <= g /\ g <= f
      BY DEF Firsts
    <2> QED
      BY <1>1, <2>1, <2>2
  <1> QED
    BY <1>2, <1>3

\* What deduplicate makes of the entries: one version of each object that is not set
\* aside, which no other entry beats; the rest it sets aside.
Settles(entries, strategy, d) ==
  /\ \A i, j \in DOMAIN d.members : d.members[i].ref = d.members[j].ref => i = j
  /\ \A i \in DOMAIN d.members : \E w \in DOMAIN entries :
       d.members[i] = Pin(entries[w]) /\ Unbeaten(strategy, entries, w)
  /\ \A k \in DOMAIN entries :
       \/ \E i \in DOMAIN d.members : d.members[i].ref = entries[k].ref
       \/ /\ \E j \in DOMAIN entries \ {k} : entries[j].ref = entries[k].ref
          /\ \E i \in DOMAIN d.quarantine : SamePin(d.quarantine[i], entries[k])
  /\ \A i \in DOMAIN d.quarantine : \A j \in DOMAIN d.members :
       d.members[j].ref # d.quarantine[i].ref

LEMMA DeduplicateSettles ==
  ASSUME NEW S, NEW entries \in Seq(S), \A e \in S : IsEntry(e) /\ e.ref \in DOMAIN TypeOf,
         NEW strategy \in Strategies
  PROVE  /\ Settles(entries, strategy, Deduplicate(entries, strategy))
         /\ Deduplicate(entries, strategy).members \in Seq(Pins)
  <1> DEFINE A == {k \in Firsts(entries) : ~SetAside(entries, entries[k].ref, strategy)}
             B == {k \in DOMAIN entries : SetAside(entries, entries[k].ref, strategy)}
             kept == Kept(Positions(entries), A)
             out == Kept(Positions(entries), B)
             M == [i \in DOMAIN kept |-> Choice(strategy, entries, entries[kept[i]].ref)]
             Q == [i \in DOMAIN out |-> Quarantined(entries[out[i]])]
             d == Deduplicate(entries, strategy)
  <1>1. d.members = M /\ d.quarantine = Q
    BY DEF Deduplicate, Choice
  <1>2. A \in SUBSET DOMAIN entries /\ B \in SUBSET DOMAIN entries
    BY DEF Firsts
  <1>3. /\ kept \in Seq(Nat)
        /\ \A i \in DOMAIN kept : kept[i] \in A
        /\ \A i, j \in DOMAIN kept : kept[i] = kept[j] => i = j
        /\ \A k \in A : \E i \in DOMAIN kept : kept[i] = k
    <2> HIDE DEF A
    <2> QED
      BY <1>2, PositionsKept
  <1>4. /\ out \in Seq(Nat)
        /\ \A i \in DOMAIN out : out[i] \in B
        /\ \A k \in B : \E i \in DOMAIN out : out[i] = k
    <2> HIDE DEF B
    <2> QED
      BY <1>2, PositionsKept
  <1>5. DOMAIN M = DOMAIN kept /\ DOMAIN Q = DOMAIN out
    OBVIOUS
  <1> HIDE DEF kept, out, d
  <1>6. ASSUME NEW i \in DOMAIN kept
        PROVE  /\ M[i].ref = entries[kept[i]].ref
               /\ M[i] \in Pins
               /\ \E w \in DOMAIN entries : M[i] = Pin(entries[w]) /\ Unbeaten(strategy, entries, w)
    <2>1. kept[i] \in DOMAIN entries /\ ~SetAside(entries, entries[kept[i]].ref, strategy)
      BY <1>2, <1>3
    <2>2. PICK w \in DOMAIN entries : /\ M[i] = Pin(entries[w])
                                      /\ entries[w].ref = entries[kept[i]].ref
                                      /\ Unbeaten(strategy, entries, w)
      BY <2>1, ChoiceUnbeaten
    <2>3. entries[w] \in S
      BY ElementOfSeq, LenProperties
    <2>4. Pin(entries[w]).ref = entries[w].ref /\ Pin(entries[w]) \in Pins
      BY <2>3 DEF Pin, Pins, IsEntry
    <2> QED
      BY <2>2, <2>4
  <1>7. \A i \in DOMAIN Q : Q[i].ref = entries[out[i]].ref /\ Q[i].mod = entries[out[i]].mod
    BY DEF Quarantined
  <1> HIDE DEF M, Q
  <1>8. \A i, j \in DOMAIN M : M[i].ref = M[j].ref => i = j
    <2> TAKE i, j \in DOMAIN M
    <2>1. kept[i] \in Firsts(entries) /\ kept[j] \in Firsts(entries)
      BY <1>3, <1>5
    <2> QED
      BY <1>3, <1>5, <1>6, <2>1, FirstPlaces
  <1>9. ASSUME NEW k \in DOMAIN entries
        PROVE  \/ \E i \in DOMAIN M : M[i].ref = entries[k].ref
               \/ /\ \E j \in DOMAIN entries \ {k} : entries[j].ref = entries[k].ref
                  /\ \E i \in DOMAIN Q : SamePin(Q[i], entries[k])
    <2>1. CASE SetAside(entries, entries[k].ref, strategy)
      <3>1. \E j \in DOMAIN entries \ {k} : entries[j].ref = entries[k].ref
        BY <2>1, Conflicting DEF SetAside
      <3>2. PICK i \in DOMAIN Q : out[i] = k
        BY <1>4, <1>5, <2>1
      <3> QED
        BY <1>7, <3>1, <3>2 DEF SamePin
    <2>2. CASE ~SetAside(entries, entries[k].ref, strategy)
      <3>1. PICK f \in Firsts(entries) : entries[f].ref = entries[k].ref
        BY FirstPlaces
      <3>2. PICK i \in DOMAIN M : kept[i] = f
        BY <1>3, <1>5, <2>2, <3>1
      <3> QED
        BY <1>5, <1>6, <3>1, <3>2
    <2> QED
      BY <2>1, <2>2
  <1>10. \A i \in DOMAIN Q : \A j \in DOMAIN M : M[j].ref # Q[i].ref
    <2> TAKE i \in DOMAIN Q
    <2> TAKE j \in DOMAIN M
    <2>1. SetAside(entries, entries[out[i]].ref, strategy)
      BY <1>4, <1>5
    <2>2. ~SetAside(entries, entries[kept[j]].ref, strategy)
      BY <1>3, <1>5
    <2>3. Q[i].ref = entries[out[i]].ref /\ M[j].ref = entries[kept[j]].ref
      BY <1>5, <1>6, <1>7
    <2> QED
      BY <2>1, <2>2, <2>3
  <1>11. M \in Seq(Pins)
    <2>1. DOMAIN kept = 1 .. Len(kept) /\ Len(kept) \in Nat
      BY <1>3, LenProperties
    <2>2. M \in [1 .. Len(kept) -> Pins]
      <3>1. M = [i \in DOMAIN kept |-> M[i]]
        BY DEF M
      <3> QED
        BY <1>6, <2>1, <3>1
    <2> QED
      BY <2>1, <2>2, SeqDef
  <1>12. \A i \in DOMAIN M : \E w \in DOMAIN entries :
           M[i] = Pin(entries[w]) /\ Unbeaten(strategy, entries, w)
    BY <1>5, <1>6
  <1> QED
    BY <1>1, <1>8, <1>9, <1>10, <1>11, <1>12 DEF Settles, d

-----------------------------------------------------------------------------
(***************************************************************************)
(* The entries are what the releases of the components offer.              *)
(***************************************************************************)
\* The annotated members of the first components, for each number of them.
Annotating(components, found) ==
  LET after[n \in 0 .. Len(components)] ==
        IF n = 0 THEN <<>> ELSE after[n - 1] \o Annotated(components[n], found[n])
  IN  after

\* Each element of B is the one before it and the entries of one more component.
Lengthens(B, components, found) ==
  /\ B[0] = <<>>
  /\ \A n \in 1 .. Len(components) : B[n] = B[n - 1] \o Annotated(components[n], found[n])

\* The entries of each component are in S.
Within(components, found, S) ==
  \A n \in 1 .. Len(components) : Annotated(components[n], found[n]) \in Seq(S)

\* The recursive definition of the annotated members has its fixed point.
LEMMA AnnotatingSteps ==
  ASSUME NEW S, NEW components, NEW found, Len(components) \in Nat, Within(components, found, S)
  PROVE  Lengthens(Annotating(components, found), components, found)
  <1> DEFINE N == Len(components)
             T == Seq(S)
             v == <<>>
             a(n) == Annotated(components[n], found[n])
             Step(s, n) == s \o a(n)
             D == [p \in T \X (1 .. N) |-> Step(p[1], p[2])]
             Body(g) == [n \in 0 .. N |-> IF n = 0 THEN v ELSE Step(g[n - 1], n)]
  <1>1. N \in Nat /\ v \in T /\ \A s \in T, n \in 1 .. N : Step(s, n) \in T
    <2>1. ASSUME NEW s \in T, NEW n \in 1 .. N PROVE Step(s, n) \in T
      <3>1. a(n) \in Seq(S)
        BY DEF Within
      <3> HIDE DEF a
      <3> QED
        BY <3>1, ConcatProperties
    <2> HIDE DEF Step
    <2> QED
      BY <2>1
  <1>2. D \in [T \X (1 .. N) -> T]
    <2> HIDE DEF Step, N, T
    <2> QED
      BY <1>1
  <1>3. PICK g \in [0 .. N -> T] : g[0] = v /\ \A n \in 1 .. N : g[n] = D[<<g[n - 1], n>>]
    <2> HIDE DEF D, N, v, T
    <2>2. \E g \in [0 .. N -> T] : Follows(g, N, v, D)
      BY <1>1, <1>2, Recursion
    <2> QED
      BY <2>2 DEF Follows
  <1>4. g = Body(g)
    <2>1. \A n \in 1 .. N : g[n] = Step(g[n - 1], n)
      <3> TAKE n \in 1 .. N
      <3>1. n - 1 \in 0 .. N
        BY <1>1
      <3>2. g[n - 1] \in T
        BY <1>3, <3>1
      <3> HIDE DEF Step, N, T
      <3> QED
        BY <1>3, <3>2
    <2> HIDE DEF Step, N, T, v
    <2> QED
      BY <1>1, <1>3, <2>1
  <1> DEFINE B == Annotating(components, found)
  <1>5. B = CHOOSE f : f = Body(f)
    BY DEF Annotating
  <1>6. B = Body(B)
    <2> HIDE DEF Body, B
    <2> QED
      BY <1>4, <1>5
  <1>7. B[0] = v /\ \A n \in 1 .. N : B[n] = Step(B[n - 1], n)
    <2>1. \A n \in 0 .. N : Body(B)[n] = IF n = 0 THEN v ELSE Step(B[n - 1], n)
      <3> HIDE DEF Step, N, B, v
      <3> QED
        OBVIOUS
    <2> HIDE DEF Step, N, B, Body, v
    <2> QED
      BY <1>1, <1>6, <2>1
  <1> QED
    BY <1>7 DEF Lengthens

\* Whether a component asks for a pin.
Asked(c, pin) == c.types = {} \/ TypeOf[pin.ref] \in c.types

\* g leads from each annotated member to its place in the release, and to each of those
\* that are asked for.
Sources(g, c, found) ==
  LET a == Annotated(c, found) IN
  /\ g \in [DOMAIN a -> DOMAIN found.members]
  /\ \A i \in DOMAIN a : LET m == found.members[g[i]] IN
       /\ a[i].ref = m.ref /\ a[i].mod = m.mod
       /\ a[i].snapshot = found.modified /\ a[i].priority = c.priority
       /\ Asked(c, m)
  /\ \A i, j \in DOMAIN a : g[i] = g[j] => i = j
  /\ \A k \in DOMAIN found.members : Asked(c, found.members[k]) => \E i \in DOMAIN a : g[i] = k

LEMMA AnnotatedSources ==
  ASSUME NEW c, NEW found, found.members \in Seq(Pins)
  PROVE  /\ Annotated(c, found) \in Seq(ToSet(Annotated(c, found)))
         /\ \E g : Sources(g, c, found)
  <1> DEFINE M == found.members
             pins == ApplyFilters(M, c.types)
             a == Annotated(c, found)
  <1>1. /\ DOMAIN a = DOMAIN pins
        /\ \A i \in DOMAIN a : /\ a[i].ref = pins[i].ref /\ a[i].mod = pins[i].mod
                               /\ a[i].snapshot = found.modified /\ a[i].priority = c.priority
    <2> HIDE DEF pins
    <2>1. a = [i \in DOMAIN pins |->
                 [ref |-> pins[i].ref, mod |-> pins[i].mod, track |-> c.track,
                  snapshot |-> found.modified, version |-> found.version,
                  priority |-> c.priority]]
      BY DEF Annotated, pins
    <2> HIDE DEF a
    <2> QED
      BY <2>1
  <1>2. M \in Seq(Pins) /\ DOMAIN M = 1 .. Len(M) /\ Len(M) \in Nat
    BY LenProperties
  <1>3. /\ pins \in Seq(Pins)
        /\ \E g \in [1 .. Len(pins) -> 1 .. Len(M)] :
             /\ \A i \in 1 .. Len(pins) : pins[i] = M[g[i]] /\ Asked(c, M[g[i]])
             /\ \A i, j \in 1 .. Len(pins) : g[i] = g[j] => i = j
             /\ \A k \in 1 .. Len(M) : Asked(c, M[k]) => \E i \in 1 .. Len(pins) : g[i] = k
    <2>1. CASE c.types = {}
      <3>1. pins = M
        BY <2>1 DEF ApplyFilters
      <3> DEFINE g == [i \in 1 .. Len(M) |-> i]
      <3>2. /\ g \in [1 .. Len(M) -> 1 .. Len(M)]
            /\ \A i \in 1 .. Len(M) : g[i] = i
        OBVIOUS
      <3> HIDE DEF M, pins, g
      <3> QED
        BY <1>2, <2>1, <3>1, <3>2 DEF Asked
    <2>2. CASE c.types # {}
      <3> DEFINE wanted == OfTypes(M, c.types)
      <3>1. pins = Kept(M, wanted)
        BY <2>2 DEF ApplyFilters
      <3>2. \A k \in 1 .. Len(M) : M[k] \in wanted <=> Asked(c, M[k])
        <4>1. \A k \in 1 .. Len(M) : M[k] \in ToSet(M)
          BY <1>2 DEF ToSet
        <4> HIDE DEF M
        <4> QED
          BY <2>2, <4>1 DEF OfTypes, Asked
      <3> HIDE DEF M, pins, wanted
      <3>3. pins \in Seq(Pins) /\ \E h : Places(h, pins, M, wanted, Len(M))
        BY <1>2, <3>1, KeptPlaces
      <3>4. PICK h : Places(h, pins, M, wanted, Len(M))
        BY <3>3
      <3>5. /\ h \in [1 .. Len(pins) -> 1 .. Len(M)]
            /\ \A i \in 1 .. Len(pins) : pins[i] = M[h[i]] /\ M[h[i]] \in wanted
            /\ \A i, j \in 1 .. Len(pins) : h[i] = h[j] => i = j
            /\ \A k \in 1 .. Len(M) : M[k] \in wanted => \E i \in 1 .. Len(pins) : h[i] = k
        BY <3>4 DEF Places
      <3> QED
        BY <3>2, <3>3, <3>5
    <2> QED
      BY <2>1, <2>2
  <1>4. DOMAIN pins = 1 .. Len(pins) /\ Len(pins) \in Nat
    BY <1>3, LenProperties
  <1> HIDE DEF a, pins, M
  <1>5. \E g : Sources(g, c, found)
    <2>1. PICK g \in [1 .. Len(pins) -> 1 .. Len(M)] :
             /\ \A i \in 1 .. Len(pins) : pins[i] = M[g[i]] /\ Asked(c, M[g[i]])
             /\ \A i, j \in 1 .. Len(pins) : g[i] = g[j] => i = j
             /\ \A k \in 1 .. Len(M) : Asked(c, M[k]) => \E i \in 1 .. Len(pins) : g[i] = k
      BY <1>3
    <2>2. Sources(g, c, found)
      BY <1>1, <1>2, <1>4, <2>1 DEF Sources, M, a
    <2> QED
      BY <2>2
  <1>6. a \in Seq(ToSet(a))
    <2>1. a \in [1 .. Len(pins) -> ToSet(a)]
      <3>1. a = [i \in DOMAIN a |-> a[i]]
        BY DEF a, Annotated
      <3>2. \A i \in DOMAIN a : a[i] \in ToSet(a)
        BY DEF ToSet
      <3> QED
        BY <1>1, <1>4, <3>1, <3>2
    <2> QED
      BY <1>4, <2>1, SeqDef
  <1> QED
    BY <1>5, <1>6 DEF a

\* The offer of one member of a release.
Offer(components, found, i, j) ==
  [ref |-> found[i].members[j].ref, mod |-> found[i].members[j].mod,
   snapshot |-> found[i].modified, priority |-> components[i].priority, at |-> <<i, j>>]

\* What the first n components offer.
Offered(components, found, n) ==
  {o \in UNION {{Offer(components, found, i, j) : j \in DOMAIN found[i].members} : i \in 1 .. n} :
     Asked(components[o.at[1]], found[o.at[1]].members[o.at[2]])}

\* h leads from each entry to the offer it stands for, one to one.
Stands(h, entries, offers) ==
  /\ h \in [DOMAIN entries -> offers]
  /\ \A k \in DOMAIN entries : /\ entries[k].ref = h[k].ref /\ entries[k].mod = h[k].mod
                               /\ entries[k].snapshot = h[k].snapshot
                               /\ entries[k].priority = h[k].priority
  /\ \A k, l \in DOMAIN entries : h[k] = h[l] => k = l
  /\ \A o \in offers : \E k \in DOMAIN entries : h[k] = o

\* What is offered, member by member.
LEMMA OfferedMeans ==
  ASSUME NEW components, NEW found, NEW n, NEW o
  PROVE  o \in Offered(components, found, n) <=>
           \E i \in 1 .. n : \E j \in DOMAIN found[i].members :
             o = Offer(components, found, i, j) /\ Asked(components[i], found[i].members[j])
  <1>1. \A i, j : Offer(components, found, i, j).at[1] = i /\ Offer(components, found, i, j).at[2] = j
    BY DEF Offer
  <1>2. o \in Offered(components, found, n) <=>
          /\ \E i \in 1 .. n : \E j \in DOMAIN found[i].members : o = Offer(components, found, i, j)
          /\ Asked(components[o.at[1]], found[o.at[1]].members[o.at[2]])
    BY DEF Offered
  <1> QED
    BY <1>1, <1>2

\* The entries of all the components are what these offer.
LEMMA EntriesStand ==
  ASSUME NEW components, NEW found, Len(components) \in Nat,
         \A n \in 1 .. Len(components) : found[n].members \in Seq(Pins)
  PROVE  /\ \E S : AllAnnotated(components, found) \in Seq(S)
         /\ \E h : Stands(h, AllAnnotated(components, found),
                          Offered(components, found, Len(components)))
  <1> DEFINE N == Len(components)
             a(n) == Annotated(components[n], found[n])
             B == Annotating(components, found)
             O(n) == Offered(components, found, n)
             P(S, n) == B[n] \in Seq(S) /\ \E h : Stands(h, B[n], O(n))
  <1>1. \A n \in 1 .. N : a(n) \in Seq(ToSet(a(n))) /\ \E g : Sources(g, components[n], found[n])
    BY AnnotatedSources
  <1>2. PICK S : \A n \in 1 .. N : a(n) \in Seq(S)
    <2> DEFINE T == UNION {ToSet(a(n)) : n \in 1 .. N}
    <2>1. \A n \in 1 .. N : a(n) \in Seq(T)
      <3> TAKE n \in 1 .. N
      <3>1. ToSet(a(n)) \subseteq T
        OBVIOUS
      <3> HIDE DEF a, T
      <3> QED
        BY <1>1, <3>1, SeqMonotonic
    <2> HIDE DEF T
    <2> QED
      BY <2>1
  <1>6. B[0] = <<>> /\ \A n \in 1 .. N : B[n] = B[n - 1] \o a(n)
    <2>1. Within(components, found, S)
      BY <1>2 DEF Within
    <2>2. Lengthens(B, components, found)
      BY <2>1, AnnotatingSteps
    <2> HIDE DEF B
    <2> QED
      BY <2>2 DEF Lengthens
  <1> DEFINE J == {n \in Nat : n <= N => P(S, n)}
  <1>3. AllAnnotated(components, found) = B[N]
    BY DEF AllAnnotated, Annotating
  <1> HIDE DEF B, O
  <1>4. 0 \in J
    <2>1. O(0) = {}
      BY OfferedMeans DEF O
    <2> DEFINE h == <<>>
    <2>2. Stands(h, <<>>, {})
      BY DEF Stands
    <2> HIDE DEF h
    <2>3. B[0] \in Seq(S)
      BY <1>6
    <2>4. Stands(h, B[0], O(0))
      BY <1>6, <2>1, <2>2
    <2> QED
      BY <2>3, <2>4
  <1>5. ASSUME NEW n \in J PROVE n + 1 \in J
    <2> SUFFICES ASSUME n + 1 <= N PROVE P(S, n + 1)
      OBVIOUS
    <2>1. n \in Nat /\ n + 1 \in 1 .. N /\ (n + 1) - 1 = n /\ n <= N
      OBVIOUS
    <2> DEFINE s == B[n]
               t == a(n + 1)
               m == found[n + 1].members
               L == Len(s)
    <2>2. s \in Seq(S) /\ t \in Seq(S) /\ B[n + 1] = s \o t
      BY <1>2, <1>5, <1>6, <2>1
    <2>3. PICK h : Stands(h, s, O(n))
      BY <1>5, <2>1
    <2>4. PICK g : Sources(g, components[n + 1], found[n + 1])
      BY <1>1, <2>1
    <2>5. /\ DOMAIN s = 1 .. L /\ L \in Nat /\ DOMAIN t = 1 .. Len(t) /\ Len(t) \in Nat
          /\ s \o t \in Seq(S) /\ DOMAIN (s \o t) = 1 .. (L + Len(t))
      <3> HIDE DEF s, t
      <3>1. s \o t \in Seq(S) /\ Len(s \o t) = Len(s) + Len(t)
        BY <2>2, ConcatProperties
      <3> QED
        BY <2>2, <3>1, LenProperties
    <2>6. \A k \in 1 .. (L + Len(t)) : (s \o t)[k] = IF k <= L THEN s[k] ELSE t[k - L]
      <3> HIDE DEF s, t
      <3> QED
        BY <2>2, ConcatProperties DEF L
    <2> DEFINE new(k) == Offer(components, found, n + 1, g[k - L])
               f == [k \in 1 .. (L + Len(t)) |-> IF k <= L THEN h[k] ELSE new(k)]
    <2>7. /\ g \in [1 .. Len(t) -> DOMAIN m]
          /\ \A i \in 1 .. Len(t) : /\ t[i].ref = m[g[i]].ref /\ t[i].mod = m[g[i]].mod
                                    /\ t[i].snapshot = found[n + 1].modified
                                    /\ t[i].priority = components[n + 1].priority
                                    /\ Asked(components[n + 1], m[g[i]])
          /\ \A i, j \in 1 .. Len(t) : g[i] = g[j] => i = j
          /\ \A k \in DOMAIN m : Asked(components[n + 1], m[k]) => \E i \in 1 .. Len(t) : g[i] = k
      BY <2>4, <2>5 DEF Sources
    <2>8. /\ h \in [1 .. L -> O(n)]
          /\ \A k \in 1 .. L : /\ s[k].ref = h[k].ref /\ s[k].mod = h[k].mod
                               /\ s[k].snapshot = h[k].snapshot /\ s[k].priority = h[k].priority
          /\ \A k, l \in 1 .. L : h[k] = h[l] => k = l
          /\ \A o \in O(n) : \E k \in 1 .. L : h[k] = o
      BY <2>3, <2>5 DEF Stands
    <2>9. \A o : o \in O(n + 1) <=>
            \/ o \in O(n)
            \/ \E j \in DOMAIN m : o = Offer(components, found, n + 1, j) /\ Asked(components[n + 1], m[j])
      <3>1. \A i : i \in 1 .. (n + 1) <=> i \in 1 .. n \/ i = n + 1
        BY <2>1
      <3> QED
        BY <3>1, OfferedMeans DEF O
    <2>10. \A o \in O(n) : o.at[1] \in 1 .. n
      <3> TAKE o \in O(n)
      <3>1. PICK i \in 1 .. n : \E j \in DOMAIN found[i].members : o = Offer(components, found, i, j)
        BY OfferedMeans DEF O
      <3> QED
        BY <3>1 DEF Offer
    <2>11. \A k \in 1 .. (L + Len(t)) : IF k <= L THEN k \in 1 .. L ELSE k - L \in 1 .. Len(t)
      <3> HIDE DEF L, t
      <3> QED
        BY <2>5
    <2> HIDE DEF s, t, L, m
    <2>12. \A k \in 1 .. (L + Len(t)) : ~(k <= L) =>
             /\ new(k).ref = m[g[k - L]].ref /\ new(k).mod = m[g[k - L]].mod
             /\ new(k).snapshot = found[n + 1].modified
             /\ new(k).priority = components[n + 1].priority
             /\ new(k).at[1] = n + 1 /\ new(k).at[2] = g[k - L]
             /\ new(k) \in O(n + 1)
      <3> TAKE k \in 1 .. (L + Len(t))
      <3> HAVE ~(k <= L)
      <3>1. k - L \in 1 .. Len(t)
        BY <2>11
      <3>2. new(k) \in O(n + 1)
        BY <2>7, <2>9, <3>1
      <3> QED
        BY <3>2 DEF Offer, m
    <2> HIDE DEF new
    <2>13. /\ f \in [1 .. (L + Len(t)) -> O(n + 1)]
           /\ \A k \in 1 .. (L + Len(t)) : f[k] = IF k <= L THEN h[k] ELSE new(k)
      <3>1. \A k \in 1 .. (L + Len(t)) : (IF k <= L THEN h[k] ELSE new(k)) \in O(n + 1)
        BY <2>8, <2>9, <2>11, <2>12
      <3> QED
        BY <3>1
    <2> HIDE DEF f
    <2>14. \A k \in 1 .. (L + Len(t)) :
             /\ (s \o t)[k].ref = f[k].ref /\ (s \o t)[k].mod = f[k].mod
             /\ (s \o t)[k].snapshot = f[k].snapshot /\ (s \o t)[k].priority = f[k].priority
      <3> TAKE k \in 1 .. (L + Len(t))
      <3>1. CASE k <= L
        BY <2>6, <2>8, <2>11, <2>13, <3>1
      <3>2. CASE ~(k <= L)
        <4>1. k - L \in 1 .. Len(t) /\ (s \o t)[k] = t[k - L] /\ f[k] = new(k)
          BY <2>6, <2>11, <2>13, <3>2
        <4> QED
          BY <2>7, <2>12, <3>2, <4>1
      <3> QED
        BY <3>1, <3>2
    <2>15. \A k, l \in 1 .. (L + Len(t)) : f[k] = f[l] => k = l
      <3> SUFFICES ASSUME NEW k \in 1 .. (L + Len(t)), NEW l \in 1 .. (L + Len(t)), f[k] = f[l]
                   PROVE  k = l
        OBVIOUS
      <3>1. \A i \in 1 .. (L + Len(t)) : i <= L => f[i].at[1] # n + 1
        <4>1. n + 1 \notin 1 .. n
          BY <2>1
        <4> QED
          BY <2>8, <2>10, <2>11, <2>13, <4>1
      <3>2. \A i \in 1 .. (L + Len(t)) : ~(i <= L) => f[i].at[1] = n + 1
        BY <2>12, <2>13
      <3>3. CASE k <= L /\ l <= L
        BY <2>8, <2>11, <2>13, <3>3
      <3>4. CASE ~(k <= L) /\ ~(l <= L)
        <4>1. g[k - L] = g[l - L]
          BY <2>12, <2>13, <3>4
        <4>2. k - L = l - L
          BY <2>7, <2>11, <3>4, <4>1
        <4> QED
          BY <2>5, <4>2
      <3> QED
        BY <3>1, <3>2, <3>3, <3>4
    <2>16. \A o \in O(n + 1) : \E k \in 1 .. (L + Len(t)) : f[k] = o
      <3> TAKE o \in O(n + 1)
      <3>1. CASE o \in O(n)
        <4>1. PICK k \in 1 .. L : h[k] = o
          BY <2>8, <3>1
        <4>2. k \in 1 .. (L + Len(t)) /\ k <= L
          BY <2>5
        <4> QED
          BY <2>13, <4>1, <4>2
      <3>2. CASE \E j \in DOMAIN m : o = Offer(components, found, n + 1, j) /\ Asked(components[n + 1], m[j])
        <4>1. PICK j \in DOMAIN m : o = Offer(components, found, n + 1, j) /\ Asked(components[n + 1], m[j])
          BY <3>2
        <4>2. PICK i \in 1 .. Len(t) : g[i] = j
          BY <2>7, <4>1
        <4>3. L + i \in 1 .. (L + Len(t)) /\ ~(L + i <= L) /\ (L + i) - L = i
          BY <2>5
        <4>4. new(L + i) = o
          BY <4>1, <4>2, <4>3 DEF new
        <4> QED
          BY <2>13, <4>3, <4>4
      <3> QED
        BY <2>9, <3>1, <3>2
    <2>17. Stands(f, s \o t, O(n + 1))
      BY <2>5, <2>13, <2>14, <2>15, <2>16 DEF Stands
    <2> QED
      BY <2>2, <2>5, <2>17
  <1>7. P(S, N)
    <2>1. J \in SUBSET Nat
      OBVIOUS
    <2>2. \A n \in Nat : n \in J
      <3> HIDE DEF J
      <3> QED
        BY <1>4, <1>5, <2>1, SetInduction
    <2> QED
      BY <2>2
  <1> QED
    BY <1>3, <1>7 DEF O

\* Two elements of a finite set are more than one.
LEMMA TwoElements ==
  ASSUME NEW T, IsFiniteSet(T), NEW x \in T, NEW y \in T, x # y
  PROVE  Cardinality(T) > 1
  <1>1. IsFiniteSet({x}) /\ Cardinality({x}) = 1
    BY FS_Singleton
  <1>2. IsFiniteSet({x} \cup {y}) /\ Cardinality({x} \cup {y}) = 2
    BY <1>1, FS_AddElement
  <1>3. {x} \cup {y} \in SUBSET T /\ Cardinality(T) \in Nat
    BY FS_CardinalityType
  <1>4. Cardinality({x} \cup {y}) <= Cardinality(T)
    BY <1>3, FS_Subset
  <1> QED
    BY <1>2, <1>3, <1>4

\* What deduplicate settles of entries that stand for the offers accounts for these.
LEMMA SettlesAccounts ==
  ASSUME NEW S, NEW entries \in Seq(S), \A e \in S : IsEntry(e), NEW offers,
         NEW h, Stands(h, entries, offers), NEW strategy \in Strategies, NEW s,
         Settles(entries, strategy, s), s.resolution.strategy = strategy
  PROVE  Accounts(s, offers)
  <1> DEFINE Rivals(ref) == {e \in offers : e.ref = ref}
             members == {s.members[i] : i \in DOMAIN s.members}
             N == Len(entries)
  <1>1. /\ DOMAIN entries = 1 .. N /\ N \in Nat
        /\ \A k \in 1 .. N : IsEntry(entries[k])
    BY LenProperties, ElementOfSeq
  <1> HIDE DEF N
  <1>2. /\ h \in [1 .. N -> offers]
        /\ \A k \in 1 .. N : /\ entries[k].ref = h[k].ref /\ entries[k].mod = h[k].mod
                             /\ entries[k].snapshot = h[k].snapshot
                             /\ entries[k].priority = h[k].priority
        /\ \A k, l \in 1 .. N : h[k] = h[l] => k = l
        /\ \A o \in offers : \E k \in 1 .. N : h[k] = o
    BY <1>1 DEF Stands
  <1>3. IsFiniteSet(offers)
    <2>1. h \in Surjection(1 .. N, offers)
      BY <1>2 DEF Surjection
    <2>2. IsFiniteSet(1 .. N)
      BY <1>1, FS_Interval
    <2> QED
      BY <2>1, <2>2, FS_Surjection
  <1>4. ASSUME NEW i \in DOMAIN s.members
        PROVE  \E e \in Rivals(s.members[i].ref) :
                 SamePin(s.members[i], e) /\ Preferred(strategy, e, Rivals(s.members[i].ref))
    <2>1. PICK w \in 1 .. N : s.members[i] = Pin(entries[w]) /\ Unbeaten(strategy, entries, w)
      BY <1>1 DEF Settles
    <2> DEFINE e == h[w]
               R == Rivals(s.members[i].ref)
    <2>2. SamePin(s.members[i], e) /\ e \in R
      BY <1>2, <2>1 DEF SamePin, Pin
    <2>3. ASSUME NEW f \in R
          PROVE  \E j \in 1 .. N : /\ f = h[j] /\ entries[j].ref = entries[w].ref
                                   /\ IF strategy = "quarantine" THEN j = w
                                      ELSE ~Beats(strategy, entries[j], entries[w])
      <3>1. PICK j \in 1 .. N : f = h[j]
        BY <1>2
      <3>2. entries[j].ref = entries[w].ref
        <4>1. f.ref = s.members[i].ref
          OBVIOUS
        <4> QED
          BY <1>2, <2>1, <3>1, <4>1 DEF Pin
      <3> QED
        BY <1>1, <2>1, <3>1, <3>2 DEF Unbeaten
    <2>4. Preferred(strategy, e, R)
      <3> HIDE DEF R, e
      <3>0. IsEntry(entries[w]) /\ e.mod = entries[w].mod /\ e.snapshot = entries[w].snapshot
            /\ e.priority = entries[w].priority
        BY <1>1, <1>2 DEF e
      <3>1. CASE strategy = "prioritize_latest_object"
        <4>1. \A f \in R : f.mod <= e.mod
          <5> TAKE f \in R
          <5>1. PICK j \in 1 .. N : f = h[j] /\ ~Beats(strategy, entries[j], entries[w])
            BY <2>3, <3>1
          <5>2. ~(entries[j].mod > entries[w].mod)
            BY <3>1, <5>1 DEF Beats
          <5>3. f.mod = entries[j].mod /\ IsEntry(entries[j])
            BY <1>1, <1>2, <5>1
          <5> QED
            BY <3>0, <5>2, <5>3 DEF IsEntry
        <4> QED
          BY <3>1, <4>1 DEF Preferred
      <3>2. CASE strategy = "prioritize_latest_snapshot"
        <4>1. \A f \in R : f.snapshot <= e.snapshot
          <5> TAKE f \in R
          <5>1. PICK j \in 1 .. N : f = h[j] /\ ~Beats(strategy, entries[j], entries[w])
            BY <2>3, <3>2
          <5>2. ~(entries[j].snapshot > entries[w].snapshot)
            BY <3>2, <5>1 DEF Beats
          <5>3. f.snapshot = entries[j].snapshot /\ IsEntry(entries[j])
            BY <1>1, <1>2, <5>1
          <5> QED
            BY <3>0, <5>2, <5>3 DEF IsEntry
        <4> QED
          BY <3>2, <4>1 DEF Preferred
      <3>3. CASE strategy = "prioritize_higher_priority"
        <4>1. \A f \in R : e.priority <= f.priority
          <5> TAKE f \in R
          <5>1. PICK j \in 1 .. N : f = h[j] /\ ~Beats(strategy, entries[j], entries[w])
            BY <2>3, <3>3
          <5>2. ~(entries[j].priority < entries[w].priority)
            BY <3>3, <5>1 DEF Beats
          <5>3. f.priority = entries[j].priority /\ IsEntry(entries[j])
            BY <1>1, <1>2, <5>1
          <5> QED
            BY <3>0, <5>2, <5>3 DEF IsEntry
        <4> QED
          BY <3>3, <4>1 DEF Preferred
      <3>4. CASE strategy = "quarantine"
        <4>1. \A f \in R : f = e
          BY <2>3, <3>4 DEF e
        <4>2. R = {e}
          BY <2>2, <4>1
        <4> QED
          BY <3>4, <4>2 DEF Preferred
      <3> QED
        BY <3>1, <3>2, <3>3, <3>4 DEF Strategies
    <2> QED
      BY <2>2, <2>4
  <1>5. ASSUME NEW e \in offers
        PROVE  \/ \E m \in members : m.ref = e.ref
               \/ /\ Cardinality(Rivals(e.ref)) > 1
                  /\ \E i \in DOMAIN s.quarantine : SamePin(s.quarantine[i], e)
    <2>1. PICK k \in 1 .. N : h[k] = e
      BY <1>2
    <2>2. CASE \E i \in DOMAIN s.members : s.members[i].ref = entries[k].ref
      BY <1>2, <2>1, <2>2
    <2>3. CASE /\ \E j \in DOMAIN entries \ {k} : entries[j].ref = entries[k].ref
               /\ \E i \in DOMAIN s.quarantine : SamePin(s.quarantine[i], entries[k])
      <3>1. PICK j \in 1 .. N : j # k /\ entries[j].ref = entries[k].ref
        BY <1>1, <2>3
      <3>2. h[j] \in Rivals(e.ref) /\ e \in Rivals(e.ref) /\ h[j] # e
        BY <1>2, <2>1, <3>1
      <3>3. IsFiniteSet(Rivals(e.ref))
        BY <1>3, FS_Subset
      <3>4. Cardinality(Rivals(e.ref)) > 1
        <4> HIDE DEF Rivals
        <4> QED
          BY <3>2, <3>3, TwoElements
      <3> QED
        BY <1>2, <2>1, <2>3, <3>4 DEF SamePin
    <2> QED
      BY <1>1, <2>2, <2>3 DEF Settles
  <1>6. \A i \in DOMAIN s.quarantine : ~\E m \in members : m.ref = s.quarantine[i].ref
    BY DEF Settles
  <1>7. \A i, j \in DOMAIN s.members : s.members[i].ref = s.members[j].ref => i = j
    BY DEF Settles
  <1>8. \A m \in members : \E e \in Rivals(m.ref) :
          SamePin(m, e) /\ Preferred(s.resolution.strategy, e, Rivals(m.ref))
    <2> HIDE DEF Rivals
    <2> QED
      BY <1>4
  <1> QED
    BY <1>5, <1>6, <1>7, <1>8 DEF Accounts

LEMMA OffersOffered ==
  ASSUME NEW components, NEW found, NEW parts, NEW sources, Len(components) \in Nat,
         DOMAIN parts = 1 .. Len(components),
         \A i \in DOMAIN parts :
           /\ parts[i].types = components[i].types
           /\ parts[i].snapshot = found[i].modified
           /\ parts[i].priority = components[i].priority
           /\ sources[i].members = found[i].members
  PROVE  Offers(parts, sources) = Offered(components, found, Len(components))
  <1> DEFINE N == Len(components)
             Given(i, j) == [ref |-> sources[i].members[j].ref, mod |-> sources[i].members[j].mod,
                             snapshot |-> parts[i].snapshot, priority |-> parts[i].priority,
                             at |-> <<i, j>>]
             Wanted(i, pin) == parts[i].types = {} \/ TypeOf[pin.ref] \in parts[i].types
  <1>1. \A o : o \in Offers(parts, sources) <=>
          \E i \in 1 .. N : \E j \in DOMAIN sources[i].members :
            o = Given(i, j) /\ Wanted(i, sources[i].members[j])
    BY DEF Offers
  <1>2. \A i \in 1 .. N : /\ sources[i].members = found[i].members
                          /\ \A j : Given(i, j) = Offer(components, found, i, j)
                          /\ \A pin : Wanted(i, pin) <=> Asked(components[i], pin)
    BY DEF Offer, Asked
  <1> HIDE DEF Given, N, Wanted
  <1>3. ASSUME NEW o, o \in Offers(parts, sources)
        PROVE  o \in Offered(components, found, N)
    <2>1. PICK i \in 1 .. N : \E j \in DOMAIN sources[i].members :
            o = Given(i, j) /\ Wanted(i, sources[i].members[j])
      BY <1>1, <1>3
    <2>2. PICK j \in DOMAIN found[i].members :
            o = Offer(components, found, i, j) /\ Asked(components[i], found[i].members[j])
      BY <1>2, <2>1
    <2> QED
      BY <2>2, OfferedMeans
  <1>4. ASSUME NEW o, o \in Offered(components, found, N)
        PROVE  o \in Offers(parts, sources)
    <2>1. PICK i \in 1 .. N : \E j \in DOMAIN found[i].members :
            o = Offer(components, found, i, j) /\ Asked(components[i], found[i].members[j])
      BY <1>4, OfferedMeans
    <2>2. PICK j \in DOMAIN sources[i].members : o = Given(i, j) /\ Wanted(i, sources[i].members[j])
      BY <1>2, <2>1
    <2> QED
      BY <1>1, <2>2
  <1> QED
    BY <1>3, <1>4 DEF N

\* What each component of a request was resolved to can be compared.
Comparable(q) ==
  \A i \in DOMAIN Components(q) : q.found[i].members \in Seq(Pins) /\ q.found[i].modified \in Nat

\* resolveComposition accounts for all that the releases it looks at offer.
LEMMA ComposedAccounts ==
  ASSUME NEW q, Known(q), Comparable(q), NEW sources,
         \A i \in DOMAIN Components(q) : sources[i].members = q.found[i].members
  PROVE  /\ Accounts(Composed(q), Offers(Composed(q).resolution.parts, sources))
         /\ Composed(q).members \in Seq(Pins)
  <1> DEFINE C == Components(q)
             N == Len(C)
             E == AllAnnotated(C, q.found)
             strategy == Strategy(q.doc.composition)
             d == Deduplicate(E, strategy)
             parts == [i \in DOMAIN C |-> Part(C[i], q.found[i], E, d.members)]
             resolution == [parts |-> parts, strategy |-> strategy]
             n == [q.doc EXCEPT !.members = d.members, !.quarantine = d.quarantine,
                                !.edited = FALSE, !.resolution = resolution]
  <1>1. Composed(q) = n
    BY DEF Composed
  <1>2. /\ N \in Nat /\ DOMAIN C = 1 .. N /\ \A i \in DOMAIN C : C[i].priority \in Nat
        /\ strategy \in Strategies
    BY DEF Known, IsSnapshot, Components, Strategy, Strategies
  <1>3. n.members = d.members /\ n.quarantine = d.quarantine /\ n.resolution = resolution
    <2> HIDE DEF d, resolution
    <2> QED
      BY Fields DEF Known, IsSnapshot
  <1>4. /\ resolution.parts = parts /\ resolution.strategy = strategy /\ DOMAIN parts = DOMAIN C
        /\ \A i \in DOMAIN C : /\ parts[i].types = C[i].types
                               /\ parts[i].snapshot = q.found[i].modified
                               /\ parts[i].priority = C[i].priority
    <2> HIDE DEF E, d, strategy, C
    <2> QED
      BY DEF Part
  <1> HIDE DEF n, resolution, parts, d, strategy, E, N, C
  <1>5. (\E S : E \in Seq(S)) /\ \E h : Stands(h, E, Offered(C, q.found, N))
    BY <1>2, EntriesStand DEF Comparable, E, N, C
  <1>6. PICK h : Stands(h, E, Offered(C, q.found, N))
    BY <1>5
  <1>7. E \in Seq(ToSet(E)) /\ \A e \in ToSet(E) : \E k \in DOMAIN E : e = E[k]
    <2>1. PICK S : E \in Seq(S)
      BY <1>5
    <2>2. DOMAIN E = 1 .. Len(E) /\ Len(E) \in Nat /\ E \in [1 .. Len(E) -> S]
      BY <2>1, LenProperties
    <2>3. ToSet(E) = {E[k] : k \in DOMAIN E}
      BY DEF ToSet
    <2>4. E \in [1 .. Len(E) -> ToSet(E)]
      BY <2>2, <2>3
    <2> QED
      BY <2>2, <2>3, <2>4, SeqDef
  <1>8. ASSUME NEW e \in ToSet(E)
        PROVE  IsEntry(e) /\ e.ref \in DOMAIN TypeOf
    <2>1. PICK k \in DOMAIN E : e = E[k]
      BY <1>7
    <2>2. /\ h[k] \in Offered(C, q.found, N)
          /\ e.ref = h[k].ref /\ e.mod = h[k].mod
          /\ e.snapshot = h[k].snapshot /\ e.priority = h[k].priority
      BY <1>6, <2>1 DEF Stands
    <2>3. PICK i \in 1 .. N : \E j \in DOMAIN q.found[i].members : h[k] = Offer(C, q.found, i, j)
      BY <2>2, OfferedMeans
    <2>4. PICK j \in DOMAIN q.found[i].members : h[k] = Offer(C, q.found, i, j)
      BY <2>3
    <2>5. /\ q.found[i].members[j] \in Pins /\ q.found[i].modified \in Nat
          /\ C[i].priority \in Nat
      <3>1. q.found[i].members \in Seq(Pins) /\ q.found[i].modified \in Nat
        BY <1>2, <2>3 DEF Comparable, C
      <3> QED
        BY <1>2, <2>3, <2>4, <3>1, LenProperties, ElementOfSeq
    <2> QED
      BY <2>2, <2>4, <2>5 DEF Offer, Pins, IsEntry
  <1>9. Settles(E, strategy, d) /\ d.members \in Seq(Pins)
    BY <1>2, <1>7, <1>8, DeduplicateSettles DEF d
  <1>10. Settles(E, strategy, n)
    BY <1>3, <1>9 DEF Settles
  <1>11. Offers(parts, sources) = Offered(C, q.found, N)
    <2>1. \A i \in DOMAIN parts :
            /\ parts[i].types = C[i].types /\ parts[i].snapshot = q.found[i].modified
            /\ parts[i].priority = C[i].priority /\ sources[i].members = q.found[i].members
      BY <1>4 DEF C
    <2> QED
      BY <1>2, <1>4, <2>1, OffersOffered DEF N
  <1>12. Accounts(n, Offered(C, q.found, N))
    BY <1>2, <1>3, <1>4, <1>6, <1>7, <1>8, <1>10, SettlesAccounts
  <1> QED
    BY <1>1, <1>3, <1>4, <1>9, <1>11, <1>12

-----------------------------------------------------------------------------
(***************************************************************************)
(* A composition accounts for what its parts offer.                        *)
(***************************************************************************)
\* What CompositionSound says of one snapshot.
Sound(s, releases) ==
  s.resolution # None =>
    \E sources \in [DOMAIN s.resolution.parts -> releases] :
      /\ \A i \in DOMAIN sources :
           /\ sources[i].track = s.resolution.parts[i].track
           /\ sources[i].modified = s.resolution.parts[i].snapshot
           /\ sources[i].version = s.resolution.parts[i].version
           /\ sources[i].type = "standard"
      /\ s.edited \/ Accounts(s, Offers(s.resolution.parts, sources))

\* What there is to say of the contents of a snapshot.
Contents(s, releases) == s.members \in Seq(Pins) /\ Sound(s, releases)

\* A request that is to fill a track has objects to fill it with, and no composition.
Stocked(q) ==
  /\ q.phase \in {"import", "save", "register", "fill"} => q.found \in Seq(Pins)
  /\ \/ q.phase \in {"import", "fill"}
     \/ q.phase \in {"save", "register"} /\ q.found # <<>>
     => q.doc.resolution = None

ContentInv ==
  /\ \A x \in released : x.members \in Seq(Pins) /\ x.modified \in Nat
  /\ \A t \in Tracks : \A m \in DOMAIN colls[t] : m \in Nat /\ Contents(colls[t][m], released)
  /\ \A r \in Requests : Contents(req[r].doc, released) /\ Stocked(req[r])

LEMMA ContentsLike ==
  ASSUME NEW s, NEW d, NEW old, NEW new, Contents(s, old), Alike(d, s), old \subseteq new
  PROVE  Contents(d, new)
  <1>1. ASSUME s.resolution # None PROVE Sound(d, new)
    <2> DEFINE parts == s.resolution.parts
    <2>1. PICK sources \in [DOMAIN parts -> old] :
            /\ \A i \in DOMAIN sources :
                 /\ sources[i].track = parts[i].track
                 /\ sources[i].modified = parts[i].snapshot
                 /\ sources[i].version = parts[i].version
                 /\ sources[i].type = "standard"
            /\ s.edited \/ Accounts(s, Offers(parts, sources))
      BY <1>1 DEF Contents, Sound
    <2>2. sources \in [DOMAIN parts -> new] /\ d.resolution = s.resolution
      BY DEF Alike
    <2>3. ASSUME NEW offers, Accounts(s, offers) PROVE Accounts(d, offers)
      <3> DEFINE Rivals(ref) == {e \in offers : e.ref = ref}
                 Fits(members, quarantine, strategy) ==
                   LET pins == {members[i] : i \in DOMAIN members} IN
                   /\ \A i, j \in DOMAIN members : members[i].ref = members[j].ref => i = j
                   /\ \A m \in pins : \E e \in Rivals(m.ref) :
                        SamePin(m, e) /\ Preferred(strategy, e, Rivals(m.ref))
                   /\ \A e \in offers :
                        \/ \E m \in pins : m.ref = e.ref
                        \/ /\ Cardinality(Rivals(e.ref)) > 1
                           /\ \E i \in DOMAIN quarantine : SamePin(quarantine[i], e)
                   /\ \A i \in DOMAIN quarantine : ~\E m \in pins : m.ref = quarantine[i].ref
      <3>1. \A x : Accounts(x, offers) <=> Fits(x.members, x.quarantine, x.resolution.strategy)
        BY Zenon DEF Accounts
      <3>2. s.members = d.members /\ s.quarantine = d.quarantine /\ s.resolution = d.resolution
        BY DEF Alike
      <3> HIDE DEF Fits
      <3> QED
        BY <2>3, <3>1, <3>2
    <2>4. d.edited \/ Accounts(d, Offers(parts, sources))
      BY <2>1, <2>3 DEF Alike
    <2> QED
      BY <2>1, <2>2, <2>4 DEF Sound
  <1>2. ASSUME s.resolution = None PROVE Sound(d, new)
    BY <1>2 DEF Sound, Alike
  <1> QED
    BY <1>1, <1>2 DEF Contents, Alike

\* What an edit leaves.
LEMMA ContentsReplaced ==
  ASSUME NEW s, NEW d, NEW old, NEW new, Contents(s, old), old \subseteq new,
         d.members \in Seq(Pins), d.resolution = s.resolution, d.edited
  PROVE  Contents(d, new)
  <1>1. CASE s.resolution = None
    BY <1>1 DEF Contents, Sound
  <1>2. CASE s.resolution # None
    <2> DEFINE parts == s.resolution.parts
    <2>1. PICK sources \in [DOMAIN parts -> old] :
            \A i \in DOMAIN sources :
              /\ sources[i].track = parts[i].track
              /\ sources[i].modified = parts[i].snapshot
              /\ sources[i].version = parts[i].version
              /\ sources[i].type = "standard"
      BY <1>2 DEF Contents, Sound
    <2>2. sources \in [DOMAIN parts -> new]
      OBVIOUS
    <2> QED
      BY <2>1, <2>2 DEF Contents, Sound
  <1> QED
    BY <1>1, <1>2

\* A snapshot that is not composed.
LEMMA ContentsPlain ==
  ASSUME NEW s, NEW releases, s.members \in Seq(Pins), s.resolution = None
  PROVE  Contents(s, releases)
  BY DEF Contents, Sound

LEMMA IdleContents ==
  ASSUME NEW releases
  PROVE  Contents(Idle.doc, releases) /\ Stocked(Idle)
  <1>1. Idle.doc.members \in Seq(Pins) /\ Idle.doc.resolution = None /\ Idle.phase = "idle"
    <2>1. <<>> \in Seq(Pins)
      OBVIOUS
    <2> QED
      BY <2>1, IdleKnown
  <1>2. Contents(Idle.doc, releases)
    BY <1>1, ContentsPlain
  <1> QED
    BY <1>1, <1>2 DEF Stocked

\* resolveComposition: the new document accounts for the releases it names.
LEMMA ComposedContents ==
  ASSUME SourceInv, ContentInv, NEW r \in Requests, Compose(r)
  PROVE  Contents(req'[r].doc, released)
  <1> DEFINE q == req[r]
             C == Components(q)
             d == Composed(q)
             sources == [i \in DOMAIN C |-> Release(C[i].track, q.found[i])]
  <1>1. Known(q) /\ TypeOK
    BY DEF SourceInv, FreshInv, CatalogInv, TypeOK, ContentInv
  <1>2. req'[r].doc = d
    BY <1>1, ComposeStep
  <1>3. \A i \in DOMAIN C : Vouched(C[i].track, q.found[i], released)
    BY ComposedVouched
  <1>4. \A i \in DOMAIN C : /\ sources[i] \in released
                            /\ sources[i].track = C[i].track
                            /\ sources[i].modified = q.found[i].modified
                            /\ sources[i].version = q.found[i].version
                            /\ sources[i].members = q.found[i].members
                            /\ sources[i].type = "standard"
    BY <1>3 DEF Vouched, Release
  <1>5. DOMAIN sources = DOMAIN C
    OBVIOUS
  <1> HIDE DEF sources
  <1>6. Comparable(q)
    <2> SUFFICES ASSUME NEW i \in DOMAIN C
                 PROVE  q.found[i].members \in Seq(Pins) /\ q.found[i].modified \in Nat
      BY DEF Comparable
    <2> QED
      BY <1>4 DEF ContentInv
  <1>7. Accounts(d, Offers(d.resolution.parts, sources)) /\ d.members \in Seq(Pins)
    BY <1>1, <1>4, <1>6, ComposedAccounts
  <1>8. /\ DOMAIN d.resolution.parts = DOMAIN C
        /\ \A i \in DOMAIN C : LET p == d.resolution.parts[i] IN
             /\ p.track = C[i].track
             /\ p.snapshot = q.found[i].modified
             /\ p.version = q.found[i].version
    BY <1>1, ComposedKeeps
  <1> HIDE DEF d
  <1>9. sources \in [DOMAIN d.resolution.parts -> released]
    <2>1. sources = [i \in DOMAIN C |-> sources[i]]
      BY <1>5 DEF sources
    <2> QED
      BY <1>4, <1>8, <2>1
  <1>10. \A i \in DOMAIN sources :
           /\ sources[i].track = d.resolution.parts[i].track
           /\ sources[i].modified = d.resolution.parts[i].snapshot
           /\ sources[i].version = d.resolution.parts[i].version
           /\ sources[i].type = "standard"
    BY <1>4, <1>5, <1>8
  <1>11. Sound(d, released)
    BY <1>7, <1>9, <1>10 DEF Sound
  <1> QED
    BY <1>2, <1>7, <1>11 DEF Contents

LEMMA MoverContents ==
  ASSUME SourceInv, ExportInv, ContentInv, CatalogAssumption, NEW r \in Requests,
         \/ BeginCreate(r) \/ BeginClone(r) \/ SaveTrackFails(r)
         \/ BeginImport(r) \/ ImportObject(r) \/ Imported(r) \/ BeginDelete(r)
         \/ BeginCompose(r) \/ BeginRecompose(r) \/ Validate(r) \/ Resolve(r) \/ Preview(r)
         \/ Compose(r) \/ BeginExport(r) \/ Hydrate(r) \/ HydrateFails(r)
         \/ Answer(r)
  PROVE  Contents(req'[r].doc, released) /\ Stocked(req'[r])
  <1> DEFINE q == req[r]
             n == req'[r]
  <1>0. /\ TypeOK /\ Contents(q.doc, released) /\ Stocked(q)
        /\ <<>> \in Seq(Pins)
        /\ \A t \in Tracks : \A m \in DOMAIN colls[t] : Contents(colls[t][m], released)
    BY DEF SourceInv, FreshInv, CatalogInv, ContentInv
  <1>1. CASE n = Idle
    BY <1>1, IdleContents
  <1>2. CASE SaveTrackFails(r) \/ Preview(r) \/ Answer(r)
    BY <1>0, <1>1, <1>2, Ending DEF SaveTrackFails, Preview, Answer
  <1>3. CASE BeginCreate(r) \/ BeginDelete(r)
    <2>1. /\ n.phase \in {"save", "drop"} /\ (n.phase = "save" => n.found = <<>>)
          /\ n.doc.members = <<>> /\ n.doc.resolution = None
      BY <1>0, <1>3, CreateCalm, DeleteCalm
    <2> QED
      BY <1>0, <2>1, ContentsPlain DEF Stocked
  <1>4. CASE BeginClone(r)
    <2>1. n.phase = "save" /\ n.found = <<>>
      BY <1>0, <1>4, CloneCalm
    <2>2. \E t \in Tracks : \E m \in DOMAIN colls[t] : Alike(n.doc, colls[t][m])
      BY <1>0, <1>4, CloneCalm
    <2>3. Contents(n.doc, released)
      BY <1>0, <2>2, ContentsLike
    <2> QED
      BY <1>0, <2>1, <2>3 DEF Stocked
  <1>5. CASE BeginImport(r)
    <2>1. /\ n.phase = "import" /\ n.found = <<>> /\ n.doc.resolution = None
          /\ \E b \in Bundles : n.doc.members = b.contents
      BY <1>0, <1>5, BeginImportCalm
    <2>2. n.doc.members \in Seq(Pins)
      BY <2>1 DEF CatalogAssumption
    <2> QED
      BY <1>0, <2>1, <2>2, ContentsPlain DEF Stocked
  <1>6. CASE ImportObject(r)
    <2>1. /\ q.phase = "import" /\ n.phase = "import" /\ n.doc = q.doc
          /\ n.found \in {q.found, Append(q.found, Pin(Head(q.queue)))}
      BY <1>0, <1>6, ImportObjectCalm
    <2>2. q.found \in Seq(Pins) /\ Pin(Head(q.queue)) \in Pins
      BY <1>0, <1>6, <2>1, ImportQueued DEF Stocked
    <2>3. Append(q.found, Pin(Head(q.queue))) \in Seq(Pins)
      BY <2>2, AppendProperties
    <2>4. n.found \in Seq(Pins)
      BY <2>1, <2>2, <2>3
    <2> QED
      BY <1>0, <2>1, <2>4 DEF Stocked
  <1>7. CASE Imported(r)
    <2>1. /\ n.phase = "save" /\ q.phase = "import" /\ n.doc.resolution = q.doc.resolution
          /\ n.doc.members = <<>> /\ n.found \in {q.found, q.doc.members}
      BY <1>0, <1>7, ImportedCalm
    <2>2. q.found \in Seq(Pins) /\ q.doc.members \in Seq(Pins) /\ q.doc.resolution = None
      BY <1>0, <2>1 DEF Stocked, Contents
    <2> QED
      BY <1>0, <2>1, <2>2, ContentsPlain DEF Stocked
  <1>8. CASE BeginExport(r) \/ Hydrate(r) \/ HydrateFails(r)
    <2>1. n.phase = "hydrate" /\ \/ n.doc = q.doc
                                 \/ \E t \in Tracks : \E m \in DOMAIN colls[t] : n.doc = colls[t][m]
      BY <1>0, <1>8, ExportCalm, HydrateCalm
    <2> QED
      BY <1>0, <2>1 DEF Stocked
  <1>9. CASE BeginCompose(r)
    <2>1. /\ n.phase = "validate" /\ n.doc.type = "virtual" /\ n.track \in Tracks
          /\ \E m \in DOMAIN colls[n.track] : n.doc = colls[n.track][m]
      BY <1>0, <1>9, ComposeCalm DEF ComposeBegun, Calm, Alters, Known
    <2> QED
      BY <1>0, <2>1 DEF Stocked
  <1>10. CASE BeginRecompose(r)
    <2>1. /\ n.phase = "validate" /\ ~Comparing(n) /\ n.track \in Tracks
          /\ \E m \in DOMAIN colls[n.track] : Alike(n.doc, colls[n.track][m])
      BY <1>0, <1>10, RecomposeCalm DEF Comparing
    <2>2. Contents(n.doc, released)
      BY <1>0, <2>1, ContentsLike
    <2> QED
      BY <2>1, <2>2 DEF Stocked
  <1>11. CASE Validate(r) \/ Resolve(r)
    <2>1. \/ n = Idle
          \/ /\ n.op = q.op /\ n.doc = q.doc /\ q.phase \in {"validate", "resolve"}
             /\ n.phase \in {"validate", "resolve", "clone"}
      BY <1>0, <1>11, ValidateStep, ResolveStep
    <2>2. CASE n.op = q.op /\ n.doc = q.doc /\ q.phase \in {"validate", "resolve"}
               /\ n.phase \in {"validate", "resolve", "clone"}
      BY <1>0, <2>2 DEF Stocked, Comparing
    <2> QED
      BY <1>1, <2>1, <2>2
  <1>12. CASE Compose(r)
    <2>1. n.phase = "clone"
      BY <1>0, <1>12, ComposeStep
    <2> QED
      BY <1>12, <2>1, ComposedContents DEF Stocked
  <1> QED
    BY <1>2, <1>3, <1>4, <1>5, <1>6, <1>7, <1>8, <1>9, <1>10, <1>11, <1>12

LEMMA SaverContents ==
  ASSUME SourceInv, ContentInv, NEW r \in Requests,
         \/ SaveTrack(r) \/ RegisterTrack(r) \/ Fill(r) \/ Clone(r)
         \/ Drop(r) \/ Deregister(r) \/ Fail(r)
  PROVE  Contents(req'[r].doc, released) /\ Stocked(req'[r])
  <1> DEFINE q == req[r]
             n == req'[r]
  <1>0. TypeOK /\ Contents(q.doc, released) /\ Stocked(q)
    BY DEF SourceInv, FreshInv, CatalogInv, ContentInv
  <1>1. CASE n = Idle
    BY <1>1, IdleContents
  <1>2. CASE Fill(r) \/ Clone(r) \/ Deregister(r) \/ Fail(r)
    BY <1>0, <1>1, <1>2, FillEffect, CloneEffect, DeregisterEffect, FailEffect
  <1>3. CASE SaveTrack(r)
    <2>1. q.phase = "save" /\ n.phase = "register" /\ n.found = q.found /\ Alike(n.doc, q.doc)
      BY <1>0, <1>3, SaveEffect
    <2>2. Contents(n.doc, released) /\ n.doc.resolution = q.doc.resolution
      BY <1>0, <2>1, ContentsLike DEF Alike
    <2> QED
      BY <1>0, <2>1, <2>2 DEF Stocked
  <1>4. CASE RegisterTrack(r)
    <2>1. \/ n = Idle
          \/ /\ q.phase = "register" /\ n.phase = "fill" /\ n.doc = q.doc
             /\ n.found = q.found /\ q.found # <<>>
      BY <1>0, <1>4, RegisterEffect
    <2>2. CASE /\ q.phase = "register" /\ n.phase = "fill" /\ n.doc = q.doc
               /\ n.found = q.found /\ q.found # <<>>
      BY <1>0, <2>2 DEF Stocked
    <2> QED
      BY <1>1, <2>1, <2>2
  <1>5. CASE Drop(r)
    <2>1. n.phase = "deregister" /\ n.doc = q.doc
      BY <1>0, <1>5, DropEffect
    <2> QED
      BY <1>0, <2>1 DEF Stocked
  <1> QED
    BY <1>2, <1>3, <1>4, <1>5

LEMMA RequestsContents ==
  ASSUME SourceInv, ExportInv, ContentInv, CatalogAssumption, [Next]_vars, NEW s \in Requests
  PROVE  Contents(req'[s].doc, released') /\ Stocked(req'[s])
  <1>0. /\ CatalogInv /\ TypeOK
        /\ Contents(req[s].doc, released) /\ Stocked(req[s])
    BY DEF SourceInv, FreshInv, CatalogInv, ContentInv
  <1>1. released \subseteq released'
    BY <1>0, ReleasedGrows
  <1>2. ASSUME Contents(req'[s].doc, released)
        PROVE  Contents(req'[s].doc, released')
    BY <1>1, <1>2, ContentsLike DEF Alike
  <1>3. ASSUME LET q == req[s]  n == req'[s] IN
                 n.phase = q.phase /\ n.op = q.op /\ n.doc = q.doc /\ n.found = q.found
        PROVE  Contents(req'[s].doc, released) /\ Stocked(req'[s])
    BY <1>0, <1>3 DEF Stocked, Comparing
  <1>4. CASE Steady
    BY <1>2, <1>3, <1>4 DEF Steady
  <1>5. CASE UNCHANGED vars
    BY <1>0, <1>4, <1>5, UnchangedSteady DEF vars
  <1>6. ASSUME NEW t \in Tracks, Edit(t) \/ Tag(t) \/ Withdraw(t)
        PROVE  Steady
    BY <1>0, <1>6, EditEffect, TagEffect, WithdrawEffect, UnchangedSteady
  <1>7. ASSUME NEW o \in Objects, Write(o)
        PROVE  Steady
    BY <1>0, <1>7, WriteEffect
  <1>8. ASSUME NEW r \in Requests,
               \/ SaveTrack(r) \/ RegisterTrack(r) \/ Fill(r) \/ Clone(r)
               \/ Drop(r) \/ Deregister(r) \/ Fail(r)
        PROVE  Contents(req'[s].doc, released') /\ Stocked(req'[s])
    <2>1. CASE s = r
      BY <1>2, <1>8, <2>1, SaverContents
    <2>2. CASE s # r /\ Drop(r)
      <3>1. req'[s] = Forgets(req[r].track, DOMAIN colls[req[r].track])[s]
        BY <1>0, <2>2, DropEffect
      <3>2. /\ req'[s].phase = req[s].phase /\ req'[s].op = req[s].op
            /\ req'[s].doc = req[s].doc /\ req'[s].found = req[s].found
        BY <1>0, <3>1, Forgetting
      <3> QED
        BY <1>2, <1>3, <3>2
    <2>3. CASE s # r /\ ~Drop(r)
      <3>1. req'[s] = req[s]
        BY <1>0, <1>8, <2>3, SaveEffect, RegisterEffect, FillEffect, CloneEffect,
           DeregisterEffect, FailEffect DEF Alters
      <3> QED
        BY <1>2, <1>3, <3>1
    <2> QED
      BY <2>1, <2>2, <2>3
  <1>9. ASSUME NEW r \in Requests,
               \/ BeginCreate(r) \/ BeginClone(r) \/ SaveTrackFails(r)
               \/ BeginImport(r) \/ ImportObject(r) \/ Imported(r) \/ BeginDelete(r)
               \/ BeginCompose(r) \/ BeginRecompose(r) \/ Validate(r) \/ Resolve(r) \/ Preview(r)
               \/ Compose(r) \/ BeginExport(r) \/ Hydrate(r) \/ HydrateFails(r)
               \/ Answer(r)
        PROVE  Contents(req'[s].doc, released') /\ Stocked(req'[s])
    <2>1. CASE s = r
      BY <1>2, <1>9, <2>1, MoverContents
    <2>2. CASE s # r
      <3>1. req'[s] = req[s]
        BY <1>0, <1>9, <2>2, CalmSteps DEF Calm, Alters
      <3> QED
        BY <1>2, <1>3, <3>1
    <2> QED
      BY <2>1, <2>2
  <1> QED
    BY <1>4, <1>5, <1>6, <1>7, <1>8, <1>9 DEF Next

\* A snapshot that is saved has the contents of a request's document, or those an edit or
\* a bundle gives it.
LEMMA AddedContents ==
  ASSUME ContentInv, NEW u \in Tracks, NEW d, Adds(u, d), d.modified \in Nat,
         released \subseteq released', Contents(d, released'),
         NEW t \in Tracks, NEW m \in DOMAIN colls'[t]
  PROVE  m \in Nat /\ Contents(colls'[t][m], released')
  <1>1. CASE t = u /\ m = d.modified
    BY <1>1 DEF Adds
  <1>2. CASE ~(t = u /\ m = d.modified)
    <2>1. m \in DOMAIN colls[t] /\ colls'[t][m] = colls[t][m]
      BY <1>2 DEF Adds
    <2>2. m \in Nat /\ Contents(colls[t][m], released)
      BY <2>1 DEF ContentInv
    <2> QED
      BY <2>1, <2>2, ContentsLike DEF Alike
  <1> QED
    BY <1>1, <1>2

LEMMA SnapshotsContents ==
  ASSUME CatalogInv, ContentInv, CatalogAssumption, [Next]_vars,
         NEW t \in Tracks, NEW m \in DOMAIN colls'[t]
  PROVE  m \in Nat /\ Contents(colls'[t][m], released')
  <1> DEFINE Good == m \in Nat /\ Contents(colls'[t][m], released')
  <1>0. /\ TypeOK /\ Now \subseteq Nat /\ released \subseteq released'
        /\ \A r \in Requests : Contents(req[r].doc, released) /\ Stocked(req[r])
    BY ReleasedGrows DEF CatalogInv, ContentInv, Now, CatalogAssumption
  <1>1. ASSUME m \in DOMAIN colls[t], colls'[t][m] = colls[t][m]
        PROVE  Good
    <2>1. m \in Nat /\ Contents(colls[t][m], released)
      BY <1>1 DEF ContentInv
    <2> QED
      BY <1>0, <1>1, <2>1, ContentsLike DEF Alike
  <1>2. ASSUME UNCHANGED colls
        PROVE  Good
    BY <1>1, <1>2
  <1>3. ASSUME NEW u \in Tracks, NEW d, Adds(u, d), d.modified \in Now, Contents(d, released')
        PROVE  Good
    BY <1>0, <1>3, AddedContents
  <1>4. ASSUME NEW u \in Tracks, Edit(u)
        PROVE  Good
    <2>1. PICK n \in DOMAIN colls[u] : \E d :
            /\ Adds(u, d) /\ d.resolution = colls[u][n].resolution
            /\ d.edited /\ d.members \in Lists /\ d.modified \in Now
      BY <1>0, <1>4, EditEffect
    <2>2. PICK d :
            /\ Adds(u, d) /\ d.resolution = colls[u][n].resolution
            /\ d.edited /\ d.members \in Lists /\ d.modified \in Now
      BY <2>1
    <2>3. Contents(colls[u][n], released) /\ d.members \in Seq(Pins)
      BY <2>2 DEF ContentInv, CatalogAssumption
    <2>4. Contents(d, released')
      BY <1>0, <2>2, <2>3, ContentsReplaced
    <2> QED
      BY <1>3, <2>2, <2>4
  <1>5. ASSUME NEW u \in Tracks, Tag(u)
        PROVE  Good
    <2>1. PICK n \in DOMAIN colls[u] : \E d :
            /\ \A v \in Tracks \ {u} : colls'[v] = colls[v]
            /\ DOMAIN colls'[u] = DOMAIN colls[u]
            /\ \A k \in DOMAIN colls[u] \ {n} : colls'[u][k] = colls[u][k]
            /\ colls'[u][n] = d /\ Alike(d, colls[u][n])
      BY <1>0, <1>5, TagEffect
    <2>2. CASE t = u /\ m = n
      <3>1. m \in Nat /\ Contents(colls[u][n], released)
        BY <2>2 DEF ContentInv
      <3> QED
        BY <1>0, <2>1, <2>2, <3>1, ContentsLike
    <2>3. CASE ~(t = u /\ m = n)
      BY <1>1, <2>1, <2>3
    <2> QED
      BY <2>2, <2>3
  <1>6. ASSUME NEW u \in Tracks, Withdraw(u)
        PROVE  Good
    BY <1>0, <1>1, <1>6, WithdrawEffect
  <1>7. ASSUME NEW r \in Requests, SaveTrack(r)
        PROVE  Good
    <2>1. /\ Adds(req[r].track, req'[r].doc) /\ Alike(req'[r].doc, req[r].doc)
          /\ req'[r].doc.modified \in Now /\ req[r].phase = "save"
      BY <1>0, <1>7, SaveEffect
    <2>2. Contents(req'[r].doc, released') /\ req[r].track \in Tracks
      BY <1>0, <2>1, ContentsLike DEF TypeOK, Known
    <2> QED
      BY <1>3, <2>1, <2>2
  <1>8. ASSUME NEW r \in Requests, Fill(r) \/ Clone(r)
        PROVE  Good
    <2>1. Saves(r) /\ req[r].track \in Tracks /\ Contents(req[r].doc, released) /\ Stocked(req[r])
      BY <1>0, <1>8, FillEffect, CloneEffect DEF TypeOK, Known
    <2>2. SUFFICES ASSUME NEW d, Adds(req[r].track, d), d.modified \in Now,
                          d.type = req[r].doc.type, d.resolution = req[r].doc.resolution,
                          d.quarantine = req[r].doc.quarantine, d.edited = req[r].doc.edited,
                          d.members = IF req[r].phase = "fill" THEN req[r].found
                                      ELSE req[r].doc.members
                   PROVE  Contents(d, released')
      BY <1>2, <1>3, <2>1 DEF Saves
    <2>3. CASE req[r].phase = "fill"
      BY <2>1, <2>2, <2>3, ContentsPlain DEF Stocked
    <2>4. CASE req[r].phase # "fill"
      <3>1. Alike(d, req[r].doc)
        BY <2>2, <2>4 DEF Alike
      <3> QED
        BY <1>0, <2>1, <3>1, ContentsLike
    <2> QED
      BY <2>3, <2>4
  <1>9. ASSUME NEW r \in Requests, Drop(r)
        PROVE  Good
    BY <1>0, <1>1, <1>9, DropEffect
  <1>10. ASSUME NEW r \in Requests, RegisterTrack(r) \/ Deregister(r) \/ Fail(r) \/ Calm(r)
         PROVE  Good
    <2>1. UNCHANGED colls
      BY <1>0, <1>10, RegisterEffect, DeregisterEffect, FailEffect DEF Calm
    <2> QED
      BY <1>2, <2>1
  <1>11. ASSUME NEW o \in Objects, Write(o)
         PROVE  Good
    BY <1>2, <1>11 DEF Write
  <1>12. /\ (\E u \in Tracks : Edit(u) \/ Tag(u) \/ Withdraw(u)) => Good
         /\ (\E o \in Objects : Write(o)) => Good
    BY <1>4, <1>5, <1>6, <1>11
  <1>13. ASSUME NEW r \in Requests,
                \/ SaveTrack(r) \/ Fill(r) \/ Clone(r) \/ RegisterTrack(r) \/ Deregister(r)
                \/ Fail(r) \/ Drop(r) \/ Calm(r)
         PROVE  Good
    BY <1>7, <1>8, <1>9, <1>10, <1>13
  <1>14. \/ UNCHANGED colls
         \/ \E u \in Tracks : Edit(u) \/ Tag(u) \/ Withdraw(u)
         \/ \E o \in Objects : Write(o)
         \/ \E r \in Requests : SaveTrack(r) \/ Fill(r) \/ Clone(r) \/ RegisterTrack(r) \/ Deregister(r)
                                \/ Fail(r) \/ Drop(r) \/ Calm(r)
    BY <1>0, CalmSteps DEF Next, vars
  <1> QED
    <2> HIDE DEF Good
    <2>1. Good
      BY <1>2, <1>12, <1>13, <1>14
    <2> QED
      BY <2>1 DEF Good

\* Releases are made of stored snapshots.
LEMMA ReleasesContents ==
  ASSUME CatalogInv, ContentInv, CatalogAssumption, [Next]_vars, NEW x \in released'
  PROVE  x.members \in Seq(Pins) /\ x.modified \in Nat
  <1>0. TypeOK
    BY DEF CatalogInv
  <1>1. CASE x \in released
    BY <1>1 DEF ContentInv
  <1>2. ASSUME NEW u \in Tracks, Tag(u)
        PROVE  x.members \in Seq(Pins) /\ x.modified \in Nat
    <2>1. PICK n \in DOMAIN colls[u] : \E d :
            /\ d.modified = n /\ Alike(d, colls[u][n])
            /\ released' = released \cup {Release(u, d)}
      BY <1>0, <1>2, TagEffect
    <2>2. n \in Nat /\ colls[u][n].members \in Seq(Pins)
      BY DEF ContentInv, Contents
    <2>3. PICK d : /\ d.modified = n /\ Alike(d, colls[u][n])
                   /\ released' = released \cup {Release(u, d)}
      BY <2>1
    <2>4. Release(u, d).members = colls[u][n].members /\ Release(u, d).modified = n
      BY <2>3 DEF Release, Alike
    <2> HIDE DEF Release
    <2> QED
      BY <1>1, <2>2, <2>3, <2>4
  <1>3. UNCHANGED released \/ \E u \in Tracks : Tag(u)
    BY <1>0, ReleasedChanges
  <1> QED
    BY <1>1, <1>2, <1>3

LEMMA ContentInit ==
  ASSUME CatalogAssumption, Init
  PROVE  ContentInv
  <1>1. \A t \in Tracks : \A m \in DOMAIN colls[t] :
          /\ m \in Nat /\ colls[t][m].modified = m
          /\ colls[t][m].members \in Seq(Pins) /\ colls[t][m].resolution = None
    BY DEF Init, CatalogAssumption
  <1>2. \A r \in Requests : req[r] = Idle
    BY DEF Init
  <1>3. ASSUME NEW x \in released
        PROVE  x.members \in Seq(Pins) /\ x.modified \in Nat
    <2>1. PICK t \in Tracks : \E m \in Tagged(t) : x = Release(t, colls[t][m])
      BY DEF Init
    <2>2. PICK m \in Tagged(t) : x = Release(t, colls[t][m])
      BY <2>1
    <2>3. m \in DOMAIN colls[t]
      BY DEF Tagged
    <2> QED
      BY <1>1, <2>2, <2>3 DEF Release
  <1> QED
    BY <1>1, <1>2, <1>3, ContentsPlain, IdleContents DEF ContentInv

LEMMA ContentStep ==
  ASSUME SourceInv, ExportInv, ContentInv, CatalogAssumption, [Next]_vars
  PROVE  ContentInv'
  <1>1. CatalogInv
    BY DEF SourceInv, FreshInv
  <1>2. \A x \in released' : x.members \in Seq(Pins) /\ x.modified \in Nat
    BY <1>1, ReleasesContents
  <1>3. \A t \in Tracks : \A m \in DOMAIN colls'[t] : m \in Nat /\ Contents(colls'[t][m], released')
    BY <1>1, SnapshotsContents
  <1>4. \A r \in Requests :
          Contents(req'[r].doc, released') /\ Stocked(req'[r])
    BY RequestsContents
  <1> QED
    BY <1>2, <1>3, <1>4 DEF ContentInv, Contents, Sound, Stocked

\* createVirtualSnapshot: a composed snapshot accounts for all that the releases it names
\* offered, each object in the version its strategy prefers or in quarantine, whatever
\* happened to the tracks while it was composed; once a user has replaced its members the
\* parts still name releases.
THEOREM CompositionsAreSound ==
  Spec => []CompositionSound
  <1>1. Init => ContentInv
    BY ContentInit, CatalogAssumption
  <1>2. SourceInv /\ ExportInv /\ ContentInv /\ [Next]_vars => ContentInv'
    BY ContentStep, CatalogAssumption
  <1>3. ContentInv => CompositionSound
    BY DEF ContentInv, Contents, Sound, CompositionSound
  <1> QED
    BY <1>1, <1>2, <1>3, SourceInvariant, ExportInvariant, PTL DEF Spec

=============================================================================
