---------------------------- MODULE TrackCatalog ----------------------------
(***************************************************************************)
(* All release tracks: the collection of snapshots of each, the registry,  *)
(* and the requests that span several tracks: creating a track, cloning    *)
(* one, making one from a STIX bundle, deleting one, and the composition   *)
(* of a virtual track from releases of standard tracks.  What happens to   *)
(* one track between the awaits of its own requests is in ReleaseTrack:    *)
(* here its editing, its tagging and the deletion of a snapshot are one    *)
(* step each.                                                              *)
(***************************************************************************)
EXTENDS CompositionRules

CONSTANTS
  Requests,      \* the requests that may be in flight at a time
  Ops,           \* what they may ask for
  Tracks,        \* the identifiers of release tracks
  InitColls,     \* the collections the system may start with
  Lists,         \* the members an edit may leave
  Compositions,  \* the compositions a request may carry: [components, strategy]
  Bundles,       \* the bundles to make a track from: [name, contents, objects]
  InitStore,     \* the object versions stored at the start
  Objects,       \* the object versions that may be stored or deleted meanwhile
  Types,         \* the types that have a repository and a service
  MaxTime,       \* bound on the wall clock
  MaxRequests,   \* bound on the number of requests
  MaxEdits,      \* bound on the edits, tags and deletions of snapshots
  Failures,      \* whether a request may be cut short by an error or a crash
  None

VARIABLES
  colls,      \* the snapshots of each track, by their modified timestamp
  registry,   \* the type the registry records for each track
  store,      \* the stored object versions
  clock,      \* the wall clock, in milliseconds
  req,        \* the state of each request
  begun,      \* the number of requests begun
  edits,      \* the number of edits, tags and deletions of snapshots
  released,   \* auxiliary: every release there ever was
  unmade      \* auxiliary: the tracks a deletion or a failure left, or may leave, half there

vars == <<colls, registry, store, clock, req, begun, edits, released, unmade>>

-----------------------------------------------------------------------------
(***************************************************************************)
(* Snapshots.  A version is the number of releases before it plus one,     *)
(* null is 0; past is the highest version of the version_history.  edited  *)
(* is auxiliary: the members were replaced since they were composed.       *)
(***************************************************************************)
NoComposition == [components |-> <<>>, strategy |-> None]

Snapshot(type, members, composition) ==
  [type |-> type, modified |-> 0, version |-> 0, past |-> 0, members |-> members,
   quarantine |-> <<>>, composition |-> composition, resolution |-> None, edited |-> FALSE]

\* What every snapshot is, and what its schema lets it say of its components.
IsSnapshot(s) ==
  /\ DOMAIN s = DOMAIN Snapshot("standard", <<>>, NoComposition)
  /\ s.type \in {"standard", "virtual"}
  /\ LET components == s.composition.components IN
       /\ Len(components) \in Nat
       /\ DOMAIN components = 1..Len(components)
       /\ \A i \in DOMAIN components :
            /\ components[i].track \in Tracks
            /\ components[i].by \in {"latest_tagged", "specific_version", "specific_snapshot"}
            /\ components[i].priority \in Nat
  /\ s.composition.strategy \in Strategies \cup {None}

Pins == [ref : DOMAIN TypeOf, mod : Nat]

BundleObjects == [ref : DOMAIN TypeOf, mod : Nat, known : BOOLEAN, valid : BOOLEAN]

\* The snapshots at the start are of one type in each track, under their own timestamps,
\* and none is composed yet; an identifier a component names is one of Tracks.
ASSUME CatalogAssumption ==
  /\ None \notin {"standard", "virtual"}
  /\ InitStore \cup Objects \subseteq Pins
  /\ Lists \subseteq Seq(Pins)
  /\ MaxTime \in Nat
  /\ \A b \in Bundles : b.contents \in Seq(Pins) /\ b.objects \in Seq(BundleObjects)
  /\ \A c \in Compositions : IsSnapshot(Snapshot("virtual", <<>>, c))
  /\ \A initial \in InitColls :
       /\ DOMAIN initial = Tracks
       /\ \A t \in Tracks :
            /\ IsFiniteSet(DOMAIN initial[t])
            /\ \A m \in DOMAIN initial[t] :
                 /\ m \in Nat
                 /\ IsSnapshot(initial[t][m])
                 /\ initial[t][m].members \in Seq(Pins)
                 /\ initial[t][m].modified = m
                 /\ initial[t][m].resolution = None
                 /\ \A n \in DOMAIN initial[t] : initial[t][n].type = initial[t][m].type

At(s, time) == [s EXCEPT !.modified = time, !.version = 0]

IsTagged(s) == s.version # 0

Latest(t) == {m \in DOMAIN colls[t] : \A n \in DOMAIN colls[t] : n <= m}

Tagged(t) == {m \in DOMAIN colls[t] : IsTagged(colls[t][m])}

LatestTagged(t) == {m \in Tagged(t) : \A n \in Tagged(t) : n <= m}

Release(t, s) ==
  [track |-> t, modified |-> s.modified, version |-> s.version, members |-> s.members,
   type |-> s.type]

\* saveSnapshot; the unique index on (id, modified) must admit it.
Stored(t, s) ==
  [colls EXCEPT ![t] =
     [m \in DOMAIN colls[t] \cup {s.modified} |-> IF m = s.modified THEN s ELSE colls[t][m]]]

Free(t, time) == time \notin DOMAIN colls[t]

\* Time stands still or goes on between two steps.
Now == {clock, clock + 1} \cap (1..MaxTime)

-----------------------------------------------------------------------------
(***************************************************************************)
(* A request: what it asked for, what it read, how far it got.             *)
(***************************************************************************)
Request(phase, op, track, doc) ==
  [phase |-> phase, op |-> op, track |-> track, doc |-> doc, name |-> "plain",
   next |-> 1, found |-> <<>>, queue |-> <<>>, floor |-> <<>>]

Idle == Request("idle", None, None, Snapshot("standard", <<>>, NoComposition))

Components(q) == q.doc.composition.components

\* Auxiliary: snapshots of a track that are deleted are none that a request must know of.
Forgets(t, gone) ==
  [r \in Requests |->
     IF req[r].op \notin {"compose", "preview"} THEN req[r]
     ELSE [req[r] EXCEPT !.floor =
             [i \in DOMAIN req[r].floor |->
                IF Components(req[r])[i].track = t THEN req[r].floor[i] \ gone
                ELSE req[r].floor[i]]]]

Goes(r, state) == req' = [req EXCEPT ![r] = state]

Ends(r) == Goes(r, Idle)

Begins(r, op) ==
  /\ req[r].phase = "idle"
  /\ op \in Ops
  /\ begun < MaxRequests
  /\ begun' = begun + 1

InUse(t) == registry[t] # None \/ DOMAIN colls[t] # {} \/ t \in unmade
            \/ \E r \in Requests : req[r].phase # "idle" /\ req[r].track = t

Init ==
  /\ colls \in InitColls
  /\ registry = [t \in Tracks |-> IF DOMAIN colls[t] = {} THEN None
                                  ELSE colls[t][CHOOSE m \in Latest(t) : TRUE].type]
  /\ store = InitStore
  /\ clock = CHOOSE n \in 1..MaxTime :
               /\ \A t \in Tracks : \A m \in DOMAIN colls[t] : m <= n
               /\ \E t \in Tracks : n \in DOMAIN colls[t]
  /\ req = [r \in Requests |-> Idle]
  /\ begun = 0
  /\ edits = 0
  /\ released = UNION {{Release(t, colls[t][m]) : m \in Tagged(t)} : t \in Tracks}
  /\ unmade = {}

-----------------------------------------------------------------------------
(***************************************************************************)
(* The life of one track.                                                  *)
(***************************************************************************)
EditsOn == edits < MaxEdits /\ edits' = edits + 1

\* A clone of any snapshot with other members, of a track of either type; a clone of one
\* that was composed keeps its quarantine and its composition_resolution.
Edit(t) ==
  /\ EditsOn
  /\ \E m \in DOMAIN colls[t], now \in Now, members \in Lists :
       /\ Free(t, now)
       /\ clock' = now
       /\ colls' = Stored(t, At([colls[t][m] EXCEPT !.members = members, !.edited = TRUE], now))
  /\ UNCHANGED <<registry, store, req, begun, released, unmade>>

\* bumpLatest, bumpByModified, of either type.
Tag(t) ==
  /\ EditsOn
  /\ \E m \in DOMAIN colls[t] :
       LET v == colls[t][m].past + 1
           s == [colls[t][m] EXCEPT !.version = v, !.past = v] IN
       /\ ~IsTagged(colls[t][m])
       /\ colls' = [colls EXCEPT ![t][m] = s]
       /\ released' = released \cup {Release(t, s)}
  /\ UNCHANGED <<registry, store, clock, req, begun, unmade>>

\* deleteSnapshot, of a release too; the last one leaves a registered track without any.
Withdraw(t) ==
  /\ EditsOn
  /\ \E m \in DOMAIN colls[t] :
       /\ colls' = [colls EXCEPT ![t] = [n \in DOMAIN colls[t] \ {m} |-> colls[t][n]]]
       /\ unmade' = IF DOMAIN colls[t] = {m} THEN unmade \cup {t} ELSE unmade
       /\ req' = Forgets(t, {m})
  /\ UNCHANGED <<registry, store, clock, begun, released>>

-----------------------------------------------------------------------------
(***************************************************************************)
(* createTrack: the snapshot first, then the entry in the registry.  The   *)
(* composition of a new virtual track is not looked at.                    *)
(***************************************************************************)
BeginCreate(r) ==
  /\ Begins(r, "create")
  /\ \E t \in Tracks, s \in {Snapshot("standard", <<>>, NoComposition)}
                           \cup {Snapshot("virtual", <<>>, c) : c \in Compositions} :
       /\ ~InUse(t)
       /\ Goes(r, Request("save", "create", t, s))
  /\ UNCHANGED <<colls, registry, store, clock, edits, released, unmade>>

\* _cloneToNewTrack: a copy of the snapshot, without its history.
Copied(s) == [s EXCEPT !.past = 0]

\* cloneTrack, cloneFromSnapshot; without a name it is "<name> (copy)".
BeginClone(r) ==
  /\ Begins(r, "clone")
  /\ \E source, t \in Tracks, name \in {"plain", "copy"} : \E m \in DOMAIN colls[source] :
       /\ ~InUse(t)
       /\ Goes(r, [Request("save", "clone", t, Copied(colls[source][m])) EXCEPT !.name = name])
  /\ UNCHANGED <<colls, registry, store, clock, edits, released, unmade>>

\* trackNameSchema: letters, digits and spaces; the schema of the snapshot asks for it.
ValidName(name) == name = "plain"

SaveTrack(r) ==
  LET q == req[r] IN
  /\ q.phase = "save"
  /\ ValidName(q.name)
  /\ \E now \in Now :
       /\ clock' = now
       /\ colls' = Stored(q.track, At(q.doc, now))
       /\ Goes(r, [q EXCEPT !.phase = "register", !.doc = At(q.doc, now)])
  /\ UNCHANGED <<registry, store, begun, edits, released, unmade>>

\* A slip to rule out: the entry is in the registry before the snapshot is refused.
SaveTrackFails_Registered(r) ==
  /\ req[r].phase = "save"
  /\ ~ValidName(req[r].name)
  /\ registry' = [registry EXCEPT ![req[r].track] = req[r].doc.type]
  /\ Ends(r)
  /\ UNCHANGED <<colls, store, clock, begun, edits, released, unmade>>

\* The document does not validate.
SaveTrackFails(r) ==
  /\ req[r].phase = "save"
  /\ ~ValidName(req[r].name)
  /\ Ends(r)
  /\ UNCHANGED <<colls, registry, store, clock, begun, edits, released, unmade>>

\* A track made from a bundle is filled next, if there is something to put in.
RegisterTrack(r) ==
  LET q == req[r] IN
  /\ q.phase = "register"
  /\ registry' = [registry EXCEPT ![q.track] = q.doc.type]
  /\ IF q.found = <<>> THEN Ends(r) ELSE Goes(r, [q EXCEPT !.phase = "fill"])
  /\ UNCHANGED <<colls, store, clock, begun, edits, released, unmade>>

-----------------------------------------------------------------------------
(***************************************************************************)
(* createTrackFromBundle: import the objects one by one in the order of    *)
(* their types, then create the track, then clone its snapshot with the    *)
(* members.  An object is [ref, mod, known, valid]: whether its type has a *)
(* service and it has an id and a modified, whether create accepts it.     *)
(***************************************************************************)
BeginImport(r) ==
  /\ Begins(r, "import")
  /\ \E t \in Tracks, b \in Bundles :
       /\ ~InUse(t)
       /\ Goes(r, [Request("import", "import", t, Snapshot("standard", b.contents, NoComposition))
                     EXCEPT !.name = b.name, !.queue = b.objects])
  /\ UNCHANGED <<colls, registry, store, clock, edits, released, unmade>>

\* A version that is stored is skipped; one that create turns away is logged; either is
\* a member all the same.
ImportObject(r) ==
  LET q == req[r]  o == Head(q.queue) IN
  /\ q.phase = "import"
  /\ q.queue # <<>>
  /\ store' = IF o.known /\ o.valid THEN store \cup {Pin(o)} ELSE store
  /\ Goes(r, [q EXCEPT !.queue = Tail(@), !.found = IF o.known THEN Append(@, Pin(o)) ELSE @])
  /\ UNCHANGED <<colls, registry, clock, begun, edits, released, unmade>>

\* The contents of the collection object are authoritative, if there are any.
Imported(r) ==
  LET q == req[r] IN
  /\ q.phase = "import"
  /\ q.queue = <<>>
  /\ Goes(r, [q EXCEPT !.phase = "save", !.doc.members = <<>>,
                       !.found = IF q.doc.members # <<>> THEN q.doc.members ELSE @])
  /\ UNCHANGED <<colls, registry, store, clock, begun, edits, released, unmade>>

Fill(r) ==
  LET q == req[r] IN
  /\ q.phase = "fill"
  /\ \E now \in Now :
       /\ clock' = now
       /\ colls' = IF Free(q.track, now)
                   THEN Stored(q.track, At([q.doc EXCEPT !.members = q.found], now))
                   ELSE colls    \* DuplicateIdError
  /\ Ends(r)
  /\ UNCHANGED <<registry, store, begun, edits, released, unmade>>

-----------------------------------------------------------------------------
(***************************************************************************)
(* deleteTrack: find the entry, drop the collection, delete the entry.     *)
(***************************************************************************)
BeginDelete(r) ==
  /\ Begins(r, "delete")
  /\ \E t \in Tracks :
       /\ registry[t] # None
       /\ Goes(r, [Idle EXCEPT !.phase = "drop", !.op = "delete", !.track = t])
  /\ UNCHANGED <<colls, registry, store, clock, edits, released, unmade>>

Drop(r) ==
  LET t == req[r].track IN
  /\ req[r].phase = "drop"
  /\ colls' = [colls EXCEPT ![t] = <<>>]
  /\ unmade' = unmade \cup {t}
  /\ req' = [Forgets(t, DOMAIN colls[t]) EXCEPT ![r].phase = "deregister"]
  /\ UNCHANGED <<registry, store, clock, begun, edits, released>>

Deregister(r) ==
  /\ req[r].phase = "deregister"
  /\ registry' = [registry EXCEPT ![req[r].track] = None]
  /\ Ends(r)
  /\ UNCHANGED <<colls, store, clock, begun, edits, released, unmade>>

-----------------------------------------------------------------------------
(***************************************************************************)
(* Virtual tracks.                                                         *)
(***************************************************************************)
\* The checks of validateComponentTracks that need no database.
Distinct(components) ==
  /\ components # <<>>
  /\ \A i, j \in DOMAIN components :
       i # j => /\ components[i].track # components[j].track
                /\ components[i].priority # components[j].priority

\* Auxiliary: the newest releases at this moment.
Floor(components) == [i \in DOMAIN components |-> LatestTagged(components[i].track)]

\* createVirtualSnapshot and previewVirtualSnapshot read the latest snapshot.
BeginCompose(r) ==
  \E op \in {"compose", "preview"} :
    /\ Begins(r, op)
    /\ \E t \in Tracks : \E m \in Latest(t) :
         LET s == colls[t][m] IN
         /\ s.type = "virtual"
         /\ Distinct(s.composition.components)
         /\ Goes(r, [Request("validate", op, t, s) EXCEPT
                       !.floor = Floor(s.composition.components)])
    /\ UNCHANGED <<colls, registry, store, clock, edits, released, unmade>>

\* updateComposition: the request carries the composition to check.
BeginRecompose(r) ==
  /\ Begins(r, "recompose")
  /\ \E t \in Tracks, c \in Compositions : \E m \in Latest(t) :
       /\ colls[t][m].type = "virtual"
       /\ Distinct(c.components)
       /\ Goes(r, Request("validate", "recompose", t, [colls[t][m] EXCEPT !.composition = c]))
  /\ UNCHANGED <<colls, registry, store, clock, edits, released, unmade>>

\* One entry of the registry after the other.
Validate(r) ==
  LET q == req[r]  type == registry[Components(q)[q.next].track] IN
  /\ q.phase = "validate"
  /\ IF type # "standard"
     THEN Ends(r)        \* TrackNotFoundError, InvalidComponentTypeError
     ELSE IF q.next < Len(Components(q)) THEN Goes(r, [q EXCEPT !.next = @ + 1])
     ELSE IF q.op = "recompose" THEN Goes(r, [q EXCEPT !.phase = "clone"])
     ELSE Goes(r, [q EXCEPT !.phase = "resolve",
                            !.found = [i \in DOMAIN Components(q) |-> None]])
  /\ UNCHANGED <<colls, registry, store, clock, begun, edits, released, unmade>>

\* A slip to rule out: the latest release is the one with the lowest timestamp.
Resolved_Oldest(c) ==
  {colls[c.track][m] : m \in
     CASE c.by = "latest_tagged" -> {m \in Tagged(c.track) : \A n \in Tagged(c.track) : m <= n}
       [] c.by = "specific_version" -> {n \in Tagged(c.track) : colls[c.track][n].version = c.version}
       [] c.by = "specific_snapshot" -> {c.snapshot} \cap Tagged(c.track)}

\* resolveComponentSnapshot; nothing found and a draft found are the same error.
Resolved(c) ==
  {colls[c.track][m] : m \in
     CASE c.by = "latest_tagged" -> LatestTagged(c.track)
       [] c.by = "specific_version" -> {n \in Tagged(c.track) : colls[c.track][n].version = c.version}
       [] c.by = "specific_snapshot" -> {c.snapshot} \cap Tagged(c.track)}

Unresolved(q) == {i \in DOMAIN q.found : q.found[i] = None}

\* The components are resolved in parallel, in any order.
Resolve(r) ==
  LET q == req[r] IN
  /\ q.phase = "resolve"
  /\ \E i \in Unresolved(q) :
       LET options == Resolved(Components(q)[i]) IN
       IF options = {} THEN Ends(r)     \* NoTaggedSnapshotsError
       ELSE \E s \in options : Goes(r, [q EXCEPT !.found[i] = s])
  /\ UNCHANGED <<colls, registry, store, clock, begun, edits, released, unmade>>

Preview(r) ==
  /\ req[r].phase = "resolve" /\ Unresolved(req[r]) = {}
  /\ req[r].op = "preview"
  /\ Ends(r)
  /\ UNCHANGED <<colls, registry, store, clock, begun, edits, released, unmade>>

\* composition_resolution: what each component gave, and by which strategy.
Part(component, found, entries, members) ==
  [track |-> component.track, snapshot |-> found.modified, version |-> found.version,
   by |-> component.by, types |-> component.types, priority |-> component.priority,
   contributed |-> Contributed(entries, members, component.track)]

Strategy(composition) ==
  IF composition.strategy = None THEN "prioritize_latest_object" ELSE composition.strategy

\* resolveComposition, once every component is resolved.
Composed(q) ==
  LET entries == AllAnnotated(Components(q), q.found)
      result  == Deduplicate(entries, Strategy(q.doc.composition))
  IN [q.doc EXCEPT
        !.members = result.members,
        !.quarantine = result.quarantine,
        !.edited = FALSE,
        !.resolution =
          [parts |-> [i \in DOMAIN Components(q) |->
                        Part(Components(q)[i], q.found[i], entries, result.members)],
           strategy |-> Strategy(q.doc.composition)]]

Compose(r) ==
  LET q == req[r] IN
  /\ q.phase = "resolve" /\ Unresolved(q) = {}
  /\ q.op = "compose"
  /\ Goes(r, [q EXCEPT !.phase = "clone", !.doc = Composed(q)])
  /\ UNCHANGED <<colls, registry, store, clock, begun, edits, released, unmade>>

\* cloneSnapshot of the copy that was read, whatever was saved since then; saving makes
\* the collection anew if it was dropped.
Clone(r) ==
  LET q == req[r] IN
  /\ q.phase = "clone"
  /\ \E now \in Now :
       /\ clock' = now
       /\ colls' = IF Free(q.track, now) THEN Stored(q.track, At(q.doc, now)) ELSE colls
  /\ Ends(r)
  /\ UNCHANGED <<registry, store, begun, edits, released, unmade>>

-----------------------------------------------------------------------------
(***************************************************************************)
(* exportSnapshot with format=bundle: the members are fetched type by      *)
(* type, in parallel, while objects come and go.                           *)
(***************************************************************************)
BeginExport(r) ==
  /\ Begins(r, "export")
  /\ \E t \in Tracks : \E m \in DOMAIN colls[t] :
       LET members == colls[t][m].members IN
       Goes(r, [Request("hydrate", "export", t, colls[t][m]) EXCEPT
                  !.queue = {TypeOf[members[i].ref] : i \in DOMAIN members},
                  !.found = {},
                  !.floor = store])
  /\ UNCHANGED <<colls, registry, store, clock, edits, released, unmade>>

\* A slip to rule out: the objects are fetched by their id alone.
Fetched_AnyVersion(pins, type) ==
  {o \in store : TypeOf[o.ref] = type /\ \E i \in DOMAIN pins : pins[i].ref = o.ref}

\* findManyByIdAndModified: those of the pinned versions of a type that are stored.
Fetched(pins, type) ==
  {o \in store : TypeOf[o.ref] = type /\ \E i \in DOMAIN pins : SamePin(pins[i], o)}

\* The objects of a type that has no repository are left out.
Hydrate(r) ==
  LET q == req[r] IN
  /\ q.phase = "hydrate"
  /\ \E type \in q.queue :
       LET docs == IF type \in Types THEN Fetched(q.doc.members, type) ELSE {} IN
       Goes(r, [q EXCEPT !.queue = @ \ {type}, !.found = @ \cup docs])
  /\ UNCHANGED <<colls, registry, store, clock, begun, edits, released, unmade>>

\* So are those of a type whose query fails: the error is logged.
HydrateFails(r) ==
  LET q == req[r] IN
  /\ Failures
  /\ q.phase = "hydrate"
  /\ \E type \in q.queue \cap Types :
       Goes(r, [q EXCEPT !.queue = @ \ {type},
                         !.floor = {o \in @ : TypeOf[o.ref] # type}])
  /\ UNCHANGED <<colls, registry, store, clock, begun, edits, released, unmade>>

Answer(r) ==
  /\ req[r].phase = "hydrate"
  /\ req[r].queue = {}
  /\ Ends(r)
  /\ UNCHANGED <<colls, registry, store, clock, begun, edits, released, unmade>>

\* A version is stored, or deleted, by a request about objects.
Write(o) ==
  /\ EditsOn
  /\ store' = IF o \in store THEN store \ {o} ELSE store \cup {o}
  /\ req' = [r \in Requests |->
               IF req[r].phase = "hydrate" THEN [req[r] EXCEPT !.floor = @ \ {o}] ELSE req[r]]
  /\ UNCHANGED <<colls, registry, clock, begun, released, unmade>>

-----------------------------------------------------------------------------
\* A database call fails, or the process stops, between two steps.
Fail(r) ==
  /\ Failures
  /\ req[r].phase # "idle"
  /\ unmade' = IF req[r].phase = "register" THEN unmade \cup {req[r].track} ELSE unmade
  /\ Ends(r)
  /\ UNCHANGED <<colls, registry, store, clock, begun, edits, released>>

Next ==
  \/ \E t \in Tracks : Edit(t) \/ Tag(t) \/ Withdraw(t)
  \/ \E r \in Requests :
       \/ BeginCreate(r) \/ BeginClone(r) \/ SaveTrack(r) \/ SaveTrackFails(r) \/ RegisterTrack(r)
       \/ BeginImport(r) \/ ImportObject(r) \/ Imported(r) \/ Fill(r)
       \/ BeginDelete(r) \/ Drop(r) \/ Deregister(r)
       \/ BeginCompose(r) \/ BeginRecompose(r) \/ Validate(r) \/ Resolve(r) \/ Preview(r)
       \/ Compose(r) \/ Clone(r)
       \/ BeginExport(r) \/ Hydrate(r) \/ HydrateFails(r) \/ Answer(r)
       \/ Fail(r)
  \/ \E o \in Objects : Write(o)

Spec == Init /\ [][Next]_vars

-----------------------------------------------------------------------------
(***************************************************************************)
(* Properties.                                                             *)
(***************************************************************************)

\* What the parts of a resolution offered: the members, of the types asked for, of
\* the release that each part names.
Offers(parts, sources) ==
  UNION {{[ref |-> sources[i].members[j].ref, mod |-> sources[i].members[j].mod,
           snapshot |-> parts[i].snapshot, priority |-> parts[i].priority, at |-> <<i, j>>] :
            j \in {k \in DOMAIN sources[i].members :
                     \/ parts[i].types = {}
                     \/ TypeOf[sources[i].members[k].ref] \in parts[i].types}} :
         i \in DOMAIN parts}

Preferred(strategy, e, rivals) ==
  CASE strategy = "prioritize_latest_object" -> \A f \in rivals : f.mod <= e.mod
    [] strategy = "prioritize_latest_snapshot" -> \A f \in rivals : f.snapshot <= e.snapshot
    [] strategy = "prioritize_higher_priority" -> \A f \in rivals : e.priority <= f.priority
    [] strategy = "quarantine" -> rivals = {e}

Accounts(s, offers) ==
  LET Rivals(ref) == {e \in offers : e.ref = ref}
      members == {s.members[i] : i \in DOMAIN s.members}
  IN /\ \A i, j \in DOMAIN s.members : s.members[i].ref = s.members[j].ref => i = j
     /\ \A m \in members : \E e \in Rivals(m.ref) :
          SamePin(m, e) /\ Preferred(s.resolution.strategy, e, Rivals(m.ref))
     /\ \A e \in offers :
          \/ \E m \in members : m.ref = e.ref
          \/ Cardinality(Rivals(e.ref)) > 1 /\ \E i \in DOMAIN s.quarantine : SamePin(s.quarantine[i], e)
     /\ \A i \in DOMAIN s.quarantine : ~\E m \in members : m.ref = s.quarantine[i].ref

\* A snapshot composed for a virtual track is what its composition_resolution says of it:
\* each part names a release that a standard track made, although tracks were edited,
\* tagged and deleted while the parts were read; every object they offered is a member in
\* exactly the version the strategy prefers, or in quarantine, and nothing else is.  Of a
\* snapshot whose members a user has replaced since, only the parts are true still.
CompositionSound ==
  \A t \in Tracks : \A m \in DOMAIN colls[t] :
    LET s == colls[t][m] IN
    s.resolution # None =>
      \E sources \in [DOMAIN s.resolution.parts -> released] :
        /\ \A i \in DOMAIN sources :
             /\ sources[i].track = s.resolution.parts[i].track
             /\ sources[i].modified = s.resolution.parts[i].snapshot
             /\ sources[i].version = s.resolution.parts[i].version
             /\ sources[i].type = "standard"
        /\ s.edited \/ Accounts(s, Offers(s.resolution.parts, sources))

\* A component to be taken at its latest release is not taken at one older than what was
\* its latest release when the request came in, unless that one was deleted since; not
\* even if another release bears the timestamp of a deleted one.
FreshWhenAsked ==
  \A r \in Requests :
    req[r].op = "compose" /\ req[r].phase = "clone" =>
      \A i \in DOMAIN Components(req[r]) :
        Components(req[r])[i].by = "latest_tagged" =>
          \A m \in req[r].floor[i] : m <= req[r].found[i].modified

\* The registry and the collections agree, through failures: a registered track has a
\* snapshot unless its deletion began or its last snapshot was deleted, and a collection
\* that is not registered is one being created, or one whose creation or deletion was cut
\* short or raced a request that saved into it.
CatalogAgrees ==
  \A t \in Tracks :
    /\ registry[t] # None /\ DOMAIN colls[t] = {} => t \in unmade
    /\ registry[t] = None /\ DOMAIN colls[t] # {} =>
         t \in unmade \/ \E r \in Requests : req[r].phase = "register" /\ req[r].track = t

\* An exported bundle has every pinned version that was stored all the while, if its type
\* has a repository that answered, and no version that is not pinned.
ExportFaithful ==
  \A r \in Requests :
    req[r].phase = "hydrate" /\ req[r].queue = {} =>
      LET pins == {Pin(req[r].doc.members[i]) : i \in DOMAIN req[r].doc.members}
      IN /\ req[r].found \subseteq pins
         /\ {p \in pins \cap req[r].floor : TypeOf[p.ref] \in Types} \subseteq req[r].found

=============================================================================
