---------------------------- MODULE ReleaseTrack ----------------------------
(***************************************************************************)
(* One standard release track under concurrent requests: the snapshots of  *)
(* its collection (release-track-dynamic.repository.js), its entry in the  *)
(* registry, and the requests in flight, each a sequence of awaited        *)
(* database calls (snapshot-service.js, versioning-service.js,             *)
(* workflow-service.js).  An action runs from one await to the next.       *)
(***************************************************************************)
EXTENDS TierOperations

CONSTANTS
  Requests,     \* the requests that may be in flight at a time
  InitBodies,   \* the tiers a new track starts with, those of a cloned track included
  Ops,          \* the operations requested
  ByModified,   \* those of them that are also offered on a named snapshot
  Explicit,     \* the version numbers a bump may name
  MaxTime,      \* bound on the wall clock
  Failures      \* whether a request may be cut short by an error or a crash

\* A version number <<major, minor>>; version: null is the empty tuple.
Releases == Nat \X Nat
Draft    == <<>>

ASSUME ExplicitAssumption == Explicit \subseteq Releases
ASSUME TimeAssumption     == MaxTime \in Nat \ {0}
ASSUME FailuresAssumption == Failures \in BOOLEAN

VARIABLES
  snaps,        \* the stored snapshots, by their modified timestamp
  registry,     \* the counters of the track's registry entry
  clock,        \* the wall clock, in milliseconds
  req,          \* the state of each request
  removed,      \* auxiliary: the timestamps of deleted snapshots
  recycled      \* auxiliary: a snapshot was saved at the timestamp of a deleted one

vars == <<snaps, registry, clock, req, removed, recycled>>

-----------------------------------------------------------------------------
(***************************************************************************)
(* Documents.                                                              *)
(***************************************************************************)
Snapshot(m, v, h, b) == [modified |-> m, version |-> v, history |-> h, body |-> b]

HistoryEntry(v, m) == [version |-> v, snapshot |-> m]

Counters(n, t, m, v) == [count |-> n, tagged |-> t, latest |-> m, version |-> v]

Request(p, o, d, c) == [phase |-> p, op |-> o, doc |-> d, counts |-> c]

NoCounters == Counters(0, 0, 0, Draft)
NoDoc      == Snapshot(0, Draft, <<>>, EmptyBody)
Idle       == Request("idle", "none", NoDoc, NoCounters)

IsTagged(s) == s.version # Draft

TaggedTimes == {m \in DOMAIN snaps : IsTagged(snaps[m])}

\* The first of some timestamps sorted by {modified: -1}, as a set.
LatestOf(times) == {m \in times : \A n \in times : n <= m}

\* getLatestSnapshot, or getSnapshotByModified.
Sources(op) == IF op \in ByModified THEN DOMAIN snaps ELSE LatestOf(DOMAIN snaps)

(***************************************************************************)
(* Version numbers: compareVersions, calculateNextVersion on the highest   *)
(* entry, validateVersionProgression against every entry.                  *)
(***************************************************************************)
Below(v, w) == v[1] < w[1] \/ (v[1] = w[1] /\ v[2] < w[2])

Highest(h) == CHOOSE v \in {h[i].version : i \in DOMAIN h} :
                \A i \in DOMAIN h : ~Below(v, h[i].version)

NextVersions(h) ==
  IF h = <<>> THEN {<<1, 0>>}
  ELSE {<<Highest(h)[1] + 1, 0>>, <<Highest(h)[1], Highest(h)[2] + 1>>}

\* A slip to rule out: a version only has to be a new one.
Progresses_NotEqual(v, h) == \A i \in DOMAIN h : h[i].version # v

Progresses(v, h) == \A i \in DOMAIN h : Below(h[i].version, v)

Admissible(h) == {v \in NextVersions(h) \cup Explicit : v \in Releases /\ Progresses(v, h)}

(***************************************************************************)
(* syncRegistryCounters, from what getAllSnapshots returned.               *)
(***************************************************************************)
LatestOrNull(times) == IF times = {} THEN {0} ELSE LatestOf(times)

VersionAt(m) == IF m = 0 THEN Draft ELSE snaps[m].version

Recounted ==
  {Counters(Cardinality(DOMAIN snaps), Cardinality(TaggedTimes), m, VersionAt(t)) :
     m \in LatestOrNull(DOMAIN snaps), t \in LatestOrNull(TaggedTimes)}

-----------------------------------------------------------------------------
(***************************************************************************)
(* createTrack or _cloneToNewTrack has completed.                          *)
(***************************************************************************)
Init ==
  /\ \E b \in InitBodies : snaps = [m \in {1} |-> Snapshot(1, Draft, <<>>, b)]
  /\ registry = Counters(1, 0, 1, Draft)
  /\ clock = 1
  /\ req = [r \in Requests |-> Idle]
  /\ removed = {}
  /\ recycled = FALSE

Goes(r, state) == req' = [req EXCEPT ![r] = state]

Ends(r) == Goes(r, Idle)

(***************************************************************************)
(* An editing request: read a snapshot, compute the clone and stamp it     *)
(* with the current time, save it, recount, write the counters.            *)
(***************************************************************************)
BeginEdit(r) ==
  /\ req[r].phase = "idle"
  /\ \E op \in Ops \cap EditOps : \E m \in Sources(op) :
       Goes(r, Request("stamp", op, snaps[m], NoCounters))
  /\ UNCHANGED <<snaps, registry, clock, removed, recycled>>

\* cloneSnapshot up to the save; the handler may have awaited an object's version before.
Stamp(r) ==
  /\ req[r].phase = "stamp"
  /\ \E t \in {clock, clock + 1}, b \in Results(req[r].op, req[r].doc.body) :
       /\ t <= MaxTime
       /\ clock' = t
       /\ Goes(r, Request("save", req[r].op, Snapshot(t, Draft, req[r].doc.history, b), NoCounters))
  /\ UNCHANGED <<snaps, registry, removed, recycled>>

\* The handler throws: nothing to remove, promote, demote or synchronise.
Refuse(r) ==
  /\ req[r].phase = "stamp"
  /\ Results(req[r].op, req[r].doc.body) = {}
  /\ Ends(r)
  /\ UNCHANGED <<snaps, registry, clock, removed, recycled>>

Stored(s) ==
  [m \in DOMAIN snaps \cup {s.modified} |-> IF m = s.modified THEN s ELSE snaps[m]]

\* A slip to rule out: no unique index, a clone replaces what it finds.
Save_Upserts(r) ==
  /\ req[r].phase = "save"
  /\ snaps' = Stored(req[r].doc)
  /\ recycled' = (recycled \/ req[r].doc.modified \in removed)
  /\ Goes(r, Request("recount", req[r].op, req[r].doc, NoCounters))
  /\ UNCHANGED <<registry, clock, removed>>

\* The unique index on (id, modified) admits the clone.
Save(r) ==
  LET s == req[r].doc IN
  /\ req[r].phase = "save"
  /\ s.modified \notin DOMAIN snaps
  /\ snaps' = Stored(s)
  /\ recycled' = (recycled \/ s.modified \in removed)
  /\ Goes(r, Request("recount", req[r].op, s, NoCounters))
  /\ UNCHANGED <<registry, clock, removed>>

\* DuplicateIdError.
SaveRefused(r) ==
  /\ req[r].phase = "save"
  /\ req[r].doc.modified \in DOMAIN snaps
  /\ Ends(r)
  /\ UNCHANGED <<snaps, registry, clock, removed, recycled>>

Recount(r) ==
  /\ req[r].phase = "recount"
  /\ \E c \in Recounted : Goes(r, Request("register", req[r].op, req[r].doc, c))
  /\ UNCHANGED <<snaps, registry, clock, removed, recycled>>

\* evaluateAutoPromotion goes on from the clone just saved, without reading again.
AfterEdit(q) ==
  IF q.op \in EvaluatingOps /\ AutoPromotes(q.doc.body)
  THEN Request("stamp", "autopromote", q.doc, NoCounters)
  ELSE Idle

Register(r) ==
  /\ req[r].phase = "register"
  /\ registry' = req[r].counts
  /\ Goes(r, AfterEdit(req[r]))
  /\ UNCHANGED <<snaps, clock, removed, recycled>>

(***************************************************************************)
(* _doBump: read a draft, tag it if it is still a draft, write counters.   *)
(***************************************************************************)
BeginBump(r) ==
  /\ req[r].phase = "idle"
  /\ "bump" \in Ops
  /\ \E m \in Sources("bump") :
       /\ ~IsTagged(snaps[m])
       /\ CanRelease(snaps[m].body)
       /\ Goes(r, Request("tag", "bump", snaps[m], NoCounters))
  /\ UNCHANGED <<snaps, registry, clock, removed, recycled>>

\* The update sets members and staged, computed from the copy, only if it had staged.
\* A slip to rule out: only the members are written.
TaggedBody_KeepsStaged(stored, copy) ==
  [stored EXCEPT !.members = ReleaseBody(copy).members]

TaggedBody(stored, copy) ==
  IF copy.staged = <<>> THEN stored
  ELSE [members |-> ReleaseBody(copy).members, staged |-> <<>>,
        candidates |-> stored.candidates, config |-> stored.config]

Tagged(stored, copy, v) ==
  Snapshot(stored.modified, v, Append(stored.history, HistoryEntry(v, copy.modified)),
           TaggedBody(stored.body, copy.body))

\* A slip to rule out: the update does not ask for version: null.
StillDraft_AnyVersion(m) == m \in DOMAIN snaps

StillDraft(m) == m \in DOMAIN snaps /\ ~IsTagged(snaps[m])

Tag(r) ==
  LET copy == req[r].doc  m == req[r].doc.modified IN
  /\ req[r].phase = "tag"
  /\ StillDraft(m)
  /\ \E v \in Admissible(copy.history) :
       /\ snaps' = [snaps EXCEPT ![m] = Tagged(snaps[m], copy, v)]
       /\ Goes(r, Request("record", "bump", Snapshot(m, v, copy.history, copy.body), NoCounters))
  /\ UNCHANGED <<registry, clock, removed, recycled>>

\* AlreadyReleasedError('(concurrent tag)'), also when the snapshot is gone.
TagRefused(r) ==
  /\ req[r].phase = "tag"
  /\ ~StillDraft(req[r].doc.modified)
  /\ Ends(r)
  /\ UNCHANGED <<snaps, registry, clock, removed, recycled>>

\* A slip to rule out: the release just made is not counted.
Record_MissesItself(r) ==
  /\ req[r].phase = "record"
  /\ registry' = Counters(registry.count, Len(req[r].doc.history), registry.latest, req[r].doc.version)
  /\ Ends(r)
  /\ UNCHANGED <<snaps, clock, removed, recycled>>

\* The counters come from the history the request read, not from a recount.
Record(r) ==
  LET s == req[r].doc IN
  /\ req[r].phase = "record"
  /\ registry' = Counters(registry.count, Len(s.history) + 1, registry.latest, s.version)
  /\ Ends(r)
  /\ UNCHANGED <<snaps, clock, removed, recycled>>

(***************************************************************************)
(* deleteSnapshot: find it, delete it, recount.                            *)
(***************************************************************************)
BeginDelete(r) ==
  /\ req[r].phase = "idle"
  /\ "delete" \in Ops
  /\ \E m \in DOMAIN snaps : Goes(r, Request("remove", "delete", snaps[m], NoCounters))
  /\ UNCHANGED <<snaps, registry, clock, removed, recycled>>

Erase(r) ==
  LET m == req[r].doc.modified IN
  /\ req[r].phase = "remove"
  /\ IF m \in DOMAIN snaps
     THEN /\ snaps' = [n \in DOMAIN snaps \ {m} |-> snaps[n]]
          /\ removed' = removed \cup {m}
     ELSE UNCHANGED <<snaps, removed>>    \* what findOneAndDelete returns is not looked at
  /\ Goes(r, Request("recount", "delete", req[r].doc, NoCounters))
  /\ UNCHANGED <<registry, clock, recycled>>

(***************************************************************************)
(* A database call fails, or the process stops, between two steps.         *)
(***************************************************************************)
Fail(r) ==
  /\ Failures
  /\ req[r].phase # "idle"
  /\ Ends(r)
  /\ UNCHANGED <<snaps, registry, clock, removed, recycled>>

Next ==
  \E r \in Requests :
    \/ BeginEdit(r) \/ Stamp(r) \/ Refuse(r) \/ Save(r) \/ SaveRefused(r)
    \/ Recount(r) \/ Register(r)
    \/ BeginBump(r) \/ Tag(r) \/ TagRefused(r) \/ Record(r)
    \/ BeginDelete(r) \/ Erase(r)
    \/ Fail(r)

Spec == Init /\ [][Next]_vars

-----------------------------------------------------------------------------
(***************************************************************************)
(* Properties.                                                             *)
(***************************************************************************)
Times    == 1..MaxTime
Version  == Releases \cup {Draft}
History  == Seq([version : Releases, snapshot : Times])
Counter  == [count : Nat, tagged : Nat, latest : Times \cup {0}, version : Version]
Phases   == {"idle", "stamp", "save", "recount", "register", "tag", "record", "remove"}

IsDocument(s) ==
  /\ s = Snapshot(s.modified, s.version, s.history, s.body)
  /\ s.modified \in Times \cup {0}
  /\ s.version \in Version
  /\ s.history \in History

IsRequest(q) ==
  /\ q = Request(q.phase, q.op, q.doc, q.counts)
  /\ q.phase \in Phases
  /\ IsDocument(q.doc)
  /\ q.phase # "idle" => q.doc.modified \in Times
  /\ q.counts \in Counter

TypeOK ==
  /\ DOMAIN snaps \subseteq Times
  /\ \A m \in DOMAIN snaps : IsDocument(snaps[m]) /\ snaps[m].modified = m
  /\ registry \in Counter
  /\ clock \in Times
  /\ DOMAIN req = Requests
  /\ \A r \in Requests : IsRequest(req[r])
  /\ removed \subseteq Times
  /\ recycled \in BOOLEAN

Known(h) ==
  \A i \in DOMAIN h :
    \/ h[i].snapshot \in removed
    \/ h[i].snapshot \in DOMAIN snaps /\ snaps[h[i].snapshot].version = h[i].version

Increasing(h) == \A i, j \in DOMAIN h : i < j => Below(h[i].version, h[j].version)

\* What the version_history of any snapshot says of another one is true of it: an entry
\* (version, snapshot_id) names a snapshot tagged with that version, or a deleted one.
\* Clones carry histories that were read before other requests tagged, deleted or saved.
HistoryTruthful == ~recycled => \A m \in DOMAIN snaps : Known(snaps[m].history)

\* The versions in the history of a snapshot increase, whatever bumps raced.
HistoryIncreasing == ~recycled => \A m \in DOMAIN snaps : Increasing(snaps[m].history)

\* A tagged snapshot is a finished release: its own tag is the last entry of its history
\* and nothing is left in staged; a draft has no entry of its own.
Sealed(s) ==
  IF IsTagged(s)
  THEN /\ s.history # <<>>
       /\ s.history[Len(s.history)] = HistoryEntry(s.version, s.modified)
       /\ s.body.staged = <<>>
  ELSE \A i \in DOMAIN s.history : s.history[i].snapshot # s.modified

ReleaseSealed == ~recycled => \A m \in DOMAIN snaps : Sealed(snaps[m])

\* What a request carries across its awaits stays usable: its history stays true and
\* increasing, a clone about to be saved is a draft, and a copy about to be tagged is
\* the stored document itself as long as that one is a draft.
Faithful(q) ==
  /\ Known(q.doc.history) /\ Increasing(q.doc.history)
  /\ q.phase = "save" => ~IsTagged(q.doc)
  /\ q.phase = "tag" =>
       /\ q.doc.modified \in DOMAIN snaps \cup removed
       /\ StillDraft(q.doc.modified) => snaps[q.doc.modified] = q.doc

CopiesFaithful == ~recycled => \A r \in Requests : Faithful(req[r])

\* Deletion is told apart from reuse: unless recycled, no deleted timestamp is stored.
NoReuse == ~recycled => DOMAIN snaps \cap removed = {}

\* The inductive invariant behind the four properties above.
IInv == TypeOK /\ NoReuse /\ HistoryTruthful /\ HistoryIncreasing /\ ReleaseSealed /\ CopiesFaithful

\* The collection is a log of snapshots: drafts are added at fresh timestamps, a draft
\* is released once, and nothing else ever changes in a stored snapshot.
Log == INSTANCE SnapshotLog WITH log <- snaps, withdrawn <- removed

LogSpec == Log!Spec

\* With no request in flight the registry agrees with the collection; the number of
\* releases too, as long as no snapshot was deleted.
RegistryCurrent ==
  (\A r \in Requests : req[r].phase = "idle") =>
    /\ registry.count = Cardinality(DOMAIN snaps)
    /\ registry.latest \in LatestOrNull(DOMAIN snaps)
    /\ \E m \in LatestOrNull(TaggedTimes) : registry.version = VersionAt(m)
    /\ removed = {} => registry.tagged = Cardinality(TaggedTimes)

=============================================================================
