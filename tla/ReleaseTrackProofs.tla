------------------------- MODULE ReleaseTrackProofs -------------------------
(***************************************************************************)
(* Proofs about release tracks: first ReleaseTrack, for any number of      *)
(* requests, any operations, any tiers and any bound on time, where what   *)
(* the handlers do to the tiers is never expanded, as nothing depends on   *)
(* it; then TierWorkflow, which is about nothing else.                     *)
(***************************************************************************)
EXTENDS ReleaseTrack, TierWorkflow, Maxima, SequenceTheorems, FunctionTheorems, FiniteSetTheorems, TLAPS

-----------------------------------------------------------------------------
(***************************************************************************)
(* Documents and requests.                                                 *)
(***************************************************************************)
LEMMA DraftIsNoRelease == Draft \notin Releases
  BY DEF Draft, Releases

LEMMA SnapshotFields ==
  ASSUME NEW m, NEW v, NEW h, NEW b
  PROVE  /\ Snapshot(m, v, h, b).modified = m
         /\ Snapshot(m, v, h, b).version = v
         /\ Snapshot(m, v, h, b).history = h
         /\ Snapshot(m, v, h, b).body = b
  BY DEF Snapshot

LEMMA SnapshotType ==
  ASSUME NEW m \in Times \cup {0}, NEW v \in Version, NEW h \in History, NEW b
  PROVE  IsDocument(Snapshot(m, v, h, b))
  BY SnapshotFields DEF IsDocument

LEMMA RequestFields ==
  ASSUME NEW p, NEW o, NEW d, NEW c
  PROVE  /\ Request(p, o, d, c).phase = p
         /\ Request(p, o, d, c).op = o
         /\ Request(p, o, d, c).doc = d
         /\ Request(p, o, d, c).counts = c
  BY DEF Request

LEMMA RequestType ==
  ASSUME NEW p \in Phases, NEW o, NEW d, IsDocument(d), d.modified \in Times, NEW c \in Counter
  PROVE  IsRequest(Request(p, o, d, c))
  BY RequestFields DEF IsRequest

LEMMA NoCountersType == NoCounters \in Counter
  BY DEF NoCounters, Counters, Counter, Version

LEMMA IdleType ==
  /\ IsRequest(Idle)
  /\ Idle.phase = "idle"
  /\ Idle.doc.history = <<>>
  <1>1. <<>> \in History
    BY DEF History
  <1>2. IsDocument(NoDoc) /\ NoDoc.history = <<>>
    <2>1. 0 \in Times \cup {0} /\ Draft \in Version
      BY DEF Version
    <2> QED
      BY <1>1, <2>1, SnapshotType, SnapshotFields DEF NoDoc
  <1> QED
    BY <1>2, NoCountersType, RequestFields DEF Idle, IsRequest, Phases

\* A step that moves one request leaves the others alone.
LEMMA OneRequestMoves ==
  ASSUME DOMAIN req = Requests, NEW r \in Requests, NEW q, Goes(r, q)
  PROVE  /\ DOMAIN req' = Requests
         /\ req'[r] = q
         /\ \A s \in Requests \ {r} : req'[s] = req[s]
  BY DEF Goes

LEMMA RequestsTyped ==
  ASSUME TypeOK, NEW r \in Requests, NEW q, IsRequest(q), Goes(r, q)
  PROVE  DOMAIN req' = Requests /\ \A s \in Requests : IsRequest(req'[s])
  BY OneRequestMoves DEF TypeOK

-----------------------------------------------------------------------------
(***************************************************************************)
(* Type correctness.                                                       *)
(***************************************************************************)
LEMMA TimesFinite ==
  ASSUME NEW S, S \subseteq Times
  PROVE  IsFiniteSet(S) /\ Cardinality(S) \in Nat
  <1>1. IsFiniteSet(Times)
    BY TimeAssumption, FS_Interval DEF Times
  <1> QED
    BY <1>1, FS_Subset, FS_CardinalityType

LEMMA RecountedType == ASSUME TypeOK PROVE Recounted \subseteq Counter
  <1>1. TaggedTimes \subseteq DOMAIN snaps
    BY DEF TaggedTimes
  <1>2. Cardinality(DOMAIN snaps) \in Nat /\ Cardinality(TaggedTimes) \in Nat
    BY <1>1, TimesFinite DEF TypeOK
  <1>3. ASSUME NEW S, S \subseteq DOMAIN snaps, NEW m \in LatestOrNull(S)
        PROVE  m \in Times \cup {0} /\ (m # 0 => m \in DOMAIN snaps)
    BY <1>3 DEF LatestOrNull, LatestOf, TypeOK
  <1>4. ASSUME NEW t \in LatestOrNull(TaggedTimes)
        PROVE  VersionAt(t) \in Version
    BY <1>1, <1>3 DEF VersionAt, TypeOK, IsDocument, Version
  <1>5. ASSUME NEW m \in LatestOrNull(DOMAIN snaps), NEW t \in LatestOrNull(TaggedTimes)
        PROVE  Counters(Cardinality(DOMAIN snaps), Cardinality(TaggedTimes), m, VersionAt(t)) \in Counter
    BY <1>2, <1>3, <1>4 DEF Counters, Counter
  <1> QED
    BY <1>5 DEF Recounted

LEMMA TypeInit == Init => TypeOK
  <1> SUFFICES ASSUME Init PROVE TypeOK
    OBVIOUS
  <1>1. 1 \in Times
    BY TimeAssumption DEF Times
  <1>2. <<>> \in History /\ Draft \in Version
    BY DEF History, Version
  <1>3. PICK b \in InitBodies : snaps = [m \in {1} |-> Snapshot(1, Draft, <<>>, b)]
    BY DEF Init
  <1>4. DOMAIN snaps \subseteq Times /\ \A m \in DOMAIN snaps : IsDocument(snaps[m]) /\ snaps[m].modified = m
    BY <1>1, <1>2, <1>3, SnapshotType, SnapshotFields
  <1>5. registry \in Counter
    BY <1>1, <1>2 DEF Init, Counters, Counter
  <1>6. DOMAIN req = Requests /\ \A r \in Requests : IsRequest(req[r])
    BY IdleType DEF Init
  <1> QED
    BY <1>1, <1>4, <1>5, <1>6 DEF Init, TypeOK

\* A step that only moves a request from one well-typed state to another.
LEMMA QuietType ==
  ASSUME TypeOK, NEW r \in Requests, NEW q, IsRequest(q), Goes(r, q),
         UNCHANGED <<snaps, registry, clock, removed, recycled>>
  PROVE  TypeOK'
  <1>1. DOMAIN req' = Requests /\ \A s \in Requests : IsRequest(req'[s])
    BY RequestsTyped
  <1> QED
    BY <1>1 DEF TypeOK

LEMMA EndType ==
  ASSUME TypeOK, NEW r \in Requests, Ends(r),
         UNCHANGED <<snaps, registry, clock, removed, recycled>>
  PROVE  TypeOK'
  BY IdleType, QuietType DEF Ends

LEMMA SourcesStored == ASSUME NEW op, NEW m \in Sources(op) PROVE m \in DOMAIN snaps
  BY DEF Sources, LatestOf

LEMMA TypeStep == TypeOK /\ [Next]_vars => TypeOK'
  <1> SUFFICES ASSUME TypeOK, [Next]_vars PROVE TypeOK'
    OBVIOUS
  <1>1. CASE UNCHANGED vars
    BY <1>1 DEF vars, TypeOK
  <1>2. ASSUME NEW r \in Requests, BeginEdit(r) PROVE TypeOK'
    <2>1. PICK op \in Ops \cap EditOps : \E m \in Sources(op) :
            Goes(r, Request("stamp", op, snaps[m], NoCounters))
      BY <1>2 DEF BeginEdit
    <2>2. PICK m \in Sources(op) : Goes(r, Request("stamp", op, snaps[m], NoCounters))
      BY <2>1
    <2>3. IsDocument(snaps[m]) /\ snaps[m].modified \in Times
      BY SourcesStored DEF TypeOK
    <2>4. IsRequest(Request("stamp", op, snaps[m], NoCounters))
      BY <2>3, RequestType, NoCountersType DEF Phases
    <2> QED
      BY <1>2, <2>2, <2>4, QuietType DEF BeginEdit
  <1>3. ASSUME NEW r \in Requests, Stamp(r) PROVE TypeOK'
    <2>1. IsDocument(req[r].doc)
      BY DEF TypeOK, IsRequest
    <2>2. PICK t \in {clock, clock + 1}, b \in Results(req[r].op, req[r].doc.body) :
            /\ t <= MaxTime
            /\ clock' = t
            /\ Goes(r, Request("save", req[r].op, Snapshot(t, Draft, req[r].doc.history, b), NoCounters))
      BY <1>3 DEF Stamp
    <2>3. t \in Times
      BY <2>2, TimeAssumption DEF TypeOK, Times
    <2>4. Draft \in Version /\ req[r].doc.history \in History
      BY <2>1 DEF IsDocument, Version
    <2>5. IsDocument(Snapshot(t, Draft, req[r].doc.history, b))
      BY <2>3, <2>4, SnapshotType
    <2>7. Snapshot(t, Draft, req[r].doc.history, b).modified \in Times
      BY <2>3, SnapshotFields
    <2> DEFINE q == Request("save", req[r].op, Snapshot(t, Draft, req[r].doc.history, b), NoCounters)
    <2>6. IsRequest(q)
      BY <2>5, <2>7, RequestType, NoCountersType DEF Phases
    <2>8. DOMAIN req' = Requests /\ \A s \in Requests : IsRequest(req'[s])
      BY <2>2, <2>6, RequestsTyped
    <2> QED
      BY <1>3, <2>2, <2>3, <2>8 DEF Stamp, TypeOK
  <1>4. ASSUME NEW r \in Requests, Refuse(r) \/ SaveRefused(r) \/ TagRefused(r) \/ Fail(r) PROVE TypeOK'
    BY <1>4, EndType DEF Refuse, SaveRefused, TagRefused, Fail
  <1>5. ASSUME NEW r \in Requests, Save(r) PROVE TypeOK'
    <2>1. IsDocument(req[r].doc) /\ req[r].doc.modified \in Times
      BY <1>5 DEF Save, TypeOK, IsRequest
    <2>2. DOMAIN snaps' \subseteq Times /\ \A m \in DOMAIN snaps' : IsDocument(snaps'[m]) /\ snaps'[m].modified = m
      BY <1>5, <2>1 DEF Save, Stored, TypeOK
    <2>3. recycled' \in BOOLEAN
      BY <1>5 DEF Save
    <2>4. IsRequest(Request("recount", req[r].op, req[r].doc, NoCounters))
      BY <2>1, RequestType, NoCountersType DEF Phases
    <2>5. DOMAIN req' = Requests /\ \A s \in Requests : IsRequest(req'[s])
      BY <1>5, <2>4, RequestsTyped DEF Save
    <2> QED
      BY <1>5, <2>2, <2>3, <2>5 DEF Save, TypeOK
  <1>6. ASSUME NEW r \in Requests, Recount(r) PROVE TypeOK'
    <2>1. PICK c \in Recounted : Goes(r, Request("register", req[r].op, req[r].doc, c))
      BY <1>6 DEF Recount
    <2>2. IsDocument(req[r].doc) /\ req[r].doc.modified \in Times
      BY <1>6 DEF Recount, TypeOK, IsRequest
    <2>3. IsRequest(Request("register", req[r].op, req[r].doc, c))
      BY <2>2, RecountedType, RequestType DEF Phases
    <2> QED
      BY <1>6, <2>1, <2>3, QuietType DEF Recount
  <1>7. ASSUME NEW r \in Requests, Register(r) PROVE TypeOK'
    <2>1. IsDocument(req[r].doc) /\ req[r].doc.modified \in Times /\ req[r].counts \in Counter
      BY <1>7 DEF Register, TypeOK, IsRequest
    <2>2. IsRequest(AfterEdit(req[r]))
      BY <2>1, IdleType, RequestType, NoCountersType DEF AfterEdit, Phases
    <2>3. DOMAIN req' = Requests /\ \A s \in Requests : IsRequest(req'[s])
      BY <1>7, <2>2, RequestsTyped DEF Register
    <2> QED
      BY <1>7, <2>1, <2>3 DEF Register, TypeOK
  <1>8. ASSUME NEW r \in Requests, BeginBump(r) PROVE TypeOK'
    <2>1. PICK m \in Sources("bump") : Goes(r, Request("tag", "bump", snaps[m], NoCounters))
      BY <1>8 DEF BeginBump
    <2>2. IsDocument(snaps[m]) /\ snaps[m].modified \in Times
      BY SourcesStored DEF TypeOK
    <2>3. IsRequest(Request("tag", "bump", snaps[m], NoCounters))
      BY <2>2, RequestType, NoCountersType DEF Phases
    <2> QED
      BY <1>8, <2>1, <2>3, QuietType DEF BeginBump
  <1>9. ASSUME NEW r \in Requests, Tag(r) PROVE TypeOK'
    <2> DEFINE copy == req[r].doc
               m    == req[r].doc.modified
    <2>1. IsDocument(copy) /\ m \in Times /\ m \in DOMAIN snaps
      BY <1>9 DEF Tag, StillDraft, TypeOK, IsRequest
    <2>2. PICK v \in Admissible(copy.history) :
            /\ snaps' = [snaps EXCEPT ![m] = Tagged(snaps[m], copy, v)]
            /\ Goes(r, Request("record", "bump", Snapshot(m, v, copy.history, copy.body), NoCounters))
      BY <1>9 DEF Tag
    <2>3. v \in Releases /\ v \in Version
      BY DEF Admissible, Version
    <2>4. IsDocument(snaps[m]) /\ snaps[m].modified = m
      BY <2>1 DEF TypeOK
    <2>5. Append(snaps[m].history, HistoryEntry(v, m)) \in History
      BY <2>1, <2>3, <2>4 DEF IsDocument, History, HistoryEntry
    <2>6. IsDocument(Tagged(snaps[m], copy, v)) /\ Tagged(snaps[m], copy, v).modified = m
      BY <2>1, <2>3, <2>4, <2>5, SnapshotType, SnapshotFields DEF Tagged
    <2>7. DOMAIN snaps' \subseteq Times /\ \A n \in DOMAIN snaps' : IsDocument(snaps'[n]) /\ snaps'[n].modified = n
      BY <2>1, <2>2, <2>6 DEF TypeOK
    <2>8. IsDocument(Snapshot(m, v, copy.history, copy.body))
      BY <2>1, <2>3, SnapshotType DEF IsDocument
    <2>9. Snapshot(m, v, copy.history, copy.body).modified \in Times
      BY <2>1, SnapshotFields
    <2>10. IsRequest(Request("record", "bump", Snapshot(m, v, copy.history, copy.body), NoCounters))
      BY <2>8, <2>9, RequestType, NoCountersType DEF Phases
    <2>11. DOMAIN req' = Requests /\ \A s \in Requests : IsRequest(req'[s])
      BY <2>2, <2>10, RequestsTyped
    <2> QED
      BY <1>9, <2>7, <2>11 DEF Tag, TypeOK
  <1>10. ASSUME NEW r \in Requests, Record(r) PROVE TypeOK'
    <2>1. Len(req[r].doc.history) \in Nat /\ req[r].doc.version \in Version
      BY DEF TypeOK, IsRequest, IsDocument, History
    <2>2. registry' \in Counter
      BY <1>10, <2>1 DEF Record, Counters, Counter, TypeOK
    <2>3. DOMAIN req' = Requests /\ \A s \in Requests : IsRequest(req'[s])
      BY <1>10, IdleType, RequestsTyped DEF Record, Ends
    <2> QED
      BY <1>10, <2>2, <2>3 DEF Record, TypeOK
  <1>11. ASSUME NEW r \in Requests, BeginDelete(r) PROVE TypeOK'
    <2>1. PICK m \in DOMAIN snaps : Goes(r, Request("remove", "delete", snaps[m], NoCounters))
      BY <1>11 DEF BeginDelete
    <2>2. IsDocument(snaps[m]) /\ snaps[m].modified \in Times
      BY DEF TypeOK
    <2>3. IsRequest(Request("remove", "delete", snaps[m], NoCounters))
      BY <2>2, RequestType, NoCountersType DEF Phases
    <2> QED
      BY <1>11, <2>1, <2>3, QuietType DEF BeginDelete
  <1>12. ASSUME NEW r \in Requests, Erase(r) PROVE TypeOK'
    <2>1. IsDocument(req[r].doc) /\ req[r].doc.modified \in Times
      BY <1>12 DEF Erase, TypeOK, IsRequest
    <2>2. DOMAIN snaps' \subseteq Times /\ \A m \in DOMAIN snaps' : IsDocument(snaps'[m]) /\ snaps'[m].modified = m
      BY <1>12 DEF Erase, TypeOK
    <2>3. removed' \subseteq Times
      BY <1>12, <2>1 DEF Erase, TypeOK
    <2>4. IsRequest(Request("recount", "delete", req[r].doc, NoCounters))
      BY <2>1, RequestType, NoCountersType DEF Phases
    <2>5. DOMAIN req' = Requests /\ \A s \in Requests : IsRequest(req'[s])
      BY <1>12, <2>4, RequestsTyped DEF Erase
    <2> QED
      BY <1>12, <2>2, <2>3, <2>5 DEF Erase, TypeOK
  <1> QED
    BY <1>1, <1>2, <1>3, <1>4, <1>5, <1>6, <1>7, <1>8, <1>9, <1>10, <1>11, <1>12 DEF Next

\* Whatever requests run and fail, the collection holds well-formed documents under
\* their own timestamps and the registry well-formed counters.
THEOREM TypeCorrect == Spec => []TypeOK
  <1> QED
    BY TypeInit, TypeStep, PTL DEF Spec

-----------------------------------------------------------------------------
(***************************************************************************)
(* The inductive invariant.                                                *)
(***************************************************************************)
LEMMA EmptyHistory == Known(<<>>) /\ Increasing(<<>>)
  BY DEF Known, Increasing

LEMMA IdleFaithful == Faithful(Idle)
  BY IdleType, EmptyHistory DEF Faithful

\* A step that moves one request and leaves the collection alone.
LEMMA QuietInv ==
  ASSUME IInv, TypeOK', NEW r \in Requests, NEW q, ~recycled => Faithful(q), Goes(r, q),
         UNCHANGED <<snaps, removed, recycled>>
  PROVE  IInv'
  <1>1. NoReuse' /\ HistoryTruthful' /\ HistoryIncreasing' /\ ReleaseSealed'
    BY DEF IInv, NoReuse, HistoryTruthful, HistoryIncreasing, ReleaseSealed, Known, Sealed
  <1>2. \A s \in Requests : req'[s] = IF s = r THEN q ELSE req[s]
    BY OneRequestMoves DEF IInv, TypeOK
  <1>3. ASSUME NEW s \in Requests, ~recycled PROVE Faithful(req[s])'
    <2>1. Faithful(req'[s])
      BY <1>2, <1>3 DEF IInv, CopiesFaithful
    <2> QED
      BY <2>1 DEF Faithful, Known, StillDraft
  <1> QED
    BY <1>1, <1>3 DEF IInv, CopiesFaithful

LEMMA EndInv ==
  ASSUME IInv, TypeOK', NEW r \in Requests, Ends(r), UNCHANGED <<snaps, removed, recycled>>
  PROVE  IInv'
  BY IdleFaithful, QuietInv DEF Ends

\* A clone is saved at a timestamp that no history has ever named.
LEMMA SaveInv ==
  ASSUME IInv, TypeOK', NEW r \in Requests, Save(r)
  PROVE  IInv'
  <1> DEFINE s == req[r].doc
             t == req[r].doc.modified
             q == Request("recount", req[r].op, s, NoCounters)
  <1>1. /\ t \notin DOMAIN snaps
        /\ snaps' = Stored(s)
        /\ removed' = removed
        /\ Goes(r, q)
    BY DEF Save
  <1> SUFFICES ASSUME ~recycled'
               PROVE  (NoReuse /\ HistoryTruthful /\ HistoryIncreasing /\ ReleaseSealed /\ CopiesFaithful)'
    BY DEF IInv, NoReuse, HistoryTruthful, HistoryIncreasing, ReleaseSealed, CopiesFaithful
  <1>2. ~recycled /\ t \notin removed
    BY DEF Save
  <1>3. Faithful(req[r]) /\ ~IsTagged(s)
    BY <1>2 DEF IInv, CopiesFaithful, Faithful, Save
  <1>4. /\ DOMAIN snaps' = DOMAIN snaps \cup {t}
        /\ snaps'[t] = s
        /\ \A m \in DOMAIN snaps : snaps'[m] = snaps[m]
    BY <1>1 DEF Stored
  <1>5. ASSUME NEW h, Known(h) PROVE Known(h)'
    BY <1>1, <1>4, <1>5 DEF Known
  <1>6. NoReuse'
    BY <1>1, <1>2, <1>4 DEF IInv, NoReuse
  <1>7. HistoryTruthful' /\ HistoryIncreasing'
    <2>1. Known(s.history) /\ Increasing(s.history)
      BY <1>3 DEF Faithful
    <2>2. ASSUME NEW m \in DOMAIN snaps' PROVE Known(snaps'[m].history) /\ Increasing(snaps'[m].history)
      BY <1>2, <1>4, <2>1 DEF IInv, HistoryTruthful, HistoryIncreasing
    <2>3. ASSUME NEW m \in DOMAIN snaps' PROVE Known(snaps[m].history)'
      BY <2>2, <1>5
    <2> QED
      BY <2>2, <2>3 DEF HistoryTruthful, HistoryIncreasing
  <1>8. ReleaseSealed'
    <2>1. \A i \in DOMAIN s.history : s.history[i].snapshot # t
      BY <1>1, <1>2, <1>3 DEF Faithful, Known
    <2>2. Sealed(s)
      BY <1>3, <2>1 DEF Sealed
    <2> QED
      BY <1>2, <1>4, <2>2 DEF IInv, ReleaseSealed
  <1>9. CopiesFaithful'
    <2>1. \A p \in Requests : req'[p] = IF p = r THEN q ELSE req[p]
      BY <1>1, OneRequestMoves DEF IInv, TypeOK
    <2>2. q.doc = s /\ q.phase = "recount"
      BY RequestFields
    <2>3. Faithful(req[r])'
      <3>1. req'[r].doc = s /\ req'[r].phase = "recount"
        BY <2>1, <2>2
      <3>2. PICK h : h = s.history /\ Known(h) /\ Increasing(h)
        BY <1>3 DEF Faithful
      <3>3. Known(h)'
        BY <1>5, <3>2
      <3>4. Known(req[r].doc.history)' /\ Increasing(req'[r].doc.history)
        BY <3>1, <3>2, <3>3
      <3> QED
        BY <3>1, <3>4 DEF Faithful
    <2>4. ASSUME NEW p \in Requests, p # r PROVE Faithful(req[p])'
      <3>1. req'[p] = req[p] /\ Faithful(req[p])
        BY <1>2, <2>1, <2>4 DEF IInv, CopiesFaithful
      <3>h. PICK h : h = req[p].doc.history /\ Known(h) /\ Increasing(h)
        BY <3>1 DEF Faithful
      <3>k. Known(h)'
        BY <1>5, <3>h
      <3>2. Known(req[p].doc.history)' /\ Increasing(req'[p].doc.history)
        BY <3>1, <3>h, <3>k
      <3>3. ASSUME req[p].phase = "tag"
            PROVE  /\ req[p].doc.modified \in DOMAIN snaps' \cup removed'
                   /\ StillDraft(req[p].doc.modified)' => snaps'[req[p].doc.modified] = req[p].doc
        BY <1>1, <1>2, <1>4, <3>1, <3>3 DEF Faithful, StillDraft
      <3> QED
        BY <3>1, <3>2, <3>3 DEF Faithful, StillDraft
    <2> QED
      BY <2>3, <2>4 DEF CopiesFaithful
  <1> QED
    BY <1>6, <1>7, <1>8, <1>9

\* A deleted snapshot stays known as deleted.
LEMMA EraseInv ==
  ASSUME IInv, TypeOK', NEW r \in Requests, Erase(r)
  PROVE  IInv'
  <1> DEFINE d == req[r].doc.modified
             q == Request("recount", "delete", req[r].doc, NoCounters)
  <1>1. /\ DOMAIN snaps' = DOMAIN snaps \ {d}
        /\ \A n \in DOMAIN snaps' : snaps'[n] = snaps[n]
        /\ removed' = removed \cup ({d} \cap DOMAIN snaps)
        /\ recycled' = recycled
        /\ Goes(r, q)
    BY DEF Erase
  <1> SUFFICES ASSUME ~recycled
               PROVE  (NoReuse /\ HistoryTruthful /\ HistoryIncreasing /\ ReleaseSealed /\ CopiesFaithful)'
    BY <1>1 DEF IInv, NoReuse, HistoryTruthful, HistoryIncreasing, ReleaseSealed, CopiesFaithful
  <1>2. ASSUME NEW h, Known(h) PROVE Known(h)'
    BY <1>1, <1>2 DEF Known
  <1>3. NoReuse'
    BY <1>1 DEF IInv, NoReuse
  <1>4. \A m \in DOMAIN snaps' : m \in DOMAIN snaps /\ snaps'[m] = snaps[m]
    BY <1>1
  <1>5. HistoryTruthful' /\ HistoryIncreasing' /\ ReleaseSealed'
    <2>1. ASSUME NEW m \in DOMAIN snaps'
          PROVE  Known(snaps[m].history)' /\ Increasing(snaps'[m].history) /\ Sealed(snaps'[m])
      <3>1. Known(snaps[m].history) /\ Increasing(snaps[m].history) /\ Sealed(snaps[m])
        BY <1>4 DEF IInv, HistoryTruthful, HistoryIncreasing, ReleaseSealed
      <3>2. Known(snaps'[m].history)
        BY <1>4, <3>1
      <3>3. Known(snaps[m].history)'
        BY <3>2, <1>2
      <3> QED
        BY <1>4, <3>1, <3>3
    <2> QED
      BY <2>1 DEF HistoryTruthful, HistoryIncreasing, ReleaseSealed
  <1>6. CopiesFaithful'
    <2>1. \A p \in Requests : req'[p] = IF p = r THEN q ELSE req[p]
      BY <1>1, OneRequestMoves DEF IInv, TypeOK
    <2>2. q.doc = req[r].doc /\ q.phase = "recount"
      BY RequestFields
    <2>3. ASSUME NEW p \in Requests PROVE Faithful(req[p])'
      <3>1. Faithful(req[p])
        BY DEF IInv, CopiesFaithful
      <3>2. req'[p].doc = req[p].doc /\ (req'[p].phase = "recount" \/ req'[p] = req[p])
        BY <2>1, <2>2
      <3>3. Known(req[p].doc.history)' /\ Increasing(req'[p].doc.history)
        BY <1>1, <3>1, <3>2 DEF Faithful, Known
      <3>4. ASSUME req'[p].phase = "tag"
            PROVE  /\ req'[p].doc.modified \in DOMAIN snaps' \cup removed'
                   /\ StillDraft(req[p].doc.modified)' => snaps'[req'[p].doc.modified] = req'[p].doc
        BY <1>1, <3>1, <3>2, <3>4 DEF Faithful, StillDraft
      <3>5. req'[p].phase = "save" => ~IsTagged(req'[p].doc)
        BY <3>1, <3>2 DEF Faithful
      <3> QED
        BY <3>3, <3>4, <3>5 DEF Faithful
    <2> QED
      BY <2>3 DEF CopiesFaithful
  <1> QED
    BY <1>3, <1>5, <1>6

LEMMA AppendFacts ==
  ASSUME NEW h \in History, NEW v, NEW m
  PROVE  LET g == Append(h, HistoryEntry(v, m)) IN
         /\ DOMAIN h = 1..Len(h) /\ Len(h) \in Nat
         /\ DOMAIN g = 1..(Len(h) + 1) /\ Len(g) = Len(h) + 1
         /\ \A i \in 1..Len(h) : g[i] = h[i]
         /\ g[Len(h) + 1] = HistoryEntry(v, m)
  BY DEF History, HistoryEntry

LEMMA AppendIncreasing ==
  ASSUME NEW h \in History, NEW v, NEW m, Increasing(h), Progresses(v, h)
  PROVE  Increasing(Append(h, HistoryEntry(v, m)))
  <1> DEFINE g == Append(h, HistoryEntry(v, m))
  <1>1. /\ DOMAIN h = 1..Len(h) /\ Len(h) \in Nat
        /\ DOMAIN g = 1..(Len(h) + 1)
        /\ \A i \in 1..Len(h) : g[i] = h[i]
        /\ g[Len(h) + 1] = HistoryEntry(v, m)
    BY AppendFacts
  <1>2. HistoryEntry(v, m).version = v
    BY DEF HistoryEntry
  <1>3. ASSUME NEW i \in DOMAIN g, NEW j \in DOMAIN g, i < j
        PROVE  Below(g[i].version, g[j].version)
    <2>1. i \in DOMAIN h
      BY <1>1, <1>3
    <2>2. CASE j \in DOMAIN h
      BY <1>1, <1>3, <2>1, <2>2 DEF Increasing
    <2>3. CASE j = Len(h) + 1
      BY <1>1, <1>2, <2>1, <2>3 DEF Progresses
    <2> QED
      BY <1>1, <2>2, <2>3
  <1> QED
    BY <1>3 DEF Increasing

LEMMA TaggedFields ==
  ASSUME NEW s, NEW v
  PROVE  /\ Tagged(s, s, v).modified = s.modified
         /\ Tagged(s, s, v).version = v
         /\ Tagged(s, s, v).history = Append(s.history, HistoryEntry(v, s.modified))
         /\ Tagged(s, s, v).body = TaggedBody(s.body, s.body)
  <1> DEFINE g  == Append(s.history, HistoryEntry(v, s.modified))
             tb == TaggedBody(s.body, s.body)
  <1>1. Tagged(s, s, v) = Snapshot(s.modified, v, g, tb)
    BY Zenon DEF Tagged
  <1> HIDE DEF g, tb
  <1>2. /\ Snapshot(s.modified, v, g, tb).modified = s.modified
        /\ Snapshot(s.modified, v, g, tb).version = v
        /\ Snapshot(s.modified, v, g, tb).history = g
        /\ Snapshot(s.modified, v, g, tb).body = tb
    BY SnapshotFields
  <1>3. /\ Tagged(s, s, v).modified = s.modified
        /\ Tagged(s, s, v).version = v
        /\ Tagged(s, s, v).history = g
        /\ Tagged(s, s, v).body = tb
    BY <1>1, <1>2, Zenon
  <1> QED
    BY <1>3, Zenon DEF g, tb

LEMMA EntryType ==
  ASSUME NEW h \in History, NEW i \in DOMAIN h
  PROVE  h[i].version \in Releases
  <1>1. i \in 1..Len(h)
    BY LenProperties DEF History
  <1>2. h[i] \in [version : Releases, snapshot : Times]
    BY <1>1, ElementOfSeq DEF History
  <1> QED
    BY <1>2

LEMMA TaggedBodyEmptiesStaged == ASSUME NEW b PROVE TaggedBody(b, b).staged = <<>>
  BY DEF TaggedBody

\* What Tag does, in the terms of the invariant: the copy is the stored draft itself.
LEMMA TagEffect ==
  ASSUME IInv, NEW r \in Requests, Tag(r), ~recycled
  PROVE  \E m \in DOMAIN snaps, v \in Releases : \E old, new, d :
           /\ old = snaps[m]
           /\ ~IsTagged(old)
           /\ Progresses(v, old.history)
           /\ new = Tagged(old, old, v)
           /\ snaps' = [snaps EXCEPT ![m] = new]
           /\ d.history = old.history
           /\ Goes(r, Request("record", "bump", d, NoCounters))
  <1>1. PICK m : m = req[r].doc.modified
    OBVIOUS
  <1>2. m \in DOMAIN snaps /\ ~IsTagged(snaps[m])
    BY <1>1 DEF Tag, StillDraft
  <1>3. snaps[m] = req[r].doc
    BY <1>1 DEF Tag, IInv, CopiesFaithful, Faithful
  <1>4. PICK v \in Admissible(req[r].doc.history) :
          /\ snaps' = [snaps EXCEPT ![m] = Tagged(snaps[m], req[r].doc, v)]
          /\ Goes(r, Request("record", "bump",
                             Snapshot(m, v, req[r].doc.history, req[r].doc.body), NoCounters))
    BY <1>1 DEF Tag
  <1>5. v \in Releases /\ Progresses(v, snaps[m].history)
    BY <1>3 DEF Admissible
  <1>6. PICK d : d = Snapshot(m, v, req[r].doc.history, req[r].doc.body)
    OBVIOUS
  <1>7. d.history = snaps[m].history /\ Goes(r, Request("record", "bump", d, NoCounters))
    BY <1>3, <1>4, <1>6, SnapshotFields
  <1>8. snaps' = [snaps EXCEPT ![m] = Tagged(snaps[m], snaps[m], v)]
    BY <1>3, <1>4
  <1> QED
    BY <1>2, <1>5, <1>7, <1>8

\* The tagged document: history and tag fit together, staged is empty.
LEMMA TaggedWell ==
  ASSUME NEW old, IsDocument(old), NEW v \in Releases, NEW new, new = Tagged(old, old, v),
         Increasing(old.history), Progresses(v, old.history)
  PROVE  /\ new.modified = old.modified /\ new.version = v
         /\ new.history = Append(old.history, HistoryEntry(v, old.modified))
         /\ IsTagged(new) /\ Sealed(new) /\ Increasing(new.history)
         /\ \A i \in DOMAIN new.history :
              \/ i \in DOMAIN old.history /\ new.history[i] = old.history[i]
              \/ new.history[i] = HistoryEntry(v, old.modified)
  <1>1. PICK h \in History : h = old.history
    BY DEF IsDocument
  <1>2. PICK m : m = old.modified
    OBVIOUS
  <1>3. /\ new.modified = m /\ new.version = v
        /\ new.history = Append(h, HistoryEntry(v, m))
        /\ new.body = TaggedBody(old.body, old.body)
    BY <1>1, <1>2, TaggedFields, Zenon
  <1>4. /\ DOMAIN h = 1..Len(h) /\ Len(h) \in Nat
        /\ DOMAIN new.history = 1..(Len(h) + 1) /\ Len(new.history) = Len(h) + 1
        /\ \A i \in 1..Len(h) : new.history[i] = h[i]
        /\ new.history[Len(h) + 1] = HistoryEntry(v, m)
    BY <1>3, AppendFacts
  <1>5. IsTagged(new)
    BY <1>3, DraftIsNoRelease DEF IsTagged
  <1>6. new.history # <<>>
    BY <1>4
  <1>7. Sealed(new)
    BY <1>3, <1>4, <1>5, <1>6, TaggedBodyEmptiesStaged DEF Sealed
  <1>8. Increasing(new.history)
    BY <1>1, <1>3, AppendIncreasing
  <1>9. ASSUME NEW i \in DOMAIN new.history
        PROVE  \/ i \in DOMAIN h /\ new.history[i] = h[i]
               \/ new.history[i] = HistoryEntry(v, m)
    BY <1>4
  <1> QED
    BY <1>1, <1>2, <1>3, <1>5, <1>7, <1>8, <1>9, Zenon

LEMMA TagInv ==
  ASSUME IInv, TypeOK', NEW r \in Requests, Tag(r)
  PROVE  IInv'
  <1>1. removed' = removed /\ recycled' = recycled
    BY DEF Tag
  <1> SUFFICES ASSUME ~recycled
               PROVE  (NoReuse /\ HistoryTruthful /\ HistoryIncreasing /\ ReleaseSealed /\ CopiesFaithful)'
    BY <1>1 DEF IInv, NoReuse, HistoryTruthful, HistoryIncreasing, ReleaseSealed, CopiesFaithful
  <1>0. PICK m \in DOMAIN snaps, v \in Releases : \E old, new, d :
           /\ old = snaps[m]
           /\ ~IsTagged(old)
           /\ Progresses(v, old.history)
           /\ new = Tagged(old, old, v)
           /\ snaps' = [snaps EXCEPT ![m] = new]
           /\ d.history = old.history
           /\ Goes(r, Request("record", "bump", d, NoCounters))
    BY TagEffect
  <1>2. PICK old, new, d :
           /\ old = snaps[m]
           /\ ~IsTagged(old)
           /\ Progresses(v, old.history)
           /\ new = Tagged(old, old, v)
           /\ snaps' = [snaps EXCEPT ![m] = new]
           /\ d.history = old.history
           /\ Goes(r, Request("record", "bump", d, NoCounters))
    BY <1>0
  <1>3. ASSUME NEW n \in DOMAIN snaps
        PROVE  /\ Known(snaps[n].history) /\ Increasing(snaps[n].history) /\ Sealed(snaps[n])
               /\ snaps[n].history \in History /\ IsDocument(snaps[n])
    BY DEF IInv, HistoryTruthful, HistoryIncreasing, ReleaseSealed, TypeOK, IsDocument
  <1>4. IsDocument(old) /\ old.modified = m /\ Known(old.history) /\ Increasing(old.history)
    BY <1>2, <1>3 DEF IInv, TypeOK
  <1>5. /\ new.version = v /\ IsTagged(new) /\ Sealed(new) /\ Increasing(new.history)
        /\ \A i \in DOMAIN new.history :
             \/ i \in DOMAIN old.history /\ new.history[i] = old.history[i]
             \/ new.history[i] = HistoryEntry(v, m)
    BY <1>2, <1>4, TaggedWell
  <1>6. /\ DOMAIN snaps' = DOMAIN snaps
        /\ snaps'[m] = new
        /\ \A n \in DOMAIN snaps : n # m => snaps'[n] = snaps[n]
    BY <1>2
  <1>7. snaps[m].version = Draft
    BY <1>2 DEF IsTagged
  <1>8. ASSUME NEW h \in History, Known(h) PROVE Known(h)'
    <2>1. ASSUME NEW i \in DOMAIN h PROVE h[i].version # Draft
      BY EntryType, DraftIsNoRelease
    <2> QED
      BY <1>1, <1>6, <1>7, <1>8, <2>1 DEF Known
  <1>9. NoReuse'
    BY <1>1, <1>6 DEF IInv, NoReuse
  <1>10. Known(new.history)'
    <2>1. old.history \in History
      BY <1>4 DEF IsDocument
    <2>2. Known(old.history)'
      BY <1>4, <1>8, <2>1
    <2>3. HistoryEntry(v, m).version = v /\ HistoryEntry(v, m).snapshot = m
      BY DEF HistoryEntry
    <2> QED
      BY <1>5, <1>6, <2>2, <2>3 DEF Known
  <1>11. HistoryTruthful' /\ HistoryIncreasing' /\ ReleaseSealed'
    <2>1. ASSUME NEW n \in DOMAIN snaps'
          PROVE  Known(snaps[n].history)' /\ Increasing(snaps'[n].history) /\ Sealed(snaps'[n])
      <3>1. CASE n = m
        BY <1>5, <1>6, <1>10, <3>1
      <3>2. CASE n # m
        <4>1. PICK h \in History : h = snaps[n].history
          BY <1>3, <1>6
        <4>2. snaps'[n] = snaps[n] /\ Known(h)'
          BY <1>3, <1>6, <1>8, <3>2, <4>1
        <4> QED
          BY <1>3, <1>6, <4>1, <4>2
      <3> QED
        BY <3>1, <3>2
    <2> QED
      BY <2>1 DEF HistoryTruthful, HistoryIncreasing, ReleaseSealed
  <1>12. CopiesFaithful'
    <2> DEFINE q == Request("record", "bump", d, NoCounters)
    <2>1. \A p \in Requests : req'[p] = IF p = r THEN q ELSE req[p]
      BY <1>2, OneRequestMoves DEF IInv, TypeOK
    <2>2. q.doc.history = old.history /\ q.phase = "record"
      BY <1>2, RequestFields
    <2>3. Faithful(req[r])'
      <3>1. PICK h \in History : h = old.history
        BY <1>4 DEF IsDocument
      <3>2. Known(h)' /\ req'[r].doc.history = h /\ req'[r].phase = "record"
        BY <1>4, <1>8, <2>1, <2>2, <3>1
      <3> QED
        BY <1>4, <3>1, <3>2 DEF Faithful
    <2>4. ASSUME NEW p \in Requests, p # r PROVE Faithful(req[p])'
      <3>1. req'[p] = req[p] /\ Faithful(req[p])
        BY <2>1, <2>4 DEF IInv, CopiesFaithful
      <3>2. PICK h \in History : h = req[p].doc.history
        BY DEF IInv, TypeOK, IsRequest, IsDocument
      <3>3. Known(h)' /\ Increasing(h)
        BY <1>8, <3>1, <3>2 DEF Faithful
      <3>4. ASSUME req[p].phase = "tag"
            PROVE  /\ req[p].doc.modified \in DOMAIN snaps' \cup removed'
                   /\ StillDraft(req[p].doc.modified)' => snaps'[req[p].doc.modified] = req[p].doc
        BY <1>1, <1>5, <1>6, <3>1, <3>4 DEF Faithful, StillDraft
      <3> QED
        BY <3>1, <3>2, <3>3, <3>4 DEF Faithful
    <2> QED
      BY <2>3, <2>4 DEF CopiesFaithful
  <1> QED
    BY <1>9, <1>11, <1>12

LEMMA InvInit == Init => IInv
  <1> SUFFICES ASSUME Init PROVE IInv
    OBVIOUS
  <1>1. TypeOK /\ removed = {}
    BY TypeInit DEF Init
  <1>2. PICK b \in InitBodies : snaps = [m \in {1} |-> Snapshot(1, Draft, <<>>, b)]
    BY DEF Init
  <1>3. \A m \in DOMAIN snaps : snaps[m].history = <<>> /\ ~IsTagged(snaps[m])
    BY <1>2, SnapshotFields DEF IsTagged
  <1>4. \A m \in DOMAIN snaps : Known(snaps[m].history) /\ Increasing(snaps[m].history) /\ Sealed(snaps[m])
    BY <1>3, EmptyHistory DEF Sealed
  <1>5. \A r \in Requests : Faithful(req[r])
    BY IdleFaithful DEF Init
  <1> QED
    BY <1>1, <1>4, <1>5
    DEF IInv, NoReuse, HistoryTruthful, HistoryIncreasing, ReleaseSealed, CopiesFaithful

\* A request whose copy is a stored snapshot, or the copy of a request before.
LEMMA CopyFaithful ==
  ASSUME NEW p, NEW o, NEW d, NEW c, Known(d.history), Increasing(d.history),
         p = "save" => ~IsTagged(d),
         p = "tag" => d.modified \in DOMAIN snaps /\ snaps[d.modified] = d
  PROVE  Faithful(Request(p, o, d, c))
  BY RequestFields DEF Faithful

LEMMA InvStep == IInv /\ [Next]_vars => IInv'
  <1> SUFFICES ASSUME IInv, [Next]_vars PROVE IInv'
    OBVIOUS
  <1>t. TypeOK'
    BY TypeStep DEF IInv
  <1>s. ASSUME NEW m \in DOMAIN snaps, ~recycled
        PROVE  /\ Known(snaps[m].history) /\ Increasing(snaps[m].history)
               /\ snaps[m].modified = m
    BY <1>s DEF IInv, HistoryTruthful, HistoryIncreasing, TypeOK
  <1>c. ASSUME NEW r \in Requests, ~recycled
        PROVE  Known(req[r].doc.history) /\ Increasing(req[r].doc.history)
    BY <1>c DEF IInv, CopiesFaithful, Faithful
  <1>1. CASE UNCHANGED vars
    <2>1. (NoReuse /\ HistoryTruthful /\ HistoryIncreasing /\ ReleaseSealed)'
      BY <1>1 DEF vars, IInv, NoReuse, HistoryTruthful, HistoryIncreasing, ReleaseSealed, Known, Sealed
    <2>2. CopiesFaithful'
      BY <1>1 DEF vars, IInv, CopiesFaithful, Faithful, Known, StillDraft
    <2> QED
      BY <1>t, <2>1, <2>2 DEF IInv
  <1>2. ASSUME NEW r \in Requests, BeginEdit(r) PROVE IInv'
    <2>1. PICK op \in Ops \cap EditOps : \E m \in Sources(op) :
            Goes(r, Request("stamp", op, snaps[m], NoCounters))
      BY <1>2 DEF BeginEdit
    <2>2. PICK m \in Sources(op) : Goes(r, Request("stamp", op, snaps[m], NoCounters))
      BY <2>1
    <2>3. ~recycled => Faithful(Request("stamp", op, snaps[m], NoCounters))
      BY <1>s, SourcesStored, CopyFaithful
    <2> QED
      BY <1>2, <1>t, <2>2, <2>3, QuietInv DEF BeginEdit
  <1>3. ASSUME NEW r \in Requests, Stamp(r) PROVE IInv'
    <2>1. PICK t, b :
            Goes(r, Request("save", req[r].op, Snapshot(t, Draft, req[r].doc.history, b), NoCounters))
      BY <1>3 DEF Stamp
    <2> DEFINE s == Snapshot(t, Draft, req[r].doc.history, b)
    <2>2. s.history = req[r].doc.history /\ ~IsTagged(s)
      BY SnapshotFields DEF IsTagged
    <2>3. ~recycled => Faithful(Request("save", req[r].op, s, NoCounters))
      BY <1>c, <2>2, CopyFaithful
    <2> QED
      BY <1>3, <1>t, <2>1, <2>3, QuietInv DEF Stamp
  <1>4. ASSUME NEW r \in Requests,
               Refuse(r) \/ SaveRefused(r) \/ TagRefused(r) \/ Record(r) \/ Fail(r)
        PROVE  IInv'
    BY <1>4, <1>t, EndInv DEF Refuse, SaveRefused, TagRefused, Record, Fail
  <1>5. ASSUME NEW r \in Requests, Recount(r) PROVE IInv'
    <2>1. PICK c : Goes(r, Request("register", req[r].op, req[r].doc, c))
      BY <1>5 DEF Recount
    <2>2. ~recycled => Faithful(Request("register", req[r].op, req[r].doc, c))
      BY <1>c, CopyFaithful
    <2> QED
      BY <1>5, <1>t, <2>1, <2>2, QuietInv DEF Recount
  <1>6. ASSUME NEW r \in Requests, Register(r) PROVE IInv'
    <2>1. ~recycled => Faithful(AfterEdit(req[r]))
      BY <1>c, IdleFaithful, CopyFaithful DEF AfterEdit
    <2> QED
      BY <1>6, <1>t, <2>1, QuietInv DEF Register
  <1>7. ASSUME NEW r \in Requests, BeginBump(r) PROVE IInv'
    <2>1. PICK m \in Sources("bump") : Goes(r, Request("tag", "bump", snaps[m], NoCounters))
      BY <1>7 DEF BeginBump
    <2>2. ~recycled => Faithful(Request("tag", "bump", snaps[m], NoCounters))
      BY <1>s, SourcesStored, CopyFaithful
    <2> QED
      BY <1>7, <1>t, <2>1, <2>2, QuietInv DEF BeginBump
  <1>8. ASSUME NEW r \in Requests, BeginDelete(r) PROVE IInv'
    <2>1. PICK m \in DOMAIN snaps : Goes(r, Request("remove", "delete", snaps[m], NoCounters))
      BY <1>8 DEF BeginDelete
    <2>2. ~recycled => Faithful(Request("remove", "delete", snaps[m], NoCounters))
      BY <1>s, CopyFaithful
    <2> QED
      BY <1>8, <1>t, <2>1, <2>2, QuietInv DEF BeginDelete
  <1> QED
    BY <1>t, <1>1, <1>2, <1>3, <1>4, <1>5, <1>6, <1>7, <1>8, SaveInv, EraseInv, TagInv DEF Next

LEMMA Invariance == Spec => []IInv
  <1> QED
    BY InvInit, InvStep, PTL DEF Spec

\* Any number of racing bumps, edits and deletions leaves true histories.
THEOREM HistoriesTrue == Spec => []HistoryTruthful
  <1>1. IInv => HistoryTruthful
    BY DEF IInv
  <1> QED
    BY <1>1, Invariance, PTL

\* Within the history of one snapshot there is no version regression.
THEOREM HistoriesIncrease == Spec => []HistoryIncreasing
  <1>1. IInv => HistoryIncreasing
    BY DEF IInv
  <1> QED
    BY <1>1, Invariance, PTL

\* A snapshot with a version is a finished release, one without has no trace of a tag.
THEOREM ReleasesSealed == Spec => []ReleaseSealed
  <1>1. IInv => ReleaseSealed
    BY DEF IInv
  <1> QED
    BY <1>1, Invariance, PTL

\* No request acts on a copy that contradicts the collection.
THEOREM CopiesStayFaithful == Spec => []CopiesFaithful
  <1>1. IInv => CopiesFaithful
    BY DEF IInv
  <1> QED
    BY <1>1, Invariance, PTL

-----------------------------------------------------------------------------
(***************************************************************************)
(* Refinement: the collection is a SnapshotLog.  Save is a Publish, Tag a  *)
(* Release, Erase a Withdraw when it finds something to delete; everything *)
(* else leaves the log alone.                                              *)
(***************************************************************************)
LEMMA LogInit == Init => Log!Init
  <1> SUFFICES ASSUME Init PROVE Log!Init
    OBVIOUS
  <1>1. PICK b \in InitBodies : snaps = [m \in {1} |-> Snapshot(1, Draft, <<>>, b)]
    BY DEF Init
  <1>2. DOMAIN snaps = {1} /\ snaps[1].version = <<>> /\ snaps[1].history = <<>>
    BY <1>1, SnapshotFields DEF Draft
  <1> QED
    BY <1>2 DEF Init, Log!Init, Log!NoVersion

LEMMA LogStep == IInv /\ IInv' /\ [Next]_vars => [Log!Next]_(Log!logVars)
  <1> SUFFICES ASSUME IInv, IInv', [Next]_vars
               PROVE  Log!Next \/ UNCHANGED <<snaps, removed, recycled>>
    BY DEF Log!logVars
  <1>1. CASE UNCHANGED vars
    BY <1>1 DEF vars
  <1>2. ASSUME NEW r \in Requests,
               \/ BeginEdit(r) \/ Stamp(r) \/ Refuse(r) \/ SaveRefused(r) \/ Recount(r) \/ Register(r)
               \/ BeginBump(r) \/ TagRefused(r) \/ Record(r) \/ BeginDelete(r) \/ Fail(r)
        PROVE  UNCHANGED <<snaps, removed, recycled>>
    BY <1>2 DEF BeginEdit, Stamp, Refuse, SaveRefused, Recount, Register, BeginBump, TagRefused,
                Record, BeginDelete, Fail
  <1>3. CASE recycled'
    BY <1>3 DEF Log!Next, Log!Void
  <1>4. ASSUME NEW r \in Requests, Save(r), ~recycled' PROVE Log!Publish
    <2>1. PICK s : s = req[r].doc
      OBVIOUS
    <2>2. PICK t : t = s.modified
      OBVIOUS
    <2>3. t \notin DOMAIN snaps /\ t \notin removed /\ ~recycled /\ recycled' = recycled /\ removed' = removed
      BY <1>4, <2>1, <2>2 DEF Save, IInv, TypeOK
    <2>4. Known(s.history) /\ s.version = Draft
      BY <1>4, <2>1, <2>3 DEF IInv, CopiesFaithful, Faithful, Save, IsTagged
    <2>5. /\ DOMAIN snaps' = DOMAIN snaps \cup {t} /\ snaps'[t] = s
          /\ \A m \in DOMAIN snaps : snaps'[m] = snaps[m]
      BY <1>4, <2>1, <2>2, <2>3 DEF Save, Stored
    <2> QED
      BY <2>3, <2>4, <2>5
      DEF Log!Publish, Log!Truthful, Log!Kept, Log!NoVersion, Known, Draft
  <1>5. ASSUME NEW r \in Requests, Tag(r), ~recycled' PROVE Log!Release
    <2>1. ~recycled /\ recycled' = recycled /\ removed' = removed
      BY <1>5 DEF Tag
    <2>0. PICK m \in DOMAIN snaps, v \in Releases : \E old, new, d :
             /\ old = snaps[m]
             /\ ~IsTagged(old)
             /\ Progresses(v, old.history)
             /\ new = Tagged(old, old, v)
             /\ snaps' = [snaps EXCEPT ![m] = new]
             /\ d.history = old.history
             /\ Goes(r, Request("record", "bump", d, NoCounters))
      BY <1>5, <2>1, TagEffect
    <2>2. PICK old, new, d :
             /\ old = snaps[m]
             /\ ~IsTagged(old)
             /\ Progresses(v, old.history)
             /\ new = Tagged(old, old, v)
             /\ snaps' = [snaps EXCEPT ![m] = new]
             /\ d.history = old.history
             /\ Goes(r, Request("record", "bump", d, NoCounters))
      BY <2>0
    <2>3. IsDocument(old) /\ old.modified = m /\ Increasing(old.history)
      BY <2>1, <2>2 DEF IInv, TypeOK, HistoryIncreasing
    <2>4. /\ new.version = v /\ IsTagged(new) /\ Sealed(new)
          /\ new.history = Append(old.history, HistoryEntry(v, m))
      BY <2>2, <2>3, TaggedWell
    <2>5. /\ DOMAIN snaps' = DOMAIN snaps /\ snaps'[m] = new
          /\ \A n \in DOMAIN snaps \ {m} : snaps'[n] = snaps[n]
      BY <2>2
    <2>6. new.body.staged = <<>>
      BY <2>4 DEF Sealed
    <2>7. \A i \in DOMAIN old.history : Log!Earlier(old.history[i].version, v)
      BY <2>2 DEF Progresses, Below, Log!Earlier
    <2>8. old.version = <<>> /\ new.version # <<>>
      BY <2>2, <2>4 DEF IsTagged, Draft
    <2>9. new.history = Append(old.history, [version |-> new.version, snapshot |-> m])
      BY <2>4 DEF HistoryEntry
    <2> HIDE DEF Log!Earlier
    <2> QED
      BY <2>1, <2>2, <2>4, <2>5, <2>6, <2>7, <2>8, <2>9
      DEF Log!Release, Log!Kept, Log!NoVersion
  <1>6. ASSUME NEW r \in Requests, Erase(r)
        PROVE  Log!Withdraw \/ UNCHANGED <<snaps, removed, recycled>>
    <2>1. PICK m : m = req[r].doc.modified
      OBVIOUS
    <2>2. CASE m \in DOMAIN snaps
      BY <1>6, <2>1, <2>2 DEF Erase, Log!Withdraw, Log!Kept
    <2>3. CASE m \notin DOMAIN snaps
      BY <1>6, <2>1, <2>3 DEF Erase
    <2> QED
      BY <2>2, <2>3
  <1> QED
    BY <1>1, <1>2, <1>3, <1>4, <1>5, <1>6 DEF Next, Log!Next

\* The track implements the snapshot log: whatever runs concurrently, drafts are added at
\* fresh timestamps, released at most once and never otherwise changed.
THEOREM ImplementsLog == Spec => LogSpec
  <1> QED
    BY LogInit, LogStep, Invariance, PTL DEF Spec, LogSpec, Log!Spec

-----------------------------------------------------------------------------
(***************************************************************************)
(* One request at a time, each on the latest snapshot, none of which       *)
(* fails.  The counters a bump writes come from the history of the copy it *)
(* has read, so that history must list every release there is, unless some *)
(* were deleted; a clone must be the newest snapshot once it is saved.     *)
(***************************************************************************)
Agrees ==
  /\ registry.count = Cardinality(DOMAIN snaps)
  /\ registry.latest \in LatestOrNull(DOMAIN snaps)
  /\ \E m \in LatestOrNull(TaggedTimes) : registry.version = VersionAt(m)
  /\ removed = {} => registry.tagged = Cardinality(TaggedTimes)

Counted(h) == removed = {} => Len(h) = Cardinality(TaggedTimes)

\* The release just made, which is not in the registry yet.
Recording(d) ==
  /\ registry.count = Cardinality(DOMAIN snaps)
  /\ registry.latest \in LatestOrNull(DOMAIN snaps)
  /\ d.modified \in LatestOf(TaggedTimes)
  /\ d.version = snaps[d.modified].version
  /\ removed = {} => Len(d.history) + 1 = Cardinality(TaggedTimes)

Turn(q) ==
  /\ q.phase \in {"idle", "stamp", "save", "tag", "remove"} => Agrees
  /\ q.phase \in {"stamp", "save", "recount", "register", "tag"} => Counted(q.doc.history)
  /\ q.phase = "save" => ~IsTagged(q.doc) /\ q.doc.modified = clock
  /\ q.phase = "register" => q.counts \in Recounted
  /\ q.phase = "tag" => q.doc.modified \in LatestOf(DOMAIN snaps)
  /\ q.phase = "remove" => q.doc.modified \in DOMAIN snaps
  /\ q.phase = "record" => Recording(q.doc)

LatestCounted == \A m \in LatestOf(DOMAIN snaps) : Counted(snaps[m].history)

ClockAhead == \A m \in DOMAIN snaps : m <= clock

TurnInv(r) == TypeOK /\ ClockAhead /\ LatestCounted /\ Turn(req[r])

\* What is read of a collection and a registry that stay.
LEMMA SameTurn ==
  ASSUME UNCHANGED <<snaps, registry, clock, removed>>, NEW q, Turn(q)
  PROVE  Turn(q)'
  <1>1. TaggedTimes' = TaggedTimes
    BY DEF TaggedTimes
  <1>2. Agrees' = Agrees
    BY <1>1 DEF Agrees, VersionAt
  <1>3. Recounted' = Recounted
    BY <1>1 DEF Recounted, VersionAt
  <1>4. \A h : Counted(h)' = Counted(h)
    BY <1>1 DEF Counted
  <1>5. \A d : Recording(d)' = Recording(d)
    BY <1>1 DEF Recording
  <1> QED
    BY <1>2, <1>3, <1>4, <1>5 DEF Turn

LEMMA TurnMoves ==
  ASSUME NEW r, NEW q, req'[r] = q, Turn(q)'
  PROVE  Turn(req[r])'
  BY DEF Turn, Agrees, Counted, Recording, Recounted

LEMMA QuietTurn ==
  ASSUME NEW r, Requests = {r}, TurnInv(r), TypeOK', UNCHANGED <<snaps, registry, clock, removed>>,
         NEW q, Goes(r, q), Turn(q)
  PROVE  TurnInv(r)'
  <1>1. req'[r] = q
    BY OneRequestMoves DEF TurnInv, TypeOK
  <1>2. Turn(req[r])'
    BY <1>1, SameTurn, TurnMoves
  <1>3. ClockAhead' /\ LatestCounted'
    BY DEF TurnInv, ClockAhead, LatestCounted, Counted, TaggedTimes
  <1> QED
    BY <1>2, <1>3 DEF TurnInv

LEMMA IdleTurn == ASSUME Agrees PROVE Turn(Idle)
  BY IdleType DEF Turn

LEMMA EndTurn ==
  ASSUME NEW r, Requests = {r}, TurnInv(r), TypeOK', UNCHANGED <<snaps, registry, clock, removed>>,
         Ends(r), Agrees
  PROVE  TurnInv(r)'
  BY IdleTurn, QuietTurn DEF Ends

LEMMA LatestCopied ==
  ASSUME NEW r, TurnInv(r), NEW m \in LatestOf(DOMAIN snaps)
  PROVE  /\ snaps[m].modified = m
         /\ Counted(snaps[m].history)
  BY DEF TurnInv, LatestCounted, TypeOK, LatestOf

\* A request that begins finds the registry in order.
LEMMA BeginTurn ==
  ASSUME NEW r, Requests = {r}, TurnInv(r), TypeOK', req[r].phase = "idle",
         UNCHANGED <<snaps, registry, clock, removed>>,
         NEW ph, NEW op, NEW m \in DOMAIN snaps,
         Goes(r, Request(ph, op, snaps[m], NoCounters)),
         \/ ph \in {"stamp", "tag"} /\ m \in LatestOf(DOMAIN snaps)
         \/ ph = "remove"
  PROVE  TurnInv(r)'
  <1>1. Agrees
    BY DEF TurnInv, Turn
  <1>2. PICK d : d = snaps[m]
    OBVIOUS
  <1>3. d.modified = m /\ (m \in LatestOf(DOMAIN snaps) => Counted(d.history))
    BY <1>2, LatestCopied DEF TurnInv, TypeOK
  <1>4. PICK q : q = Request(ph, op, d, NoCounters)
    OBVIOUS
  <1>5. q.phase = ph /\ q.doc = d /\ Goes(r, q)
    BY <1>2, <1>4, RequestFields
  <1>6. Turn(q)
    BY <1>1, <1>3, <1>5 DEF Turn
  <1> QED
    BY <1>5, <1>6, QuietTurn

LEMMA StampTurn ==
  ASSUME NEW r, Requests = {r}, TurnInv(r), TypeOK', Stamp(r)
  PROVE  TurnInv(r)'
  <1>1. req[r].phase = "stamp" /\ UNCHANGED <<snaps, registry, removed>>
    BY DEF Stamp
  <1>2. PICK t, b : /\ t \in {clock, clock + 1} /\ clock' = t
                    /\ Goes(r, Request("save", req[r].op, Snapshot(t, Draft, req[r].doc.history, b), NoCounters))
    BY DEF Stamp
  <1>3. PICK h : h = req[r].doc.history
    OBVIOUS
  <1>4. PICK d : d = Snapshot(t, Draft, h, b)
    OBVIOUS
  <1>5. d.modified = t /\ d.version = Draft /\ d.history = h
    BY <1>4, SnapshotFields
  <1>6. PICK q : q = Request("save", req[r].op, d, NoCounters)
    OBVIOUS
  <1>7. q.phase = "save" /\ q.doc = d /\ Goes(r, q)
    BY <1>2, <1>3, <1>4, <1>6, RequestFields
  <1>8. Agrees /\ Counted(h)
    BY <1>1, <1>3 DEF TurnInv, Turn
  <1>9. TaggedTimes' = TaggedTimes
    BY <1>1 DEF TaggedTimes
  <1>10. Agrees' /\ Counted(h)'
    BY <1>1, <1>8, <1>9 DEF Agrees, Counted, VersionAt
  <1>11. Turn(q)'
    BY <1>2, <1>5, <1>7, <1>10 DEF Turn, IsTagged
  <1>12. req'[r] = q
    BY <1>7, OneRequestMoves DEF TurnInv, TypeOK
  <1>13. ClockAhead'
    <2>1. clock \in Nat /\ DOMAIN snaps \subseteq Nat
      BY DEF TurnInv, TypeOK, Times
    <2> QED
      BY <1>1, <1>2, <2>1 DEF TurnInv, ClockAhead
  <1>14. LatestCounted'
    BY <1>1, <1>9 DEF TurnInv, LatestCounted, Counted
  <1> QED
    BY <1>11, <1>12, <1>13, <1>14, TurnMoves DEF TurnInv

LEMMA SaveTurn ==
  ASSUME NEW r, Requests = {r}, TurnInv(r), TypeOK', Save(r)
  PROVE  TurnInv(r)'
  <1>1. req[r].phase = "save" /\ UNCHANGED <<registry, clock, removed>>
    BY DEF Save
  <1>2. PICK s : s = req[r].doc
    OBVIOUS
  <1>3. ~IsTagged(s) /\ s.modified = clock /\ Counted(s.history)
    BY <1>1, <1>2 DEF TurnInv, Turn
  <1>4. /\ clock \notin DOMAIN snaps /\ snaps' = Stored(s)
        /\ Goes(r, Request("recount", req[r].op, s, NoCounters))
    BY <1>2, <1>3 DEF Save
  <1>5. /\ DOMAIN snaps' = DOMAIN snaps \cup {clock} /\ snaps'[clock] = s
        /\ \A m \in DOMAIN snaps : snaps'[m] = snaps[m]
    BY <1>3, <1>4 DEF Stored
  <1>6. TaggedTimes' = TaggedTimes
    BY <1>3, <1>4, <1>5 DEF TaggedTimes, IsTagged
  <1>7. clock \in Nat /\ DOMAIN snaps \subseteq Nat /\ \A m \in DOMAIN snaps : m <= clock
    BY DEF TurnInv, TypeOK, Times, ClockAhead
  <1>8. \A m \in LatestOf(DOMAIN snaps') : m = clock
    BY <1>4, <1>5, <1>7 DEF LatestOf
  <1>9. LatestCounted'
    BY <1>1, <1>3, <1>5, <1>6, <1>8 DEF LatestCounted, Counted
  <1>10. ClockAhead'
    BY <1>1, <1>5, <1>7 DEF ClockAhead
  <1>11. PICK q : q = Request("recount", req[r].op, s, NoCounters)
    OBVIOUS
  <1>12. q.phase = "recount" /\ q.doc = s
    BY <1>11, RequestFields
  <1>13. Turn(q)'
    BY <1>1, <1>3, <1>6, <1>12 DEF Turn, Counted
  <1>14. req'[r] = q
    BY <1>4, <1>11, OneRequestMoves DEF TurnInv, TypeOK
  <1> QED
    BY <1>9, <1>10, <1>13, <1>14, TurnMoves DEF TurnInv

LEMMA RecountTurn ==
  ASSUME NEW r, Requests = {r}, TurnInv(r), TypeOK', Recount(r)
  PROVE  TurnInv(r)'
  <1>1. req[r].phase = "recount" /\ UNCHANGED <<snaps, registry, clock, removed>>
    BY DEF Recount
  <1>2. PICK c \in Recounted : Goes(r, Request("register", req[r].op, req[r].doc, c))
    BY DEF Recount
  <1>3. PICK q : q = Request("register", req[r].op, req[r].doc, c)
    OBVIOUS
  <1>4. q.phase = "register" /\ q.doc = req[r].doc /\ q.counts = c
    BY <1>3, RequestFields
  <1>5. Counted(q.doc.history)
    BY <1>1, <1>4 DEF TurnInv, Turn
  <1>6. Turn(q)
    BY <1>4, <1>5 DEF Turn
  <1> QED
    BY <1>1, <1>2, <1>3, <1>6, QuietTurn

LEMMA RegisterTurn ==
  ASSUME NEW r, Requests = {r}, TurnInv(r), TypeOK', Register(r)
  PROVE  TurnInv(r)'
  <1>1. /\ req[r].phase = "register" /\ registry' = req[r].counts /\ UNCHANGED <<snaps, clock, removed>>
        /\ Goes(r, AfterEdit(req[r]))
    BY DEF Register
  <1>2. TaggedTimes' = TaggedTimes
    BY <1>1 DEF TaggedTimes
  <1>3. PICK m \in LatestOrNull(DOMAIN snaps), t \in LatestOrNull(TaggedTimes) :
          req[r].counts = Counters(Cardinality(DOMAIN snaps), Cardinality(TaggedTimes), m, VersionAt(t))
    BY <1>1 DEF TurnInv, Turn, Recounted
  <1>4. /\ registry'.count = Cardinality(DOMAIN snaps) /\ registry'.tagged = Cardinality(TaggedTimes)
        /\ registry'.latest = m /\ registry'.version = VersionAt(t)
    BY <1>1, <1>3 DEF Counters
  <1>5. Agrees'
    BY <1>1, <1>2, <1>4 DEF Agrees, VersionAt
  <1>6. PICK d : d = req[r].doc /\ Counted(d.history)
    BY <1>1 DEF TurnInv, Turn
  <1>7. Counted(d.history)'
    BY <1>1, <1>2, <1>6 DEF Counted
  <1>8. PICK q : q = AfterEdit(req[r])
    OBVIOUS
  <1>9. q = Idle \/ q = Request("stamp", "autopromote", d, NoCounters)
    BY <1>6, <1>8 DEF AfterEdit
  <1>10. q.phase = "idle" \/ (q.phase = "stamp" /\ q.doc = d)
    BY <1>9, IdleType, RequestFields
  <1>11. Turn(q)'
    BY <1>5, <1>7, <1>10 DEF Turn
  <1>12. req'[r] = q
    BY <1>1, <1>8, OneRequestMoves DEF TurnInv, TypeOK
  <1>13. LatestCounted' /\ ClockAhead'
    BY <1>1, <1>2 DEF TurnInv, LatestCounted, Counted, ClockAhead
  <1> QED
    BY <1>11, <1>12, <1>13, TurnMoves DEF TurnInv

LEMMA TagTurn ==
  ASSUME NEW r, Requests = {r}, TurnInv(r), TypeOK', Tag(r)
  PROVE  TurnInv(r)'
  <1>1. PICK copy, m : /\ copy = req[r].doc /\ m = copy.modified
                       /\ m \in LatestOf(DOMAIN snaps) /\ Counted(copy.history) /\ Agrees
    BY DEF Tag, TurnInv, Turn
  <1>2. m \in DOMAIN snaps /\ ~IsTagged(snaps[m]) /\ UNCHANGED <<registry, clock, removed>>
    BY <1>1 DEF Tag, StillDraft
  <1>3. PICK v \in Releases :
          /\ snaps' = [snaps EXCEPT ![m] = Tagged(snaps[m], copy, v)]
          /\ Goes(r, Request("record", "bump", Snapshot(m, v, copy.history, copy.body), NoCounters))
    BY <1>1 DEF Tag, Admissible
  <1>4. PICK new : /\ new = Tagged(snaps[m], copy, v) /\ new.version = v
                   /\ new.history = Append(snaps[m].history, HistoryEntry(v, copy.modified))
    <2>1. PICK new : new = Tagged(snaps[m], copy, v)
      OBVIOUS
    <2> QED
      BY <2>1 DEF Tagged, Snapshot
  <1>5. /\ DOMAIN snaps' = DOMAIN snaps /\ snaps'[m] = new
        /\ \A n \in DOMAIN snaps : n # m => snaps'[n] = snaps[n]
    BY <1>2, <1>3, <1>4
  <1>6. IsTagged(new)
    BY <1>4, DraftIsNoRelease DEF IsTagged
  <1>7. TaggedTimes' = TaggedTimes \cup {m} /\ m \notin TaggedTimes /\ TaggedTimes \subseteq DOMAIN snaps
    BY <1>2, <1>5, <1>6 DEF TaggedTimes, IsTagged
  <1>8. Cardinality(TaggedTimes') = Cardinality(TaggedTimes) + 1 /\ Cardinality(TaggedTimes) \in Nat
    <2>1. IsFiniteSet(TaggedTimes) /\ Cardinality(TaggedTimes) \in Nat
      BY <1>7, TimesFinite DEF TurnInv, TypeOK
    <2> QED
      BY <1>7, <2>1, FS_AddElement
  <1>9. m \in LatestOf(TaggedTimes')
    BY <1>1, <1>7 DEF LatestOf
  <1>10. DOMAIN snaps \subseteq Nat
    BY DEF TurnInv, TypeOK, Times
  <1>11. LatestCounted'
    <2> SUFFICES ASSUME NEW n \in LatestOf(DOMAIN snaps), removed = {}
                 PROVE  Len(snaps'[n].history) = Cardinality(TaggedTimes')
      BY <1>2, <1>5 DEF LatestCounted, Counted
    <2>1. n = m
      <3>1. n \in Nat /\ m \in Nat /\ n <= m /\ m <= n
        BY <1>1, <1>10 DEF LatestOf
      <3> QED
        BY <3>1
    <2>2. PICK h \in History : h = snaps[m].history
      BY <1>2 DEF TurnInv, TypeOK, IsDocument
    <2>3. Len(h) = Cardinality(TaggedTimes)
      BY <1>1, <2>2, LatestCopied DEF Counted
    <2>4. Len(Append(h, HistoryEntry(v, copy.modified))) = Len(h) + 1
      BY <2>2, AppendFacts
    <2> QED
      BY <1>4, <1>5, <1>8, <2>1, <2>2, <2>3, <2>4
  <1>12. ClockAhead'
    BY <1>2, <1>5 DEF TurnInv, ClockAhead
  <1>13. PICK d : /\ d = Snapshot(m, v, copy.history, copy.body)
                  /\ d.modified = m /\ d.version = v /\ d.history = copy.history
    BY SnapshotFields
  <1>14. PICK q : q = Request("record", "bump", d, NoCounters)
    OBVIOUS
  <1>15. q.phase = "record" /\ q.doc = d
    BY <1>14, RequestFields
  <1>16. Recording(d)'
    BY <1>1, <1>2, <1>4, <1>5, <1>8, <1>9, <1>13 DEF Agrees, Recording, Counted
  <1>17. Turn(q)'
    BY <1>15, <1>16 DEF Turn
  <1>18. req'[r] = q
    BY <1>3, <1>13, <1>14, OneRequestMoves DEF TurnInv, TypeOK
  <1> QED
    BY <1>11, <1>12, <1>17, <1>18, TurnMoves DEF TurnInv

LEMMA RecordTurn ==
  ASSUME NEW r, Requests = {r}, TurnInv(r), TypeOK', Record(r)
  PROVE  TurnInv(r)'
  <1>1. req[r].phase = "record" /\ UNCHANGED <<snaps, clock, removed>> /\ Ends(r)
    BY DEF Record
  <1>2. PICK d : /\ d = req[r].doc /\ Recording(d)
    BY <1>1 DEF TurnInv, Turn
  <1>3. registry' = Counters(registry.count, Len(d.history) + 1, registry.latest, d.version)
    BY <1>2 DEF Record
  <1>4. /\ registry'.count = registry.count /\ registry'.latest = registry.latest
        /\ registry'.tagged = Len(d.history) + 1 /\ registry'.version = d.version
    BY <1>3 DEF Counters
  <1>5. TaggedTimes' = TaggedTimes /\ TaggedTimes \subseteq DOMAIN snaps
    BY <1>1 DEF TaggedTimes
  <1>6. d.modified \in LatestOrNull(TaggedTimes) /\ d.version = VersionAt(d.modified)
    BY <1>2, <1>5 DEF Recording, LatestOrNull, LatestOf, VersionAt, TurnInv, TypeOK, Times
  <1>7. Agrees'
    BY <1>1, <1>2, <1>4, <1>5, <1>6 DEF Agrees, Recording, VersionAt
  <1>8. PICK q : q = Idle /\ q.phase = "idle"
    BY IdleType
  <1>9. Turn(q)'
    BY <1>7, <1>8 DEF Turn
  <1>10. req'[r] = q
    BY <1>1, <1>8, OneRequestMoves DEF Ends, TurnInv, TypeOK
  <1>11. LatestCounted' /\ ClockAhead'
    BY <1>1, <1>5 DEF TurnInv, LatestCounted, Counted, ClockAhead
  <1> QED
    BY <1>9, <1>10, <1>11, TurnMoves DEF TurnInv

LEMMA EraseTurn ==
  ASSUME NEW r, Requests = {r}, TurnInv(r), TypeOK', Erase(r)
  PROVE  TurnInv(r)'
  <1>1. PICK m : m = req[r].doc.modified /\ m \in DOMAIN snaps
    BY DEF Erase, TurnInv, Turn
  <1>2. /\ snaps' = [n \in DOMAIN snaps \ {m} |-> snaps[n]] /\ removed' = removed \cup {m}
        /\ clock' = clock
        /\ Goes(r, Request("recount", "delete", req[r].doc, NoCounters))
    BY <1>1 DEF Erase
  <1>3. removed' # {} /\ DOMAIN snaps' \subseteq DOMAIN snaps
    BY <1>2
  <1>4. PICK q : q = Request("recount", "delete", req[r].doc, NoCounters) /\ q.phase = "recount"
    BY RequestFields
  <1>5. Turn(q)'
    BY <1>3, <1>4 DEF Turn, Counted
  <1>6. req'[r] = q
    BY <1>2, <1>4, OneRequestMoves DEF TurnInv, TypeOK
  <1>7. LatestCounted' /\ ClockAhead'
    BY <1>2, <1>3 DEF TurnInv, LatestCounted, Counted, ClockAhead
  <1> QED
    BY <1>5, <1>6, <1>7, TurnMoves DEF TurnInv

LEMMA TurnInit == ASSUME NEW r, Requests = {r} PROVE Init => TurnInv(r)
  <1> SUFFICES ASSUME Init PROVE TurnInv(r)
    OBVIOUS
  <1>1. PICK b \in InitBodies : snaps = [m \in {1} |-> Snapshot(1, Draft, <<>>, b)]
    BY DEF Init
  <1>2. DOMAIN snaps = {1} /\ snaps[1].version = Draft /\ snaps[1].history = <<>>
    BY <1>1, SnapshotFields
  <1>3. TaggedTimes = {}
    BY <1>2 DEF TaggedTimes, IsTagged
  <1>4. Cardinality(DOMAIN snaps) = 1 /\ Cardinality(TaggedTimes) = 0
    BY <1>2, <1>3, FS_Singleton, FS_EmptySet
  <1>5. LatestOrNull(DOMAIN snaps) = {1} /\ LatestOrNull(TaggedTimes) = {0}
    BY <1>2, <1>3 DEF LatestOrNull, LatestOf
  <1>6. /\ registry.count = 1 /\ registry.tagged = 0 /\ registry.latest = 1 /\ registry.version = Draft
    BY DEF Init, Counters
  <1>7. Agrees
    BY <1>4, <1>5, <1>6 DEF Agrees, VersionAt
  <1>8. Turn(req[r])
    BY <1>7, IdleTurn DEF Init
  <1>9. LatestCounted
    <2>1. Len(<<>>) = 0
      OBVIOUS
    <2> QED
      BY <1>2, <1>4, <2>1 DEF LatestCounted, Counted, LatestOf
  <1>10. ClockAhead
    BY <1>2 DEF ClockAhead, Init
  <1> QED
    BY <1>8, <1>9, <1>10, TypeInit DEF TurnInv

LEMMA TurnNext ==
  ASSUME NEW r, Requests = {r}, ByModified = {}, ~Failures
  PROVE  TurnInv(r) /\ [Next]_vars => TurnInv(r)'
  <1> SUFFICES ASSUME TurnInv(r), [Next]_vars PROVE TurnInv(r)'
    OBVIOUS
  <1>1. TypeOK'
    BY TypeStep DEF TurnInv
  <1>2. \A op : Sources(op) = LatestOf(DOMAIN snaps)
    BY DEF Sources
  <1>3. \A m \in LatestOf(DOMAIN snaps) : m \in DOMAIN snaps
    BY DEF LatestOf
  <1>4. CASE BeginEdit(r)
    <2>1. PICK op \in Ops \cap EditOps :
            \E m \in Sources(op) : Goes(r, Request("stamp", op, snaps[m], NoCounters))
      BY <1>4 DEF BeginEdit
    <2>2. PICK m \in LatestOf(DOMAIN snaps) : Goes(r, Request("stamp", op, snaps[m], NoCounters))
      BY <1>2, <2>1
    <2> QED
      BY <1>1, <1>3, <1>4, <2>2, BeginTurn DEF BeginEdit
  <1>5. CASE BeginBump(r)
    <2>1. PICK m \in LatestOf(DOMAIN snaps) : Goes(r, Request("tag", "bump", snaps[m], NoCounters))
      BY <1>2, <1>5 DEF BeginBump
    <2> QED
      BY <1>1, <1>3, <1>5, <2>1, BeginTurn DEF BeginBump
  <1>6. CASE BeginDelete(r)
    <2>1. PICK m \in DOMAIN snaps : Goes(r, Request("remove", "delete", snaps[m], NoCounters))
      BY <1>6 DEF BeginDelete
    <2> QED
      BY <1>1, <1>6, <2>1, BeginTurn DEF BeginDelete
  <1>7. CASE Stamp(r) \/ Save(r) \/ Recount(r) \/ Register(r) \/ Tag(r) \/ Record(r) \/ Erase(r)
    BY <1>1, <1>7, StampTurn, SaveTurn, RecountTurn, RegisterTurn, TagTurn, RecordTurn, EraseTurn
  <1>8. CASE Refuse(r) \/ SaveRefused(r) \/ TagRefused(r)
    <2>1. Ends(r) /\ UNCHANGED <<snaps, registry, clock, removed>> /\ req[r].phase \in {"stamp", "save", "tag"}
      BY <1>8 DEF Refuse, SaveRefused, TagRefused
    <2>2. Agrees
      BY <2>1 DEF TurnInv, Turn
    <2> QED
      BY <1>1, <2>1, <2>2, EndTurn
  <1>9. CASE UNCHANGED vars
    <2>1. PICK q : q = req[r] /\ req'[r] = q /\ Turn(q)
      BY <1>9 DEF vars, TurnInv
    <2>2. Turn(req[r])'
      BY <1>9, <2>1, SameTurn, TurnMoves DEF vars
    <2>3. ClockAhead' /\ LatestCounted'
      BY <1>9 DEF vars, TurnInv, ClockAhead, LatestCounted, Counted, TaggedTimes
    <2> QED
      BY <1>1, <2>2, <2>3 DEF TurnInv
  <1>10. ~Fail(r)
    BY DEF Fail
  <1> QED
    BY <1>4, <1>5, <1>6, <1>7, <1>8, <1>9, <1>10 DEF Next

\* While requests come one after the other, each on the latest snapshot, and none fails, the
\* registry agrees with the collection between requests (syncRegistryCounters after edits and
\* deletions; after a bump, _doBump writes counters from the history it has read).
THEOREM RegistryAgrees ==
  ASSUME NEW r, Requests = {r}, ByModified = {}, ~Failures
  PROVE  Spec => []RegistryCurrent
  <1>1. Init => TurnInv(r)
    BY TurnInit
  <1>2. TurnInv(r) /\ [Next]_vars => TurnInv(r)'
    BY TurnNext
  <1>3. TurnInv(r) => RegistryCurrent
    BY DEF TurnInv, Turn, Agrees, RegistryCurrent
  <1> QED
    BY <1>1, <1>2, <1>3, PTL DEF Spec
-----------------------------------------------------------------------------
(***************************************************************************)
(* TierWorkflow: for any versions, configurations and lengths of the tiers *)
(* staged pins no object twice, no request loses the newest version that   *)
(* waits, a release never takes a member back, promotion leaves behind     *)
(* only what it had to, and a synchronisation supplants.                   *)
(*                                                                         *)
(* The tiers are lists that filters and merges build one entry at a time.  *)
(* What they build is proved by induction along the list (Maxima), with    *)
(* the set of the lengths for which a fact holds in place of the fact.     *)
(***************************************************************************)
(***************************************************************************)
(* Conflict policies.                                                      *)
(***************************************************************************)
Accs(E) == [merged : Seq(E), rejected : Seq(E), conflicts : Seq(E)]

\* The first pin of an object in a tier is one (findIndex).
LEMMA IncumbentPins ==
  ASSUME NEW E, NEW tier \in Seq(E), NEW ref, Pinned(tier, ref)
  PROVE  Incumbent(tier, ref) \in DOMAIN tier /\ tier[Incumbent(tier, ref)].ref = ref
  <1>1. PinsOf(tier, ref) \in SUBSET (1 .. Len(tier)) /\ PinsOf(tier, ref) # {} /\ Len(tier) \in Nat
    BY DEF PinsOf, Pinned
  <1>2. Incumbent(tier, ref) \in PinsOf(tier, ref)
    BY <1>1, BoundedMin DEF Incumbent
  <1> QED
    BY <1>2 DEF PinsOf

\* What one turn of the loop may do with an entry.
Appended(acc, e, a) ==
  /\ ~Pinned(acc.merged, e.ref)
  /\ a = [acc EXCEPT !.merged = Append(@, e)]

Overwritten(policy, acc, e, a) ==
  /\ Pinned(acc.merged, e.ref)
  /\ policy \in {"always_overwrite", "prefer_latest"}
  /\ policy = "prefer_latest" => e.mod > acc.merged[Incumbent(acc.merged, e.ref)].mod
  /\ a = [acc EXCEPT !.merged = [@ EXCEPT ![Incumbent(acc.merged, e.ref)] = e]]

TurnedAway(policy, acc, e, a) ==
  /\ Pinned(acc.merged, e.ref)
  /\ policy \in {"always_reject", "prefer_latest"}
  /\ policy = "prefer_latest" => ~(e.mod > acc.merged[Incumbent(acc.merged, e.ref)].mod)
  /\ a = [acc EXCEPT !.rejected = Append(@, e)]

Clashed(policy, acc, e, a) ==
  /\ Pinned(acc.merged, e.ref)
  /\ policy = "abort"
  /\ a = [acc EXCEPT !.conflicts = Append(@, e)]

\* A turn appends, overwrites, turns away or notes a conflict (Admit).
LEMMA AdmitCases ==
  ASSUME NEW policy \in Policies, NEW acc, NEW e
  PROVE  \/ Appended(acc, e, Admit(policy, acc, e))
         \/ Overwritten(policy, acc, e, Admit(policy, acc, e))
         \/ TurnedAway(policy, acc, e, Admit(policy, acc, e))
         \/ Clashed(policy, acc, e, Admit(policy, acc, e))
  <1>1. CASE ~Pinned(acc.merged, e.ref)
    BY <1>1 DEF Admit, Appended
  <1>2. CASE Pinned(acc.merged, e.ref)
    <2>1. CASE policy = "always_overwrite"
      BY <1>2, <2>1 DEF Admit, Overwritten, Overwrite
    <2>2. CASE policy = "always_reject"
      BY <1>2, <2>2 DEF Admit, TurnedAway, Reject
    <2>3. CASE policy = "prefer_latest"
      BY <1>2, <2>3 DEF Admit, TurnedAway, Overwritten, Overwrite, Reject
    <2>4. CASE policy = "abort"
      BY <1>2, <2>4 DEF Admit, Clashed
    <2> QED
      BY <2>1, <2>2, <2>3, <2>4 DEF Policies
  <1> QED
    BY <1>1, <1>2

\* A turn keeps the lists of a merge in progress lists of entries.
LEMMA AdmitTypes ==
  ASSUME NEW E, NEW policy \in Policies, NEW acc \in Accs(E), NEW e \in E
  PROVE  Admit(policy, acc, e) \in Accs(E)
  <1> DEFINE a == Admit(policy, acc, e)
  <1>1. ASSUME Appended(acc, e, a) PROVE a \in Accs(E)
    <2>1. Append(acc.merged, e) \in Seq(E)
      BY AppendProperties DEF Accs
    <2> HIDE DEF a
    <2> QED
      BY <1>1, <2>1 DEF Appended, Accs
  <1>2. ASSUME Overwritten(policy, acc, e, a) PROVE a \in Accs(E)
    <2>1. Incumbent(acc.merged, e.ref) \in 1 .. Len(acc.merged)
      BY <1>2, IncumbentPins DEF Overwritten, Accs
    <2>2. [acc.merged EXCEPT ![Incumbent(acc.merged, e.ref)] = e] \in Seq(E)
      BY <2>1, ExceptSeq DEF Accs
    <2> HIDE DEF a
    <2> QED
      BY <1>2, <2>2 DEF Overwritten, Accs
  <1>3. ASSUME TurnedAway(policy, acc, e, a) PROVE a \in Accs(E)
    <2>1. Append(acc.rejected, e) \in Seq(E)
      BY AppendProperties DEF Accs
    <2> HIDE DEF a
    <2> QED
      BY <1>3, <2>1 DEF TurnedAway, Accs
  <1>4. ASSUME Clashed(policy, acc, e, a) PROVE a \in Accs(E)
    <2>1. Append(acc.conflicts, e) \in Seq(E)
      BY AppendProperties DEF Accs
    <2> HIDE DEF a
    <2> QED
      BY <1>4, <2>1 DEF Clashed, Accs
  <1> HIDE DEF a
  <1> QED
    BY <1>1, <1>2, <1>3, <1>4, AdmitCases DEF a

\* The merge goes one turn at a time (Merges).
LEMMA MergeSteps ==
  ASSUME NEW E, NEW tier \in Seq(E), NEW incoming \in Seq(E), NEW policy \in Policies
  PROVE  LET M == Merges(tier, incoming, policy)
         IN  /\ \A n \in 0 .. Len(incoming) : M[n] \in Accs(E)
             /\ M[0] = MergeStart(tier)
             /\ \A n \in 1 .. Len(incoming) : M[n] = Admit(policy, M[n - 1], incoming[n])
  <1> DEFINE N == Len(incoming)
             A == Accs(E)
             v == MergeStart(tier)
             Step(acc, n) == Admit(policy, acc, incoming[n])
             D == [p \in A \X (1 .. N) |-> Step(p[1], p[2])]
             Body(g) == [n \in 0 .. N |-> IF n = 0 THEN v ELSE Step(g[n - 1], n)]
             M == Merges(tier, incoming, policy)
  <1>0. N \in Nat /\ \A n \in 1 .. N : incoming[n] \in E
    BY ElementOfSeq
  <1>1. v \in A
    BY EmptySeq DEF MergeStart, Accs
  <1>2. \A acc \in A, n \in 1 .. N : Step(acc, n) \in A
    <2> HIDE DEF N
    <2> QED
      BY <1>0, AdmitTypes
  <1>3. D \in [A \X (1 .. N) -> A]
    <2> HIDE DEF Step, N, A
    <2> QED
      BY <1>0, <1>2
  <1>4. PICK g \in [0 .. N -> A] : Follows(g, N, v, D)
    <2> HIDE DEF D, N, A, v
    <2> QED
      BY <1>0, <1>1, <1>3, Recursion
  <1>5. g = Body(g)
    <2>1. \A n \in 1 .. N : g[n] = Step(g[n - 1], n)
      <3> TAKE n \in 1 .. N
      <3>1. n - 1 \in 0 .. N
        BY <1>0
      <3>2. g[n - 1] \in A
        BY <1>4, <3>1
      <3> HIDE DEF Step, N, A
      <3> QED
        BY <1>4, <3>2 DEF Follows
    <2> HIDE DEF Step, N, A, v
    <2> QED
      BY <1>0, <1>4, <2>1 DEF Follows
  <1>6. M = CHOOSE f : f = Body(f)
    BY DEF Merges
  <1>7. M = Body(M)
    <2> HIDE DEF Body, M
    <2> QED
      BY <1>5, <1>6 DEF M
  <1>8. M[0] = v /\ \A n \in 1 .. N : M[n] = Step(M[n - 1], n)
    <2>1. \A n \in 0 .. N : Body(M)[n] = IF n = 0 THEN v ELSE Step(M[n - 1], n)
      <3> HIDE DEF Step, N, M, v
      <3> QED
        OBVIOUS
    <2> HIDE DEF Step, N, M, Body, v
    <2> QED
      BY <1>0, <1>7, <2>1
  <1>9. \A n \in 0 .. N : M[n] \in A
    <2> DEFINE J == {n \in Nat : n <= N => M[n] \in A}
    <2> HIDE DEF Step, N, M, Body, D, A, v
    <2>1. 0 \in J
      BY <1>0, <1>1, <1>8
    <2>2. ASSUME NEW n \in J PROVE n + 1 \in J
      <3> SUFFICES ASSUME n + 1 <= N PROVE M[n + 1] \in A
        OBVIOUS
      <3>1. M[n] \in A /\ n + 1 \in 1 .. N /\ (n + 1) - 1 = n
        BY <1>0
      <3> QED
        BY <1>2, <1>8, <3>1
    <2>3. \A n \in Nat : n \in J
      <3> HIDE DEF J
      <3>1. J \in SUBSET Nat
        BY DEF J
      <3> QED
        BY <2>1, <2>2, <3>1, SetInduction
    <2> QED
      BY <1>0, <2>3
  <1> QED
    BY <1>8, <1>9

(***************************************************************************)
(* What a merge has done after n of the incoming entries.                  *)
(***************************************************************************)
\* The entries of the tier keep their places and objects.
PlacesKept(tier, acc) ==
  \A i \in DOMAIN tier : i \in DOMAIN acc.merged /\ acc.merged[i].ref = tier[i].ref

\* What was appended pins an object that nothing else pins, and that came in.
NewcomersAlone(tier, incoming, n, acc) ==
  \A j \in DOMAIN acc.merged \ DOMAIN tier :
    /\ \A i \in DOMAIN acc.merged : acc.merged[i].ref = acc.merged[j].ref => i = j
    /\ \E k \in 1 .. n : incoming[k].ref = acc.merged[j].ref

\* Every object that came in is pinned.
AllPinned(incoming, n, acc) ==
  \A k \in 1 .. n : Pinned(acc.merged, incoming[k].ref)

\* Unless they are overwritten, entries of the tier only get newer, or do not change.
NoneOlder(tier, policy, acc) ==
  \A i \in DOMAIN tier :
    /\ policy # "always_overwrite" => acc.merged[i].mod >= tier[i].mod
    /\ policy \in {"abort", "always_reject"} => acc.merged[i].mod = tier[i].mod

\* Under prefer_latest no entry is newer than the one its object is left with.
NewestWins(incoming, policy, n, acc) ==
  policy = "prefer_latest" =>
    \A k \in 1 .. n :
      acc.merged[Incumbent(acc.merged, incoming[k].ref)].mod >= incoming[k].mod

\* Under always_reject an entry is in the tier, or its object was turned away.
InOrRejected(incoming, policy, n, acc) ==
  policy = "always_reject" =>
    \A k \in 1 .. n :
      \/ \E i \in DOMAIN acc.merged : acc.merged[i] = incoming[k]
      \/ \E j \in DOMAIN acc.rejected : acc.rejected[j].ref = incoming[k].ref

\* What was turned away came in, when the object was in the tier or came in twice.
RejectedForReason(tier, incoming, n, acc) ==
  \A j \in DOMAIN acc.rejected : \E k \in 1 .. n :
    /\ incoming[k].ref = acc.rejected[j].ref
    /\ \/ \E i \in DOMAIN tier : tier[i].ref = incoming[k].ref
       \/ \E l \in 1 .. n : l # k /\ incoming[l].ref = incoming[k].ref

Merging(tier, incoming, policy, n, acc) ==
  /\ PlacesKept(tier, acc)
  /\ NewcomersAlone(tier, incoming, n, acc)
  /\ AllPinned(incoming, n, acc)
  /\ NoneOlder(tier, policy, acc)
  /\ NewestWins(incoming, policy, n, acc)
  /\ InOrRejected(incoming, policy, n, acc)
  /\ RejectedForReason(tier, incoming, n, acc)

\* An object is pinned when some entry is one of it.
LEMMA PinsInTier ==
  ASSUME NEW tier, NEW ref
  PROVE  Pinned(tier, ref) <=> \E i \in DOMAIN tier : tier[i].ref = ref
  BY DEF Pinned, PinsOf

\* Appending an entry whose object is not pinned.
LEMMA PinsAfterAppend ==
  ASSUME NEW E, NEW tier \in Seq(E), NEW e \in E
  PROVE  LET t == Append(tier, e)
         IN  /\ DOMAIN t = 1 .. (Len(tier) + 1) /\ DOMAIN tier = 1 .. Len(tier)
             /\ \A i \in DOMAIN tier : i \in DOMAIN t /\ t[i] = tier[i]
             /\ Len(tier) + 1 \in DOMAIN t /\ Len(tier) + 1 \notin DOMAIN tier
             /\ t[Len(tier) + 1] = e
             /\ \A i \in DOMAIN t : i \in DOMAIN tier \/ i = Len(tier) + 1
             /\ \A ref : ref # e.ref => PinsOf(t, ref) = PinsOf(tier, ref)
             /\ PinsOf(t, e.ref) = PinsOf(tier, e.ref) \cup {Len(tier) + 1}
  <1> DEFINE t == Append(tier, e)
  <1>1. /\ t \in Seq(E) /\ Len(t) = Len(tier) + 1 /\ Len(tier) \in Nat
        /\ \A i \in 1 .. Len(tier) : t[i] = tier[i]
        /\ t[Len(tier) + 1] = e
    BY AppendProperties, LenProperties
  <1>2. DOMAIN t = 1 .. (Len(tier) + 1) /\ DOMAIN tier = 1 .. Len(tier)
    BY <1>1, LenProperties
  <1> HIDE DEF t
  <1>3. /\ \A i \in DOMAIN tier : i \in DOMAIN t /\ t[i] = tier[i]
        /\ Len(tier) + 1 \in DOMAIN t /\ Len(tier) + 1 \notin DOMAIN tier
        /\ \A i \in DOMAIN t : i \in DOMAIN tier \/ i = Len(tier) + 1
    BY <1>1, <1>2
  <1>4. \A ref : ref # e.ref => PinsOf(t, ref) = PinsOf(tier, ref)
    BY <1>1, <1>3 DEF PinsOf
  <1>5. PinsOf(t, e.ref) = PinsOf(tier, e.ref) \cup {Len(tier) + 1}
    BY <1>1, <1>3 DEF PinsOf
  <1> QED
    BY <1>1, <1>2, <1>3, <1>4, <1>5 DEF t

\* Overwriting an entry by one of the same object.
LEMMA PinsAfterOverwrite ==
  ASSUME NEW E, NEW tier \in Seq(E), NEW e \in E, NEW i \in DOMAIN tier, tier[i].ref = e.ref
  PROVE  LET t == [tier EXCEPT ![i] = e]
         IN  /\ DOMAIN t = DOMAIN tier
             /\ \A j \in DOMAIN tier : t[j] = (IF j = i THEN e ELSE tier[j]) /\ t[j].ref = tier[j].ref
             /\ \A ref : PinsOf(t, ref) = PinsOf(tier, ref)
  <1> DEFINE t == [tier EXCEPT ![i] = e]
  <1>1. DOMAIN t = DOMAIN tier /\ \A j \in DOMAIN tier : t[j] = IF j = i THEN e ELSE tier[j]
    OBVIOUS
  <1> HIDE DEF t
  <1>2. \A j \in DOMAIN tier : t[j].ref = tier[j].ref
    BY <1>1
  <1>3. \A ref : PinsOf(t, ref) = PinsOf(tier, ref)
    BY <1>1, <1>2 DEF PinsOf
  <1> QED
    BY <1>1, <1>2, <1>3 DEF t

\* A turn that appends the entry.
LEMMA MergingAppends ==
  ASSUME NEW E, NEW tier \in Seq(E), NEW incoming \in Seq(E), NEW policy \in Policies,
         \A e \in E : e.mod \in Nat,
         NEW n \in 0 .. Len(incoming), n + 1 <= Len(incoming), NEW acc \in Accs(E), NEW a,
         Merging(tier, incoming, policy, n, acc), Appended(acc, incoming[n + 1], a)
  PROVE  Merging(tier, incoming, policy, n + 1, a)
  <1> DEFINE e == incoming[n + 1]
             t == acc.merged
             u == Append(t, e)
             l == Len(t) + 1
  <1>0. /\ Len(incoming) \in Nat /\ n \in Nat /\ e \in E /\ t \in Seq(E)
        /\ \A k \in 1 .. (n + 1) : k \in 1 .. n \/ k = n + 1
        /\ \A k \in 1 .. n : k \in 1 .. (n + 1) /\ k # n + 1 /\ incoming[k] \in E
        /\ n + 1 \in 1 .. (n + 1)
    BY LenProperties, ElementOfSeq DEF Accs
  <1>1. /\ a.merged = u /\ a.rejected = acc.rejected
        /\ \A i \in DOMAIN t : t[i].ref # e.ref
    BY PinsInTier DEF Appended, Accs
  <1>2. /\ \A i \in DOMAIN t : i \in DOMAIN u /\ u[i] = t[i]
        /\ l \in DOMAIN u /\ l \notin DOMAIN t /\ u[l] = e
        /\ \A i \in DOMAIN u : i \in DOMAIN t \/ i = l
        /\ \A ref : ref # e.ref => PinsOf(u, ref) = PinsOf(t, ref)
        /\ PinsOf(u, e.ref) = PinsOf(t, e.ref) \cup {l}
    <2> HIDE DEF e, t
    <2> QED
      BY <1>0, PinsAfterAppend
  <1> HIDE DEF u, l, t, e
  <1>3. PlacesKept(tier, a)
    BY <1>1, <1>2 DEF Merging, PlacesKept, t
  <1>4. NewcomersAlone(tier, incoming, n + 1, a)
    <2> SUFFICES ASSUME NEW j \in DOMAIN u \ DOMAIN tier
                 PROVE  /\ \A i \in DOMAIN u : u[i].ref = u[j].ref => i = j
                        /\ \E k \in 1 .. (n + 1) : incoming[k].ref = u[j].ref
      BY <1>1 DEF NewcomersAlone
    <2>1. CASE j = l
      <3>1. \A i \in DOMAIN u : u[i].ref = u[j].ref => i = j
        BY <1>1, <1>2, <2>1
      <3>2. incoming[n + 1].ref = u[j].ref
        BY <1>2, <2>1 DEF e
      <3> QED
        BY <1>0, <3>1, <3>2
    <2>2. CASE j \in DOMAIN t
      <3>1. \A i \in DOMAIN t : t[i].ref = t[j].ref => i = j
        BY <2>2 DEF Merging, NewcomersAlone, t
      <3>2. \E k \in 1 .. n : incoming[k].ref = t[j].ref
        BY <2>2 DEF Merging, NewcomersAlone, t
      <3>3. u[j] = t[j] /\ t[j].ref # e.ref
        BY <1>1, <1>2, <2>2
      <3>4. \A i \in DOMAIN u : u[i].ref = u[j].ref => i = j
        BY <1>2, <3>1, <3>3
      <3> QED
        BY <1>0, <3>2, <3>3, <3>4
    <2> QED
      BY <1>2, <2>1, <2>2
  <1>5. AllPinned(incoming, n + 1, a)
    <2> SUFFICES ASSUME NEW k \in 1 .. (n + 1) PROVE \E i \in DOMAIN u : u[i].ref = incoming[k].ref
      BY <1>1, PinsInTier DEF AllPinned
    <2>1. CASE k = n + 1
      BY <1>2, <2>1 DEF e
    <2>2. CASE k \in 1 .. n
      <3>1. \E i \in DOMAIN t : t[i].ref = incoming[k].ref
        BY <2>2, PinsInTier DEF Merging, AllPinned, t
      <3> QED
        BY <1>2, <3>1
    <2> QED
      BY <1>0, <2>1, <2>2
  <1>6. NoneOlder(tier, policy, a)
    <2>1. \A i \in DOMAIN tier : u[i] = t[i]
      BY <1>2 DEF Merging, PlacesKept, t
    <2> QED
      BY <1>1, <2>1 DEF Merging, NoneOlder, t
  <1>7. NewestWins(incoming, policy, n + 1, a)
    <2> SUFFICES ASSUME policy = "prefer_latest", NEW k \in 1 .. (n + 1)
                 PROVE  u[Incumbent(u, incoming[k].ref)].mod >= incoming[k].mod
      BY <1>1 DEF NewestWins
    <2>1. CASE k = n + 1
      <3>0. u \in Seq(E)
        BY <1>0, AppendProperties DEF u
      <3>1. Pinned(u, e.ref)
        BY <1>2, PinsInTier
      <3>2. Incumbent(u, e.ref) \in DOMAIN u /\ u[Incumbent(u, e.ref)].ref = e.ref
        BY <3>0, <3>1, IncumbentPins
      <3>3. Incumbent(u, e.ref) = l
        BY <1>1, <1>2, <3>2
      <3>4. u[Incumbent(u, e.ref)].mod = e.mod /\ e.mod \in Nat
        BY <1>0, <1>2, <3>3
      <3> QED
        BY <2>1, <3>4 DEF e
    <2>2. CASE k \in 1 .. n
      <3>1. Pinned(t, incoming[k].ref)
        BY <2>2 DEF Merging, AllPinned, t
      <3>2. Incumbent(t, incoming[k].ref) \in DOMAIN t /\ t[Incumbent(t, incoming[k].ref)].ref = incoming[k].ref
        BY <1>0, <3>1, IncumbentPins
      <3>3. incoming[k].ref # e.ref
        BY <1>1, <3>2
      <3>4. Incumbent(u, incoming[k].ref) = Incumbent(t, incoming[k].ref)
        BY <1>2, <3>3 DEF Incumbent
      <3>5. t[Incumbent(t, incoming[k].ref)].mod >= incoming[k].mod
        BY <2>2 DEF Merging, NewestWins, t
      <3> QED
        BY <1>2, <3>2, <3>4, <3>5
    <2> QED
      BY <1>0, <2>1, <2>2
  <1>8. InOrRejected(incoming, policy, n + 1, a)
    <2> SUFFICES ASSUME policy = "always_reject", NEW k \in 1 .. (n + 1)
                 PROVE  \/ \E i \in DOMAIN u : u[i] = incoming[k]
                        \/ \E j \in DOMAIN acc.rejected : acc.rejected[j].ref = incoming[k].ref
      BY <1>1 DEF InOrRejected
    <2>1. CASE k = n + 1
      BY <1>2, <2>1 DEF e
    <2>2. CASE k \in 1 .. n
      <3>1. \/ \E i \in DOMAIN t : t[i] = incoming[k]
            \/ \E j \in DOMAIN acc.rejected : acc.rejected[j].ref = incoming[k].ref
        BY <2>2 DEF Merging, InOrRejected, t
      <3> QED
        BY <1>2, <3>1
    <2> QED
      BY <1>0, <2>1, <2>2
  <1>9. RejectedForReason(tier, incoming, n + 1, a)
    <2>1. RejectedForReason(tier, incoming, n, acc)
      BY DEF Merging
    <2> QED
      BY <1>0, <1>1, <2>1 DEF RejectedForReason
  <1> QED
    BY <1>3, <1>4, <1>5, <1>6, <1>7, <1>8, <1>9 DEF Merging

\* A turn that leaves the tier alone, and perhaps turns the entry away.
LEMMA MergingStays ==
  ASSUME NEW E, NEW tier \in Seq(E), NEW incoming \in Seq(E), NEW policy \in Policies,
         \A e \in E : e.mod \in Nat,
         NEW n \in 0 .. Len(incoming), n + 1 <= Len(incoming), NEW acc \in Accs(E), NEW a,
         Merging(tier, incoming, policy, n, acc),
         \/ TurnedAway(policy, acc, incoming[n + 1], a)
         \/ Clashed(policy, acc, incoming[n + 1], a)
  PROVE  Merging(tier, incoming, policy, n + 1, a)
  <1> DEFINE e == incoming[n + 1]
             t == acc.merged
             i0 == Incumbent(t, e.ref)
  <1>0. /\ Len(incoming) \in Nat /\ n \in Nat /\ e \in E /\ t \in Seq(E)
        /\ \A k \in 1 .. (n + 1) : k \in 1 .. n \/ k = n + 1
        /\ \A k \in 1 .. n : k \in 1 .. (n + 1) /\ k # n + 1 /\ incoming[k] \in E
        /\ n + 1 \in 1 .. (n + 1)
    BY LenProperties, ElementOfSeq DEF Accs
  <1>1. /\ a.merged = t
        /\ i0 \in DOMAIN t /\ t[i0].ref = e.ref
        /\ policy = "prefer_latest" => ~(e.mod > t[i0].mod)
    BY <1>0, IncumbentPins DEF TurnedAway, Clashed, Accs
  <1>2. \/ a.rejected = acc.rejected /\ policy = "abort"
        \/ a.rejected = Append(acc.rejected, e)
    BY DEF TurnedAway, Clashed, Accs
  <1>3. /\ \A j \in DOMAIN acc.rejected : j \in DOMAIN a.rejected /\ a.rejected[j] = acc.rejected[j]
        /\ \A j \in DOMAIN a.rejected : \/ j \in DOMAIN acc.rejected
                                        \/ a.rejected[j] = e
        /\ policy # "abort" => \E j \in DOMAIN a.rejected : a.rejected[j] = e
    <2>1. acc.rejected \in Seq(E)
      BY DEF Accs
    <2>2. CASE a.rejected = acc.rejected /\ policy = "abort"
      BY <2>2
    <2>3. CASE a.rejected = Append(acc.rejected, e)
      <3> DEFINE s == acc.rejected
                 u == Append(s, e)
      <3>1. s \in Seq(E) /\ e \in E
        BY <1>0, <2>1
      <3> HIDE DEF e, s
      <3>2. /\ \A j \in DOMAIN s : j \in DOMAIN u /\ u[j] = s[j]
            /\ Len(s) + 1 \in DOMAIN u /\ u[Len(s) + 1] = e
            /\ \A j \in DOMAIN u : j \in DOMAIN s \/ j = Len(s) + 1
        BY <3>1, PinsAfterAppend
      <3>3. a.rejected = u
        BY <2>3 DEF s
      <3> HIDE DEF u
      <3> QED
        BY <3>2, <3>3 DEF s
    <2> QED
      BY <1>2, <2>2, <2>3
  <1> HIDE DEF i0, t, e
  <1>4. PlacesKept(tier, a) /\ NoneOlder(tier, policy, a)
    BY <1>1 DEF Merging, PlacesKept, NoneOlder, t
  <1>5. NewcomersAlone(tier, incoming, n + 1, a)
    <2>1. NewcomersAlone(tier, incoming, n, acc)
      BY DEF Merging
    <2> QED
      BY <1>0, <1>1, <2>1 DEF NewcomersAlone, t
  <1>6. AllPinned(incoming, n + 1, a)
    <2>1. AllPinned(incoming, n, acc) /\ Pinned(t, e.ref)
      BY <1>1, PinsInTier DEF Merging
    <2> QED
      BY <1>0, <1>1, <2>1 DEF AllPinned, t, e
  <1>7. NewestWins(incoming, policy, n + 1, a)
    <2> SUFFICES ASSUME policy = "prefer_latest", NEW k \in 1 .. (n + 1)
                 PROVE  t[Incumbent(t, incoming[k].ref)].mod >= incoming[k].mod
      BY <1>1 DEF NewestWins
    <2>1. CASE k = n + 1
      <3>1. t[i0].mod \in Nat /\ e.mod \in Nat
        BY <1>0, <1>1, ElementOfSeq
      <3>2. t[i0].mod >= e.mod
        BY <1>1, <3>1
      <3> QED
        BY <2>1, <3>2 DEF i0, e
    <2>2. CASE k \in 1 .. n
      BY <2>2 DEF Merging, NewestWins, t
    <2> QED
      BY <1>0, <2>1, <2>2
  <1>8. InOrRejected(incoming, policy, n + 1, a)
    <2> SUFFICES ASSUME policy = "always_reject", NEW k \in 1 .. (n + 1)
                 PROVE  \/ \E i \in DOMAIN t : t[i] = incoming[k]
                        \/ \E j \in DOMAIN a.rejected : a.rejected[j].ref = incoming[k].ref
      BY <1>1 DEF InOrRejected
    <2>1. CASE k = n + 1
      BY <1>3, <2>1 DEF e
    <2>2. CASE k \in 1 .. n
      <3>1. \/ \E i \in DOMAIN t : t[i] = incoming[k]
            \/ \E j \in DOMAIN acc.rejected : acc.rejected[j].ref = incoming[k].ref
        BY <2>2 DEF Merging, InOrRejected, t
      <3> QED
        BY <1>3, <3>1
    <2> QED
      BY <1>0, <2>1, <2>2
  <1>9. RejectedForReason(tier, incoming, n + 1, a)
    <2> SUFFICES ASSUME NEW j \in DOMAIN a.rejected
                 PROVE  \E k \in 1 .. (n + 1) :
                          /\ incoming[k].ref = a.rejected[j].ref
                          /\ \/ \E i \in DOMAIN tier : tier[i].ref = incoming[k].ref
                             \/ \E m \in 1 .. (n + 1) : m # k /\ incoming[m].ref = incoming[k].ref
      BY DEF RejectedForReason
    <2>1. CASE j \in DOMAIN acc.rejected
      <3>1. PICK k \in 1 .. n :
              /\ incoming[k].ref = acc.rejected[j].ref
              /\ \/ \E i \in DOMAIN tier : tier[i].ref = incoming[k].ref
                 \/ \E m \in 1 .. n : m # k /\ incoming[m].ref = incoming[k].ref
        BY <2>1 DEF Merging, RejectedForReason
      <3> QED
        BY <1>0, <1>3, <2>1, <3>1
    <2>2. CASE a.rejected[j] = e
      <3>1. CASE i0 \in DOMAIN tier
        <4>1. tier[i0].ref = e.ref
          BY <1>1, <3>1 DEF Merging, PlacesKept, t
        <4> QED
          BY <1>0, <2>2, <3>1, <4>1 DEF e
      <3>2. CASE i0 \notin DOMAIN tier
        <4>1. PICK m \in 1 .. n : incoming[m].ref = t[i0].ref
          BY <1>1, <3>2 DEF Merging, NewcomersAlone, t
        <4> QED
          BY <1>0, <1>1, <2>2, <4>1 DEF e
      <3> QED
        BY <3>1, <3>2
    <2> QED
      BY <1>3, <2>1, <2>2
  <1> QED
    BY <1>4, <1>5, <1>6, <1>7, <1>8, <1>9 DEF Merging

\* A turn that overwrites the entry of the object.
LEMMA MergingOverwrites ==
  ASSUME NEW E, NEW tier \in Seq(E), NEW incoming \in Seq(E), NEW policy \in Policies,
         \A e \in E : e.mod \in Nat,
         NEW n \in 0 .. Len(incoming), n + 1 <= Len(incoming), NEW acc \in Accs(E), NEW a,
         Merging(tier, incoming, policy, n, acc), Overwritten(policy, acc, incoming[n + 1], a)
  PROVE  Merging(tier, incoming, policy, n + 1, a)
  <1> DEFINE e == incoming[n + 1]
             t == acc.merged
             i0 == Incumbent(t, e.ref)
             u == [t EXCEPT ![i0] = e]
  <1>0. /\ Len(incoming) \in Nat /\ n \in Nat /\ e \in E /\ t \in Seq(E)
        /\ \A k \in 1 .. (n + 1) : k \in 1 .. n \/ k = n + 1
        /\ \A k \in 1 .. n : k \in 1 .. (n + 1) /\ k # n + 1 /\ incoming[k] \in E
        /\ n + 1 \in 1 .. (n + 1)
    BY LenProperties, ElementOfSeq DEF Accs
  <1>1. /\ a.merged = u /\ a.rejected = acc.rejected
        /\ i0 \in DOMAIN t /\ t[i0].ref = e.ref
        /\ policy = "prefer_latest" => e.mod > t[i0].mod
        /\ policy \in {"always_overwrite", "prefer_latest"}
    BY <1>0, IncumbentPins DEF Overwritten, Accs
  <1>2. /\ DOMAIN u = DOMAIN t
        /\ \A i \in DOMAIN t : u[i] = (IF i = i0 THEN e ELSE t[i]) /\ u[i].ref = t[i].ref
        /\ \A ref : PinsOf(u, ref) = PinsOf(t, ref)
    <2> HIDE DEF e, t, i0
    <2> QED
      BY <1>0, <1>1, PinsAfterOverwrite
  <1>3. e.mod \in Nat /\ t[i0].mod \in Nat
    BY <1>0, <1>1, ElementOfSeq
  <1> HIDE DEF u, t, e, i0
  <1>4. PlacesKept(tier, a)
    BY <1>1, <1>2 DEF Merging, PlacesKept, t
  <1>5. NewcomersAlone(tier, incoming, n + 1, a)
    <2>1. NewcomersAlone(tier, incoming, n, acc)
      BY DEF Merging
    <2> QED
      BY <1>0, <1>1, <1>2, <2>1 DEF NewcomersAlone, t
  <1>6. AllPinned(incoming, n + 1, a)
    <2>1. AllPinned(incoming, n, acc) /\ Pinned(t, e.ref)
      BY <1>1, PinsInTier DEF Merging
    <2>2. \A ref : Pinned(u, ref) <=> Pinned(t, ref)
      BY <1>2 DEF Pinned
    <2> QED
      BY <1>0, <1>1, <2>1, <2>2 DEF AllPinned, t, e
  <1>7. NoneOlder(tier, policy, a)
    <2> SUFFICES ASSUME NEW i \in DOMAIN tier, policy # "always_overwrite"
                 PROVE  u[i].mod >= tier[i].mod
      BY <1>1 DEF NoneOlder
    <2>1. i \in DOMAIN t /\ t[i].mod >= tier[i].mod /\ tier[i].mod \in Nat
      BY ElementOfSeq DEF Merging, PlacesKept, NoneOlder, t
    <2> QED
      BY <1>1, <1>2, <1>3, <2>1
  <1>8. NewestWins(incoming, policy, n + 1, a)
    <2> SUFFICES ASSUME policy = "prefer_latest", NEW k \in 1 .. (n + 1)
                 PROVE  u[Incumbent(u, incoming[k].ref)].mod >= incoming[k].mod
      BY <1>1 DEF NewestWins
    <2>0. \A ref : Incumbent(u, ref) = Incumbent(t, ref)
      BY <1>2 DEF Incumbent
    <2>1. CASE k = n + 1
      BY <1>1, <1>2, <1>3, <2>0, <2>1 DEF e, i0
    <2>2. CASE k \in 1 .. n
      <3>1. t[Incumbent(t, incoming[k].ref)].mod >= incoming[k].mod /\ Pinned(t, incoming[k].ref)
        BY <2>2 DEF Merging, NewestWins, AllPinned, t
      <3>2. Incumbent(t, incoming[k].ref) \in DOMAIN t
        BY <1>0, <3>1, IncumbentPins
      <3>3. incoming[k].mod \in Nat
        BY <1>0, <2>2
      <3> QED
        BY <1>1, <1>2, <1>3, <2>0, <3>1, <3>2, <3>3
    <2> QED
      BY <1>0, <2>1, <2>2
  <1>9. InOrRejected(incoming, policy, n + 1, a)
    BY <1>1 DEF InOrRejected
  <1>10. RejectedForReason(tier, incoming, n + 1, a)
    <2> SUFFICES ASSUME NEW j \in DOMAIN acc.rejected
                 PROVE  \E k \in 1 .. (n + 1) :
                          /\ incoming[k].ref = acc.rejected[j].ref
                          /\ \/ \E i \in DOMAIN tier : tier[i].ref = incoming[k].ref
                             \/ \E m \in 1 .. (n + 1) : m # k /\ incoming[m].ref = incoming[k].ref
      BY <1>1 DEF RejectedForReason
    <2>1. PICK k \in 1 .. n :
            /\ incoming[k].ref = acc.rejected[j].ref
            /\ \/ \E i \in DOMAIN tier : tier[i].ref = incoming[k].ref
               \/ \E m \in 1 .. n : m # k /\ incoming[m].ref = incoming[k].ref
      BY DEF Merging, RejectedForReason
    <2> QED
      BY <1>0, <2>1
  <1> QED
    BY <1>4, <1>5, <1>6, <1>7, <1>8, <1>9, <1>10 DEF Merging

\* What a conflict policy makes of a tier and the entries that come in
\* (applyConflictPolicy), for lists of any length.
LEMMA PolicyApplied ==
  ASSUME NEW E, NEW tier \in Seq(E), NEW incoming \in Seq(E), NEW policy \in Policies,
         \A e \in E : e.mod \in Nat
  PROVE  LET acc == ApplyConflictPolicy(tier, incoming, policy)
         IN  acc \in Accs(E) /\ Merging(tier, incoming, policy, Len(incoming), acc)
  <1> DEFINE N == Len(incoming)
             M == Merges(tier, incoming, policy)
             J == {n \in Nat : n <= N => Merging(tier, incoming, policy, n, M[n])}
  <1>1. /\ N \in Nat
        /\ \A n \in 0 .. N : M[n] \in Accs(E)
        /\ M[0] = MergeStart(tier)
        /\ \A n \in 1 .. N : M[n] = Admit(policy, M[n - 1], incoming[n])
    BY MergeSteps, LenProperties
  <1> HIDE DEF M
  <1>2. 0 \in J
    <2>1. M[0].merged = tier /\ M[0].rejected = <<>>
      BY <1>1 DEF MergeStart
    <2>2. \A i \in DOMAIN tier : tier[i].mod \in Nat
      BY ElementOfSeq, LenProperties
    <2>3. DOMAIN M[0].rejected = {} /\ 1 .. 0 = {}
      BY <2>1
    <2>4. PlacesKept(tier, M[0]) /\ NewcomersAlone(tier, incoming, 0, M[0])
      BY <2>1 DEF PlacesKept, NewcomersAlone
    <2>5. NoneOlder(tier, policy, M[0])
      BY <2>1, <2>2 DEF NoneOlder
    <2>6. AllPinned(incoming, 0, M[0]) /\ NewestWins(incoming, policy, 0, M[0])
      BY <2>3 DEF AllPinned, NewestWins
    <2>7. InOrRejected(incoming, policy, 0, M[0]) /\ RejectedForReason(tier, incoming, 0, M[0])
      BY <2>3 DEF InOrRejected, RejectedForReason
    <2> QED
      BY <2>4, <2>5, <2>6, <2>7 DEF Merging
  <1>3. ASSUME NEW n \in J PROVE n + 1 \in J
    <2> SUFFICES ASSUME n + 1 <= N PROVE Merging(tier, incoming, policy, n + 1, M[n + 1])
      OBVIOUS
    <2>1. n \in 0 .. N /\ n + 1 \in 1 .. N /\ (n + 1) - 1 = n /\ Merging(tier, incoming, policy, n, M[n])
      BY <1>1
    <2>2. M[n] \in Accs(E) /\ M[n + 1] = Admit(policy, M[n], incoming[n + 1])
      BY <1>1, <2>1
    <2>3. \/ Appended(M[n], incoming[n + 1], M[n + 1])
          \/ Overwritten(policy, M[n], incoming[n + 1], M[n + 1])
          \/ TurnedAway(policy, M[n], incoming[n + 1], M[n + 1])
          \/ Clashed(policy, M[n], incoming[n + 1], M[n + 1])
      BY <2>2, AdmitCases
    <2> HIDE DEF J
    <2>4. CASE Appended(M[n], incoming[n + 1], M[n + 1])
      BY <2>1, <2>2, <2>4, MergingAppends
    <2>5. CASE Overwritten(policy, M[n], incoming[n + 1], M[n + 1])
      BY <2>1, <2>2, <2>5, MergingOverwrites
    <2>6. CASE \/ TurnedAway(policy, M[n], incoming[n + 1], M[n + 1])
               \/ Clashed(policy, M[n], incoming[n + 1], M[n + 1])
      BY <2>1, <2>2, <2>6, MergingStays
    <2> QED
      BY <2>3, <2>4, <2>5, <2>6
  <1>4. N \in J
    <2> HIDE DEF J
    <2>1. J \in SUBSET Nat
      BY DEF J
    <2> QED
      BY <1>1, <1>2, <1>3, <2>1, SetInduction
  <1> QED
    BY <1>1, <1>4 DEF ApplyConflictPolicy, M

-----------------------------------------------------------------------------
(***************************************************************************)
(* Bodies, and what the operations make of them.                           *)
(***************************************************************************)
MemberEntries == [ref : Refs, mod : Nat]

WaitingEntries == [ref : Refs, mod : Nat, status : Statuses]

Bodies ==
  [members : Seq(MemberEntries), staged : Seq(WaitingEntries), candidates : Seq(WaitingEntries),
   config : Settings]

\* No two entries of a tier pin versions of one object.
OnePin(tier) == \A i, j \in DOMAIN tier : tier[i].ref = tier[j].ref => i = j

\* At most one entry of a tier pins the object.
OnePinOf(tier, ref) ==
  \A i, j \in DOMAIN tier : tier[i].ref = ref /\ tier[j].ref = ref => i = j

\* The entries of a list, and the objects they pin.
LEMMA RangeFacts ==
  ASSUME NEW t
  PROVE  /\ \A x : x \in Range(t) <=> \E i \in DOMAIN t : t[i] = x
         /\ \A ref : ref \in RefsOf(t) <=> Pinned(t, ref)
  <1>1. \A x : x \in Range(t) <=> \E i \in DOMAIN t : t[i] = x
    BY DEF Range
  <1>2. \A ref : ref \in RefsOf(t) <=> \E x \in Range(t) : x.ref = ref
    BY DEF RefsOf
  <1>3. \A ref : (\E x \in Range(t) : x.ref = ref) <=> \E i \in DOMAIN t : t[i].ref = ref
    BY <1>1
  <1> QED
    BY <1>1, <1>2, <1>3, PinsInTier

\* What filtering keeps (Kept).
LEMMA KeptFacts ==
  ASSUME NEW S, NEW tier \in Seq(S), NEW wanted
  PROVE  LET k == Kept(tier, wanted)
         IN  /\ k \in Seq(S)
             /\ \A x : x \in Range(k) <=> x \in Range(tier) /\ x \in wanted
             /\ OnePin(tier) => OnePin(k)
             /\ \A ref : OnePinOf(tier, ref) => OnePinOf(k, ref)
  <1> DEFINE k == Kept(tier, wanted)
             N == Len(tier)
  <1>1. k \in Seq(S) /\ \E h : Places(h, k, tier, wanted, N)
    BY KeptPlaces
  <1>2. PICK h : Places(h, k, tier, wanted, N)
    BY <1>1
  <1> HIDE DEF k
  <1>3. DOMAIN k = 1 .. Len(k) /\ DOMAIN tier = 1 .. N
    BY <1>1, LenProperties
  <1>4. /\ \A i \in DOMAIN k : h[i] \in DOMAIN tier /\ k[i] = tier[h[i]] /\ k[i] \in wanted
        /\ \A i, j \in DOMAIN k : h[i] = h[j] => i = j
        /\ \A m \in DOMAIN tier : tier[m] \in wanted => \E i \in DOMAIN k : h[i] = m
    <2> HIDE DEF N
    <2> QED
      BY <1>2, <1>3 DEF Places
  <1>5. \A x : x \in Range(k) <=> x \in Range(tier) /\ x \in wanted
    <2> TAKE x
    <2>1. ASSUME x \in Range(k) PROVE x \in Range(tier) /\ x \in wanted
      BY <1>4, <2>1, RangeFacts
    <2>2. ASSUME x \in Range(tier), x \in wanted PROVE x \in Range(k)
      <3>1. PICK m \in DOMAIN tier : tier[m] = x
        BY <2>2, RangeFacts
      <3>2. PICK i \in DOMAIN k : h[i] = m
        BY <1>4, <2>2, <3>1
      <3>3. k[i] = x
        BY <1>4, <3>1, <3>2
      <3> QED
        BY <3>3, RangeFacts
    <2> QED
      BY <2>1, <2>2
  <1>6. OnePin(tier) => OnePin(k)
    BY <1>4 DEF OnePin
  <1>7. \A ref : OnePinOf(tier, ref) => OnePinOf(k, ref)
    BY <1>4 DEF OnePinOf
  <1> QED
    BY <1>1, <1>5, <1>6, <1>7 DEF k

\* One list after the other.
LEMMA ConcatFacts ==
  ASSUME NEW S, NEW s \in Seq(S), NEW t \in Seq(S)
  PROVE  LET u == s \o t
         IN  /\ u \in Seq(S)
             /\ \A x : x \in Range(u) <=> x \in Range(s) \/ x \in Range(t)
             /\ \A ref : OnePinOf(s, ref) /\ ~Pinned(t, ref) => OnePinOf(u, ref)
             /\ \A ref : OnePinOf(t, ref) /\ ~Pinned(s, ref) => OnePinOf(u, ref)
  <1> DEFINE u == s \o t
             L == Len(s)
             M == Len(t)
  <1>1. /\ u \in Seq(S) /\ L \in Nat /\ M \in Nat /\ Len(u) = L + M
        /\ \A i \in 1 .. (L + M) : u[i] = IF i <= L THEN s[i] ELSE t[i - L]
    BY ConcatProperties, LenProperties
  <1>2. DOMAIN u = 1 .. (L + M) /\ DOMAIN s = 1 .. L /\ DOMAIN t = 1 .. M
    BY <1>1, LenProperties
  <1> HIDE DEF u, L, M
  <1>3. /\ \A i \in DOMAIN u : \/ i \in DOMAIN s /\ u[i] = s[i]
                               \/ i \notin DOMAIN s /\ i - L \in DOMAIN t /\ u[i] = t[i - L]
        /\ \A i \in DOMAIN s : i \in DOMAIN u /\ u[i] = s[i]
        /\ \A i \in DOMAIN t : i + L \in DOMAIN u /\ u[i + L] = t[i]
        /\ \A i, j \in DOMAIN u : i - L = j - L => i = j
    BY <1>1, <1>2
  <1>4. \A x : x \in Range(u) <=> x \in Range(s) \/ x \in Range(t)
    BY <1>3, RangeFacts
  <1>5. \A ref : OnePinOf(s, ref) /\ ~Pinned(t, ref) => OnePinOf(u, ref)
    BY <1>3, PinsInTier DEF OnePinOf
  <1>6. \A ref : OnePinOf(t, ref) /\ ~Pinned(s, ref) => OnePinOf(u, ref)
    BY <1>3, PinsInTier DEF OnePinOf
  <1> QED
    BY <1>1, <1>4, <1>5, <1>6 DEF u

\* What the types of a body say of its parts.
LEMMA SettingsFacts ==
  ASSUME NEW b \in Bodies
  PROVE  /\ b.config.candidatesToStaged \in Policies \ {"abort"}
         /\ b.config.stagedToMembers \in Policies
         /\ \A e \in WaitingEntries : e.mod \in Nat
         /\ \A e \in MemberEntries : e.mod \in Nat
         /\ b.members \in Seq(MemberEntries)
         /\ b.staged \in Seq(WaitingEntries) /\ b.candidates \in Seq(WaitingEntries)
  BY DEF Bodies, Settings, WaitingEntries, MemberEntries

\* The object waits in at most one entry, staged or candidate.
OneWaits(b, ref) ==
  /\ OnePinOf(b.staged, ref) /\ OnePinOf(b.candidates, ref)
  /\ ~(Pinned(b.staged, ref) /\ Pinned(b.candidates, ref))

\* Each version that waits in b is matched in c by one of the object at least as new.
NewestKept(b, c) ==
  \A ref : \A m \in WaitingMods(b, ref) : \E n \in WaitingMods(c, ref) : n >= m

\* The versions that wait are those of the entries of staged and candidates.
LEMMA WaitingFacts ==
  ASSUME NEW b
  PROVE  /\ \A ref, m : m \in WaitingMods(b, ref) <=>
                          \E x \in Range(b.staged) \cup Range(b.candidates) : x.ref = ref /\ x.mod = m
         /\ \A ref : WaitingMods(b, ref) # {} <=> Pinned(b.staged, ref) \/ Pinned(b.candidates, ref)
  <1>1. \A ref, m : m \in WaitingMods(b, ref) <=>
          \/ \E i \in DOMAIN b.staged : b.staged[i].ref = ref /\ b.staged[i].mod = m
          \/ \E i \in DOMAIN b.candidates : b.candidates[i].ref = ref /\ b.candidates[i].mod = m
    BY DEF WaitingMods, PinsOf
  <1>2. \A ref, m : m \in WaitingMods(b, ref) <=>
          \E x \in Range(b.staged) \cup Range(b.candidates) : x.ref = ref /\ x.mod = m
    BY <1>1, RangeFacts
  <1>3. \A ref : WaitingMods(b, ref) # {} <=> Pinned(b.staged, ref) \/ Pinned(b.candidates, ref)
    BY DEF WaitingMods, Pinned
  <1> QED
    BY <1>2, <1>3

\* Promotion (PromoteRefs) in terms of the merge and of what it turned away.
LEMMA PromotionFacts ==
  ASSUME NEW b \in Bodies, NEW refs
  PROVE  LET c   == PromoteRefs(b, refs)
             acc == Promotion(b, refs)
             in  == WithRefs(b.candidates, refs)
         IN  /\ c \in Bodies /\ c.members = b.members /\ c.config = b.config
             /\ in \in Seq(WaitingEntries)
             /\ \A x : x \in Range(in) <=> x \in Range(b.candidates) /\ x.ref \in refs
             /\ \A ref : OnePinOf(b.candidates, ref) => OnePinOf(in, ref)
             /\ acc \in Accs(WaitingEntries) /\ c.staged = acc.merged
             /\ Merging(b.staged, in, b.config.candidatesToStaged, Len(in), acc)
             /\ \A x : x \in Range(c.candidates) <=>
                         /\ x \in Range(b.candidates)
                         /\ x.ref \in refs => Pinned(acc.rejected, x.ref)
             /\ \A ref : OnePinOf(b.candidates, ref) => OnePinOf(c.candidates, ref)
  <1> DEFINE c   == PromoteRefs(b, refs)
             acc == Promotion(b, refs)
             in  == WithRefs(b.candidates, refs)
             out == WithoutRefs(b.candidates, refs)
             back == WithRefs(b.candidates, refs \cap RefsOf(acc.rejected))
  <1>0. b.candidates \in Seq(WaitingEntries) /\ b.staged \in Seq(WaitingEntries)
    BY SettingsFacts
  <1>1. /\ in \in Seq(WaitingEntries)
        /\ \A x : x \in Range(in) <=> x \in Range(b.candidates) /\ x.ref \in refs
        /\ \A ref : OnePinOf(b.candidates, ref) => OnePinOf(in, ref)
    BY <1>0, KeptFacts DEF WithRefs
  <1>2. /\ out \in Seq(WaitingEntries)
        /\ \A x : x \in Range(out) <=> x \in Range(b.candidates) /\ x.ref \notin refs
        /\ \A ref : OnePinOf(b.candidates, ref) => OnePinOf(out, ref)
    BY <1>0, KeptFacts DEF WithoutRefs
  <1>3. /\ back \in Seq(WaitingEntries)
        /\ \A x : x \in Range(back) <=>
                    x \in Range(b.candidates) /\ x.ref \in refs /\ x.ref \in RefsOf(acc.rejected)
        /\ \A ref : OnePinOf(b.candidates, ref) => OnePinOf(back, ref)
    <2> HIDE DEF acc
    <2> QED
      BY <1>0, KeptFacts DEF WithRefs
  <1>4. acc = ApplyConflictPolicy(b.staged, in, b.config.candidatesToStaged)
    BY DEF Promotion
  <1>5. acc \in Accs(WaitingEntries) /\ Merging(b.staged, in, b.config.candidatesToStaged, Len(in), acc)
    <2> HIDE DEF acc, in
    <2> QED
      BY <1>0, <1>1, <1>4, PolicyApplied, SettingsFacts
  <1>6. c = [b EXCEPT !.staged = acc.merged, !.candidates = out \o back]
    BY DEF PromoteRefs
  <1> HIDE DEF c, acc, in, out, back
  <1>7. /\ out \o back \in Seq(WaitingEntries)
        /\ \A x : x \in Range(out \o back) <=> x \in Range(out) \/ x \in Range(back)
        /\ \A ref : OnePinOf(out, ref) /\ ~Pinned(back, ref) => OnePinOf(out \o back, ref)
        /\ \A ref : OnePinOf(back, ref) /\ ~Pinned(out, ref) => OnePinOf(out \o back, ref)
    BY <1>2, <1>3, ConcatFacts
  <1>8. /\ c \in Bodies /\ c.members = b.members /\ c.config = b.config
        /\ c.staged = acc.merged /\ c.candidates = out \o back
    BY <1>5, <1>6, <1>7 DEF Bodies, Accs
  <1>9. \A x : x \in Range(c.candidates) <=>
                 /\ x \in Range(b.candidates)
                 /\ x.ref \in refs => Pinned(acc.rejected, x.ref)
    BY <1>2, <1>3, <1>7, <1>8, RangeFacts
  <1>10. \A ref : OnePinOf(b.candidates, ref) => OnePinOf(c.candidates, ref)
    <2> TAKE ref
    <2>1. CASE ref \in refs
      <3>1. ~Pinned(out, ref)
        BY <1>2, <2>1, PinsInTier, RangeFacts
      <3> QED
        BY <1>3, <1>7, <1>8, <3>1
    <2>2. CASE ref \notin refs
      <3>1. ~Pinned(back, ref)
        BY <1>3, <2>2, PinsInTier, RangeFacts
      <3> QED
        BY <1>2, <1>7, <1>8, <3>1
    <2> QED
      BY <2>1, <2>2
  <1> QED
    BY <1>1, <1>5, <1>8, <1>9, <1>10 DEF c, acc, in

\* A merge into a tier with one pin per object leaves it so.
LEMMA MergedOnePin ==
  ASSUME NEW tier, NEW incoming, NEW policy, NEW n, NEW acc, Merging(tier, incoming, policy, n, acc)
  PROVE  /\ OnePin(tier) => OnePin(acc.merged)
         /\ \A ref : Pinned(tier, ref) => Pinned(acc.merged, ref)
         /\ \A ref : OnePinOf(tier, ref) => OnePinOf(acc.merged, ref)
         /\ \A ref : ~Pinned(tier, ref) /\ (\A k \in 1 .. n : incoming[k].ref # ref)
                       => ~Pinned(acc.merged, ref)
  <1>1. /\ \A i \in DOMAIN tier : i \in DOMAIN acc.merged /\ acc.merged[i].ref = tier[i].ref
        /\ \A j \in DOMAIN acc.merged \ DOMAIN tier :
             /\ \A i \in DOMAIN acc.merged : acc.merged[i].ref = acc.merged[j].ref => i = j
             /\ \E k \in 1 .. n : incoming[k].ref = acc.merged[j].ref
    BY DEF Merging, PlacesKept, NewcomersAlone
  <1>2. OnePin(tier) => OnePin(acc.merged)
    BY <1>1 DEF OnePin
  <1>3. \A ref : OnePinOf(tier, ref) => OnePinOf(acc.merged, ref)
    BY <1>1 DEF OnePinOf
  <1>4. \A ref : Pinned(tier, ref) => Pinned(acc.merged, ref)
    BY <1>1, PinsInTier
  <1>5. \A ref : ~Pinned(tier, ref) /\ (\A k \in 1 .. n : incoming[k].ref # ref)
                       => ~Pinned(acc.merged, ref)
    BY <1>1, PinsInTier
  <1> QED
    BY <1>2, <1>3, <1>4, <1>5

\* No promotion loses the newest version that waits, unless the policy overwrites.
LEMMA PromotionKeepsNewest ==
  ASSUME NEW b \in Bodies, NEW refs, b.config.candidatesToStaged # "always_overwrite"
  PROVE  NewestKept(b, PromoteRefs(b, refs))
  <1> DEFINE c   == PromoteRefs(b, refs)
             acc == Promotion(b, refs)
             in  == WithRefs(b.candidates, refs)
             policy == b.config.candidatesToStaged
             N == Len(in)
  <1>1. /\ in \in Seq(WaitingEntries) /\ acc \in Accs(WaitingEntries) /\ c.staged = acc.merged
        /\ Merging(b.staged, in, policy, N, acc)
        /\ \A x : x \in Range(in) <=> x \in Range(b.candidates) /\ x.ref \in refs
        /\ \A x : x \in Range(c.candidates) <=>
                    /\ x \in Range(b.candidates)
                    /\ x.ref \in refs => Pinned(acc.rejected, x.ref)
    BY PromotionFacts
  <1>2. policy \in {"always_reject", "prefer_latest"}
    BY SettingsFacts DEF Policies
  <1>3. DOMAIN in = 1 .. N
    BY <1>1, LenProperties
  <1>4. \A x \in Range(b.staged) \cup Range(b.candidates) : x.mod \in Nat
    BY SettingsFacts, RangeFacts, ElementOfSeq, LenProperties
  <1> HIDE DEF c, acc, in, policy, N
  <1>5. ASSUME NEW x \in Range(b.staged)
        PROVE  \E y \in Range(c.staged) \cup Range(c.candidates) : y.ref = x.ref /\ y.mod >= x.mod
    <2>1. PICK i \in DOMAIN b.staged : b.staged[i] = x
      BY RangeFacts
    <2>2. i \in DOMAIN acc.merged /\ acc.merged[i].ref = x.ref /\ acc.merged[i].mod >= x.mod
      BY <1>1, <1>2, <2>1 DEF Merging, PlacesKept, NoneOlder
    <2> QED
      BY <1>1, <2>2, RangeFacts
  <1>6. ASSUME NEW x \in Range(b.candidates)
        PROVE  \E y \in Range(c.staged) \cup Range(c.candidates) : y.ref = x.ref /\ y.mod >= x.mod
    <2>1. CASE x.ref \notin refs
      <3>1. x \in Range(c.candidates) /\ x.mod >= x.mod
        BY <1>1, <1>4, <2>1
      <3> QED
        BY <3>1
    <2>2. CASE x.ref \in refs
      <3>1. PICK k \in 1 .. N : in[k] = x
        BY <1>1, <1>3, <2>2, RangeFacts
      <3>2. CASE policy = "prefer_latest"
        <4>1. Pinned(acc.merged, x.ref) /\ acc.merged[Incumbent(acc.merged, x.ref)].mod >= x.mod
          BY <1>1, <3>1, <3>2 DEF Merging, AllPinned, NewestWins
        <4>2. acc.merged \in Seq(WaitingEntries)
          BY <1>1 DEF Accs
        <4>3. /\ Incumbent(acc.merged, x.ref) \in DOMAIN acc.merged
              /\ acc.merged[Incumbent(acc.merged, x.ref)].ref = x.ref
          BY <4>1, <4>2, IncumbentPins
        <4> QED
          BY <1>1, <4>1, <4>3, RangeFacts
      <3>3. CASE policy = "always_reject"
        <4>1. \/ \E i \in DOMAIN acc.merged : acc.merged[i] = x
              \/ \E j \in DOMAIN acc.rejected : acc.rejected[j].ref = x.ref
          BY <1>1, <3>1, <3>3 DEF Merging, InOrRejected
        <4>2. x \in Range(c.staged) \/ x \in Range(c.candidates)
          BY <1>1, <4>1, RangeFacts, PinsInTier
        <4>3. x.mod >= x.mod
          BY <1>4
        <4> QED
          BY <4>2, <4>3
      <3> QED
        BY <1>2, <3>2, <3>3
    <2> QED
      BY <2>1, <2>2
  <1>7. ASSUME NEW ref, NEW m \in WaitingMods(b, ref)
        PROVE  \E n \in WaitingMods(c, ref) : n >= m
    <2>1. PICK x \in Range(b.staged) \cup Range(b.candidates) : x.ref = ref /\ x.mod = m
      BY WaitingFacts
    <2>2. PICK y \in Range(c.staged) \cup Range(c.candidates) : y.ref = x.ref /\ y.mod >= x.mod
      BY <1>5, <1>6
    <2>3. y.mod \in WaitingMods(c, ref)
      BY <2>1, <2>2, WaitingFacts
    <2> QED
      BY <2>1, <2>2, <2>3
  <1> QED
    BY <1>7 DEF NewestKept, c

\* After a promotion what is still a candidate of the objects promoted was turned away
\* by what staged holds.
LEMMA PromotionSettles ==
  ASSUME NEW b \in Bodies, NEW refs, NEW x \in Range(PromoteRefs(b, refs).candidates), x.ref \in refs
  PROVE  LET c == PromoteRefs(b, refs)
         IN  /\ Pinned(c.staged, x.ref)
             /\ b.config.candidatesToStaged = "prefer_latest"
                  => c.staged[Incumbent(c.staged, x.ref)].mod >= x.mod
  <1> DEFINE c   == PromoteRefs(b, refs)
             acc == Promotion(b, refs)
             in  == WithRefs(b.candidates, refs)
             policy == b.config.candidatesToStaged
             N == Len(in)
  <1>1. /\ in \in Seq(WaitingEntries) /\ c.staged = acc.merged
        /\ Merging(b.staged, in, policy, N, acc)
        /\ \A y : y \in Range(in) <=> y \in Range(b.candidates) /\ y.ref \in refs
        /\ \A y : y \in Range(c.candidates) <=>
                    /\ y \in Range(b.candidates)
                    /\ y.ref \in refs => Pinned(acc.rejected, y.ref)
    BY PromotionFacts
  <1>2. DOMAIN in = 1 .. N
    BY <1>1, LenProperties
  <1> HIDE DEF c, acc, in, policy, N
  <1>3. PICK k \in 1 .. N : in[k] = x
    BY <1>1, <1>2, RangeFacts DEF c
  <1> QED
    BY <1>1, <1>3 DEF Merging, AllPinned, NewestWins, c, policy

\* Objects that wait go on waiting, and one that waits once goes on waiting once.
LEMMA PromotionKeepsWaiting ==
  ASSUME NEW b \in Bodies, NEW refs, NEW ref
  PROVE  LET c == PromoteRefs(b, refs)
         IN  /\ WaitingMods(b, ref) # {} => WaitingMods(c, ref) # {}
             /\ OneWaits(b, ref) => OneWaits(c, ref)
  <1> DEFINE c   == PromoteRefs(b, refs)
             acc == Promotion(b, refs)
             in  == WithRefs(b.candidates, refs)
             policy == b.config.candidatesToStaged
             N == Len(in)
  <1>1. /\ in \in Seq(WaitingEntries) /\ c.staged = acc.merged
        /\ Merging(b.staged, in, policy, N, acc)
        /\ \A y : y \in Range(in) <=> y \in Range(b.candidates) /\ y.ref \in refs
        /\ \A y : y \in Range(c.candidates) <=>
                    /\ y \in Range(b.candidates)
                    /\ y.ref \in refs => Pinned(acc.rejected, y.ref)
        /\ OnePinOf(b.candidates, ref) => OnePinOf(in, ref) /\ OnePinOf(c.candidates, ref)
    BY PromotionFacts
  <1>2. DOMAIN in = 1 .. N
    BY <1>1, LenProperties
  <1> HIDE DEF c, acc, in, policy, N
  <1>3. /\ OnePinOf(b.staged, ref) => OnePinOf(c.staged, ref)
        /\ Pinned(b.staged, ref) => Pinned(c.staged, ref)
        /\ ~Pinned(b.staged, ref) /\ (\A k \in 1 .. N : in[k].ref # ref) => ~Pinned(c.staged, ref)
    BY <1>1, MergedOnePin
  <1>4. \A k \in 1 .. N : Pinned(c.staged, in[k].ref)
    BY <1>1 DEF Merging, AllPinned
  <1>5. ASSUME Pinned(b.candidates, ref) PROVE Pinned(c.staged, ref) \/ Pinned(c.candidates, ref)
    <2>1. PICK x \in Range(b.candidates) : x.ref = ref
      BY <1>5, PinsInTier, RangeFacts
    <2>2. CASE ref \in refs
      <3>1. PICK k \in 1 .. N : in[k] = x
        BY <1>1, <1>2, <2>1, <2>2, RangeFacts
      <3> QED
        BY <1>4, <2>1, <3>1
    <2>3. CASE ref \notin refs
      <3>1. x \in Range(c.candidates)
        BY <1>1, <2>1, <2>3
      <3> QED
        BY <2>1, <3>1, PinsInTier, RangeFacts
    <2> QED
      BY <2>2, <2>3
  <1>6. WaitingMods(b, ref) # {} => WaitingMods(c, ref) # {}
    BY <1>3, <1>5, WaitingFacts
  <1>7. ASSUME OneWaits(b, ref) PROVE ~(Pinned(c.staged, ref) /\ Pinned(c.candidates, ref))
    <2> SUFFICES ASSUME Pinned(c.staged, ref), Pinned(c.candidates, ref) PROVE FALSE
      OBVIOUS
    <2>1. PICK x \in Range(c.candidates) : x.ref = ref
      BY PinsInTier, RangeFacts
    <2>2. x \in Range(b.candidates) /\ (ref \in refs => Pinned(acc.rejected, ref))
      BY <1>1, <2>1
    <2>3. Pinned(b.candidates, ref) /\ ~Pinned(b.staged, ref) /\ OnePinOf(in, ref)
      BY <1>1, <1>7, <2>1, <2>2, PinsInTier, RangeFacts DEF OneWaits
    <2>4. PICK k \in 1 .. N : in[k].ref = ref
      BY <1>3, <2>3
    <2>5. ref \in refs
      BY <1>1, <1>2, <2>4, RangeFacts
    <2>6. PICK j \in DOMAIN acc.rejected : acc.rejected[j].ref = ref
      BY <2>2, <2>5, PinsInTier
    <2>7. PICK l \in 1 .. N :
            /\ in[l].ref = ref
            /\ \/ \E i \in DOMAIN b.staged : b.staged[i].ref = in[l].ref
               \/ \E m \in 1 .. N : m # l /\ in[m].ref = in[l].ref
      BY <1>1, <2>6 DEF Merging, RejectedForReason
    <2>8. ~\E i \in DOMAIN b.staged : b.staged[i].ref = ref
      BY <2>3, PinsInTier
    <2> QED
      BY <1>2, <2>3, <2>7, <2>8 DEF OnePinOf
  <1> QED
    BY <1>1, <1>3, <1>6, <1>7 DEF OneWaits, c

\* What two changes keep one after the other, they keep together.
LEMMA NewestKeptTwice ==
  ASSUME NEW b, NEW c, NEW d, b \in Bodies, c \in Bodies, d \in Bodies,
         NewestKept(b, c), NewestKept(c, d)
  PROVE  NewestKept(b, d)
  <1>1. \A x \in Bodies : \A ref : WaitingMods(x, ref) \subseteq Nat
    <2> SUFFICES ASSUME NEW x \in Bodies, NEW ref, NEW m \in WaitingMods(x, ref) PROVE m \in Nat
      OBVIOUS
    <2>1. PICK y \in Range(x.staged) \cup Range(x.candidates) : y.mod = m
      BY WaitingFacts
    <2> QED
      BY <2>1, SettingsFacts, RangeFacts, ElementOfSeq, LenProperties
  <1> SUFFICES ASSUME NEW ref, NEW m \in WaitingMods(b, ref)
               PROVE  \E n \in WaitingMods(d, ref) : n >= m
    BY DEF NewestKept
  <1>2. PICK l \in WaitingMods(c, ref) : l >= m
    BY DEF NewestKept
  <1>3. PICK n \in WaitingMods(d, ref) : n >= l
    BY DEF NewestKept
  <1>4. m \in Nat /\ l \in Nat /\ n \in Nat
    BY <1>1
  <1> QED
    BY <1>2, <1>3, <1>4

\* What is still a candidate although auto-promotion should have taken it: staged holds
\* the object, under prefer_latest in a version at least as new.
Settled(c) ==
  \A x \in Range(c.candidates) :
    StatusRank[x.status] >= StatusRank[c.config.threshold] =>
      /\ Pinned(c.staged, x.ref)
      /\ c.config.candidatesToStaged = "prefer_latest"
           => c.staged[Incumbent(c.staged, x.ref)].mod >= x.mod

\* What auto-promotion (evaluateAutoPromotion) does to the clone that was saved.
LEMMA AutoPromotionFacts ==
  ASSUME NEW b \in Bodies
  PROVE  LET c == AutoPromotion(b)
         IN  /\ c \in Bodies /\ c.members = b.members /\ c.config = b.config
             /\ OnePin(b.staged) => OnePin(c.staged)
             /\ b.config.candidatesToStaged # "always_overwrite" => NewestKept(b, c)
             /\ \A ref : WaitingMods(b, ref) # {} => WaitingMods(c, ref) # {}
             /\ \A ref : OneWaits(b, ref) => OneWaits(c, ref)
             /\ c.config.autoPromote => Settled(c)
  <1> DEFINE c == AutoPromotion(b)
             q == QualifyingRefs(b)
             p == PromoteRefs(b, q)
  <1>1. \A x : x \in Range(b.candidates) /\ StatusRank[x.status] >= StatusRank[b.config.threshold]
                 => x.ref \in q
    BY DEF QualifyingRefs, MeetsThreshold
  <1>2. ASSUME AutoPromotes(b)
        PROVE  /\ c \in Bodies /\ c.members = b.members /\ c.config = b.config
               /\ OnePin(b.staged) => OnePin(c.staged)
               /\ b.config.candidatesToStaged # "always_overwrite" => NewestKept(b, c)
               /\ \A ref : WaitingMods(b, ref) # {} => WaitingMods(c, ref) # {}
               /\ \A ref : OneWaits(b, ref) => OneWaits(c, ref)
               /\ c.config.autoPromote => Settled(c)
    <2>1. c = p
      BY <1>2 DEF AutoPromotion
    <2> HIDE DEF q
    <2>2. p \in Bodies /\ p.members = b.members /\ p.config = b.config
      BY PromotionFacts
    <2>3. OnePin(b.staged) => OnePin(p.staged)
      <3> DEFINE acc == Promotion(b, q)
                 in == WithRefs(b.candidates, q)
      <3>1. p.staged = acc.merged /\ Merging(b.staged, in, b.config.candidatesToStaged, Len(in), acc)
        BY PromotionFacts
      <3> HIDE DEF acc, in, p
      <3> QED
        BY <3>1, MergedOnePin
    <2>4. b.config.candidatesToStaged # "always_overwrite" => NewestKept(b, p)
      BY PromotionKeepsNewest
    <2>5. \A ref : (WaitingMods(b, ref) # {} => WaitingMods(p, ref) # {}) /\ (OneWaits(b, ref) => OneWaits(p, ref))
      BY PromotionKeepsWaiting
    <2>6. Settled(p)
      <3> SUFFICES ASSUME NEW x \in Range(p.candidates),
                          StatusRank[x.status] >= StatusRank[p.config.threshold]
                   PROVE  /\ Pinned(p.staged, x.ref)
                          /\ p.config.candidatesToStaged = "prefer_latest"
                               => p.staged[Incumbent(p.staged, x.ref)].mod >= x.mod
        BY DEF Settled
      <3>1. x \in Range(b.candidates)
        BY PromotionFacts
      <3>2. x.ref \in q
        <4> HIDE DEF p
        <4> QED
          BY <1>1, <2>2, <3>1
      <3> QED
        BY <2>2, <3>2, PromotionSettles
    <2> HIDE DEF p, c
    <2> QED
      BY <2>1, <2>2, <2>3, <2>4, <2>5, <2>6
  <1>3. ASSUME ~AutoPromotes(b)
        PROVE  c = b /\ NewestKept(b, b) /\ (b.config.autoPromote => Settled(b))
    <2>1. c = b
      BY <1>3 DEF AutoPromotion
    <2>2. b.config.autoPromote => Settled(b)
      BY <1>1, <1>3 DEF AutoPromotes, Settled
    <2>3. \A ref : \A m \in WaitingMods(b, ref) : m >= m
      <3> SUFFICES ASSUME NEW ref, NEW m \in WaitingMods(b, ref) PROVE m \in Nat
        OBVIOUS
      <3>1. PICK y \in Range(b.staged) \cup Range(b.candidates) : y.mod = m
        BY WaitingFacts
      <3> QED
        BY <3>1, SettingsFacts, RangeFacts, ElementOfSeq, LenProperties
    <2>4. NewestKept(b, b)
      BY <2>3 DEF NewestKept
    <2> QED
      BY <2>1, <2>2, <2>4
  <1> HIDE DEF c, p, q
  <1> QED
    BY <1>2, <1>3 DEF c

\* A list with an entry of T for each entry of another (MapEntries).
LEMMA MappedSeq ==
  ASSUME NEW S, NEW T, NEW t \in Seq(S), NEW u, u = [i \in DOMAIN t |-> u[i]],
         \A i \in DOMAIN t : u[i] \in T
  PROVE  u \in Seq(T) /\ DOMAIN u = DOMAIN t /\ Len(u) = Len(t)
  <1>1. Len(t) \in Nat /\ DOMAIN t = 1 .. Len(t)
    BY LenProperties
  <1>2. u \in [1 .. Len(t) -> T]
    BY <1>1
  <1>3. u \in Seq(T)
    BY <1>1, <1>2, SeqDef
  <1>4. Len(u) \in Nat /\ DOMAIN u = 1 .. Len(u) /\ DOMAIN u = 1 .. Len(t)
    BY <1>1, <1>2, <1>3, LenProperties
  <1>5. Len(u) = Len(t)
    BY <1>1, <1>4
  <1> QED
    BY <1>1, <1>3, <1>4, <1>5

\* The lists of versions that requests carry.
LEMMA PinListTypes ==
  ASSUME NEW pins \in PinLists
  PROVE  pins \in Seq(MemberEntries)
  <1>1. Versions \subseteq MemberEntries
    BY VersionsAssumption DEF MemberEntries, Refs
  <1>2. \A v \in MemberEntries : <<v>> \in Seq(MemberEntries)
    OBVIOUS
  <1>3. \A v, w \in MemberEntries : <<v, w>> \in Seq(MemberEntries)
    OBVIOUS
  <1>4. (\E v \in Versions : pins = <<v>>) \/ (\E v, w \in Versions : pins = <<v, w>>)
    BY DEF PinLists
  <1> HIDE DEF MemberEntries
  <1> QED
    BY <1>1, <1>2, <1>3, <1>4

\* Adding (addCandidates) leaves everything that was there.
LEMMA AddFacts ==
  ASSUME NEW b \in Bodies, NEW pins \in PinLists
  PROVE  LET c == AddCandidates(b, pins)
         IN  /\ c \in Bodies /\ c.members = b.members /\ c.config = b.config /\ c.staged = b.staged
             /\ NewestKept(b, c)
  <1> DEFINE c == AddCandidates(b, pins)
             fresh == Kept(pins, {p \in Range(pins) : ~HasVersion(b.candidates, p)})
             new == [i \in DOMAIN fresh |-> Candidate(fresh[i].ref, fresh[i].mod, "wip")]
  <1>1. fresh \in Seq(MemberEntries)
    BY PinListTypes, KeptFacts
  <1>2. c = [b EXCEPT !.candidates = @ \o new]
    BY DEF AddCandidates
  <1> HIDE DEF fresh
  <1>3. new \in Seq(WaitingEntries)
    <2>1. \A i \in DOMAIN fresh : fresh[i] \in MemberEntries
      BY <1>1, LenProperties, ElementOfSeq
    <2>2. \A i \in DOMAIN fresh : new[i] \in WaitingEntries
      BY <2>1 DEF MemberEntries, WaitingEntries, Candidate, Statuses
    <2>3. new = [i \in DOMAIN fresh |-> new[i]]
      OBVIOUS
    <2> HIDE DEF new
    <2> QED
      BY <1>1, <2>2, <2>3, MappedSeq
  <1> HIDE DEF new, c
  <1>4. /\ b.candidates \o new \in Seq(WaitingEntries)
        /\ \A x : x \in Range(b.candidates) => x \in Range(b.candidates \o new)
    BY <1>3, ConcatFacts, SettingsFacts
  <1>5. /\ c \in Bodies /\ c.members = b.members /\ c.config = b.config /\ c.staged = b.staged
        /\ c.candidates = b.candidates \o new
    BY <1>2, <1>4 DEF Bodies
  <1>6. NewestKept(b, c)
    <2> SUFFICES ASSUME NEW ref, NEW m \in WaitingMods(b, ref)
                 PROVE  \E n \in WaitingMods(c, ref) : n >= m
      BY DEF NewestKept
    <2>1. PICK y \in Range(b.staged) \cup Range(b.candidates) : y.ref = ref /\ y.mod = m
      BY WaitingFacts
    <2>2. y.mod \in WaitingMods(c, ref)
      BY <1>4, <1>5, <2>1, WaitingFacts
    <2>3. y.mod >= m
      BY <2>1, SettingsFacts, RangeFacts, ElementOfSeq, LenProperties
    <2> QED
      BY <2>2, <2>3
  <1> QED
    BY <1>5, <1>6 DEF c

\* Reviewing (reviewCandidates) changes statuses only.
LEMMA ReviewFacts ==
  ASSUME NEW b \in Bodies, NEW from, NEW to \in Statuses, NEW refs
  PROVE  LET c == ReviewCandidates(b, from, to, refs)
         IN  /\ c \in Bodies /\ c.members = b.members /\ c.config = b.config /\ c.staged = b.staged
             /\ \A ref : WaitingMods(c, ref) = WaitingMods(b, ref)
  <1> DEFINE c == ReviewCandidates(b, from, to, refs)
             old == b.candidates
             OneTurn(x) == IF x.status = from /\ x.ref \in refs THEN [x EXCEPT !.status = to] ELSE x
             new == [i \in DOMAIN old |-> OneTurn(old[i])]
  <1>1. c = [b EXCEPT !.candidates = new]
    BY DEF ReviewCandidates, MapEntries
  <1>2. \A i \in DOMAIN old : old[i] \in WaitingEntries
    BY SettingsFacts, LenProperties, ElementOfSeq
  <1>3. \A x \in WaitingEntries : OneTurn(x) \in WaitingEntries /\ OneTurn(x).ref = x.ref /\ OneTurn(x).mod = x.mod
    BY DEF WaitingEntries
  <1> HIDE DEF OneTurn, c, old
  <1>4. /\ \A i \in DOMAIN old : new[i] \in WaitingEntries /\ new[i].ref = old[i].ref /\ new[i].mod = old[i].mod
        /\ new = [i \in DOMAIN old |-> new[i]] /\ DOMAIN new = DOMAIN old
    BY <1>2, <1>3
  <1> HIDE DEF new
  <1>5. new \in Seq(WaitingEntries)
    BY <1>4, MappedSeq, SettingsFacts DEF old
  <1>6. /\ c \in Bodies /\ c.members = b.members /\ c.config = b.config /\ c.staged = b.staged
        /\ c.candidates = new
    BY <1>1, <1>5 DEF Bodies
  <1>7. ASSUME NEW ref PROVE WaitingMods(c, ref) = WaitingMods(b, ref)
    <2>1. PinsOf(new, ref) = PinsOf(old, ref)
      BY <1>4 DEF PinsOf
    <2>2. {new[i].mod : i \in PinsOf(new, ref)} = {old[i].mod : i \in PinsOf(old, ref)}
      <3>1. PinsOf(old, ref) \subseteq DOMAIN old
        BY DEF PinsOf
      <3> QED
        BY <1>4, <2>1, <3>1
    <2> QED
      BY <1>6, <2>2 DEF WaitingMods, old
  <1> QED
    BY <1>6, <1>7 DEF c

\* Demoting (demoteStaged) moves entries from staged to candidates.
LEMMA DemoteFacts ==
  ASSUME NEW b \in Bodies, NEW pins
  PROVE  LET c == DemoteStaged(b, pins)
         IN  /\ c \in Bodies /\ c.members = b.members /\ c.config = b.config
             /\ OnePin(b.staged) => OnePin(c.staged)
             /\ \A ref : WaitingMods(c, ref) = WaitingMods(b, ref)
  <1> DEFINE c == DemoteStaged(b, pins)
             out == Demoted(b, pins)
             left == Kept(b.staged, {s \in Range(b.staged) : ~\E p \in pins : SameVersion(s, p)})
  <1>1. /\ out \in Seq(WaitingEntries)
        /\ \A x : x \in Range(out) <=> x \in Range(b.staged) /\ \E p \in pins : SameVersion(x, p)
    BY KeptFacts, SettingsFacts DEF Demoted
  <1>2. /\ left \in Seq(WaitingEntries)
        /\ \A x : x \in Range(left) <=> x \in Range(b.staged) /\ ~\E p \in pins : SameVersion(x, p)
        /\ OnePin(b.staged) => OnePin(left)
    BY KeptFacts, SettingsFacts
  <1>3. c = [b EXCEPT !.staged = left, !.candidates = @ \o out]
    BY DEF DemoteStaged
  <1> HIDE DEF out, left, c
  <1>4. /\ b.candidates \o out \in Seq(WaitingEntries)
        /\ \A x : x \in Range(b.candidates \o out) <=> x \in Range(b.candidates) \/ x \in Range(out)
    BY <1>1, ConcatFacts, SettingsFacts
  <1>5. /\ c \in Bodies /\ c.members = b.members /\ c.config = b.config
        /\ c.staged = left /\ c.candidates = b.candidates \o out
    BY <1>2, <1>3, <1>4 DEF Bodies
  <1>6. \A x : x \in Range(c.staged) \cup Range(c.candidates) <=> x \in Range(b.staged) \cup Range(b.candidates)
    BY <1>1, <1>2, <1>4, <1>5
  <1>7. \A ref : WaitingMods(c, ref) = WaitingMods(b, ref)
    <2> TAKE ref
    <2>1. \A m : m \in WaitingMods(c, ref) <=> m \in WaitingMods(b, ref)
      BY <1>6, WaitingFacts
    <2> QED
      BY <2>1
  <1> QED
    BY <1>2, <1>5, <1>7 DEF c

\* Withdrawing a candidate, moving a pin, replacing the members and configuring leave
\* staged alone.
LEMMA EditFacts ==
  ASSUME NEW b \in Bodies, NEW c,
         \/ \E ref : c = RemoveCandidate(b, ref)
         \/ \E ref, old : \E new \in Nat : c = UpdateVersion(b, ref, old, new)
         \/ \E members \in PinLists : c = UpdateContents(b, members)
         \/ \E d \in Configs : c = UpdateConfig(b, d)
  PROVE  c \in Bodies /\ c.staged = b.staged
  <1>1. ASSUME NEW ref, c = RemoveCandidate(b, ref) PROVE c \in Bodies /\ c.staged = b.staged
    <2> DEFINE k == WithoutRefs(b.candidates, {ref})
    <2>1. k \in Seq(WaitingEntries)
      BY KeptFacts, SettingsFacts DEF WithoutRefs
    <2>2. c = [b EXCEPT !.candidates = k]
      BY <1>1 DEF RemoveCandidate
    <2> HIDE DEF k
    <2> QED
      BY <2>1, <2>2 DEF Bodies
  <1>2. ASSUME NEW ref, NEW old, NEW new \in Nat, c = UpdateVersion(b, ref, old, new)
        PROVE  c \in Bodies /\ c.staged = b.staged
    <2> DEFINE t == b.candidates
               OneTurn(x) == IF x.ref = ref /\ x.mod = old THEN [x EXCEPT !.mod = new] ELSE x
               u == [i \in DOMAIN t |-> OneTurn(t[i])]
    <2>1. c = [b EXCEPT !.candidates = u]
      BY <1>2 DEF UpdateVersion, MapEntries
    <2>2. \A i \in DOMAIN t : t[i] \in WaitingEntries
      BY SettingsFacts, LenProperties, ElementOfSeq
    <2>3. \A x \in WaitingEntries : OneTurn(x) \in WaitingEntries
      BY DEF WaitingEntries
    <2> HIDE DEF OneTurn, t
    <2>4. u = [i \in DOMAIN t |-> u[i]] /\ \A i \in DOMAIN t : u[i] \in WaitingEntries
      BY <2>2, <2>3
    <2> HIDE DEF u
    <2>5. u \in Seq(WaitingEntries)
      BY <2>4, MappedSeq, SettingsFacts DEF t
    <2> QED
      BY <2>1, <2>5 DEF Bodies
  <1>3. ASSUME NEW members \in PinLists, c = UpdateContents(b, members)
        PROVE  c \in Bodies /\ c.staged = b.staged
    <2>1. members \in Seq(MemberEntries)
      BY PinListTypes
    <2> QED
      BY <1>3, <2>1 DEF UpdateContents, Bodies
  <1>4. ASSUME NEW d \in Configs, c = UpdateConfig(b, d)
        PROVE  c \in Bodies /\ c.staged = b.staged
    <2> DEFINE old == b.config
               s == [f \in DOMAIN old |-> IF f \in DOMAIN d THEN d[f] ELSE old[f]]
    <2>1. c = [b EXCEPT !.config = s]
      BY <1>4 DEF UpdateConfig
    <2>2. PICK full \in Settings : \A f \in DOMAIN d : f \in DOMAIN full /\ d[f] = full[f]
      BY ConfigsAssumption
    <2>3. s \in Settings
      <3>1. old \in Settings
        BY DEF Bodies
      <3>2. /\ DOMAIN old = {"threshold", "autoPromote", "candidatesToStaged", "stagedToMembers",
                             "strategy", "behavior", "statusPolicy"}
            /\ \A f \in DOMAIN old : s[f] = old[f] \/ s[f] = full[f]
        BY <2>2, <3>1 DEF Settings
      <3>3. s = [threshold |-> s.threshold, autoPromote |-> s.autoPromote,
                 candidatesToStaged |-> s.candidatesToStaged, stagedToMembers |-> s.stagedToMembers,
                 strategy |-> s.strategy, behavior |-> s.behavior, statusPolicy |-> s.statusPolicy]
        BY <3>2
      <3> HIDE DEF s, old
      <3> QED
        BY <2>2, <3>1, <3>2, <3>3 DEF Settings
    <2> HIDE DEF s
    <2> QED
      BY <2>1, <2>3 DEF Bodies
  <1> QED
    BY <1>1, <1>2, <1>3, <1>4

\* The release (_doBump): the members are merged with what was staged.
LEMMA ReleaseFacts ==
  ASSUME NEW b \in Bodies
  PROVE  LET c  == ReleaseBody(b)
             in == MapEntries(b.staged, MemberEntry)
             acc == ApplyConflictPolicy(b.members, in, b.config.stagedToMembers)
         IN  /\ c \in Bodies /\ OnePin(c.staged) /\ c.members = acc.merged
             /\ in \in Seq(MemberEntries) /\ DOMAIN in = DOMAIN b.staged
             /\ \A i \in DOMAIN in : in[i].ref = b.staged[i].ref
             /\ Merging(b.members, in, b.config.stagedToMembers, Len(in), acc)
  <1> DEFINE c  == ReleaseBody(b)
             t == b.staged
             in == MapEntries(t, MemberEntry)
             acc == ApplyConflictPolicy(b.members, in, b.config.stagedToMembers)
  <1>1. \A i \in DOMAIN t : t[i] \in WaitingEntries
    BY SettingsFacts, LenProperties, ElementOfSeq
  <1>2. \A x \in WaitingEntries : MemberEntry(x) \in MemberEntries /\ MemberEntry(x).ref = x.ref
    BY DEF WaitingEntries, MemberEntries, MemberEntry
  <1>3. in = [i \in DOMAIN t |-> MemberEntry(t[i])]
    BY DEF MapEntries
  <1>4. c = [b EXCEPT !.members = acc.merged, !.staged = <<>>]
    BY DEF ReleaseBody
  <1> HIDE DEF t, in, acc, c
  <1>5. /\ in = [i \in DOMAIN t |-> in[i]] /\ DOMAIN in = DOMAIN t
        /\ \A i \in DOMAIN t : in[i] \in MemberEntries /\ in[i].ref = t[i].ref
    BY <1>1, <1>2, <1>3
  <1>6. in \in Seq(MemberEntries)
    BY <1>5, MappedSeq, SettingsFacts DEF t
  <1>7. acc \in Accs(MemberEntries) /\ Merging(b.members, in, b.config.stagedToMembers, Len(in), acc)
    BY <1>6, PolicyApplied, SettingsFacts DEF acc
  <1>8. c \in Bodies /\ c.members = acc.merged /\ c.staged = <<>>
    <2> DEFINE m == acc.merged
               none == <<>>
    <2>1. m \in Seq(MemberEntries)
      BY <1>7 DEF Accs
    <2>2. none \in Seq(WaitingEntries)
      OBVIOUS
    <2>3. c = [b EXCEPT !.members = m, !.staged = none]
      BY <1>4
    <2> HIDE DEF m, none
    <2>4. c \in Bodies /\ c.members = m /\ c.staged = none
      BY <2>1, <2>2, <2>3 DEF Bodies
    <2> QED
      BY <2>4 DEF m, none
  <1>9. OnePin(<<>>)
    BY DEF OnePin
  <1> QED
    BY <1>5, <1>6, <1>7, <1>8, <1>9 DEF c, in, acc, t

\* A tier without the version its first pin of an object pins (WithoutVersion).
LEMMA VersionTakenOut ==
  ASSUME NEW tier \in Seq(WaitingEntries), NEW ref, Pinned(tier, ref)
  PROVE  LET k == WithoutVersion(tier, tier[Incumbent(tier, ref)])
         IN  /\ k \in Seq(WaitingEntries)
             /\ OnePin(tier) => OnePin(k)
             /\ \A r : OnePinOf(tier, r) => OnePinOf(k, r)
             /\ \A r : Pinned(k, r) => Pinned(tier, r)
             /\ OnePinOf(tier, ref) => ~Pinned(k, ref)
  <1> DEFINE i0 == Incumbent(tier, ref)
             k == WithoutVersion(tier, tier[i0])
  <1>1. i0 \in DOMAIN tier /\ tier[i0].ref = ref
    BY IncumbentPins
  <1>2. /\ k \in Seq(WaitingEntries)
        /\ \A x : x \in Range(k) <=> x \in Range(tier) /\ ~SameVersion(x, tier[i0])
        /\ OnePin(tier) => OnePin(k)
        /\ \A r : OnePinOf(tier, r) => OnePinOf(k, r)
    <2> HIDE DEF i0
    <2> DEFINE w == {x \in Range(tier) : ~SameVersion(x, tier[i0])}
    <2>1. k = Kept(tier, w) /\ \A x : x \in w <=> x \in Range(tier) /\ ~SameVersion(x, tier[i0])
      BY DEF WithoutVersion
    <2> HIDE DEF k, w
    <2> QED
      BY <2>1, KeptFacts
  <1> HIDE DEF k, i0
  <1>3. \A r : Pinned(k, r) => Pinned(tier, r)
    <2> SUFFICES ASSUME NEW r, Pinned(k, r) PROVE Pinned(tier, r)
      OBVIOUS
    <2>1. PICK x \in Range(k) : x.ref = r
      BY PinsInTier, RangeFacts
    <2>2. x \in Range(tier)
      BY <1>2
    <2> QED
      BY <2>1, <2>2, PinsInTier, RangeFacts
  <1>4. ASSUME OnePinOf(tier, ref), Pinned(k, ref) PROVE FALSE
    <2>1. PICK x \in Range(k) : x.ref = ref
      BY <1>4, PinsInTier, RangeFacts
    <2>2. PICK i \in DOMAIN tier : tier[i] = x
      BY <1>2, <2>1, RangeFacts
    <2>3. i = i0
      BY <1>1, <1>4, <2>1, <2>2 DEF OnePinOf
    <2> QED
      BY <1>2, <2>1, <2>2, <2>3 DEF SameVersion
  <1> QED
    BY <1>2, <1>3, <1>4 DEF k, i0

\* One more entry at the end of a tier.
LEMMA EntryAdded ==
  ASSUME NEW tier \in Seq(WaitingEntries), NEW e \in WaitingEntries
  PROVE  LET t == Append(tier, e)
         IN  /\ t \in Seq(WaitingEntries)
             /\ \A x : x \in Range(t) <=> x \in Range(tier) \/ x = e
             /\ OnePin(tier) /\ ~Pinned(tier, e.ref) => OnePin(t)
             /\ ~Pinned(tier, e.ref) => OnePinOf(t, e.ref)
             /\ \A r : r # e.ref => (Pinned(t, r) <=> Pinned(tier, r))
             /\ \A r : r # e.ref /\ OnePinOf(tier, r) => OnePinOf(t, r)
             /\ Pinned(t, e.ref)
  <1> DEFINE t == Append(tier, e)
             n == Len(tier) + 1
  <1>1. /\ \A i \in DOMAIN tier : i \in DOMAIN t /\ t[i] = tier[i]
        /\ n \in DOMAIN t /\ n \notin DOMAIN tier /\ t[n] = e
        /\ \A i \in DOMAIN t : i \in DOMAIN tier \/ i = n
    BY PinsAfterAppend
  <1>2. t \in Seq(WaitingEntries)
    BY AppendProperties
  <1> HIDE DEF t, n
  <1>3. \A x : x \in Range(t) <=> x \in Range(tier) \/ x = e
    BY <1>1, RangeFacts
  <1>4. OnePin(tier) /\ ~Pinned(tier, e.ref) => OnePin(t)
    BY <1>1, PinsInTier DEF OnePin
  <1>5. ~Pinned(tier, e.ref) => OnePinOf(t, e.ref)
    BY <1>1, PinsInTier DEF OnePinOf
  <1>6. \A r : r # e.ref => (Pinned(t, r) <=> Pinned(tier, r))
    BY <1>1, PinsInTier
  <1>7. \A r : r # e.ref /\ OnePinOf(tier, r) => OnePinOf(t, r)
    BY <1>1 DEF OnePinOf
  <1>8. Pinned(t, e.ref)
    BY <1>1, PinsInTier
  <1> QED
    BY <1>2, <1>3, <1>4, <1>5, <1>6, <1>7, <1>8 DEF t

\* Taking out what the new version replaces (Supplanted).
LEMMA SupplantedFacts ==
  ASSUME NEW b \in Bodies, NEW ref
  PROVE  LET s == Supplanted(b, ref)
         IN  /\ s \in Bodies /\ s.members = b.members /\ s.config = b.config
             /\ OnePin(b.staged) => OnePin(s.staged)
             /\ \A r : OnePinOf(b.staged, r) => OnePinOf(s.staged, r)
             /\ \A r : OnePinOf(b.candidates, r) => OnePinOf(s.candidates, r)
             /\ \A r : Pinned(s.staged, r) => Pinned(b.staged, r)
             /\ \A r : Pinned(s.candidates, r) => Pinned(b.candidates, r)
             /\ ~Replaces(b, ref) => s = b
             /\ Replaces(b, ref) /\ OnePinOf(b.staged, ref) => ~Pinned(s.staged, ref)
             /\ Replaces(b, ref) /\ ~Pinned(b.staged, ref) /\ OnePinOf(b.candidates, ref)
                  => ~Pinned(s.candidates, ref)
  <1> DEFINE s == Supplanted(b, ref)
  <1>0. b.staged \in Seq(WaitingEntries) /\ b.candidates \in Seq(WaitingEntries)
    BY SettingsFacts
  <1>1. ASSUME ~Replaces(b, ref) PROVE s = b
    BY <1>1 DEF Supplanted
  <1>2. ASSUME Replaces(b, ref), Pinned(b.staged, ref)
        PROVE  /\ s \in Bodies /\ s.members = b.members /\ s.config = b.config
               /\ s.candidates = b.candidates
               /\ OnePin(b.staged) => OnePin(s.staged)
               /\ \A r : OnePinOf(b.staged, r) => OnePinOf(s.staged, r)
               /\ \A r : Pinned(s.staged, r) => Pinned(b.staged, r)
               /\ OnePinOf(b.staged, ref) => ~Pinned(s.staged, ref)
    <2> DEFINE k == WithoutVersion(b.staged, b.staged[Incumbent(b.staged, ref)])
    <2>1. s = [b EXCEPT !.staged = k]
      BY <1>2 DEF Supplanted, WaitingEntry
    <2>2. /\ k \in Seq(WaitingEntries)
          /\ OnePin(b.staged) => OnePin(k)
          /\ \A r : OnePinOf(b.staged, r) => OnePinOf(k, r)
          /\ \A r : Pinned(k, r) => Pinned(b.staged, r)
          /\ OnePinOf(b.staged, ref) => ~Pinned(k, ref)
      BY <1>0, <1>2, VersionTakenOut
    <2> HIDE DEF k, s
    <2>3. /\ s \in Bodies /\ s.members = b.members /\ s.config = b.config
          /\ s.candidates = b.candidates /\ s.staged = k
      BY <2>1, <2>2 DEF Bodies
    <2> QED
      BY <2>2, <2>3
  <1>3. ASSUME Replaces(b, ref), ~Pinned(b.staged, ref)
        PROVE  /\ s \in Bodies /\ s.members = b.members /\ s.config = b.config
               /\ s.staged = b.staged
               /\ \A r : OnePinOf(b.candidates, r) => OnePinOf(s.candidates, r)
               /\ \A r : Pinned(s.candidates, r) => Pinned(b.candidates, r)
               /\ OnePinOf(b.candidates, ref) => ~Pinned(s.candidates, ref)
    <2> DEFINE k == WithoutVersion(b.candidates, b.candidates[Incumbent(b.candidates, ref)])
    <2>1. s = [b EXCEPT !.candidates = k]
      BY <1>3 DEF Supplanted, WaitingEntry
    <2>0. Pinned(b.candidates, ref)
      BY <1>3 DEF Replaces, Waiting
    <2>2. /\ k \in Seq(WaitingEntries)
          /\ \A r : OnePinOf(b.candidates, r) => OnePinOf(k, r)
          /\ \A r : Pinned(k, r) => Pinned(b.candidates, r)
          /\ OnePinOf(b.candidates, ref) => ~Pinned(k, ref)
      BY <1>0, <2>0, VersionTakenOut
    <2> HIDE DEF k, s
    <2>3. /\ s \in Bodies /\ s.members = b.members /\ s.config = b.config
          /\ s.staged = b.staged /\ s.candidates = k
      BY <2>1, <2>2 DEF Bodies
    <2> QED
      BY <2>2, <2>3
  <1> HIDE DEF s
  <1>4. CASE ~Replaces(b, ref)
    BY <1>1, <1>4 DEF s
  <1>5. CASE Replaces(b, ref) /\ Pinned(b.staged, ref)
    BY <1>2, <1>5 DEF s
  <1>6. CASE Replaces(b, ref) /\ ~Pinned(b.staged, ref)
    BY <1>3, <1>6 DEF s
  <1> QED
    BY <1>4, <1>5, <1>6

\* Synchronising a member with a new version of it (processMemberSync).
LEMMA SyncFacts ==
  ASSUME NEW b \in Bodies, NEW ref \in Refs, NEW mod \in Nat
  PROVE  LET c == MemberSync(b, ref, mod)
         IN  /\ c \in Bodies /\ c.members = b.members /\ c.config = b.config
             /\ OnePin(b.staged) => OnePin(c.staged)
             /\ b.config.behavior # "replace" => NewestKept(b, c)
             /\ WaitingMods(c, ref) # {}
             /\ b.config.behavior = "replace" => \A r : OneWaits(b, r) => OneWaits(c, r)
  <1> DEFINE c == MemberSync(b, ref, mod)
             s == Supplanted(b, ref)
             status == IF Preserves(b, ref) THEN WaitingEntry(b, ref).status ELSE "wip"
             e == Candidate(ref, mod, status)
  <1>1. status \in Statuses
    <2>1. CASE Preserves(b, ref)
      <3>1. WaitingEntry(b, ref) \in WaitingEntries
        <4>1. CASE Pinned(b.staged, ref)
          <5>1. Incumbent(b.staged, ref) \in DOMAIN b.staged
            BY <4>1, IncumbentPins, SettingsFacts
          <5> QED
            BY <4>1, <5>1, SettingsFacts, LenProperties, ElementOfSeq DEF WaitingEntry
        <4>2. CASE ~Pinned(b.staged, ref)
          <5>0. Pinned(b.candidates, ref)
            BY <2>1, <4>2 DEF Preserves, Replaces, Waiting
          <5>1. Incumbent(b.candidates, ref) \in DOMAIN b.candidates
            BY <5>0, IncumbentPins, SettingsFacts
          <5> QED
            BY <4>2, <5>1, SettingsFacts, LenProperties, ElementOfSeq DEF WaitingEntry
        <4> QED
          BY <4>1, <4>2
      <3>2. \A x \in WaitingEntries : x.status \in Statuses
        BY DEF WaitingEntries
      <3> QED
        BY <2>1, <3>1, <3>2
    <2>2. CASE ~Preserves(b, ref)
      BY <2>2 DEF Statuses
    <2> QED
      BY <2>1, <2>2
  <1>2. /\ SyncToStaged(b, ref)  => c = [s EXCEPT !.staged = Append(@, e)]
        /\ ~SyncToStaged(b, ref) => c = [s EXCEPT !.candidates = Append(@, e)]
    BY DEF MemberSync
  <1> HIDE DEF status
  <1>3. e \in WaitingEntries /\ e.ref = ref /\ e.mod = mod
    BY <1>1 DEF Candidate, WaitingEntries
  <1> HIDE DEF e, c, s
  <1>4. /\ s \in Bodies /\ s.members = b.members /\ s.config = b.config
        /\ OnePin(b.staged) => OnePin(s.staged)
        /\ \A r : OnePinOf(b.staged, r) => OnePinOf(s.staged, r)
        /\ \A r : OnePinOf(b.candidates, r) => OnePinOf(s.candidates, r)
        /\ \A r : Pinned(s.staged, r) => Pinned(b.staged, r)
        /\ \A r : Pinned(s.candidates, r) => Pinned(b.candidates, r)
        /\ ~Replaces(b, ref) => s = b
        /\ Replaces(b, ref) /\ OnePinOf(b.staged, ref) => ~Pinned(s.staged, ref)
        /\ Replaces(b, ref) /\ ~Pinned(b.staged, ref) /\ OnePinOf(b.candidates, ref)
             => ~Pinned(s.candidates, ref)
    BY SupplantedFacts DEF s
  <1>5. s.staged \in Seq(WaitingEntries) /\ s.candidates \in Seq(WaitingEntries)
    BY <1>4, SettingsFacts
  <1> DEFINE t == Append(s.staged, e)
             u == Append(s.candidates, e)
  <1>6. /\ t \in Seq(WaitingEntries) /\ \A x : x \in Range(t) <=> x \in Range(s.staged) \/ x = e
        /\ OnePin(s.staged) /\ ~Pinned(s.staged, ref) => OnePin(t)
        /\ ~Pinned(s.staged, ref) => OnePinOf(t, ref)
        /\ \A r : r # ref => (Pinned(t, r) <=> Pinned(s.staged, r))
        /\ \A r : r # ref /\ OnePinOf(s.staged, r) => OnePinOf(t, r)
    <2> HIDE DEF t
    <2> QED
      BY <1>3, <1>5, EntryAdded DEF t
  <1>7. /\ u \in Seq(WaitingEntries) /\ \A x : x \in Range(u) <=> x \in Range(s.candidates) \/ x = e
        /\ ~Pinned(s.candidates, ref) => OnePinOf(u, ref)
        /\ \A r : r # ref => (Pinned(u, r) <=> Pinned(s.candidates, r))
        /\ \A r : r # ref /\ OnePinOf(s.candidates, r) => OnePinOf(u, r)
    <2> HIDE DEF u
    <2> QED
      BY <1>3, <1>5, EntryAdded DEF u
  <1>8. ASSUME SyncToStaged(b, ref)
        PROVE  /\ c \in Bodies /\ c.members = s.members /\ c.config = s.config
               /\ c.staged = t /\ c.candidates = s.candidates
    <2> HIDE DEF t
    <2> QED
      BY <1>2, <1>4, <1>6, <1>8 DEF Bodies, t
  <1>9. ASSUME ~SyncToStaged(b, ref)
        PROVE  /\ c \in Bodies /\ c.members = s.members /\ c.config = s.config
               /\ c.staged = s.staged /\ c.candidates = u
    <2> HIDE DEF u
    <2> QED
      BY <1>2, <1>4, <1>7, <1>9 DEF Bodies, u
  <1> HIDE DEF t, u
  <1>10. c \in Bodies /\ c.members = b.members /\ c.config = b.config
    BY <1>4, <1>8, <1>9
  <1>11. \A x : x \in Range(c.staged) \cup Range(c.candidates)
                  <=> x \in Range(s.staged) \cup Range(s.candidates) \/ x = e
    BY <1>6, <1>7, <1>8, <1>9
  <1>12. OnePin(b.staged) => OnePin(c.staged)
    <2> SUFFICES ASSUME OnePin(b.staged) PROVE OnePin(c.staged)
      OBVIOUS
    <2>1. OnePinOf(b.staged, ref) /\ OnePin(s.staged)
      BY <1>4 DEF OnePin, OnePinOf
    <2>2. SyncToStaged(b, ref) => ~Pinned(s.staged, ref)
      BY <1>4, <2>1 DEF SyncToStaged, Preserves
    <2> QED
      BY <1>6, <1>8, <1>9, <2>1, <2>2
  <1>13. WaitingMods(c, ref) # {}
    BY <1>3, <1>11, WaitingFacts
  <1>14. ASSUME b.config.behavior # "replace" PROVE NewestKept(b, c)
    <2>1. s = b
      BY <1>4, <1>14 DEF Replaces
    <2> SUFFICES ASSUME NEW r, NEW m \in WaitingMods(b, r)
                 PROVE  \E n \in WaitingMods(c, r) : n >= m
      BY DEF NewestKept
    <2>2. PICK y \in Range(b.staged) \cup Range(b.candidates) : y.ref = r /\ y.mod = m
      BY WaitingFacts
    <2>3. y.mod \in WaitingMods(c, r)
      BY <1>11, <2>1, <2>2, WaitingFacts
    <2>4. y.mod >= m
      BY <2>2, SettingsFacts, RangeFacts, ElementOfSeq, LenProperties
    <2> QED
      BY <2>3, <2>4
  <1>15. ASSUME b.config.behavior = "replace", NEW r, OneWaits(b, r) PROVE OneWaits(c, r)
    <2>0. /\ OnePinOf(b.staged, r) /\ OnePinOf(b.candidates, r)
          /\ ~(Pinned(b.staged, r) /\ Pinned(b.candidates, r))
          /\ OnePinOf(s.staged, r) /\ OnePinOf(s.candidates, r)
          /\ ~(Pinned(s.staged, r) /\ Pinned(s.candidates, r))
      BY <1>4, <1>15 DEF OneWaits
    <2>1. CASE r # ref
      <3>1. CASE SyncToStaged(b, ref)
        BY <1>6, <1>8, <2>0, <2>1, <3>1 DEF OneWaits
      <3>2. CASE ~SyncToStaged(b, ref)
        BY <1>7, <1>9, <2>0, <2>1, <3>2 DEF OneWaits
      <3> QED
        BY <3>1, <3>2
    <2>2. CASE r = ref
      <3>1. ~Pinned(s.staged, ref) /\ ~Pinned(s.candidates, ref)
        <4>1. CASE Waiting(b, ref)
          <5>1. Replaces(b, ref)
            BY <1>15, <4>1 DEF Replaces
          <5> QED
            BY <1>4, <2>0, <2>2, <5>1
        <4>2. CASE ~Waiting(b, ref)
          BY <1>4, <4>2 DEF Waiting
        <4> QED
          BY <4>1, <4>2
      <3>2. CASE SyncToStaged(b, ref)
        BY <1>6, <1>8, <2>0, <2>2, <3>1, <3>2 DEF OneWaits
      <3>3. CASE ~SyncToStaged(b, ref)
        BY <1>7, <1>9, <2>0, <2>2, <3>1, <3>3 DEF OneWaits
      <3> QED
        BY <3>2, <3>3
    <2> QED
      BY <2>1, <2>2
  <1> QED
    BY <1>10, <1>12, <1>13, <1>14, <1>15 DEF c

-----------------------------------------------------------------------------
(***************************************************************************)
(* Steps.                                                                  *)
(***************************************************************************)
\* The inductive invariant: the tiers are well formed, and staged pins no object twice.
TierInv == tiers \in Bodies /\ OnePin(tiers.staged)

\* The requests that must not lose the newest version that waits.
Protects(h, b) ==
  /\ h \in {"enroll", "move"} \/ (h = "sync" /\ b.config.behavior # "replace")
  /\ b.config.candidatesToStaged # "always_overwrite"

\* What a step of kind h that turns the tiers b into c guarantees.
Serves(b, h, c) ==
  /\ c \in Bodies /\ OnePin(c.staged)
  /\ Protects(h, b) => NewestKept(b, c)
  /\ h = "enroll" /\ c.config.autoPromote => Settled(c)
  /\ h = "sync" => /\ \E ref \in RefsOf(b.members) : WaitingMods(c, ref) # {}
                   /\ b.config.behavior = "replace" => \A ref : OneWaits(b, ref) => OneWaits(c, ref)
  /\ h = "tag" => c = ReleaseBody(b)

\* Waiting versions that are the same are kept.
LEMMA SameKept ==
  ASSUME NEW b \in Bodies, NEW c, \A ref : WaitingMods(c, ref) = WaitingMods(b, ref)
  PROVE  NewestKept(b, c)
  <1> SUFFICES ASSUME NEW ref, NEW m \in WaitingMods(b, ref) PROVE m >= m
    BY DEF NewestKept
  <1>1. PICK y \in Range(b.staged) \cup Range(b.candidates) : y.mod = m
    BY WaitingFacts
  <1>2. m \in Nat
    BY <1>1, SettingsFacts, RangeFacts, ElementOfSeq, LenProperties
  <1> QED
    BY <1>2

\* A change that keeps the newest waiting versions and the configuration, then
\* auto-promotion: what an add and a review do.
LEMMA ServedEnroll ==
  ASSUME NEW b \in Bodies, NEW c \in Bodies, c.config = b.config,
         OnePin(c.staged), NewestKept(b, c)
  PROVE  Serves(b, "enroll", AutoPromotion(c))
  <1> DEFINE d == AutoPromotion(c)
  <1>1. /\ d \in Bodies /\ d.config = c.config
        /\ OnePin(d.staged)
        /\ c.config.candidatesToStaged # "always_overwrite" => NewestKept(c, d)
        /\ d.config.autoPromote => Settled(d)
    BY AutoPromotionFacts
  <1> HIDE DEF d
  <1>2. Protects("enroll", b) => NewestKept(b, d)
    BY <1>1, NewestKeptTwice DEF Protects
  <1> QED
    BY <1>1, <1>2 DEF Serves, d

\* Synchronising, with auto-promotion when the new entry became a candidate.
LEMMA ServedSync ==
  ASSUME NEW b \in Bodies, NEW ref \in Refs, NEW mod \in Nat, OnePin(b.staged), SyncApplies(b, ref)
  PROVE  /\ Serves(b, "sync", MemberSync(b, ref, mod))
         /\ Serves(b, "sync", AutoPromotion(MemberSync(b, ref, mod)))
  <1> DEFINE c == MemberSync(b, ref, mod)
             d == AutoPromotion(c)
  <1>1. /\ c \in Bodies /\ c.members = b.members /\ c.config = b.config
        /\ OnePin(c.staged)
        /\ b.config.behavior # "replace" => NewestKept(b, c)
        /\ WaitingMods(c, ref) # {}
        /\ b.config.behavior = "replace" => \A r : OneWaits(b, r) => OneWaits(c, r)
    BY SyncFacts
  <1>2. ref \in RefsOf(b.members)
    BY RangeFacts DEF SyncApplies
  <1> HIDE DEF c
  <1>3. /\ d \in Bodies /\ d.config = c.config
        /\ OnePin(d.staged)
        /\ c.config.candidatesToStaged # "always_overwrite" => NewestKept(c, d)
        /\ \A r : WaitingMods(c, r) # {} => WaitingMods(d, r) # {}
        /\ \A r : OneWaits(c, r) => OneWaits(d, r)
    BY <1>1, AutoPromotionFacts
  <1> HIDE DEF d
  <1>4. Protects("sync", b) => NewestKept(b, d)
    BY <1>1, <1>3, NewestKeptTwice DEF Protects
  <1>5. Serves(b, "sync", c)
    BY <1>1, <1>2 DEF Serves, Protects
  <1>6. Serves(b, "sync", d)
    BY <1>1, <1>2, <1>3, <1>4 DEF Serves
  <1> QED
    BY <1>5, <1>6 DEF c, d

\* Promoting and demoting.
LEMMA ServedMove ==
  ASSUME NEW b \in Bodies, NEW c, OnePin(b.staged),
         (\E refs : c = PromoteRefs(b, refs)) \/ (\E pins : c = DemoteStaged(b, pins))
  PROVE  Serves(b, "move", c)
  <1>1. ASSUME NEW refs, c = PromoteRefs(b, refs) PROVE Serves(b, "move", c)
    <2> DEFINE p == PromoteRefs(b, refs)
    <2>1. p \in Bodies /\ OnePin(p.staged)
      <3> DEFINE acc == Promotion(b, refs)
                 in == WithRefs(b.candidates, refs)
      <3>1. /\ p \in Bodies /\ p.staged = acc.merged
            /\ Merging(b.staged, in, b.config.candidatesToStaged, Len(in), acc)
        BY PromotionFacts
      <3> HIDE DEF acc, in, p
      <3> QED
        BY <3>1, MergedOnePin
    <2>2. Protects("move", b) => NewestKept(b, p)
      BY PromotionKeepsNewest DEF Protects
    <2> HIDE DEF p
    <2> QED
      BY <1>1, <2>1, <2>2 DEF Serves, p
  <1>2. ASSUME NEW pins, c = DemoteStaged(b, pins) PROVE Serves(b, "move", c)
    <2> DEFINE d == DemoteStaged(b, pins)
    <2>1. d \in Bodies /\ OnePin(d.staged) /\ \A ref : WaitingMods(d, ref) = WaitingMods(b, ref)
      BY DemoteFacts
    <2> HIDE DEF d
    <2>2. NewestKept(b, d)
      BY <2>1, SameKept
    <2> QED
      BY <1>2, <2>1, <2>2 DEF Serves, d
  <1> QED
    BY <1>1, <1>2

\* Every step does what its kind of request guarantees.
LEMMA EveryStep ==
  ASSUME TierInv, TiersNext
  PROVE  Serves(tiers, handler', tiers')
  <1> DEFINE b == tiers
  <1>0. b \in Bodies /\ OnePin(b.staged) /\ \A v \in Versions : v.ref \in Refs /\ v.mod \in Nat
    BY VersionsAssumption DEF TierInv, Refs
  <1> HIDE DEF b
  <1>1. ASSUME Add PROVE Serves(b, handler', tiers')
    <2>1. PICK pins \in PinLists : tiers' = AutoPromotion(AddCandidates(b, pins)) /\ handler' = "enroll"
      BY <1>1 DEF Add, Serve, SaveTiers, Results, Outcome, EvaluatingOps, b
    <2>2. /\ AddCandidates(b, pins) \in Bodies /\ AddCandidates(b, pins).config = b.config
          /\ AddCandidates(b, pins).staged = b.staged /\ NewestKept(b, AddCandidates(b, pins))
      BY <1>0, AddFacts
    <2> QED
      BY <1>0, <2>1, <2>2, ServedEnroll
  <1>2. ASSUME Review PROVE Serves(b, handler', tiers')
    <2>1. PICK t \in Transitions, refs \in RefSets :
            tiers' = AutoPromotion(ReviewCandidates(b, t[1], t[2], refs)) /\ handler' = "enroll"
      BY <1>2 DEF Review, Serve, SaveTiers, Results, Outcome, EvaluatingOps, b
    <2> DEFINE from == t[1]
               to == t[2]
    <2>0. to \in Statuses
      BY DEF Transitions
    <2> HIDE DEF from, to
    <2> DEFINE c == ReviewCandidates(b, from, to, refs)
    <2>2. c \in Bodies /\ c.config = b.config /\ c.staged = b.staged /\ \A ref : WaitingMods(c, ref) = WaitingMods(b, ref)
      BY <1>0, <2>0, ReviewFacts
    <2>3. tiers' = AutoPromotion(c)
      BY <2>1 DEF from, to
    <2> HIDE DEF c
    <2> QED
      BY <1>0, <2>1, <2>2, <2>3, SameKept, ServedEnroll
  <1>3. ASSUME Promote PROVE Serves(b, handler', tiers')
    <2>1. PICK refs : tiers' = PromoteRefs(b, refs) /\ handler' = "move"
      BY <1>3 DEF Promote, Serve, SaveTiers, Results, Outcome, EvaluatingOps, b
    <2> QED
      BY <1>0, <2>1, ServedMove
  <1>4. ASSUME Demote PROVE Serves(b, handler', tiers')
    <2>1. PICK pins : tiers' = DemoteStaged(b, pins) /\ handler' = "move"
      BY <1>4 DEF Demote, Serve, SaveTiers, Results, Outcome, EvaluatingOps, b
    <2> QED
      BY <1>0, <2>1, ServedMove
  <1>5. ASSUME Withdraw \/ MovePin \/ ReplaceContents \/ Configure PROVE Serves(b, handler', tiers')
    <2>1. handler' = "edit"
      BY <1>5 DEF Withdraw, MovePin, ReplaceContents, Configure, Serve, SaveTiers
    <2>2. CASE Withdraw
      <3>1. PICK ref : tiers' = RemoveCandidate(b, ref)
        BY <2>2 DEF Withdraw, Serve, SaveTiers, Results, Outcome, EvaluatingOps, b
      <3> QED
        BY <1>0, <2>1, <3>1, EditFacts DEF Serves, Protects
    <2>3. CASE MovePin
      <3>1. PICK p \in Versions \X Versions : tiers' = UpdateVersion(b, p[1].ref, p[1].mod, p[2].mod)
        BY <2>3 DEF MovePin, Serve, SaveTiers, Results, Repins, Outcome, EvaluatingOps, b
      <3>2. PICK ref, old, new : new \in Nat /\ tiers' = UpdateVersion(b, ref, old, new)
        BY <1>0, <3>1
      <3> QED
        BY <1>0, <2>1, <3>2, EditFacts DEF Serves, Protects
    <2>4. CASE ReplaceContents
      <3>1. PICK members \in PinLists : tiers' = UpdateContents(b, members)
        BY <2>4 DEF ReplaceContents, Serve, SaveTiers, Results, Outcome, EvaluatingOps, b
      <3> QED
        BY <1>0, <2>1, <3>1, EditFacts DEF Serves, Protects
    <2>5. CASE Configure
      <3>1. PICK d \in Configs : tiers' = UpdateConfig(b, d)
        BY <2>5 DEF Configure, Serve, SaveTiers, Results, Outcome, EvaluatingOps, b
      <3> QED
        BY <1>0, <2>1, <3>1, EditFacts DEF Serves, Protects
    <2> QED
      BY <1>5, <2>2, <2>3, <2>4, <2>5
  <1>6. ASSUME Synchronise PROVE Serves(b, handler', tiers')
    <2>1. PICK v \in SyncTargets(b) :
            /\ handler' = "sync"
            /\ \/ tiers' = AutoPromotion(MemberSync(b, v.ref, v.mod))
               \/ tiers' = MemberSync(b, v.ref, v.mod)
      <3>1. CASE Serve("sync", "sync")
        <4>1. PICK c \in Results("sync", b) : tiers' = AutoPromotion(c) /\ handler' = "sync"
          BY <3>1 DEF Serve, SaveTiers, Outcome, EvaluatingOps, b
        <4>2. PICK v \in SyncTargets(b) : c = MemberSync(b, v.ref, v.mod)
          BY DEF Results
        <4> QED
          BY <4>1, <4>2
      <3>2. CASE Serve("sync", "sync_staged")
        <4>1. PICK c \in Results("sync_staged", b) : tiers' = c /\ handler' = "sync"
          BY <3>2 DEF Serve, SaveTiers, Outcome, EvaluatingOps, b
        <4>2. PICK v \in SyncTargets(b) : c = MemberSync(b, v.ref, v.mod)
          BY DEF Results
        <4> QED
          BY <4>1, <4>2
      <3> QED
        BY <1>6, <3>1, <3>2 DEF Synchronise
    <2>2. v.ref \in Refs /\ v.mod \in Nat /\ SyncApplies(b, v.ref)
      BY <1>0 DEF SyncTargets
    <2> QED
      BY <1>0, <2>1, <2>2, ServedSync
  <1>7. ASSUME TagTiers PROVE Serves(b, handler', tiers')
    <2>1. tiers' = ReleaseBody(b) /\ handler' = "tag"
      BY <1>7 DEF TagTiers, b
    <2>2. ReleaseBody(b) \in Bodies /\ OnePin(ReleaseBody(b).staged)
      BY <1>0, ReleaseFacts
    <2> QED
      BY <2>1, <2>2 DEF Serves, Protects
  <1> QED
    BY <1>1, <1>2, <1>3, <1>4, <1>5, <1>6, <1>7 DEF TiersNext, b

-----------------------------------------------------------------------------
(***************************************************************************)
(* The properties.                                                         *)
(***************************************************************************)
\* The invariant holds at the start and survives every step.
LEMMA TierInvInductive ==
  TiersSpec => []TierInv
  <1>1. TiersInit => TierInv
    <2> SUFFICES ASSUME TiersInit PROVE TierInv
      OBVIOUS
    <2>1. DefaultConfig \in Settings
      BY DEF DefaultConfig, Settings, Statuses, Policies
    <2> DEFINE none == <<>>
    <2>2. none \in Seq(MemberEntries) /\ none \in Seq(WaitingEntries)
      OBVIOUS
    <2>3. OnePin(none)
      BY DEF OnePin
    <2>4. tiers = [members |-> none, staged |-> none, candidates |-> none, config |-> DefaultConfig]
      BY DEF TiersInit, EmptyBody
    <2> HIDE DEF none
    <2> QED
      BY <2>1, <2>2, <2>3, <2>4 DEF TierInv, Bodies
  <1>2. TierInv /\ [TiersNext]_tiervars => TierInv'
    <2> SUFFICES ASSUME TierInv, [TiersNext]_tiervars PROVE TierInv'
      OBVIOUS
    <2>1. CASE TiersNext
      BY <2>1, EveryStep DEF TierInv, Serves
    <2>2. CASE UNCHANGED tiervars
      BY <2>2 DEF TierInv, tiervars
    <2> QED
      BY <2>1, <2>2
  <1> QED
    BY <1>1, <1>2, PTL DEF TiersSpec

\* The tiers hold pins of known objects in known states, and the configuration is one the
\* schema allows, whatever is requested.
THEOREM TiersWellFormed ==
  TiersSpec => [](tiers \in Bodies)
  <1>1. TierInv => tiers \in Bodies
    BY DEF TierInv
  <1> QED
    BY <1>1, TierInvInductive, PTL

\* Whatever sequence of calls, staged never holds two entries of one object, for any
\* versions, configurations and sizes of the tiers (promoteCandidates, auto-promotion and
\* processMemberSync).
THEOREM StagedPinsOnce ==
  TiersSpec => []StagedOnePinPerObject
  <1>1. TierInv => StagedOnePinPerObject
    BY DEF TierInv, OnePin, StagedOnePinPerObject
  <1> QED
    BY <1>1, TierInvInductive, PTL

\* The versions that wait, and those released, of an object are finitely many.
LEMMA ModsFinite ==
  ASSUME NEW b \in Bodies, NEW ref
  PROVE  /\ WaitingMods(b, ref) \in SUBSET Nat /\ IsFiniteSet(WaitingMods(b, ref))
         /\ MemberMods(b, ref) \in SUBSET Nat /\ IsFiniteSet(MemberMods(b, ref))
         /\ IsFiniteSet(PinsOf(b.staged, ref)) /\ IsFiniteSet(PinsOf(b.candidates, ref))
  <1>1. ASSUME NEW E, \A e \in E : e.mod \in Nat, NEW t \in Seq(E)
        PROVE  /\ IsFiniteSet(PinsOf(t, ref))
               /\ {t[i].mod : i \in PinsOf(t, ref)} \in SUBSET Nat
               /\ IsFiniteSet({t[i].mod : i \in PinsOf(t, ref)})
    <2>1. DOMAIN t = 1 .. Len(t) /\ Len(t) \in Nat /\ \A i \in DOMAIN t : t[i].mod \in Nat
      BY <1>1, LenProperties, ElementOfSeq
    <2>2. PinsOf(t, ref) \in SUBSET (1 .. Len(t))
      BY <2>1 DEF PinsOf
    <2>3. IsFiniteSet(PinsOf(t, ref))
      <3>1. IsFiniteSet(1 .. Len(t))
        BY <2>1, FS_Interval
      <3> HIDE DEF PinsOf
      <3> QED
        BY <2>2, <3>1, FS_Subset
    <2> DEFINE f == [i \in PinsOf(t, ref) |-> t[i].mod]
               M == {t[i].mod : i \in PinsOf(t, ref)}
    <2>4. M \in SUBSET Nat /\ f \in Surjection(PinsOf(t, ref), M)
      BY <2>1, <2>2 DEF Surjection
    <2> HIDE DEF f, M
    <2>5. IsFiniteSet(M)
      BY <2>3, <2>4, FS_Surjection
    <2> QED
      BY <2>3, <2>4, <2>5 DEF M
  <1>2. /\ IsFiniteSet(PinsOf(b.staged, ref)) /\ IsFiniteSet(PinsOf(b.candidates, ref))
        /\ {b.staged[i].mod : i \in PinsOf(b.staged, ref)} \in SUBSET Nat
        /\ IsFiniteSet({b.staged[i].mod : i \in PinsOf(b.staged, ref)})
        /\ {b.candidates[i].mod : i \in PinsOf(b.candidates, ref)} \in SUBSET Nat
        /\ IsFiniteSet({b.candidates[i].mod : i \in PinsOf(b.candidates, ref)})
    BY <1>1, SettingsFacts
  <1>3. MemberMods(b, ref) \in SUBSET Nat /\ IsFiniteSet(MemberMods(b, ref))
    BY <1>1, SettingsFacts DEF MemberMods
  <1>4. WaitingMods(b, ref) \in SUBSET Nat /\ IsFiniteSet(WaitingMods(b, ref))
    BY <1>2, FS_Union DEF WaitingMods
  <1> QED
    BY <1>2, <1>3, <1>4

\* Matching every element with one at least as great does not lower the maximum.
LEMMA MaximaOrdered ==
  ASSUME NEW S \in SUBSET Nat, NEW T \in SUBSET Nat, IsFiniteSet(S), IsFiniteSet(T), S # {},
         \A m \in S : \E n \in T : n >= m
  PROVE  T # {} /\ Max(T) >= Max(S)
  <1>1. Max(S) \in S
    BY FiniteMax
  <1>2. PICK n \in T : n >= Max(S)
    BY <1>1
  <1>3. T # {} /\ Max(T) \in T /\ Max(T) >= n
    BY <1>2, FiniteMax
  <1>4. Max(S) \in Nat /\ Max(T) \in Nat /\ n \in Nat
    BY <1>1, <1>2, <1>3
  <1> DEFINE x == Max(S)
             y == Max(T)
  <1> HIDE DEF x, y
  <1>5. x \in Nat /\ y \in Nat /\ n \in Nat /\ n >= x /\ y >= n
    BY <1>2, <1>3, <1>4 DEF x, y
  <1>6. y >= x
    BY <1>5
  <1> QED
    BY <1>3, <1>6 DEF x, y

\* No add, review, promotion or demotion loses the newest version of an object that waits
\* for a release, nor a synchronisation that does not replace, unless the policy lets an
\* older entry overwrite it; for any versions and sizes of the tiers.
THEOREM NewestWaits ==
  TiersSpec => NewestWaitingSurvives
  <1> DEFINE A == (/\ \/ handler' \in {"enroll", "move"}
                      \/ handler' = "sync" /\ tiers.config.behavior # "replace"
                   /\ tiers.config.candidatesToStaged # "always_overwrite")
                  => \A ref \in Refs : WaitingMods(tiers, ref) # {}
                       => /\ WaitingMods(tiers', ref) # {}
                          /\ Max(WaitingMods(tiers', ref)) >= Max(WaitingMods(tiers, ref))
  <1>1. TierInv /\ TiersNext => A
    <2> SUFFICES ASSUME TierInv, TiersNext, Protects(handler', tiers),
                        NEW ref \in Refs, WaitingMods(tiers, ref) # {}
                 PROVE  /\ WaitingMods(tiers', ref) # {}
                        /\ Max(WaitingMods(tiers', ref)) >= Max(WaitingMods(tiers, ref))
      BY DEF Protects
    <2>1. tiers \in Bodies /\ tiers' \in Bodies /\ NewestKept(tiers, tiers')
      BY EveryStep DEF TierInv, Serves
    <2> DEFINE S == WaitingMods(tiers, ref)
               T == WaitingMods(tiers', ref)
    <2>2. /\ S \in SUBSET Nat /\ IsFiniteSet(S) /\ T \in SUBSET Nat /\ IsFiniteSet(T) /\ S # {}
          /\ \A m \in S : \E n \in T : n >= m
      BY <2>1, ModsFinite DEF NewestKept
    <2> HIDE DEF S, T
    <2>3. T # {} /\ Max(T) >= Max(S)
      BY <2>2, MaximaOrdered
    <2> QED
      BY <2>3 DEF S, T
  <1>2. TierInv /\ [TiersNext]_tiervars => [A]_tiervars
    BY <1>1
  <1> HIDE DEF A
  <1>3. TiersSpec => [][A]_tiervars
    BY <1>2, TierInvInductive, PTL DEF TiersSpec
  <1> QED
    BY <1>3 DEF A, NewestWaitingSurvives

\* Tagging never takes a released object back or out of the members unless
\* staged_to_members overwrites, changes no member under abort, and releases every object
\* that was staged (the merge of _doBump).
THEOREM ReleaseGoesForward ==
  TiersSpec => ReleaseNeverRegresses
  <1> DEFINE R(ref) ==
               /\ Pinned(tiers.staged, ref) => Pinned(tiers'.members, ref)
               /\ Pinned(tiers.members, ref) /\ tiers.config.stagedToMembers # "always_overwrite"
                    => /\ Pinned(tiers'.members, ref)
                       /\ Max(MemberMods(tiers', ref)) >= Max(MemberMods(tiers, ref))
               /\ Pinned(tiers.members, ref) /\ tiers.config.stagedToMembers = "abort"
                    => MemberMods(tiers', ref) = MemberMods(tiers, ref)
             A == handler' = "tag" => \A ref \in Refs : R(ref)
  <1>1. TierInv /\ TiersNext => A
    <2> SUFFICES ASSUME TierInv, TiersNext, handler' = "tag", NEW ref \in Refs PROVE R(ref)
      OBVIOUS
    <2> DEFINE b == tiers
               c == ReleaseBody(b)
               in == MapEntries(b.staged, MemberEntry)
               policy == b.config.stagedToMembers
               acc == ApplyConflictPolicy(b.members, in, policy)
               t == b.members
               u == acc.merged
    <2>1. b \in Bodies /\ tiers' = c /\ c \in Bodies
      BY EveryStep, ReleaseFacts DEF TierInv, Serves
    <2>2. /\ c.members = u /\ in \in Seq(MemberEntries) /\ DOMAIN in = DOMAIN b.staged
          /\ \A i \in DOMAIN in : in[i].ref = b.staged[i].ref
          /\ Merging(t, in, policy, Len(in), acc)
      BY <2>1, ReleaseFacts
    <2>3. /\ \A i \in DOMAIN t : i \in DOMAIN u /\ u[i].ref = t[i].ref
          /\ policy # "always_overwrite" => \A i \in DOMAIN t : u[i].mod >= t[i].mod
          /\ policy = "abort" => \A i \in DOMAIN t : u[i].mod = t[i].mod
          /\ \A j \in DOMAIN u \ DOMAIN t : \A i \in DOMAIN u : u[i].ref = u[j].ref => i = j
          /\ \A k \in 1 .. Len(in) : Pinned(u, in[k].ref)
      <3> HIDE DEF acc, in, policy, b
      <3> QED
        BY <2>2 DEF Merging, PlacesKept, NoneOlder, NewcomersAlone, AllPinned
    <2> DEFINE S == MemberMods(b, ref)
               T == MemberMods(c, ref)
    <2> HIDE DEF acc, in, policy, c, u, b
    <2>4. ASSUME Pinned(b.staged, ref) PROVE Pinned(u, ref)
      <3>1. PICK i \in DOMAIN b.staged : b.staged[i].ref = ref
        BY <2>4, PinsInTier
      <3>2. i \in 1 .. Len(in) /\ in[i].ref = ref
        BY <2>2, <3>1, LenProperties
      <3> QED
        BY <2>3, <3>2
    <2>5. ASSUME Pinned(t, ref) PROVE Pinned(u, ref)
      BY <2>3, <2>5, PinsInTier
    <2>6. /\ \A m : m \in S <=> \E i \in DOMAIN t : t[i].ref = ref /\ t[i].mod = m
          /\ \A m : m \in T <=> \E i \in DOMAIN u : u[i].ref = ref /\ u[i].mod = m
      BY <2>2 DEF MemberMods, PinsOf
    <2>7. S \in SUBSET Nat /\ IsFiniteSet(S) /\ T \in SUBSET Nat /\ IsFiniteSet(T)
      BY <2>1, ModsFinite
    <2> HIDE DEF S, T
    <2>8. ASSUME Pinned(t, ref), policy # "always_overwrite" PROVE Max(T) >= Max(S)
      <3>1. S # {}
        BY <2>6, <2>8, PinsInTier
      <3>2. \A m \in S : \E n \in T : n >= m
        BY <2>3, <2>6, <2>8
      <3> QED
        BY <2>7, <3>1, <3>2, MaximaOrdered
    <2>9. ASSUME Pinned(t, ref), policy = "abort" PROVE T = S
      <3>1. PICK p \in DOMAIN t : t[p].ref = ref
        BY <2>9, PinsInTier
      <3>2. \A i \in DOMAIN u : u[i].ref = ref => i \in DOMAIN t
        BY <2>3, <3>1
      <3>3. \A m : m \in T <=> m \in S
        BY <2>3, <2>6, <2>9, <3>2
      <3> QED
        BY <3>3
    <2> QED
      BY <2>1, <2>2, <2>4, <2>5, <2>8, <2>9 DEF S, T, policy, b
  <1>2. TierInv /\ [TiersNext]_tiervars => [A]_tiervars
    BY <1>1
  <1> HIDE DEF A
  <1>3. TiersSpec => [][A]_tiervars
    BY <1>2, TierInvInductive, PTL DEF TiersSpec
  <1> QED
    BY <1>3 DEF A, ReleaseNeverRegresses

\* After an add or a review with auto-promotion on, what meets the threshold is still a
\* candidate only because staged holds the object, under prefer_latest in a version at
\* least as new (evaluateAutoPromotion, applyConflictPolicy).
THEOREM PromotionComplete ==
  TiersSpec => AutoPromotionSettles
  <1> DEFINE A == handler' = "enroll" /\ tiers'.config.autoPromote =>
                    \A i \in DOMAIN tiers'.candidates :
                      LET c == tiers'.candidates[i]
                      IN StatusRank[c.status] >= StatusRank[tiers'.config.threshold] =>
                           /\ Pinned(tiers'.staged, c.ref)
                           /\ tiers'.config.candidatesToStaged = "prefer_latest"
                                => tiers'.staged[Incumbent(tiers'.staged, c.ref)].mod >= c.mod
  <1>1. TierInv /\ TiersNext => A
    <2> SUFFICES ASSUME TierInv, TiersNext, handler' = "enroll" /\ tiers'.config.autoPromote PROVE A
      OBVIOUS
    <2>1. Settled(tiers')
      BY EveryStep DEF Serves
    <2>2. \A i \in DOMAIN tiers'.candidates : tiers'.candidates[i] \in Range(tiers'.candidates)
      BY RangeFacts
    <2> QED
      BY <2>1, <2>2 DEF Settled
  <1>2. TierInv /\ [TiersNext]_tiervars => [A]_tiervars
    BY <1>1
  <1> HIDE DEF A
  <1>3. TiersSpec => [][A]_tiervars
    BY <1>2, TierInvInductive, PTL DEF TiersSpec
  <1> QED
    BY <1>3 DEF A, AutoPromotionSettles

\* Counting the waiting entries of an object.
LEMMA WaitingOnce ==
  ASSUME NEW b \in Bodies, NEW ref
  PROVE  WaitingCount(b, ref) <= 1 <=> OneWaits(b, ref)
  <1> DEFINE S == PinsOf(b.staged, ref)
             T == PinsOf(b.candidates, ref)
             s == Cardinality(S)
             t == Cardinality(T)
  <1>1. IsFiniteSet(S) /\ IsFiniteSet(T)
    BY ModsFinite
  <1>2. /\ OnePinOf(b.staged, ref) <=> \A i, j \in S : i = j
        /\ OnePinOf(b.candidates, ref) <=> \A i, j \in T : i = j
        /\ Pinned(b.staged, ref) <=> S # {}
        /\ Pinned(b.candidates, ref) <=> T # {}
    BY DEF OnePinOf, PinsOf, Pinned
  <1>3. WaitingCount(b, ref) = s + t
    BY DEF WaitingCount
  <1> HIDE DEF S, T
  <1>4. ASSUME NEW X, IsFiniteSet(X)
        PROVE  /\ Cardinality(X) \in Nat
               /\ Cardinality(X) = 0 <=> X = {}
               /\ Cardinality(X) <= 1 <=> \A i, j \in X : i = j
    <2>1. Cardinality(X) \in Nat /\ (Cardinality(X) = 0 <=> X = {})
      BY <1>4, FS_CardinalityType, FS_EmptySet
    <2>2. Cardinality(X) = 1 <=> \E x : X = {x}
      BY <1>4, FS_Singleton
    <2>3. (\A i, j \in X : i = j) <=> X = {} \/ \E x : X = {x}
      OBVIOUS
    <2> QED
      BY <2>1, <2>2, <2>3
  <1>5. /\ s \in Nat /\ (s = 0 <=> S = {}) /\ (s <= 1 <=> \A i, j \in S : i = j)
        /\ t \in Nat /\ (t = 0 <=> T = {}) /\ (t <= 1 <=> \A i, j \in T : i = j)
    BY <1>1, <1>4
  <1> HIDE DEF s, t
  <1>6. s + t <= 1 <=> s <= 1 /\ t <= 1 /\ (s = 0 \/ t = 0)
    BY <1>5
  <1> QED
    BY <1>2, <1>3, <1>5, <1>6 DEF OneWaits

\* A synchronisation leaves a version of some member waiting, and under replace an object
\* with at most one waiting entry has at most one afterwards (processMemberSync and the
\* auto-promotion after it).
THEOREM SyncReplaces ==
  TiersSpec => SyncSupplants
  <1> DEFINE A == handler' = "sync" =>
                    /\ \E ref \in RefsOf(tiers.members) : WaitingMods(tiers', ref) # {}
                    /\ tiers.config.behavior = "replace" =>
                         \A ref \in Refs : WaitingCount(tiers, ref) <= 1 => WaitingCount(tiers', ref) <= 1
  <1>1. TierInv /\ TiersNext => A
    <2> SUFFICES ASSUME TierInv, TiersNext, handler' = "sync" PROVE A
      OBVIOUS
    <2>1. /\ tiers \in Bodies /\ tiers' \in Bodies
          /\ \E ref \in RefsOf(tiers.members) : WaitingMods(tiers', ref) # {}
          /\ tiers.config.behavior = "replace" => \A ref : OneWaits(tiers, ref) => OneWaits(tiers', ref)
      BY EveryStep DEF TierInv, Serves
    <2> QED
      BY <2>1, WaitingOnce
  <1>2. TierInv /\ [TiersNext]_tiervars => [A]_tiervars
    BY <1>1
  <1> HIDE DEF A
  <1>3. TiersSpec => [][A]_tiervars
    BY <1>2, TierInvInductive, PTL DEF TiersSpec
  <1> QED
    BY <1>3 DEF A, SyncSupplants

=============================================================================
