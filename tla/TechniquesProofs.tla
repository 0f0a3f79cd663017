-------------------------- MODULE TechniquesProofs --------------------------
(***************************************************************************)
(* Proofs about Techniques, for any objects and any bounds: types, and     *)
(* that a technique is not marked as revoked without a successor, for any  *)
(* number of requests; what the server promises a request that is alone,   *)
(* for any number of requests one after the other, each of which may be    *)
(* cut short or lose a save at any point.                                  *)
(***************************************************************************)
EXTENDS Techniques, Maxima, FiniteSetTheorems, SequenceTheorems, TLAPS

-----------------------------------------------------------------------------
\* The values of a function on a finite set are finitely many.
LEMMA FiniteImage ==
  ASSUME NEW D, IsFiniteSet(D), NEW f, NEW T \in SUBSET {f[i] : i \in D}
  PROVE  IsFiniteSet(T)
  <1> DEFINE g == [i \in D |-> f[i]]
             V == {f[i] : i \in D}
  <1>1. g \in Surjection(D, V)
    BY DEF Surjection
  <1>2. IsFiniteSet(V)
    <2> HIDE DEF g, V
    <2> QED
      BY <1>1, FS_Surjection
  <1> HIDE DEF V
  <1> QED
    BY <1>2, FS_Subset DEF V

-----------------------------------------------------------------------------
(***************************************************************************)
(* What is read from the store.                                            *)
(***************************************************************************)
LEMMA DocsFinite == ASSUME TypeOK PROVE IsFiniteSet(DOMAIN docs) /\ DOMAIN docs \in SUBSET Nat
  <1>1. Len(docs) \in Nat /\ DOMAIN docs = 1 .. Len(docs)
    BY DEF TypeOK
  <1> QED
    BY <1>1, FS_Interval

LEMMA StoredTyped ==
  ASSUME TypeOK, NEW i \in DOMAIN docs
  PROVE  docs[i] \in TechniqueDocument /\ docs[i].of \in Objects /\ docs[i].id \in AttackId
  <1>1. docs[i] \in TechniqueDocument
    BY DEF TypeOK
  <1> QED
    BY <1>1 DEF TechniqueDocument

LEMMA NewestOf ==
  ASSUME TypeOK, NEW I \in SUBSET DOMAIN docs, I # {}
  PROVE  Max(I) \in I /\ docs[Max(I)] \in TechniqueDocument
  <1>1. IsFiniteSet(I) /\ I \in SUBSET Nat
    BY DocsFinite, FS_Subset
  <1>2. Max(I) \in I
    BY <1>1, FiniteMax
  <1> QED
    BY <1>2 DEF TypeOK

\* The latest version of a stored technique is one of its versions.
LEMMA LatestTyped ==
  ASSUME TypeOK, NEW o \in Stored
  PROVE  /\ Latest(o) \in TechniqueDocument
         /\ Latest(o).of = o
         /\ \E i \in DOMAIN docs : Latest(o) = docs[i]
  <1>1. VersionsOf(o) \in SUBSET DOMAIN docs /\ VersionsOf(o) # {}
    BY DEF VersionsOf, Stored
  <1>2. Max(VersionsOf(o)) \in VersionsOf(o) /\ docs[Max(VersionsOf(o))] \in TechniqueDocument
    BY <1>1, NewestOf
  <1> QED
    BY <1>2 DEF Latest, VersionsOf

LEMMA FoundByTyped ==
  ASSUME TypeOK, NEW id, Bearers(id) # {}
  PROVE  FoundBy(id) \in Objects
  <1>1. Bearers(id) \in SUBSET DOMAIN docs
    BY DEF Bearers
  <1>2. docs[Max(Bearers(id))] \in TechniqueDocument
    BY <1>1, NewestOf
  <1> QED
    BY <1>2 DEF FoundBy, TechniqueDocument

\* An ATT&CK ID has a number, that of a subtechnique two.
LEMMA IdNumbers ==
  ASSUME NEW id \in AttackId
  PROVE  id[1] \in Nat /\ (Len(id) = 2 => id[2] \in Nat)
  BY DEF AttackId

LEMMA ShortId == ASSUME NEW n \in Nat PROVE <<n>> \in AttackId
  <1>1. <<n>> \in Seq(Nat) /\ Len(<<n>>) = 1
    OBVIOUS
  <1> QED
    BY <1>1 DEF AttackId

LEMMA LongId == ASSUME NEW n \in Nat, NEW k \in Nat PROVE <<n, k>> \in AttackId
  <1>1. <<n, k>> \in Seq(Nat) /\ Len(<<n, k>>) = 2
    OBVIOUS
  <1> QED
    BY <1>1 DEF AttackId

LEMMA MaxWithZero ==
  ASSUME NEW S \in SUBSET Nat, IsFiniteSet(S)
  PROVE  1 + Max({0} \cup S) \in Nat
  <1>1. IsFiniteSet({0} \cup S)
    <2>1. IsFiniteSet(S \cup {0}) /\ S \cup {0} = {0} \cup S
      BY FS_AddElement
    <2> QED
      BY <2>1
  <1>2. {0} \cup S \in SUBSET Nat /\ {0} \cup S # {}
    OBVIOUS
  <1>3. Max({0} \cup S) \in Nat
    BY <1>1, <1>2, FiniteMax
  <1> QED
    BY <1>3

LEMMA NextNumberTyped == ASSUME TypeOK PROVE <<NextNumber>> \in AttackId
  <1> DEFINE F == [i \in DOMAIN docs |-> docs[i].id[1]]
             N == {Latest(o).id[1] : o \in Active}
  <1>1. \A o \in Active : Latest(o) \in TechniqueDocument /\ \E i \in DOMAIN docs : Latest(o) = docs[i]
    BY LatestTyped DEF Active
  <1>2. N \in SUBSET Nat
    BY <1>1, IdNumbers DEF TechniqueDocument
  <1>3. N \in SUBSET {F[i] : i \in DOMAIN docs}
    BY <1>1
  <1>4. IsFiniteSet(N)
    <2> HIDE DEF F, N
    <2> QED
      BY <1>3, DocsFinite, FiniteImage
  <1>5. 1 + Max({0} \cup N) \in Nat
    <2> HIDE DEF N
    <2> QED
      BY <1>2, <1>4, MaxWithZero
  <1> QED
    BY <1>5, ShortId DEF NextNumber

LEMMA NextSubIdTyped == ASSUME TypeOK, NEW n \in Nat PROVE NextSubId(n) \in AttackId
  <1> DEFINE F == [i \in DOMAIN docs |-> docs[i].id[2]]
             N == {Latest(o).id[2] : o \in SubsUnder(n)}
  <1>1. \A o \in SubsUnder(n) : /\ Latest(o) \in TechniqueDocument /\ Len(Latest(o).id) = 2
                                /\ \E i \in DOMAIN docs : Latest(o) = docs[i]
    BY LatestTyped DEF SubsUnder
  <1>2. N \in SUBSET Nat
    BY <1>1, IdNumbers DEF TechniqueDocument
  <1>3. N \in SUBSET {F[i] : i \in DOMAIN docs}
    BY <1>1
  <1>4. IsFiniteSet(N)
    <2> HIDE DEF F, N
    <2> QED
      BY <1>3, DocsFinite, FiniteImage
  <1>5. 1 + Max({0} \cup N) \in Nat
    <2> HIDE DEF N
    <2> QED
      BY <1>2, <1>4, MaxWithZero
  <1> QED
    BY <1>5, LongId DEF NextSubId

-----------------------------------------------------------------------------
(***************************************************************************)
(* The inductive invariant.  A request carries a document it has read, or  *)
(* is to save: if that one is revoked, its successor is recorded.          *)
(***************************************************************************)
CarriedRecorded ==
  \A r \in Requests : req[r].phase # "idle" /\ req[r].doc.revoked => HasSuccessor(req[r].doc.of)

IInv == TypeOK /\ SuccessorRecorded /\ CarriedRecorded

\* What every step does, of request r or to the store: versions and relationships are
\* only added, relationships keep their type and ends, other requests are left alone.
Grows(r) ==
  /\ DOMAIN req' = Requests
  /\ \A s \in Requests \ {r} : req'[s] = req[s]
  /\ docs' \in Seq(TechniqueDocument)
  /\ \A i \in DOMAIN docs : i \in DOMAIN docs' /\ docs'[i] = docs[i]
  /\ rels' \in Seq(RelationshipDocument)
  /\ \A k \in DOMAIN rels : k \in DOMAIN rels' /\ Triple(rels'[k]) = Triple(rels[k])
  /\ cut \subseteq cut' /\ cut' \subseteq Objects

LEMMA StoredGrows == ASSUME NEW r, Grows(r) PROVE Stored \subseteq Stored'
  BY DEF Grows, Stored

\* A request that does nothing stays a request while the store grows.
LEMMA OtherRequests ==
  ASSUME TypeOK, NEW r \in Requests, Grows(r), NEW s \in Requests \ {r}
  PROVE  IsRequest(req[s])'
  <1>1. IsRequest(req[s]) /\ req'[s] = req[s]
    BY DEF TypeOK, Grows
  <1>2. \A k \in DOMAIN req[s].todo :
          /\ k \in DOMAIN rels'
          /\ req[s].todo[k] \in RelationshipDocument
          /\ Triple(req[s].todo[k]) = Triple(rels'[k])
    BY <1>1 DEF IsRequest, Grows
  <1> QED
    BY <1>1, <1>2, StoredGrows DEF IsRequest

\* Successors stay recorded, of the technique a request is about to link if it does.
LEMMA SuccessorsKept ==
  ASSUME TypeOK, NEW r \in Requests, Grows(r), NEW o, HasSuccessor(o),
         \A x : req[r].phase = "link" /\ req[r].doc.of = x => HasSuccessor(x)'
  PROVE  HasSuccessor(o)'
  <1>1. CASE o \in cut
    BY <1>1 DEF HasSuccessor, Grows
  <1>2. CASE \E k \in DOMAIN rels : rels[k].type = "revoked-by" /\ rels[k].src = o
    <2>1. PICK k \in DOMAIN rels : rels[k].type = "revoked-by" /\ rels[k].src = o
      BY <1>2
    <2>2. k \in DOMAIN rels' /\ rels'[k].type = rels[k].type /\ rels'[k].src = rels[k].src
      BY <2>1 DEF Grows, Triple
    <2> QED
      BY <2>1, <2>2 DEF HasSuccessor
  <1>3. CASE \E s \in Requests : req[s].phase = "link" /\ req[s].doc.of = o
    <2>1. PICK s \in Requests : req[s].phase = "link" /\ req[s].doc.of = o
      BY <1>3
    <2>2. CASE s = r
      BY <2>1, <2>2
    <2>3. CASE s # r
      BY <2>1, <2>3 DEF Grows, HasSuccessor
    <2> QED
      BY <2>2, <2>3
  <1> QED
    BY <1>1, <1>2, <1>3 DEF HasSuccessor

LEMMA IInvKept ==
  ASSUME IInv, NEW r \in Requests, Grows(r), IsRequest(req[r])',
         \A x : req[r].phase = "link" /\ req[r].doc.of = x => HasSuccessor(x)',
         \A i \in DOMAIN docs' \ DOMAIN docs : (docs[i].revoked => HasSuccessor(docs[i].of))',
         (req[r].phase # "idle" /\ req[r].doc.revoked => HasSuccessor(req[r].doc.of))'
  PROVE  IInv'
  <1>1. TypeOK'
    <2>1. \A s \in Requests : IsRequest(req[s])'
      BY OtherRequests DEF IInv
    <2> QED
      BY <2>1 DEF Grows, TypeOK
  <1>2. \A o : HasSuccessor(o) => HasSuccessor(o)'
    BY SuccessorsKept DEF IInv
  <1>3. SuccessorRecorded'
    <2> SUFFICES ASSUME NEW i \in DOMAIN docs', docs'[i].revoked
                 PROVE  HasSuccessor(docs[i].of)'
      BY DEF SuccessorRecorded
    <2>1. CASE i \in DOMAIN docs
      <3>1. docs'[i] = docs[i] /\ HasSuccessor(docs[i].of)
        BY <2>1 DEF IInv, SuccessorRecorded, Grows
      <3> QED
        BY <1>2, <3>1 DEF HasSuccessor
    <2>2. CASE i \notin DOMAIN docs
      BY <2>2
    <2> QED
      BY <2>1, <2>2
  <1>4. CarriedRecorded'
    <2> SUFFICES ASSUME NEW s \in Requests, (req[s].phase # "idle" /\ req[s].doc.revoked)'
                 PROVE  HasSuccessor(req[s].doc.of)'
      BY DEF CarriedRecorded
    <2>1. CASE s = r
      BY <2>1
    <2>2. CASE s # r
      <3>1. req'[s] = req[s] /\ HasSuccessor(req[s].doc.of)
        BY <2>2 DEF IInv, CarriedRecorded, Grows
      <3> QED
        BY <1>2, <3>1 DEF HasSuccessor
    <2> QED
      BY <2>1, <2>2
  <1> QED
    BY <1>1, <1>3, <1>4 DEF IInv

-----------------------------------------------------------------------------
(***************************************************************************)
(* Requests.                                                               *)
(***************************************************************************)
LEMMA OneRequestMoves ==
  ASSUME TypeOK, NEW r \in Requests, NEW q, Goes(r, q)
  PROVE  /\ DOMAIN req' = Requests
         /\ req'[r] = q
         /\ \A s \in Requests \ {r} : req'[s] = req[s]
  BY DEF Goes, TypeOK

LEMMA Moves ==
  ASSUME TypeOK, NEW r \in Requests, NEW q, Goes(r, q), UNCHANGED <<docs, rels, cut>>
  PROVE  Grows(r) /\ req'[r] = q /\ Stored' = Stored
  BY OneRequestMoves DEF Grows, TypeOK, Stored

LEMMA IdleFields ==
  Idle.phase = "idle" /\ Idle.op = "none" /\ Idle.under = 0 /\ Idle.todo = <<>>
  BY DEF Request, Idle

\* A request begins with the document it has read, or composes a new one.
LEMMA BeginTyped ==
  ASSUME IInv, NEW r \in Requests, req[r].phase = "idle", UNCHANGED <<docs, rels, cut>>,
         NEW q, Goes(r, q), DOMAIN q = DOMAIN Idle, q.under \in Nat, q.todo = <<>>,
         q.doc \in TechniqueDocument,
         q.phase \in Phases \ {"idle", "relate"},
         q.phase \in {"compose", "carry"} => q.doc.of \in Stored,
         q.op \in {"tosub", "revoke"} => q.other \in Objects,
         q.phase = "children" => q.op \in {"tosub", "revoke"},
         q.phase \in {"mark", "link", "list", "transfer"} => q.op = "revoke",
         q.doc.revoked => HasSuccessor(q.doc.of)
  PROVE  IInv'
  <1>1. Grows(r) /\ req'[r] = q /\ Stored' = Stored
    BY Moves DEF IInv
  <1>2. IsRequest(req[r])'
    BY <1>1 DEF IsRequest
  <1>3. q.doc.revoked => HasSuccessor(q.doc.of)'
    BY <1>1, SuccessorsKept DEF IInv
  <1>4. (req[r].phase # "idle" /\ req[r].doc.revoked => HasSuccessor(req[r].doc.of))'
    BY <1>1, <1>3 DEF HasSuccessor
  <1>5. DOMAIN docs' \ DOMAIN docs = {} /\ req[r].phase # "link"
    OBVIOUS
  <1> QED
    BY <1>1, <1>2, <1>4, <1>5, IInvKept

-----------------------------------------------------------------------------
(***************************************************************************)
(* The actions.                                                            *)
(***************************************************************************)
LEMMA LatestRecorded ==
  ASSUME IInv, NEW o \in Stored, Latest(o).revoked
  PROVE  HasSuccessor(o)
  BY LatestTyped DEF IInv, SuccessorRecorded

LEMMA BeginCreateKeeps ==
  ASSUME IInv, NEW r \in Requests, BeginCreate(r) PROVE IInv'
  <1>1. TypeOK /\ req[r].phase = "idle" /\ UNCHANGED <<docs, rels, cut>>
    BY DEF BeginCreate, Begins, IInv
  <1>2. PICK o \in FreshIds :
          \/ Goes(r, Request("save", "create", Technique(o, FALSE, <<NextNumber>>, FALSE), "none", FALSE))
          \/ \E p \in Stored :
               Goes(r, Request("save", "create",
                               Technique(o, TRUE, NextSubId(Latest(p).id[1]), FALSE), "none", FALSE))
    BY DEF BeginCreate
  <1>3. PICK sub \in BOOLEAN, id \in AttackId :
          Goes(r, Request("save", "create", Technique(o, sub, id, FALSE), "none", FALSE))
    <2>1. \A p \in Stored : NextSubId(Latest(p).id[1]) \in AttackId
      BY <1>1, LatestTyped, IdNumbers, NextSubIdTyped DEF TechniqueDocument
    <2> QED
      BY <1>1, <1>2, <2>1, NextNumberTyped
  <1> DEFINE d == Technique(o, sub, id, FALSE)
             q == Request("save", "create", d, "none", FALSE)
  <1>4. d \in TechniqueDocument /\ ~d.revoked
    BY DEF FreshIds, Technique, TechniqueDocument
  <1>5. /\ q.phase = "save" /\ q.op = "create" /\ q.doc = d
        /\ q.under = 0 /\ q.todo = <<>> /\ DOMAIN q = DOMAIN Idle
    <2> HIDE DEF d
    <2> QED
      BY DEF Request, Idle
  <1>6. Goes(r, q)
    BY <1>3
  <1> HIDE DEF d, q
  <1> QED
    BY <1>1, <1>4, <1>5, <1>6, BeginTyped DEF Phases

LEMMA BeginPostKeeps ==
  ASSUME IInv, NEW r \in Requests, BeginPost(r) PROVE IInv'
  <1>1. TypeOK /\ req[r].phase = "idle" /\ UNCHANGED <<docs, rels, cut>>
    BY DEF BeginPost, Begins, IInv
  <1>2. PICK o \in Stored : Goes(r, Request("compose", "post", Latest(o), "none", FALSE))
    BY DEF BeginPost
  <1> DEFINE d == Latest(o)
             q == Request("compose", "post", d, "none", FALSE)
  <1>3. d \in TechniqueDocument /\ d.of = o /\ (d.revoked => HasSuccessor(d.of))
    BY <1>1, LatestTyped, LatestRecorded
  <1>4. /\ q.phase = "compose" /\ q.op = "post" /\ q.doc = d
        /\ q.under = 0 /\ q.todo = <<>> /\ DOMAIN q = DOMAIN Idle
    <2> HIDE DEF d
    <2> QED
      BY DEF Request, Idle
  <1>5. Goes(r, q)
    BY <1>2
  <1> HIDE DEF d, q
  <1> QED
    BY <1>1, <1>3, <1>4, <1>5, BeginTyped DEF Phases

LEMMA BeginToSubKeeps ==
  ASSUME IInv, NEW r \in Requests, BeginToSub(r) PROVE IInv'
  <1>1. TypeOK /\ req[r].phase = "idle" /\ UNCHANGED <<docs, rels, cut>>
    BY DEF BeginToSub, Begins, IInv
  <1>2. PICK o \in Stored, n \in {docs[i].id[1] : i \in DOMAIN docs} :
          /\ ~Latest(o).revoked
          /\ Bearers(<<n>>) # {}
          /\ Goes(r, [Request("children", "tosub", Latest(o), FoundBy(<<n>>), FALSE)
                        EXCEPT !.under = n])
    BY DEF BeginToSub
  <1> DEFINE d == Latest(o)
             b == FoundBy(<<n>>)
             q == [Request("children", "tosub", d, b, FALSE) EXCEPT !.under = n]
  <1>3. n \in Nat
    <2>1. PICK i \in DOMAIN docs : n = docs[i].id[1]
      BY <1>2
    <2>2. docs[i].id \in AttackId
      BY <1>1, <2>1, StoredTyped
    <2> QED
      BY <2>1, <2>2, IdNumbers
  <1>4. b \in Objects
    BY <1>1, <1>2, FoundByTyped
  <1>5. d \in TechniqueDocument /\ ~d.revoked
    BY <1>1, <1>2, LatestTyped
  <1>6. Goes(r, q)
    BY <1>2
  <1>7. /\ q.phase = "children" /\ q.op = "tosub" /\ q.doc = d /\ q.other = b
        /\ q.under = n /\ q.todo = <<>> /\ DOMAIN q = DOMAIN Idle
    <2> HIDE DEF d, b
    <2> QED
      BY DEF Request, Idle
  <1> HIDE DEF d, b, q
  <1> QED
    BY <1>1, <1>3, <1>4, <1>5, <1>6, <1>7, BeginTyped DEF Phases

LEMMA BeginToTechniqueKeeps ==
  ASSUME IInv, NEW r \in Requests, BeginToTechnique(r) PROVE IInv'
  <1>1. TypeOK /\ req[r].phase = "idle" /\ UNCHANGED <<docs, rels, cut>>
    BY DEF BeginToTechnique, Begins, IInv
  <1>2. PICK o \in Stored :
          ~Latest(o).revoked /\ Goes(r, Request("number", "totech", Latest(o), "none", FALSE))
    BY DEF BeginToTechnique
  <1> DEFINE d == Latest(o)
             q == Request("number", "totech", d, "none", FALSE)
  <1>3. d \in TechniqueDocument /\ ~d.revoked
    BY <1>1, <1>2, LatestTyped
  <1>4. /\ q.phase = "number" /\ q.op = "totech" /\ q.doc = d
        /\ q.under = 0 /\ q.todo = <<>> /\ DOMAIN q = DOMAIN Idle
    <2> HIDE DEF d
    <2> QED
      BY DEF Request, Idle
  <1>5. Goes(r, q)
    BY <1>2
  <1> HIDE DEF d, q
  <1> QED
    BY <1>1, <1>3, <1>4, <1>5, BeginTyped DEF Phases

LEMMA BeginRevokeKeeps ==
  ASSUME IInv, NEW r \in Requests, BeginRevoke(r) PROVE IInv'
  <1>1. TypeOK /\ req[r].phase = "idle" /\ UNCHANGED <<docs, rels, cut>>
    BY DEF BeginRevoke, Begins, IInv
  <1>2. PICK o \in Stored, i \in DOMAIN docs, keep \in BOOLEAN, ph \in {"children", "mark"} :
          ~Latest(o).revoked /\ Goes(r, Request(ph, "revoke", Latest(o), docs[i].of, keep))
    BY DEF BeginRevoke
  <1> DEFINE d == Latest(o)
             b == docs[i].of
             q == Request(ph, "revoke", d, b, keep)
  <1>3. d \in TechniqueDocument /\ ~d.revoked
    BY <1>1, <1>2, LatestTyped
  <1>4. b \in Objects
    BY <1>1, StoredTyped
  <1>5. /\ q.phase = ph /\ q.op = "revoke" /\ q.doc = d /\ q.other = b
        /\ q.under = 0 /\ q.todo = <<>> /\ DOMAIN q = DOMAIN Idle
    <2> HIDE DEF d, b
    <2> QED
      BY DEF Request, Idle
  <1>6. Goes(r, q)
    BY <1>2
  <1> HIDE DEF d, b, q
  <1> QED
    BY <1>1, <1>3, <1>4, <1>5, <1>6, BeginTyped DEF Phases

\* A step that writes nothing.
LEMMA MoveKeeps ==
  ASSUME IInv, NEW r \in Requests, UNCHANGED <<docs, rels, cut>>, req[r].phase # "link",
         NEW q, Goes(r, q), IsRequest(q),
         q.phase # "idle" /\ q.doc.revoked => HasSuccessor(q.doc.of)
  PROVE  IInv'
  <1>1. Grows(r) /\ req'[r] = q /\ Stored' = Stored
    BY Moves DEF IInv
  <1>2. IsRequest(req[r])'
    BY <1>1 DEF IsRequest
  <1>3. q.phase # "idle" /\ q.doc.revoked => HasSuccessor(q.doc.of)'
    BY <1>1, SuccessorsKept DEF IInv
  <1>4. (req[r].phase # "idle" /\ req[r].doc.revoked => HasSuccessor(req[r].doc.of))'
    BY <1>1, <1>3 DEF HasSuccessor
  <1>5. DOMAIN docs' \ DOMAIN docs = {}
    OBVIOUS
  <1> QED
    BY <1>1, <1>2, <1>4, <1>5, IInvKept

\* What is known of a request under way.
LEMMA UnderWay ==
  ASSUME IInv, NEW r \in Requests, req[r].phase # "idle"
  PROVE  /\ IsRequest(req[r]) /\ DOMAIN req[r] = DOMAIN Idle
         /\ req[r].doc \in TechniqueDocument /\ req[r].doc.of \in Objects
         /\ req[r].doc.revoked => HasSuccessor(req[r].doc.of)
  <1>1. IsRequest(req[r]) /\ (req[r].doc.revoked => HasSuccessor(req[r].doc.of))
    BY DEF IInv, TypeOK, CarriedRecorded
  <1>2. DOMAIN req[r] = DOMAIN Idle /\ req[r].doc \in TechniqueDocument
    BY <1>1 DEF IsRequest
  <1> QED
    BY <1>1, <1>2 DEF TechniqueDocument

LEMMA PhaseFields ==
  ASSUME NEW q, DOMAIN q = DOMAIN Idle, NEW ph, NEW p, p = [q EXCEPT !.phase = ph]
  PROVE  /\ p.phase = ph /\ p.op = q.op /\ p.doc = q.doc /\ p.other = q.other
         /\ p.under = q.under /\ p.todo = q.todo /\ DOMAIN p = DOMAIN Idle
  BY DEF Request, Idle

LEMMA EndsKeeps ==
  ASSUME IInv, NEW r \in Requests, UNCHANGED <<docs, rels, cut>>, req[r].phase # "link", Ends(r)
  PROVE  IInv'
  <1>1. IsRequest(Idle) /\ Idle.phase = "idle"
    BY IdleFields DEF IsRequest, Phases
  <1> QED
    BY <1>1, MoveKeeps DEF Ends

LEMMA ComposeKeeps ==
  ASSUME IInv, NEW r \in Requests, Compose(r) PROVE IInv'
  <1> DEFINE q == req[r]
             x == Latest(q.doc.of).id
             p == [q EXCEPT !.phase = "carry", !.doc.id = x]
  <1>1. q.phase = "compose" /\ Goes(r, p) /\ UNCHANGED <<docs, rels, cut>>
    BY DEF Compose
  <1>2. /\ IsRequest(q) /\ DOMAIN q = DOMAIN Idle /\ q.doc \in TechniqueDocument
        /\ q.doc.revoked => HasSuccessor(q.doc.of)
    BY <1>1, UnderWay
  <1>3. q.doc.of \in Stored
    BY <1>1, <1>2 DEF IsRequest
  <1>4. x \in AttackId
    BY <1>3, LatestTyped DEF IInv, TechniqueDocument
  <1>5. /\ p.phase = "carry" /\ p.op = q.op /\ p.doc = [q.doc EXCEPT !.id = x] /\ p.other = q.other
        /\ p.under = q.under /\ p.todo = q.todo /\ DOMAIN p = DOMAIN Idle
    <2> HIDE DEF q, x
    <2> QED
      BY <1>2 DEF Request, Idle
  <1>6. p.doc \in TechniqueDocument /\ p.doc.of = q.doc.of /\ p.doc.revoked = q.doc.revoked
    <2> HIDE DEF q, x, p
    <2> QED
      BY <1>2, <1>4, <1>5 DEF TechniqueDocument
  <1>7. IsRequest(p)
    <2> HIDE DEF q, x, p
    <2> QED
      BY <1>1, <1>2, <1>3, <1>5, <1>6 DEF IsRequest, Phases
  <1> HIDE DEF p, x
  <1> QED
    BY <1>1, <1>2, <1>6, <1>7, MoveKeeps

LEMMA CarryKeeps ==
  ASSUME IInv, NEW r \in Requests, Carry(r) PROVE IInv'
  <1> DEFINE q == req[r]
             x == Latest(q.doc.of).revoked
             p == [q EXCEPT !.phase = "save", !.doc.revoked = x]
  <1>1. q.phase = "carry" /\ Goes(r, p) /\ UNCHANGED <<docs, rels, cut>>
    BY DEF Carry
  <1>2. IsRequest(q) /\ DOMAIN q = DOMAIN Idle /\ q.doc \in TechniqueDocument
    BY <1>1, UnderWay
  <1>3. q.doc.of \in Stored
    BY <1>1, <1>2 DEF IsRequest
  <1>4. x \in BOOLEAN /\ (x => HasSuccessor(q.doc.of))
    BY <1>3, LatestTyped, LatestRecorded DEF IInv, TechniqueDocument
  <1>5. /\ p.phase = "save" /\ p.op = q.op /\ p.doc = [q.doc EXCEPT !.revoked = x] /\ p.other = q.other
        /\ p.under = q.under /\ p.todo = q.todo /\ DOMAIN p = DOMAIN Idle
    <2> HIDE DEF q, x
    <2> QED
      BY <1>2 DEF Request, Idle
  <1>6. p.doc \in TechniqueDocument /\ p.doc.of = q.doc.of /\ p.doc.revoked = x
    <2> HIDE DEF q, x, p
    <2> QED
      BY <1>2, <1>4, <1>5 DEF TechniqueDocument
  <1>7. IsRequest(p)
    <2> HIDE DEF q, x, p
    <2> QED
      BY <1>1, <1>2, <1>3, <1>5, <1>6 DEF IsRequest, Phases
  <1> HIDE DEF p, x
  <1> QED
    BY <1>1, <1>4, <1>6, <1>7, MoveKeeps

LEMMA CheckChildrenKeeps ==
  ASSUME IInv, NEW r \in Requests, CheckChildren(r) PROVE IInv'
  <1> DEFINE q == req[r]
             ph == IF q.op = "revoke" THEN "mark" ELSE "number"
             p == [q EXCEPT !.phase = ph]
  <1>1. q.phase = "children" /\ (Ends(r) \/ Goes(r, p)) /\ UNCHANGED <<docs, rels, cut>>
    BY DEF CheckChildren
  <1>2. /\ IsRequest(q) /\ DOMAIN q = DOMAIN Idle /\ q.doc \in TechniqueDocument
        /\ q.doc.revoked => HasSuccessor(q.doc.of)
    BY <1>1, UnderWay
  <1>3. /\ p.phase = ph /\ p.op = q.op /\ p.doc = q.doc /\ p.other = q.other
        /\ p.under = q.under /\ p.todo = q.todo /\ DOMAIN p = DOMAIN Idle
    BY <1>2, PhaseFields
  <1>4. IsRequest(p)
    <2> HIDE DEF q, p
    <2> QED
      BY <1>1, <1>2, <1>3 DEF IsRequest, Phases
  <1>5. CASE Ends(r)
    BY <1>1, <1>5, EndsKeeps
  <1>6. CASE Goes(r, p)
    <2> HIDE DEF p
    <2> QED
      BY <1>1, <1>2, <1>3, <1>4, <1>6, MoveKeeps
  <1> QED
    BY <1>1, <1>5, <1>6

LEMMA NumberKeeps ==
  ASSUME IInv, NEW r \in Requests, Number(r) PROVE IInv'
  <1> DEFINE q == req[r]
             sub == q.op = "tosub"
             id == IF sub THEN NextSubId(q.under) ELSE <<NextNumber>>
             p == [q EXCEPT !.phase = "save", !.doc.sub = sub, !.doc.id = id]
  <1>1. q.phase = "number" /\ Goes(r, p) /\ UNCHANGED <<docs, rels, cut>>
    <2>1. CASE q.op = "tosub"
      BY <2>1 DEF Number, AsSubtechnique
    <2>2. CASE q.op # "tosub"
      BY <2>2 DEF Number, AsTechnique
    <2> QED
      BY <2>1, <2>2
  <1>2. /\ IsRequest(q) /\ DOMAIN q = DOMAIN Idle /\ q.doc \in TechniqueDocument
        /\ q.doc.revoked => HasSuccessor(q.doc.of)
    BY <1>1, UnderWay
  <1>3. q.under \in Nat
    BY <1>2 DEF IsRequest
  <1>4. id \in AttackId /\ sub \in BOOLEAN
    BY <1>3, NextSubIdTyped, NextNumberTyped DEF IInv
  <1>5. /\ p.phase = "save" /\ p.op = q.op /\ p.doc = [[q.doc EXCEPT !.sub = sub] EXCEPT !.id = id]
        /\ p.other = q.other /\ p.under = q.under /\ p.todo = q.todo /\ DOMAIN p = DOMAIN Idle
    <2> HIDE DEF q, id, sub
    <2> QED
      BY <1>2 DEF Request, Idle
  <1>6. p.doc \in TechniqueDocument /\ p.doc.of = q.doc.of /\ p.doc.revoked = q.doc.revoked
    <2> HIDE DEF q, id, sub, p
    <2> QED
      BY <1>2, <1>4, <1>5 DEF TechniqueDocument
  <1>7. IsRequest(p)
    <2> HIDE DEF q, id, sub, p
    <2> QED
      BY <1>1, <1>2, <1>5, <1>6 DEF IsRequest, Phases
  <1> HIDE DEF p, id, sub
  <1> QED
    BY <1>1, <1>2, <1>6, <1>7, MoveKeeps

LEMMA TransferredKeeps ==
  ASSUME IInv, NEW r \in Requests, Transferred(r) PROVE IInv'
  <1> DEFINE q == req[r]
             p == [q EXCEPT !.phase = "settle"]
  <1>1. q.phase = "transfer" /\ Goes(r, p) /\ UNCHANGED <<docs, rels, cut>>
    BY DEF Transferred
  <1>2. /\ IsRequest(q) /\ DOMAIN q = DOMAIN Idle /\ q.doc \in TechniqueDocument
        /\ q.doc.revoked => HasSuccessor(q.doc.of)
    BY <1>1, UnderWay
  <1>3. /\ p.phase = "settle" /\ p.op = q.op /\ p.doc = q.doc /\ p.other = q.other
        /\ p.under = q.under /\ p.todo = q.todo /\ DOMAIN p = DOMAIN Idle
    BY <1>2, PhaseFields
  <1>4. IsRequest(p)
    <2> HIDE DEF q, p
    <2> QED
      BY <1>1, <1>2, <1>3 DEF IsRequest, Phases
  <1> HIDE DEF p
  <1> QED
    BY <1>1, <1>2, <1>3, <1>4, MoveKeeps

\* The relationships a request lists, to transfer or to deprecate them.
LEMMA CopiesTyped ==
  ASSUME TypeOK, NEW ks \in SUBSET DOMAIN rels
  PROVE  \A k \in DOMAIN Copies(ks) : /\ k \in DOMAIN rels
                                      /\ Copies(ks)[k] \in RelationshipDocument
                                      /\ Triple(Copies(ks)[k]) = Triple(rels[k])
  BY DEF Copies, TypeOK

LEMMA ListRelationshipsKeeps ==
  ASSUME IInv, NEW r \in Requests, ListRelationships(r) PROVE IInv'
  <1> DEFINE q == req[r]
             ks == Touching(q.doc.of) \ {q.link}
             kn == {Triple(rels[k]) : k \in Touching(q.other)}
             p == [q EXCEPT !.phase = "transfer", !.todo = Copies(ks), !.known = kn]
  <1>1. q.phase = "list" /\ Goes(r, p) /\ UNCHANGED <<docs, rels, cut>>
    BY DEF ListRelationships
  <1>2. /\ IsRequest(q) /\ DOMAIN q = DOMAIN Idle /\ q.doc \in TechniqueDocument
        /\ q.doc.revoked => HasSuccessor(q.doc.of)
    BY <1>1, UnderWay
  <1>3. /\ p.phase = "transfer" /\ p.op = q.op /\ p.doc = q.doc /\ p.other = q.other
        /\ p.under = q.under /\ p.todo = Copies(ks) /\ DOMAIN p = DOMAIN Idle
    <2> HIDE DEF q, ks, kn
    <2> QED
      BY <1>2 DEF Request, Idle
  <1>4. ks \in SUBSET DOMAIN rels
    BY DEF Touching
  <1>5. IsRequest(p)
    <2> HIDE DEF q, ks, kn, p
    <2> QED
      BY <1>1, <1>2, <1>3, <1>4, CopiesTyped DEF IsRequest, Phases, IInv
  <1> HIDE DEF p, ks, kn
  <1> QED
    BY <1>1, <1>2, <1>3, <1>5, MoveKeeps

LEMMA SettleKeeps ==
  ASSUME IInv, NEW r \in Requests, Settle(r) PROVE IInv'
  <1> DEFINE q == req[r]
             ks == ToDeprecate(r)
             p == [q EXCEPT !.phase = "deprecate", !.todo = Copies(ks)]
  <1>1. q.phase = "settle" /\ Goes(r, p) /\ UNCHANGED <<docs, rels, cut>>
    BY DEF Settle
  <1>2. /\ IsRequest(q) /\ DOMAIN q = DOMAIN Idle /\ q.doc \in TechniqueDocument
        /\ q.doc.revoked => HasSuccessor(q.doc.of)
    BY <1>1, UnderWay
  <1>3. /\ p.phase = "deprecate" /\ p.op = q.op /\ p.doc = q.doc /\ p.other = q.other
        /\ p.under = q.under /\ p.todo = Copies(ks) /\ DOMAIN p = DOMAIN Idle
    <2> HIDE DEF q, ks
    <2> QED
      BY <1>2 DEF Request, Idle
  <1>4. ks \in SUBSET DOMAIN rels
    BY DEF ToDeprecate, Touching, ParentLinks
  <1>5. IsRequest(p)
    <2> HIDE DEF q, ks, p
    <2> QED
      BY <1>1, <1>2, <1>3, <1>4, CopiesTyped DEF IsRequest, Phases, IInv
  <1> HIDE DEF p, ks
  <1> QED
    BY <1>1, <1>2, <1>3, <1>5, MoveKeeps

\* One relationship less to handle.
LEMMA HandledTyped ==
  ASSUME IInv, NEW r \in Requests, req[r].phase # "idle", NEW k
  PROVE  /\ IsRequest(Handled(r, k)) /\ DOMAIN Handled(r, k) = DOMAIN Idle
         /\ Handled(r, k).phase = req[r].phase /\ Handled(r, k).doc = req[r].doc
         /\ Handled(r, k).doc.revoked => HasSuccessor(Handled(r, k).doc.of)
  <1> DEFINE q == req[r]
             t == Restrict(q.todo, DOMAIN q.todo \ {k})
             p == [q EXCEPT !.todo = t]
  <1>1. /\ IsRequest(q) /\ DOMAIN q = DOMAIN Idle /\ q.doc \in TechniqueDocument
        /\ q.doc.revoked => HasSuccessor(q.doc.of)
    BY UnderWay
  <1>2. /\ p.phase = q.phase /\ p.op = q.op /\ p.doc = q.doc /\ p.other = q.other
        /\ p.under = q.under /\ p.todo = t /\ DOMAIN p = DOMAIN Idle
    <2> HIDE DEF q, t
    <2> QED
      BY <1>1 DEF Request, Idle
  <1>3. \A j \in DOMAIN t : j \in DOMAIN q.todo /\ t[j] = q.todo[j]
    BY DEF Restrict
  <1>4. IsRequest(p)
    <2> HIDE DEF q, t, p
    <2> QED
      BY <1>1, <1>2, <1>3 DEF IsRequest
  <1>5. Handled(r, k) = p
    BY DEF Handled
  <1> HIDE DEF p, t
  <1> QED
    BY <1>1, <1>2, <1>4, <1>5

LEMMA LeaveBehindKeeps ==
  ASSUME IInv, NEW r \in Requests, NEW k, LeaveBehind(r, k) PROVE IInv'
  <1>1. req[r].phase = "transfer" /\ Goes(r, Handled(r, k)) /\ UNCHANGED <<docs, rels, cut>>
    BY DEF LeaveBehind
  <1> QED
    BY <1>1, HandledTyped, MoveKeeps

LEMMA SettledKeeps ==
  ASSUME IInv, NEW r \in Requests, Settled(r) PROVE IInv'
  BY EndsKeeps DEF Settled

\* A step that writes.
LEMMA StepKeeps ==
  ASSUME IInv, NEW r \in Requests, Grows(r), NEW q, req'[r] = q, IsRequest(q),
         \A x : req[r].phase = "link" /\ req[r].doc.of = x => HasSuccessor(x)',
         \A i \in DOMAIN docs' \ DOMAIN docs : (docs[i].revoked => HasSuccessor(docs[i].of))',
         q.phase # "idle" /\ q.doc.revoked => HasSuccessor(q.doc.of)
  PROVE  IInv'
  <1>1. \A k \in DOMAIN q.todo :
          /\ k \in DOMAIN rels'
          /\ q.todo[k] \in RelationshipDocument
          /\ Triple(q.todo[k]) = Triple(rels'[k])
    BY DEF IsRequest, Grows
  <1>2. IsRequest(req[r])'
    BY <1>1, StoredGrows DEF IsRequest
  <1>3. q.phase # "idle" /\ q.doc.revoked => HasSuccessor(q.doc.of)'
    BY SuccessorsKept DEF IInv
  <1>4. (req[r].phase # "idle" /\ req[r].doc.revoked => HasSuccessor(req[r].doc.of))'
    BY <1>3 DEF HasSuccessor
  <1> QED
    BY <1>2, <1>4, IInvKept

LEMMA DocAdded ==
  ASSUME TypeOK, NEW r \in Requests, NEW d \in TechniqueDocument, docs' = Append(docs, d),
         UNCHANGED <<rels, cut>>, NEW q, Goes(r, q)
  PROVE  /\ Grows(r) /\ req'[r] = q
         /\ \A i \in DOMAIN docs' \ DOMAIN docs : docs'[i] = d
  <1>1. /\ docs' \in Seq(TechniqueDocument)
        /\ \A i \in DOMAIN docs : i \in DOMAIN docs' /\ docs'[i] = docs[i]
        /\ \A i \in DOMAIN docs' \ DOMAIN docs : docs'[i] = d
    BY DEF TypeOK
  <1> QED
    BY <1>1, OneRequestMoves DEF Grows, TypeOK

LEMMA RelationshipAdded ==
  ASSUME TypeOK, NEW r \in Requests, NEW rel \in RelationshipDocument, rels' = Append(rels, rel),
         UNCHANGED <<docs, cut>>, DOMAIN req' = Requests,
         \A s \in Requests \ {r} : req'[s] = req[s]
  PROVE  /\ Grows(r) /\ DOMAIN docs' \ DOMAIN docs = {}
         /\ \E k \in DOMAIN rels' : rels'[k] = rel
  <1>1. /\ rels' \in Seq(RelationshipDocument)
        /\ \A k \in DOMAIN rels : k \in DOMAIN rels' /\ rels'[k] = rels[k]
        /\ Len(rels) + 1 \in DOMAIN rels' /\ rels'[Len(rels) + 1] = rel
    BY DEF TypeOK
  <1> QED
    BY <1>1 DEF Grows, TypeOK

LEMMA SaveKeeps ==
  ASSUME IInv, NEW r \in Requests, Save(r) PROVE IInv'
  <1> DEFINE q == req[r]
             ph == AfterSave(q.op)
             p == [q EXCEPT !.phase = ph]
  <1>1. /\ q.phase = "save" /\ docs' = Append(docs, q.doc) /\ UNCHANGED <<rels, cut>>
        /\ IF ph = "idle" THEN Ends(r) ELSE Goes(r, p)
    BY DEF Save
  <1>2. /\ IsRequest(q) /\ DOMAIN q = DOMAIN Idle /\ q.doc \in TechniqueDocument
        /\ q.doc.revoked => HasSuccessor(q.doc.of)
    BY <1>1, UnderWay
  <1>3. ASSUME NEW z, Goes(r, z), IsRequest(z),
               z.phase # "idle" /\ z.doc.revoked => HasSuccessor(z.doc.of)
        PROVE  IInv'
    <2>1. /\ Grows(r) /\ req'[r] = z
          /\ \A i \in DOMAIN docs' \ DOMAIN docs : docs'[i] = q.doc
      BY <1>1, <1>2, <1>3, DocAdded DEF IInv
    <2>2. \A x : q.doc.revoked /\ q.doc.of = x => HasSuccessor(x)'
      BY <1>1, <1>2, <2>1, SuccessorsKept DEF IInv
    <2>3. \A i \in DOMAIN docs' \ DOMAIN docs : (docs[i].revoked => HasSuccessor(docs[i].of))'
      BY <2>1, <2>2 DEF HasSuccessor
    <2> QED
      BY <1>1, <1>3, <2>1, <2>3, StepKeeps
  <1>4. CASE ph = "idle"
    <2>1. Goes(r, Idle) /\ IsRequest(Idle) /\ Idle.phase = "idle"
      BY <1>1, <1>4, IdleFields DEF Ends, IsRequest, Phases
    <2> QED
      BY <1>3, <2>1
  <1>5. CASE ph # "idle"
    <2>1. ph \in {"relate", "settle"} /\ (ph = "relate" => q.op = "tosub")
      BY <1>5 DEF AfterSave
    <2>2. /\ p.phase = ph /\ p.op = q.op /\ p.doc = q.doc /\ p.other = q.other
          /\ p.under = q.under /\ p.todo = q.todo /\ DOMAIN p = DOMAIN Idle
      BY <1>2, PhaseFields
    <2>3. IsRequest(p)
      <3> HIDE DEF q, ph, p
      <3> QED
        BY <1>2, <2>1, <2>2 DEF IsRequest, Phases
    <2> HIDE DEF p
    <2> QED
      BY <1>1, <1>2, <1>3, <1>5, <2>2, <2>3
  <1> QED
    BY <1>4, <1>5

LEMMA MarkKeeps ==
  ASSUME IInv, NEW r \in Requests, Mark(r) PROVE IInv'
  <1> DEFINE q == req[r]
             d == [q.doc EXCEPT !.revoked = TRUE]
             p == [q EXCEPT !.phase = "link"]
  <1>1. q.phase = "mark" /\ docs' = Append(docs, d) /\ UNCHANGED <<rels, cut>> /\ Goes(r, p)
    BY DEF Mark
  <1>2. /\ IsRequest(q) /\ DOMAIN q = DOMAIN Idle /\ q.doc \in TechniqueDocument
        /\ q.doc.revoked => HasSuccessor(q.doc.of)
    BY <1>1, UnderWay
  <1>3. d \in TechniqueDocument /\ d.of = q.doc.of
    <2> HIDE DEF q
    <2> QED
      BY <1>2 DEF TechniqueDocument
  <1>4. /\ p.phase = "link" /\ p.op = q.op /\ p.doc = q.doc /\ p.other = q.other
        /\ p.under = q.under /\ p.todo = q.todo /\ DOMAIN p = DOMAIN Idle
    BY <1>2, PhaseFields
  <1>5. IsRequest(p)
    <2> HIDE DEF q, p
    <2> QED
      BY <1>1, <1>2, <1>4 DEF IsRequest, Phases
  <1> HIDE DEF d, p
  <1>6. Grows(r) /\ req'[r] = p /\ \A i \in DOMAIN docs' \ DOMAIN docs : docs'[i] = d
    BY <1>1, <1>3, DocAdded DEF IInv
  <1>7. \A x : d.of = x => HasSuccessor(x)'
    BY <1>3, <1>4, <1>6 DEF HasSuccessor
  <1>8. \A i \in DOMAIN docs' \ DOMAIN docs : (docs[i].revoked => HasSuccessor(docs[i].of))'
    BY <1>6, <1>7 DEF HasSuccessor
  <1> QED
    BY <1>1, <1>2, <1>4, <1>5, <1>6, <1>8, StepKeeps

LEMMA LinkKeeps ==
  ASSUME IInv, NEW r \in Requests, Link(r) PROVE IInv'
  <1> DEFINE q == req[r]
             rel == Relationship("revoked-by", q.doc.of, q.other)
             n == Len(rels) + 1
             ph == IF q.keep THEN "list" ELSE "settle"
             p == [q EXCEPT !.link = n, !.phase = ph]
  <1>1. q.phase = "link" /\ rels' = Append(rels, rel) /\ UNCHANGED <<docs, cut>> /\ Goes(r, p)
    BY DEF Link
  <1>2. /\ IsRequest(q) /\ DOMAIN q = DOMAIN Idle /\ q.doc.of \in Objects
        /\ q.doc.revoked => HasSuccessor(q.doc.of)
    BY <1>1, UnderWay
  <1>3. q.op = "revoke" /\ q.other \in Objects
    BY <1>1, <1>2 DEF IsRequest
  <1>4. rel \in RelationshipDocument /\ rel.type = "revoked-by" /\ rel.src = q.doc.of
    <2> HIDE DEF q
    <2> QED
      BY <1>2, <1>3 DEF Relationship, RelationshipDocument
  <1>5. /\ p.phase = ph /\ p.op = q.op /\ p.doc = q.doc /\ p.other = q.other
        /\ p.under = q.under /\ p.todo = q.todo /\ DOMAIN p = DOMAIN Idle
    <2> HIDE DEF q, n, ph
    <2> QED
      BY <1>2 DEF Request, Idle
  <1>6. IsRequest(p)
    <2>1. ph \in {"list", "settle"}
      OBVIOUS
    <2> HIDE DEF q, n, ph, p
    <2> QED
      BY <1>1, <1>2, <1>3, <1>5, <2>1 DEF IsRequest, Phases
  <1> HIDE DEF rel, n, ph, p
  <1>7. /\ DOMAIN req' = Requests /\ req'[r] = p
        /\ \A s \in Requests \ {r} : req'[s] = req[s]
    BY <1>1, OneRequestMoves DEF IInv
  <1>8. /\ Grows(r) /\ DOMAIN docs' \ DOMAIN docs = {}
        /\ \E k \in DOMAIN rels' : rels'[k] = rel
    BY <1>1, <1>4, <1>7, RelationshipAdded DEF IInv
  <1>9. \A x : q.phase = "link" /\ q.doc.of = x => HasSuccessor(x)'
    BY <1>4, <1>8 DEF HasSuccessor
  <1> QED
    BY <1>2, <1>5, <1>6, <1>7, <1>8, <1>9, StepKeeps

LEMMA RelateParentKeeps ==
  ASSUME IInv, NEW r \in Requests, RelateParent(r) PROVE IInv'
  <1> DEFINE q == req[r]
             rel == Relationship("subtechnique-of", q.doc.of, q.other)
  <1>1. q.phase = "relate" /\ rels' = Append(rels, rel) /\ UNCHANGED <<docs, cut>> /\ Goes(r, Idle)
    BY DEF RelateParent, Ends
  <1>2. IsRequest(q) /\ q.doc.of \in Objects
    BY <1>1, UnderWay
  <1>3. q.other \in Objects
    BY <1>1, <1>2 DEF IsRequest
  <1>4. rel \in RelationshipDocument
    <2> HIDE DEF q
    <2> QED
      BY <1>2, <1>3 DEF Relationship, RelationshipDocument
  <1>5. IsRequest(Idle) /\ Idle.phase = "idle"
    BY IdleFields DEF IsRequest, Phases
  <1>6. /\ DOMAIN req' = Requests /\ req'[r] = Idle
        /\ \A s \in Requests \ {r} : req'[s] = req[s]
    BY <1>1, OneRequestMoves DEF IInv
  <1> HIDE DEF rel
  <1>7. Grows(r) /\ DOMAIN docs' \ DOMAIN docs = {}
    BY <1>1, <1>4, <1>6, RelationshipAdded DEF IInv
  <1> QED
    BY <1>1, <1>5, <1>6, <1>7, StepKeeps

LEMMA TransferKeeps ==
  ASSUME IInv, NEW r \in Requests, NEW k \in DOMAIN req[r].todo, Transfer(r, k) PROVE IInv'
  <1> DEFINE q == req[r]
             rel == Moved(r, k)
             h == Handled(r, k)
             kn == h.known \cup {Triple(Moved(r, k))}
             p == [h EXCEPT !.known = kn]
  <1>1. q.phase = "transfer" /\ rels' = Append(rels, rel) /\ UNCHANGED <<docs, cut>> /\ Goes(r, p)
    BY DEF Transfer
  <1>2. IsRequest(q) /\ q.doc.of \in Objects
    BY <1>1, UnderWay
  <1>3. q.other \in Objects /\ q.todo[k] \in RelationshipDocument
    BY <1>1, <1>2 DEF IsRequest
  <1>4. rel \in RelationshipDocument
    <2> DEFINE t == q.todo[k]
               x == IF t.src = q.doc.of THEN q.other ELSE t.src
               y == IF t.tgt = q.doc.of THEN q.other ELSE t.tgt
    <2>1. x \in Objects \cup Others /\ y \in Objects \cup Others
      BY <1>2, <1>3 DEF RelationshipDocument
    <2>2. rel = [[t EXCEPT !.src = x] EXCEPT !.tgt = y]
      BY <1>3 DEF Moved, Substituted, RelationshipDocument
    <2> HIDE DEF q, t, x, y, rel
    <2>3. t \in RelationshipDocument
      BY <1>3 DEF t
    <2> QED
      BY <2>1, <2>2, <2>3 DEF RelationshipDocument
  <1>5. /\ IsRequest(h) /\ DOMAIN h = DOMAIN Idle
        /\ h.phase = "transfer"
        /\ h.doc.revoked => HasSuccessor(h.doc.of)
    BY <1>1, HandledTyped
  <1>6. /\ p.phase = h.phase /\ p.op = h.op /\ p.doc = h.doc /\ p.other = h.other
        /\ p.under = h.under /\ p.todo = h.todo /\ DOMAIN p = DOMAIN Idle
    <2> HIDE DEF h, kn
    <2> QED
      BY <1>5 DEF Request, Idle
  <1>7. IsRequest(p)
    <2> HIDE DEF h, kn, p
    <2> QED
      BY <1>5, <1>6 DEF IsRequest
  <1> HIDE DEF rel, h, kn, p
  <1>8. /\ DOMAIN req' = Requests /\ req'[r] = p
        /\ \A s \in Requests \ {r} : req'[s] = req[s]
    BY <1>1, OneRequestMoves DEF IInv
  <1>9. Grows(r) /\ DOMAIN docs' \ DOMAIN docs = {}
    BY <1>1, <1>4, <1>8, RelationshipAdded DEF IInv
  <1> QED
    BY <1>1, <1>5, <1>6, <1>7, <1>8, <1>9, StepKeeps

LEMMA DeprecateKeeps ==
  ASSUME IInv, NEW r \in Requests, NEW k \in DOMAIN req[r].todo, Deprecate(r, k) PROVE IInv'
  <1> DEFINE q == req[r]
             rel == [q.todo[k] EXCEPT !.deprecated = TRUE]
             h == Handled(r, k)
  <1>1. q.phase = "deprecate" /\ rels' = [rels EXCEPT ![k] = rel] /\ UNCHANGED <<docs, cut>> /\ Goes(r, h)
    BY DEF Deprecate
  <1>2. IsRequest(q)
    BY <1>1, UnderWay
  <1>3. k \in DOMAIN rels /\ q.todo[k] \in RelationshipDocument /\ Triple(q.todo[k]) = Triple(rels[k])
    BY <1>2 DEF IsRequest
  <1>4. rel \in RelationshipDocument /\ Triple(rel) = Triple(rels[k])
    <2> DEFINE t == q.todo[k]
    <2>1. t \in RelationshipDocument /\ Triple(t) = Triple(rels[k])
      BY <1>3
    <2> HIDE DEF t
    <2>2. [t EXCEPT !.deprecated = TRUE] \in RelationshipDocument /\ Triple([t EXCEPT !.deprecated = TRUE]) = Triple(t)
      BY <2>1 DEF RelationshipDocument, Triple
    <2> QED
      BY <2>1, <2>2 DEF t
  <1>5. IsRequest(h) /\ (h.doc.revoked => HasSuccessor(h.doc.of))
    BY <1>1, HandledTyped
  <1> HIDE DEF rel, h
  <1>6. /\ DOMAIN req' = Requests /\ req'[r] = h
        /\ \A s \in Requests \ {r} : req'[s] = req[s]
    BY <1>1, OneRequestMoves DEF IInv
  <1>7. /\ rels' \in Seq(RelationshipDocument)
        /\ \A j \in DOMAIN rels : j \in DOMAIN rels' /\ Triple(rels'[j]) = Triple(rels[j])
    BY <1>1, <1>3, <1>4 DEF IInv, TypeOK
  <1>8. Grows(r) /\ DOMAIN docs' \ DOMAIN docs = {}
    BY <1>1, <1>6, <1>7 DEF Grows, IInv, TypeOK
  <1> QED
    BY <1>1, <1>5, <1>6, <1>8, StepKeeps

LEMMA RelateKeeps ==
  ASSUME IInv, NEW r \in Requests, Relate(r) PROVE IInv'
  <1>1. PICK type \in {"uses", "subtechnique-of"}, s \in Objects \cup Others, t \in Objects \cup Others :
          rels' = Append(rels, Relationship(type, s, t))
    <2>1. Stored \subseteq Objects /\ Active \subseteq Objects
      BY StoredTyped DEF Stored, Active, IInv
    <2> QED
      BY <2>1 DEF Relate
  <1>2. Relationship(type, s, t) \in RelationshipDocument
    BY DEF Relationship, RelationshipDocument
  <1>3. req[r].phase = "idle" /\ UNCHANGED <<docs, req, cut>>
    BY DEF Relate
  <1>4. DOMAIN req' = Requests /\ IsRequest(req[r]) /\ req'[r] = req[r]
    BY <1>3 DEF IInv, TypeOK
  <1>5. Grows(r) /\ DOMAIN docs' \ DOMAIN docs = {}
    BY <1>1, <1>2, <1>3, <1>4, RelationshipAdded DEF IInv
  <1> QED
    BY <1>3, <1>4, <1>5, StepKeeps

\* A failure is put down to the technique the request works on.
LEMMA FailureGrows ==
  ASSUME IInv, NEW r \in Requests, req[r].phase # "idle", UNCHANGED <<docs, rels>>,
         cut' = cut \cup {req[r].doc.of}, NEW q, Goes(r, q)
  PROVE  /\ Grows(r) /\ req'[r] = q /\ DOMAIN docs' \ DOMAIN docs = {}
         /\ \A x : req[r].phase = "link" /\ req[r].doc.of = x => HasSuccessor(x)'
  <1>1. req[r].doc.of \in Objects
    BY UnderWay
  <1> QED
    BY <1>1, OneRequestMoves DEF Grows, IInv, TypeOK, HasSuccessor

LEMMA PassOverKeeps ==
  ASSUME IInv, NEW r \in Requests, NEW k, PassOver(r, k) PROVE IInv'
  <1>1. /\ req[r].phase # "idle" /\ UNCHANGED <<docs, rels>>
        /\ cut' = cut \cup {req[r].doc.of} /\ Goes(r, Handled(r, k))
    BY DEF PassOver
  <1> QED
    BY <1>1, FailureGrows, HandledTyped, StepKeeps

LEMMA FailKeeps ==
  ASSUME IInv, NEW r \in Requests, Fail(r) PROVE IInv'
  <1>1. /\ req[r].phase # "idle" /\ UNCHANGED <<docs, rels>>
        /\ cut' = cut \cup {req[r].doc.of} /\ Goes(r, Idle)
    BY DEF Fail, Ends
  <1>2. IsRequest(Idle) /\ Idle.phase = "idle"
    BY IdleFields DEF IsRequest, Phases
  <1> QED
    BY <1>1, <1>2, FailureGrows, StepKeeps

-----------------------------------------------------------------------------
(***************************************************************************)
(* The theorems.                                                           *)
(***************************************************************************)
LEMMA IInvInit == Init => IInv
  <1> SUFFICES ASSUME Init PROVE IInv
    OBVIOUS
  <1>1. IsRequest(Idle) /\ Idle.phase = "idle"
    BY IdleFields DEF IsRequest, Phases
  <1>2. TypeOK
    BY <1>1, InitAssumption DEF Init, TypeOK
  <1>3. SuccessorRecorded
    BY InitAssumption DEF Init, SuccessorRecorded
  <1>4. CarriedRecorded
    BY <1>1 DEF Init, CarriedRecorded
  <1> QED
    BY <1>2, <1>3, <1>4 DEF IInv

LEMMA IInvNext == IInv /\ [Next]_vars => IInv'
  <1> SUFFICES ASSUME IInv, [Next]_vars PROVE IInv'
    OBVIOUS
  <1>1. CASE UNCHANGED vars
    BY <1>1 DEF vars, IInv, TypeOK, SuccessorRecorded, CarriedRecorded, HasSuccessor, IsRequest, Stored
  <1>2. CASE Next
    <2>1. PICK r \in Requests :
            \/ BeginCreate(r) \/ BeginPost(r) \/ Compose(r) \/ Carry(r)
            \/ BeginToSub(r) \/ BeginToTechnique(r) \/ Number(r) \/ Save(r) \/ RelateParent(r)
            \/ BeginRevoke(r) \/ CheckChildren(r) \/ Mark(r) \/ Link(r) \/ ListRelationships(r)
            \/ Transferred(r) \/ Settle(r) \/ Settled(r)
            \/ \E k \in DOMAIN req[r].todo :
                 LeaveBehind(r, k) \/ Transfer(r, k) \/ Deprecate(r, k) \/ PassOver(r, k)
            \/ Relate(r) \/ Fail(r)
      BY <1>2 DEF Next
    <2>2. CASE BeginCreate(r) \/ BeginPost(r) \/ Compose(r) \/ Carry(r)
      BY <2>2, BeginCreateKeeps, BeginPostKeeps, ComposeKeeps, CarryKeeps
    <2>3. CASE BeginToSub(r) \/ BeginToTechnique(r) \/ Number(r) \/ Save(r) \/ RelateParent(r)
      BY <2>3, BeginToSubKeeps, BeginToTechniqueKeeps, NumberKeeps, SaveKeeps, RelateParentKeeps
    <2>4. CASE BeginRevoke(r) \/ CheckChildren(r) \/ Mark(r) \/ Link(r) \/ ListRelationships(r)
      BY <2>4, BeginRevokeKeeps, CheckChildrenKeeps, MarkKeeps, LinkKeeps, ListRelationshipsKeeps
    <2>5. CASE Transferred(r) \/ Settle(r) \/ Settled(r)
      BY <2>5, TransferredKeeps, SettleKeeps, SettledKeeps
    <2>6. CASE \E k \in DOMAIN req[r].todo :
                 LeaveBehind(r, k) \/ Transfer(r, k) \/ Deprecate(r, k) \/ PassOver(r, k)
      BY <2>6, LeaveBehindKeeps, TransferKeeps, DeprecateKeeps, PassOverKeeps
    <2>7. CASE Relate(r) \/ Fail(r)
      BY <2>7, RelateKeeps, FailKeeps
    <2> QED
      BY <2>1, <2>2, <2>3, <2>4, <2>5, <2>6, <2>7
  <1> QED
    BY <1>1, <1>2

LEMMA IInvHolds == Spec => []IInv
  BY IInvInit, IInvNext, PTL DEF Spec

\* Whatever requests interleave or fail, the store holds documents of the types the models
\* allow, every ATT&CK ID generated has the form of one, and a request carries copies of
\* relationships that are stored.
THEOREM TypeCorrect == Spec => []TypeOK
  <1>1. IInv => TypeOK
    BY DEF IInv
  <1> QED
    BY <1>1, IInvHolds, PTL

\* A technique marked as revoked (base.service.js:1055-1098) has a relationship to its
\* successor, is about to get it, or a request that worked on it was cut short.
THEOREM SuccessorsRecorded == Spec => []SuccessorRecorded
  <1>1. IInv => SuccessorRecorded
    BY DEF IInv
  <1> QED
    BY <1>1, IInvHolds, PTL

-----------------------------------------------------------------------------
(***************************************************************************)
(* One request at a time.  What each phase of the only request knows of    *)
(* the store, which nobody else changes: the document it carries is the    *)
(* latest version, the technique to be converted has no subtechnique, the  *)
(* ATT&CK ID computed is still free.                                       *)
(***************************************************************************)
AtLatest(d) == d.of \in Stored /\ d = Latest(d.of)

Formed(d) == Len(d.id) = IF d.sub THEN 2 ELSE 1

NewId(d) == Formed(d) /\ \A p \in Active : Latest(p).id # d.id

ComposedNew(q) == q.doc.of \notin Stored /\ ~q.doc.revoked /\ NewId(q.doc)

Converting(q) ==
  /\ q.doc.of \in Stored
  /\ ~Latest(q.doc.of).revoked
  /\ ~q.doc.revoked
  /\ NewId(q.doc)
  /\ \/ q.op = "tosub" /\ ~Latest(q.doc.of).sub /\ q.doc.sub /\ ChildLinks(q.doc.of) = {}
     \/ q.op = "totech" /\ Latest(q.doc.of).sub /\ ~q.doc.sub

Stage(q) ==
  /\ q.phase \in {"compose", "carry"} => q.op = "post" /\ AtLatest(q.doc)
  /\ q.phase = "children" => AtLatest(q.doc) /\ ~q.doc.revoked /\ (q.op = "tosub" => ~q.doc.sub)
  /\ q.phase = "number" =>
       /\ AtLatest(q.doc) /\ ~q.doc.revoked
       /\ \/ q.op = "tosub" /\ ~q.doc.sub /\ ChildLinks(q.doc.of) = {}
          \/ q.op = "totech" /\ q.doc.sub
  /\ q.phase = "save" =>
       \/ q.op = "create" /\ ComposedNew(q)
       \/ q.op = "post" /\ AtLatest(q.doc)
       \/ Converting(q)
  /\ q.phase = "mark" => AtLatest(q.doc) /\ ~q.doc.revoked
  /\ q.phase = "relate" =>
       /\ q.doc.of \in Stored /\ Latest(q.doc.of).sub /\ ~Latest(q.doc.of).revoked
       /\ q.doc.of \notin cut => ParentLinks(q.doc.of) = {}
  /\ q.phase \in {"settle", "deprecate"} => q.op \in {"totech", "revoke"}
  /\ q.op = "revoke" => q.other # q.doc.of

\* What is to be deprecated, and how far that is.
Aims(q) ==
  IF q.op = "revoke" THEN Touching(q.doc.of) \ {q.link}
  ELSE {k \in DOMAIN rels : rels[k].type = "subtechnique-of" /\ rels[k].src = q.doc.of}

Deprecating(q) ==
  q.phase = "deprecate" /\ q.doc.of \notin cut =>
    \A k \in Aims(q) : k \in DOMAIN q.todo \/ rels[k].deprecated

Linked(q) ==
  q.op = "revoke" /\ q.phase \in {"list", "transfer", "settle", "deprecate"} =>
    q.link \in DOMAIN rels /\ rels[q.link].type = "revoked-by"

\* What is to be transferred, and how far that is.
Served(q, k) == \E m \in DOMAIN rels : Triple(rels[m]) = Triple(Substituted(rels[k], q.doc.of, q.other))

Transferring(q) ==
  q.op = "revoke" /\ q.keep /\ q.doc.of \notin cut /\ q.phase \in {"transfer", "settle", "deprecate"} =>
    \A k \in Touching(q.doc.of) \ {q.link} :
      \/ rels[k].type = "subtechnique-of"
      \/ Served(q, k)
      \/ q.phase = "transfer" /\ k \in DOMAIN q.todo

Known(q) == q.phase = "transfer" => \A t \in q.known : \E m \in DOMAIN rels : t = Triple(rels[m])

RequestInv(q) == Stage(q) /\ Deprecating(q) /\ Linked(q) /\ Transferring(q) /\ Known(q)

\* The hierarchy, but for the technique whose relationships are being settled.
Standing(o) == Latest(o).sub /\ ~Latest(o).revoked

Settling(q, o) == q.doc.of = o /\ q.phase \in {"link", "list", "transfer", "settle", "deprecate"}

Sources == \A k \in DOMAIN rels : IsParentLink(k) => rels[k].src \in Stored

Parents(q) ==
  \A o \in Stored \ cut :
    /\ \A k, l \in ParentLinks(o) : k = l
    /\ ParentLinks(o) = {} \/ Standing(o) \/ Settling(q, o)

AloneInv(r) == IInv /\ ActiveIdsDistinct /\ Sources /\ RequestInv(req[r]) /\ Parents(req[r])

\* What is read of a store that stays.
LEMMA SameReads ==
  ASSUME UNCHANGED <<docs, rels>>
  PROVE  /\ Stored' = Stored /\ Active' = Active
         /\ \A o : Latest(o)' = Latest(o)
         /\ \A o : Touching(o)' = Touching(o)
         /\ \A o : ParentLinks(o)' = ParentLinks(o)
         /\ \A o : ChildLinks(o)' = ChildLinks(o)
  BY DEF Stored, Active, Latest, VersionsOf, Touching, ParentLinks, ChildLinks, IsParentLink

LEMMA SameStage ==
  ASSUME UNCHANGED <<docs, rels>>, cut \subseteq cut', NEW q, Stage(q)
  PROVE  Stage(q)'
  <1>1. \A d : AtLatest(d)' = AtLatest(d)
    BY SameReads DEF AtLatest
  <1>2. \A d : NewId(d)' = NewId(d)
    BY SameReads DEF NewId
  <1>3. ComposedNew(q)' = ComposedNew(q)
    BY <1>2, SameReads DEF ComposedNew
  <1>4. Converting(q)' = Converting(q)
    BY <1>2, SameReads DEF Converting
  <1> QED
    BY <1>1, <1>3, <1>4, SameReads DEF Stage

LEMMA SameRequest ==
  ASSUME UNCHANGED <<docs, rels>>, cut \subseteq cut', NEW q, RequestInv(q)
  PROVE  RequestInv(q)'
  <1>1. Stage(q)'
    BY SameStage DEF RequestInv
  <1>2. Deprecating(q)'
    BY SameReads DEF RequestInv, Deprecating, Aims
  <1>3. Linked(q)' /\ Known(q)'
    BY DEF RequestInv, Linked, Known
  <1>4. Transferring(q)'
    BY SameReads DEF RequestInv, Transferring, Served
  <1> QED
    BY <1>1, <1>2, <1>3, <1>4 DEF RequestInv

LEMMA SameParents ==
  ASSUME UNCHANGED <<docs, rels>>, cut \subseteq cut', NEW q, Parents(q), NEW z,
         \A o \in Stored \ cut' : Settling(q, o) => Settling(z, o) \/ ParentLinks(o) = {}
  PROVE  Parents(z)'
  BY SameReads DEF Parents, Standing

\* A step that writes nothing to the store.
LEMMA QuietStep ==
  ASSUME NEW r, Requests = {r}, AloneInv(r), IInv', UNCHANGED <<docs, rels>>,
         NEW q, Goes(r, q), RequestInv(q)', Parents(q)'
  PROVE  AloneInv(r)'
  <1>1. req'[r] = q
    BY OneRequestMoves DEF AloneInv, IInv
  <1>2. ActiveIdsDistinct'
    BY SameReads DEF AloneInv, ActiveIdsDistinct
  <1>3. Sources'
    BY SameReads DEF AloneInv, Sources, IsParentLink
  <1>4. RequestInv(req[r])'
    BY <1>1 DEF RequestInv, Stage, Deprecating, Linked, Transferring, Known,
                Aims, Served, Converting, ComposedNew
  <1>5. Parents(req[r])'
    BY <1>1 DEF Parents, Settling
  <1> QED
    BY <1>2, <1>3, <1>4, <1>5 DEF AloneInv

LEMMA IdleInv == RequestInv(Idle)
  <1>1. Idle.phase = "idle" /\ Idle.op = "none"
    BY IdleFields
  <1> QED
    BY <1>1 DEF RequestInv, Stage, Deprecating, Linked, Transferring, Known

\* The request is over and settles nothing.
LEMMA EndStep ==
  ASSUME NEW r, Requests = {r}, AloneInv(r), IInv', UNCHANGED <<docs, rels>>, cut \subseteq cut', Ends(r),
         \A o \in Stored \ cut' : Settling(req[r], o) => ParentLinks(o) = {}
  PROVE  AloneInv(r)'
  <1>1. PICK q : q = req[r]
    OBVIOUS
  <1>2. PICK z : z = Idle
    OBVIOUS
  <1>3. RequestInv(z)'
    BY <1>2, IdleInv, SameRequest
  <1>4. Parents(z)'
    <2>1. Parents(q) /\ \A o \in Stored \ cut' : Settling(q, o) => ParentLinks(o) = {}
      BY <1>1 DEF AloneInv
    <2> QED
      BY <2>1, SameParents
  <1>5. Goes(r, z)
    BY <1>2 DEF Ends
  <1> QED
    BY <1>3, <1>4, <1>5, QuietStep

LEMMA MoveStep ==
  ASSUME NEW r, Requests = {r}, AloneInv(r), IInv', UNCHANGED <<docs, rels, cut>>,
         NEW q, Goes(r, q), RequestInv(q),
         \A o : Settling(req[r], o) => Settling(q, o)
  PROVE  AloneInv(r)'
  <1>1. RequestInv(q)'
    BY SameRequest
  <1>2. PICK p : p = req[r]
    OBVIOUS
  <1>3. Parents(p) /\ \A o : Settling(p, o) => Settling(q, o)
    BY <1>2 DEF AloneInv
  <1>4. Parents(q)'
    BY <1>3, SameParents
  <1> QED
    BY <1>1, <1>4, QuietStep

\* A request that begins needs to know what it has read.
LEMMA BeginStep ==
  ASSUME NEW r, Requests = {r}, AloneInv(r), IInv', UNCHANGED <<docs, rels, cut>>,
         req[r].phase = "idle",
         NEW q, Goes(r, q), Stage(q), q.phase \in {"save", "compose", "children", "number", "mark"}
  PROVE  AloneInv(r)'
  <1>1. RequestInv(q)
    BY DEF RequestInv, Deprecating, Linked, Transferring, Known
  <1>2. \A o : ~Settling(req[r], o)
    BY DEF Settling
  <1> QED
    BY <1>1, <1>2, MoveStep

-----------------------------------------------------------------------------
(***************************************************************************)
(* ATT&CK IDs computed are free.                                           *)
(***************************************************************************)
LEMMA AboveAll ==
  ASSUME NEW S \in SUBSET Nat, IsFiniteSet(S)
  PROVE  1 + Max({0} \cup S) \notin S
  <1>1. IsFiniteSet({0} \cup S)
    <2>1. IsFiniteSet(S \cup {0}) /\ S \cup {0} = {0} \cup S
      BY FS_AddElement
    <2> QED
      BY <2>1
  <1>2. {0} \cup S \in SUBSET Nat /\ {0} \cup S # {}
    OBVIOUS
  <1>3. Max({0} \cup S) \in Nat /\ \A y \in S : Max({0} \cup S) >= y
    BY <1>1, <1>2, FiniteMax
  <1> QED
    BY <1>3

LEMMA LatestFormed ==
  ASSUME TypeOK, ActiveIdsDistinct, NEW o \in Stored
  PROVE  Formed(Latest(o)) /\ Latest(o).id \in AttackId
  BY LatestTyped DEF ActiveIdsDistinct, Formed, TechniqueDocument

LEMMA NextNumberFree ==
  ASSUME TypeOK, NEW o \in Active
  PROVE  Latest(o).id # <<NextNumber>>
  <1> DEFINE F == [i \in DOMAIN docs |-> docs[i].id[1]]
             N == {Latest(p).id[1] : p \in Active}
  <1>1. \A p \in Active : Latest(p) \in TechniqueDocument /\ \E i \in DOMAIN docs : Latest(p) = docs[i]
    BY LatestTyped DEF Active
  <1>2. N \in SUBSET Nat
    BY <1>1, IdNumbers DEF TechniqueDocument
  <1>3. N \in SUBSET {F[i] : i \in DOMAIN docs}
    BY <1>1
  <1>4. IsFiniteSet(N)
    <2> HIDE DEF F, N
    <2> QED
      BY <1>3, DocsFinite, FiniteImage
  <1>5. NextNumber \notin N
    <2>1. NextNumber = 1 + Max({0} \cup N)
      BY DEF NextNumber
    <2> HIDE DEF N
    <2> QED
      BY <1>2, <1>4, <2>1, AboveAll
  <1>6. Latest(o).id[1] \in N
    OBVIOUS
  <1>7. <<NextNumber>>[1] = NextNumber
    OBVIOUS
  <1> HIDE DEF N
  <1> QED
    BY <1>5, <1>6, <1>7

LEMMA NextSubIdFree ==
  ASSUME TypeOK, ActiveIdsDistinct, NEW n \in Nat, NEW o \in Active
  PROVE  Latest(o).id # NextSubId(n)
  <1> DEFINE F == [i \in DOMAIN docs |-> docs[i].id[2]]
             N == {Latest(p).id[2] : p \in SubsUnder(n)}
             m == 1 + Max({0} \cup N)
  <1>1. \A p \in SubsUnder(n) : /\ Latest(p) \in TechniqueDocument /\ Len(Latest(p).id) = 2
                                /\ \E i \in DOMAIN docs : Latest(p) = docs[i]
    BY LatestTyped DEF SubsUnder
  <1>2. N \in SUBSET Nat
    BY <1>1, IdNumbers DEF TechniqueDocument
  <1>3. N \in SUBSET {F[i] : i \in DOMAIN docs}
    BY <1>1
  <1>4. IsFiniteSet(N)
    <2> HIDE DEF F, N
    <2> QED
      BY <1>3, DocsFinite, FiniteImage
  <1>5. m \notin N
    <2> HIDE DEF N
    <2> QED
      BY <1>2, <1>4, AboveAll
  <1>6. NextSubId(n) = <<n, m>>
    BY DEF NextSubId
  <1> HIDE DEF m
  <1>7. SUFFICES ASSUME Latest(o).id = <<n, m>> PROVE FALSE
    BY <1>6
  <1>8. Len(Latest(o).id) = 2 /\ Latest(o).id[1] = n /\ Latest(o).id[2] = m
    BY <1>7
  <1>9. o \in Stored /\ Latest(o).sub
    BY <1>8, LatestFormed, LatestTyped DEF Active, Formed, TechniqueDocument
  <1>10. o \in SubsUnder(n)
    BY <1>8, <1>9 DEF SubsUnder
  <1> QED
    BY <1>5, <1>8, <1>10

LEMMA FreshTechniqueId ==
  ASSUME TypeOK, NEW d, d.id = <<NextNumber>>, ~d.sub
  PROVE  NewId(d)
  <1>1. Len(<<NextNumber>>) = 1
    OBVIOUS
  <1> QED
    BY <1>1, NextNumberFree DEF NewId, Formed

LEMMA FreshSubId ==
  ASSUME TypeOK, ActiveIdsDistinct, NEW n \in Nat, NEW d, d.id = NextSubId(n), d.sub
  PROVE  NewId(d)
  <1>1. Len(NextSubId(n)) = 2
    BY DEF NextSubId
  <1> QED
    BY <1>1, NextSubIdFree DEF NewId, Formed

-----------------------------------------------------------------------------
(***************************************************************************)
(* The steps that write nothing.                                           *)
(***************************************************************************)
LEMMA ReadAtLatest ==
  ASSUME TypeOK, NEW o \in Stored
  PROVE  AtLatest(Latest(o)) /\ Latest(o).of = o
  BY LatestTyped DEF AtLatest

LEMMA BeginCreateAlone ==
  ASSUME NEW r, Requests = {r}, AloneInv(r), IInv', BeginCreate(r)
  PROVE  AloneInv(r)'
  <1>1. TypeOK /\ ActiveIdsDistinct /\ req[r].phase = "idle" /\ UNCHANGED <<docs, rels, cut>>
    BY DEF BeginCreate, Begins, AloneInv, IInv
  <1>2. PICK o \in FreshIds :
          \/ Goes(r, Request("save", "create", Technique(o, FALSE, <<NextNumber>>, FALSE), "none", FALSE))
          \/ \E p \in Stored :
               Goes(r, Request("save", "create",
                               Technique(o, TRUE, NextSubId(Latest(p).id[1]), FALSE), "none", FALSE))
    BY DEF BeginCreate
  <1>3. PICK d : /\ Goes(r, Request("save", "create", d, "none", FALSE))
                 /\ d.of = o /\ ~d.revoked /\ NewId(d)
    <2>1. CASE Goes(r, Request("save", "create", Technique(o, FALSE, <<NextNumber>>, FALSE), "none", FALSE))
      <3>1. PICK d : d = Technique(o, FALSE, <<NextNumber>>, FALSE)
        OBVIOUS
      <3>2. d.of = o /\ ~d.revoked /\ ~d.sub /\ d.id = <<NextNumber>>
        BY <3>1 DEF Technique
      <3>3. NewId(d)
        BY <1>1, <3>2, FreshTechniqueId
      <3> QED
        BY <2>1, <3>1, <3>2, <3>3
    <2>2. CASE \E p \in Stored :
                 Goes(r, Request("save", "create",
                                 Technique(o, TRUE, NextSubId(Latest(p).id[1]), FALSE), "none", FALSE))
      <3>1. PICK p \in Stored :
              Goes(r, Request("save", "create",
                              Technique(o, TRUE, NextSubId(Latest(p).id[1]), FALSE), "none", FALSE))
        BY <2>2
      <3>2. Latest(p).id[1] \in Nat
        BY <1>1, LatestTyped, IdNumbers DEF TechniqueDocument
      <3>3. PICK n \in Nat : n = Latest(p).id[1]
        BY <3>2
      <3>4. PICK d : d = Technique(o, TRUE, NextSubId(n), FALSE)
        OBVIOUS
      <3>5. d.of = o /\ ~d.revoked /\ d.sub /\ d.id = NextSubId(n)
        BY <3>4 DEF Technique
      <3>6. NewId(d)
        BY <1>1, <3>5, FreshSubId
      <3> QED
        BY <3>1, <3>3, <3>4, <3>5, <3>6
    <2> QED
      BY <1>2, <2>1, <2>2
  <1>4. PICK q : q = Request("save", "create", d, "none", FALSE)
    OBVIOUS
  <1>5. q.phase = "save" /\ q.op = "create" /\ q.doc = d
    BY <1>4 DEF Request
  <1>6. o \notin Stored
    BY DEF FreshIds
  <1>7. Stage(q)
    BY <1>3, <1>5, <1>6 DEF Stage, ComposedNew
  <1> QED
    BY <1>1, <1>3, <1>4, <1>5, <1>7, BeginStep

LEMMA BeginPostAlone ==
  ASSUME NEW r, Requests = {r}, AloneInv(r), IInv', BeginPost(r)
  PROVE  AloneInv(r)'
  <1>1. TypeOK /\ req[r].phase = "idle" /\ UNCHANGED <<docs, rels, cut>>
    BY DEF BeginPost, Begins, AloneInv, IInv
  <1>2. PICK o \in Stored : Goes(r, Request("compose", "post", Latest(o), "none", FALSE))
    BY DEF BeginPost
  <1>3. PICK q : q = Request("compose", "post", Latest(o), "none", FALSE)
    OBVIOUS
  <1>4. q.phase = "compose" /\ q.op = "post" /\ q.doc = Latest(o)
    BY <1>3 DEF Request
  <1>5. AtLatest(q.doc)
    BY <1>1, <1>4, ReadAtLatest
  <1>6. Stage(q)
    BY <1>4, <1>5 DEF Stage
  <1> QED
    BY <1>1, <1>2, <1>3, <1>4, <1>6, BeginStep

LEMMA BeginToSubAlone ==
  ASSUME NEW r, Requests = {r}, AloneInv(r), IInv', BeginToSub(r)
  PROVE  AloneInv(r)'
  <1>1. TypeOK /\ req[r].phase = "idle" /\ UNCHANGED <<docs, rels, cut>>
    BY DEF BeginToSub, Begins, AloneInv, IInv
  <1>2. PICK o \in Stored, n \in {docs[i].id[1] : i \in DOMAIN docs} :
          /\ ~Latest(o).sub /\ ~Latest(o).revoked
          /\ Goes(r, [Request("children", "tosub", Latest(o), FoundBy(<<n>>), FALSE)
                        EXCEPT !.under = n])
    BY DEF BeginToSub
  <1>3. PICK d, b : d = Latest(o) /\ b = FoundBy(<<n>>)
    OBVIOUS
  <1>4. PICK q : q = [Request("children", "tosub", d, b, FALSE) EXCEPT !.under = n]
    OBVIOUS
  <1>5. q.phase = "children" /\ q.op = "tosub" /\ q.doc = d
    BY <1>4 DEF Request
  <1>6. AtLatest(q.doc)
    BY <1>1, <1>3, <1>5, ReadAtLatest
  <1>7. Stage(q)
    BY <1>2, <1>3, <1>5, <1>6 DEF Stage
  <1> QED
    BY <1>1, <1>2, <1>3, <1>4, <1>5, <1>7, BeginStep

LEMMA BeginToTechniqueAlone ==
  ASSUME NEW r, Requests = {r}, AloneInv(r), IInv', BeginToTechnique(r)
  PROVE  AloneInv(r)'
  <1>1. TypeOK /\ req[r].phase = "idle" /\ UNCHANGED <<docs, rels, cut>>
    BY DEF BeginToTechnique, Begins, AloneInv, IInv
  <1>2. PICK o \in Stored :
          /\ Latest(o).sub /\ ~Latest(o).revoked
          /\ Goes(r, Request("number", "totech", Latest(o), "none", FALSE))
    BY DEF BeginToTechnique
  <1>3. PICK q : q = Request("number", "totech", Latest(o), "none", FALSE)
    OBVIOUS
  <1>4. q.phase = "number" /\ q.op = "totech" /\ q.doc = Latest(o)
    BY <1>3 DEF Request
  <1>5. AtLatest(q.doc)
    BY <1>1, <1>4, ReadAtLatest
  <1>6. Stage(q)
    BY <1>2, <1>4, <1>5 DEF Stage
  <1> QED
    BY <1>1, <1>2, <1>3, <1>4, <1>6, BeginStep

LEMMA BeginRevokeAlone ==
  ASSUME NEW r, Requests = {r}, AloneInv(r), IInv', BeginRevoke(r)
  PROVE  AloneInv(r)'
  <1>1. TypeOK /\ req[r].phase = "idle" /\ UNCHANGED <<docs, rels, cut>>
    BY DEF BeginRevoke, Begins, AloneInv, IInv
  <1>2. PICK a \in Stored, i \in DOMAIN docs, keep \in BOOLEAN :
          /\ docs[i].of # a
          /\ ~Latest(a).revoked
          /\ Goes(r, Request(IF docs[i].sub /\ ~Latest(a).sub THEN "children" ELSE "mark",
                             "revoke", Latest(a), docs[i].of, keep))
    BY DEF BeginRevoke
  <1>3. PICK ph \in {"children", "mark"} :
          Goes(r, Request(ph, "revoke", Latest(a), docs[i].of, keep))
    BY <1>2
  <1>4. PICK q : q = Request(ph, "revoke", Latest(a), docs[i].of, keep)
    OBVIOUS
  <1>5. q.phase = ph /\ q.op = "revoke" /\ q.doc = Latest(a) /\ q.other = docs[i].of
    BY <1>4 DEF Request
  <1>6. AtLatest(q.doc) /\ q.doc.of = a /\ ~q.doc.revoked
    BY <1>1, <1>2, <1>5, ReadAtLatest
  <1>7. Stage(q)
    BY <1>2, <1>5, <1>6 DEF Stage
  <1> QED
    BY <1>1, <1>3, <1>4, <1>5, <1>7, BeginStep

\* What is known of the only request while it is under way.
LEMMA OnlyRequest ==
  ASSUME NEW r, Requests = {r}, AloneInv(r), req[r].phase # "idle"
  PROVE  \E q : /\ q = req[r] /\ IsRequest(q) /\ DOMAIN q = DOMAIN Idle
                /\ q.doc \in TechniqueDocument /\ RequestInv(q) /\ Stage(q) /\ Parents(q)
  BY UnderWay DEF AloneInv, RequestInv

LEMMA ComposeAlone ==
  ASSUME NEW r, Requests = {r}, AloneInv(r), IInv', Compose(r)
  PROVE  AloneInv(r)'
  <1>1. req[r].phase = "compose" /\ UNCHANGED <<docs, rels, cut>>
    BY DEF Compose
  <1>2. PICK q : /\ q = req[r] /\ DOMAIN q = DOMAIN Idle /\ q.doc \in TechniqueDocument /\ Stage(q)
                 /\ RequestInv(q)
    BY <1>1, OnlyRequest
  <1>3. q.op = "post" /\ AtLatest(q.doc)
    BY <1>1, <1>2 DEF Stage
  <1>4. PICK x : x = Latest(q.doc.of).id /\ x = q.doc.id
    BY <1>3 DEF AtLatest
  <1>5. PICK p : p = [q EXCEPT !.phase = "carry", !.doc.id = x]
    OBVIOUS
  <1>6. /\ p.phase = "carry" /\ p.op = q.op /\ p.doc = [q.doc EXCEPT !.id = x]
    BY <1>2, <1>5 DEF Request, Idle
  <1>7. p.doc = q.doc
    BY <1>2, <1>4, <1>6 DEF TechniqueDocument
  <1>8. Goes(r, p)
    BY <1>2, <1>4, <1>5 DEF Compose
  <1>9. RequestInv(p)
    BY <1>3, <1>6, <1>7 DEF RequestInv, Stage, Deprecating, Linked, Transferring, Known
  <1>10. \A o : ~Settling(req[r], o)
    BY <1>1 DEF Settling
  <1> QED
    BY <1>1, <1>8, <1>9, <1>10, MoveStep

LEMMA CarryAlone ==
  ASSUME NEW r, Requests = {r}, AloneInv(r), IInv', Carry(r)
  PROVE  AloneInv(r)'
  <1>1. req[r].phase = "carry" /\ UNCHANGED <<docs, rels, cut>>
    BY DEF Carry
  <1>2. PICK q : /\ q = req[r] /\ DOMAIN q = DOMAIN Idle /\ q.doc \in TechniqueDocument /\ Stage(q)
                 /\ RequestInv(q)
    BY <1>1, OnlyRequest
  <1>3. q.op = "post" /\ AtLatest(q.doc)
    BY <1>1, <1>2 DEF Stage
  <1>4. PICK x : x = Latest(q.doc.of).revoked /\ x = q.doc.revoked
    BY <1>3 DEF AtLatest
  <1>5. PICK p : p = [q EXCEPT !.phase = "save", !.doc.revoked = x]
    OBVIOUS
  <1>6. /\ p.phase = "save" /\ p.op = q.op /\ p.doc = [q.doc EXCEPT !.revoked = x]
    BY <1>2, <1>5 DEF Request, Idle
  <1>7. p.doc = q.doc
    BY <1>2, <1>4, <1>6 DEF TechniqueDocument
  <1>8. Goes(r, p)
    BY <1>2, <1>4, <1>5 DEF Carry
  <1>9. RequestInv(p)
    BY <1>3, <1>6, <1>7 DEF RequestInv, Stage, Deprecating, Linked, Transferring, Known
  <1>10. \A o : ~Settling(req[r], o)
    BY <1>1 DEF Settling
  <1> QED
    BY <1>1, <1>8, <1>9, <1>10, MoveStep

LEMMA CheckChildrenAlone ==
  ASSUME NEW r, Requests = {r}, AloneInv(r), IInv', CheckChildren(r)
  PROVE  AloneInv(r)'
  <1>1. req[r].phase = "children" /\ UNCHANGED <<docs, rels, cut>> /\ \A o : ~Settling(req[r], o)
    BY DEF CheckChildren, Settling
  <1>2. PICK q : /\ q = req[r] /\ DOMAIN q = DOMAIN Idle /\ Stage(q) /\ IsRequest(q)
    BY <1>1, OnlyRequest
  <1>3. AtLatest(q.doc) /\ ~q.doc.revoked /\ (q.op = "tosub" => ~q.doc.sub) /\ q.op \in {"tosub", "revoke"}
    BY <1>1, <1>2 DEF Stage, IsRequest
  <1>4. CASE ChildLinks(q.doc.of) # {}
    <2>1. Ends(r)
      BY <1>2, <1>4 DEF CheckChildren
    <2> QED
      BY <1>1, <2>1, EndStep
  <1>5. CASE ChildLinks(q.doc.of) = {}
    <2>1. PICK ph : ph = IF q.op = "revoke" THEN "mark" ELSE "number"
      OBVIOUS
    <2>2. PICK p : p = [q EXCEPT !.phase = ph]
      OBVIOUS
    <2>3. Goes(r, p)
      BY <1>2, <1>5, <2>1, <2>2 DEF CheckChildren
    <2>4. p.phase = ph /\ p.op = q.op /\ p.doc = q.doc /\ p.other = q.other
      BY <1>2, <2>2, PhaseFields
    <2>5. q.op = "revoke" => q.other # q.doc.of
      BY <1>2 DEF Stage
    <2>6. Stage(p)
      BY <1>3, <1>5, <2>1, <2>4, <2>5 DEF Stage
    <2>7. RequestInv(p)
      BY <2>1, <2>4, <2>6 DEF RequestInv, Deprecating, Linked, Transferring, Known
    <2> QED
      BY <1>1, <2>3, <2>7, MoveStep
  <1> QED
    BY <1>4, <1>5

LEMMA NumberAlone ==
  ASSUME NEW r, Requests = {r}, AloneInv(r), IInv', Number(r)
  PROVE  AloneInv(r)'
  <1>1. req[r].phase = "number" /\ UNCHANGED <<docs, rels, cut>> /\ \A o : ~Settling(req[r], o)
    BY DEF Number, Settling
  <1>2. PICK q : /\ q = req[r] /\ DOMAIN q = DOMAIN Idle /\ Stage(q) /\ IsRequest(q)
                 /\ q.doc \in TechniqueDocument
    BY <1>1, OnlyRequest
  <1>3. /\ AtLatest(q.doc) /\ ~q.doc.revoked
        /\ \/ q.op = "tosub" /\ ~q.doc.sub /\ ChildLinks(q.doc.of) = {}
           \/ q.op = "totech" /\ q.doc.sub
    BY <1>1, <1>2 DEF Stage
  <1>4. TypeOK /\ ActiveIdsDistinct /\ q.under \in Nat
    BY <1>2 DEF AloneInv, IInv, IsRequest
  <1>6. PICK p : Goes(r, p) /\ p.phase = "save" /\ Converting(p)
    <2>1. CASE q.op = "tosub"
      <3>1. PICK x : x = NextSubId(q.under)
        OBVIOUS
      <3>0. PICK sub \in BOOLEAN : sub
        OBVIOUS
      <3>2. PICK p : p = [q EXCEPT !.phase = "save", !.doc.sub = sub, !.doc.id = x]
        OBVIOUS
      <3>3. Goes(r, p)
        BY <1>2, <2>1, <3>0, <3>1, <3>2 DEF Number, AsSubtechnique
      <3>4. /\ p.phase = "save" /\ p.op = q.op /\ p.doc.of = q.doc.of
            /\ p.doc.sub = sub /\ p.doc.id = x /\ p.doc.revoked = q.doc.revoked
        <4>1. p.phase = "save" /\ p.op = q.op /\ p.doc = [[q.doc EXCEPT !.sub = sub] EXCEPT !.id = x]
          BY <1>2, <3>2 DEF Request, Idle
        <4> QED
          BY <1>2, <3>0, <4>1 DEF TechniqueDocument
      <3>5. NewId(p.doc)
        BY <1>4, <3>0, <3>1, <3>4, FreshSubId
      <3> QED
        BY <1>3, <2>1, <3>0, <3>3, <3>4, <3>5 DEF Converting, AtLatest
    <2>2. CASE q.op = "totech"
      <3>1. PICK x : x = <<NextNumber>>
        OBVIOUS
      <3>2. PICK p : p = [q EXCEPT !.phase = "save", !.doc.sub = FALSE, !.doc.id = x]
        OBVIOUS
      <3>3. Goes(r, p)
        BY <1>2, <2>2, <3>1, <3>2 DEF Number, AsTechnique
      <3>4. /\ p.phase = "save" /\ p.op = q.op /\ p.doc.of = q.doc.of
            /\ ~p.doc.sub /\ p.doc.id = x /\ p.doc.revoked = q.doc.revoked
        <4>1. p.phase = "save" /\ p.op = q.op /\ p.doc = [[q.doc EXCEPT !.sub = FALSE] EXCEPT !.id = x]
          BY <1>2, <3>2 DEF Request, Idle
        <4> QED
          BY <1>2, <4>1 DEF TechniqueDocument
      <3>5. NewId(p.doc)
        BY <1>4, <3>1, <3>4, FreshTechniqueId
      <3> QED
        BY <1>3, <2>2, <3>3, <3>4, <3>5 DEF Converting, AtLatest
    <2> QED
      BY <1>3, <2>1, <2>2
  <1>7. p.op # "revoke"
    BY <1>6 DEF Converting
  <1>8. RequestInv(p)
    BY <1>6, <1>7 DEF RequestInv, Stage, Deprecating, Linked, Transferring, Known
  <1> QED
    BY <1>1, <1>6, <1>8, MoveStep

LEMMA CopiesDomain == ASSUME NEW ks PROVE DOMAIN Copies(ks) = ks
  BY DEF Copies

LEMMA ListRelationshipsAlone ==
  ASSUME NEW r, Requests = {r}, AloneInv(r), IInv', ListRelationships(r)
  PROVE  AloneInv(r)'
  <1>1. req[r].phase = "list" /\ UNCHANGED <<docs, rels, cut>>
    BY DEF ListRelationships
  <1>2. PICK q : /\ q = req[r] /\ DOMAIN q = DOMAIN Idle /\ IsRequest(q) /\ RequestInv(q)
    BY <1>1, OnlyRequest
  <1>3. PICK ks, ts : /\ ks = Touching(q.doc.of) \ {q.link}
                      /\ ts = {Triple(rels[k]) : k \in Touching(q.other)}
    OBVIOUS
  <1>4. PICK c : c = Copies(ks) /\ DOMAIN c = ks
    BY CopiesDomain
  <1>5. PICK p : p = [q EXCEPT !.phase = "transfer", !.todo = c, !.known = ts]
    OBVIOUS
  <1>6. Goes(r, p)
    BY <1>2, <1>3, <1>4, <1>5 DEF ListRelationships
  <1>7. /\ p.phase = "transfer" /\ p.op = q.op /\ p.doc = q.doc /\ p.other = q.other
        /\ p.link = q.link /\ p.todo = c /\ p.known = ts
    BY <1>2, <1>5 DEF Request, Idle
  <1>8. q.op = "revoke"
    BY <1>1, <1>2 DEF IsRequest
  <1>9. Stage(p)
    BY <1>2, <1>7, <1>8 DEF RequestInv, Stage
  <1>10. Linked(p)
    BY <1>1, <1>2, <1>7, <1>8 DEF RequestInv, Linked
  <1>11. Transferring(p)
    BY <1>3, <1>4, <1>7 DEF Transferring
  <1>12. Known(p)
    BY <1>3, <1>7 DEF Known, Touching
  <1>13. RequestInv(p)
    BY <1>7, <1>9, <1>10, <1>11, <1>12 DEF RequestInv, Deprecating
  <1>14. \A o : Settling(req[r], o) => Settling(p, o)
    BY <1>2, <1>7 DEF Settling
  <1> QED
    BY <1>1, <1>6, <1>13, <1>14, MoveStep

LEMMA HandledFields ==
  ASSUME NEW r, NEW k, NEW q, q = req[r], DOMAIN q = DOMAIN Idle
  PROVE  \E p : /\ p = Handled(r, k)
                /\ p.phase = q.phase /\ p.op = q.op /\ p.doc = q.doc /\ p.other = q.other
                /\ p.keep = q.keep /\ p.link = q.link /\ p.known = q.known
                /\ DOMAIN p.todo = DOMAIN q.todo \ {k}
                /\ DOMAIN p = DOMAIN Idle
  <1>1. PICK t : t = Restrict(q.todo, DOMAIN q.todo \ {k}) /\ DOMAIN t = DOMAIN q.todo \ {k}
    <2>1. DOMAIN Restrict(q.todo, DOMAIN q.todo \ {k}) = DOMAIN q.todo \ {k}
      BY DEF Restrict
    <2> QED
      BY <2>1
  <1>2. PICK p : p = [q EXCEPT !.todo = t]
    OBVIOUS
  <1>3. p = Handled(r, k)
    BY <1>1, <1>2 DEF Handled
  <1>4. /\ p.phase = q.phase /\ p.op = q.op /\ p.doc = q.doc /\ p.other = q.other
        /\ p.keep = q.keep /\ p.link = q.link /\ p.known = q.known /\ p.todo = t
        /\ DOMAIN p = DOMAIN Idle
    BY <1>2 DEF Request, Idle
  <1> QED
    BY <1>1, <1>3, <1>4

\* Where a relationship goes depends on its type and ends.
LEMMA SubstitutedTriple ==
  ASSUME NEW x \in RelationshipDocument, NEW y \in RelationshipDocument, Triple(x) = Triple(y),
         NEW a, NEW b
  PROVE  Triple(Substituted(x, a, b)) = Triple(Substituted(y, a, b))
  <1>1. ASSUME NEW z \in RelationshipDocument
        PROVE  Triple(Substituted(z, a, b)) =
                 <<IF z.src = a THEN b ELSE z.src, z.type, IF z.tgt = a THEN b ELSE z.tgt>>
    <2>1. PICK s, t : s = (IF z.src = a THEN b ELSE z.src) /\ t = (IF z.tgt = a THEN b ELSE z.tgt)
      OBVIOUS
    <2>2. Substituted(z, a, b) = [[z EXCEPT !.src = s] EXCEPT !.tgt = t]
      BY <2>1 DEF Substituted, RelationshipDocument
    <2>3. PICK w : w = Substituted(z, a, b)
      OBVIOUS
    <2>4. w.src = s /\ w.tgt = t /\ w.type = z.type
      BY <2>2, <2>3 DEF RelationshipDocument
    <2> QED
      BY <2>1, <2>3, <2>4 DEF Triple
  <1>2. x.src = y.src /\ x.type = y.type /\ x.tgt = y.tgt
    BY DEF Triple
  <1> QED
    BY <1>1, <1>2

\* The copy of a relationship goes where the relationship would.
LEMMA CopyGoes ==
  ASSUME NEW r, Requests = {r}, TypeOK, NEW q, q = req[r], IsRequest(q), NEW k \in DOMAIN q.todo
  PROVE  /\ k \in DOMAIN rels /\ rels[k].type = q.todo[k].type
         /\ Triple(Moved(r, k)) = Triple(Substituted(rels[k], q.doc.of, q.other))
  <1>1. k \in DOMAIN rels /\ q.todo[k] \in RelationshipDocument /\ Triple(q.todo[k]) = Triple(rels[k])
    BY DEF IsRequest
  <1>2. rels[k] \in RelationshipDocument
    BY <1>1 DEF TypeOK
  <1> QED
    BY <1>1, <1>2, SubstitutedTriple DEF Moved, Triple

LEMMA LeaveBehindAlone ==
  ASSUME NEW r, Requests = {r}, AloneInv(r), IInv', NEW k \in DOMAIN req[r].todo, LeaveBehind(r, k)
  PROVE  AloneInv(r)'
  <1>1. req[r].phase = "transfer" /\ UNCHANGED <<docs, rels, cut>> /\ Goes(r, Handled(r, k))
    BY DEF LeaveBehind
  <1>2. PICK q : /\ q = req[r] /\ DOMAIN q = DOMAIN Idle /\ IsRequest(q) /\ RequestInv(q)
    BY <1>1, OnlyRequest
  <1>3. PICK p : /\ p = Handled(r, k)
                 /\ p.phase = q.phase /\ p.op = q.op /\ p.doc = q.doc /\ p.other = q.other
                 /\ p.keep = q.keep /\ p.link = q.link /\ p.known = q.known
                 /\ DOMAIN p.todo = DOMAIN q.todo \ {k}
    BY <1>2, HandledFields
  <1>4. q.op = "revoke"
    BY <1>1, <1>2 DEF IsRequest
  <1>5. /\ k \in DOMAIN rels /\ rels[k].type = q.todo[k].type
        /\ Triple(Moved(r, k)) = Triple(Substituted(rels[k], q.doc.of, q.other))
    BY <1>2, CopyGoes DEF AloneInv, IInv
  <1>6. rels[k].type = "subtechnique-of" \/ Served(q, k)
    <2>1. q.todo[k].type = "subtechnique-of" \/ Triple(Moved(r, k)) \in q.known
      BY <1>2 DEF LeaveBehind, StaysBehind
    <2>2. \A t \in q.known : \E m \in DOMAIN rels : t = Triple(rels[m])
      BY <1>1, <1>2 DEF RequestInv, Known
    <2>3. CASE Triple(Moved(r, k)) \in q.known
      <3>1. PICK m \in DOMAIN rels : Triple(Moved(r, k)) = Triple(rels[m])
        BY <2>2, <2>3
      <3> QED
        BY <1>5, <3>1 DEF Served
    <2> QED
      BY <1>5, <2>1, <2>3
  <1>7. Stage(p) /\ Linked(p) /\ Known(p)
    BY <1>1, <1>2, <1>3, <1>4 DEF RequestInv, Stage, Linked, Known
  <1>8. Transferring(p)
    <2>1. \A j : Served(p, j) = Served(q, j)
      BY <1>3 DEF Served
    <2> QED
      BY <1>1, <1>2, <1>3, <1>6, <2>1 DEF RequestInv, Transferring
  <1>9. RequestInv(p)
    BY <1>1, <1>2, <1>3, <1>7, <1>8 DEF RequestInv, Deprecating
  <1>10. \A o : Settling(req[r], o) => Settling(p, o)
    BY <1>2, <1>3 DEF Settling
  <1> QED
    BY <1>1, <1>3, <1>9, <1>10, MoveStep

LEMMA TransferredAlone ==
  ASSUME NEW r, Requests = {r}, AloneInv(r), IInv', Transferred(r)
  PROVE  AloneInv(r)'
  <1>1. req[r].phase = "transfer" /\ UNCHANGED <<docs, rels, cut>>
    BY DEF Transferred
  <1>2. PICK q : /\ q = req[r] /\ DOMAIN q = DOMAIN Idle /\ IsRequest(q) /\ RequestInv(q)
    BY <1>1, OnlyRequest
  <1>3. PICK p : p = [q EXCEPT !.phase = "settle"]
    OBVIOUS
  <1>4. Goes(r, p) /\ DOMAIN q.todo = {}
    BY <1>2, <1>3 DEF Transferred
  <1>5. /\ p.phase = "settle" /\ p.op = q.op /\ p.doc = q.doc /\ p.other = q.other
        /\ p.keep = q.keep /\ p.link = q.link
    BY <1>2, <1>3 DEF Request, Idle
  <1>6. q.op = "revoke"
    BY <1>1, <1>2 DEF IsRequest
  <1>7. Stage(p) /\ Linked(p)
    BY <1>1, <1>2, <1>5, <1>6 DEF RequestInv, Stage, Linked
  <1>8. Transferring(p)
    <2>1. \A j : Served(p, j) = Served(q, j)
      BY <1>5 DEF Served
    <2> QED
      BY <1>1, <1>2, <1>4, <1>5, <2>1 DEF RequestInv, Transferring
  <1>9. RequestInv(p)
    BY <1>5, <1>7, <1>8 DEF RequestInv, Deprecating, Known
  <1>10. \A o : Settling(req[r], o) => Settling(p, o)
    BY <1>2, <1>5 DEF Settling
  <1> QED
    BY <1>1, <1>4, <1>9, <1>10, MoveStep

LEMMA SettleAlone ==
  ASSUME NEW r, Requests = {r}, AloneInv(r), IInv', Settle(r)
  PROVE  AloneInv(r)'
  <1>1. req[r].phase = "settle" /\ UNCHANGED <<docs, rels, cut>>
    BY DEF Settle
  <1>2. PICK q : /\ q = req[r] /\ DOMAIN q = DOMAIN Idle /\ IsRequest(q) /\ RequestInv(q)
    BY <1>1, OnlyRequest
  <1>3. PICK ks : ks = ToDeprecate(r)
    OBVIOUS
  <1>4. PICK c : c = Copies(ks) /\ DOMAIN c = ks
    BY CopiesDomain
  <1>5. PICK p : p = [q EXCEPT !.phase = "deprecate", !.todo = c]
    OBVIOUS
  <1>6. Goes(r, p)
    BY <1>2, <1>3, <1>4, <1>5 DEF Settle
  <1>7. /\ p.phase = "deprecate" /\ p.op = q.op /\ p.doc = q.doc /\ p.other = q.other
        /\ p.keep = q.keep /\ p.link = q.link /\ p.todo = c
    BY <1>2, <1>5 DEF Request, Idle
  <1>8. Stage(p) /\ Linked(p)
    BY <1>1, <1>2, <1>7 DEF RequestInv, Stage, Linked
  <1>9. \A k \in Aims(p) : k \in ks \/ rels[k].deprecated
    BY <1>2, <1>3, <1>7 DEF Aims, ToDeprecate, ParentLinks, IsParentLink
  <1>10. Transferring(p)
    <2>1. \A j : Served(p, j) = Served(q, j)
      BY <1>7 DEF Served
    <2> QED
      BY <1>1, <1>2, <1>7, <2>1 DEF RequestInv, Transferring
  <1>11. RequestInv(p)
    BY <1>4, <1>7, <1>8, <1>9, <1>10 DEF RequestInv, Deprecating, Known
  <1>12. \A o : Settling(req[r], o) => Settling(p, o)
    BY <1>2, <1>7 DEF Settling
  <1> QED
    BY <1>1, <1>6, <1>11, <1>12, MoveStep

\* Everything is deprecated, of a technique on which no request was cut short.
LEMMA NothingLeft ==
  ASSUME NEW q, RequestInv(q), q.phase = "deprecate", q.todo = <<>>, q.doc.of \notin cut
  PROVE  ParentLinks(q.doc.of) = {}
  <1>1. \A k \in Aims(q) : rels[k].deprecated
    BY DEF RequestInv, Deprecating
  <1>2. CASE q.op = "revoke"
    <2>1. rels[q.link].type = "revoked-by"
      BY <1>2 DEF RequestInv, Linked
    <2>2. \A k \in Touching(q.doc.of) \ {q.link} : rels[k].deprecated
      BY <1>1, <1>2 DEF Aims
    <2> QED
      BY <2>1, <2>2 DEF ParentLinks, IsParentLink, Touching
  <1>3. CASE q.op # "revoke"
    BY <1>1, <1>3 DEF Aims, ParentLinks, IsParentLink
  <1> QED
    BY <1>2, <1>3

LEMMA SettledAlone ==
  ASSUME NEW r, Requests = {r}, AloneInv(r), IInv', Settled(r)
  PROVE  AloneInv(r)'
  <1>1. /\ req[r].phase = "deprecate" /\ req[r].todo = <<>> /\ Ends(r)
        /\ UNCHANGED <<docs, rels, cut>>
    BY DEF Settled
  <1>2. RequestInv(req[r])
    BY DEF AloneInv
  <1>3. ASSUME NEW o \in Stored \ cut', Settling(req[r], o)
        PROVE  ParentLinks(o) = {}
    <2>1. req[r].doc.of = o /\ o \notin cut
      BY <1>1, <1>3 DEF Settling
    <2> QED
      BY <1>1, <1>2, <2>1, NothingLeft
  <1> QED
    BY <1>1, <1>3, EndStep

LEMMA PassOverAlone ==
  ASSUME NEW r, Requests = {r}, AloneInv(r), IInv', NEW k, PassOver(r, k)
  PROVE  AloneInv(r)'
  <1>1. /\ req[r].phase \in {"transfer", "deprecate"}
        /\ UNCHANGED <<docs, rels>> /\ cut' = cut \cup {req[r].doc.of} /\ Goes(r, Handled(r, k))
    BY DEF PassOver
  <1>2. PICK q : /\ q = req[r] /\ DOMAIN q = DOMAIN Idle /\ IsRequest(q) /\ RequestInv(q)
    BY <1>1, OnlyRequest
  <1>3. PICK p : /\ p = Handled(r, k)
                 /\ p.phase = q.phase /\ p.op = q.op /\ p.doc = q.doc /\ p.other = q.other
                 /\ p.keep = q.keep /\ p.link = q.link /\ p.known = q.known
    BY <1>2, HandledFields
  <1>4. Stage(p)
    BY <1>1, <1>2, <1>3 DEF RequestInv, Stage
  <1>5. Stage(p)' /\ p.doc.of \in cut'
    BY <1>1, <1>2, <1>3, <1>4, SameStage
  <1>6. Linked(p)' /\ Known(p)'
    BY <1>1, <1>2, <1>3 DEF RequestInv, Linked, Known
  <1>7. RequestInv(p)'
    BY <1>5, <1>6 DEF RequestInv, Deprecating, Transferring
  <1>8. \A o : Settling(q, o) => Settling(p, o)
    BY <1>3 DEF Settling
  <1>9. Parents(p)'
    BY <1>1, <1>2, <1>8, SameParents DEF AloneInv
  <1> QED
    BY <1>1, <1>3, <1>7, <1>9, QuietStep

LEMMA FailAlone ==
  ASSUME NEW r, Requests = {r}, AloneInv(r), IInv', Fail(r)
  PROVE  AloneInv(r)'
  <1>1. Ends(r) /\ UNCHANGED <<docs, rels>> /\ cut' = cut \cup {req[r].doc.of}
    BY DEF Fail
  <1>2. \A o \in Stored \ cut' : ~Settling(req[r], o)
    BY <1>1 DEF Settling
  <1> QED
    BY <1>1, <1>2, EndStep

-----------------------------------------------------------------------------
(***************************************************************************)
(* The steps that save a version.                                          *)
(***************************************************************************)
LEMMA LatestAdded ==
  ASSUME TypeOK, NEW d \in TechniqueDocument, docs' = Append(docs, d)
  PROVE  /\ Stored' = Stored \cup {d.of}
         /\ Latest(d.of)' = d
         /\ \A o \in Stored : o # d.of => Latest(o)' = Latest(o)
  <1>1. PICK n \in Nat : n = Len(docs) + 1
    BY DEF TypeOK
  <1>2. /\ DOMAIN docs' = DOMAIN docs \cup {n} /\ n \notin DOMAIN docs
        /\ docs'[n] = d
        /\ \A i \in DOMAIN docs : docs'[i] = docs[i] /\ i \in Nat /\ i <= n
    BY <1>1 DEF TypeOK
  <1>3. Stored' = Stored \cup {d.of}
    BY <1>2 DEF Stored
  <1>4. Latest(d.of)' = d
    <2>1. PICK V : V = VersionsOf(d.of)'
      OBVIOUS
    <2>2. V \in SUBSET Nat /\ n \in V /\ \A i \in V : i <= n
      BY <1>1, <1>2, <2>1 DEF VersionsOf
    <2>3. IsFiniteSet(V)
      <3>1. IsFiniteSet(DOMAIN docs \cup {n})
        BY DocsFinite, FS_AddElement
      <3> QED
        BY <1>2, <2>1, <3>1, FS_Subset DEF VersionsOf
    <2>4. Max(V) \in V /\ Max(V) >= n
      BY <2>2, <2>3, FiniteMax
    <2>5. PICK m : m = Max(V) /\ m \in V /\ m >= n
      BY <2>4
    <2>6. m = n
      BY <2>2, <2>5
    <2> QED
      BY <1>2, <2>1, <2>5, <2>6 DEF Latest
  <1>5. ASSUME NEW o \in Stored, o # d.of PROVE Latest(o)' = Latest(o)
    <2>1. VersionsOf(o)' = VersionsOf(o)
      BY <1>2, <1>5 DEF VersionsOf
    <2>2. Max(VersionsOf(o)) \in DOMAIN docs
      <3>1. VersionsOf(o) \in SUBSET DOMAIN docs /\ VersionsOf(o) # {}
        BY DEF VersionsOf, Stored
      <3> QED
        BY <3>1, NewestOf
    <2> QED
      BY <1>2, <2>1, <2>2 DEF Latest
  <1> QED
    BY <1>3, <1>4, <1>5

LEMMA IdsStayDistinct ==
  ASSUME TypeOK, ActiveIdsDistinct, NEW d \in TechniqueDocument, docs' = Append(docs, d),
         Formed(d), d.revoked \/ NewId(d) \/ AtLatest(d)
  PROVE  ActiveIdsDistinct'
  <1>1. /\ Stored' = Stored \cup {d.of}
        /\ Latest(d.of)' = d
        /\ \A o \in Stored : o # d.of => Latest(o)' = Latest(o)
    BY LatestAdded
  <1>2. \A o \in Active' : o # d.of => o \in Active /\ Latest(o)' = Latest(o)
    BY <1>1 DEF Active
  <1>3. \A o \in Active : Latest(o).id = d.id => o = d.of \/ d.revoked
    BY DEF NewId, AtLatest, ActiveIdsDistinct, Active
  <1>4. d.of \in Active' => ~d.revoked
    BY <1>1 DEF Active
  <1>5. \A o, p \in Active' : Latest(o)'.id = Latest(p)'.id => o = p
    <2> SUFFICES ASSUME NEW o \in Active', NEW p \in Active', Latest(o)'.id = Latest(p)'.id
                 PROVE  o = p
      OBVIOUS
    <2>1. CASE o = d.of \/ p = d.of
      BY <1>1, <1>2, <1>3, <1>4, <2>1
    <2>2. CASE o # d.of /\ p # d.of
      BY <1>2, <2>2 DEF ActiveIdsDistinct
    <2> QED
      BY <2>1, <2>2
  <1>6. \A i \in DOMAIN docs' : docs'[i] = d \/ \E j \in DOMAIN docs : docs'[i] = docs[j]
    BY DEF TypeOK
  <1>7. \A i \in DOMAIN docs' : Len(docs'[i].id) = IF docs'[i].sub THEN 2 ELSE 1
    BY <1>6 DEF ActiveIdsDistinct, Formed
  <1> QED
    BY <1>5, <1>7 DEF ActiveIdsDistinct

\* No technique but a stored one has parents.
LEMMA NewHasNoParent ==
  ASSUME Sources, NEW o, o \notin Stored
  PROVE  ParentLinks(o) = {}
  BY DEF Sources, ParentLinks

LEMMA DocStep ==
  ASSUME NEW r, Requests = {r}, AloneInv(r), IInv', req[r].phase \in {"save", "mark"},
         NEW d \in TechniqueDocument, docs' = Append(docs, d), UNCHANGED <<rels, cut>>,
         Formed(d), d.revoked \/ NewId(d) \/ AtLatest(d),
         NEW z, Goes(r, z), RequestInv(z)',
         d.of \notin cut => ParentLinks(d.of) = {} \/ (d.sub /\ ~d.revoked) \/ Settling(z, d.of)
  PROVE  AloneInv(r)'
  <1>1. req'[r] = z
    BY OneRequestMoves DEF AloneInv, IInv
  <1>2. /\ Stored' = Stored \cup {d.of}
        /\ Latest(d.of)' = d
        /\ \A o \in Stored : o # d.of => Latest(o)' = Latest(o)
    BY LatestAdded DEF AloneInv, IInv
  <1>3. \A o : ParentLinks(o)' = ParentLinks(o)
    BY DEF ParentLinks, IsParentLink
  <1>4. ActiveIdsDistinct'
    BY IdsStayDistinct DEF AloneInv, IInv
  <1>5. Sources'
    BY <1>2 DEF AloneInv, Sources, IsParentLink
  <1>6. RequestInv(req[r])'
    BY <1>1 DEF RequestInv, Stage, Deprecating, Linked, Transferring, Known,
                Aims, Served, Converting, ComposedNew
  <1>7. Parents(z)'
    <2> SUFFICES ASSUME NEW o \in Stored' \ cut
                 PROVE  /\ \A k, l \in ParentLinks(o) : k = l
                        /\ ParentLinks(o) = {} \/ Standing(o)' \/ Settling(z, o)
      BY <1>3 DEF Parents, Settling
    <2>1. \A k, l \in ParentLinks(o) : k = l
      BY NewHasNoParent DEF AloneInv, Parents
    <2>2. CASE o = d.of
      BY <1>2, <2>1, <2>2 DEF Standing
    <2>3. CASE o # d.of
      <3>1. ParentLinks(o) = {} \/ Standing(o)
        BY <1>2, <2>3 DEF AloneInv, Parents, Settling
      <3> QED
        BY <1>2, <2>1, <2>3, <3>1 DEF Standing
    <2> QED
      BY <2>2, <2>3
  <1>8. Parents(req[r])'
    BY <1>1, <1>7 DEF Parents, Settling
  <1> QED
    BY <1>4, <1>5, <1>6, <1>8 DEF AloneInv

LEMMA IdleInvNext ==
  ASSUME NEW z, z = Idle
  PROVE  RequestInv(z)' /\ \A o : ~Settling(z, o)
  <1>1. z.phase = "idle" /\ z.op = "none"
    BY IdleFields
  <1> QED
    BY <1>1 DEF RequestInv, Stage, Deprecating, Linked, Transferring, Known, Settling

LEMMA SaveAlone ==
  ASSUME NEW r, Requests = {r}, AloneInv(r), IInv', Save(r)
  PROVE  AloneInv(r)'
  <1>1. req[r].phase = "save" /\ UNCHANGED <<rels, cut>> /\ docs' = Append(docs, req[r].doc)
    BY DEF Save
  <1>2. PICK q : /\ q = req[r] /\ DOMAIN q = DOMAIN Idle /\ q.doc \in TechniqueDocument /\ Stage(q)
                 /\ RequestInv(q) /\ Parents(q)
    BY <1>1, OnlyRequest
  <1>3. PICK d \in TechniqueDocument : d = q.doc
    BY <1>2
  <1>4. /\ Stored' = Stored \cup {d.of} /\ Latest(d.of)' = d
    BY <1>1, <1>2, <1>3, LatestAdded DEF AloneInv, IInv
  <1>5. \A o : ParentLinks(o)' = ParentLinks(o)
    BY <1>1 DEF ParentLinks, IsParentLink
  <1>6. ASSUME AfterSave(q.op) = "idle", Formed(d), NewId(d) \/ AtLatest(d),
               d.of \notin cut => ParentLinks(d.of) = {} \/ (d.sub /\ ~d.revoked)
        PROVE  AloneInv(r)'
    <2>1. PICK z : z = Idle /\ Goes(r, z)
      BY <1>2, <1>6 DEF Save, Ends
    <2>2. RequestInv(z)'
      BY <2>1, IdleInvNext
    <2> QED
      BY <1>1, <1>2, <1>3, <1>6, <2>1, <2>2, DocStep
  <1>7. CASE q.op = "create" /\ ComposedNew(q)
    <2>1. d.of \notin Stored /\ NewId(d) /\ AfterSave(q.op) = "idle"
      BY <1>3, <1>7 DEF ComposedNew, AfterSave
    <2>2. ParentLinks(d.of) = {}
      BY <2>1, NewHasNoParent DEF AloneInv
    <2> QED
      BY <1>6, <2>1, <2>2 DEF NewId
  <1>8. CASE q.op = "post" /\ AtLatest(q.doc)
    <2>1. AtLatest(d) /\ AfterSave(q.op) = "idle"
      BY <1>3, <1>8 DEF AfterSave
    <2>2. Formed(d)
      BY <2>1, LatestFormed DEF AtLatest, AloneInv, IInv
    <2>3. d.of \notin cut => ParentLinks(d.of) = {} \/ Standing(d.of)
      BY <1>1, <1>2, <2>1 DEF Parents, Settling, AtLatest
    <2> QED
      BY <1>6, <2>1, <2>2, <2>3 DEF Standing, AtLatest
  <1>9. CASE Converting(q)
    <2>1. PICK ph : ph = AfterSave(q.op) /\ ph \in {"relate", "settle"} /\ (ph = "relate" <=> q.op = "tosub")
      BY <1>9 DEF Converting, AfterSave
    <2>2. PICK z : z = [q EXCEPT !.phase = ph]
      OBVIOUS
    <2>3. Goes(r, z)
      BY <1>2, <2>1, <2>2 DEF Save
    <2>4. z.phase = ph /\ z.op = q.op /\ z.doc = d
      BY <1>2, <1>3, <2>2, PhaseFields
    <2>5. NewId(d) /\ Formed(d) /\ ~d.revoked /\ q.op \in {"tosub", "totech"}
      BY <1>3, <1>9 DEF Converting, NewId
    <2>6. q.op = "tosub" => d.sub /\ (d.of \notin cut => ParentLinks(d.of) = {})
      BY <1>1, <1>2, <1>3, <1>9 DEF Converting, Parents, Standing, Settling
    <2>7. q.op = "totech" => ph = "settle"
      BY <2>1
    <2>8. Stage(z)'
      BY <1>1, <1>4, <1>5, <2>1, <2>4, <2>5, <2>6, <2>7 DEF Stage
    <2>9. RequestInv(z)'
      BY <2>1, <2>4, <2>5, <2>8 DEF RequestInv, Deprecating, Linked, Transferring, Known
    <2>10. d.of \notin cut => ParentLinks(d.of) = {} \/ Settling(z, d.of)
      BY <2>4, <2>5, <2>6, <2>7 DEF Settling
    <2> QED
      BY <1>1, <1>2, <1>3, <2>3, <2>5, <2>9, <2>10, DocStep
  <1> QED
    BY <1>1, <1>2, <1>7, <1>8, <1>9 DEF Stage

LEMMA MarkAlone ==
  ASSUME NEW r, Requests = {r}, AloneInv(r), IInv', Mark(r)
  PROVE  AloneInv(r)'
  <1>1. req[r].phase = "mark" /\ UNCHANGED <<rels, cut>>
    BY DEF Mark
  <1>2. PICK q : /\ q = req[r] /\ DOMAIN q = DOMAIN Idle /\ q.doc \in TechniqueDocument /\ Stage(q)
                 /\ IsRequest(q)
    BY <1>1, OnlyRequest
  <1>3. PICK d : d = [q.doc EXCEPT !.revoked = TRUE]
    OBVIOUS
  <1>4. d \in TechniqueDocument /\ d.of = q.doc.of /\ d.revoked /\ d.sub = q.doc.sub /\ d.id = q.doc.id
    BY <1>2, <1>3 DEF TechniqueDocument
  <1>5. PICK z : z = [q EXCEPT !.phase = "link"]
    OBVIOUS
  <1>6. docs' = Append(docs, d) /\ Goes(r, z)
    BY <1>2, <1>3, <1>5 DEF Mark
  <1>7. z.phase = "link" /\ z.op = "revoke" /\ z.doc = q.doc /\ z.other # q.doc.of
    <2>1. q.op = "revoke" /\ q.other # q.doc.of
      BY <1>1, <1>2 DEF IsRequest, Stage
    <2> QED
      BY <1>2, <1>5, <2>1, PhaseFields
  <1>8. Formed(d)
    BY <1>1, <1>2, <1>4, LatestFormed DEF Stage, AtLatest, Formed, AloneInv, IInv
  <1>9. RequestInv(z)'
    BY <1>7 DEF RequestInv, Stage, Deprecating, Linked, Transferring, Known
  <1>10. Settling(z, d.of)
    BY <1>4, <1>7 DEF Settling
  <1> QED
    BY <1>1, <1>4, <1>6, <1>8, <1>9, <1>10, DocStep

-----------------------------------------------------------------------------
(***************************************************************************)
(* The steps that save a relationship.                                     *)
(***************************************************************************)
LEMMA RelAdded ==
  ASSUME TypeOK, NEW x \in RelationshipDocument, rels' = Append(rels, x)
  PROVE  \E n \in Nat : /\ n = Len(rels) + 1
                        /\ DOMAIN rels' = DOMAIN rels \cup {n} /\ n \notin DOMAIN rels
                        /\ rels'[n] = x
                        /\ \A k \in DOMAIN rels : rels'[k] = rels[k]
  BY DEF TypeOK

LEMMA SameDocs ==
  ASSUME UNCHANGED docs
  PROVE  /\ Stored' = Stored /\ Active' = Active
         /\ \A o : Latest(o)' = Latest(o)
  BY DEF Stored, Active, Latest, VersionsOf

LEMMA DocsIdsStay ==
  ASSUME UNCHANGED docs, ActiveIdsDistinct
  PROVE  ActiveIdsDistinct'
  BY SameDocs DEF ActiveIdsDistinct

LEMMA RelStep ==
  ASSUME NEW r, Requests = {r}, AloneInv(r), IInv',
         NEW x \in RelationshipDocument, rels' = Append(rels, x), UNCHANGED <<docs, cut>>,
         x.type = "subtechnique-of" =>
           x.src \in Stored /\ (x.src \notin cut => ParentLinks(x.src) = {} /\ Standing(x.src)),
         NEW z, req'[r] = z, RequestInv(z)',
         \A o : Settling(req[r], o) => Settling(z, o)
  PROVE  AloneInv(r)'
  <1>1. PICK n \in Nat : /\ DOMAIN rels' = DOMAIN rels \cup {n} /\ n \notin DOMAIN rels
                         /\ rels'[n] = x
                         /\ \A k \in DOMAIN rels : rels'[k] = rels[k]
    BY RelAdded DEF AloneInv, IInv
  <1>2. ActiveIdsDistinct'
    BY DocsIdsStay DEF AloneInv
  <1>3. Sources'
    BY <1>1, SameDocs DEF AloneInv, Sources, IsParentLink
  <1>4. RequestInv(req[r])'
    BY DEF RequestInv, Stage, Deprecating, Linked, Transferring, Known,
           Aims, Served, Converting, ComposedNew
  <1>5. \A o : ParentLinks(o)' \subseteq ParentLinks(o) \cup {n}
    BY <1>1 DEF ParentLinks, IsParentLink
  <1>6. \A o : n \in ParentLinks(o)' => o = x.src /\ x.type = "subtechnique-of"
    BY <1>1 DEF ParentLinks, IsParentLink
  <1>7. Parents(z)'
    <2>1. PICK q : q = req[r] /\ Parents(q) /\ \A o : Settling(q, o) => Settling(z, o)
      BY DEF AloneInv
    <2> SUFFICES ASSUME NEW o \in Stored \ cut
                 PROVE  /\ \A k, l \in ParentLinks(o)' : k = l
                        /\ ParentLinks(o)' = {} \/ Standing(o) \/ Settling(z, o)
      BY SameDocs DEF Parents, Settling, Standing
    <2>2. CASE n \in ParentLinks(o)'
      <3>1. ParentLinks(o) = {} /\ Standing(o)
        BY <1>6, <2>2
      <3> QED
        BY <1>5, <3>1
    <2>3. CASE n \notin ParentLinks(o)'
      <3>1. ParentLinks(o)' \subseteq ParentLinks(o)
        BY <1>5, <2>3
      <3> QED
        BY <2>1, <3>1 DEF Parents
    <2> QED
      BY <2>2, <2>3
  <1>8. Parents(req[r])'
    BY <1>7 DEF Parents, Settling
  <1> QED
    BY <1>2, <1>3, <1>4, <1>8 DEF AloneInv

LEMMA RelateParentAlone ==
  ASSUME NEW r, Requests = {r}, AloneInv(r), IInv', RelateParent(r)
  PROVE  AloneInv(r)'
  <1>1. req[r].phase = "relate" /\ UNCHANGED <<docs, cut>> /\ Ends(r)
    BY DEF RelateParent
  <1>2. PICK q : /\ q = req[r] /\ q.doc \in TechniqueDocument /\ Stage(q) /\ IsRequest(q)
    BY <1>1, OnlyRequest
  <1>3. PICK x : x = Relationship("subtechnique-of", q.doc.of, q.other)
    OBVIOUS
  <1>4. q.doc.of \in Objects /\ q.other \in Objects
    BY <1>1, <1>2 DEF IsRequest, TechniqueDocument
  <1>5. /\ x \in RelationshipDocument /\ x.type = "subtechnique-of" /\ x.src = q.doc.of
        /\ rels' = Append(rels, x)
    <2>1. x \in RelationshipDocument /\ x.type = "subtechnique-of" /\ x.src = q.doc.of
      BY <1>3, <1>4 DEF Relationship, RelationshipDocument
    <2> QED
      BY <1>2, <1>3, <2>1 DEF RelateParent
  <1>6. x.src \in Stored /\ (x.src \notin cut => ParentLinks(x.src) = {} /\ Standing(x.src))
    BY <1>1, <1>2, <1>5 DEF Stage, Standing
  <1>7. PICK z : z = Idle /\ req'[r] = z /\ RequestInv(z)'
    BY <1>1, OneRequestMoves, IdleInvNext DEF Ends, AloneInv, IInv
  <1>8. \A o : ~Settling(req[r], o)
    BY <1>1 DEF Settling
  <1> QED
    BY <1>1, <1>5, <1>6, <1>7, <1>8, RelStep

LEMMA RelateAlone ==
  ASSUME NEW r, Requests = {r}, AloneInv(r), IInv', Relate(r)
  PROVE  AloneInv(r)'
  <1>1. req[r].phase = "idle" /\ UNCHANGED <<docs, req, cut>>
    BY DEF Relate
  <1>2. PICK x \in RelationshipDocument :
          /\ rels' = Append(rels, x)
          /\ x.type = "subtechnique-of" =>
               /\ x.src \in Stored
               /\ ParentLinks(x.src) = {} /\ Standing(x.src)
    <2>1. Stored \subseteq Objects /\ Active \subseteq Stored
      BY LatestTyped, StoredTyped DEF AloneInv, IInv, Stored, Active
    <2>2. ASSUME NEW s \in Others, NEW o \in Stored, rels' = Append(rels, Relationship("uses", s, o))
          PROVE  \E x \in RelationshipDocument : rels' = Append(rels, x) /\ x.type = "uses"
      <3>1. PICK x : x = Relationship("uses", s, o)
        OBVIOUS
      <3>2. x \in RelationshipDocument /\ x.type = "uses"
        BY <2>1, <3>1 DEF Relationship, RelationshipDocument
      <3> QED
        BY <2>2, <3>1, <3>2
    <2>3. ASSUME NEW s \in Active, NEW p \in Active, Latest(s).sub, ParentLinks(s) = {},
                 rels' = Append(rels, Relationship("subtechnique-of", s, p))
          PROVE  \E x \in RelationshipDocument :
                   rels' = Append(rels, x) /\ x.src = s /\ s \in Stored /\ Standing(s)
      <3>1. PICK x : x = Relationship("subtechnique-of", s, p)
        OBVIOUS
      <3>2. x \in RelationshipDocument /\ x.src = s
        BY <2>1, <3>1 DEF Relationship, RelationshipDocument
      <3> QED
        BY <2>1, <2>3, <3>1, <3>2 DEF Standing, Active
    <2> QED
      BY <2>2, <2>3 DEF Relate
  <1>3. PICK z : z = req[r] /\ z.phase = "idle" /\ req'[r] = z /\ RequestInv(z)
    BY <1>1 DEF AloneInv
  <1>4. RequestInv(z)'
    <2>1. z.op = "revoke" => z.other # z.doc.of
      BY <1>3 DEF RequestInv, Stage
    <2> QED
      BY <1>3, <2>1 DEF RequestInv, Stage, Deprecating, Linked, Transferring, Known
  <1> QED
    BY <1>1, <1>2, <1>3, <1>4, RelStep

LEMMA LinkAlone ==
  ASSUME NEW r, Requests = {r}, AloneInv(r), IInv', Link(r)
  PROVE  AloneInv(r)'
  <1>1. req[r].phase = "link" /\ UNCHANGED <<docs, cut>>
    BY DEF Link
  <1>2. PICK q : /\ q = req[r] /\ q.doc \in TechniqueDocument /\ Stage(q) /\ IsRequest(q)
                 /\ DOMAIN q = DOMAIN Idle
    BY <1>1, OnlyRequest
  <1>3. PICK x : x = Relationship("revoked-by", q.doc.of, q.other)
    OBVIOUS
  <1>4. q.doc.of \in Objects /\ q.other \in Objects /\ q.op = "revoke" /\ q.other # q.doc.of
    BY <1>1, <1>2 DEF IsRequest, TechniqueDocument, Stage
  <1>5. /\ x \in RelationshipDocument /\ x.type = "revoked-by"
        /\ rels' = Append(rels, x)
    <2>1. x \in RelationshipDocument /\ x.type = "revoked-by"
      BY <1>3, <1>4 DEF Relationship, RelationshipDocument
    <2> QED
      BY <1>2, <1>3, <2>1 DEF Link
  <1>6. PICK n \in Nat : /\ n = Len(rels) + 1 /\ n \in DOMAIN rels' /\ rels'[n] = x
    BY <1>5, RelAdded DEF AloneInv, IInv
  <1>7. PICK ph : ph = (IF q.keep THEN "list" ELSE "settle") /\ ph \in {"list", "settle"}
    OBVIOUS
  <1>8. PICK z : z = [q EXCEPT !.link = n, !.phase = ph]
    OBVIOUS
  <1>9. Goes(r, z)
    BY <1>2, <1>6, <1>7, <1>8 DEF Link
  <1>10. z.phase = ph /\ z.op = q.op /\ z.doc = q.doc /\ z.other = q.other /\ z.keep = q.keep /\ z.link = n
    BY <1>2, <1>8 DEF Request, Idle
  <1>11. Stage(z)' /\ Linked(z)'
    BY <1>4, <1>5, <1>6, <1>7, <1>10 DEF Stage, Linked
  <1>12. RequestInv(z)'
    BY <1>7, <1>10, <1>11 DEF RequestInv, Deprecating, Transferring, Known
  <1>13. req'[r] = z
    BY <1>9, OneRequestMoves DEF AloneInv, IInv
  <1>14. \A o : Settling(req[r], o) => Settling(z, o)
    BY <1>2, <1>7, <1>10 DEF Settling
  <1> QED
    BY <1>1, <1>5, <1>12, <1>13, <1>14, RelStep

\* What is moved no longer touches the technique it is moved from.
LEMMA MovedAway ==
  ASSUME NEW t \in RelationshipDocument, NEW a \in Objects, NEW b \in Objects, a # b
  PROVE  \E x \in RelationshipDocument :
           /\ x = Substituted(t, a, b)
           /\ x.type = t.type /\ a \notin {x.src, x.tgt}
  <1>1. PICK s \in Objects \cup Others, u \in Objects \cup Others :
          s = (IF t.src = a THEN b ELSE t.src) /\ u = (IF t.tgt = a THEN b ELSE t.tgt)
    BY DEF RelationshipDocument
  <1>2. Substituted(t, a, b) = [[t EXCEPT !.src = s] EXCEPT !.tgt = u]
    BY <1>1 DEF Substituted, RelationshipDocument
  <1>3. PICK x : x = [[t EXCEPT !.src = s] EXCEPT !.tgt = u]
    OBVIOUS
  <1>4. x \in RelationshipDocument /\ x.src = s /\ x.tgt = u /\ x.type = t.type
    BY <1>3 DEF RelationshipDocument
  <1>5. s # a /\ u # a
    BY <1>1
  <1>6. x = Substituted(t, a, b)
    BY <1>2, <1>3
  <1> QED
    BY <1>4, <1>5, <1>6

LEMMA KnownAdded ==
  ASSUME NEW h, DOMAIN h = DOMAIN Idle, NEW kn, NEW z, z = [h EXCEPT !.known = kn]
  PROVE  /\ z.phase = h.phase /\ z.op = h.op /\ z.doc = h.doc /\ z.other = h.other
         /\ z.keep = h.keep /\ z.link = h.link /\ z.todo = h.todo /\ z.known = kn
  BY DEF Request, Idle

LEMMA TransferAlone ==
  ASSUME NEW r, Requests = {r}, AloneInv(r), IInv', NEW k \in DOMAIN req[r].todo, Transfer(r, k)
  PROVE  AloneInv(r)'
  <1>1. req[r].phase = "transfer" /\ UNCHANGED <<docs, cut>>
    BY DEF Transfer
  <1>2. PICK q : /\ q = req[r] /\ q.doc \in TechniqueDocument /\ Stage(q) /\ IsRequest(q)
                 /\ DOMAIN q = DOMAIN Idle /\ RequestInv(q)
    BY <1>1, OnlyRequest
  <1>3. /\ q.doc.of \in Objects /\ q.other \in Objects /\ q.op = "revoke" /\ q.other # q.doc.of
        /\ k \in DOMAIN q.todo /\ q.todo[k] \in RelationshipDocument
    BY <1>1, <1>2 DEF IsRequest, TechniqueDocument, Stage
  <1>4. PICK x \in RelationshipDocument :
          /\ x = Substituted(q.todo[k], q.doc.of, q.other)
          /\ x.type = q.todo[k].type /\ q.doc.of \notin {x.src, x.tgt}
    BY <1>3, MovedAway
  <1>5. x = Moved(r, k) /\ x.type # "subtechnique-of" /\ rels' = Append(rels, x)
    BY <1>2, <1>4 DEF Transfer, StaysBehind, Moved
  <1>6. PICK n \in Nat : /\ DOMAIN rels' = DOMAIN rels \cup {n} /\ n \notin DOMAIN rels
                         /\ rels'[n] = x
                         /\ \A j \in DOMAIN rels : rels'[j] = rels[j]
    BY <1>5, RelAdded DEF AloneInv, IInv
  <1>7. PICK h : /\ h = Handled(r, k)
                 /\ h.phase = q.phase /\ h.op = q.op /\ h.doc = q.doc /\ h.other = q.other
                 /\ h.keep = q.keep /\ h.link = q.link /\ h.known = q.known
                 /\ DOMAIN h.todo = DOMAIN q.todo \ {k}
                 /\ DOMAIN h = DOMAIN Idle
    BY <1>2, HandledFields
  <1>8. PICK kn : kn = h.known \cup {Triple(x)}
    OBVIOUS
  <1>9. PICK z : z = [h EXCEPT !.known = kn]
    OBVIOUS
  <1>10. Goes(r, z)
    <2>1. Goes(r, [h EXCEPT !.known = @ \cup {Triple(x)}])
      BY <1>5, <1>7 DEF Transfer
    <2> QED
      BY <1>8, <1>9, <2>1
  <1>11. /\ z.phase = "transfer" /\ z.op = "revoke" /\ z.doc = q.doc /\ z.other = q.other
         /\ z.keep = q.keep /\ z.link = q.link /\ z.known = q.known \cup {Triple(x)}
         /\ DOMAIN z.todo = DOMAIN q.todo \ {k}
    BY <1>1, <1>2, <1>3, <1>7, <1>8, <1>9, KnownAdded
  <1>12. Stage(z)' /\ Linked(z)'
    BY <1>1, <1>2, <1>3, <1>6, <1>11 DEF RequestInv, Stage, Linked
  <1>13. Known(z)'
    <2> SUFFICES ASSUME NEW t \in z.known PROVE \E m \in DOMAIN rels' : t = Triple(rels'[m])
      BY DEF Known
    <2>1. CASE t \in q.known
      BY <1>1, <1>2, <1>6, <2>1 DEF RequestInv, Known
    <2>2. CASE t = Triple(x)
      BY <1>6, <2>2
    <2> QED
      BY <1>11, <2>1, <2>2
  <1>14. Touching(q.doc.of)' = Touching(q.doc.of)
    BY <1>4, <1>6 DEF Touching
  <1>15. Transferring(z)'
    <2> SUFFICES ASSUME q.keep, q.doc.of \notin cut, NEW j \in Touching(q.doc.of) \ {q.link}
                 PROVE  rels'[j].type = "subtechnique-of" \/ Served(z, j)' \/ j \in DOMAIN z.todo
      BY <1>1, <1>11, <1>14 DEF Transferring
    <2>1. j \in DOMAIN rels /\ rels'[j] = rels[j]
      BY <1>6 DEF Touching
    <2>2. rels[j].type = "subtechnique-of" \/ Served(q, j) \/ j \in DOMAIN q.todo
      BY <1>1, <1>2, <1>3 DEF RequestInv, Transferring
    <2>3. CASE Served(q, j)
      <3>1. PICK m \in DOMAIN rels : Triple(rels[m]) = Triple(Substituted(rels[j], q.doc.of, q.other))
        BY <2>3 DEF Served
      <3> QED
        BY <1>6, <1>11, <2>1, <3>1 DEF Served
    <2>4. CASE j = k
      <3>1. Triple(x) = Triple(Substituted(rels[k], q.doc.of, q.other))
        BY <1>2, <1>3, <1>5, CopyGoes DEF AloneInv, IInv
      <3> QED
        BY <1>6, <1>11, <2>1, <2>4, <3>1 DEF Served
    <2> QED
      BY <1>11, <2>1, <2>2, <2>3, <2>4
  <1>16. RequestInv(z)'
    BY <1>11, <1>12, <1>13, <1>15 DEF RequestInv, Deprecating
  <1>17. req'[r] = z
    BY <1>10, OneRequestMoves DEF AloneInv, IInv
  <1>18. \A o : Settling(req[r], o) => Settling(z, o)
    BY <1>2, <1>11 DEF Settling
  <1> QED
    BY <1>1, <1>5, <1>16, <1>17, <1>18, RelStep

LEMMA DeprecateAlone ==
  ASSUME NEW r, Requests = {r}, AloneInv(r), IInv', NEW k \in DOMAIN req[r].todo, Deprecate(r, k)
  PROVE  AloneInv(r)'
  <1>1. req[r].phase = "deprecate" /\ UNCHANGED <<docs, cut>>
    BY DEF Deprecate
  <1>2. PICK q : /\ q = req[r] /\ Stage(q) /\ IsRequest(q)
                 /\ DOMAIN q = DOMAIN Idle /\ RequestInv(q) /\ Parents(q)
    BY <1>1, OnlyRequest
  <1>3. k \in DOMAIN rels /\ q.todo[k] \in RelationshipDocument /\ Triple(q.todo[k]) = Triple(rels[k])
    BY <1>2 DEF IsRequest
  <1>4. PICK x : x = [q.todo[k] EXCEPT !.deprecated = TRUE]
    OBVIOUS
  <1>5. x \in RelationshipDocument /\ x.deprecated /\ Triple(x) = Triple(rels[k])
    <2>1. PICK t \in RelationshipDocument : t = q.todo[k]
      BY <1>3
    <2>2. x \in RelationshipDocument /\ x.deprecated /\ Triple(x) = Triple(t)
      BY <1>4, <2>1 DEF RelationshipDocument, Triple
    <2> QED
      BY <1>3, <2>1, <2>2
  <1>6. rels' = [rels EXCEPT ![k] = x]
    BY <1>2, <1>4 DEF Deprecate
  <1>7. /\ DOMAIN rels' = DOMAIN rels
        /\ rels'[k] = x
        /\ \A j \in DOMAIN rels : j # k => rels'[j] = rels[j]
    BY <1>3, <1>6
  <1>8. \A j \in DOMAIN rels : /\ Triple(rels'[j]) = Triple(rels[j])
                               /\ rels'[j].type = rels[j].type
                               /\ rels'[j].src = rels[j].src /\ rels'[j].tgt = rels[j].tgt
    BY <1>5, <1>7 DEF Triple
  <1>9. \A j \in DOMAIN rels : IsParentLink(j)' => IsParentLink(j)
    BY <1>5, <1>7 DEF IsParentLink
  <1>10. \A o : Touching(o)' = Touching(o) /\ ParentLinks(o)' \subseteq ParentLinks(o)
    BY <1>7, <1>8, <1>9 DEF Touching, ParentLinks
  <1>11. PICK z : /\ z = Handled(r, k)
                  /\ z.phase = q.phase /\ z.op = q.op /\ z.doc = q.doc /\ z.other = q.other
                  /\ z.keep = q.keep /\ z.link = q.link
                  /\ DOMAIN z.todo = DOMAIN q.todo \ {k}
    BY <1>2, HandledFields
  <1>12. req'[r] = z
    BY <1>11, OneRequestMoves DEF Deprecate, AloneInv, IInv
  <1>13. Stage(z)' /\ Linked(z)'
    BY <1>1, <1>2, <1>7, <1>8, <1>11 DEF RequestInv, Stage, Linked
  <1>14. Deprecating(z)'
    <2> SUFFICES ASSUME q.doc.of \notin cut, NEW j \in Aims(z)'
                 PROVE  j \in DOMAIN z.todo \/ rels'[j].deprecated
      BY <1>1, <1>11 DEF Deprecating
    <2>1. j \in Aims(q)
      BY <1>7, <1>8, <1>10, <1>11 DEF Aims
    <2>2. j \in DOMAIN rels
      BY <2>1 DEF Aims, Touching
    <2>3. j \in DOMAIN q.todo \/ rels[j].deprecated
      BY <1>1, <1>2, <2>1 DEF RequestInv, Deprecating
    <2> QED
      BY <1>5, <1>7, <1>11, <2>2, <2>3
  <1>15. Transferring(z)'
    <2>1. \A j \in DOMAIN rels : rels[j] \in RelationshipDocument /\ rels'[j] \in RelationshipDocument
      BY <1>5, <1>7 DEF AloneInv, IInv, TypeOK
    <2>2. ASSUME NEW j \in DOMAIN rels, Served(q, j)
          PROVE  Served(z, j)'
      <3>1. PICK m \in DOMAIN rels : Triple(rels[m]) = Triple(Substituted(rels[j], q.doc.of, q.other))
        BY <2>2 DEF Served
      <3>2. Triple(Substituted(rels'[j], q.doc.of, q.other)) = Triple(Substituted(rels[j], q.doc.of, q.other))
        BY <1>8, <2>1, SubstitutedTriple
      <3> QED
        BY <1>7, <1>8, <1>11, <3>1, <3>2 DEF Served
    <2> SUFFICES ASSUME q.op = "revoke", q.keep, q.doc.of \notin cut,
                        NEW j \in Touching(q.doc.of) \ {q.link}
                 PROVE  rels'[j].type = "subtechnique-of" \/ Served(z, j)'
      BY <1>1, <1>2, <1>10, <1>11 DEF Transferring
    <2>3. j \in DOMAIN rels
      BY DEF Touching
    <2>4. rels[j].type = "subtechnique-of" \/ Served(q, j)
      BY <1>1, <1>2 DEF RequestInv, Transferring
    <2> QED
      BY <1>8, <2>2, <2>3, <2>4
  <1>16. RequestInv(req[r])'
    <2>1. RequestInv(z)'
      BY <1>1, <1>2, <1>11, <1>13, <1>14, <1>15 DEF RequestInv, Known
    <2> QED
      BY <1>12, <2>1 DEF RequestInv, Stage, Deprecating, Linked, Transferring, Known,
                         Aims, Served, Converting, ComposedNew
  <1>17. Parents(req[r])'
    <2>1. Parents(z)'
      BY <1>1, <1>2, <1>10, <1>11, SameDocs DEF Parents, Standing, Settling
    <2> QED
      BY <1>12, <2>1 DEF Parents, Settling
  <1>18. Sources'
    BY <1>1, <1>7, <1>8, <1>9, SameDocs DEF AloneInv, Sources
  <1>19. ActiveIdsDistinct'
    BY <1>1, DocsIdsStay DEF AloneInv
  <1> QED
    BY <1>16, <1>17, <1>18, <1>19 DEF AloneInv

-----------------------------------------------------------------------------
(***************************************************************************)
(* The invariant of one request at a time.                                 *)
(***************************************************************************)
LEMMA AloneInit == ASSUME NEW r, Requests = {r} PROVE Init => AloneInv(r)
  <1> SUFFICES ASSUME Init PROVE AloneInv(r)
    OBVIOUS
  <1>1. IInv /\ TypeOK
    BY IInvInit DEF IInv
  <1>2. docs = InitDocs /\ rels = InitRels /\ req[r] = Idle
    BY DEF Init
  <1>3. \A o \in Stored : \E i \in DOMAIN InitDocs : Latest(o) = InitDocs[i] /\ InitDocs[i].of = o
    <2> SUFFICES ASSUME NEW o \in Stored
                 PROVE  \E i \in DOMAIN InitDocs : Latest(o) = InitDocs[i] /\ InitDocs[i].of = o
      OBVIOUS
    <2>1. Latest(o).of = o /\ \E i \in DOMAIN docs : Latest(o) = docs[i]
      BY <1>1, LatestTyped
    <2> QED
      BY <1>2, <2>1
  <1>4. ActiveIdsDistinct
    <2>1. \A o, p \in Active : Latest(o).id = Latest(p).id => o = p
      BY <1>3, OrderAssumption DEF Active
    <2>2. \A i \in DOMAIN docs : Len(docs[i].id) = IF docs[i].sub THEN 2 ELSE 1
      BY <1>2, OrderAssumption
    <2> QED
      BY <2>1, <2>2 DEF ActiveIdsDistinct
  <1>5. Sources
    BY <1>2, OrderAssumption DEF Sources, IsParentLink, Stored
  <1>6. RequestInv(req[r])
    BY <1>2, IdleInv
  <1>7. \A o \in Stored : /\ \A k, l \in ParentLinks(o) : k = l
                          /\ ParentLinks(o) = {} \/ Standing(o)
    <2> SUFFICES ASSUME NEW o \in Stored
                 PROVE  /\ \A k, l \in ParentLinks(o) : k = l
                        /\ ParentLinks(o) = {} \/ Standing(o)
      OBVIOUS
    <2>1. \A k, l \in ParentLinks(o) : k = l
      BY <1>2, OrderAssumption DEF ParentLinks, IsParentLink
    <2>2. ASSUME NEW k \in ParentLinks(o) PROVE Standing(o)
      <3>1. PICK i \in DOMAIN InitDocs : Latest(o) = InitDocs[i] /\ InitDocs[i].of = o
        BY <1>3
      <3>2. InitDocs[i].sub
        BY <1>2, <3>1, OrderAssumption DEF ParentLinks, IsParentLink
      <3>3. ~InitDocs[i].revoked
        BY <3>1, InitAssumption
      <3> QED
        BY <3>1, <3>2, <3>3 DEF Standing
    <2> QED
      BY <2>1, <2>2
  <1>8. Parents(req[r])
    BY <1>7 DEF Parents
  <1> QED
    BY <1>1, <1>4, <1>5, <1>6, <1>8 DEF AloneInv

LEMMA AloneNext ==
  ASSUME NEW r, Requests = {r}
  PROVE  AloneInv(r) /\ [Next]_vars => AloneInv(r)'
  <1> SUFFICES ASSUME AloneInv(r), [Next]_vars PROVE AloneInv(r)'
    OBVIOUS
  <1>1. IInv'
    BY IInvNext DEF AloneInv
  <1>2. CASE UNCHANGED vars
    <2>1. PICK q : q = req[r] /\ req'[r] = q /\ RequestInv(q) /\ Parents(q)
      BY <1>2 DEF vars, AloneInv
    <2>2. UNCHANGED <<docs, rels>> /\ cut \subseteq cut'
      BY <1>2 DEF vars
    <2>3. RequestInv(q)' /\ Parents(q)'
      BY <2>1, <2>2, SameRequest, SameParents
    <2>4. RequestInv(req[r])' /\ Parents(req[r])'
      BY <2>1, <2>3 DEF RequestInv, Stage, Deprecating, Linked, Transferring, Known,
                        Aims, Served, Converting, ComposedNew, Parents, Settling
    <2>5. ActiveIdsDistinct' /\ Sources'
      BY <2>2, SameReads DEF AloneInv, ActiveIdsDistinct, Sources, IsParentLink
    <2> QED
      BY <1>1, <2>4, <2>5 DEF AloneInv
  <1>3. CASE BeginCreate(r) \/ BeginPost(r) \/ BeginToSub(r) \/ BeginToTechnique(r) \/ BeginRevoke(r)
    BY <1>1, <1>3, BeginCreateAlone, BeginPostAlone, BeginToSubAlone, BeginToTechniqueAlone,
       BeginRevokeAlone
  <1>4. CASE Compose(r) \/ Carry(r) \/ Number(r) \/ CheckChildren(r) \/ ListRelationships(r)
    BY <1>1, <1>4, ComposeAlone, CarryAlone, NumberAlone, CheckChildrenAlone, ListRelationshipsAlone
  <1>5. CASE Save(r) \/ Mark(r) \/ Link(r) \/ RelateParent(r) \/ Relate(r)
    BY <1>1, <1>5, SaveAlone, MarkAlone, LinkAlone, RelateParentAlone, RelateAlone
  <1>6. CASE Transferred(r) \/ Settle(r) \/ Settled(r) \/ Fail(r)
    BY <1>1, <1>6, TransferredAlone, SettleAlone, SettledAlone, FailAlone
  <1>7. ASSUME NEW k \in DOMAIN req[r].todo,
               LeaveBehind(r, k) \/ Transfer(r, k) \/ Deprecate(r, k) \/ PassOver(r, k)
        PROVE  AloneInv(r)'
    BY <1>1, <1>7, LeaveBehindAlone, TransferAlone, DeprecateAlone, PassOverAlone
  <1> QED
    BY <1>2, <1>3, <1>4, <1>5, <1>6, <1>7 DEF Next

LEMMA AloneHolds == ASSUME NEW r, Requests = {r} PROVE Spec => []AloneInv(r)
  <1>1. Init => AloneInv(r)
    BY AloneInit
  <1>2. AloneInv(r) /\ [Next]_vars => AloneInv(r)'
    BY AloneNext
  <1> QED
    BY <1>1, <1>2, PTL DEF Spec

\* While there is one request at a time, whatever may be cut short: techniques that are not
\* revoked have different ATT&CK IDs, of the form that suits them (generateAttackId, the
\* conversions and create of techniques-service.js and base.service.js).
THEOREM IdsAreDistinct ==
  ASSUME NEW r, Requests = {r} PROVE Spec => []ActiveIdsDistinct
  <1>1. AloneInv(r) => ActiveIdsDistinct
    BY DEF AloneInv
  <1> QED
    BY <1>1, AloneHolds, PTL

\* One request at a time: between requests a technique has at most one parent, and only as a
\* subtechnique that is not revoked, unless a request on it was cut short.
THEOREM ParentsSettle ==
  ASSUME NEW r, Requests = {r} PROVE Spec => []OneParent
  <1>1. AloneInv(r) => OneParent
    <2> SUFFICES ASSUME AloneInv(r), Quiet, NEW o \in Stored \ cut
                 PROVE  /\ Cardinality(ParentLinks(o)) <= 1
                        /\ ParentLinks(o) # {} => Latest(o).sub /\ ~Latest(o).revoked
      BY DEF OneParent
    <2>1. /\ \A k, l \in ParentLinks(o) : k = l
          /\ ParentLinks(o) = {} \/ Standing(o)
      BY DEF AloneInv, Parents, Quiet, Settling
    <2>2. Cardinality(ParentLinks(o)) <= 1
      <3>1. CASE ParentLinks(o) = {}
        <4>1. Cardinality(ParentLinks(o)) = 0
          BY <3>1, FS_EmptySet
        <4> QED
          BY <4>1
      <3>2. CASE ParentLinks(o) # {}
        <4>1. PICK k : ParentLinks(o) = {k}
          BY <2>1, <3>2
        <4>2. Cardinality(ParentLinks(o)) = 1
          BY <4>1, FS_Singleton
        <4> QED
          BY <4>2
      <3> QED
        BY <3>1, <3>2
    <2> QED
      BY <2>1, <2>2 DEF Standing
  <1> QED
    BY <1>1, AloneHolds, PTL

\* One request at a time: when a revocation is over, and nothing of it failed, the
\* relationships of the technique are deprecated but for the one that names its successor.
THEOREM RevocationsSettle ==
  ASSUME NEW r, Requests = {r} PROVE Spec => []RevocationSettles
  <1>1. AloneInv(r) => RevocationSettles
    BY DEF AloneInv, RevocationSettles, Revoked, RequestInv, Deprecating, Aims
  <1> QED
    BY <1>1, AloneHolds, PTL

\* One request at a time: a successor has the relationships that were to be preserved.
THEOREM TransfersComplete ==
  ASSUME NEW r, Requests = {r} PROVE Spec => []TransferComplete
  <1>1. AloneInv(r) => TransferComplete
    BY DEF AloneInv, TransferComplete, Revoked, RequestInv, Transferring, Served
  <1> QED
    BY <1>1, AloneHolds, PTL

\* What a step does to the latest version of a stored technique: Save and Mark alone write
\* versions, of the technique their request is on.
LEMMA VersionsWritten ==
  ASSUME NEW r, Requests = {r}, AloneInv(r), [Next]_vars, NEW o \in Stored, Latest(o)' # Latest(o)
  PROVE  /\ req[r].doc.of = o
         /\ \/ req[r].phase = "save" /\ Latest(o)' = req[r].doc
            \/ req[r].phase = "mark" /\ Latest(o)' = [req[r].doc EXCEPT !.revoked = TRUE]
  <1>1. UNCHANGED docs => Latest(o)' = Latest(o)
    BY SameDocs
  <1>2. CASE Save(r)
    <2>1. PICK d : d = req[r].doc /\ d \in TechniqueDocument
      BY <1>2, UnderWay DEF Save, AloneInv
    <2>2. docs' = Append(docs, d) /\ req[r].phase = "save"
      BY <1>2, <2>1 DEF Save
    <2> QED
      BY <2>1, <2>2, LatestAdded DEF AloneInv, IInv
  <1>3. CASE Mark(r)
    <2>1. PICK c \in TechniqueDocument : c = req[r].doc
      BY <1>3, UnderWay DEF Mark, AloneInv
    <2>2. PICK d : d = [c EXCEPT !.revoked = TRUE]
      OBVIOUS
    <2>3. d \in TechniqueDocument /\ d.of = c.of
      BY <2>2 DEF TechniqueDocument
    <2>4. docs' = Append(docs, d) /\ req[r].phase = "mark"
      BY <1>3, <2>1, <2>2 DEF Mark
    <2> QED
      BY <2>1, <2>2, <2>3, <2>4, LatestAdded DEF AloneInv, IInv
  <1>4. CASE UNCHANGED vars
    BY <1>1, <1>4 DEF vars
  <1>5. CASE BeginCreate(r) \/ BeginPost(r) \/ BeginToSub(r) \/ BeginToTechnique(r) \/ BeginRevoke(r)
    BY <1>1, <1>5 DEF BeginCreate, BeginPost, BeginToSub, BeginToTechnique, BeginRevoke
  <1>6. CASE Compose(r) \/ Carry(r) \/ Number(r) \/ CheckChildren(r) \/ ListRelationships(r)
    BY <1>1, <1>6 DEF Compose, Carry, Number, CheckChildren, ListRelationships
  <1>7. CASE Link(r) \/ RelateParent(r) \/ Relate(r) \/ Transferred(r) \/ Settle(r) \/ Settled(r) \/ Fail(r)
    BY <1>1, <1>7 DEF Link, RelateParent, Relate, Transferred, Settle, Settled, Fail
  <1>8. ASSUME NEW k, LeaveBehind(r, k) \/ Transfer(r, k) \/ Deprecate(r, k) \/ PassOver(r, k)
        PROVE  UNCHANGED docs
    BY <1>8 DEF LeaveBehind, Transfer, Deprecate, PassOver
  <1> QED
    BY <1>1, <1>2, <1>3, <1>4, <1>5, <1>6, <1>7, <1>8 DEF Next

\* One request at a time: nothing makes a revoked technique one that is not.
THEOREM RevokedStays ==
  ASSUME NEW r, Requests = {r} PROVE Spec => StaysRevoked
  <1>1. AloneInv(r) /\ [Next]_vars => \A o \in Stored : Latest(o).revoked => Latest(o)'.revoked
    <2> SUFFICES ASSUME AloneInv(r), [Next]_vars, NEW o \in Stored, Latest(o).revoked
                 PROVE  Latest(o)'.revoked
      OBVIOUS
    <2>1. CASE Latest(o)' = Latest(o)
      BY <2>1
    <2>2. CASE Latest(o)' # Latest(o)
      <3>1. /\ req[r].doc.of = o
            /\ \/ req[r].phase = "save" /\ Latest(o)' = req[r].doc
               \/ req[r].phase = "mark" /\ Latest(o)' = [req[r].doc EXCEPT !.revoked = TRUE]
        BY <2>2, VersionsWritten
      <3>2. PICK q : /\ q = req[r] /\ q.doc \in TechniqueDocument /\ Stage(q)
        BY <3>1, OnlyRequest
      <3>3. q.phase = "save" => q.doc = Latest(o)
        BY <3>1, <3>2 DEF Stage, ComposedNew, Converting, AtLatest
      <3>4. [q.doc EXCEPT !.revoked = TRUE].revoked
        BY <3>2 DEF TechniqueDocument
      <3> QED
        BY <3>1, <3>2, <3>3, <3>4
    <2> QED
      BY <2>1, <2>2
  <1> QED
    BY <1>1, AloneHolds, PTL DEF Spec, StaysRevoked

=============================================================================
