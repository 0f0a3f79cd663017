----------------------------- MODULE Techniques -----------------------------
(***************************************************************************)
(* Techniques, their ATT&CK IDs and their relationships: creation, new     *)
(* versions, revocation in favour of another technique (base.service.js),  *)
(* conversion to and from subtechniques (techniques-service.js), and what  *)
(* the listeners of relationships-service.js then do to relationships.     *)
(* Requests interleave at every await; nothing is rolled back.             *)
(***************************************************************************)
EXTENDS Naturals, Sequences, FiniteSets, FiniteSetsExt, Functions

CONSTANTS
  Objects,      \* the STIX ids techniques may get
  Others,       \* the STIX ids of objects of other types
  InitDocs,     \* the technique documents stored at the start
  InitRels,     \* the relationships stored at the start
  Requests,     \* the requests that may be in flight at a time
  MaxDocs,      \* bound on the technique documents stored
  MaxRels,      \* bound on the relationships stored
  Failures      \* whether requests may be cut short and saves may fail

\* An ATT&CK ID: T0002 is <<2>>, T0002.001 is <<2, 1>>.
AttackId == {id \in Seq(Nat) : Len(id) \in {1, 2}}

TechniqueDocument == [of : Objects, sub : BOOLEAN, id : AttackId, revoked : BOOLEAN]

RelationshipDocument ==
  [type : {"uses", "subtechnique-of", "revoked-by"}, src : Objects \cup Others,
   tgt : Objects \cup Others, deprecated : BOOLEAN]

ASSUME InitAssumption ==
  /\ InitDocs \in Seq(TechniqueDocument)
  /\ InitRels \in Seq(RelationshipDocument)
  /\ \A i \in DOMAIN InitDocs : ~InitDocs[i].revoked

\* What is stored at the start is in order: ATT&CK IDs tell techniques apart and have the
\* form that suits them, only stored subtechniques have parents, and each one.
ASSUME OrderAssumption ==
  LET Parents == {k \in DOMAIN InitRels : InitRels[k].type = "subtechnique-of" /\ ~InitRels[k].deprecated}
  IN /\ \A i, j \in DOMAIN InitDocs : InitDocs[i].id = InitDocs[j].id => InitDocs[i].of = InitDocs[j].of
     /\ \A i \in DOMAIN InitDocs : Len(InitDocs[i].id) = IF InitDocs[i].sub THEN 2 ELSE 1
     /\ \A k \in Parents : \E i \in DOMAIN InitDocs : InitDocs[i].of = InitRels[k].src
     /\ \A k \in Parents, i \in DOMAIN InitDocs : InitDocs[i].of = InitRels[k].src => InitDocs[i].sub
     /\ \A k, l \in Parents : InitRels[k].src = InitRels[l].src => k = l

VARIABLES
  docs,         \* the versions of all techniques, in the order of stix.modified
  rels,         \* the latest version of each relationship
  req,          \* the state of each request
  cut           \* auxiliary: the techniques on which a request was cut short or lost a save

vars == <<docs, rels, req, cut>>

-----------------------------------------------------------------------------
(***************************************************************************)
(* Documents.  Deprecation of techniques is left out, and so is deletion.  *)
(***************************************************************************)
Technique(o, sub, id, revoked) == [of |-> o, sub |-> sub, id |-> id, revoked |-> revoked]

Relationship(type, src, tgt) == [type |-> type, src |-> src, tgt |-> tgt, deprecated |-> FALSE]

VersionsOf(o) == {i \in DOMAIN docs : docs[i].of = o}

Stored == {docs[i].of : i \in DOMAIN docs}

\* retrieveLatestByStixId, and retrieveOneById: the one index on stix.id lists the latest first.
Latest(o) == docs[Max(VersionsOf(o))]

\* retrieveAll({}): the latest versions, of those not revoked.
Active == {o \in Stored : ~Latest(o).revoked}

Bearers(id) == {i \in DOMAIN docs : docs[i].id = id}

\* retrieveLatestByAttackId: the newest document that bears the ID, of whatever technique.
FoundBy(id) == docs[Max(Bearers(id))].of

Touching(o) == {k \in DOMAIN rels : o \in {rels[k].src, rels[k].tgt}}

IsParentLink(k) == rels[k].type = "subtechnique-of" /\ ~rels[k].deprecated

ChildLinks(o) == {k \in DOMAIN rels : IsParentLink(k) /\ rels[k].tgt = o}

ParentLinks(o) == {k \in DOMAIN rels : IsParentLink(k) /\ rels[k].src = o}

Triple(rel) == <<rel.src, rel.type, rel.tgt>>

(***************************************************************************)
(* generateAttackId.                                                       *)
(***************************************************************************)
NextNumber == 1 + Max({0} \cup {Latest(o).id[1] : o \in Active})

SubsUnder(n) == {o \in Stored : Latest(o).sub /\ Len(Latest(o).id) = 2 /\ Latest(o).id[1] = n}

\* A slip to rule out: the subtechniques are counted.
NextSubId_Counts(n) == <<n, 1 + Cardinality(SubsUnder(n))>>

NextSubId(n) == <<n, 1 + Max({0} \cup {Latest(o).id[2] : o \in SubsUnder(n)})>>

-----------------------------------------------------------------------------
(***************************************************************************)
(* Requests.  doc is the version being composed, other the revoking object *)
(* or the parent, keep whether relationships are preserved, link the       *)
(* revoked-by relationship, under the number of the parent's ATT&CK ID,    *)
(* todo the relationships listed and not yet handled, known the triples of *)
(* the revoking object.                                                    *)
(***************************************************************************)
NoDoc == Technique("none", FALSE, <<0>>, FALSE)

Request(ph, op, doc, other, keep) ==
  [phase |-> ph, op |-> op, doc |-> doc, other |-> other, keep |-> keep,
   link |-> 0, under |-> 0, todo |-> <<>>, known |-> {}]

Idle == Request("idle", "none", NoDoc, "none", FALSE)

Goes(r, state) == req' = [req EXCEPT ![r] = state]

Ends(r) == Goes(r, Idle)

\* A request on a free slot, while there is room for one more version.
Begins(r) == req[r].phase = "idle" /\ Len(docs) < MaxDocs

Init ==
  /\ docs = InitDocs
  /\ rels = InitRels
  /\ req = [r \in Requests |-> Idle]
  /\ cut = {}

(***************************************************************************)
(* create() of a new technique: the ATT&CK ID is computed from what is     *)
(* stored now, the document saved later.  The parent named for a           *)
(* subtechnique is not looked up.                                          *)
(***************************************************************************)
FreshIds == Objects \ (Stored \cup {req[q].doc.of : q \in Requests})

BeginCreate(r) ==
  /\ Begins(r)
  /\ \E o \in FreshIds :
       \/ Goes(r, Request("save", "create", Technique(o, FALSE, <<NextNumber>>, FALSE), "none", FALSE))
       \/ \E p \in Stored :
            Goes(r, Request("save", "create",
                            Technique(o, TRUE, NextSubId(Latest(p).id[1]), FALSE), "none", FALSE))
  /\ UNCHANGED <<docs, rels, cut>>

(***************************************************************************)
(* create() of a new version: the client sends the document it has read    *)
(* with the fields it may change changed; the ATT&CK ID and then revoked   *)
(* are carried forward from the latest version.                            *)
(***************************************************************************)
BeginPost(r) ==
  /\ Begins(r)
  /\ \E o \in Stored : Goes(r, Request("compose", "post", Latest(o), "none", FALSE))
  /\ UNCHANGED <<docs, rels, cut>>

Compose(r) ==
  /\ req[r].phase = "compose"
  /\ Goes(r, [req[r] EXCEPT !.phase = "carry", !.doc.id = Latest(req[r].doc.of).id])
  /\ UNCHANGED <<docs, rels, cut>>

\* A slip to rule out: revoked was stripped from the request and nothing is carried forward.
Carry_Forgets(r) ==
  /\ req[r].phase = "carry"
  /\ Goes(r, [req[r] EXCEPT !.phase = "save", !.doc.revoked = FALSE])
  /\ UNCHANGED <<docs, rels, cut>>

Carry(r) ==
  /\ req[r].phase = "carry"
  /\ Goes(r, [req[r] EXCEPT !.phase = "save", !.doc.revoked = Latest(req[r].doc.of).revoked])
  /\ UNCHANGED <<docs, rels, cut>>

(***************************************************************************)
(* Conversions: read, check, compute the new ID, save.                     *)
(***************************************************************************)
BeginToSub(r) ==
  /\ Begins(r)
  /\ \E o \in Stored, n \in {docs[i].id[1] : i \in DOMAIN docs} :
       /\ ~Latest(o).sub /\ ~Latest(o).revoked
       /\ Bearers(<<n>>) # {}
       /\ Goes(r, [Request("children", "tosub", Latest(o), FoundBy(<<n>>), FALSE)
                     EXCEPT !.under = n])
  /\ UNCHANGED <<docs, rels, cut>>

BeginToTechnique(r) ==
  /\ Begins(r)
  /\ \E o \in Stored :
       /\ Latest(o).sub /\ ~Latest(o).revoked
       /\ Goes(r, Request("number", "totech", Latest(o), "none", FALSE))
  /\ UNCHANGED <<docs, rels, cut>>

-----------------------------------------------------------------------------
(***************************************************************************)
(* revoke(): any version of another technique may be named as the one to   *)
(* revoke with.  A parent is not revoked with a subtechnique while it has  *)
(* subtechniques (beforeRevoke).                                           *)
(***************************************************************************)
BeginRevoke(r) ==
  /\ Begins(r)
  /\ \E a \in Stored, i \in DOMAIN docs, keep \in BOOLEAN :
       /\ docs[i].of # a
       /\ ~Latest(a).revoked
       /\ Len(rels) + 1 + Cardinality(Touching(a)) <= MaxRels
       /\ Goes(r, Request(IF docs[i].sub /\ ~Latest(a).sub THEN "children" ELSE "mark",
                          "revoke", Latest(a), docs[i].of, keep))
  /\ UNCHANGED <<docs, rels, cut>>

\* No subtechnique is left under the technique to be converted or revoked.
CheckChildren(r) ==
  /\ req[r].phase = "children"
  /\ IF ChildLinks(req[r].doc.of) # {}
     THEN Ends(r)
     ELSE Goes(r, [req[r] EXCEPT !.phase = IF req[r].op = "revoke" THEN "mark" ELSE "number"])
  /\ UNCHANGED <<docs, rels, cut>>

\* A conversion composes the new version.
AsSubtechnique(q) ==
  [q EXCEPT !.phase = "save", !.doc.sub = TRUE, !.doc.id = NextSubId(q.under)]

AsTechnique(q) ==
  [q EXCEPT !.phase = "save", !.doc.sub = FALSE, !.doc.id = <<NextNumber>>]

Number(r) ==
  /\ req[r].phase = "number"
  /\ Goes(r, IF req[r].op = "tosub" THEN AsSubtechnique(req[r]) ELSE AsTechnique(req[r]))
  /\ UNCHANGED <<docs, rels, cut>>

\* A slip to rule out: a conversion to a technique emits none.
AfterSave_Silent(op) == IF op = "tosub" THEN "relate" ELSE "idle"

\* The version composed is saved; conversions emit their event.
AfterSave(op) == CASE op = "tosub" -> "relate" [] op = "totech" -> "settle" [] OTHER -> "idle"

Save(r) ==
  /\ req[r].phase = "save"
  /\ docs' = Append(docs, req[r].doc)
  /\ IF AfterSave(req[r].op) = "idle"
     THEN Ends(r)
     ELSE Goes(r, [req[r] EXCEPT !.phase = AfterSave(req[r].op)])
  /\ UNCHANGED <<rels, cut>>

\* handleTechniqueConvertedToSubtechnique.
RelateParent(r) ==
  /\ req[r].phase = "relate"
  /\ rels' = Append(rels, Relationship("subtechnique-of", req[r].doc.of, req[r].other))
  /\ Ends(r)
  /\ UNCHANGED <<docs, cut>>

\* The clone of the version read is saved as revoked.
Mark(r) ==
  /\ req[r].phase = "mark"
  /\ docs' = Append(docs, [req[r].doc EXCEPT !.revoked = TRUE])
  /\ Goes(r, [req[r] EXCEPT !.phase = "link"])
  /\ UNCHANGED <<rels, cut>>

\* A slip to rule out: source and target are swapped.
Link_Reversed(r) ==
  /\ req[r].phase = "link"
  /\ rels' = Append(rels, Relationship("revoked-by", req[r].other, req[r].doc.of))
  /\ Goes(r, [req[r] EXCEPT !.link = Len(rels) + 1,
                            !.phase = IF req[r].keep THEN "list" ELSE "settle"])
  /\ UNCHANGED <<docs, cut>>

Link(r) ==
  /\ req[r].phase = "link"
  /\ rels' = Append(rels, Relationship("revoked-by", req[r].doc.of, req[r].other))
  /\ Goes(r, [req[r] EXCEPT !.link = Len(rels) + 1,
                            !.phase = IF req[r].keep THEN "list" ELSE "settle"])
  /\ UNCHANGED <<docs, cut>>

Copies(ks) == [k \in ks |-> rels[k]]

\* A slip to rule out: the relationships to the revoked object are not listed.
ListRelationships_Sources(r) ==
  /\ req[r].phase = "list"
  /\ Goes(r, [req[r] EXCEPT !.phase = "transfer",
                !.todo = Copies({k \in DOMAIN rels : rels[k].src = req[r].doc.of} \ {req[r].link}),
                !.known = {Triple(rels[k]) : k \in Touching(req[r].other)}])
  /\ UNCHANGED <<docs, rels, cut>>

\* retrieveAllBySourceOrTarget of both objects.
ListRelationships(r) ==
  /\ req[r].phase = "list"
  /\ Goes(r, [req[r] EXCEPT !.phase = "transfer",
                !.todo = Copies(Touching(req[r].doc.of) \ {req[r].link}),
                !.known = {Triple(rels[k]) : k \in Touching(req[r].other)}])
  /\ UNCHANGED <<docs, rels, cut>>

Substituted(rel, a, b) ==
  [rel EXCEPT !.src = IF @ = a THEN b ELSE @, !.tgt = IF @ = a THEN b ELSE @]

Moved(r, k) == Substituted(req[r].todo[k], req[r].doc.of, req[r].other)

StaysBehind(r, k) ==
  req[r].todo[k].type = "subtechnique-of" \/ Triple(Moved(r, k)) \in req[r].known

Handled(r, k) == [req[r] EXCEPT !.todo = Restrict(@, DOMAIN @ \ {k})]

LeaveBehind(r, k) ==
  /\ req[r].phase = "transfer"
  /\ StaysBehind(r, k)
  /\ Goes(r, Handled(r, k))
  /\ UNCHANGED <<docs, rels, cut>>

Transfer(r, k) ==
  /\ req[r].phase = "transfer"
  /\ ~StaysBehind(r, k)
  /\ rels' = Append(rels, Moved(r, k))
  /\ Goes(r, [Handled(r, k) EXCEPT !.known = @ \cup {Triple(Moved(r, k))}])
  /\ UNCHANGED <<docs, cut>>

Transferred(r) ==
  /\ req[r].phase = "transfer"
  /\ req[r].todo = <<>>
  /\ Goes(r, [req[r] EXCEPT !.phase = "settle"])
  /\ UNCHANGED <<docs, rels, cut>>

\* A slip to rule out: the relationships to the revoked object are forgotten.
ToDeprecate_Sources(r) ==
  IF req[r].op = "revoke" THEN {k \in DOMAIN rels : rels[k].src = req[r].doc.of} \ {req[r].link}
                          ELSE ParentLinks(req[r].doc.of)

\* handleObjectRevoked, handleSubtechniqueConvertedToTechnique: what is to be deprecated.
ToDeprecate(r) ==
  IF req[r].op = "revoke" THEN Touching(req[r].doc.of) \ {req[r].link}
                          ELSE ParentLinks(req[r].doc.of)

Settle(r) ==
  /\ req[r].phase = "settle"
  /\ Goes(r, [req[r] EXCEPT !.phase = "deprecate", !.todo = Copies(ToDeprecate(r))])
  /\ UNCHANGED <<docs, rels, cut>>

\* In whatever order: one relationship after the other, none of which looks at another.
Deprecate(r, k) ==
  /\ req[r].phase = "deprecate"
  /\ k = Min(DOMAIN req[r].todo)
  /\ rels' = [rels EXCEPT ![k] = [req[r].todo[k] EXCEPT !.deprecated = TRUE]]
  /\ Goes(r, Handled(r, k))
  /\ UNCHANGED <<docs, cut>>

Settled(r) ==
  /\ req[r].phase = "deprecate"
  /\ req[r].todo = <<>>
  /\ Ends(r)
  /\ UNCHANGED <<docs, rels, cut>>

(***************************************************************************)
(* Users relate objects; a subtechnique they have created is related to    *)
(* the technique its ATT&CK ID names.                                      *)
(***************************************************************************)
Relate(r) ==
  /\ req[r].phase = "idle"
  /\ Len(rels) < MaxRels
  /\ \/ \E s \in Others, o \in Stored : rels' = Append(rels, Relationship("uses", s, o))
     \/ \E s, p \in Active :
          /\ Latest(s).sub /\ ParentLinks(s) = {}
          /\ Latest(p).id = <<Latest(s).id[1]>>
          /\ rels' = Append(rels, Relationship("subtechnique-of", s, p))
  /\ UNCHANGED <<docs, req, cut>>

(***************************************************************************)
(* Failures.  A relationship that cannot be saved is logged and passed     *)
(* over where the code catches it; anything else ends the request.         *)
(***************************************************************************)
PassOver(r, k) ==
  /\ Failures
  /\ \/ req[r].phase = "transfer" /\ ~StaysBehind(r, k)
     \/ req[r].phase = "deprecate" /\ k = Min(DOMAIN req[r].todo)
  /\ Goes(r, Handled(r, k))
  /\ cut' = cut \cup {req[r].doc.of}
  /\ UNCHANGED <<docs, rels>>

Fail(r) ==
  /\ Failures
  /\ req[r].phase # "idle"
  /\ Ends(r)
  /\ cut' = cut \cup {req[r].doc.of}
  /\ UNCHANGED <<docs, rels>>

Next ==
  \E r \in Requests :
    \/ BeginCreate(r) \/ BeginPost(r) \/ Compose(r) \/ Carry(r)
    \/ BeginToSub(r) \/ BeginToTechnique(r) \/ Number(r) \/ Save(r) \/ RelateParent(r)
    \/ BeginRevoke(r) \/ CheckChildren(r) \/ Mark(r) \/ Link(r) \/ ListRelationships(r)
    \/ Transferred(r) \/ Settle(r) \/ Settled(r)
    \/ \E k \in DOMAIN req[r].todo :
         LeaveBehind(r, k) \/ Transfer(r, k) \/ Deprecate(r, k) \/ PassOver(r, k)
    \/ Relate(r) \/ Fail(r)

Spec == Init /\ [][Next]_vars

-----------------------------------------------------------------------------
(***************************************************************************)
(* Properties.                                                             *)
(***************************************************************************)
Phases == {"idle", "compose", "carry", "children", "number", "save", "relate",
           "mark", "link", "list", "transfer", "settle", "deprecate"}

\* The copies a request holds are of stored relationships, which keep their type and ends.
IsRequest(q) ==
  /\ q.phase \in Phases
  /\ q.phase # "idle" => DOMAIN q = DOMAIN Idle /\ q.doc \in TechniqueDocument
  /\ q.phase \in {"compose", "carry"} => q.doc.of \in Stored
  /\ q.under \in Nat
  /\ q.op \in {"tosub", "revoke"} => q.other \in Objects
  /\ q.phase = "children" => q.op \in {"tosub", "revoke"}
  /\ q.phase = "relate" => q.op = "tosub"
  /\ q.phase \in {"mark", "link", "list", "transfer"} => q.op = "revoke"
  /\ \A k \in DOMAIN q.todo :
       /\ k \in DOMAIN rels
       /\ q.todo[k] \in RelationshipDocument
       /\ Triple(q.todo[k]) = Triple(rels[k])

TypeOK ==
  /\ docs \in Seq(TechniqueDocument)
  /\ rels \in Seq(RelationshipDocument)
  /\ DOMAIN req = Requests
  /\ \A r \in Requests : IsRequest(req[r])
  /\ cut \subseteq Objects

Quiet == \A r \in Requests : req[r].phase = "idle"

\* Whatever interleaves, a technique marked as revoked is linked to a successor, or the
\* request that marked it is about to do so, or was cut short on it (the TODO at
\* base.service.js:1100 asks what then).
HasSuccessor(o) ==
  \/ o \in cut
  \/ \E k \in DOMAIN rels : rels[k].type = "revoked-by" /\ rels[k].src = o
  \/ \E r \in Requests : req[r].phase = "link" /\ req[r].doc.of = o

SuccessorRecorded == \A i \in DOMAIN docs : docs[i].revoked => HasSuccessor(docs[i].of)

\* One request at a time: techniques that are not revoked have different ATT&CK IDs, of
\* the form that suits them, through conversions back and forth and requests cut short.
ActiveIdsDistinct ==
  /\ \A o, p \in Active : Latest(o).id = Latest(p).id => o = p
  /\ \A i \in DOMAIN docs : Len(docs[i].id) = IF docs[i].sub THEN 2 ELSE 1

\* One request at a time: a technique has a parent only if it is a subtechnique not
\* revoked, and only one, unless a request on it failed half way.
OneParent ==
  Quiet => \A o \in Stored \ cut :
             /\ Cardinality(ParentLinks(o)) <= 1
             /\ ParentLinks(o) # {} => Latest(o).sub /\ ~Latest(o).revoked

\* One request at a time: revocation is for good; new versions carry it forward and
\* nothing else is done to a revoked technique.
StaysRevoked == [][ \A o \in Stored : Latest(o).revoked => Latest(o)'.revoked ]_vars

Revoked(r) == /\ req[r].op = "revoke" /\ req[r].phase = "deprecate" /\ req[r].todo = <<>>
              /\ req[r].doc.of \notin cut

\* One request at a time: once a revocation is over without a failure, the one
\* relationship of the technique that is left active is the one that names its successor.
RevocationSettles ==
  \A r \in Requests : Revoked(r) =>
    \A k \in Touching(req[r].doc.of) : rels[k].deprecated \/ k = req[r].link

\* One request at a time: with preserveRelationships, the successor then has, for every
\* relationship of the technique but those of the hierarchy, one of the same type with
\* the same other end; so objects revoked in favour of the technique follow it.
TransferComplete ==
  \A r \in Requests : Revoked(r) /\ req[r].keep =>
    \A k \in Touching(req[r].doc.of) \ {req[r].link} :
      \/ rels[k].type = "subtechnique-of"
      \/ \E m \in DOMAIN rels :
           Triple(rels[m]) = Triple(Substituted(rels[k], req[r].doc.of, req[r].other))

=============================================================================
