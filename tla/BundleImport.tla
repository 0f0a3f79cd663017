---------------------------- MODULE BundleImport ----------------------------
(***************************************************************************)
(* Collections and the import of collection bundles.  An import stores the *)
(* objects of a bundle tier by tier, then its references, and last the     *)
(* collection with the account of what happened to each object.  Other     *)
(* imports, the deletion of collections with their contents, the creation  *)
(* of collections and of references, and exports interleave with it.       *)
(***************************************************************************)
EXTENDS Naturals, Sequences, FiniteSets, FiniteSetsExt, SequencesExt

CONSTANTS
  Importers,    \* the requests (or passes of the scheduler) that import a bundle
  Requests,     \* a sequence: what they may import, and how
  Collections,  \* the collections that may be created by request: [id, modified, contents]
  Before,       \* the objects stored at the start
  Unreadable,   \* the types whose stored objects the database may fail to deliver
  MaxJobs,      \* bound on the requests that create or delete collections
  MaxOthers,    \* bound on the exports and the references created by request
  None

VARIABLES
  store,   \* the stored objects
  colls,   \* the stored collections, by id and modified
  refs,    \* the names of the stored references
  imp,     \* the state of each import
  job,     \* the creation or deletion of collections that is in progress
  jobs,    \* the number of those begun
  others,  \* the number of exports and of references created by request
  stolen   \* auxiliary: the objects deleted below a running import

vars == <<store, colls, refs, imp, job, jobs, others, stolen>>

-----------------------------------------------------------------------------
(***************************************************************************)
(* Objects and their keys.  A marking definition has no "modified": its    *)
(* "modified" here is the time of its creation, and its id is its index.   *)
(***************************************************************************)
Marking == "marking-definition"

makeKeyFromObject(o) == <<o.id, o.modified>>

\* An object as it is stored, with the collections it is marked with.
Document(o, marks) ==
  [id |-> o.id, type |-> o.type, modified |-> o.modified, version |-> o.version,
   status |-> o.status, collections |-> marks]

\* An import is no request to create a collection; bundles are finite.
ASSUME ImportAssumption ==
  /\ Importers \cap Nat = {}
  /\ \A r \in DOMAIN Requests : IsFiniteSet(Requests[r].bundle.objects)
  /\ \A d \in Before : d = Document(d, d.collections)

UniqueIndex(o) == IF o.type = Marking THEN <<o.id, None>> ELSE <<o.id, o.modified>>

\* The text of a version compares character by character: its digits, a dot.
Decimal(n) == IF n < 10 THEN <<n>> ELSE <<n \div 10, n % 10>>

Text(version) == Decimal(version[1]) \o <<-1>> \o Decimal(version[2])

TextLess(s, t) ==
  \/ IsStrictPrefix(s, t)
  \/ \E k \in DOMAIN s \cap DOMAIN t :
       /\ SubSeq(s, 1, k - 1) = SubSeq(t, 1, k - 1)
       /\ s[k] < t[k]

\* retrieveAllByStixIds
Existing(ids) == {d \in store : d.id \in ids}

Newest(docs) == CHOOSE d \in docs : \A e \in docs : e.modified <= d.modified

checkForDuplicate(o, existing) == \E d \in existing : d.modified = o.modified

\* The category an object is listed in; some objects are listed in none.
categorizeObject(o, existing) ==
  IF existing = {} THEN {"additions"}
  ELSE LET latest == Newest(existing)
       IN  CASE o.status = "revoked" /\ latest.status # "revoked" -> {"revocations"}
             [] o.status = "deprecated" /\ latest.status # "deprecated" -> {"deprecations"}
             [] latest.modified >= o.modified -> {"out_of_date"}
             [] TextLess(Text(latest.version), Text(o.version)) -> {"changes"}
             [] latest.version = o.version -> {"minor_changes"}
             [] OTHER -> {}

\* sortObjectsByDependencies; types that it does not know come last.
TypeOrder ==
  <<Marking, "identity", "x-mitre-data-source", "x-mitre-data-component", "x-mitre-analytic",
    "x-mitre-detection-strategy", "attack-pattern", "x-mitre-tactic", "course-of-action",
    "intrusion-set", "campaign", "malware", "tool", "x-mitre-asset", "x-mitre-matrix",
    "relationship", "note", "x-mitre-collection">>

Rank(type) == IF type \in ToSet(TypeOrder)
              THEN CHOOSE k \in DOMAIN TypeOrder : TypeOrder[k] = type
              ELSE 1 + Len(TypeOrder)

FirstType(types) == CHOOSE t \in types : \A u \in types : Rank(t) <= Rank(u)

HasService(type) == type \in ToSet(TypeOrder) \ {"x-mitre-collection"}

-----------------------------------------------------------------------------
(***************************************************************************)
(* Validation of a request to import, before anything is stored.           *)
(***************************************************************************)
\* Objects whose specification version is missing or fits are "ok".
specViolation(o) == o.type # Marking /\ o.spec # "ok"

TheCollection(bundle) == CHOOSE o \in bundle.objects : o.type = "x-mitre-collection"

\* Mutant: only versions that are none are counted.
invalidAttackSpecVersionCount_Malformed(bundle) ==
  Cardinality({o \in bundle.objects : specViolation(o) /\ o.spec = "invalid"})

invalidAttackSpecVersionCount(bundle) == Cardinality({o \in bundle.objects : specViolation(o)})

shouldBlockImport(r) ==
  \/ Cardinality({o \in r.bundle.objects : o.type = "x-mitre-collection"}) # 1
  \/ invalidAttackSpecVersionCount(r.bundle) > 0 /\ ~r.forceSpec

\* The task of the scheduler checks the number of collections only.
Refused(r) ==
  IF r.scheduled
  THEN Cardinality({o \in r.bundle.objects : o.type = "x-mitre-collection"}) # 1
  ELSE shouldBlockImport(r)

-----------------------------------------------------------------------------
Idle ==
  [phase |-> "idle", request |-> None, dup |-> None, contents |-> {}, left |-> {},
   pending |-> {}, names |-> {}, known |-> {}, errors |-> {}, categories |-> {}]

NoJob ==
  [kind |-> "none", gone |-> {}, all |-> FALSE, work |-> {}, victim |-> None, seen |-> {}]

Init ==
  /\ store = Before
  /\ colls = <<>>
  /\ refs = {}
  /\ imp = [i \in Importers |-> Idle]
  /\ job = NoJob
  /\ jobs = 0
  /\ others = 0
  /\ stolen = {}

Ended == {"done", "failed", "refused"}

Req(i) == Requests[imp[i].request]

Bundle(i) == Req(i).bundle

CollectionKey(i) == makeKeyFromObject(TheCollection(Bundle(i)))

\* The answer is sent, and what the import held is gone.
Ends(i, phase) == imp' = [imp EXCEPT ![i] = [Idle EXCEPT !.phase = phase, !.request = imp[i].request]]

Fails(i) == Ends(i, "failed")

\* importBundle and checkDuplicateCollection, after the validation of the controller.
Begin(i, r) ==
  /\ imp[i].phase = "idle"
  /\ LET request == Requests[r]
         key == makeKeyFromObject(TheCollection(request.bundle))
         found == ~Refused(request) /\ key \in DOMAIN colls
         ends == Refused(request) \/ (found /\ ~request.forceDuplicate)
     IN  imp' = [imp EXCEPT ![i] =
           IF ends
           THEN [Idle EXCEPT !.request = r,
                             !.phase = IF Refused(request) THEN "refused" ELSE "failed"]
           ELSE [Idle EXCEPT
                   !.request = r,
                   !.phase = "tiers",
                   !.dup = IF found THEN colls[key] ELSE None,
                   !.contents = request.bundle.contents,
                   !.left = {o.type : o \in request.bundle.objects},
                   !.errors = IF found THEN {<<key, "duplicateCollection">>} ELSE {}]]
  /\ UNCHANGED <<store, colls, refs, job, jobs, others, stolen>>

-----------------------------------------------------------------------------
(***************************************************************************)
(* One tier: the objects of a type.  The gate and the composition need no  *)
(* state but the versions fetched in between.                              *)
(***************************************************************************)
Tier(i) == {o \in Bundle(i).objects : o.type = FirstType(imp[i].left)}

NotInContents(i) ==
  {o \in Tier(i) : /\ makeKeyFromObject(o) \notin imp[i].contents
                   /\ o.type \notin {"x-mitre-collection", Marking}}

\* A version that is no version cannot be compared, whatever the request forces.
GateThrows(i) ==
  \E o \in Tier(i) :
    specViolation(o) /\ (o.spec = "invalid" \/ ~Req(i).forceSpec)

Eligible(i) == {o \in Tier(i) : ~specViolation(o)}

Errors(objects, kind) == {<<makeKeyFromObject(o), kind>> : o \in objects}

\* The tier leaves the import with these errors, whatever follows.
Gated(i) ==
  [imp[i] EXCEPT
     !.left = @ \ {FirstType(@)},
     !.contents = @ \ {makeKeyFromObject(o) : o \in Tier(i)},
     !.errors = @ \cup Errors(NotInContents(i), "notInContents")
                  \cup Errors(Tier(i) \ Eligible(i), "attackSpecVersionViolation")]

Fresh(i) == {o \in Eligible(i) : ~checkForDuplicate(o, Existing({o.id}))}

\* The references of an object that are neither its aliases nor identify it.
processExternalReferences(o) == o.references

Invalid(o) == ~o.valid /\ o.status = "active"

\* composeForImport and beforeCreate: what is left to be stored.
Composed(i) ==
  IF Req(i).preview THEN {}
  ELSE {o \in Fresh(i) : o.accepted /\ (Invalid(o) => ~Req(i).strict)}

\* Mutant: an object that strict validation drops is not reported.
ComposeErrors_Stored(i) ==
  Errors({o \in Fresh(i) : Invalid(o) /\ ~Req(i).strict}, "validationError")
  \cup Errors({o \in Fresh(i) : ~o.accepted}, "saveError")

ComposeErrors(i) ==
  Errors({o \in Fresh(i) : Invalid(o)}, "validationError")
  \cup Errors({o \in Fresh(i) : ~o.accepted}, "saveError")

Compose(i) ==
  imp' = [imp EXCEPT ![i] =
    [Gated(i) EXCEPT
       !.pending = Composed(i),
       !.categories = @ \cup {<<"duplicates", o.id>> : o \in Eligible(i) \ Fresh(i)}
                        \cup UNION {{<<c, o.id>> : c \in categorizeObject(o, Existing({o.id}))} :
                                      o \in Fresh(i)},
       !.names = @ \cup UNION {processExternalReferences(o) : o \in Fresh(i)},
       !.errors = @ \cup IF Req(i).preview THEN {} ELSE ComposeErrors(i)]]

\* processTier to the bulk insert; the retrieval of the existing versions may fail.
processTier(i) ==
  /\ imp[i].phase = "tiers"
  /\ imp[i].pending = {}
  /\ imp[i].left # {}
  /\ \/ GateThrows(i) /\ Fails(i)
     \/ ~GateThrows(i) /\ HasService(FirstType(imp[i].left)) /\ Compose(i)
     \/ /\ ~GateThrows(i)
        /\ FirstType(imp[i].left) \in Unreadable
        /\ imp' = [imp EXCEPT ![i] = [Gated(i) EXCEPT
                     !.errors = @ \cup Errors(Eligible(i), "retrievalError")]]
     \/ /\ ~GateThrows(i)
        /\ ~HasService(FirstType(imp[i].left))
        /\ imp' = [imp EXCEPT ![i] = [Gated(i) EXCEPT
                     !.errors = @ \cup IF FirstType(imp[i].left) = "x-mitre-collection" THEN {}
                                       ELSE Errors(Eligible(i), "unknownObjectType")]]
  /\ UNCHANGED <<store, colls, refs, job, jobs, others, stolen>>

\* saveMany: the bulk insert is not ordered, and each document fails on its own.
saveMany(i, o) ==
  /\ imp[i].phase = "tiers"
  /\ o \in imp[i].pending
  /\ LET taken == UniqueIndex(o) \in {UniqueIndex(d) : d \in store}
     IN  /\ store' = IF taken THEN store ELSE store \cup {Document(o, {CollectionKey(i)})}
         /\ imp' = [imp EXCEPT ![i].pending = @ \ {o},
                               ![i].errors = @ \cup IF taken THEN Errors({o}, "saveError")
                                                    ELSE {}]
  /\ UNCHANGED <<colls, refs, job, jobs, others, stolen>>

-----------------------------------------------------------------------------
(***************************************************************************)
(* After the tiers: the references, and the collection.                    *)
(***************************************************************************)
\* The end of processObjects, and the query of importReferences.
ReadReferences(i) ==
  /\ imp[i].phase = "tiers"
  /\ imp[i].left = {}
  /\ imp[i].pending = {}
  /\ imp' = [imp EXCEPT ![i].phase = "references",
                        ![i].known = refs,
                        ![i].errors = @ \cup {<<k, "missingObject">> : k \in imp[i].contents}]
  /\ UNCHANGED <<store, colls, refs, job, jobs, others, stolen>>

importReferences(i, name) ==
  /\ imp[i].phase = "references"
  /\ name \in imp[i].names
  /\ IF Req(i).preview \/ name \in imp[i].known
     THEN refs' = refs /\ imp' = [imp EXCEPT ![i].names = @ \ {name}]
     ELSE /\ refs' = refs \cup {name}
          /\ IF name \in refs THEN Fails(i) ELSE imp' = [imp EXCEPT ![i].names = @ \ {name}]
  /\ UNCHANGED <<store, colls, job, jobs, others, stolen>>

Account(i) == [importer |-> i, errors |-> imp[i].errors]

SavedCollection(i) ==
  [contents |-> Bundle(i).contents, by |-> i, errors |-> imp[i].errors,
   reimports |-> {}, exported |-> 0]

\* Mutant: the collection is written anew.
Reimported_Anew(i) == [SavedCollection(i) EXCEPT !.by = imp[i].dup.by, !.reimports = {Account(i)}]

Reimported(i) == [imp[i].dup EXCEPT !.reimports = @ \cup {Account(i)}]

\* saveCollection: what was found at the start is written back with one more entry,
\* unvalidated; a new collection must be one the schema accepts (collection-model.js:9),
\* which nothing has asked before.
saveCollection(i) ==
  /\ imp[i].phase = "references"
  /\ imp[i].names = {}
  /\ LET key == CollectionKey(i)
         dup == imp[i].dup
         kept == key \in DOMAIN colls /\ dup # None /\ colls[key].by = dup.by
     IN  IF Req(i).preview
         THEN colls' = colls /\ Ends(i, "done")
         ELSE IF dup # None
         THEN /\ colls' = IF kept
                          THEN [colls EXCEPT ![key] = Reimported(i)]
                          ELSE colls
              /\ Ends(i, IF kept THEN "done" ELSE "failed")
         ELSE IF ~TheCollection(Bundle(i)).accepted \/ key \in DOMAIN colls
         THEN colls' = colls /\ Fails(i)
         ELSE /\ colls' = [k \in DOMAIN colls \cup {key} |->
                             IF k = key THEN SavedCollection(i) ELSE colls[k]]
              /\ Ends(i, "done")
  /\ UNCHANGED <<store, refs, job, jobs, others, stolen>>

-----------------------------------------------------------------------------
(***************************************************************************)
(* Collections created and deleted by request, exports, references.        *)
(***************************************************************************)
Without(f, keys) == [k \in DOMAIN f \ keys |-> f[k]]

\* create: the collection is saved, then each object of it is marked.
CreateCollection(c) ==
  /\ job.kind = "none"
  /\ jobs < MaxJobs
  /\ makeKeyFromObject(c) \notin DOMAIN colls
  /\ colls' = [k \in DOMAIN colls \cup {makeKeyFromObject(c)} |->
                 IF k \in DOMAIN colls THEN colls[k]
                 ELSE [contents |-> c.contents, by |-> jobs, errors |-> {},
                       reimports |-> {}, exported |-> 0]]
  /\ job' = [NoJob EXCEPT !.kind = IF c.contents = {} THEN "none" ELSE "mark",
                          !.work = {<<makeKeyFromObject(c), k>> : k \in c.contents}]
  /\ jobs' = jobs + 1
  /\ UNCHANGED <<store, refs, imp, others, stolen>>

\* insertCollection: an object that is not stored is an error that is only logged.
insertCollection(item) ==
  /\ job.kind = "mark"
  /\ item \in job.work
  /\ store' = {IF d.type # Marking /\ makeKeyFromObject(d) = item[2]
               THEN [d EXCEPT !.collections = @ \cup {item[1]}] ELSE d : d \in store}
  /\ job' = IF job.work = {item} THEN NoJob ELSE [job EXCEPT !.work = @ \ {item}]
  /\ UNCHANGED <<colls, refs, imp, jobs, others, stolen>>

\* delete and deleteVersionById: the collections are read.
DeleteCollections(gone, all, withContents) ==
  /\ job.kind = "none"
  /\ jobs < MaxJobs
  /\ gone # {}
  /\ job' = [NoJob EXCEPT
               !.kind = "delete",
               !.gone = gone,
               !.all = all,
               !.work = IF withContents
                        THEN UNION {{<<k, c>> : c \in colls[k].contents} : k \in gone}
                        ELSE {}]
  /\ jobs' = jobs + 1
  /\ UNCHANGED <<store, colls, refs, imp, others, stolen>>

delete(id, withContents) ==
  DeleteCollections({k \in DOMAIN colls : k[1] = id}, TRUE, withContents)

deleteVersionById(key, withContents) ==
  DeleteCollections({key} \cap DOMAIN colls, FALSE, withContents)

\* Relationships and marking definitions are not found by this query.
retrieveOneByVersionLean(key) ==
  {d \in store : d.type \notin {"relationship", Marking} /\ makeKeyFromObject(d) = key}

\* The collections that the deletion removes: every version, or the one requested.
Doomed(k) == IF job.all THEN k[1] \in {g[1] : g \in job.gone} ELSE k \in job.gone

\* Mutant: the other versions of the collection only.
findWithContents_Versions(key) ==
  {k \in DOMAIN colls : /\ key \in colls[k].contents
                        /\ ~Doomed(k)
                        /\ k[1] \in {g[1] : g \in job.gone}}

\* The other collections that list an object.
findWithContents(key) == {k \in DOMAIN colls : key \in colls[k].contents /\ ~Doomed(k)}

\* deleteAllContentsOfCollection, for one object: it is looked up, then it is
\* deleted if no other collection lists it.  The update of an object that one
\* lists names a document without id and changes nothing.
CheckContent(item) ==
  /\ job.kind = "delete"
  /\ job.victim = None
  /\ item \in job.work
  /\ job' = [job EXCEPT
               !.work = @ \ {item},
               !.victim = IF retrieveOneByVersionLean(item[2]) # {} /\ findWithContents(item[2]) = {}
                          THEN item[2] ELSE None,
               !.seen = {i \in Importers : imp[i].phase \notin Ended}]
  /\ UNCHANGED <<store, colls, refs, imp, jobs, others, stolen>>

findByIdAndDelete ==
  /\ job.kind = "delete"
  /\ job.victim # None
  /\ store' = store \ retrieveOneByVersionLean(job.victim)
  /\ stolen' = stolen \cup {<<i, job.victim>> : i \in {j \in job.seen : imp[j].phase # "idle"}}
  /\ job' = [job EXCEPT !.victim = None]
  /\ UNCHANGED <<colls, refs, imp, jobs, others>>

deleteMany ==
  /\ job.kind = "delete"
  /\ job.work = {}
  /\ job.victim = None
  /\ colls' = Without(colls, {k \in DOMAIN colls : Doomed(k)})
  /\ job' = NoJob
  /\ UNCHANGED <<store, refs, imp, jobs, others, stolen>>

\* insertExport, at the end of the export of a collection as a bundle.
insertExport(key) ==
  /\ others < MaxOthers
  /\ key \in DOMAIN colls
  /\ colls' = [colls EXCEPT ![key].exported = @ + 1]
  /\ others' = others + 1
  /\ UNCHANGED <<store, refs, imp, job, jobs, stolen>>

CreateReference(name) ==
  /\ others < MaxOthers
  /\ name \notin refs
  /\ refs' = refs \cup {name}
  /\ others' = others + 1
  /\ UNCHANGED <<store, colls, imp, job, jobs, stolen>>

Import(i) ==
  \/ \E r \in DOMAIN Requests : Begin(i, r)
  \/ processTier(i)
  \/ \E o \in imp[i].pending : saveMany(i, o)
  \/ ReadReferences(i)
  \/ \E name \in imp[i].names : importReferences(i, name)
  \/ saveCollection(i)

Next ==
  \/ \E i \in Importers : Import(i)
  \/ \E c \in Collections : CreateCollection(c)
  \/ \E item \in job.work : insertCollection(item) \/ CheckContent(item)
  \/ \E k \in DOMAIN colls, contents \in BOOLEAN :
       delete(k[1], contents) \/ deleteVersionById(k, contents)
  \/ findByIdAndDelete
  \/ deleteMany
  \/ \E k \in DOMAIN colls : insertExport(k)
  \/ \E r \in DOMAIN Requests : \E o \in Requests[r].bundle.objects : \E n \in o.references : CreateReference(n)

Spec == Init /\ [][Next]_vars

-----------------------------------------------------------------------------
(***************************************************************************)
(* Properties.                                                             *)
(***************************************************************************)
Keys(objects) == {makeKeyFromObject(o) : o \in objects}

\* Every entry of an imported collection is a stored object or one of the errors
\* the import reports, whichever of its steps failed for it, or the collection itself;
\* but for the objects that a deletion, which looked before the collection was saved,
\* took away.
ContentsAccounted ==
  \A k \in DOMAIN colls : colls[k].by \in Importers /\ ~Doomed(k) =>
    \A key \in colls[k].contents :
      \/ key \in Keys(store)
      \/ key \in {e[1] : e \in colls[k].errors} \cup {k}
      \/ <<colls[k].by, key>> \in stolen

\* Nothing but i has changed the database.
Alone(i) ==
  /\ \A j \in Importers \ {i} : imp[j].phase = "idle"
  /\ jobs = 0
  /\ others = 0

\* What an import with this request stores of its bundle, whatever the database delivers.
Storable(r, o) ==
  /\ HasService(o.type) /\ o.type \notin Unreadable
  /\ o.accepted /\ ~specViolation(o)
  /\ Invalid(o) => ~r.strict

\* It is stored, or a document that leaves no room for it.
Present(o) ==
  \E d \in store : makeKeyFromObject(d) = makeKeyFromObject(o) \/ UniqueIndex(d) = UniqueIndex(o)

\* A request to import that fails, with nothing else going on and without forcing the
\* versions of the specification, never stops half way among the objects: it leaves
\* nothing behind, for the validation has found what would make a tier throw; or it has
\* stored all that can be stored, and what fails is the collection, which the schema
\* refuses.
NoHalfImport ==
  \A i \in Importers :
    /\ imp[i].phase = "failed"
    /\ Alone(i)
    /\ ~Req(i).scheduled
    /\ ~Req(i).forceSpec
    => \/ store = Before /\ refs = {}
       \/ /\ ~TheCollection(Bundle(i)).accepted
          /\ \A o \in Bundle(i).objects : Storable(Req(i), o) => Present(o)

\* Deleting a collection with its contents takes away no object that another
\* collection lists, unless that one was still being imported when it looked.
SharedKept ==
  [][\A key \in Keys(store) \ Keys(store') : \A k \in DOMAIN colls :
       key \in colls[k].contents => Doomed(k) \/ colls[k].by \in job.seen]_vars

HistoryGrows ==
  \A k \in DOMAIN colls \cap DOMAIN colls' :
    \/ /\ colls[k].reimports \subseteq colls'[k].reimports
       /\ colls[k].exported <= colls'[k].exported
    \/ \E i \in Importers : imp[i].phase # imp'[i].phase /\ imp[i].dup \notin {None, colls[k]}

\* The history of a collection, its exports and imports over it, only grows, but
\* when an import over it writes back what it had read before the history grew.
HistoryKept == [][HistoryGrows]_vars

=============================================================================
