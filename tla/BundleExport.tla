---------------------------- MODULE BundleExport ----------------------------
(***************************************************************************)
(* Export of a domain as a STIX bundle.  An export collects the primary    *)
(* objects of the domain, then what relationships connect with them, then  *)
(* what that brings in.  It changes the domains of objects it fetched; the *)
(* fetched objects, their former domains and the relationships are kept in *)
(* fields of the service object, which every export of the service shares. *)
(***************************************************************************)
EXTENDS FiniteSets, FiniteSetsExt, SequencesExt, Filter

CONSTANTS
  Ids,        \* the STIX ids that relationships and references may name
  Documents,  \* of each stored id: the versions of the object, oldest first
  Orders,     \* the orders in which the relationships may be read
  Options,    \* the options each export may be requested with
  Exports,    \* the exports that may run
  Null        \* what is undefined

\* Of a document: what exports look at.  Its references are to a data source, to
\* analytics or to what a note is about; its context, to identities and markings.
StoredDocument ==
  [type : STRING, domains : (SUBSET STRING) \cup {Null}, status : STRING, attackId : BOOLEAN,
   url : BOOLEAN, refs : SUBSET Ids, context : SUBSET Ids]

Relation == [kind : STRING, source : Ids, target : Ids, status : STRING]

\* An id starts with the type of its object.
ASSUME DocumentsAssumption ==
  /\ IsFiniteSet(Ids) /\ DOMAIN Documents \subseteq Ids
  /\ \A id \in DOMAIN Documents :
       /\ Documents[id] \in Seq(StoredDocument) /\ Documents[id] # <<>>
       /\ \A v, w \in DOMAIN Documents[id] : Documents[id][v].type = Documents[id][w].type

ASSUME OrdersAssumption ==
  \A order, other \in Orders : order \in Seq(Relation) /\ Range(order) = Range(other)

ASSUME OptionsAssumption == \A e \in Exports : \A o \in Options[e] : o.legacy \in BOOLEAN /\ o.domain \in STRING

ASSUME NullAssumption == Null \notin Ids \cup Seq(Ids) \cup (Exports \X Ids \X Nat)

VARIABLES
  heap,         \* the documents read, each with the domains an export may have changed
  cache,        \* attackObjectCache of each service: of an id, the document or Null
  domainCache,  \* of each service and id: the domains before they were changed, or Null
  all,          \* allRelationships of each service
  export,       \* the state of each export
  overlapped    \* auxiliary: the exports that ran at the time of another of their service

exportvars == <<heap, cache, domainCache, all, export, overlapped>>

-----------------------------------------------------------------------------
(***************************************************************************)
(* Documents and options.  Validity is a matter of the stored document but *)
(* for the domains, which are those of the copy at hand.                   *)
(***************************************************************************)
\* The database, a definition of its own so that TLC evaluates it once.
Db == Documents

Stored == DOMAIN Db

Latest(id) == Db[id][Len(Db[id])]

DomainChecked == {"attack-pattern", "course-of-action", "malware", "tool", "x-mitre-tactic"}

\* x_mitre_domains may be undefined.
Listed(domains) == IF domains = Null THEN {} ELSE domains

isCorrectDomain(doc, domains, options) ==
  doc.type \in DomainChecked => options.domain \in Listed(domains)

hasAttackId(doc) == doc.attackId

\* The types that must have an ATT&CK id, for the service and for the legacy one.
requiresAttackId(doc, options) ==
  doc.type \in
    {"intrusion-set", "campaign", "malware", "tool", "attack-pattern", "course-of-action"}
    \cup IF options.legacy THEN {}
         ELSE {"x-mitre-tactic", "x-mitre-matrix", "x-mitre-analytic", "x-mitre-asset",
               "x-mitre-detection-strategy", "x-mitre-data-source", "x-mitre-data-component"}

Selected(doc, options) ==
  /\ doc.status = "deprecated" => options.includeDeprecated
  /\ doc.status = "revoked" => options.includeRevoked

\* secondaryObjectIsValid
Fit(doc, domains, options) ==
  /\ options.includeMissingAttackId \/ ~requiresAttackId(doc, options) \/ hasAttackId(doc)
  /\ Selected(doc, options)
  /\ isCorrectDomain(doc, domains, options)

\* The types retrieved by domain, by the service and by the legacy one.
PrimaryTypes(options) ==
  {"x-mitre-matrix", "course-of-action", "malware", "tool", "x-mitre-tactic", "attack-pattern"}
  \cup IF options.legacy THEN {} ELSE {"x-mitre-analytic", "x-mitre-data-component"}
  \cup IF ~options.legacy /\ options.includeDataSources THEN {"x-mitre-data-source"} ELSE {}

\* retrieveAllByDomain of each repository, and the filters of exportBundle: an
\* analytic without URL is not yet part of a detection strategy.
Primary(options) ==
  {id \in Stored :
     LET doc == Latest(id)
     IN  /\ doc.type \in PrimaryTypes(options)
         /\ options.domain \in Listed(doc.domains)
         /\ Selected(doc, options)
         /\ doc.type = "x-mitre-analytic" => doc.url
         /\ options.includeMissingAttackId \/ hasAttackId(doc)}

-----------------------------------------------------------------------------
(***************************************************************************)
(* Relationships.                                                          *)
(***************************************************************************)
relationshipIsActive(q) == q.status = "active"

\* retrieveAllForBundle
RetrieveAllForBundle(order, options) == Kept(order, {q \in Range(order) : Selected(q, options)})

\* A data component detects no technique any more.
isDeprecatedPattern(q) ==
  /\ q.kind = "detects"
  /\ q.source \in Stored
  /\ Latest(q.source).type = "x-mitre-data-component"

\* addRelationshipToBundle
Bundled(q, objects, options) ==
  /\ ~options.legacy => ~isDeprecatedPattern(q)
  /\ relationshipIsActive(q)
  /\ {q.source, q.target} \subseteq objects

\* findByAnalyticRefs: the latest of the versions that refer to one of the analytics.
Referring(id, analytics, options) ==
  {v \in DOMAIN Db[id] : Db[id][v].refs \cap analytics # {} /\ Selected(Db[id][v], options)}

FindByAnalyticRefs(analytics, options) ==
  {[id |-> id, version |-> Max(Referring(id, analytics, options))] :
     id \in {i \in Stored : /\ Latest(i).type = "x-mitre-detection-strategy"
                            /\ Referring(i, analytics, options) # {}}}

-----------------------------------------------------------------------------
(***************************************************************************)
(* The shared fields and the steps of an export.  "work" are the           *)
(* relationships (or referenced ids) still to be processed; "asked" the id *)
(* being read from the database; "held" the documents of the current item; *)
(* "targets" and "domains" the progress of getDomainsForSecondaryObject.   *)
(***************************************************************************)
Services == BOOLEAN

Svc(e) == export[e].options.legacy

NotBegun ==
  [step |-> "idle", options |-> Null, objects |-> <<>>, work |-> <<>>,
   asked |-> Null, held |-> <<>>, unfit |-> FALSE, targets |-> Null, domains |-> {}, derived |-> {},
   sources |-> {}, context |-> {}, rels |-> {}, contents |-> {}]

ExportInit ==
  /\ heap = <<>>
  /\ cache = [s \in Services |-> [id \in Ids |-> Null]]
  /\ domainCache = [s \in Services |-> [id \in Ids |-> Null]]
  /\ all = [s \in Services |-> <<>>]
  /\ export = [e \in Exports |-> NotBegun]
  /\ overlapped = {}

Stages == {"primaries", "relationships", "secondary", "sources", "further", "context"}

Running(s) == {e \in Exports : export[e].step \in Stages /\ Svc(e) = s}

Doc(a) == Db[heap[a].id][heap[a].version]

\* The ids in the bundle, from the addresses of their documents.
InBundle(x) == DOMAIN x.objects

\* A map in which a key has another value.
Put(map, key, value) ==
  [k \in DOMAIN map \cup {key} |-> IF k = key THEN value ELSE map[k]]

Add(x, a) ==
  IF heap[a].id \in InBundle(x) THEN x ELSE [x EXCEPT !.objects = Put(@, heap[a].id, a)]

\* A slip to rule out: what an earlier export left in the caches is used.
BeginExport_CachesStay(e, options) ==
  /\ UNCHANGED <<cache, domainCache>>
  /\ export' = [export EXCEPT ![e] = [NotBegun EXCEPT !.step = "primaries", !.options = options]]
  /\ overlapped' = overlapped \cup IF Running(options.legacy) = {} THEN {}
                                   ELSE Running(options.legacy) \cup {e}
  /\ UNCHANGED <<heap, all>>

\* exportBundle: the caches of the service are made anew.
BeginExport(e, options) ==
  /\ cache' = [cache EXCEPT ![options.legacy] = [id \in Ids |-> Null]]
  /\ domainCache' = [domainCache EXCEPT ![options.legacy] = [id \in Ids |-> Null]]
  /\ export' = [export EXCEPT ![e] = [NotBegun EXCEPT !.step = "primaries", !.options = options]]
  /\ overlapped' = overlapped \cup IF Running(options.legacy) = {} THEN {}
                                   ELSE Running(options.legacy) \cup {e}
  /\ UNCHANGED <<heap, all>>

\* A document read is told from others by the export that read it, its id and a number.
Address(e, id) == <<e, id, Cardinality({a \in DOMAIN heap : a[1] = e /\ a[2] = id})>>

\* The heap with the documents that are read.
With(docs) == [a \in DOMAIN heap \cup DOMAIN docs |-> IF a \in DOMAIN docs THEN docs[a] ELSE heap[a]]

Copy(id, version) == [id |-> id, version |-> version, domains |-> Db[id][version].domains]

\* Retrieve the primary objects; there is nothing to do without any.
Primaries(e) ==
  LET x   == export[e]
      ids == Primary(x.options)
  IN  /\ x.step = "primaries"
      /\ heap' = With([a \in {Address(e, id) : id \in ids} |-> Copy(a[2], Len(Db[a[2]]))])
      /\ export' = [export EXCEPT ![e] =
           [x EXCEPT !.step = IF ids = {} THEN "done" ELSE "relationships",
                     !.objects = [id \in ids |-> Address(e, id)]]]
      /\ UNCHANGED <<cache, domainCache, all, overlapped>>

-----------------------------------------------------------------------------
(***************************************************************************)
(* getAttackObject, which may have to wait for the database: two exports   *)
(* may miss the same object, and the later answer is the one kept.         *)
(***************************************************************************)
OfGroup(a) == Doc(a).type \in {"intrusion-set", "campaign"}

\* The end of a relationship that is not yet in the bundle.
OtherEnd(x, q) == IF q.source \in InBundle(x) THEN q.target ELSE q.source

\* A slip to rule out: what is stored is added, whatever the options.
Valid_Stored(x, a) == a # Null

Valid(x, a) == a # Null /\ Fit(Doc(a), heap[a].domains, x.options)

Recorded(x, q) == x.options.legacy /\ q.kind = "detects" /\ relationshipIsActive(q)

\* addSecondaryObjects has an object to consider: the other end is not in the bundle,
\* and was not yet found unfit for it.
Missing(x, q) ==
  /\ x.options.legacy \/ q.kind # "detects"
  /\ ~({q.source, q.target} \subseteq InBundle(x))
  /\ ~x.unfit

FurtherEnd_NoRevoked(x, q) ==
  CASE /\ q.kind = "attributed-to"
       /\ q.source \in InBundle(x) /\ q.target \notin InBundle(x) -> q.target
    [] /\ q.kind = "detects" /\ ~x.options.legacy
       /\ q.source \notin InBundle(x) /\ q.target \in InBundle(x) -> q.source
    [] OTHER -> Null

\* The end that processSecondaryRelationships would add.
FurtherEnd(x, q) ==
  CASE /\ q.kind = "attributed-to"
       /\ q.source \in InBundle(x) /\ q.target \notin InBundle(x) -> q.target
    [] /\ q.kind = "revoked-by" \/ (q.kind = "detects" /\ ~x.options.legacy)
       /\ q.source \notin InBundle(x) /\ q.target \in InBundle(x) -> q.source
    [] OTHER -> Null

\* x_mitre_data_source_ref of data components.
SourcesOf(components) ==
  UNION {Latest(c).refs : c \in {id \in components : Latest(id).type = "x-mitre-data-component"}}

\* A slip to rule out: the legacy service skips what is in the bundle.
Idles_Bundled(x, q) ==
  \/ x.step = "secondary" /\ ~Missing(x, q)
  \/ x.step = "further" /\ FurtherEnd(x, q) = Null

\* Nothing is to be done, or awaited, for an item of the work.
Idles(x, q) ==
  \/ x.step = "secondary" /\ ~Recorded(x, q) /\ ~Missing(x, q)
  \/ x.step = "further" /\ FurtherEnd(x, q) = Null

\* The items from the first one on for which there is something to do.
Left(x) ==
  LET busy == {i \in DOMAIN x.work : ~Idles(x, x.work[i])}
  IN  IF busy = {} THEN <<>> ELSE SubSeq(x.work, Min(busy), Len(x.work))

Anew(x) == [x EXCEPT !.held = <<>>, !.unfit = FALSE, !.targets = Null, !.domains = {}]

\* Goes on with the next of these items.
Onward(x) == [Anew(x) EXCEPT !.work = Left(Anew(x))]

Done(x) == Onward([x EXCEPT !.work = Tail(@)])

\* The id whose object the current item of the work needs next.
NeededIn(x, q) ==
  CASE x.step \in {"sources", "context"} -> q
    [] x.step = "further" -> FurtherEnd(x, q)
    [] x.step = "secondary" /\ ~Missing(x, q) -> q.source
    [] x.step = "secondary" /\ Missing(x, q) /\ x.targets = Null -> OtherEnd(x, q)
    [] x.step = "secondary" /\ Missing(x, q) /\ x.targets \notin {Null, <<>>} -> Head(x.targets)
    [] OTHER -> Null

Needed(x) == IF x.work = <<>> THEN Null ELSE NeededIn(x, Head(x.work))

\* The document of an id: the one this item holds, or the cached one.
Hand(e, id) == IF id \in DOMAIN export[e].held THEN export[e].held[id] ELSE cache[Svc(e)][id]

\* Not in the cache: the database is asked.
GetAttackObject(e) ==
  LET x  == export[e]
      id == Needed(x)
  IN  /\ x.step \in {"secondary", "sources", "further", "context"}
      /\ x.asked = Null /\ id # Null /\ id \notin DOMAIN x.held /\ cache[Svc(e)][id] = Null
      /\ export' = [export EXCEPT ![e] = [x EXCEPT !.asked = id]]
      /\ UNCHANGED <<heap, cache, domainCache, all, overlapped>>

Answer(e) ==
  LET x  == export[e]
      id == x.asked
      a  == IF id \in Stored THEN Address(e, id) ELSE Null
  IN  /\ id # Null
      /\ heap' = IF a = Null THEN heap ELSE With([b \in {a} |-> Copy(id, Len(Db[id]))])
      /\ cache' = IF a = Null THEN cache ELSE [cache EXCEPT ![Svc(e)][id] = a]
      /\ export' = [export EXCEPT ![e] = [x EXCEPT !.held = Put(@, id, a), !.asked = Null]]
      /\ UNCHANGED <<domainCache, all, overlapped>>

\* An export is at an item of this step whose object is at hand.
At(e, step) ==
  LET x  == export[e]
      id == Needed(x)
  IN  /\ x.step = step /\ x.asked = Null /\ x.work # <<>>
      /\ id \notin DOMAIN x.held \cup {Null} => cache[Svc(e)][id] # Null

\* The domains a document has, if any, are kept.
KeepDomains(e, a) ==
  domainCache' = IF heap[a].domains = Null THEN domainCache
                 ELSE [domainCache EXCEPT ![Svc(e)][heap[a].id] = heap[a].domains]

SetDomains(a, domains) == heap' = [heap EXCEPT ![a] = [@ EXCEPT !.domains = domains]]

Touching(list, ids) == {q \in Range(list) : {q.source, q.target} \cap ids # {}}

\* Read all relationships; those of primary objects come first.
Relationships(e) ==
  LET x == export[e]
  IN  /\ x.step = "relationships"
      /\ \E order \in Orders :
           LET read == RetrieveAllForBundle(order, x.options)
           IN  /\ all' = [all EXCEPT ![Svc(e)] = read]
               /\ export' = [export EXCEPT ![e] =
                    Onward([x EXCEPT !.step = "secondary",
                                     !.work = Kept(read, Touching(read, InBundle(x)))])]
      /\ UNCHANGED <<heap, cache, domainCache, overlapped>>

-----------------------------------------------------------------------------
(***************************************************************************)
(* addSecondaryObjects.                                                    *)
(***************************************************************************)
Considers(e) == At(e, "secondary") /\ Missing(export[e], Head(export[e].work))

Considered(e) == Hand(e, OtherEnd(export[e], Head(export[e].work)))

\* An object that is neither group nor campaign is added as it is; one that does
\* not fit is not added.
AddSecondary(e) ==
  LET x == export[e]
      a == Considered(e)
  IN  /\ Considers(e) /\ x.targets = Null
      /\ \/ Valid(x, a) /\ ~OfGroup(a) /\ export' = [export EXCEPT ![e] = Onward(Add(x, a))]
         \/ /\ ~Valid(x, a)
            /\ export' = [export EXCEPT ![e] =
                 IF Recorded(x, Head(x.work)) THEN [x EXCEPT !.unfit = TRUE] ELSE Done(x)]
      /\ UNCHANGED <<heap, cache, domainCache, all, overlapped>>

\* A group or campaign gets the domains of what its relationships lead to:
\* first its own are kept, and the relationships filtered.
BeginDomains(e) ==
  LET x  == export[e]
      a  == Considered(e)
      of == Kept(all[Svc(e)], {q \in Range(all[Svc(e)]) : q.source = heap[a].id})
  IN  /\ Considers(e) /\ x.targets = Null /\ Valid(x, a) /\ OfGroup(a)
      /\ KeepDomains(e, a)
      /\ export' = [export EXCEPT ![e] =
           [x EXCEPT !.targets = [i \in DOMAIN of |-> of[i].target],
                     !.held = [id \in {heap[a].id} |-> a]]]
      /\ UNCHANGED <<heap, cache, all, overlapped>>

\* The domains of a target, as they were before an export changed them.
DomainsOf(s, id, a) ==
  IF a = Null THEN {}
  ELSE IF domainCache[s][id] # Null THEN domainCache[s][id]
  ELSE Listed(heap[a].domains)

\* getDomainsForSecondaryObject, a target at a time.
CollectDomains(e) ==
  LET x  == export[e]
      id == Head(x.targets)
  IN  /\ Considers(e) /\ x.targets \notin {Null, <<>>}
      /\ export' = [export EXCEPT ![e] =
           [x EXCEPT !.targets = Tail(@),
                     !.domains = @ \cup DomainsOf(Svc(e), id, Hand(e, id))]]
      /\ UNCHANGED <<heap, cache, domainCache, all, overlapped>>

AddGroup(e) ==
  LET x == export[e]
      a == Considered(e)
  IN  /\ Considers(e) /\ x.targets = <<>>
      /\ SetDomains(a, x.domains)
      /\ export' = [export EXCEPT ![e] = Onward(Add(x, a))]
      /\ UNCHANGED <<cache, domainCache, all, overlapped>>

Failed(x) == [NotBegun EXCEPT !.step = "failed", !.options = x.options]

\* The legacy service notes which data components detect a technique, and
\* fails when one is not stored.
RecordDetection(e) ==
  LET x == export[e]
      q == Head(x.work)
  IN  /\ At(e, "secondary") /\ ~Missing(x, q)
      /\ export' = [export EXCEPT ![e] =
           IF Hand(e, q.source) = Null THEN Failed(x)
           ELSE Done([x EXCEPT !.derived = @ \cup {<<q.target, q.source>>}])]
      /\ UNCHANGED <<heap, cache, domainCache, all, overlapped>>

(***************************************************************************)
(* processDataSourcesAndComponents of the legacy service: the data sources *)
(* of the data components now in the bundle; only those are looked up when *)
(* the data sources of a technique are derived.                            *)
(***************************************************************************)
Components(x) == {id \in InBundle(x) : Latest(id).type = "x-mitre-data-component"}

EndSecondary(e) ==
  LET x       == export[e]
      sources == SourcesOf(Components(x))
  IN  /\ x.step = "secondary" /\ x.work = <<>>
      /\ export' = [export EXCEPT ![e] =
           IF x.options.legacy
           THEN [x EXCEPT !.step = "sources", !.work = SetToSeq(sources), !.sources = sources]
           ELSE Onward([x EXCEPT !.step = "further", !.work = all[Svc(e)]])]
      /\ UNCHANGED <<heap, cache, domainCache, all, overlapped>>

AddSource(e) ==
  LET x == export[e]
      a == Hand(e, Head(x.work))
  IN  /\ At(e, "sources")
      /\ export' = [export EXCEPT ![e] =
           IF a = Null THEN Failed(x)
           ELSE IF Valid(x, a) THEN Done(Add(x, a)) ELSE Done(x)]
      /\ UNCHANGED <<heap, cache, domainCache, all, overlapped>>

\* A data component may lack the reference, which the schema does not require.
Sourceless(x) == {c \in Components(x) : Latest(c).refs = {}}

\* The export fails on a data component that names no data source.
FailSources(e) ==
  LET x == export[e]
  IN  /\ x.step = "sources" /\ x.asked = Null /\ Sourceless(x) # {}
      /\ export' = [export EXCEPT ![e] = Failed(x)]
      /\ UNCHANGED <<heap, cache, domainCache, all, overlapped>>

EndSources(e) ==
  LET x == export[e]
  IN  /\ x.step = "sources" /\ x.work = <<>> /\ Sourceless(x) = {}
      /\ export' = [export EXCEPT ![e] = Onward([x EXCEPT !.step = "further", !.work = all[Svc(e)]])]
      /\ UNCHANGED <<heap, cache, domainCache, all, overlapped>>

(***************************************************************************)
(* processSecondaryRelationships: one pass over all relationships, in the  *)
(* order in which they were read.                                          *)
(***************************************************************************)
Welcome(x, q, a) ==
  /\ q.kind = "attributed-to" => Doc(a).type = "intrusion-set"
  /\ q.kind = "detects" => Doc(a).type = "x-mitre-detection-strategy"
  /\ Valid(x, a)

Redomained(q, a) == q.kind = "revoked-by" => OfGroup(a)

PassFurther(e) ==
  LET x == export[e]
      q == Head(x.work)
      a == Hand(e, FurtherEnd(x, q))
  IN  /\ At(e, "further")
      /\ IF a = Null THEN q.kind = "revoked-by" ELSE ~Welcome(x, q, a)
      /\ export' = [export EXCEPT ![e] = Done(x)]
      /\ UNCHANGED <<heap, cache, domainCache, all, overlapped>>

\* A relationship whose other end is not stored ends the export with an error.
FailFurther(e) ==
  LET x == export[e]
      q == Head(x.work)
  IN  /\ At(e, "further")
      /\ Hand(e, FurtherEnd(x, q)) = Null /\ q.kind # "revoked-by"
      /\ export' = [export EXCEPT ![e] = Failed(x)]
      /\ UNCHANGED <<heap, cache, domainCache, all, overlapped>>

AddFurther(e) ==
  LET x == export[e]
      q == Head(x.work)
      a == Hand(e, FurtherEnd(x, q))
  IN  /\ At(e, "further")
      /\ a # Null /\ Welcome(x, q, a)
      /\ IF Redomained(q, a) THEN KeepDomains(e, a) /\ SetDomains(a, {x.options.domain})
                             ELSE UNCHANGED <<heap, domainCache>>
      /\ export' = [export EXCEPT ![e] = Done(Add(x, a))]
      /\ UNCHANGED <<cache, all, overlapped>>

-----------------------------------------------------------------------------
(***************************************************************************)
(* The rest of exportBundle.                                               *)
(***************************************************************************)
\* addNotes: the active notes about an object or relationship of the bundle.
NotesAbout(ids) ==
  {n \in Stored : LET note == Latest(n)
                  IN  note.type = "note" /\ note.status = "active" /\ note.refs \cap ids # {}}

\* The identities and markings of objects of the bundle.
Referenced(ids) == UNION {Latest(id).context : id \in ids}

\* Strategies of the analytics, which this export did not find by relationships.
Strategies(x) ==
  LET analytics == {id \in InBundle(x) : Latest(id).type = "x-mitre-analytic"}
  IN  {f \in FindByAnalyticRefs(analytics, x.options) :
         /\ ~x.options.legacy
         /\ f.id \notin InBundle(x)
         /\ Fit(Db[f.id][f.version], Db[f.id][f.version].domains, x.options)}

Found(found, id) == CHOOSE f \in found : f.id = id

\* The domains stored with a strategy, when it has any, are kept.
KeepStored(e, found) ==
  domainCache' = [domainCache EXCEPT ![Svc(e)] =
    [id \in Ids |-> IF /\ id \in {f.id : f \in found}
                      /\ Db[id][Found(found, id).version].domains # Null
                   THEN Db[id][Found(found, id).version].domains ELSE @[id]]]

\* Add strategies of analytics, then relationships, then notes.
Assemble(e) ==
  LET x     == export[e]
      found == Strategies(x)
      new   == {f.id : f \in found}
      ids   == InBundle(x) \cup new
      notes == IF x.options.includeNotes THEN NotesAbout(ids) ELSE {}
  IN  /\ x.step = "further" /\ x.work = <<>>
      /\ heap' = With([a \in {Address(e, id) : id \in new} |->
                        [id |-> a[2], version |-> Found(found, a[2]).version,
                         domains |-> {x.options.domain}]])
      /\ KeepStored(e, found)
      /\ export' = [export EXCEPT ![e] =
           [x EXCEPT !.step = "context",
                     !.objects = [id \in ids |-> IF id \in new THEN Address(e, id) ELSE x.objects[id]],
                     !.rels = {q \in Range(all[Svc(e)]) : Bundled(q, ids, x.options)},
                     !.context = notes,
                     !.work = SetToSeq(Referenced(ids \cup notes))]]
      /\ UNCHANGED <<cache, all, overlapped>>

\* processIdentitiesAndMarkings: one that is not stored is left out.
AddContext(e) ==
  LET x == export[e]
      a == Hand(e, Head(x.work))
  IN  /\ At(e, "context")
      /\ export' = [export EXCEPT ![e] =
           IF a = Null THEN Done(x) ELSE Done([x EXCEPT !.context = @ \cup {heap[a].id}])]
      /\ UNCHANGED <<heap, cache, domainCache, all, overlapped>>

\* processDataComponents keeps, for techniques of two domains, the data components
\* whose data source a data component of the bundle led to.
DerivesFor(id) ==
  /\ Latest(id).type = "attack-pattern"
  /\ Listed(Latest(id).domains) \cap {"enterprise-attack", "ics-attack"} # {}

Derived(x) ==
  {p \in x.derived : /\ p[1] \in InBundle(x) /\ DerivesFor(p[1])
                     /\ SourcesOf({p[2]}) \cap x.sources # {}}

\* addCollectionObject lists everything but the markings.
Finish(e) ==
  LET x == export[e]
  IN  /\ x.step = "context" /\ x.work = <<>>
      /\ export' = [export EXCEPT ![e] =
           [x EXCEPT !.step = "done", !.derived = Derived(x),
                     !.contents = {id \in InBundle(x) \cup x.context :
                                     Latest(id).type # "marking-definition"}]]
      /\ UNCHANGED <<heap, cache, domainCache, all, overlapped>>

Process(e) ==
  \/ Primaries(e) \/ Relationships(e) \/ GetAttackObject(e) \/ Answer(e)
  \/ AddSecondary(e) \/ BeginDomains(e) \/ CollectDomains(e) \/ AddGroup(e) \/ RecordDetection(e)
  \/ EndSecondary(e) \/ AddSource(e) \/ FailSources(e) \/ EndSources(e)
  \/ PassFurther(e) \/ FailFurther(e) \/ AddFurther(e)
  \/ Assemble(e) \/ AddContext(e) \/ Finish(e)

ExportNext == \E e \in Exports : Process(e) \/ (export[e].step = "idle" /\ \E o \in Options[e] : BeginExport(e, o))

ExportSpec == ExportInit /\ [][ExportNext]_exportvars

-----------------------------------------------------------------------------
(***************************************************************************)
(* Properties.                                                             *)
(***************************************************************************)
Returned == {e \in Exports : export[e].step = "done" /\ export[e].objects # <<>>}

\* What an export would find if all it read were read at once, and in no order.
Read(options) == UNION {Range(RetrieveAllForBundle(order, options)) : order \in Orders}

ValidLatest(id, options) == id \in Stored /\ Fit(Latest(id), Latest(id).domains, options)

Secondary(options) ==
  LET primary == Primary(options)
      of == {q \in Read(options) : options.legacy \/ q.kind # "detects"}
  IN  primary \cup
      {id \in {q.source : q \in {p \in of : p.target \in primary}}
              \cup {q.target : q \in {p \in of : p.source \in primary}} : ValidLatest(id, options)}

Required(options) ==
  LET base == Secondary(options)
  IN  base
      \cup {q.target : q \in {p \in Read(options) :
              /\ p.kind = "attributed-to" /\ p.source \in base /\ ValidLatest(p.target, options)
              /\ Latest(p.target).type = "intrusion-set"}}
      \cup {q.source : q \in {p \in Read(options) :
              /\ p.target \in base /\ ValidLatest(p.source, options)
              /\ \/ p.kind = "revoked-by"
                 \/ /\ p.kind = "detects" /\ ~options.legacy
                    /\ Latest(p.source).type = "x-mitre-detection-strategy"}}

AllOptions == UNION {Options[e] : e \in Exports}

SecondaryWith == [o \in AllOptions |-> Secondary(o)]

RequiredWith == [o \in AllOptions |-> Required(o)]

\* However relationships are ordered, the bundle of an export that overlapped no
\* other holds the primary objects, what is related with them, and what that
\* revokes, is attributed to or is detected by; and the collection lists all of
\* them but markings (exportBundle, addSecondaryObjects, addCollectionObject).
Complete ==
  \A e \in Returned \ overlapped : \A id \in RequiredWith[export[e].options] :
    /\ id \in InBundle(export[e])
    /\ Latest(id).type # "marking-definition" => id \in export[e].contents

\* Exports with other options that overlap this one bring in no object that its
\* own options leave out (secondaryObjectIsValid on shared documents).
OnlyWanted ==
  \A e \in Returned : \A id \in InBundle(export[e]) :
    LET a == export[e].objects[id]
    IN  heap[a].id = id /\ Fit(Doc(a), Doc(a).domains, export[e].options)

\* The domains of a group or campaign related with the domain are those stored with
\* the objects its relationships lead to, if they have domains: neither what this
\* export changed so far nor what an earlier one changed shows in them
\* (getDomainsForSecondaryObject with domainCache).
DomainsAsStored ==
  \A e \in Returned \ overlapped : \A id \in SecondaryWith[export[e].options] :
    LET targets == {t \in Stored : \E q \in Read(export[e].options) : q.source = id /\ q.target = t}
    IN  /\ Latest(id).type \in {"intrusion-set", "campaign"}
        /\ \A t \in targets : Latest(t).domains # Null
        => heap[export[e].objects[id]].domains = UNION {Latest(t).domains : t \in targets}

\* The legacy export derives a data source of a technique for each data component
\* whose relationship with it is in the bundle (addDerivedDataSources).
DetectionsDerived ==
  \A e \in Returned : \A q \in export[e].rels :
    /\ export[e].options.legacy
    /\ q.kind = "detects" /\ Latest(q.source).type = "x-mitre-data-component"
    /\ DerivesFor(q.target)
    => <<q.target, q.source>> \in export[e].derived

=============================================================================
