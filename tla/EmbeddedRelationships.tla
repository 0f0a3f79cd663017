----------------------- MODULE EmbeddedRelationships -----------------------
(***************************************************************************)
(* Detection strategies reference analytics, analytics data components and *)
(* data components a data source.  Each document lists the documents it    *)
(* references (outbound) and is referenced by (inbound) in its workspace.  *)
(* Hooks of the services build the outbound side; events, whose listeners  *)
(* may fail, keep the inbound side.  What a hook before the save found out *)
(* waits for the hook after the save in fields of the one service object.  *)
(***************************************************************************)
EXTENDS FiniteSets, FiniteSetsExt, SequencesExt, Filter

CONSTANTS
  Strategies, Analytics, Components, Sources,  \* the STIX ids of each type
  InitDocs,     \* the documents stored at the start
  Requests,     \* the requests that may be in flight at a time
  MaxDocs,      \* bound on the documents stored
  MaxMishaps,   \* bound on the updates in place and the listeners that fail
  None

Objects == Strategies \cup Analytics \cup Components \cup Sources

ASSUME DisjointAssumption ==
  /\ Strategies \cap (Analytics \cup Components \cup Sources) = {}
  /\ Analytics \cap (Components \cup Sources) = {}
  /\ Components \cap Sources = {}
  /\ None \notin Objects

VARIABLES
  docs,         \* the versions of all objects, in the order of stix.modified
  field,        \* of each service that keeps them: the references added and removed
  req,          \* the state of each request
  soiled,       \* auxiliary: the services in whose fields a request that ended left something
  astray,       \* auxiliary: the objects whose back references may be out of step
  mishaps       \* auxiliary: how many updates in place and failing listeners there were

vars == <<docs, field, req, soiled, astray, mishaps>>

-----------------------------------------------------------------------------
(***************************************************************************)
(* Documents.                                                              *)
(***************************************************************************)
Kind(o) ==
  CASE o \in Strategies -> "strategy"
    [] o \in Analytics  -> "analytic"
    [] o \in Components -> "component"
    [] OTHER            -> "source"

\* The objects a document of this kind references.
Referable(k) ==
  CASE k = "strategy"  -> Analytics
    [] k = "analytic"  -> Components
    [] k = "component" -> Sources
    [] OTHER           -> {}

\* A data component has one reference, the others a list without repetition.
References(o) ==
  {q \in SeqOf(Referable(Kind(o)), 2) :
     IsInjective(q) /\ (o \in Components => Len(q) <= 1)}

Rel(o, direction) == [stix_id |-> o, direction |-> direction]

Outbounds(refs) == [i \in DOMAIN refs |-> Rel(refs[i], "outbound")]

Inbound(rels) == {q.stix_id : q \in {p \in Range(rels) : p.direction = "inbound"}}

Outbound(rels) == {q.stix_id : q \in {p \in Range(rels) : p.direction = "outbound"}}

Document(o, refs, rels, url) == [of |-> o, refs |-> refs, rels |-> rels, url |-> url]

VersionsIn(store, o) == {i \in DOMAIN store : store[i].of = o}

\* retrieveLatestByStixId
LatestIn(store, o) == store[Max(VersionsIn(store, o))]

VersionsOf(o) == VersionsIn(docs, o)

Stored(o) == VersionsOf(o) # {}

LatestVersion(o) == Max(VersionsOf(o))

Latest(o) == LatestIn(docs, o)

\* The relationships that a service does not rebuild.
NotTo(S, rels) == Kept(rels, {q \in Range(rels) : q.stix_id \notin S})

\* extractParentDetectionStrategyId: the first inbound strategy, if any.
Parent(rels) ==
  LET from == {i \in DOMAIN rels : rels[i].direction = "inbound" /\ rels[i].stix_id \in Strategies}
  IN  IF from = {} THEN None ELSE rels[Min(from)].stix_id

\* The documents that the schemas of the four types admit.
Relations == [stix_id : Objects, direction : {"inbound", "outbound"}]

Documents ==
  {d \in [of : Objects, refs : Seq(Objects), rels : Seq(Relations), url : Objects \cup {None}] :
     Range(d.refs) \subseteq Referable(Kind(d.of))}

\* What o references knows of it, and where strategies and data components are listed they do
\* reference.  A store is so when it is empty, and stays so unless requests go astray.
Agree(store, o, x) ==
  /\ VersionsIn(store, o) # {} /\ x \in Range(LatestIn(store, o).refs)
       => VersionsIn(store, x) # {} /\ o \in Inbound(LatestIn(store, x).rels)
  /\ o \notin Analytics /\ VersionsIn(store, x) # {} /\ o \in Inbound(LatestIn(store, x).rels)
       => VersionsIn(store, o) # {} /\ x \in Range(LatestIn(store, o).refs)

ASSUME StoreAssumption ==
  /\ InitDocs \in Seq(Documents)
  /\ \A o \in Objects : \A x \in Referable(Kind(o)) : Agree(InitDocs, o, x)
  /\ \A a \in Analytics : VersionsIn(InitDocs, a) # {} =>
       LatestIn(InitDocs, a).url \in {None, Parent(LatestIn(InitDocs, a).rels)}

\* updateAndSave: _.merge of two arrays, element by element; what is longer stays so.
Merge(old, new) ==
  [i \in 1..Max({Len(old), Len(new)}) |-> IF i \in DOMAIN new THEN new[i] ELSE old[i]]

-----------------------------------------------------------------------------
(***************************************************************************)
(* Fields of the services.  A service of strategies or analytics assigns   *)
(* both fields; that of data components only those that have a value.      *)
(***************************************************************************)
Keepers == {"strategy", "analytic", "component"}

NoField == [added |-> {}, removed |-> {}]

Difference_Reversed(old, new) ==
  [added |-> Range(old) \ Range(new), removed |-> Range(new) \ Range(old)]

Difference(old, new) ==
  [added |-> Range(new) \ Range(old), removed |-> Range(old) \ Range(new)]

\* The fields of the service of o once its hook compared the references.
Compared(o, old, new) ==
  LET diff == Difference(old, new)
      kept == field[Kind(o)]
  IN  IF o \in Components
      THEN [added   |-> IF diff.added = {} THEN kept.added ELSE diff.added,
            removed |-> IF diff.removed = {} THEN kept.removed ELSE diff.removed]
      ELSE diff

(***************************************************************************)
(* Requests.  A request composes the document (step "save" is next), saves *)
(* it ("announce"), reads the fields and emits ("notify"), and clears them.*)
(* "case" tells of a request that was alone, with no listener failing,     *)
(* whether it made a first version or one with unchanged references.       *)
(***************************************************************************)
Idle == [step |-> "idle", doc |-> None, at |-> 0, case |-> "other", events |-> {}]

Working == {r \in Requests : req[r].step # "idle"}

InFlight == {req[r].doc.of : r \in Working}

Init ==
  /\ docs = InitDocs
  /\ field = [k \in Keepers |-> NoField]
  /\ req = [r \in Requests |-> Idle]
  /\ soiled = {} /\ astray = {}
  /\ mishaps = 0

Missing(refs) == {x \in Range(refs) : ~Stored(x)}

\* Whether what a hook leaves in the fields of its service is its own.
Soil(k, assigned) ==
  soiled' = IF k # "component" /\ assigned THEN soiled \ {k} ELSE soiled

\* Requests that overlap may take each other's fields or overwrite each other's documents.
Overlap(o) == IF Working = {} THEN {} ELSE InFlight \cup {o}

Shared(r) == [q \in Requests |-> IF q = r THEN req[q] ELSE [req[q] EXCEPT !.case = "other"]]

(***************************************************************************)
(* POST: base.service.js create with the hook beforeCreate of the service. *)
(* Clients leave out the relationships (GET strips them from analytics) or *)
(* send those of the version they read.                                    *)
(***************************************************************************)
Baseline_Sent(o, sent) == sent

\* The relationships the new version starts from.
Baseline(o, sent) == IF o \in Strategies \cup Analytics /\ Stored(o) THEN Latest(o).rels ELSE sent

StrategyBeforeCreate(o, refs, sent) ==
  NotTo(Analytics, Baseline(o, sent)) \o Outbounds(refs)

AnalyticBeforeCreate(o, refs, sent) ==
  NotTo(Components, Baseline(o, sent)) \o Outbounds(refs)

\* What was sent is the base, whatever the version before holds.
ComponentBeforeCreate(refs, sent) == sent \o Outbounds(refs)

BeforeCreate(o, refs, sent) ==
  CASE o \in Strategies -> StrategyBeforeCreate(o, refs, sent)
    [] o \in Analytics  -> AnalyticBeforeCreate(o, refs, sent)
    [] o \in Components -> ComponentBeforeCreate(refs, sent)
    [] OTHER            -> sent

\* createAttackExternalReference: the parent sent, or else that of the version before.
ComposedUrl(o, sent) ==
  CASE o \in Analytics /\ Parent(sent) # None              -> Parent(sent)
    [] o \in Analytics /\ Parent(sent) = None /\ Stored(o) -> Parent(Latest(o).rels)
    [] OTHER                                               -> None

\* Of the four services, two compare the new version with the one before.
Compares(o) == o \in Strategies \cup Components /\ Stored(o)

BeginPost(r, o, refs, sent) ==
  /\ req[r] = Idle
  /\ Len(docs) + Cardinality(Working) < MaxDocs
  /\ sent \in {<<>>} \cup {Latest(p).rels : p \in {q \in {o} : Stored(q)}}
  /\ field' = IF Compares(o)
              THEN [field EXCEPT ![Kind(o)] = Compared(o, Latest(o).refs, refs)]
              ELSE field
  /\ IF Missing(refs) = {}
     THEN /\ Soil(Kind(o), Compares(o))
          /\ req' = [Shared(r) EXCEPT ![r] =
               [step   |-> "save",
                doc    |-> Document(o, refs, BeforeCreate(o, refs, sent), ComposedUrl(o, sent)),
                at     |-> 0,
                case   |-> CASE Working = {} /\ ~Stored(o)                           -> "first"
                             [] Working = {} /\ Stored(o) /\ Latest(o).refs = refs -> "same"
                             [] OTHER                                              -> "other",
                events |-> {}]]
     ELSE \* NotFoundError; the fields stay
          /\ soiled' = IF Compares(o) THEN soiled \cup {Kind(o)} ELSE soiled
          /\ req' = Shared(r)
  /\ astray' = astray \cup Overlap(o)
                 \cup (IF o \in Components \cup Sources /\ Stored(o) /\ sent = <<>> THEN {o} ELSE {})
  /\ UNCHANGED <<docs, mishaps>>

(***************************************************************************)
(* PUT: base.service.js updateFull with the hook beforeUpdate.             *)
(***************************************************************************)
StrategyBeforeUpdate(refs, sent) == NotTo(Analytics, sent) \o Outbounds(refs)

AnalyticBeforeUpdate(refs, sent) == NotTo(Components, sent) \o Outbounds(refs)

ComponentBeforeUpdate(refs, sent) == NotTo(Sources, sent) \o Outbounds(refs)

BeforeUpdate(o, refs, sent) ==
  CASE o \in Strategies -> StrategyBeforeUpdate(refs, sent)
    [] o \in Analytics  -> AnalyticBeforeUpdate(refs, sent)
    [] o \in Components -> ComponentBeforeUpdate(refs, sent)
    [] OTHER            -> sent

\* Strategies tolerate analytics that are not found.
RefusesMissing(o) == o \in Analytics \cup Components

\* The reference to ATT&CK is rebuilt when the first inbound strategy changed, but
\* merging leaves the URL when the new reference has none.
UpdatedUrl(i, rels) ==
  IF docs[i].of \in Analytics /\ Parent(rels) \notin {None, Parent(docs[i].rels)}
  THEN Parent(rels)
  ELSE docs[i].url

BeginPut(r, i, refs, sent) ==
  LET o == docs[i].of
      rels == BeforeUpdate(o, refs, sent)
  IN  /\ req[r] = Idle
      /\ mishaps < MaxMishaps
      /\ sent \in {<<>>, docs[i].rels}
      /\ RefusesMissing(o) => Missing(refs) = {}
      /\ field' = IF Kind(o) \in Keepers
                  THEN [field EXCEPT ![Kind(o)] = Compared(o, docs[i].refs, refs)]
                  ELSE field
      /\ Soil(Kind(o), TRUE)
      /\ req' = [Shared(r) EXCEPT ![r] =
           [step   |-> "save",
            doc    |-> Document(o, Merge(docs[i].refs, refs),
                                Merge(docs[i].rels, rels), UpdatedUrl(i, rels)),
            at     |-> i,
            case   |-> "other",
            events |-> {}]]
      /\ mishaps' = mishaps + 1
      /\ astray' = astray \cup Overlap(o) \cup {o}
      /\ UNCHANGED docs

\* A dry run, a validation error or a failed save ends the request; the fields stay.
Abandon(r) ==
  LET k == Kind(req[r].doc.of) IN
  /\ req[r].step = "save"
  /\ req' = [req EXCEPT ![r] = Idle]
  /\ soiled' = IF k \in Keepers /\ field[k] # NoField THEN soiled \cup {k} ELSE soiled
  /\ UNCHANGED <<docs, field, astray, mishaps>>

Save(r) ==
  /\ req[r].step = "save"
  /\ docs' = IF req[r].at = 0 THEN Append(docs, req[r].doc)
                              ELSE [docs EXCEPT ![req[r].at] = req[r].doc]
  /\ req' = [req EXCEPT ![r].step = "announce"]
  /\ UNCHANGED <<field, soiled, astray, mishaps>>

(***************************************************************************)
(* The hooks afterCreate and afterUpdate, and the listeners.               *)
(***************************************************************************)
Event(name, x) == [name |-> name, of |-> x]

AllReferenced(refs) == {Event("referenced", x) : x \in Range(refs)}

Announced(kept) ==
  {Event("referenced", x) : x \in kept.added} \cup {Event("removed", x) : x \in kept.removed}

StrategyAfterCreate_Changes(refs) == Announced(field["strategy"])

\* When nothing changed, all current references are announced, which covers first versions.
StrategyAfterCreate(refs) ==
  IF field["strategy"] # NoField THEN Announced(field["strategy"]) ELSE AllReferenced(refs)

\* Nothing is announced as removed.
AnalyticAfterCreate(refs) == AllReferenced(refs)

ComponentAfterCreate(refs) ==
  IF field["component"] # NoField THEN Announced(field["component"]) ELSE AllReferenced(refs)

AfterCreate(o, refs) ==
  CASE o \in Strategies -> StrategyAfterCreate(refs)
    [] o \in Analytics  -> AnalyticAfterCreate(refs)
    [] o \in Components -> ComponentAfterCreate(refs)
    [] OTHER            -> {}

StrategyAfterUpdate == Announced(field["strategy"])

AnalyticAfterUpdate == Announced(field["analytic"])

ComponentAfterUpdate == Announced(field["component"])

AfterUpdate(o) ==
  CASE o \in Strategies -> StrategyAfterUpdate
    [] o \in Analytics  -> AnalyticAfterUpdate
    [] o \in Components -> ComponentAfterUpdate
    [] OTHER            -> {}

\* The hooks that read the fields, and clean them up in the end.
Reads(o, at) == o \in Strategies \cup Components \/ (o \in Analytics /\ at # 0)

Announce(r) ==
  LET o == req[r].doc.of IN
  /\ req[r].step = "announce"
  /\ req' = [req EXCEPT ![r].step = "notify",
       ![r].events = IF req[r].at = 0 THEN AfterCreate(o, req[r].doc.refs)
                                      ELSE AfterUpdate(o)]
  /\ astray' = IF Reads(o, req[r].at) /\ Kind(o) \in soiled THEN astray \cup {o} ELSE astray
  /\ UNCHANGED <<docs, field, soiled, mishaps>>

(***************************************************************************)
(* What listeners make of the latest version of the object they look after.*)
(***************************************************************************)
WithInbound(rels, o) == IF o \in Inbound(rels) THEN rels ELSE Append(rels, Rel(o, "inbound"))

WithoutInbound(rels, o) == Kept(rels, Range(rels) \ {Rel(o, "inbound")})

HandleAnalyticsReferenced(doc, o) ==
  LET rels == WithInbound(doc.rels, o) IN [doc EXCEPT !.rels = rels, !.url = Parent(rels)]

HandleAnalyticsRemoved_UrlStays(doc, o) == [doc EXCEPT !.rels = WithoutInbound(@, o)]

HandleAnalyticsRemoved(doc, o) ==
  [doc EXCEPT !.rels = WithoutInbound(@, o), !.url = None]

HandleDataComponentsReferenced(doc, o) == [doc EXCEPT !.rels = WithInbound(@, o)]

HandleDataComponentsRemoved(doc, o) == [doc EXCEPT !.rels = WithoutInbound(@, o)]

HandleDataSourceReferenced(doc, o) == [doc EXCEPT !.rels = WithInbound(@, o)]

HandleDataSourceRemoved(doc, o) == [doc EXCEPT !.rels = WithoutInbound(@, o)]

Heard(doc, name, o) ==
  CASE doc.of \in Analytics /\ name = "referenced"  -> HandleAnalyticsReferenced(doc, o)
    [] doc.of \in Analytics /\ name = "removed"     -> HandleAnalyticsRemoved(doc, o)
    [] doc.of \in Components /\ name = "referenced" -> HandleDataComponentsReferenced(doc, o)
    [] doc.of \in Components /\ name = "removed"    -> HandleDataComponentsRemoved(doc, o)
    [] doc.of \in Sources /\ name = "referenced"    -> HandleDataSourceReferenced(doc, o)
    [] doc.of \in Sources /\ name = "removed"       -> HandleDataSourceRemoved(doc, o)

\* Events of one request are handled one after the other, "referenced" first.
Due(r, e) ==
  /\ req[r].step = "notify"
  /\ e \in req[r].events
  /\ e.name = "removed" => \A d \in req[r].events : d.name = "removed"

Notify(r, e) ==
  /\ Due(r, e)
  /\ docs' = IF Stored(e.of)
             THEN [docs EXCEPT ![LatestVersion(e.of)] = Heard(@, e.name, req[r].doc.of)]
             ELSE docs
  /\ req' = [req EXCEPT ![r].events = @ \ {e}]
  /\ UNCHANGED <<field, soiled, astray, mishaps>>

\* A listener that fails is logged; the request goes on.
Overhear(r, e) ==
  /\ Due(r, e)
  /\ mishaps < MaxMishaps
  /\ mishaps' = mishaps + 1
  /\ req' = [req EXCEPT ![r].events = @ \ {e}, ![r].case = "other"]
  /\ astray' = astray \cup {req[r].doc.of}
  /\ UNCHANGED <<docs, field, soiled>>

Finish(r) ==
  LET o == req[r].doc.of IN
  /\ req[r].step = "notify"
  /\ req[r].events = {}
  /\ field' = IF Reads(o, req[r].at) THEN [field EXCEPT ![Kind(o)] = NoField] ELSE field
  /\ soiled' = IF Reads(o, req[r].at) THEN soiled \ {Kind(o)} ELSE soiled
  /\ req' = [req EXCEPT ![r] = Idle]
  /\ UNCHANGED <<docs, astray, mishaps>>

Post(r) ==
  \E o \in Objects : \E refs \in References(o) :
    \E sent \in {<<>>} \cup {docs[i].rels : i \in VersionsOf(o)} : BeginPost(r, o, refs, sent)

Put(r) ==
  \E i \in DOMAIN docs : \E refs \in References(docs[i].of) :
    \E sent \in {<<>>, docs[i].rels} : BeginPut(r, i, refs, sent)

Next ==
  \E r \in Requests :
    \/ Post(r) \/ Put(r) \/ Abandon(r) \/ Save(r) \/ Announce(r) \/ Finish(r)
    \/ \E e \in req[r].events : Notify(r, e) \/ Overhear(r, e)

Spec == Init /\ [][Next]_vars

-----------------------------------------------------------------------------
(***************************************************************************)
(* Properties.                                                             *)
(***************************************************************************)
Settled == Working = {}

Referrers(x) == {o \in Objects : Stored(o) /\ x \in Referable(Kind(o))}

\* Between requests, what an object's latest version references knows of it: nothing the events
\* carry is lost across new versions of either side, as long as no request went astray.
ReferencedKnows ==
  Settled =>
    \A x \in Objects : \A o \in Referrers(x) :
      (Stored(x) /\ {o, x} \cap astray = {} /\ x \in Range(Latest(o).refs))
        => o \in Inbound(Latest(x).rels)

\* And back references of strategies and data components end with the reference: the latest
\* version of whoever is listed references the object still.  (Analytics announce no removal
\* when a new version of them drops a reference.)
BackReferenceHolds ==
  Settled =>
    \A x \in Objects : \A o \in Referrers(x) \ Analytics :
      (Stored(x) /\ {o, x} \cap astray = {} /\ o \in Inbound(Latest(x).rels))
        => x \in Range(Latest(o).refs)

\* The URL of an analytic leads to the first of the strategies that reference it, or there is none.
UrlLeadsToParent ==
  Settled =>
    \A a \in Analytics :
      Stored(a) /\ a \notin astray => Latest(a).url \in {None, Parent(Latest(a).rels)}

\* Whatever went wrong before, a new version with the references of the one before restores the
\* back references: its request ends with every object it references knowing of it.
RepostHeals ==
  [][\A r \in Requests :
       (Finish(r) /\ req[r].case = "same" /\ req[r].doc.of \notin Components)
         => \A x \in Range(req[r].doc.refs) : Stored(x) => req[r].doc.of \in Inbound(Latest(x).rels)]_vars

=============================================================================
