--------------------- MODULE EmbeddedRelationshipsProofs ---------------------
(***************************************************************************)
(* Proofs about EmbeddedRelationships, for any objects, any store to begin *)
(* with, and any number of requests, listeners that fail and updates in    *)
(* place: types, that back references follow the references of what did    *)
(* not go astray, and that posting the same references again restores them.*)
(***************************************************************************)
EXTENDS EmbeddedRelationships, Maxima, TLAPS

-----------------------------------------------------------------------------
(***************************************************************************)
(* The inductive invariant.                                                *)
(***************************************************************************)
FieldsOf(k) == [added : SUBSET Referable(k), removed : SUBSET Referable(k)]

EventsOf(k) == [name : {"referenced", "removed"}, of : Referable(k)]

\* A request under way has a document, which it saves or saved in the place of one of its object.
UnderWay(store, q) ==
  /\ q.step \in {"save", "announce", "notify"}
  /\ q.doc \in Documents
  /\ q.at \in Nat
  /\ q.at # 0 => q.at \in DOMAIN store /\ store[q.at].of = q.doc.of
  /\ q.case \in {"first", "same", "other"}
  /\ q.events \subseteq EventsOf(Kind(q.doc.of))
  /\ q = [step |-> q.step, doc |-> q.doc, at |-> q.at, case |-> q.case, events |-> q.events]

TypeOK ==
  /\ docs \in Seq(Documents)
  /\ field \in [Keepers -> [added : SUBSET Objects, removed : SUBSET Objects]]
  /\ \A k \in Keepers : field[k] \in FieldsOf(k)
  /\ DOMAIN req = Requests
  /\ \A r \in Requests : req[r] = Idle \/ UnderWay(docs, req[r])
  /\ soiled \subseteq Keepers
  /\ astray \subseteq Objects

\* The object a request is about.
About(r) == req[r].doc.of

\* A request on an object that is not astray is alone, and posts a new version.
Alone ==
  \A r \in Working : About(r) \notin astray => Working = {r} /\ req[r].at = 0

\* What is in the fields of a service is that of a request that will clear it, or known to be soiled.
FieldsOwned ==
  \A k \in Keepers \ soiled :
    field[k] # NoField =>
      \E r \in Working : Kind(About(r)) = k /\ Reads(About(r), req[r].at)

\* A request saved its document and did not yet tell everyone about it.
Telling(r) == req[r].step \in {"announce", "notify"}

\* References of what is not astray are to stored objects.
ReferencesStored ==
  /\ \A o \in Objects \ astray : Stored(o) => \A x \in Range(Latest(o).refs) : Stored(x)
  /\ \A r \in Working : About(r) \notin astray => \A x \in Range(req[r].doc.refs) : Stored(x)

\* Back references agree with references, but for those of a request that is telling.
Knit ==
  \A o \in Objects \ astray : \A x \in Referable(Kind(o)) \ astray :
    (\A r \in Working : About(r) = o => ~Telling(r)) => Agree(docs, o, x)

\* The document about to be saved has the back references of the version before it.
CarriesOver(r) ==
  LET o == About(r) IN
  \A p \in Objects :
    o \in Referable(Kind(p)) =>
      (p \in Inbound(req[r].doc.rels) <=> Stored(o) /\ p \in Inbound(Latest(o).rels))

\* and the fields of its service tell how its references differ from those before.
Remembers(r) ==
  LET o == About(r) IN
  o \in Strategies \cup Components =>
    \/ Kind(o) \in soiled
    \/ field[Kind(o)] = IF Stored(o) THEN Difference(Latest(o).refs, req[r].doc.refs) ELSE NoField

Saving ==
  \A r \in Working : req[r].step = "save" /\ About(r) \notin astray => CarriesOver(r) /\ Remembers(r)

\* Once saved, the fields tell whose back references disagree with the new version.
Outstanding(r, kept) ==
  LET o == About(r) IN
  /\ kept.added \subseteq Range(req[r].doc.refs)
  /\ kept.removed \cap Range(req[r].doc.refs) = {}
  /\ \A x \in Referable(Kind(o)) \ astray : Stored(x) =>
       /\ x \in Range(req[r].doc.refs) =>
            kept = NoField \/ x \in kept.added \/ o \in Inbound(Latest(x).rels)
       /\ o \in Inbound(Latest(x).rels) =>
            x \in Range(req[r].doc.refs) \/ x \in kept.removed

Announcing ==
  \A r \in Working : req[r].step = "announce" /\ About(r) \notin astray =>
    LET o == About(r) IN
    /\ Stored(o) /\ Latest(o).refs = req[r].doc.refs
    /\ o \in Strategies \cup Components =>
         Kind(o) \in soiled \/ Outstanding(r, field[Kind(o)])

\* and then the events still to be handled do.
Notifying ==
  \A r \in Working : req[r].step = "notify" /\ About(r) \notin astray =>
    LET o == About(r) IN
    /\ Stored(o) /\ Latest(o).refs = req[r].doc.refs
    /\ \A e \in req[r].events : e.name = "referenced" <=> e.of \in Range(req[r].doc.refs)
    /\ \A x \in Referable(Kind(o)) \ astray : Stored(x) =>
         /\ x \in Range(req[r].doc.refs) =>
              Event("referenced", x) \in req[r].events \/ o \in Inbound(Latest(x).rels)
         /\ o \notin Analytics /\ o \in Inbound(Latest(x).rels) =>
              x \in Range(req[r].doc.refs) \/ Event("removed", x) \in req[r].events

\* The URL of an analytic leads to its parent or nowhere, in the next version as well.
UrlsLead ==
  /\ \A a \in Analytics \ astray : Stored(a) => Latest(a).url \in {None, Parent(Latest(a).rels)}
  /\ \A r \in Working :
       req[r].step = "save" /\ About(r) \in Analytics \ astray =>
         req[r].doc.url \in {None, Parent(req[r].doc.rels)}

\* A request that reposts the references of its object has no field in the way of announcing all.
Reposting ==
  \A r \in Working : req[r].case = "same" =>
    LET o == About(r) IN
    /\ Working = {r} /\ req[r].at = 0
    /\ req[r].step = "save" => Stored(o) /\ Latest(o).refs = req[r].doc.refs
    /\ req[r].step \in {"save", "announce"} /\ o \in Strategies => field["strategy"] = NoField
    /\ req[r].step = "notify" /\ o \notin Components =>
         /\ \A e \in req[r].events : e.name = "referenced"
         /\ \A x \in Range(req[r].doc.refs) :
              Event("referenced", x) \in req[r].events \/ (Stored(x) => o \in Inbound(Latest(x).rels))

IInv ==
  /\ TypeOK
  /\ Alone /\ FieldsOwned /\ ReferencesStored
  /\ Knit /\ Saving /\ Announcing /\ Notifying
  /\ UrlsLead /\ Reposting

-----------------------------------------------------------------------------
(***************************************************************************)
(* Versions in a store.                                                    *)
(***************************************************************************)
LEMMA DocumentFields ==
  ASSUME NEW d \in Documents
  PROVE  /\ d.of \in Objects /\ d.refs \in Seq(Objects) /\ d.rels \in Seq(Relations)
         /\ d.url \in Objects \cup {None} /\ Range(d.refs) \subseteq Referable(Kind(d.of))
         /\ d = [of |-> d.of, refs |-> d.refs, rels |-> d.rels, url |-> d.url]
  BY DEF Documents

LEMMA DocumentFormed ==
  ASSUME NEW o \in Objects, NEW refs \in Seq(Objects), NEW rels \in Seq(Relations),
         NEW url \in Objects \cup {None}, Range(refs) \subseteq Referable(Kind(o))
  PROVE  /\ Document(o, refs, rels, url) \in Documents
         /\ Document(o, refs, rels, url).of = o
         /\ Document(o, refs, rels, url).refs = refs
         /\ Document(o, refs, rels, url).rels = rels
         /\ Document(o, refs, rels, url).url = url
  BY DEF Document, Documents

LEMMA LatestVersions ==
  ASSUME NEW store \in Seq(Documents), NEW o, VersionsIn(store, o) # {}
  PROVE  /\ Max(VersionsIn(store, o)) \in VersionsIn(store, o)
         /\ Max(VersionsIn(store, o)) \in DOMAIN store
         /\ \A i \in VersionsIn(store, o) : i <= Max(VersionsIn(store, o))
         /\ LatestIn(store, o) \in Documents
         /\ LatestIn(store, o).of = o
  <1>1. Len(store) \in Nat /\ DOMAIN store = 1 .. Len(store)
    OBVIOUS
  <1>2. VersionsIn(store, o) \in SUBSET (1 .. Len(store))
    BY <1>1 DEF VersionsIn
  <1>a. IsFiniteSet(1 .. Len(store))
    BY <1>1, FS_Interval
  <1>3. VersionsIn(store, o) \in SUBSET Nat /\ IsFiniteSet(VersionsIn(store, o))
    BY <1>1, <1>2, <1>a, FS_Subset
  <1>4. /\ Max(VersionsIn(store, o)) \in VersionsIn(store, o)
        /\ \A i \in VersionsIn(store, o) : Max(VersionsIn(store, o)) >= i
    BY <1>3, FiniteMax
  <1> DEFINE m == Max(VersionsIn(store, o))
  <1>5. m \in DOMAIN store /\ store[m].of = o /\ m \in Nat
    BY <1>1, <1>4 DEF VersionsIn
  <1>6. store[m] \in Documents
    BY <1>1, <1>5
  <1>7. \A i \in VersionsIn(store, o) : i <= m
    BY <1>1, <1>2, <1>4, <1>5
  <1> QED
    BY <1>4, <1>5, <1>6, <1>7 DEF LatestIn

\* Only the greatest of the versions matters.
LEMMA LatestIsGreatest ==
  ASSUME NEW store \in Seq(Documents), NEW o, NEW m \in VersionsIn(store, o),
         \A i \in VersionsIn(store, o) : i <= m
  PROVE  LatestIn(store, o) = store[m]
  <1>1. Len(store) \in Nat /\ DOMAIN store = 1 .. Len(store)
    OBVIOUS
  <1>2. VersionsIn(store, o) \subseteq 1 .. Len(store)
    BY <1>1 DEF VersionsIn
  <1>3. /\ Max(VersionsIn(store, o)) \in VersionsIn(store, o)
        /\ \A i \in VersionsIn(store, o) : i <= Max(VersionsIn(store, o))
    BY LatestVersions
  <1>4. Max(VersionsIn(store, o)) = m
    BY <1>1, <1>2, <1>3
  <1> QED
    BY <1>4 DEF LatestIn

\* A new version is the latest of its object, and leaves those of others.
LEMMA Appended ==
  ASSUME NEW store \in Seq(Documents), NEW d \in Documents
  PROVE  /\ Append(store, d) \in Seq(Documents)
         /\ VersionsIn(Append(store, d), d.of) # {} /\ LatestIn(Append(store, d), d.of) = d
         /\ \A o : o # d.of => /\ VersionsIn(Append(store, d), o) = VersionsIn(store, o)
                               /\ VersionsIn(store, o) # {}
                                    => LatestIn(Append(store, d), o) = LatestIn(store, o)
  <1> DEFINE t == Append(store, d)
             n == Len(store)
  <1>1. /\ n \in Nat /\ DOMAIN store = 1 .. n /\ t \in Seq(Documents)
        /\ DOMAIN t = 1 .. (n + 1) /\ t[n + 1] = d
        /\ \A i \in 1 .. n : t[i] = store[i] /\ i \in 1 .. (n + 1)
        /\ \A i \in 1 .. (n + 1) : i = n + 1 \/ i \in 1 .. n
    OBVIOUS
  <1> HIDE DEF t, n
  <1>2. n + 1 \in VersionsIn(t, d.of) /\ \A i \in VersionsIn(t, d.of) : i <= n + 1
    BY <1>1 DEF VersionsIn
  <1>3. LatestIn(t, d.of) = d
    BY <1>1, <1>2, LatestIsGreatest
  <1>4. ASSUME NEW o, o # d.of PROVE /\ VersionsIn(t, o) = VersionsIn(store, o)
                                     /\ VersionsIn(store, o) # {} => LatestIn(t, o) = LatestIn(store, o)
    <2>1. VersionsIn(t, o) = VersionsIn(store, o)
      BY <1>1, <1>4 DEF VersionsIn
    <2>2. ASSUME VersionsIn(store, o) # {} PROVE LatestIn(t, o) = LatestIn(store, o)
      <3>1. Max(VersionsIn(store, o)) \in 1 .. n
        BY <1>1, <2>2, LatestVersions
      <3> QED
        BY <1>1, <2>1, <3>1 DEF LatestIn
    <2> QED
      BY <2>1, <2>2
  <1> QED
    BY <1>1, <1>2, <1>3, <1>4 DEF t

\* A version that is replaced stays a version of its object.
LEMMA Replaced ==
  ASSUME NEW store \in Seq(Documents), NEW i \in DOMAIN store, NEW d \in Documents,
         d.of = store[i].of
  PROVE  /\ [store EXCEPT ![i] = d] \in Seq(Documents)
         /\ DOMAIN [store EXCEPT ![i] = d] = DOMAIN store
         /\ \A o : VersionsIn([store EXCEPT ![i] = d], o) = VersionsIn(store, o)
         /\ \A o : LatestIn([store EXCEPT ![i] = d], o) =
                    [store EXCEPT ![i] = d][Max(VersionsIn(store, o))]
         /\ \A o : o # d.of /\ VersionsIn(store, o) # {}
                    => LatestIn([store EXCEPT ![i] = d], o) = LatestIn(store, o)
  <1> DEFINE t == [store EXCEPT ![i] = d]
  <1>1. /\ t \in Seq(Documents) /\ DOMAIN t = DOMAIN store /\ t[i] = d
        /\ \A j \in DOMAIN store : j # i => t[j] = store[j]
    OBVIOUS
  <1> HIDE DEF t
  <1>2. \A o : VersionsIn(t, o) = VersionsIn(store, o)
    BY <1>1 DEF VersionsIn
  <1>3. \A o : LatestIn(t, o) = t[Max(VersionsIn(store, o))]
    BY <1>2 DEF LatestIn
  <1>4. ASSUME NEW o, o # d.of, VersionsIn(store, o) # {} PROVE LatestIn(t, o) = LatestIn(store, o)
    <2>1. Max(VersionsIn(store, o)) \in DOMAIN store /\ store[Max(VersionsIn(store, o))].of = o
      BY <1>4, LatestVersions DEF VersionsIn
    <2> QED
      BY <1>1, <1>3, <1>4, <2>1 DEF LatestIn
  <1> QED
    BY <1>1, <1>2, <1>3, <1>4 DEF t

-----------------------------------------------------------------------------
(***************************************************************************)
(* Lists of relationships.                                                 *)
(***************************************************************************)
LEMMA RelTyped == ASSUME NEW o \in Objects PROVE Rel(o, "inbound") \in Relations /\ Rel(o, "outbound") \in Relations
  BY DEF Rel, Relations

LEMMA IsRel ==
  ASSUME NEW q \in Relations, NEW o
  PROVE  q = Rel(o, "inbound") <=> q.stix_id = o /\ q.direction = "inbound"
  BY DEF Rel, Relations

LEMMA InboundMember ==
  ASSUME NEW rels \in Seq(Relations), NEW o
  PROVE  o \in Inbound(rels) <=> \E i \in DOMAIN rels : rels[i].direction = "inbound" /\ rels[i].stix_id = o
  BY DEF Inbound, Range

LEMMA KeptRelations ==
  ASSUME NEW rels \in Seq(Relations), NEW W
  PROVE  Kept(rels, W) \in Seq(Relations) /\ Range(Kept(rels, W)) = Range(rels) \cap W
  <1> DEFINE k == Kept(rels, W)
  <1>1. /\ k \in Seq(Relations)
        /\ \A e : (\E i \in DOMAIN k : k[i] = e) <=> e \in W /\ \E i \in DOMAIN rels : rels[i] = e
    BY KeptEntries
  <1> HIDE DEF k
  <1>2. Range(k) = Range(rels) \cap W
    BY <1>1 DEF Range
  <1> QED
    BY <1>1, <1>2 DEF k

LEMMA NotToInbound ==
  ASSUME NEW rels \in Seq(Relations), NEW S
  PROVE  /\ NotTo(S, rels) \in Seq(Relations)
         /\ Inbound(NotTo(S, rels)) = Inbound(rels) \ S
  <1> DEFINE W == {q \in Range(rels) : q.stix_id \notin S}
  <1>1. NotTo(S, rels) \in Seq(Relations) /\ Range(NotTo(S, rels)) = Range(rels) \cap W
    BY KeptRelations DEF NotTo
  <1> QED
    BY <1>1 DEF Inbound

LEMMA WithoutInboundIs ==
  ASSUME NEW rels \in Seq(Relations), NEW o \in Objects
  PROVE  /\ WithoutInbound(rels, o) \in Seq(Relations)
         /\ Inbound(WithoutInbound(rels, o)) = Inbound(rels) \ {o}
  <1> DEFINE k == WithoutInbound(rels, o)
  <1>1. k \in Seq(Relations) /\ Range(k) = Range(rels) \cap (Range(rels) \ {Rel(o, "inbound")})
    BY KeptRelations DEF WithoutInbound
  <1> HIDE DEF k
  <1>2. Range(k) = Range(rels) \ {Rel(o, "inbound")}
    BY <1>1
  <1>3. \A q \in Range(rels) : q \in Relations
    BY DEF Range
  <1>4. Inbound(k) = Inbound(rels) \ {o}
    BY <1>2, <1>3, IsRel DEF Inbound
  <1> QED
    BY <1>1, <1>4 DEF k

LEMMA WithInboundIs ==
  ASSUME NEW rels \in Seq(Relations), NEW o \in Objects
  PROVE  /\ WithInbound(rels, o) \in Seq(Relations)
         /\ Inbound(WithInbound(rels, o)) = Inbound(rels) \cup {o}
  <1> DEFINE t == Append(rels, Rel(o, "inbound"))
  <1>1. Rel(o, "inbound") \in Relations /\ Len(rels) \in Nat /\ DOMAIN rels = 1 .. Len(rels)
    BY RelTyped
  <1>2. t \in Seq(Relations) /\ Range(t) = Range(rels) \cup {Rel(o, "inbound")}
    <2>1. /\ t \in Seq(Relations) /\ DOMAIN t = 1 .. (Len(rels) + 1) /\ t[Len(rels) + 1] = Rel(o, "inbound")
          /\ \A i \in 1 .. Len(rels) : t[i] = rels[i] /\ i \in 1 .. (Len(rels) + 1)
          /\ \A i \in 1 .. (Len(rels) + 1) : i = Len(rels) + 1 \/ i \in 1 .. Len(rels)
      BY <1>1
    <2> HIDE DEF t
    <2> QED
      BY <1>1, <2>1 DEF Range
  <1>3. Inbound(t) = Inbound(rels) \cup {o}
    <2> HIDE DEF t
    <2>1. Rel(o, "inbound").direction = "inbound" /\ Rel(o, "inbound").stix_id = o
      BY DEF Rel
    <2> QED
      BY <1>2, <2>1 DEF Inbound
  <1> QED
    BY <1>2, <1>3 DEF WithInbound

LEMMA OutboundsTyped ==
  ASSUME NEW refs \in Seq(Objects)
  PROVE  /\ Outbounds(refs) \in Seq(Relations)
         /\ \A i \in DOMAIN Outbounds(refs) : Outbounds(refs)[i].direction = "outbound"
  <1>1. Len(refs) \in Nat /\ DOMAIN refs = 1 .. Len(refs) /\ \A i \in DOMAIN refs : refs[i] \in Objects
    OBVIOUS
  <1>2. \A i \in 1 .. Len(refs) : Rel(refs[i], "outbound") \in Relations
    BY <1>1, RelTyped
  <1>3. Outbounds(refs) \in [1 .. Len(refs) -> Relations]
    BY <1>1, <1>2 DEF Outbounds
  <1>4. Outbounds(refs) \in Seq(Relations)
    BY <1>1, <1>3
  <1>5. \A i \in DOMAIN refs : Outbounds(refs)[i].direction = "outbound"
    BY DEF Outbounds, Rel
  <1> QED
    BY <1>1, <1>3, <1>4, <1>5

LEMMA Concatenated ==
  ASSUME NEW a \in Seq(Relations), NEW b \in Seq(Relations)
  PROVE  /\ a \o b \in Seq(Relations)
         /\ DOMAIN (a \o b) = 1 .. (Len(a) + Len(b))
         /\ \A i \in DOMAIN a : i \in DOMAIN (a \o b) /\ (a \o b)[i] = a[i]
         /\ \A i \in DOMAIN (a \o b) : i \in DOMAIN a \/ (i - Len(a) \in DOMAIN b /\ (a \o b)[i] = b[i - Len(a)])
         /\ \A i \in DOMAIN a : \A j \in DOMAIN (a \o b) : j \notin DOMAIN a => i < j
  OBVIOUS

\* Outbound relationships at the end change no back reference.
LEMMA OutboundsAdd ==
  ASSUME NEW rels \in Seq(Relations), NEW refs \in Seq(Objects)
  PROVE  /\ rels \o Outbounds(refs) \in Seq(Relations)
         /\ Inbound(rels \o Outbounds(refs)) = Inbound(rels)
  <1> DEFINE t == rels \o Outbounds(refs)
  <1>1. Outbounds(refs) \in Seq(Relations)
    BY OutboundsTyped
  <1>2. /\ t \in Seq(Relations)
        /\ \A i \in DOMAIN rels : i \in DOMAIN t /\ t[i] = rels[i]
        /\ \A i \in DOMAIN t : i \in DOMAIN rels \/ t[i].direction = "outbound"
    BY <1>1, Concatenated, OutboundsTyped
  <1> HIDE DEF t
  <1>3. ASSUME NEW o PROVE o \in Inbound(t) <=> o \in Inbound(rels)
    BY <1>2, InboundMember, "outbound" # "inbound"
  <1> QED
    BY <1>2, <1>3 DEF t

-----------------------------------------------------------------------------
(***************************************************************************)
(* The parent of an analytic.                                              *)
(***************************************************************************)
FromStrategies(rels) == {i \in DOMAIN rels : rels[i].direction = "inbound" /\ rels[i].stix_id \in Strategies}

LEMMA ParentIs ==
  ASSUME NEW rels \in Seq(Relations)
  PROVE  /\ Parent(rels) \in Strategies \cup {None}
         /\ FromStrategies(rels) = {} => Parent(rels) = None
         /\ FromStrategies(rels) # {} =>
              \E m \in FromStrategies(rels) :
                (\A i \in FromStrategies(rels) : m <= i) /\ Parent(rels) = rels[m].stix_id
  <1>1. Len(rels) \in Nat /\ FromStrategies(rels) \in SUBSET (1 .. Len(rels))
    BY DEF FromStrategies
  <1>2. ASSUME FromStrategies(rels) # {}
        PROVE  /\ Min(FromStrategies(rels)) \in FromStrategies(rels)
               /\ \A i \in FromStrategies(rels) : Min(FromStrategies(rels)) <= i
    BY <1>1, <1>2, BoundedMin
  <1>3. Parent(rels) = IF FromStrategies(rels) = {} THEN None ELSE rels[Min(FromStrategies(rels))].stix_id
    BY DEF Parent, FromStrategies
  <1>4. \A i \in FromStrategies(rels) : rels[i].stix_id \in Strategies
    BY DEF FromStrategies
  <1> QED
    BY <1>2, <1>3, <1>4

LEMMA ParentFirst ==
  ASSUME NEW rels \in Seq(Relations), NEW m \in FromStrategies(rels),
         \A i \in FromStrategies(rels) : m <= i
  PROVE  Parent(rels) = rels[m].stix_id
  <1>1. PICK n \in FromStrategies(rels) :
          (\A i \in FromStrategies(rels) : n <= i) /\ Parent(rels) = rels[n].stix_id
    BY ParentIs
  <1>2. FromStrategies(rels) \subseteq Nat
    BY DEF FromStrategies
  <1>3. m = n
    BY <1>1, <1>2
  <1> QED
    BY <1>1, <1>3

LEMMA StrategiesApart ==
  /\ Strategies \cap Components = {} /\ Analytics \cap Components = {} /\ Strategies \cap Analytics = {}
  /\ Sources \cap Components = {} /\ Sources \cap Analytics = {} /\ Sources \cap Strategies = {}
  /\ Strategies \subseteq Objects /\ Analytics \subseteq Objects /\ Components \subseteq Objects
  /\ Sources \subseteq Objects /\ None \notin Objects
  /\ \A o \in Objects : o \in Strategies \/ o \in Analytics \/ o \in Components \/ o \in Sources
  BY DisjointAssumption DEF Objects

\* The list an analytic is saved with has the first inbound strategy of the one before.
LEMMA ParentStays ==
  ASSUME NEW rels \in Seq(Relations), NEW refs \in Seq(Objects)
  PROVE  Parent(NotTo(Components, rels) \o Outbounds(refs)) = Parent(rels)
  <1> DEFINE W == {q \in Range(rels) : q.stix_id \notin Components}
             k == Kept(rels, W)
             t == k \o Outbounds(refs)
  <1>1. k \in Seq(Relations) /\ \E h : Places(h, k, rels, W, Len(rels)) /\ InOrder(h, k)
    <2> HIDE DEF W
    <2> QED
      BY KeptInOrder
  <1>2. PICK h : Places(h, k, rels, W, Len(rels)) /\ InOrder(h, k)
    BY <1>1
  <1>3. NotTo(Components, rels) = k
    BY DEF NotTo
  <1>4. /\ DOMAIN k = 1 .. Len(k) /\ Len(k) \in Nat /\ DOMAIN rels = 1 .. Len(rels)
        /\ \A i \in DOMAIN rels : rels[i] \in W <=> rels[i].stix_id \notin Components
    <2>1. \A i \in DOMAIN rels : rels[i] \in Range(rels)
      BY DEF Range
    <2> HIDE DEF k
    <2> QED
      BY <1>1, <2>1
  <1>5. /\ t \in Seq(Relations)
        /\ DOMAIN t \subseteq Nat
        /\ \A i \in DOMAIN k : i \in DOMAIN t /\ t[i] = k[i]
        /\ \A i \in DOMAIN t : i \in DOMAIN k \/ t[i].direction = "outbound"
    <2> HIDE DEF k
    <2>1. Outbounds(refs) \in Seq(Relations)
      BY OutboundsTyped
    <2> QED
      BY <1>1, <2>1, Concatenated, OutboundsTyped
  <1> HIDE DEF t, k, W
  <1>6. FromStrategies(t) = FromStrategies(k)
    BY <1>5, "outbound" # "inbound" DEF FromStrategies
  <1>7. \A i \in DOMAIN k : h[i] \in DOMAIN rels /\ k[i] = rels[h[i]]
    BY <1>2, <1>4 DEF Places
  <1>8. \A i \in FromStrategies(k) : h[i] \in FromStrategies(rels)
    BY <1>7 DEF FromStrategies
  <1>9. \A m \in FromStrategies(rels) : \E i \in FromStrategies(k) : h[i] = m
    <2> TAKE m \in FromStrategies(rels)
    <2>1. m \in DOMAIN rels /\ rels[m] \in W
      BY <1>4, StrategiesApart DEF FromStrategies
    <2>2. PICK i \in DOMAIN k : h[i] = m
      BY <1>2, <1>4, <2>1 DEF Places
    <2> QED
      BY <1>7, <2>2 DEF FromStrategies
  <1>10. CASE FromStrategies(rels) = {}
    <2>1. FromStrategies(k) = {} /\ FromStrategies(t) = {}
      BY <1>6, <1>8, <1>10
    <2> QED
      BY <1>3, <1>5, <1>10, <2>1, ParentIs DEF t
  <1>11. CASE FromStrategies(rels) # {}
    <2>1. PICK m \in FromStrategies(rels) : (\A i \in FromStrategies(rels) : m <= i) /\ Parent(rels) = rels[m].stix_id
      BY <1>11, ParentIs
    <2>2. PICK n \in FromStrategies(k) : h[n] = m
      BY <1>9, <2>1
    <2>3. \A i \in FromStrategies(k) : n <= i
      <3> SUFFICES ASSUME NEW i \in FromStrategies(k), ~(n <= i) PROVE FALSE
        OBVIOUS
      <3>1. i \in 1 .. Len(k) /\ n \in 1 .. Len(k) /\ i < n
        BY <1>4 DEF FromStrategies
      <3>2. h[i] < h[n]
        BY <1>2, <3>1 DEF InOrder
      <3>3. h[i] \in 1 .. Len(rels) /\ m \in 1 .. Len(rels) /\ m <= h[i]
        BY <1>4, <1>8, <2>1 DEF FromStrategies
      <3> QED
        BY <2>2, <3>2, <3>3
    <2>4. n \in FromStrategies(t) /\ \A i \in FromStrategies(t) : n <= i
      BY <1>6, <2>3
    <2>5. Parent(t) = t[n].stix_id
      BY <1>5, <2>4, ParentFirst
    <2>6. t[n] = rels[m]
      BY <1>5, <1>7, <2>2 DEF FromStrategies
    <2> QED
      BY <1>3, <2>1, <2>5, <2>6 DEF t
  <1> QED
    BY <1>10, <1>11

-----------------------------------------------------------------------------
(***************************************************************************)
(* Kinds, references and fields.                                           *)
(***************************************************************************)
LEMMA Kinds ==
  /\ \A o \in Strategies : Kind(o) = "strategy"
  /\ \A o \in Analytics : Kind(o) = "analytic"
  /\ \A o \in Components : Kind(o) = "component"
  /\ \A o \in Sources : Kind(o) = "source"
  <1>1. \A o \in Strategies : Kind(o) = "strategy"
    BY StrategiesApart DEF Kind
  <1>2. \A o \in Analytics : Kind(o) = "analytic"
    BY StrategiesApart DEF Kind
  <1>3. \A o \in Components : Kind(o) = "component"
    BY StrategiesApart DEF Kind
  <1>4. \A o \in Sources : Kind(o) = "source"
    BY StrategiesApart DEF Kind
  <1> QED
    BY <1>1, <1>2, <1>3, <1>4

LEMMA KindsTell ==
  ASSUME NEW o \in Objects
  PROVE  /\ Kind(o) = "strategy" <=> o \in Strategies
         /\ Kind(o) = "analytic" <=> o \in Analytics
         /\ Kind(o) = "component" <=> o \in Components
         /\ Kind(o) = "source" <=> o \in Sources
         /\ Kind(o) \in Keepers <=> o \notin Sources
  <1> USE DEF Keepers
  <1>1. CASE o \in Strategies
    BY <1>1, Kinds, StrategiesApart
  <1>2. CASE o \in Analytics
    BY <1>2, Kinds, StrategiesApart
  <1>3. CASE o \in Components
    BY <1>3, Kinds, StrategiesApart
  <1>4. CASE o \in Sources
    BY <1>4, Kinds, StrategiesApart
  <1> QED
    BY <1>1, <1>2, <1>3, <1>4, StrategiesApart

LEMMA Referables ==
  /\ Referable("strategy") = Analytics /\ Referable("analytic") = Components
  /\ Referable("component") = Sources /\ Referable("source") = {}
  /\ \A k : Referable(k) \subseteq Objects
  <1>1. \A k : Referable(k) = CASE k = "strategy" -> Analytics [] k = "analytic" -> Components
                                [] k = "component" -> Sources [] OTHER -> {}
    BY DEF Referable
  <1>2. ASSUME NEW k PROVE Referable(k) \subseteq Objects
    BY StrategiesApart DEF Referable
  <1> QED
    BY <1>1, <1>2

LEMMA ReferablesOf ==
  /\ \A o \in Strategies : Referable(Kind(o)) = Analytics
  /\ \A o \in Analytics : Referable(Kind(o)) = Components
  /\ \A o \in Components : Referable(Kind(o)) = Sources
  /\ \A o \in Sources : Referable(Kind(o)) = {}
  BY Kinds, Referables

\* No object may refer to itself, and a strategy is not referred to.
LEMMA ReferableApart ==
  ASSUME NEW o \in Objects
  PROVE  o \notin Referable(Kind(o)) /\ Referable(Kind(o)) \cap Strategies = {}
  BY ReferablesOf, StrategiesApart

LEMMA ReferencesTyped ==
  ASSUME NEW o \in Objects, NEW refs \in References(o)
  PROVE  refs \in Seq(Objects) /\ Range(refs) \subseteq Referable(Kind(o))
  <1>1. PICK m \in 0 .. 2 : refs \in [1 .. m -> Referable(Kind(o))]
    BY DEF References, SeqOf
  <1>2. Referable(Kind(o)) \subseteq Objects
    BY Referables
  <1>3. refs \in Seq(Referable(Kind(o)))
    BY <1>1
  <1>4. refs \in [1 .. m -> Objects]
    BY <1>1, <1>2
  <1> QED
    BY <1>1, <1>3, <1>4 DEF Range

LEMMA MergeTyped ==
  ASSUME NEW S, NEW old \in Seq(S), NEW new \in Seq(S)
  PROVE  Merge(old, new) \in Seq(S) /\ Range(Merge(old, new)) \subseteq Range(old) \cup Range(new)
  <1> DEFINE n == Max({Len(old), Len(new)})
             t == Merge(old, new)
  <1>1. Len(old) \in Nat /\ Len(new) \in Nat /\ DOMAIN old = 1 .. Len(old) /\ DOMAIN new = 1 .. Len(new)
    OBVIOUS
  <1>2. n = (IF Len(old) >= Len(new) THEN Len(old) ELSE Len(new)) /\ n \in Nat
    BY <1>1, MaxOfTwo
  <1>3. t = [i \in 1 .. n |-> IF i \in DOMAIN new THEN new[i] ELSE old[i]]
    BY DEF Merge
  <1> HIDE DEF n, t
  <1>4. \A i \in 1 .. n : i \in DOMAIN new \/ i \in DOMAIN old
    BY <1>1, <1>2
  <1>5. \A i \in 1 .. n : t[i] \in S /\ t[i] \in Range(old) \cup Range(new)
    BY <1>1, <1>3, <1>4 DEF Range
  <1>6. t \in [1 .. n -> S] /\ DOMAIN t = 1 .. n
    BY <1>3, <1>5
  <1>7. t \in Seq(S)
    BY <1>2, <1>6
  <1>8. Range(t) \subseteq Range(old) \cup Range(new)
    <2>1. \A e \in Range(t) : \E i \in 1 .. n : e = t[i]
      BY <1>6 DEF Range
    <2> QED
      BY <1>5, <2>1
  <1> QED
    BY <1>7, <1>8 DEF t

LEMMA ComparedTyped ==
  ASSUME TypeOK, NEW o \in Objects \ Sources, NEW old, NEW new,
         Range(old) \subseteq Referable(Kind(o)), Range(new) \subseteq Referable(Kind(o))
  PROVE  Compared(o, old, new) \in FieldsOf(Kind(o))
  <1>1. Difference(old, new) \in FieldsOf(Kind(o))
    BY DEF Difference, FieldsOf
  <1>2. Kind(o) \in Keepers
    BY KindsTell
  <1>3. field[Kind(o)] \in FieldsOf(Kind(o))
    BY <1>2 DEF TypeOK
  <1>4. CASE o \in Components
    <2> DEFINE diff == Difference(old, new)
               kept == field[Kind(o)]
    <2>1. Compared(o, old, new) =
            [added   |-> IF diff.added = {} THEN kept.added ELSE diff.added,
             removed |-> IF diff.removed = {} THEN kept.removed ELSE diff.removed]
      BY <1>4 DEF Compared
    <2> HIDE DEF diff, kept
    <2>2. diff \in FieldsOf(Kind(o)) /\ kept \in FieldsOf(Kind(o))
      BY <1>1, <1>3 DEF diff, kept
    <2> QED
      BY <2>1, <2>2 DEF FieldsOf
  <1>5. CASE o \notin Components
    BY <1>1, <1>5 DEF Compared
  <1> QED
    BY <1>4, <1>5

LEMMA NoFieldTyped == ASSUME NEW k PROVE NoField \in FieldsOf(k)
  BY DEF NoField, FieldsOf

\* A field of a service changes.
LEMMA FieldSet ==
  ASSUME TypeOK, NEW k \in Keepers, NEW f \in FieldsOf(k), field' = [field EXCEPT ![k] = f]
  PROVE  /\ field' \in [Keepers -> [added : SUBSET Objects, removed : SUBSET Objects]]
         /\ \A l \in Keepers : field'[l] \in FieldsOf(l)
         /\ field'[k] = f /\ \A l \in Keepers \ {k} : field'[l] = field[l]
  <1>1. f \in [added : SUBSET Objects, removed : SUBSET Objects]
    BY Referables DEF FieldsOf
  <1>2. field \in [Keepers -> [added : SUBSET Objects, removed : SUBSET Objects]] /\ \A l \in Keepers : field[l] \in FieldsOf(l)
    BY DEF TypeOK
  <1>3. field'[k] = f /\ \A l \in Keepers \ {k} : field'[l] = field[l]
    BY <1>2
  <1> QED
    BY <1>1, <1>2, <1>3

-----------------------------------------------------------------------------
(***************************************************************************)
(* Requests under way.                                                     *)
(***************************************************************************)
LEMMA WorkingIs ==
  ASSUME TypeOK, NEW r \in Requests
  PROVE  /\ r \in Working <=> req[r].step # "idle"
         /\ r \in Working => UnderWay(docs, req[r]) /\ req[r].doc \in Documents /\ About(r) \in Objects
         /\ r \notin Working => req[r] = Idle
         /\ req[r] = Idle => r \notin Working
  <1>1. r \in Working <=> req[r].step # "idle"
    BY DEF Working
  <1>2. req[r] = Idle \/ UnderWay(docs, req[r])
    BY DEF TypeOK
  <1>3. Idle.step = "idle"
    BY DEF Idle
  <1>4. UnderWay(docs, req[r]) => req[r].step # "idle" /\ req[r].doc \in Documents
    BY DEF UnderWay
  <1>5. req[r].doc \in Documents => About(r) \in Objects
    BY DocumentFields DEF About
  <1> QED
    BY <1>1, <1>2, <1>3, <1>4, <1>5

\* A request stays under way in a store with the versions it saves.
LEMMA UnderWayStays ==
  ASSUME NEW store, NEW t, NEW q, UnderWay(store, q),
         \A i \in DOMAIN store : i \in DOMAIN t /\ t[i].of = store[i].of
  PROVE  UnderWay(t, q)
  BY DEF UnderWay

LEMMA WhoOverlaps ==
  ASSUME TypeOK, NEW r \in Requests, NEW c \in {"first", "same", "other"}, r \in Working
  PROVE  LET q == [req[r] EXCEPT !.case = c] IN
         /\ UnderWay(docs, q)
         /\ q.step = req[r].step /\ q.doc = req[r].doc /\ q.at = req[r].at /\ q.case = c /\ q.events = req[r].events
  <1>1. UnderWay(docs, req[r])
    BY WorkingIs
  <1>2. req[r] = [step |-> req[r].step, doc |-> req[r].doc, at |-> req[r].at,
                  case |-> req[r].case, events |-> req[r].events]
    BY <1>1 DEF UnderWay
  <1> DEFINE q == [req[r] EXCEPT !.case = c]
  <1>3. q = [step |-> req[r].step, doc |-> req[r].doc, at |-> req[r].at,
             case |-> c, events |-> req[r].events]
    BY <1>2
  <1> HIDE DEF q
  <1>4. /\ q.step = req[r].step /\ q.doc = req[r].doc /\ q.at = req[r].at
        /\ q.case = c /\ q.events = req[r].events
    BY <1>3
  <1>5. UnderWay(docs, q)
    BY <1>1, <1>3, <1>4 DEF UnderWay
  <1> QED
    BY <1>4, <1>5 DEF q

LEMMA SharedIs ==
  ASSUME TypeOK, NEW r \in Requests, req[r] = Idle
  PROVE  /\ DOMAIN Shared(r) = Requests /\ Shared(r)[r] = Idle
         /\ \A q \in Requests \ {r} :
              /\ q \notin Working => Shared(r)[q] = Idle
              /\ q \in Working =>
                   /\ UnderWay(docs, Shared(r)[q])
                   /\ Shared(r)[q].step = req[q].step /\ Shared(r)[q].doc = req[q].doc
                   /\ Shared(r)[q].at = req[q].at /\ Shared(r)[q].case = "other"
  <1>1. DOMAIN Shared(r) = Requests /\ Shared(r)[r] = Idle
        /\ \A q \in Requests \ {r} : Shared(r)[q] = [req[q] EXCEPT !.case = "other"]
    BY DEF Shared
  <1>2. ASSUME NEW q \in Requests \ {r}, q \notin Working PROVE Shared(r)[q] = Idle
    BY <1>1, <1>2, WorkingIs DEF Idle
  <1>3. ASSUME NEW q \in Requests \ {r}, q \in Working
        PROVE  /\ UnderWay(docs, Shared(r)[q])
               /\ Shared(r)[q].step = req[q].step /\ Shared(r)[q].doc = req[q].doc
               /\ Shared(r)[q].at = req[q].at /\ Shared(r)[q].case = "other"
    <2>1. Shared(r)[q] = [req[q] EXCEPT !.case = "other"] /\ "other" \in {"first", "same", "other"}
      BY <1>1
    <2> DEFINE p == [req[q] EXCEPT !.case = "other"]
    <2>2. /\ UnderWay(docs, p)
          /\ p.step = req[q].step /\ p.doc = req[q].doc /\ p.at = req[q].at /\ p.case = "other"
      BY <1>3, <2>1, WhoOverlaps
    <2> QED
      BY <2>1, <2>2
  <1> QED
    BY <1>1, <1>2, <1>3

\* Of two requests, both are about objects that are astray.
LEMMA OthersAstray ==
  ASSUME Alone, NEW r \in Working, NEW q \in Working, q # r
  PROVE  About(q) \in astray /\ About(r) \in astray
  BY DEF Alone

-----------------------------------------------------------------------------
(***************************************************************************)
(* Steps after which every request is about an object that is astray.      *)
(***************************************************************************)
LEMMA AllAstray ==
  ASSUME IInv, UNCHANGED docs, astray \subseteq astray', astray' \subseteq Objects,
         \A q \in Working : req[q].doc.of \in astray',
         \A q \in Working' : req'[q].doc.of \in astray'
  PROVE  /\ Alone' /\ ReferencesStored' /\ Knit' /\ Saving' /\ Announcing' /\ Notifying' /\ UrlsLead'
  <1>1. Alone' /\ Saving' /\ Announcing' /\ Notifying'
    BY DEF Alone, Saving, Announcing, Notifying, About
  <1>2. \A o : (Stored(o) <=> Stored(o)') /\ Latest(o)' = Latest(o)
    BY DEF Stored, VersionsOf, Latest
  <1>3. ReferencesStored'
    BY <1>2 DEF IInv, ReferencesStored, About
  <1>4. Knit'
    <2>1. \A o \in Objects \ astray' : \A q \in Working : About(q) # o
      BY DEF About
    <2> QED
      BY <2>1 DEF IInv, Knit
  <1>5. UrlsLead'
    BY <1>2 DEF IInv, UrlsLead, About
  <1> QED
    BY <1>1, <1>3, <1>4, <1>5

-----------------------------------------------------------------------------
(***************************************************************************)
(* Requests begin.                                                         *)
(***************************************************************************)
LEMMA Starts ==
  ASSUME TypeOK, NEW r \in Requests, req[r] = Idle, NEW n, UnderWay(docs, n), UNCHANGED docs,
         req' = [Shared(r) EXCEPT ![r] = n]
  PROVE  /\ DOMAIN req' = Requests /\ req'[r] = n /\ r \notin Working
         /\ Working' = Working \cup {r}
         /\ \A q \in Requests : req'[q] = Idle \/ UnderWay(docs', req'[q])
         /\ \A q \in Working : /\ req'[q].step = req[q].step /\ req'[q].doc = req[q].doc
                               /\ req'[q].at = req[q].at /\ req'[q].case = "other"
  <1>1. DOMAIN req' = Requests /\ req'[r] = n /\ \A q \in Requests \ {r} : req'[q] = Shared(r)[q]
    BY SharedIs
  <1>2. n.step # "idle" /\ Idle.step = "idle"
    BY DEF UnderWay, Idle
  <1>3. \A q \in Requests \ {r} : /\ q \notin Working => req'[q] = Idle
                                  /\ q \in Working => req'[q].step # "idle" /\ UnderWay(docs, req'[q])
    BY <1>1, SharedIs DEF Working
  <1>4. Working' = Working \cup {r}
    BY <1>1, <1>2, <1>3 DEF Working
  <1>5. r \notin Working
    BY WorkingIs
  <1>6. \A q \in Requests : req'[q] = Idle \/ UnderWay(docs', req'[q])
    BY <1>1, <1>3
  <1>7. \A q \in Working : q \in Requests \ {r}
    BY <1>5 DEF Working
  <1>8. \A q \in Working : /\ req'[q].step = req[q].step /\ req'[q].doc = req[q].doc
                           /\ req'[q].at = req[q].at /\ req'[q].case = "other"
    BY <1>1, <1>7, SharedIs
  <1> QED
    BY <1>1, <1>4, <1>5, <1>6, <1>8

\* A request that is refused leaves the others as they are, but for their being alone.
LEMMA Refused ==
  ASSUME TypeOK, NEW r \in Requests, req[r] = Idle, UNCHANGED docs, req' = Shared(r)
  PROVE  /\ DOMAIN req' = Requests /\ r \notin Working
         /\ Working' = Working
         /\ \A q \in Requests : req'[q] = Idle \/ UnderWay(docs', req'[q])
         /\ \A q \in Working : /\ req'[q].step = req[q].step /\ req'[q].doc = req[q].doc
                               /\ req'[q].at = req[q].at /\ req'[q].case = "other"
  <1>1. DOMAIN req' = Requests /\ req'[r] = Idle /\ \A q \in Requests \ {r} : req'[q] = Shared(r)[q]
    BY SharedIs
  <1>2. Idle.step = "idle"
    BY DEF Idle
  <1>5. r \notin Working
    BY WorkingIs
  <1>3. \A q \in Requests \ {r} : /\ q \notin Working => req'[q] = Idle
                                  /\ q \in Working => req'[q].step # "idle" /\ UnderWay(docs, req'[q])
    BY <1>1, SharedIs DEF Working
  <1>4. Working' = Working
    BY <1>1, <1>2, <1>3, <1>5 DEF Working
  <1>6. \A q \in Requests : req'[q] = Idle \/ UnderWay(docs', req'[q])
    BY <1>1, <1>3
  <1>7. \A q \in Working : q \in Requests \ {r}
    BY <1>5 DEF Working
  <1>8. \A q \in Working : /\ req'[q].step = req[q].step /\ req'[q].doc = req[q].doc
                           /\ req'[q].at = req[q].at /\ req'[q].case = "other"
    BY <1>1, <1>7, SharedIs
  <1> QED
    BY <1>1, <1>4, <1>5, <1>6, <1>8

\* Fields change at most at one service, which the new request will clear, or which is soiled.
LEMMA FieldsStayOwned ==
  ASSUME FieldsOwned, NEW k, NEW r, Working \subseteq Working',
         \A q \in Working : req'[q].doc = req[q].doc /\ req'[q].at = req[q].at,
         \A l \in Keepers \ {k} : field'[l] = field[l] /\ (l \in soiled => l \in soiled'),
         k \in Keepers =>
           \/ field'[k] = field[k] /\ (k \in soiled => k \in soiled')
           \/ k \in soiled'
           \/ r \in Working' /\ Kind(req'[r].doc.of) = k /\ Reads(req'[r].doc.of, req'[r].at)
  PROVE  FieldsOwned'
  <1> SUFFICES ASSUME NEW l \in Keepers \ soiled', field'[l] # NoField
               PROVE  \E q \in Working' : Kind(About(q)') = l /\ Reads(About(q)', req'[q].at)
    BY DEF FieldsOwned
  <1>1. ASSUME field'[l] = field[l], l \in soiled => l \in soiled'
        PROVE  \E q \in Working' : Kind(About(q)') = l /\ Reads(About(q)', req'[q].at)
    <2>1. PICK q \in Working : Kind(About(q)) = l /\ Reads(About(q), req[q].at)
      BY <1>1 DEF FieldsOwned
    <2>2. About(q)' = About(q) /\ q \in Working' /\ req'[q].at = req[q].at
      BY DEF About
    <2> QED
      BY <2>1, <2>2
  <1>2. CASE l # k
    BY <1>1, <1>2
  <1>3. CASE l = k
    BY <1>1, <1>3 DEF About
  <1> QED
    BY <1>2, <1>3

-----------------------------------------------------------------------------
(***************************************************************************)
(* PUT.                                                                    *)
(***************************************************************************)
LEMMA BeforeUpdateTyped ==
  ASSUME NEW o \in Objects, NEW refs \in Seq(Objects), NEW sent \in Seq(Relations)
  PROVE  BeforeUpdate(o, refs, sent) \in Seq(Relations)
  <1>1. \A S : NotTo(S, sent) \in Seq(Relations)
    BY NotToInbound
  <1>2. \A S : NotTo(S, sent) \o Outbounds(refs) \in Seq(Relations)
    BY <1>1, OutboundsAdd
  <1> QED
    BY <1>2 DEF BeforeUpdate, StrategyBeforeUpdate, AnalyticBeforeUpdate, ComponentBeforeUpdate

LEMMA EmptyRelations == <<>> \in Seq(Relations) /\ Inbound(<<>>) = {} /\ Parent(<<>>) = None
  <1>1. <<>> \in Seq(Relations) /\ DOMAIN <<>> = {} /\ Range(<<>>) = {}
    BY DEF Range
  <1>2. FromStrategies(<<>>) = {}
    BY <1>1 DEF FromStrategies
  <1> QED
    BY <1>1, <1>2, ParentIs DEF Inbound

LEMMA SoilTyped ==
  ASSUME soiled \subseteq Keepers, NEW k, NEW b, Soil(k, b)
  PROVE  /\ soiled' \subseteq Keepers
         /\ \A l \in Keepers \ {k} : l \in soiled => l \in soiled'
         /\ soiled' \subseteq soiled
         /\ ~b \/ k = "component" => soiled' = soiled
  BY DEF Soil

LEMMA BeginPutKeeps ==
  ASSUME IInv, NEW r \in Requests, NEW i \in DOMAIN docs, NEW refs \in References(docs[i].of),
         NEW sent \in {<<>>, docs[i].rels}, BeginPut(r, i, refs, sent)
  PROVE  IInv'
  <1> DEFINE o == docs[i].of
             rels == BeforeUpdate(o, refs, sent)
             n == [step |-> "save",
                   doc |-> Document(o, Merge(docs[i].refs, refs), Merge(docs[i].rels, rels), UpdatedUrl(i, rels)),
                   at |-> i, case |-> "other", events |-> {}]
  <1>1. TypeOK /\ FieldsOwned
    BY DEF IInv
  <1>2. /\ req[r] = Idle
        /\ field' = IF Kind(o) \in Keepers
                    THEN [field EXCEPT ![Kind(o)] = Compared(o, docs[i].refs, refs)] ELSE field
        /\ Soil(Kind(o), TRUE)
        /\ req' = [Shared(r) EXCEPT ![r] = n]
        /\ astray' = astray \cup Overlap(o) \cup {o} /\ docs' = docs
    BY DEF BeginPut
  <1>3. /\ docs \in Seq(Documents) /\ docs[i] \in Documents /\ o \in Objects
        /\ docs[i].refs \in Seq(Objects) /\ docs[i].rels \in Seq(Relations) /\ docs[i].url \in Objects \cup {None}
        /\ Range(docs[i].refs) \subseteq Referable(Kind(o))
    <2>1. docs \in Seq(Documents) /\ docs[i] \in Documents
      BY <1>1 DEF TypeOK
    <2> QED
      BY <2>1, DocumentFields
  <1>4. i \in Nat /\ i # 0
    BY <1>3
  <1>5. refs \in Seq(Objects) /\ Range(refs) \subseteq Referable(Kind(o))
    BY <1>3, ReferencesTyped
  <1>6. sent \in Seq(Relations)
    BY <1>3, EmptyRelations
  <1>7. rels \in Seq(Relations)
    BY <1>3, <1>5, <1>6, BeforeUpdateTyped
  <1>8. UpdatedUrl(i, rels) \in Objects \cup {None}
    <2>1. Parent(rels) \in Strategies \cup {None} /\ Strategies \subseteq Objects
      BY <1>7, ParentIs, StrategiesApart
    <2> HIDE DEF rels
    <2> QED
      BY <1>3, <2>1 DEF UpdatedUrl
  <1> HIDE DEF rels
  <1>9. n.doc \in Documents /\ n.doc.of = o
    <2>1. /\ Merge(docs[i].refs, refs) \in Seq(Objects)
          /\ Range(Merge(docs[i].refs, refs)) \subseteq Referable(Kind(o))
      BY <1>3, <1>5, MergeTyped
    <2>2. Merge(docs[i].rels, rels) \in Seq(Relations)
      BY <1>3, <1>7, MergeTyped
    <2> QED
      BY <1>3, <1>8, <2>1, <2>2, DocumentFormed
  <1>10. UnderWay(docs, n)
    BY <1>4, <1>9 DEF UnderWay
  <1>11. n.step = "save" /\ n.at = i /\ n.case = "other"
    OBVIOUS
  <1> HIDE DEF n
  <1>12. /\ DOMAIN req' = Requests /\ req'[r] = n /\ r \notin Working
         /\ Working' = Working \cup {r}
         /\ \A q \in Requests : req'[q] = Idle \/ UnderWay(docs', req'[q])
         /\ \A q \in Working : /\ req'[q].step = req[q].step /\ req'[q].doc = req[q].doc
                               /\ req'[q].at = req[q].at /\ req'[q].case = "other"
    BY <1>1, <1>2, <1>10, Starts
  <1>13. astray \subseteq astray' /\ astray' \subseteq Objects /\ \A q \in Working : req[q].doc.of \in astray'
    <2>1. \A q \in Working : q \in Requests /\ About(q) \in Objects
      BY <1>1, WorkingIs DEF Working
    <2>2. InFlight \subseteq Objects
      BY <2>1 DEF InFlight, About
    <2>3. Working # {} => InFlight \subseteq astray'
      BY <1>2 DEF Overlap
    <2>4. \A q \in Working : req[q].doc.of \in InFlight
      BY DEF InFlight
    <2>5. astray' \subseteq Objects
      BY <1>1, <1>2, <1>3, <2>2 DEF Overlap, TypeOK
    <2> QED
      BY <1>2, <2>3, <2>4, <2>5
  <1>14. \A q \in Working' : req'[q].doc.of \in astray'
    BY <1>2, <1>9, <1>12, <1>13
  <1>15. /\ Alone' /\ ReferencesStored' /\ Knit' /\ Saving' /\ Announcing' /\ Notifying' /\ UrlsLead'
    BY <1>2, <1>13, <1>14, AllAstray
  <1>16. /\ field' \in [Keepers -> [added : SUBSET Objects, removed : SUBSET Objects]]
         /\ \A l \in Keepers : field'[l] \in FieldsOf(l)
         /\ \A l \in Keepers \ {Kind(o)} : field'[l] = field[l]
    <2>1. CASE Kind(o) \in Keepers
      <3>1. o \in Objects \ Sources
        BY <1>3, <2>1, KindsTell
      <3>2. Compared(o, docs[i].refs, refs) \in FieldsOf(Kind(o))
        BY <1>1, <1>3, <1>5, <3>1, ComparedTyped
      <3>3. field' = [field EXCEPT ![Kind(o)] = Compared(o, docs[i].refs, refs)]
        BY <1>2, <2>1
      <3> QED
        BY <1>1, <2>1, <3>2, <3>3, FieldSet
    <2>2. CASE Kind(o) \notin Keepers
      BY <1>1, <1>2, <2>2 DEF TypeOK
    <2> QED
      BY <2>1, <2>2
  <1>17. soiled' \subseteq Keepers /\ \A l \in Keepers \ {Kind(o)} : l \in soiled => l \in soiled'
    BY <1>1, <1>2, SoilTyped DEF TypeOK
  <1>18. TypeOK'
    BY <1>1, <1>2, <1>12, <1>13, <1>16, <1>17 DEF TypeOK
  <1>19. FieldsOwned'
    <2>1. Kind(o) \in Keepers => Reads(o, i)
      BY <1>3, <1>4, KindsTell, StrategiesApart DEF Reads
    <2>2. r \in Working' /\ req'[r].doc.of = o /\ req'[r].at = i
      BY <1>9, <1>11, <1>12
    <2> DEFINE k == Kind(o)
    <2>3. k \in Keepers =>
           r \in Working' /\ Kind(req'[r].doc.of) = k /\ Reads(req'[r].doc.of, req'[r].at)
      BY <2>1, <2>2
    <2>4. \A l \in Keepers \ {k} : field'[l] = field[l] /\ (l \in soiled => l \in soiled')
      BY <1>16, <1>17
    <2> HIDE DEF k
    <2> QED
      BY <1>1, <1>12, <2>3, <2>4, FieldsStayOwned
  <1>20. Reposting'
    <2>1. \A q \in Working' : req'[q].case = "other"
      BY <1>11, <1>12
    <2> QED
      BY <2>1 DEF Reposting
  <1> QED
    BY <1>15, <1>18, <1>19, <1>20 DEF IInv

-----------------------------------------------------------------------------
(***************************************************************************)
(* POST.                                                                   *)
(***************************************************************************)
LEMMA SentTyped ==
  ASSUME TypeOK, NEW o \in Objects,
         NEW sent \in {<<>>} \cup {Latest(p).rels : p \in {q \in {o} : Stored(q)}}
  PROVE  /\ sent \in Seq(Relations)
         /\ ~Stored(o) => sent = <<>>
         /\ Stored(o) => (sent = <<>> \/ sent = Latest(o).rels)
         /\ Stored(o) => Latest(o) \in Documents /\ Latest(o).of = o
         /\ Stored(o) => /\ Latest(o).rels \in Seq(Relations) /\ Latest(o).refs \in Seq(Objects)
                         /\ Range(Latest(o).refs) \subseteq Referable(Kind(o))
  <1>1. Stored(o) => Latest(o) \in Documents /\ Latest(o).of = o
    BY LatestVersions DEF TypeOK, Stored, VersionsOf, Latest
  <1>2. Stored(o) => /\ Latest(o).rels \in Seq(Relations) /\ Latest(o).refs \in Seq(Objects)
                     /\ Range(Latest(o).refs) \subseteq Referable(Kind(o))
    BY <1>1, DocumentFields
  <1>3. ~Stored(o) => sent = <<>>
    OBVIOUS
  <1>4. Stored(o) => (sent = <<>> \/ sent = Latest(o).rels)
    OBVIOUS
  <1> QED
    BY <1>1, <1>2, <1>3, <1>4, EmptyRelations

LEMMA BeforeCreateTyped ==
  ASSUME TypeOK, NEW o \in Objects, NEW refs \in Seq(Objects),
         NEW sent \in {<<>>} \cup {Latest(p).rels : p \in {q \in {o} : Stored(q)}}
  PROVE  /\ BeforeCreate(o, refs, sent) \in Seq(Relations)
         /\ ComposedUrl(o, sent) \in Objects \cup {None}
  <1>1. sent \in Seq(Relations) /\ (Stored(o) => Latest(o).rels \in Seq(Relations))
    BY SentTyped
  <1>2. Baseline(o, sent) \in Seq(Relations)
    BY <1>1 DEF Baseline
  <1>3. \A S : NotTo(S, Baseline(o, sent)) \in Seq(Relations)
    BY <1>2, NotToInbound
  <1>4. \A S : NotTo(S, Baseline(o, sent)) \o Outbounds(refs) \in Seq(Relations)
    BY <1>3, OutboundsAdd
  <1>5. sent \o Outbounds(refs) \in Seq(Relations)
    BY <1>1, OutboundsAdd
  <1>6. BeforeCreate(o, refs, sent) \in Seq(Relations)
    BY <1>1, <1>4, <1>5 DEF BeforeCreate, StrategyBeforeCreate, AnalyticBeforeCreate, ComponentBeforeCreate
  <1>7. ComposedUrl(o, sent) \in Objects \cup {None}
    <2>1. Parent(sent) \in Objects \cup {None} /\ (Stored(o) => Parent(Latest(o).rels) \in Objects \cup {None})
      BY <1>1, ParentIs, StrategiesApart
    <2> QED
      BY <2>1 DEF ComposedUrl
  <1> QED
    BY <1>6, <1>7

\* A new version has the back references of the one before, when it was sent them or keeps them.
LEMMA CreatedCarriesOver ==
  ASSUME TypeOK, NEW o \in Objects, NEW refs \in Seq(Objects),
         NEW sent \in {<<>>} \cup {Latest(p).rels : p \in {q \in {o} : Stored(q)}},
         ~(o \in Components \cup Sources /\ Stored(o) /\ sent = <<>>),
         NEW p \in Objects, o \in Referable(Kind(p))
  PROVE  p \in Inbound(BeforeCreate(o, refs, sent)) <=> Stored(o) /\ p \in Inbound(Latest(o).rels)
  <1>1. /\ sent \in Seq(Relations) /\ (Stored(o) => Latest(o).rels \in Seq(Relations))
        /\ ~Stored(o) => sent = <<>>
        /\ Stored(o) => (sent = <<>> \/ sent = Latest(o).rels)
    BY SentTyped
  <1>2. Inbound(<<>>) = {}
    BY EmptyRelations
  <1>3. CASE o \in Analytics
    <2>1. p \in Strategies
      BY <1>3, ReferablesOf, StrategiesApart
    <2> DEFINE b == Baseline(o, sent)
    <2>2. b = (IF Stored(o) THEN Latest(o).rels ELSE sent) /\ b \in Seq(Relations)
      BY <1>1, <1>3 DEF Baseline
    <2>3. BeforeCreate(o, refs, sent) = NotTo(Components, b) \o Outbounds(refs)
      BY <1>3, StrategiesApart DEF BeforeCreate, AnalyticBeforeCreate
    <2> HIDE DEF b
    <2>4. NotTo(Components, b) \in Seq(Relations) /\ Inbound(NotTo(Components, b)) = Inbound(b) \ Components
      BY <2>2, NotToInbound
    <2>5. Inbound(BeforeCreate(o, refs, sent)) = Inbound(b) \ Components
      BY <2>3, <2>4, OutboundsAdd
    <2> QED
      BY <1>1, <1>2, <2>1, <2>2, <2>5, StrategiesApart
  <1>4. CASE o \in Components
    <2>1. BeforeCreate(o, refs, sent) = sent \o Outbounds(refs)
      BY <1>4, StrategiesApart DEF BeforeCreate, ComponentBeforeCreate
    <2>2. Inbound(BeforeCreate(o, refs, sent)) = Inbound(sent)
      BY <1>1, <2>1, OutboundsAdd
    <2> QED
      BY <1>1, <1>2, <1>4, <2>2
  <1>5. CASE o \in Sources
    <2>1. BeforeCreate(o, refs, sent) = sent
      BY <1>5, StrategiesApart DEF BeforeCreate
    <2> QED
      BY <1>1, <1>2, <1>5, <2>1
  <1>6. o \notin Strategies
    BY ReferableApart
  <1> QED
    BY <1>3, <1>4, <1>5, <1>6, StrategiesApart

\* The URL a new version of an analytic is composed with leads to its parent.
LEMMA ComposedUrlLeads ==
  ASSUME TypeOK, NEW o \in Analytics, NEW refs \in Seq(Objects),
         NEW sent \in {<<>>} \cup {Latest(p).rels : p \in {q \in {o} : Stored(q)}}
  PROVE  ComposedUrl(o, sent) \in {None, Parent(BeforeCreate(o, refs, sent))}
  <1>0. o \in Objects
    BY StrategiesApart
  <1>1. /\ sent \in Seq(Relations) /\ (Stored(o) => Latest(o).rels \in Seq(Relations))
        /\ ~Stored(o) => sent = <<>>
        /\ Stored(o) => (sent = <<>> \/ sent = Latest(o).rels)
    BY <1>0, SentTyped
  <1>2. Parent(<<>>) = None
    BY EmptyRelations
  <1>3. BeforeCreate(o, refs, sent) = NotTo(Components, Baseline(o, sent)) \o Outbounds(refs)
    BY StrategiesApart DEF BeforeCreate, AnalyticBeforeCreate
  <1>4. CASE Stored(o)
    <2>1. Baseline(o, sent) = Latest(o).rels
      BY <1>4 DEF Baseline
    <2>2. Parent(BeforeCreate(o, refs, sent)) = Parent(Latest(o).rels)
      BY <1>1, <1>3, <1>4, <2>1, ParentStays
    <2>3. ComposedUrl(o, sent) = Parent(Latest(o).rels)
      BY <1>1, <1>2, <1>4 DEF ComposedUrl
    <2> QED
      BY <2>2, <2>3
  <1>5. CASE ~Stored(o)
    BY <1>1, <1>2, <1>5 DEF ComposedUrl
  <1> QED
    BY <1>4, <1>5

\* The fields, when nothing else is in them, are those of the comparison.
LEMMA ComparedIs ==
  ASSUME NEW o, NEW old, NEW new, field[Kind(o)] = NoField \/ o \notin Components
  PROVE  Compared(o, old, new) = Difference(old, new)
  BY DEF Compared, NoField, Difference

LEMMA SameDifference == ASSUME NEW s PROVE Difference(s, s) = NoField
  BY DEF Difference, NoField

\* A request that begins while others are under way brings all of them astray.
LEMMA OverlapTyped ==
  ASSUME TypeOK, NEW o \in Objects
  PROVE  /\ Overlap(o) \subseteq Objects
         /\ Working # {} => \A q \in Working : req[q].doc.of \in Overlap(o)
         /\ Working # {} => o \in Overlap(o)
         /\ Working = {} => Overlap(o) = {}
  <1>1. \A q \in Working : q \in Requests /\ About(q) \in Objects
    BY WorkingIs DEF Working
  <1> QED
    BY <1>1 DEF Overlap, InFlight, About

\* What BeginPost makes of the fields, whether or not it is refused.
LEMMA PostFields ==
  ASSUME TypeOK, NEW o \in Objects, NEW refs, Range(refs) \subseteq Referable(Kind(o)),
         field' = IF Compares(o)
                  THEN [field EXCEPT ![Kind(o)] = Compared(o, Latest(o).refs, refs)] ELSE field
  PROVE  /\ field' \in [Keepers -> [added : SUBSET Objects, removed : SUBSET Objects]]
         /\ \A l \in Keepers : field'[l] \in FieldsOf(l)
         /\ \A l \in Keepers \ {Kind(o)} : field'[l] = field[l]
         /\ Compares(o) => field'[Kind(o)] = Compared(o, Latest(o).refs, refs) /\ Kind(o) \in Keepers
         /\ ~Compares(o) => field' = field
  <1>1. CASE Compares(o)
    <2>1. o \in Objects \ Sources /\ Kind(o) \in Keepers /\ Stored(o)
      BY <1>1, KindsTell, StrategiesApart DEF Compares
    <2>2. Range(Latest(o).refs) \subseteq Referable(Kind(o))
      BY <2>1, SentTyped
    <2>3. Compared(o, Latest(o).refs, refs) \in FieldsOf(Kind(o))
      BY <2>1, <2>2, ComparedTyped
    <2>4. field' = [field EXCEPT ![Kind(o)] = Compared(o, Latest(o).refs, refs)]
      BY <1>1
    <2> QED
      BY <1>1, <2>1, <2>3, <2>4, FieldSet
  <1>2. CASE ~Compares(o)
    BY <1>2 DEF TypeOK
  <1> QED
    BY <1>1, <1>2

LEMMA PostRefused ==
  ASSUME IInv, NEW r \in Requests, NEW o \in Objects, NEW refs \in References(o), NEW sent,
         BeginPost(r, o, refs, sent), Missing(refs) # {}
  PROVE  IInv'
  <1>1. TypeOK /\ FieldsOwned
    BY DEF IInv
  <1>2. /\ req[r] = Idle
        /\ field' = IF Compares(o)
                    THEN [field EXCEPT ![Kind(o)] = Compared(o, Latest(o).refs, refs)] ELSE field
        /\ soiled' = IF Compares(o) THEN soiled \cup {Kind(o)} ELSE soiled
        /\ req' = Shared(r) /\ docs' = docs
        /\ astray' = astray \cup Overlap(o)
                       \cup (IF o \in Components \cup Sources /\ Stored(o) /\ sent = <<>> THEN {o} ELSE {})
    BY DEF BeginPost
  <1>3. refs \in Seq(Objects) /\ Range(refs) \subseteq Referable(Kind(o))
    BY ReferencesTyped
  <1>4. /\ DOMAIN req' = Requests /\ r \notin Working /\ Working' = Working
        /\ \A q \in Requests : req'[q] = Idle \/ UnderWay(docs', req'[q])
        /\ \A q \in Working : /\ req'[q].step = req[q].step /\ req'[q].doc = req[q].doc
                              /\ req'[q].at = req[q].at /\ req'[q].case = "other"
    BY <1>1, <1>2, Refused
  <1>5. /\ field' \in [Keepers -> [added : SUBSET Objects, removed : SUBSET Objects]]
        /\ \A l \in Keepers : field'[l] \in FieldsOf(l)
        /\ \A l \in Keepers \ {Kind(o)} : field'[l] = field[l]
        /\ Compares(o) => field'[Kind(o)] = Compared(o, Latest(o).refs, refs) /\ Kind(o) \in Keepers
        /\ ~Compares(o) => field' = field
    BY <1>1, <1>2, <1>3, PostFields
  <1>6. soiled' \subseteq Keepers
    BY <1>1, <1>2, <1>5 DEF TypeOK
  <1>7. /\ astray \subseteq astray' /\ astray' \subseteq Objects
        /\ \A q \in Working : req[q].doc.of \in astray'
    BY <1>1, <1>2, OverlapTyped DEF TypeOK
  <1>8. \A q \in Working' : req'[q].doc.of \in astray'
    BY <1>4, <1>7
  <1>9. /\ Alone' /\ ReferencesStored' /\ Knit' /\ Saving' /\ Announcing' /\ Notifying' /\ UrlsLead'
    BY <1>2, <1>7, <1>8, AllAstray
  <1>10. FieldsOwned'
    <2> DEFINE k == Kind(o)
    <2>1. \A l \in Keepers \ {k} : field'[l] = field[l] /\ (l \in soiled => l \in soiled')
      BY <1>2, <1>5
    <2>2. k \in Keepers =>
           \/ field'[k] = field[k] /\ (k \in soiled => k \in soiled')
           \/ k \in soiled'
      BY <1>2, <1>5
    <2> HIDE DEF k
    <2> QED
      BY <1>1, <1>4, <2>1, <2>2, FieldsStayOwned
  <1>11. Reposting'
    BY <1>4 DEF Reposting
  <1>12. TypeOK'
    BY <1>1, <1>2, <1>4, <1>5, <1>6, <1>7 DEF TypeOK
  <1> QED
    BY <1>9, <1>10, <1>11, <1>12 DEF IInv

LEMMA PostAccepted ==
  ASSUME IInv, NEW r \in Requests, NEW o \in Objects, NEW refs \in References(o), NEW sent,
         BeginPost(r, o, refs, sent), Missing(refs) = {}
  PROVE  IInv'
  <1> DEFINE S == {<<>>} \cup {Latest(p).rels : p \in {q \in {o} : Stored(q)}}
             c == CASE Working = {} /\ ~Stored(o)                           -> "first"
                    [] Working = {} /\ Stored(o) /\ Latest(o).refs = refs -> "same"
                    [] OTHER                                              -> "other"
             d == Document(o, refs, BeforeCreate(o, refs, sent), ComposedUrl(o, sent))
             n == [step |-> "save", doc |-> d, at |-> 0, case |-> c, events |-> {}]
  <1>1. TypeOK /\ FieldsOwned
    BY DEF IInv
  <1>2. /\ req[r] = Idle /\ sent \in S
        /\ field' = IF Compares(o)
                    THEN [field EXCEPT ![Kind(o)] = Compared(o, Latest(o).refs, refs)] ELSE field
        /\ Soil(Kind(o), Compares(o))
        /\ req' = [Shared(r) EXCEPT ![r] = n] /\ docs' = docs
        /\ astray' = astray \cup Overlap(o)
                       \cup (IF o \in Components \cup Sources /\ Stored(o) /\ sent = <<>> THEN {o} ELSE {})
    BY DEF BeginPost
  <1>3. refs \in Seq(Objects) /\ Range(refs) \subseteq Referable(Kind(o))
    BY ReferencesTyped
  <1>4. /\ d \in Documents /\ d.of = o /\ d.refs = refs
        /\ d.rels = BeforeCreate(o, refs, sent) /\ d.url = ComposedUrl(o, sent)
    BY <1>1, <1>2, <1>3, BeforeCreateTyped, DocumentFormed
  <1>5. /\ c \in {"first", "same", "other"}
        /\ c = "same" => Working = {} /\ Stored(o) /\ Latest(o).refs = refs
    OBVIOUS
  <1> HIDE DEF d, c
  <1>6. UnderWay(docs, n)
    BY <1>4, <1>5 DEF UnderWay
  <1>7. n.step = "save" /\ n.at = 0 /\ n.case = c /\ n.doc = d
    OBVIOUS
  <1> HIDE DEF n
  <1>8. /\ DOMAIN req' = Requests /\ req'[r] = n /\ r \notin Working
        /\ Working' = Working \cup {r}
        /\ \A q \in Requests : req'[q] = Idle \/ UnderWay(docs', req'[q])
        /\ \A q \in Working : /\ req'[q].step = req[q].step /\ req'[q].doc = req[q].doc
                              /\ req'[q].at = req[q].at /\ req'[q].case = "other"
    BY <1>1, <1>2, <1>6, Starts
  <1>9. /\ field' \in [Keepers -> [added : SUBSET Objects, removed : SUBSET Objects]]
        /\ \A l \in Keepers : field'[l] \in FieldsOf(l)
        /\ \A l \in Keepers \ {Kind(o)} : field'[l] = field[l]
        /\ Compares(o) => field'[Kind(o)] = Compared(o, Latest(o).refs, refs) /\ Kind(o) \in Keepers
        /\ ~Compares(o) => field' = field
    BY <1>1, <1>2, <1>3, PostFields
  <1>10. /\ soiled' \subseteq Keepers /\ \A l \in Keepers \ {Kind(o)} : l \in soiled => l \in soiled'
         /\ ~Compares(o) \/ Kind(o) = "component" => soiled' = soiled
    BY <1>1, <1>2, SoilTyped DEF TypeOK
  <1>11. /\ astray \subseteq astray' /\ astray' \subseteq Objects
         /\ Working # {} => o \in astray' /\ \A q \in Working : req[q].doc.of \in astray'
    BY <1>1, <1>2, OverlapTyped DEF TypeOK
  <1>12. TypeOK'
    BY <1>1, <1>2, <1>8, <1>9, <1>10, <1>11 DEF TypeOK
  <1>13. FieldsOwned'
    <2> DEFINE k == Kind(o)
    <2>1. \A l \in Keepers \ {k} : field'[l] = field[l] /\ (l \in soiled => l \in soiled')
      BY <1>9, <1>10
    <2>2. Compares(o) => Reads(o, 0)
      BY DEF Compares, Reads
    <2>3. r \in Working' /\ req'[r].doc.of = o /\ req'[r].at = 0
      BY <1>4, <1>7, <1>8
    <2>4. ~Compares(o) => field' = field /\ soiled' = soiled
      BY <1>9, <1>10
    <2>5. k \in Keepers =>
           \/ field'[k] = field[k] /\ (k \in soiled => k \in soiled')
           \/ r \in Working' /\ Kind(req'[r].doc.of) = k /\ Reads(req'[r].doc.of, req'[r].at)
      BY <2>2, <2>3, <2>4
    <2> HIDE DEF k
    <2> QED
      BY <1>1, <1>8, <2>1, <2>5, FieldsStayOwned
  <1>14. /\ Reposting' /\ Alone' /\ ReferencesStored' /\ Knit' /\ Saving' /\ Announcing' /\ Notifying' /\ UrlsLead'
    <2>1. CASE Working # {}
      <3>1. \A q \in Working' : req'[q].doc.of \in astray'
        BY <1>4, <1>7, <1>8, <1>11, <2>1
      <3>2. /\ Alone' /\ ReferencesStored' /\ Knit' /\ Saving' /\ Announcing' /\ Notifying' /\ UrlsLead'
        BY <1>2, <1>11, <2>1, <3>1, AllAstray
      <3>3. \A q \in Working' : req'[q].case # "same"
        BY <1>5, <1>7, <1>8, <2>1
      <3> QED
        BY <3>2, <3>3 DEF Reposting
    <2>2. CASE Working = {}
      <3>1. /\ Working' = {r} /\ req'[r].step = "save" /\ req'[r].at = 0 /\ req'[r].doc = d /\ About(r)' = o
            /\ req'[r].case = c
        BY <1>4, <1>7, <1>8, <2>2 DEF About
      <3>2. /\ \A p : (Stored(p) <=> Stored(p)') /\ Latest(p)' = Latest(p)
            /\ \A p, x : Agree(docs', p, x) <=> Agree(docs, p, x)
        BY <1>2 DEF Stored, VersionsOf, Latest
      <3>3. Kind(o) \in Keepers \ soiled => field[Kind(o)] = NoField
        BY <1>1, <2>2 DEF FieldsOwned
      <3>4. Alone' /\ Announcing' /\ Notifying'
        BY <3>1 DEF Alone, Announcing, Notifying
      <3>5. ReferencesStored'
        <4>1. \A x \in Range(d.refs) : Stored(x)
          BY <1>4 DEF Missing
        <4> QED
          BY <1>11, <3>1, <3>2, <4>1 DEF IInv, ReferencesStored
      <3>6. Knit'
        <4>1. \A p \in Objects \ astray : \A x \in Referable(Kind(p)) \ astray : Agree(docs, p, x)
          BY <2>2 DEF IInv, Knit
        <4> QED
          BY <1>11, <3>2, <4>1 DEF Knit
      <3>7. o \notin astray' => CarriesOver(r)'
        <4> SUFFICES ASSUME o \notin astray', NEW p \in Objects, o \in Referable(Kind(p))
                     PROVE  p \in Inbound(d.rels) <=> Stored(o)' /\ p \in Inbound(Latest(o)'.rels)
          BY <3>1 DEF CarriesOver
        <4>1. ~(o \in Components \cup Sources /\ Stored(o) /\ sent = <<>>)
          BY <1>2
        <4>2. p \in Inbound(BeforeCreate(o, refs, sent)) <=> Stored(o) /\ p \in Inbound(Latest(o).rels)
          BY <1>1, <1>2, <1>3, <4>1, CreatedCarriesOver
        <4> QED
          BY <1>4, <3>2, <4>2
      <3>8. Remembers(r)'
        <4> SUFFICES ASSUME o \in Strategies \cup Components, Kind(o) \notin soiled'
                     PROVE  field'[Kind(o)] = IF Stored(o) THEN Difference(Latest(o).refs, refs) ELSE NoField
          BY <1>4, <3>1, <3>2 DEF Remembers
        <4>1. Kind(o) \in Keepers
          BY KindsTell, StrategiesApart
        <4>2. CASE ~Stored(o)
          <5>1. ~Compares(o)
            BY <4>2 DEF Compares
          <5> QED
            BY <1>9, <1>10, <3>3, <4>1, <4>2, <5>1
        <4>3. CASE Stored(o)
          <5>1. Compares(o)
            BY <4>3 DEF Compares
          <5>2. o \in Components => Kind(o) = "component"
            BY Kinds
          <5>3. field[Kind(o)] = NoField \/ o \notin Components
            BY <1>10, <3>3, <4>1, <5>2
          <5> QED
            BY <1>9, <4>3, <5>1, <5>3, ComparedIs
        <4> QED
          BY <4>2, <4>3
      <3>9. Saving'
        BY <3>1, <3>7, <3>8 DEF Saving
      <3>10. UrlsLead'
        <4>1. o \in Analytics => d.url \in {None, Parent(d.rels)}
          BY <1>1, <1>2, <1>3, <1>4, ComposedUrlLeads
        <4> QED
          BY <1>11, <3>1, <3>2, <4>1 DEF IInv, UrlsLead
      <3>11. Reposting'
        <4> SUFFICES ASSUME c = "same"
                     PROVE  Stored(o) /\ Latest(o).refs = refs /\ (o \in Strategies => field'["strategy"] = NoField)
          BY <1>4, <3>1, <3>2 DEF Reposting
        <4>1. Stored(o) /\ Latest(o).refs = refs
          BY <1>5
        <4>2. ASSUME o \in Strategies PROVE field'["strategy"] = NoField
          <5>1. Compares(o) /\ Kind(o) = "strategy" /\ o \notin Components
            BY <4>1, <4>2, Kinds, StrategiesApart DEF Compares
          <5>2. field'[Kind(o)] = Difference(refs, refs)
            BY <1>9, <4>1, <5>1, ComparedIs
          <5> QED
            BY <5>1, <5>2, SameDifference
        <4> QED
          BY <4>1, <4>2
      <3> QED
        BY <3>4, <3>5, <3>6, <3>9, <3>10, <3>11
    <2> QED
      BY <2>1, <2>2
  <1> QED
    BY <1>12, <1>13, <1>14 DEF IInv

-----------------------------------------------------------------------------
(***************************************************************************)
(* A request ends.                                                         *)
(***************************************************************************)
LEMMA Ends ==
  ASSUME TypeOK, NEW r \in Working, req' = [req EXCEPT ![r] = Idle], UNCHANGED docs
  PROVE  /\ r \in Requests /\ DOMAIN req' = Requests /\ Working' = Working \ {r}
         /\ \A q \in Requests \ {r} : req'[q] = req[q]
         /\ \A q \in Requests : req'[q] = Idle \/ UnderWay(docs', req'[q])
  <1>1. r \in Requests /\ DOMAIN req' = Requests /\ req'[r] = Idle /\ \A q \in Requests \ {r} : req'[q] = req[q]
    BY DEF TypeOK, Working
  <1>2. Idle.step = "idle"
    BY DEF Idle
  <1>3. Working' = Working \ {r}
    BY <1>1, <1>2 DEF Working
  <1>4. \A q \in Requests : req'[q] = Idle \/ UnderWay(docs', req'[q])
    BY <1>1 DEF TypeOK
  <1> QED
    BY <1>1, <1>3, <1>4

\* The requests that remain are astray, and their parts of the invariant stand.
LEMMA EndKeeps ==
  ASSUME IInv, NEW r \in Working, req' = [req EXCEPT ![r] = Idle], UNCHANGED <<docs, astray>>
  PROVE  /\ Alone' /\ ReferencesStored' /\ Saving' /\ Announcing' /\ Notifying' /\ UrlsLead' /\ Reposting'
  <1>1. TypeOK /\ Alone
    BY DEF IInv
  <1>2. /\ r \in Requests /\ Working' = Working \ {r}
        /\ \A q \in Requests \ {r} : req'[q] = req[q]
    BY <1>1, Ends
  <1>3. \A q \in Working' : q \in Working /\ q # r /\ req'[q] = req[q] /\ req[q].doc.of \in astray
    <2> TAKE q \in Working'
    <2>1. q \in Working /\ q # r /\ q \in Requests \ {r}
      BY <1>2 DEF Working
    <2> QED
      BY <1>1, <1>2, <2>1, OthersAstray DEF About
  <1>4. \A o : (Stored(o) <=> Stored(o)') /\ Latest(o)' = Latest(o)
    BY DEF Stored, VersionsOf, Latest
  <1>5. Alone' /\ Saving' /\ Announcing' /\ Notifying'
    BY <1>3 DEF Alone, Saving, Announcing, Notifying, About
  <1>6. ReferencesStored' /\ UrlsLead'
    BY <1>3, <1>4 DEF IInv, ReferencesStored, UrlsLead, About
  <1>7. Reposting'
    <2>1. \A q \in Working' : req'[q].case # "same"
      BY <1>3 DEF IInv, Reposting
    <2> QED
      BY <2>1 DEF Reposting
  <1> QED
    BY <1>5, <1>6, <1>7

LEMMA AbandonKeeps ==
  ASSUME IInv, NEW r \in Requests, Abandon(r)
  PROVE  IInv'
  <1> DEFINE k == Kind(About(r))
  <1>1. TypeOK /\ FieldsOwned
    BY DEF IInv
  <1>2. /\ req[r].step = "save" /\ req' = [req EXCEPT ![r] = Idle]
        /\ soiled' = IF k \in Keepers /\ field[k] # NoField THEN soiled \cup {k} ELSE soiled
        /\ UNCHANGED <<docs, field, astray, mishaps>>
    BY DEF Abandon, About
  <1>3. r \in Working
    BY <1>2 DEF Working
  <1>4. /\ DOMAIN req' = Requests /\ Working' = Working \ {r}
        /\ \A q \in Requests \ {r} : req'[q] = req[q]
        /\ \A q \in Requests : req'[q] = Idle \/ UnderWay(docs', req'[q])
    BY <1>1, <1>2, <1>3, Ends
  <1>5. /\ Alone' /\ ReferencesStored' /\ Saving' /\ Announcing' /\ Notifying' /\ UrlsLead' /\ Reposting'
    BY <1>2, <1>3, EndKeeps
  <1>6. TypeOK'
    BY <1>1, <1>2, <1>4 DEF TypeOK
  <1> HIDE DEF k
  <1>7. FieldsOwned'
    <2> SUFFICES ASSUME NEW l \in Keepers \ soiled', field[l] # NoField
                 PROVE  \E q \in Working' : Kind(About(q)') = l /\ Reads(About(q)', req'[q].at)
      BY <1>2 DEF FieldsOwned
    <2>1. l \in Keepers \ soiled /\ l # k
      BY <1>2
    <2>2. PICK q \in Working : Kind(About(q)) = l /\ Reads(About(q), req[q].at)
      BY <1>1, <2>1 DEF FieldsOwned
    <2>3. q \in Working' /\ req'[q] = req[q]
      BY <1>4, <2>1, <2>2 DEF k, Working
    <2>4. About(q)' = About(q)
      BY <2>3 DEF About
    <2> QED
      BY <2>2, <2>3, <2>4
  <1>8. Knit'
    <2>1. ~Telling(r)
      BY <1>2 DEF Telling
    <2>2. \A q \in Working : q # r => q \in Working' /\ About(q)' = About(q) /\ (Telling(q)' <=> Telling(q))
      BY <1>4 DEF Telling, About, Working
    <2> SUFFICES ASSUME NEW o \in Objects \ astray, NEW x \in Referable(Kind(o)) \ astray,
                        \A q \in Working' : About(q)' = o => ~Telling(q)'
                 PROVE  Agree(docs, o, x)
      BY <1>2 DEF Knit
    <2>3. \A q \in Working : About(q) = o => ~Telling(q)
      BY <2>1, <2>2
    <2> QED
      BY <2>3 DEF IInv, Knit
  <1> QED
    BY <1>5, <1>6, <1>7, <1>8 DEF IInv

LEMMA FinishKeeps ==
  ASSUME IInv, NEW r \in Requests, Finish(r)
  PROVE  IInv'
  <1> DEFINE o == About(r)
             k == Kind(o)
  <1>1. TypeOK /\ FieldsOwned /\ Alone
    BY DEF IInv
  <1>2. /\ req[r].step = "notify" /\ req[r].events = {} /\ req' = [req EXCEPT ![r] = Idle]
        /\ field' = IF Reads(o, req[r].at) THEN [field EXCEPT ![k] = NoField] ELSE field
        /\ soiled' = IF Reads(o, req[r].at) THEN soiled \ {k} ELSE soiled
        /\ UNCHANGED <<docs, astray, mishaps>>
    BY DEF Finish, About
  <1>3. r \in Working
    BY <1>2 DEF Working
  <1>4. /\ DOMAIN req' = Requests /\ Working' = Working \ {r}
        /\ \A q \in Requests \ {r} : req'[q] = req[q]
        /\ \A q \in Requests : req'[q] = Idle \/ UnderWay(docs', req'[q])
    BY <1>1, <1>2, <1>3, Ends
  <1>5. /\ Alone' /\ ReferencesStored' /\ Saving' /\ Announcing' /\ Notifying' /\ UrlsLead' /\ Reposting'
    BY <1>2, <1>3, EndKeeps
  <1>6. o \in Objects /\ (Reads(o, req[r].at) => k \in Keepers)
    <2>1. o \in Objects
      BY <1>1, <1>3, WorkingIs
    <2> QED
      BY <2>1, KindsTell, StrategiesApart DEF Reads
  <1>7. /\ field' \in [Keepers -> [added : SUBSET Objects, removed : SUBSET Objects]]
        /\ \A l \in Keepers : field'[l] \in FieldsOf(l)
        /\ Reads(o, req[r].at) => field'[k] = NoField /\ \A l \in Keepers \ {k} : field'[l] = field[l]
    <2>1. CASE Reads(o, req[r].at)
      <3>1. field' = [field EXCEPT ![k] = NoField] /\ k \in Keepers /\ NoField \in FieldsOf(k)
        BY <1>2, <1>6, <2>1, NoFieldTyped
      <3> HIDE DEF k
      <3> QED
        BY <1>1, <3>1, FieldSet
    <2>2. CASE ~Reads(o, req[r].at)
      BY <1>1, <1>2, <2>2 DEF TypeOK
    <2> QED
      BY <2>1, <2>2
  <1>8. TypeOK'
    BY <1>1, <1>2, <1>4, <1>7 DEF TypeOK
  <1>9. FieldsOwned'
    <2> SUFFICES ASSUME NEW l \in Keepers \ soiled', field'[l] # NoField
                 PROVE  \E q \in Working' : Kind(About(q)') = l /\ Reads(About(q)', req'[q].at)
      BY DEF FieldsOwned
    <2>1. l \in Keepers \ soiled /\ field[l] = field'[l] /\ (Reads(o, req[r].at) => l # k)
      BY <1>2, <1>7
    <2>2. PICK q \in Working : Kind(About(q)) = l /\ Reads(About(q), req[q].at)
      BY <1>1, <2>1 DEF FieldsOwned
    <2>3. q # r
      BY <2>1, <2>2
    <2>4. q \in Working' /\ req'[q] = req[q]
      BY <1>4, <2>2, <2>3 DEF Working
    <2>5. About(q)' = About(q)
      BY <2>4 DEF About
    <2> QED
      BY <2>2, <2>4, <2>5
  <1>10. Knit'
    <2> SUFFICES ASSUME NEW p \in Objects \ astray, NEW x \in Referable(Kind(p)) \ astray,
                        \A q \in Working' : About(q)' = p => ~Telling(q)'
                 PROVE  Agree(docs, p, x)
      BY <1>2 DEF Knit
    <2>1. CASE p # o
      <3>1. \A q \in Working : q # r => q \in Working' /\ About(q)' = About(q) /\ (Telling(q)' <=> Telling(q))
        BY <1>4 DEF Telling, About, Working
      <3>2. \A q \in Working : About(q) = p => ~Telling(q)
        BY <2>1, <3>1
      <3> QED
        BY <3>2 DEF IInv, Knit
    <2>2. CASE p = o
      <3>1. /\ Stored(o) /\ Latest(o).refs = req[r].doc.refs
            /\ Stored(x) =>
                 /\ x \in Range(req[r].doc.refs) => o \in Inbound(Latest(x).rels)
                 /\ o \notin Analytics /\ o \in Inbound(Latest(x).rels) => x \in Range(req[r].doc.refs)
        BY <1>2, <1>3, <2>2 DEF IInv, Notifying
      <3>2. x \in Range(Latest(o).refs) => Stored(x)
        BY <2>2, <3>1 DEF IInv, ReferencesStored
      <3> QED
        BY <2>2, <3>1, <3>2 DEF Agree, Stored, VersionsOf, Latest
    <2> QED
      BY <2>1, <2>2
  <1> QED
    BY <1>5, <1>8, <1>9, <1>10 DEF IInv

-----------------------------------------------------------------------------
(***************************************************************************)
(* A request takes its next step.                                          *)
(***************************************************************************)
LEMMA PartsSet ==
  ASSUME NEW q, NEW st, NEW ev, NEW c, NEW n,
         q = [step |-> q.step, doc |-> q.doc, at |-> q.at, case |-> q.case, events |-> q.events],
         n = [q EXCEPT !.step = st, !.events = ev, !.case = c]
  PROVE  n = [step |-> st, doc |-> q.doc, at |-> q.at, case |-> c, events |-> ev]
  OBVIOUS

LEMMA TwoPartsSet ==
  ASSUME NEW q, NEW st, NEW ev, NEW n,
         q = [step |-> q.step, doc |-> q.doc, at |-> q.at, case |-> q.case, events |-> q.events],
         n = [q EXCEPT !.step = st, !.events = ev]
  PROVE  n = [step |-> st, doc |-> q.doc, at |-> q.at, case |-> q.case, events |-> ev]
  OBVIOUS

LEMMA Proceeds ==
  ASSUME TypeOK, NEW r \in Working, NEW st \in {"save", "announce", "notify"},
         NEW ev \in SUBSET EventsOf(Kind(About(r))), NEW c \in {"first", "same", "other"},
         req' = [req EXCEPT ![r] = [req[r] EXCEPT !.step = st, !.events = ev, !.case = c]],
         \A i \in DOMAIN docs : i \in DOMAIN docs' /\ docs'[i].of = docs[i].of
  PROVE  /\ r \in Requests /\ DOMAIN req' = Requests /\ Working' = Working
         /\ \A q \in Requests \ {r} : req'[q] = req[q]
         /\ req'[r].step = st /\ req'[r].doc = req[r].doc /\ req'[r].at = req[r].at
         /\ req'[r].case = c /\ req'[r].events = ev
         /\ \A q \in Working : About(q)' = About(q) /\ req'[q].doc = req[q].doc /\ req'[q].at = req[q].at
         /\ \A q \in Requests : req'[q] = Idle \/ UnderWay(docs', req'[q])
  <1> DEFINE n == [req[r] EXCEPT !.step = st, !.events = ev, !.case = c]
  <1>1. /\ UnderWay(docs, n) /\ n.step = st /\ n.doc = req[r].doc /\ n.at = req[r].at
        /\ n.case = c /\ n.events = ev
    <2>1. UnderWay(docs, req[r])
      BY WorkingIs DEF Working
    <2>2. req[r] = [step |-> req[r].step, doc |-> req[r].doc, at |-> req[r].at,
                    case |-> req[r].case, events |-> req[r].events]
      BY <2>1 DEF UnderWay
    <2>0. n = [req[r] EXCEPT !.step = st, !.events = ev, !.case = c]
      OBVIOUS
    <2> HIDE DEF n
    <2>3. n = [step |-> st, doc |-> req[r].doc, at |-> req[r].at, case |-> c, events |-> ev]
      BY <2>0, <2>2, PartsSet
    <2>4. n.step = st /\ n.doc = req[r].doc /\ n.at = req[r].at /\ n.case = c /\ n.events = ev
      BY <2>3
    <2>5. UnderWay(docs, n)
      BY <2>1, <2>3, <2>4 DEF UnderWay, About
    <2> QED
      BY <2>4, <2>5
  <1>2. r \in Requests /\ DOMAIN req' = Requests /\ req'[r] = n /\ \A q \in Requests \ {r} : req'[q] = req[q]
    BY DEF TypeOK, Working
  <1> HIDE DEF n
  <1>3. Working' = Working
    BY <1>1, <1>2 DEF Working
  <1>4. \A q \in Requests : req'[q] = Idle \/ UnderWay(docs', req'[q])
    <2>1. \A q \in Requests : req'[q] = Idle \/ UnderWay(docs, req'[q])
      BY <1>1, <1>2 DEF TypeOK
    <2> QED
      BY <2>1, UnderWayStays
  <1>5. \A q \in Working : About(q)' = About(q) /\ req'[q].doc = req[q].doc /\ req'[q].at = req[q].at
    BY <1>1, <1>2 DEF About, Working
  <1> QED
    BY <1>1, <1>2, <1>3, <1>4, <1>5

\* With no change of the fields, they belong to whom they did.
LEMMA OwnedStays ==
  ASSUME FieldsOwned, UNCHANGED <<field, soiled>>, Working' = Working,
         \A q \in Working : About(q)' = About(q) /\ req'[q].at = req[q].at
  PROVE  FieldsOwned'
  BY DEF FieldsOwned

LEMMA OverhearKeeps ==
  ASSUME IInv, NEW r \in Requests, NEW e \in req[r].events, Overhear(r, e)
  PROVE  IInv'
  <1> DEFINE ev == req[r].events \ {e}
  <1>1. TypeOK /\ FieldsOwned /\ Alone
    BY DEF IInv
  <1>2. /\ req[r].step = "notify"
        /\ req' = [req EXCEPT ![r].events = @ \ {e}, ![r].case = "other"]
        /\ astray' = astray \cup {req[r].doc.of}
        /\ UNCHANGED <<docs, field, soiled>>
    BY DEF Overhear, Due
  <1>3. r \in Working
    BY <1>2 DEF Working
  <1>4. UnderWay(docs, req[r]) /\ About(r) \in Objects
    BY <1>1, <1>3, WorkingIs
  <1>5. ev \in SUBSET EventsOf(Kind(About(r)))
    BY <1>4 DEF UnderWay, About
  <1>6. req' = [req EXCEPT ![r] = [req[r] EXCEPT !.step = "notify", !.events = ev, !.case = "other"]]
    BY <1>2, <1>4 DEF UnderWay
  <1> HIDE DEF ev
  <1>7. /\ DOMAIN req' = Requests /\ Working' = Working
        /\ \A q \in Requests \ {r} : req'[q] = req[q]
        /\ req'[r].case = "other"
        /\ \A q \in Working : About(q)' = About(q) /\ req'[q].doc = req[q].doc /\ req'[q].at = req[q].at
        /\ \A q \in Requests : req'[q] = Idle \/ UnderWay(docs', req'[q])
    BY <1>1, <1>2, <1>3, <1>5, <1>6, Proceeds
  <1>8. astray \subseteq astray' /\ astray' \subseteq Objects
    BY <1>1, <1>2, <1>4 DEF TypeOK, About
  <1>9. \A q \in Working : req[q].doc.of \in astray' /\ req'[q].doc.of \in astray'
    <2> TAKE q \in Working
    <2>1. CASE q = r
      BY <1>2, <1>7, <2>1
    <2>2. CASE q # r
      <3>1. About(q) \in astray
        BY <1>1, <1>3, <2>2, OthersAstray
      <3> QED
        BY <1>7, <1>8, <3>1 DEF About
    <2> QED
      BY <2>1, <2>2
  <1>10. /\ Alone' /\ ReferencesStored' /\ Knit' /\ Saving' /\ Announcing' /\ Notifying' /\ UrlsLead'
    BY <1>2, <1>7, <1>8, <1>9, AllAstray
  <1>11. FieldsOwned'
    BY <1>1, <1>2, <1>7, OwnedStays
  <1>12. TypeOK'
    BY <1>1, <1>2, <1>7, <1>8 DEF TypeOK
  <1>13. Reposting'
    <2>1. \A q \in Working' : req'[q].case # "same"
      <3> SUFFICES ASSUME NEW q \in Working, req'[q].case = "same" PROVE FALSE
        BY <1>7
      <3>1. q # r /\ req'[q] = req[q]
        BY <1>7 DEF Working
      <3> QED
        BY <1>3, <3>1 DEF IInv, Reposting
    <2> QED
      BY <2>1 DEF Reposting
  <1> QED
    BY <1>10, <1>11, <1>12, <1>13 DEF IInv

\* A document is saved: those of other objects stay.
LEMMA SavedDocs ==
  ASSUME TypeOK, NEW r \in Working,
         docs' = IF req[r].at = 0 THEN Append(docs, req[r].doc) ELSE [docs EXCEPT ![req[r].at] = req[r].doc]
  PROVE  /\ docs' \in Seq(Documents)
         /\ \A i \in DOMAIN docs : i \in DOMAIN docs' /\ docs'[i].of = docs[i].of
         /\ \A p : Stored(p) => Stored(p)'
         /\ \A p : p # About(r) => (Stored(p)' <=> Stored(p)) /\ (Stored(p) => Latest(p)' = Latest(p))
         /\ \A p : p = About(r) /\ req[r].at = 0 => Stored(p)' /\ Latest(p)' = req[r].doc
         /\ \A p, x : p # About(r) /\ x # About(r) => (Agree(docs', p, x) <=> Agree(docs, p, x))
  <1> DEFINE d == req[r].doc
             i == req[r].at
  <1>1. docs \in Seq(Documents) /\ d \in Documents /\ (i # 0 => i \in DOMAIN docs /\ docs[i].of = d.of)
    BY WorkingIs DEF TypeOK, Working, UnderWay
  <1> HIDE DEF d, i
  <1>2. /\ docs' \in Seq(Documents)
        /\ \A j \in DOMAIN docs : j \in DOMAIN docs' /\ docs'[j].of = docs[j].of
        /\ \A p : VersionsIn(docs, p) # {} => VersionsIn(docs', p) # {}
        /\ \A p : p # d.of => /\ VersionsIn(docs', p) # {} <=> VersionsIn(docs, p) # {}
                              /\ VersionsIn(docs, p) # {} => LatestIn(docs', p) = LatestIn(docs, p)
        /\ i = 0 => VersionsIn(docs', d.of) # {} /\ LatestIn(docs', d.of) = d
    <2>1. CASE i = 0
      <3>1. docs' = Append(docs, d)
        BY <2>1 DEF d, i
      <3>2. /\ Append(docs, d) \in Seq(Documents)
            /\ VersionsIn(Append(docs, d), d.of) # {} /\ LatestIn(Append(docs, d), d.of) = d
            /\ \A o : o # d.of => /\ VersionsIn(Append(docs, d), o) = VersionsIn(docs, o)
                                  /\ VersionsIn(docs, o) # {} => LatestIn(Append(docs, d), o) = LatestIn(docs, o)
        BY <1>1, Appended
      <3>3. \A j \in DOMAIN docs : j \in DOMAIN Append(docs, d) /\ Append(docs, d)[j] = docs[j]
        BY <1>1
      <3> QED
        BY <3>1, <3>2, <3>3
    <2>2. CASE i # 0
      <3> DEFINE t == [docs EXCEPT ![i] = d]
      <3>1. docs' = t
        BY <2>2 DEF d, i
      <3>2. /\ t \in Seq(Documents) /\ DOMAIN t = DOMAIN docs
            /\ \A o : VersionsIn(t, o) = VersionsIn(docs, o)
            /\ \A o : o # d.of /\ VersionsIn(docs, o) # {} => LatestIn(t, o) = LatestIn(docs, o)
        BY <1>1, <2>2, Replaced
      <3>3. \A j \in DOMAIN docs : t[j].of = docs[j].of
        BY <1>1, <2>2
      <3> HIDE DEF t
      <3> QED
        BY <2>2, <3>1, <3>2, <3>3
    <2> QED
      BY <2>1, <2>2
  <1>3. About(r) = d.of
    BY DEF About, d
  <1>4. \A p : /\ Stored(p) <=> VersionsIn(docs, p) # {}
               /\ Stored(p)' <=> VersionsIn(docs', p) # {}
               /\ Latest(p) = LatestIn(docs, p) /\ Latest(p)' = LatestIn(docs', p)
    BY DEF Stored, VersionsOf, Latest
  <1>5. \A p, x : p # d.of /\ x # d.of => (Agree(docs', p, x) <=> Agree(docs, p, x))
    BY <1>2 DEF Agree
  <1>6. \A p : Stored(p) => Stored(p)'
    BY <1>2, <1>4
  <1>7. \A p : p # d.of => (Stored(p)' <=> Stored(p)) /\ (Stored(p) => Latest(p)' = Latest(p))
    BY <1>2, <1>4
  <1>8. \A p : p = d.of /\ i = 0 => Stored(p)' /\ Latest(p)' = d
    BY <1>2, <1>4
  <1> QED
    BY <1>2, <1>3, <1>5, <1>6, <1>7, <1>8 DEF d, i

LEMMA SaveAloneKeeps ==
  ASSUME IInv, NEW r \in Requests, Save(r), NEW o, o = About(r), o \notin astray,
         Working' = Working, req'[r].step = "announce",
         \A q \in Working : About(q)' = About(q) /\ req'[q].doc = req[q].doc /\ req'[q].at = req[q].at
  PROVE  ReferencesStored' /\ Knit' /\ Announcing' /\ UrlsLead'
  <1> DEFINE d == req[r].doc
             kept == field[Kind(o)]
  <1>1. TypeOK /\ Alone
    BY DEF IInv
  <1>2. /\ req[r].step = "save"
        /\ docs' = IF req[r].at = 0 THEN Append(docs, req[r].doc) ELSE [docs EXCEPT ![req[r].at] = req[r].doc]
        /\ UNCHANGED <<field, soiled, astray>>
    BY DEF Save
  <1>3. r \in Working /\ ~Telling(r)
    BY <1>2 DEF Working, Telling
  <1>4. Working = {r} /\ req[r].at = 0 /\ o \in Objects /\ d \in Documents /\ d.of = o
    BY <1>1, <1>3, WorkingIs DEF Alone, About
  <1>5. /\ \A p : Stored(p) => Stored(p)'
        /\ \A p : p # o => (Stored(p)' <=> Stored(p)) /\ (Stored(p) => Latest(p)' = Latest(p))
        /\ Stored(o)' /\ Latest(o)' = d
        /\ \A p, x : p # o /\ x # o => (Agree(docs', p, x) <=> Agree(docs, p, x))
    BY <1>1, <1>2, <1>3, <1>4, SavedDocs
  <1>6. \A p \in Objects \ astray : \A x \in Referable(Kind(p)) \ astray : Agree(docs, p, x)
    <2>1. \A q \in Working : ~Telling(q)
      BY <1>3, <1>4
    <2> QED
      BY <2>1 DEF IInv, Knit
  <1>7. CarriesOver(r) /\ Remembers(r)
    BY <1>2, <1>3 DEF IInv, Saving
  <1>8. About(r)' = o /\ req'[r].doc = d /\ Working' = {r}
    BY <1>3, <1>4
  <1>9. \A x \in Range(d.refs) : Stored(x)
    BY <1>3 DEF IInv, ReferencesStored
  <1>10. \A p, x : Agree(docs, p, x) <=>
           /\ Stored(p) /\ x \in Range(Latest(p).refs) => Stored(x) /\ p \in Inbound(Latest(x).rels)
           /\ p \notin Analytics /\ Stored(x) /\ p \in Inbound(Latest(x).rels)
                => Stored(p) /\ x \in Range(Latest(p).refs)
    BY DEF Agree, Stored, VersionsOf, Latest
  <1>11. \A p, x : Agree(docs', p, x) <=>
           /\ Stored(p)' /\ x \in Range(Latest(p)'.refs) => Stored(x)' /\ p \in Inbound(Latest(x)'.rels)
           /\ p \notin Analytics /\ Stored(x)' /\ p \in Inbound(Latest(x)'.rels)
                => Stored(p)' /\ x \in Range(Latest(p)'.refs)
    BY DEF Agree, Stored, VersionsOf, Latest
  <1>12. ReferencesStored'
    <2>1. \A p \in Objects \ astray : Stored(p)' => \A x \in Range(Latest(p)'.refs) : Stored(x)'
      <3> SUFFICES ASSUME NEW p \in Objects \ astray, Stored(p)', NEW x \in Range(Latest(p)'.refs)
                   PROVE  Stored(x)
        BY <1>5
      <3>1. CASE p = o
        BY <1>5, <1>9, <3>1
      <3>2. CASE p # o
        BY <1>5, <3>2 DEF IInv, ReferencesStored
      <3> QED
        BY <3>1, <3>2
    <2>2. \A x \in Range(d.refs) : Stored(x)'
      BY <1>5, <1>9
    <2> QED
      BY <1>2, <1>8, <2>1, <2>2 DEF ReferencesStored
  <1>13. Knit'
    <2> SUFFICES ASSUME NEW p \in Objects \ astray, NEW x \in Referable(Kind(p)) \ astray, p # o
                 PROVE  Agree(docs', p, x)
      <3>1. Telling(r)'
        BY DEF Telling
      <3> QED
        BY <1>2, <1>8, <3>1 DEF Knit
    <2>1. CASE x # o
      BY <1>5, <1>6, <2>1
    <2>2. CASE x = o
      <3>1. p \in Inbound(d.rels) <=> Stored(o) /\ p \in Inbound(Latest(o).rels)
        BY <1>7, <2>2 DEF CarriesOver
      <3>2. Agree(docs, p, o)
        BY <1>6, <2>2
      <3>3. /\ Stored(p) /\ o \in Range(Latest(p).refs) => Stored(o) /\ p \in Inbound(Latest(o).rels)
            /\ p \notin Analytics /\ Stored(o) /\ p \in Inbound(Latest(o).rels)
                 => Stored(p) /\ o \in Range(Latest(p).refs)
        BY <1>10, <3>2
      <3>4. (Stored(p)' <=> Stored(p)) /\ (Stored(p) => Latest(p)' = Latest(p))
        BY <1>5
      <3>5. Stored(o)' /\ Latest(o)' = d
        BY <1>5
      <3> HIDE DEF d
      <3>6. /\ Stored(p)' /\ o \in Range(Latest(p)'.refs) => Stored(o)' /\ p \in Inbound(Latest(o)'.rels)
            /\ p \notin Analytics /\ Stored(o)' /\ p \in Inbound(Latest(o)'.rels)
                 => Stored(p)' /\ o \in Range(Latest(p)'.refs)
        BY <3>1, <3>3, <3>4, <3>5
      <3> QED
        BY <1>11, <2>2, <3>6
    <2> QED
      BY <2>1, <2>2
  <1>14. Announcing'
    <2>1. ASSUME o \in Strategies \cup Components, Kind(o) \notin soiled
          PROVE  Outstanding(r, kept)'
      <3>1. kept = IF Stored(o) THEN Difference(Latest(o).refs, d.refs) ELSE NoField
        BY <1>7, <2>1 DEF Remembers
      <3>2. kept.added \subseteq Range(d.refs) /\ kept.removed \cap Range(d.refs) = {}
        <4> HIDE DEF kept, d
        <4>1. CASE Stored(o)
          BY <3>1, <4>1 DEF Difference
        <4>2. CASE ~Stored(o)
          BY <3>1, <4>2 DEF NoField
        <4> QED
          BY <4>1, <4>2
      <3>3. o \notin Analytics
        BY <2>1, StrategiesApart
      <3> SUFFICES ASSUME NEW x \in Referable(Kind(o)) \ astray, Stored(x)'
                   PROVE  /\ x \in Range(d.refs) =>
                               kept = NoField \/ x \in kept.added \/ o \in Inbound(Latest(x)'.rels)
                          /\ o \in Inbound(Latest(x)'.rels) => x \in Range(d.refs) \/ x \in kept.removed
        BY <1>2, <1>8, <3>2 DEF Outstanding
      <3>4. x # o /\ x \in Objects
        BY <1>4, ReferableApart, Referables
      <3>5. Stored(x) /\ Latest(x)' = Latest(x)
        BY <1>5, <3>4
      <3>6. Agree(docs, o, x)
        BY <1>4, <1>6
      <3>7. /\ Stored(o) /\ x \in Range(Latest(o).refs) => o \in Inbound(Latest(x).rels)
            /\ o \in Inbound(Latest(x).rels) => Stored(o) /\ x \in Range(Latest(o).refs)
        BY <1>10, <3>3, <3>5, <3>6
      <3> HIDE DEF kept, d
      <3>8. CASE Stored(o)
        <4>1. kept.added = Range(d.refs) \ Range(Latest(o).refs) /\ kept.removed = Range(Latest(o).refs) \ Range(d.refs)
          BY <3>1, <3>8 DEF Difference
        <4> QED
          BY <3>5, <3>7, <3>8, <4>1
      <3>9. CASE ~Stored(o)
        BY <3>1, <3>5, <3>7, <3>9
      <3> QED
        BY <3>8, <3>9
    <2>2. Stored(o)' /\ Latest(o)'.refs = d.refs
      BY <1>5
    <2> QED
      BY <1>2, <1>8, <2>1, <2>2 DEF Announcing
  <1>15. UrlsLead'
    <2>1. o \in Analytics => d.url \in {None, Parent(d.rels)}
      BY <1>2, <1>3 DEF IInv, UrlsLead
    <2>2. \A a \in Analytics \ astray : Stored(a)' => Latest(a)'.url \in {None, Parent(Latest(a)'.rels)}
      <3> SUFFICES ASSUME NEW a \in Analytics \ astray, Stored(a)'
                   PROVE  Latest(a)'.url \in {None, Parent(Latest(a)'.rels)}
        OBVIOUS
      <3>1. CASE a = o
        BY <1>5, <2>1, <3>1
      <3>2. CASE a # o
        BY <1>5, <3>2 DEF IInv, UrlsLead
      <3> QED
        BY <3>1, <3>2
    <2> QED
      BY <1>2, <1>8, <2>2 DEF UrlsLead
  <1> QED
    BY <1>12, <1>13, <1>14, <1>15

\* A document that is astray is saved: no one who is not astray notices.
LEMMA SaveAstrayKeeps ==
  ASSUME IInv, NEW r \in Requests, Save(r), NEW o, o = About(r), o \in astray,
         Working' = Working, req'[r].step = "announce",
         \A q \in Working : About(q)' = About(q) /\ req'[q].doc = req[q].doc /\ req'[q].at = req[q].at
  PROVE  ReferencesStored' /\ Knit' /\ Announcing' /\ UrlsLead'
  <1>1. TypeOK /\ Alone
    BY DEF IInv
  <1>2. /\ req[r].step = "save"
        /\ docs' = IF req[r].at = 0 THEN Append(docs, req[r].doc) ELSE [docs EXCEPT ![req[r].at] = req[r].doc]
        /\ UNCHANGED <<field, soiled, astray>>
    BY DEF Save
  <1>3. r \in Working
    BY <1>2 DEF Working
  <1>4. \A q \in Working : About(q) \in astray
    BY <1>1, <1>3, OthersAstray
  <1>5. /\ \A p : Stored(p) => Stored(p)'
        /\ \A p : p # o => (Stored(p)' <=> Stored(p)) /\ (Stored(p) => Latest(p)' = Latest(p))
        /\ \A p, x : p # o /\ x # o => (Agree(docs', p, x) <=> Agree(docs, p, x))
    BY <1>1, <1>2, <1>3, SavedDocs
  <1>6. \A q \in Working' : About(q)' \in astray'
    BY <1>2, <1>4
  <1>7. ReferencesStored'
    <2>1. \A p \in Objects \ astray : Stored(p)' => \A x \in Range(Latest(p)'.refs) : Stored(x)'
      <3> SUFFICES ASSUME NEW p \in Objects \ astray, Stored(p)', NEW x \in Range(Latest(p)'.refs)
                   PROVE  Stored(x)
        BY <1>5
      <3> QED
        BY <1>5 DEF IInv, ReferencesStored
    <2> QED
      BY <1>2, <1>6, <2>1 DEF ReferencesStored
  <1>8. Knit'
    <2>1. \A p \in Objects \ astray : \A x \in Referable(Kind(p)) \ astray : Agree(docs, p, x)
      BY <1>4 DEF IInv, Knit
    <2>2. \A p \in Objects \ astray : \A x \in Referable(Kind(p)) \ astray : Agree(docs', p, x)
      BY <1>5, <2>1
    <2> QED
      BY <1>2, <2>2 DEF Knit
  <1>9. UrlsLead'
    <2>1. \A a \in Analytics \ astray : Stored(a)' => Latest(a)'.url \in {None, Parent(Latest(a)'.rels)}
      BY <1>5 DEF IInv, UrlsLead
    <2> QED
      BY <1>2, <1>6, <2>1 DEF UrlsLead
  <1>10. Announcing'
    BY <1>6 DEF Announcing
  <1> QED
    BY <1>7, <1>8, <1>9, <1>10

LEMMA SaveKeeps ==
  ASSUME IInv, NEW r \in Requests, Save(r)
  PROVE  IInv'
  <1>1. TypeOK /\ FieldsOwned /\ Alone
    BY DEF IInv
  <1>2. /\ req[r].step = "save"
        /\ docs' = IF req[r].at = 0 THEN Append(docs, req[r].doc) ELSE [docs EXCEPT ![req[r].at] = req[r].doc]
        /\ req' = [req EXCEPT ![r].step = "announce"]
        /\ UNCHANGED <<field, soiled, astray, mishaps>>
    BY DEF Save
  <1>3. r \in Working
    BY <1>2 DEF Working
  <1>4. UnderWay(docs, req[r])
    BY <1>1, <1>3, WorkingIs
  <1> DEFINE n == [req[r] EXCEPT !.step = "announce"]
             ev == req[r].events
             c == req[r].case
             m == [req[r] EXCEPT !.step = "announce", !.events = ev, !.case = c]
  <1>5. n = m
    <2>1. req[r] = [step |-> req[r].step, doc |-> req[r].doc, at |-> req[r].at,
                    case |-> req[r].case, events |-> req[r].events]
      BY <1>4 DEF UnderWay
    <2>2. n = [step |-> "announce", doc |-> req[r].doc, at |-> req[r].at, case |-> c, events |-> ev]
      BY <2>1
    <2>3. m = [step |-> "announce", doc |-> req[r].doc, at |-> req[r].at, case |-> c, events |-> ev]
      <3>1. m = [req[r] EXCEPT !.step = "announce", !.events = ev, !.case = c]
        OBVIOUS
      <3> HIDE DEF m
      <3> QED
        BY <2>1, <3>1, PartsSet
    <2> QED
      BY <2>2, <2>3
  <1>6. req' = [req EXCEPT ![r] = m]
    <2>1. req' = [req EXCEPT ![r] = n]
      BY <1>2
    <2> QED
      BY <1>5, <2>1
  <1>7. /\ ev \in SUBSET EventsOf(Kind(About(r))) /\ c \in {"first", "same", "other"}
        /\ "announce" \in {"save", "announce", "notify"}
    BY <1>4 DEF UnderWay, About
  <1> HIDE DEF ev, c, n
  <1>8. /\ docs' \in Seq(Documents)
        /\ \A i \in DOMAIN docs : i \in DOMAIN docs' /\ docs'[i].of = docs[i].of
    BY <1>1, <1>2, <1>3, SavedDocs
  <1>9. /\ DOMAIN req' = Requests /\ Working' = Working
        /\ \A q \in Requests \ {r} : req'[q] = req[q]
        /\ req'[r].step = "announce" /\ req'[r].doc = req[r].doc /\ req'[r].at = req[r].at /\ req'[r].case = c
        /\ \A q \in Working : About(q)' = About(q) /\ req'[q].doc = req[q].doc /\ req'[q].at = req[q].at
        /\ \A q \in Requests : req'[q] = Idle \/ UnderWay(docs', req'[q])
    BY <1>1, <1>3, <1>6, <1>7, <1>8, Proceeds
  <1> HIDE DEF m
  <1>10. TypeOK'
    BY <1>1, <1>2, <1>8, <1>9 DEF TypeOK
  <1>11. FieldsOwned'
    BY <1>1, <1>2, <1>9, OwnedStays
  <1>12. Alone'
    BY <1>1, <1>2, <1>9 DEF Alone
  <1>13. \A q \in Working' : About(q)' \notin astray' => q = r
    BY <1>2, <1>3, <1>9, <1>12 DEF Alone
  <1>14. Saving' /\ Notifying'
    BY <1>9, <1>13 DEF Saving, Notifying
  <1>15. ReferencesStored' /\ Knit' /\ Announcing' /\ UrlsLead'
    <2> DEFINE o == About(r)
    <2>1. CASE o \notin astray
      BY <1>9, <2>1, SaveAloneKeeps
    <2>2. CASE o \in astray
      BY <1>9, <2>2, SaveAstrayKeeps
    <2> QED
      BY <2>1, <2>2
  <1>16. Reposting'
    <2> SUFFICES ASSUME NEW q \in Working, req'[q].case = "same"
                 PROVE  /\ q = r /\ Working = {r} /\ req[r].at = 0
                        /\ About(r) \in Strategies => field["strategy"] = NoField
      BY <1>2, <1>9 DEF Reposting
    <2>1. req[q].case = "same"
      BY <1>9 DEF c, Working
    <2> QED
      BY <1>2, <1>3, <2>1 DEF IInv, Reposting
  <1> QED
    BY <1>10, <1>11, <1>12, <1>14, <1>15, <1>16 DEF IInv

-----------------------------------------------------------------------------
(***************************************************************************)
(* The hooks after the save announce what changed.                         *)
(***************************************************************************)
Announcement(r) ==
  IF req[r].at = 0 THEN AfterCreate(About(r), req[r].doc.refs) ELSE AfterUpdate(About(r))

LEMMA AnnouncedTyped ==
  ASSUME NEW k, NEW f \in FieldsOf(k), NEW refs, Range(refs) \subseteq Referable(k)
  PROVE  Announced(f) \subseteq EventsOf(k) /\ AllReferenced(refs) \subseteq EventsOf(k)
  BY DEF Announced, AllReferenced, Event, FieldsOf, EventsOf

LEMMA AnnouncementTyped ==
  ASSUME TypeOK, NEW r \in Working
  PROVE  Announcement(r) \subseteq EventsOf(Kind(About(r)))
  <1> DEFINE o == About(r)
             refs == req[r].doc.refs
  <1>1. o \in Objects /\ req[r].doc \in Documents /\ o = req[r].doc.of
    BY WorkingIs DEF Working, About
  <1>2. Range(refs) \subseteq Referable(Kind(o))
    BY <1>1, DocumentFields
  <1>3. \A k \in Keepers : field[k] \in FieldsOf(k)
    BY DEF TypeOK
  <1>4. AllReferenced(refs) \subseteq EventsOf(Kind(o))
    BY <1>2, NoFieldTyped, AnnouncedTyped
  <1>5. \A k \in Keepers : Announced(field[k]) \subseteq EventsOf(k)
    <2> TAKE k \in Keepers
    <2>1. Range(<<>>) \subseteq Referable(k)
      BY DEF Range
    <2> QED
      BY <1>3, <2>1, AnnouncedTyped
  <1> HIDE DEF o, refs
  <1>6. Announcement(r) = IF req[r].at = 0 THEN AfterCreate(o, refs) ELSE AfterUpdate(o)
    BY DEF Announcement, o, refs
  <1>7. "strategy" \in Keepers /\ "analytic" \in Keepers /\ "component" \in Keepers
    BY DEF Keepers
  <1>8. CASE o \in Strategies
    <2>1. Kind(o) = "strategy"
      BY <1>8, Kinds
    <2>2. AfterCreate(o, refs) = StrategyAfterCreate(refs) /\ AfterUpdate(o) = StrategyAfterUpdate
      BY <1>8, StrategiesApart DEF AfterCreate, AfterUpdate
    <2> QED
      BY <1>4, <1>5, <1>6, <1>7, <2>1, <2>2 DEF StrategyAfterCreate, StrategyAfterUpdate, o
  <1>9. CASE o \in Analytics
    <2>1. Kind(o) = "analytic"
      BY <1>9, Kinds
    <2>2. AfterCreate(o, refs) = AnalyticAfterCreate(refs) /\ AfterUpdate(o) = AnalyticAfterUpdate
      BY <1>9, StrategiesApart DEF AfterCreate, AfterUpdate
    <2> QED
      BY <1>4, <1>5, <1>6, <1>7, <2>1, <2>2 DEF AnalyticAfterCreate, AnalyticAfterUpdate, o
  <1>10. CASE o \in Components
    <2>1. Kind(o) = "component"
      BY <1>10, Kinds
    <2>2. AfterCreate(o, refs) = ComponentAfterCreate(refs) /\ AfterUpdate(o) = ComponentAfterUpdate
      BY <1>10, StrategiesApart DEF AfterCreate, AfterUpdate
    <2> QED
      BY <1>4, <1>5, <1>6, <1>7, <2>1, <2>2 DEF ComponentAfterCreate, ComponentAfterUpdate, o
  <1>11. CASE o \in Sources
    <2>1. AfterCreate(o, refs) = {} /\ AfterUpdate(o) = {}
      BY <1>11, StrategiesApart DEF AfterCreate, AfterUpdate
    <2> QED
      BY <1>6, <2>1
  <1> QED
    BY <1>1, <1>8, <1>9, <1>10, <1>11, StrategiesApart

\* What the events of a new version tell, by what is in the fields.
LEMMA AnnouncementTells ==
  ASSUME TypeOK, NEW r \in Working, req[r].at = 0,
         NEW o, o = About(r), NEW f, o \in Strategies \cup Components => f = field[Kind(o)]
  PROVE  /\ o \in Strategies \cup Components =>
              Announcement(r) = IF f # NoField THEN Announced(f) ELSE AllReferenced(req[r].doc.refs)
         /\ o \in Analytics => Announcement(r) = AllReferenced(req[r].doc.refs)
         /\ o \in Sources => Announcement(r) = {} /\ Range(req[r].doc.refs) = {}
  <1> DEFINE refs == req[r].doc.refs
  <1>1. o \in Objects /\ req[r].doc \in Documents /\ o = req[r].doc.of
    BY WorkingIs DEF Working, About
  <1>2. Range(refs) \subseteq Referable(Kind(o))
    BY <1>1, DocumentFields
  <1> HIDE DEF refs
  <1>3. Announcement(r) = AfterCreate(o, refs)
    BY DEF Announcement, refs
  <1>4. CASE o \in Strategies
    <2>1. Announcement(r) = StrategyAfterCreate(refs) /\ f = field["strategy"]
      BY <1>3, <1>4, Kinds, StrategiesApart DEF AfterCreate
    <2> QED
      BY <1>4, <2>1, StrategiesApart DEF StrategyAfterCreate, refs
  <1>5. CASE o \in Analytics
    BY <1>3, <1>5, StrategiesApart DEF AfterCreate, AnalyticAfterCreate, refs
  <1>6. CASE o \in Components
    <2>1. Announcement(r) = ComponentAfterCreate(refs) /\ f = field["component"]
      BY <1>3, <1>6, Kinds, StrategiesApart DEF AfterCreate
    <2> QED
      BY <1>6, <2>1, StrategiesApart DEF ComponentAfterCreate, refs
  <1>7. CASE o \in Sources
    <2>1. Referable(Kind(o)) = {}
      BY <1>7, ReferablesOf
    <2>2. AfterCreate(o, refs) = {}
      BY <1>7, StrategiesApart DEF AfterCreate
    <2> QED
      BY <1>2, <1>3, <1>7, <2>1, <2>2, StrategiesApart DEF refs
  <1> QED
    BY <1>1, <1>4, <1>5, <1>6, <1>7, StrategiesApart

LEMMA EventsAre ==
  /\ \A refs : \A e : e \in AllReferenced(refs) <=> \E x \in Range(refs) : e = Event("referenced", x)
  /\ \A f : \A e : e \in Announced(f) <=> \/ \E x \in f.added : e = Event("referenced", x)
                                          \/ \E x \in f.removed : e = Event("removed", x)
  /\ \A name, x : Event(name, x).name = name /\ Event(name, x).of = x
  BY DEF AllReferenced, Announced, Event

LEMMA AnnounceKeeps ==
  ASSUME IInv, NEW r \in Requests, Announce(r)
  PROVE  IInv'
  <1> DEFINE o == About(r)
             refs == req[r].doc.refs
             ev == Announcement(r)
             c == req[r].case
             m == [req[r] EXCEPT !.step = "notify", !.events = ev, !.case = c]
  <1>1. TypeOK /\ FieldsOwned /\ Alone
    BY DEF IInv
  <1>2. /\ req[r].step = "announce"
        /\ req' = [req EXCEPT ![r].step = "notify", ![r].events = ev]
        /\ astray' = IF Reads(o, req[r].at) /\ Kind(o) \in soiled THEN astray \cup {o} ELSE astray
        /\ UNCHANGED <<docs, field, soiled, mishaps>>
    BY DEF Announce, Announcement, About
  <1>3. r \in Working
    BY <1>2 DEF Working
  <1>4. UnderWay(docs, req[r]) /\ o \in Objects
    BY <1>1, <1>3, WorkingIs
  <1>5. ev \in SUBSET EventsOf(Kind(About(r)))
    BY <1>1, <1>3, AnnouncementTyped
  <1> HIDE DEF ev
  <1>6. req' = [req EXCEPT ![r] = m]
    <2> DEFINE n == [req[r] EXCEPT !.step = "notify", !.events = ev]
    <2>1. req[r] = [step |-> req[r].step, doc |-> req[r].doc, at |-> req[r].at,
                    case |-> req[r].case, events |-> req[r].events]
      BY <1>4 DEF UnderWay
    <2>2. n = [step |-> "notify", doc |-> req[r].doc, at |-> req[r].at, case |-> c, events |-> ev]
      <3>1. n = [req[r] EXCEPT !.step = "notify", !.events = ev]
        OBVIOUS
      <3> HIDE DEF n
      <3> QED
        BY <2>1, <3>1, TwoPartsSet
    <2>3. m = [step |-> "notify", doc |-> req[r].doc, at |-> req[r].at, case |-> c, events |-> ev]
      <3>1. m = [req[r] EXCEPT !.step = "notify", !.events = ev, !.case = c]
        OBVIOUS
      <3> HIDE DEF m
      <3> QED
        BY <2>1, <3>1, PartsSet
    <2>4. req' = [req EXCEPT ![r] = n]
      BY <1>2
    <2> QED
      BY <2>2, <2>3, <2>4
  <1>7. c \in {"first", "same", "other"} /\ "notify" \in {"save", "announce", "notify"}
    BY <1>4 DEF UnderWay
  <1> HIDE DEF c
  <1>8. /\ DOMAIN req' = Requests /\ Working' = Working
        /\ \A q \in Requests \ {r} : req'[q] = req[q]
        /\ req'[r].step = "notify" /\ req'[r].doc = req[r].doc /\ req'[r].at = req[r].at /\ req'[r].case = c
        /\ req'[r].events = ev
        /\ \A q \in Working : About(q)' = About(q) /\ req'[q].doc = req[q].doc /\ req'[q].at = req[q].at
        /\ \A q \in Requests : req'[q] = Idle \/ UnderWay(docs', req'[q])
    <2>1. \A i \in DOMAIN docs : i \in DOMAIN docs' /\ docs'[i].of = docs[i].of
      BY <1>2
    <2>2. DOMAIN req = Requests
      BY <1>1 DEF TypeOK
    <2> QED
      <3>1. /\ DOMAIN req' = Requests /\ Working' = Working
            /\ \A q \in Requests \ {r} : req'[q] = req[q]
            /\ req'[r].step = "notify" /\ req'[r].doc = req[r].doc /\ req'[r].at = req[r].at /\ req'[r].case = c
            /\ \A q \in Working : About(q)' = About(q) /\ req'[q].doc = req[q].doc /\ req'[q].at = req[q].at
            /\ \A q \in Requests : req'[q] = Idle \/ UnderWay(docs', req'[q])
        BY <1>1, <1>3, <1>5, <1>6, <1>7, <2>1, Proceeds
      <3>2. req'[r].events = ev
        <4>1. req'[r] = m
          BY <1>6, <2>2
        <4>2. req[r] = [step |-> req[r].step, doc |-> req[r].doc, at |-> req[r].at,
                        case |-> req[r].case, events |-> req[r].events]
          BY <1>4 DEF UnderWay
        <4>3. m = [req[r] EXCEPT !.step = "notify", !.events = ev, !.case = c]
          OBVIOUS
        <4> HIDE DEF m
        <4>4. m = [step |-> "notify", doc |-> req[r].doc, at |-> req[r].at, case |-> c, events |-> ev]
          BY <4>2, <4>3, PartsSet
        <4> QED
          BY <4>1, <4>4
      <3> QED
        BY <3>1, <3>2
  <1> HIDE DEF m
  <1>9. astray \subseteq astray' /\ astray' \subseteq Objects
    BY <1>1, <1>2, <1>4 DEF TypeOK
  <1>10. TypeOK'
    BY <1>1, <1>2, <1>8, <1>9 DEF TypeOK
  <1>11. FieldsOwned'
    BY <1>1, <1>2, <1>8, OwnedStays
  <1>12. Alone'
    BY <1>1, <1>8, <1>9 DEF Alone
  <1>13. \A q \in Working' : About(q)' \notin astray' => q = r
    BY <1>3, <1>8, <1>12 DEF Alone
  <1>14. \A p : (Stored(p) <=> Stored(p)') /\ Latest(p)' = Latest(p)
    BY <1>2 DEF Stored, VersionsOf, Latest
  <1>15. Saving' /\ Announcing'
    BY <1>8, <1>13 DEF Saving, Announcing
  <1>16. ReferencesStored'
    BY <1>8, <1>9, <1>14 DEF IInv, ReferencesStored
  <1>17. Knit'
    <2> SUFFICES ASSUME NEW p \in Objects \ astray', NEW x \in Referable(Kind(p)) \ astray',
                        \A q \in Working : About(q)' = p => ~Telling(q)'
                 PROVE  Agree(docs, p, x)
      BY <1>2, <1>8 DEF Knit
    <2>1. \A q \in Working : Telling(q) => Telling(q)'
      BY <1>8 DEF Telling, Working
    <2>2. \A q \in Working : About(q) = p => ~Telling(q)
      BY <1>8, <2>1
    <2> QED
      BY <1>9, <2>2 DEF IInv, Knit
  <1>18. UrlsLead'
    <2>1. \A q \in Working : req'[q].step = "save" => req[q].step = "save"
      BY <1>8 DEF Working
    <2> QED
      BY <1>8, <1>9, <1>14, <2>1 DEF IInv, UrlsLead
  <1>19. Notifying'
    <2> SUFFICES ASSUME o \notin astray'
                 PROVE  /\ Stored(o) /\ Latest(o).refs = refs
                        /\ \A e \in ev : e.name = "referenced" <=> e.of \in Range(refs)
                        /\ \A x \in Referable(Kind(o)) \ astray : Stored(x) =>
                             /\ x \in Range(refs) => Event("referenced", x) \in ev \/ o \in Inbound(Latest(x).rels)
                             /\ o \notin Analytics /\ o \in Inbound(Latest(x).rels) =>
                                  x \in Range(refs) \/ Event("removed", x) \in ev
      <3>1. \A q \in Working' : About(q)' \notin astray' => q = r /\ About(q)' = o /\ req'[q].doc.refs = refs /\ req'[q].events = ev
        BY <1>8, <1>13
      <3>2. \A p : Stored(p)' = Stored(p) /\ Latest(p)' = Latest(p)
        BY <1>14
      <3> HIDE DEF o, refs
      <3> QED
        BY <1>9, <3>1, <3>2 DEF Notifying
    <2>1. o \notin astray /\ ~(Reads(o, req[r].at) /\ Kind(o) \in soiled)
      BY <1>2
    <2>2. req[r].at = 0
      BY <1>1, <1>3, <2>1 DEF Alone
    <2>3. /\ Stored(o) /\ Latest(o).refs = refs
          /\ o \in Strategies \cup Components => Kind(o) \in soiled \/ Outstanding(r, field[Kind(o)])
      BY <1>2, <1>3, <2>1 DEF IInv, Announcing
    <2>4. o \in Strategies \cup Components => Outstanding(r, field[Kind(o)])
      BY <2>1, <2>3 DEF Reads
    <2> DEFINE f == field[Kind(o)]
    <2>5. /\ o \in Strategies \cup Components => ev = IF f # NoField THEN Announced(f) ELSE AllReferenced(refs)
          /\ o \in Analytics => ev = AllReferenced(refs)
          /\ o \in Sources => ev = {} /\ Range(refs) = {}
      BY <1>1, <1>3, <2>2, AnnouncementTells DEF ev
    <2>6. CASE o \in Strategies \cup Components
      <3>1. /\ f.added \subseteq Range(refs) /\ f.removed \cap Range(refs) = {}
            /\ \A x \in Referable(Kind(o)) \ astray : Stored(x) =>
                 /\ x \in Range(refs) => f = NoField \/ x \in f.added \/ o \in Inbound(Latest(x).rels)
                 /\ o \in Inbound(Latest(x).rels) => x \in Range(refs) \/ x \in f.removed
        BY <2>4, <2>6 DEF Outstanding
      <3> HIDE DEF f, o, refs
      <3>2. CASE f # NoField
        <4>1. ev = Announced(f)
          BY <2>5, <2>6, <3>2
        <4>2. \A e : e \in ev <=> \/ \E x \in f.added : e = Event("referenced", x)
                                  \/ \E x \in f.removed : e = Event("removed", x)
          BY <4>1, EventsAre
        <4>3. \A x : /\ x \in f.added => Event("referenced", x) \in ev
                     /\ x \in f.removed => Event("removed", x) \in ev
          BY <4>2
        <4>4. \A e \in ev : e.name = "referenced" <=> e.of \in Range(refs)
          BY <3>1, <4>2, EventsAre
        <4> QED
          BY <2>3, <3>1, <3>2, <4>3, <4>4
      <3>3. CASE f = NoField
        <4>1. ev = AllReferenced(refs)
          BY <2>5, <2>6, <3>3
        <4>2. \A e : e \in ev <=> \E x \in Range(refs) : e = Event("referenced", x)
          BY <4>1, EventsAre
        <4>3. \A e \in ev : e.name = "referenced" <=> e.of \in Range(refs)
          BY <4>2, EventsAre
        <4>4. f.removed = {}
          BY <3>3 DEF NoField
        <4> QED
          BY <2>3, <3>1, <4>2, <4>3, <4>4
      <3> QED
        BY <3>2, <3>3
    <2>7. CASE o \in Analytics
      <3> HIDE DEF o, refs
      <3>1. \A e : e \in ev <=> \E x \in Range(refs) : e = Event("referenced", x)
        BY <2>5, <2>7, EventsAre
      <3>2. \A e \in ev : e.name = "referenced" <=> e.of \in Range(refs)
        BY <3>1, EventsAre
      <3> QED
        BY <2>3, <2>7, <3>1, <3>2
    <2>8. CASE o \in Sources
      <3>1. ev = {} /\ Referable(Kind(o)) = {}
        BY <2>5, <2>8, ReferablesOf
      <3> QED
        BY <2>3, <3>1
    <2> QED
      BY <1>4, <2>6, <2>7, <2>8, StrategiesApart
  <1>20. Reposting'
    <2> SUFFICES ASSUME NEW q \in Working, req'[q].case = "same"
                 PROVE  /\ q = r /\ Working = {r} /\ req[r].at = 0
                        /\ o \notin Components =>
                             /\ \A e \in ev : e.name = "referenced"
                             /\ \A x \in Range(refs) : Event("referenced", x) \in ev
      <3>1. req'[r].step # "save" /\ req'[r].step # "announce"
        BY <1>8
      <3> HIDE DEF ev
      <3> QED
        BY <1>8, <3>1 DEF Reposting
    <2>1. req[q].case = "same"
      BY <1>8 DEF c, Working
    <2>2. /\ q = r /\ Working = {r} /\ req[r].at = 0
          /\ o \in Strategies => field["strategy"] = NoField
      BY <1>2, <1>3, <2>1 DEF IInv, Reposting
    <2>3. /\ o \in Strategies => ev = AllReferenced(refs)
          /\ o \in Analytics => ev = AllReferenced(refs)
          /\ o \in Sources => ev = {} /\ Range(refs) = {}
      <3> DEFINE f == field[Kind(o)]
      <3>1. /\ o \in Strategies \cup Components => ev = IF f # NoField THEN Announced(f) ELSE AllReferenced(refs)
            /\ o \in Analytics => ev = AllReferenced(refs)
            /\ o \in Sources => ev = {} /\ Range(refs) = {}
        BY <1>1, <1>3, <2>2, AnnouncementTells DEF ev
      <3> QED
        BY <2>2, <3>1, Kinds
    <2>4. /\ \A e \in AllReferenced(refs) : e.name = "referenced"
          /\ \A x \in Range(refs) : Event("referenced", x) \in AllReferenced(refs)
      BY EventsAre
    <2> QED
      BY <1>4, <2>2, <2>3, <2>4, StrategiesApart
  <1> QED
    BY <1>10, <1>11, <1>12, <1>15, <1>16, <1>17, <1>18, <1>19, <1>20 DEF IInv

-----------------------------------------------------------------------------
(***************************************************************************)
(* The listeners.                                                          *)
(***************************************************************************)
LEMMA RelsSet ==
  ASSUME NEW d \in Documents, NEW rels \in Seq(Relations), NEW url \in Objects \cup {None}, NEW h,
         h = [of |-> d.of, refs |-> d.refs, rels |-> rels, url |-> url]
  PROVE  h \in Documents /\ h.of = d.of /\ h.refs = d.refs /\ h.rels = rels /\ h.url = url
  <1>1. d.of \in Objects /\ d.refs \in Seq(Objects) /\ Range(d.refs) \subseteq Referable(Kind(d.of))
    BY DocumentFields
  <1>2. h.of = d.of /\ h.refs = d.refs /\ h.rels = rels /\ h.url = url
    OBVIOUS
  <1> QED
    BY <1>1, <1>2 DEF Documents

LEMMA DocumentExcept ==
  ASSUME NEW d \in Documents, NEW rels, NEW url
  PROVE  /\ [d EXCEPT !.rels = rels] = [of |-> d.of, refs |-> d.refs, rels |-> rels, url |-> d.url]
         /\ [d EXCEPT !.rels = rels, !.url = url] = [of |-> d.of, refs |-> d.refs, rels |-> rels, url |-> url]
  <1>1. d = [of |-> d.of, refs |-> d.refs, rels |-> d.rels, url |-> d.url]
    BY DocumentFields
  <1>2. ASSUME NEW h, h = [d EXCEPT !.rels = rels]
        PROVE  h = [of |-> d.of, refs |-> d.refs, rels |-> rels, url |-> d.url]
    BY <1>1, <1>2
  <1>3. ASSUME NEW h, h = [d EXCEPT !.rels = rels, !.url = url]
        PROVE  h = [of |-> d.of, refs |-> d.refs, rels |-> rels, url |-> url]
    BY <1>1, <1>3
  <1> QED
    BY <1>2, <1>3

LEMMA HeardIs ==
  ASSUME NEW d \in Documents, NEW o \in Objects, NEW name \in {"referenced", "removed"},
         d.of \notin Strategies
  PROVE  LET h == Heard(d, name, o) IN
         /\ h \in Documents /\ h.of = d.of /\ h.refs = d.refs
         /\ name = "referenced" => Inbound(h.rels) = Inbound(d.rels) \cup {o}
         /\ name = "removed" => Inbound(h.rels) = Inbound(d.rels) \ {o}
         /\ d.of \in Analytics => h.url \in {None, Parent(h.rels)}
  <1> DEFINE h == Heard(d, name, o)
             w == WithInbound(d.rels, o)
             wo == WithoutInbound(d.rels, o)
  <1>1. d.of \in Objects /\ d.rels \in Seq(Relations) /\ d.url \in Objects \cup {None}
    BY DocumentFields
  <1>2. /\ w \in Seq(Relations) /\ Inbound(w) = Inbound(d.rels) \cup {o}
        /\ wo \in Seq(Relations) /\ Inbound(wo) = Inbound(d.rels) \ {o}
    BY <1>1, WithInboundIs, WithoutInboundIs
  <1>3. Parent(w) \in Objects \cup {None}
    BY <1>2, ParentIs, StrategiesApart
  <1>4. CASE d.of \in Analytics /\ name = "referenced"
    <2>1. h = HandleAnalyticsReferenced(d, o)
      BY <1>4, StrategiesApart DEF Heard
    <2>2. h = [d EXCEPT !.rels = w, !.url = Parent(w)]
      BY <2>1 DEF HandleAnalyticsReferenced
    <2> HIDE DEF h, w, wo
    <2>3. h = [of |-> d.of, refs |-> d.refs, rels |-> w, url |-> Parent(w)]
      BY <2>2, DocumentExcept
    <2>4. h \in Documents /\ h.of = d.of /\ h.refs = d.refs /\ h.rels = w /\ h.url = Parent(w)
      BY <1>2, <1>3, <2>3, RelsSet
    <2> QED
      BY <1>2, <1>4, <2>4 DEF h
  <1>5. CASE d.of \in Analytics /\ name = "removed"
    <2>1. h = HandleAnalyticsRemoved(d, o)
      BY <1>5, StrategiesApart DEF Heard
    <2>2. h = [d EXCEPT !.rels = wo, !.url = None]
      BY <2>1 DEF HandleAnalyticsRemoved
    <2> HIDE DEF h, w, wo
    <2>3. h = [of |-> d.of, refs |-> d.refs, rels |-> wo, url |-> None]
      BY <2>2, DocumentExcept
    <2>4. h \in Documents /\ h.of = d.of /\ h.refs = d.refs /\ h.rels = wo /\ h.url = None
      BY <1>2, <2>3, RelsSet
    <2> QED
      BY <1>2, <1>5, <2>4 DEF h
  <1>6. CASE d.of \notin Analytics /\ name = "referenced"
    <2>1. h = [d EXCEPT !.rels = w]
      BY <1>1, <1>6, StrategiesApart DEF Heard, HandleDataComponentsReferenced, HandleDataSourceReferenced
    <2> HIDE DEF h, w, wo
    <2>2. h = [of |-> d.of, refs |-> d.refs, rels |-> w, url |-> d.url]
      BY <2>1, DocumentExcept
    <2>3. h \in Documents /\ h.of = d.of /\ h.refs = d.refs /\ h.rels = w
      BY <1>1, <1>2, <2>2, RelsSet
    <2> QED
      BY <1>2, <1>6, <2>3 DEF h
  <1>7. CASE d.of \notin Analytics /\ name = "removed"
    <2>1. h = [d EXCEPT !.rels = wo]
      BY <1>1, <1>7, StrategiesApart DEF Heard, HandleDataComponentsRemoved, HandleDataSourceRemoved
    <2> HIDE DEF h, w, wo
    <2>2. h = [of |-> d.of, refs |-> d.refs, rels |-> wo, url |-> d.url]
      BY <2>1, DocumentExcept
    <2>3. h \in Documents /\ h.of = d.of /\ h.refs = d.refs /\ h.rels = wo
      BY <1>1, <1>2, <2>2, RelsSet
    <2> QED
      BY <1>2, <1>7, <2>3 DEF h
  <1> QED
    BY <1>4, <1>5, <1>6, <1>7

\* What a listener changes in the store: at most whether one object is listed at another.
LEMMA NotifiedDocs ==
  ASSUME TypeOK, NEW o \in Objects, NEW y \in Objects, y \notin Strategies,
         NEW name \in {"referenced", "removed"},
         docs' = IF Stored(y) THEN [docs EXCEPT ![LatestVersion(y)] = Heard(@, name, o)] ELSE docs
  PROVE  /\ docs' \in Seq(Documents)
         /\ \A i \in DOMAIN docs : i \in DOMAIN docs' /\ docs'[i].of = docs[i].of
         /\ \A p : Stored(p)' <=> Stored(p)
         /\ \A p : Stored(p) => Latest(p)'.refs = Latest(p).refs
         /\ \A p : Stored(p) /\ p # y => Latest(p)' = Latest(p)
         /\ \A p : Stored(p) /\ p = y =>
              /\ name = "referenced" => Inbound(Latest(p)'.rels) = Inbound(Latest(p).rels) \cup {o}
              /\ name = "removed" => Inbound(Latest(p)'.rels) = Inbound(Latest(p).rels) \ {o}
              /\ p \in Analytics => Latest(p)'.url \in {None, Parent(Latest(p)'.rels)}
         /\ \A p, x : p # o => (Agree(docs', p, x) <=> Agree(docs, p, x))
  <1>1. docs \in Seq(Documents)
    BY DEF TypeOK
  <1>2. \A p : /\ Stored(p) <=> VersionsIn(docs, p) # {}
               /\ Stored(p)' <=> VersionsIn(docs', p) # {}
               /\ Latest(p) = LatestIn(docs, p) /\ Latest(p)' = LatestIn(docs', p)
    BY DEF Stored, VersionsOf, Latest
  <1>3. CASE ~Stored(y)
    <2>1. docs' = docs
      BY <1>3
    <2> QED
      BY <1>1, <1>2, <1>3, <2>1
  <1>4. CASE Stored(y)
    <2> DEFINE m == Max(VersionsIn(docs, y))
               h == Heard(docs[m], name, o)
    <2>1. m \in DOMAIN docs /\ docs[m] \in Documents /\ docs[m].of = y /\ LatestIn(docs, y) = docs[m]
      BY <1>1, <1>2, <1>4, LatestVersions DEF LatestIn
    <2>2. docs' = [docs EXCEPT ![m] = h]
      BY <1>4, <2>1 DEF LatestVersion, VersionsOf
    <2>3. /\ h \in Documents /\ h.of = docs[m].of /\ h.refs = docs[m].refs
          /\ name = "referenced" => Inbound(h.rels) = Inbound(docs[m].rels) \cup {o}
          /\ name = "removed" => Inbound(h.rels) = Inbound(docs[m].rels) \ {o}
          /\ y \in Analytics => h.url \in {None, Parent(h.rels)}
      <3>1. docs[m].of \notin Strategies
        BY <2>1
      <3> DEFINE d == docs[m]
      <3>2. /\ h \in Documents /\ h.of = d.of /\ h.refs = d.refs
            /\ name = "referenced" => Inbound(h.rels) = Inbound(d.rels) \cup {o}
            /\ name = "removed" => Inbound(h.rels) = Inbound(d.rels) \ {o}
            /\ d.of \in Analytics => h.url \in {None, Parent(h.rels)}
        <4>1. h = Heard(d, name, o) /\ d \in Documents /\ d.of \notin Strategies
          BY <2>1, <3>1
        <4> HIDE DEF h, d, m
        <4> QED
          BY <4>1, HeardIs
      <3> QED
        BY <2>1, <3>2
    <2> HIDE DEF h
    <2> DEFINE t == [docs EXCEPT ![m] = h]
    <2>4. /\ t \in Seq(Documents) /\ DOMAIN t = DOMAIN docs
          /\ \A p : VersionsIn(t, p) = VersionsIn(docs, p)
          /\ \A p : LatestIn(t, p) = t[Max(VersionsIn(docs, p))]
          /\ \A p : p # h.of /\ VersionsIn(docs, p) # {} => LatestIn(t, p) = LatestIn(docs, p)
      <3> HIDE DEF m
      <3> QED
        BY <1>1, <2>1, <2>3, Replaced
    <2>5. LatestIn(t, y) = h
      BY <1>1, <2>1, <2>4
    <2>6. \A i \in DOMAIN docs : t[i].of = docs[i].of
      BY <1>1, <2>1, <2>3
    <2>7. docs' = t
      BY <2>2
    <2> HIDE DEF t, m
    <2>8. \A p : Stored(p)' <=> Stored(p)
      BY <1>2, <2>4, <2>7
    <2>9. \A p : Stored(p) /\ p # y => Latest(p)' = Latest(p)
      BY <1>2, <2>1, <2>3, <2>4, <2>7
    <2>10. \A p : Stored(p) /\ p = y => Latest(p)' = h /\ Latest(p) = docs[m]
      BY <1>2, <2>1, <2>5, <2>7
    <2>11. \A p : Stored(p) => Latest(p)'.refs = Latest(p).refs
      BY <2>3, <2>9, <2>10
    <2>12. \A p : Stored(p) /\ p = y =>
              /\ name = "referenced" => Inbound(Latest(p)'.rels) = Inbound(Latest(p).rels) \cup {o}
              /\ name = "removed" => Inbound(Latest(p)'.rels) = Inbound(Latest(p).rels) \ {o}
              /\ p \in Analytics => Latest(p)'.url \in {None, Parent(Latest(p)'.rels)}
      BY <2>3, <2>10
    <2>13. \A p, x : p # o /\ Stored(x) => (p \in Inbound(Latest(x)'.rels) <=> p \in Inbound(Latest(x).rels))
      <3> TAKE p, x
      <3>1. CASE x # y
        BY <2>9, <3>1
      <3>2. CASE x = y
        BY <2>12, <3>2
      <3> QED
        BY <3>1, <3>2
    <2>14. \A p, x : p # o => (Agree(docs', p, x) <=> Agree(docs, p, x))
      <3>1. \A p, x : Agree(docs, p, x) <=>
              /\ Stored(p) /\ x \in Range(Latest(p).refs) => Stored(x) /\ p \in Inbound(Latest(x).rels)
              /\ p \notin Analytics /\ Stored(x) /\ p \in Inbound(Latest(x).rels)
                   => Stored(p) /\ x \in Range(Latest(p).refs)
        BY DEF Agree, Stored, VersionsOf, Latest
      <3>2. \A p, x : Agree(docs', p, x) <=>
              /\ Stored(p)' /\ x \in Range(Latest(p)'.refs) => Stored(x)' /\ p \in Inbound(Latest(x)'.rels)
              /\ p \notin Analytics /\ Stored(x)' /\ p \in Inbound(Latest(x)'.rels)
                   => Stored(p)' /\ x \in Range(Latest(p)'.refs)
        BY DEF Agree, Stored, VersionsOf, Latest
      <3> QED
        BY <2>8, <2>11, <2>13, <3>1, <3>2
    <2> QED
      BY <2>4, <2>6, <2>7, <2>8, <2>9, <2>11, <2>12, <2>14
  <1> QED
    BY <1>3, <1>4

LEMMA NotifyKeeps ==
  ASSUME IInv, NEW r \in Requests, NEW e \in req[r].events, Notify(r, e)
  PROVE  IInv'
  <1> DEFINE o == About(r)
             refs == req[r].doc.refs
             ev == req[r].events \ {e}
             c == req[r].case
             y == e.of
             m == [req[r] EXCEPT !.step = "notify", !.events = ev, !.case = c]
  <1>1. TypeOK /\ FieldsOwned /\ Alone
    BY DEF IInv
  <1>2. /\ req[r].step = "notify"
        /\ docs' = IF Stored(y) THEN [docs EXCEPT ![LatestVersion(y)] = Heard(@, e.name, o)] ELSE docs
        /\ req' = [req EXCEPT ![r].events = @ \ {e}]
        /\ UNCHANGED <<field, soiled, astray, mishaps>>
    BY DEF Notify, Due, About
  <1>3. r \in Working
    BY <1>2 DEF Working
  <1>4. UnderWay(docs, req[r]) /\ o \in Objects /\ req[r].doc \in Documents /\ req[r].doc.of = o
    BY <1>1, <1>3, WorkingIs DEF About
  <1>5. ev \in SUBSET EventsOf(Kind(About(r))) /\ e \in EventsOf(Kind(o))
    BY <1>4 DEF UnderWay, About
  <1>6. /\ e.name \in {"referenced", "removed"} /\ y \in Referable(Kind(o)) /\ e = Event(e.name, y)
        /\ y \in Objects /\ y \notin Strategies /\ y # o
    <2>1. e.name \in {"referenced", "removed"} /\ y \in Referable(Kind(o)) /\ e = Event(e.name, y)
      BY <1>5 DEF EventsOf, Event
    <2> QED
      BY <1>4, <2>1, Referables, ReferableApart
  <1>7. c \in {"first", "same", "other"} /\ "notify" \in {"save", "announce", "notify"}
    BY <1>4 DEF UnderWay
  <1> HIDE DEF c, ev
  <1>8. m = [step |-> "notify", doc |-> req[r].doc, at |-> req[r].at, case |-> c, events |-> ev]
    <2>1. req[r] = [step |-> req[r].step, doc |-> req[r].doc, at |-> req[r].at,
                    case |-> req[r].case, events |-> req[r].events]
      BY <1>4 DEF UnderWay
    <2>2. m = [req[r] EXCEPT !.step = "notify", !.events = ev, !.case = c]
      OBVIOUS
    <2> HIDE DEF m
    <2> QED
      BY <2>1, <2>2, PartsSet
  <1>9. req' = [req EXCEPT ![r] = m]
    <2> DEFINE n == [req[r] EXCEPT !.events = ev]
    <2>1. req[r] = [step |-> "notify", doc |-> req[r].doc, at |-> req[r].at,
                    case |-> req[r].case, events |-> req[r].events]
      BY <1>2, <1>4 DEF UnderWay
    <2>2. n = [step |-> "notify", doc |-> req[r].doc, at |-> req[r].at, case |-> c, events |-> ev]
      BY <2>1 DEF c
    <2>3. req' = [req EXCEPT ![r] = n]
      BY <1>2 DEF ev
    <2> QED
      BY <1>8, <2>2, <2>3
  <1>10. /\ docs' \in Seq(Documents)
         /\ \A i \in DOMAIN docs : i \in DOMAIN docs' /\ docs'[i].of = docs[i].of
         /\ \A p : Stored(p)' <=> Stored(p)
         /\ \A p : Stored(p) => Latest(p)'.refs = Latest(p).refs
         /\ \A p : Stored(p) /\ p # y => Latest(p)' = Latest(p)
         /\ \A p : Stored(p) /\ p = y =>
              /\ e.name = "referenced" => Inbound(Latest(p)'.rels) = Inbound(Latest(p).rels) \cup {o}
              /\ e.name = "removed" => Inbound(Latest(p)'.rels) = Inbound(Latest(p).rels) \ {o}
              /\ p \in Analytics => Latest(p)'.url \in {None, Parent(Latest(p)'.rels)}
         /\ \A p, x : p # o => (Agree(docs', p, x) <=> Agree(docs, p, x))
    <2>1. o \in Objects /\ y \in Objects /\ y \notin Strategies /\ e.name \in {"referenced", "removed"}
      BY <1>4, <1>6
    <2> DEFINE name == e.name
    <2>2. docs' = IF Stored(y) THEN [docs EXCEPT ![LatestVersion(y)] = Heard(@, name, o)] ELSE docs
      BY <1>2
    <2> HIDE DEF o, y, name, refs, m
    <2> QED
      BY <1>1, <2>1, <2>2, NotifiedDocs DEF name
  <1>11. /\ DOMAIN req' = Requests /\ Working' = Working
         /\ \A q \in Requests \ {r} : req'[q] = req[q]
         /\ \A q \in Working : About(q)' = About(q) /\ req'[q].doc = req[q].doc /\ req'[q].at = req[q].at
         /\ \A q \in Requests : req'[q] = Idle \/ UnderWay(docs', req'[q])
    BY <1>1, <1>3, <1>5, <1>7, <1>9, <1>10, Proceeds
  <1>12. req'[r].step = "notify" /\ req'[r].case = c /\ req'[r].events = ev /\ req'[r].doc = req[r].doc
    <2>1. req'[r] = m
      BY <1>1, <1>9 DEF TypeOK
    <2> QED
      BY <1>8, <2>1
  <1> HIDE DEF m
  <1>13. TypeOK'
    BY <1>1, <1>2, <1>10, <1>11 DEF TypeOK
  <1>14. FieldsOwned'
    BY <1>1, <1>2, <1>11, OwnedStays
  <1>15. Alone'
    BY <1>1, <1>2, <1>11 DEF Alone
  <1>16. \A q \in Working' : About(q)' \notin astray' => q = r
    BY <1>2, <1>3, <1>11, <1>15 DEF Alone
  <1>17. Saving' /\ Announcing'
    BY <1>11, <1>12, <1>16 DEF Saving, Announcing
  <1>18. ReferencesStored'
    BY <1>2, <1>10, <1>11 DEF IInv, ReferencesStored
  <1>19. Knit'
    <2>1. Telling(r)' /\ About(r)' = o
      BY <1>3, <1>11, <1>12 DEF Telling
    <2>2. \A q \in Working : Telling(q) => Telling(q)'
      BY <1>11, <2>1 DEF Telling, Working
    <2> SUFFICES ASSUME NEW p \in Objects \ astray, NEW x \in Referable(Kind(p)) \ astray,
                        \A q \in Working : About(q)' = p => ~Telling(q)'
                 PROVE  Agree(docs', p, x)
      BY <1>2, <1>11 DEF Knit
    <2>3. p # o /\ \A q \in Working : About(q) = p => ~Telling(q)
      BY <1>3, <1>11, <2>1, <2>2
    <2>4. Agree(docs, p, x)
      BY <2>3 DEF IInv, Knit
    <2> QED
      BY <1>10, <2>3, <2>4
  <1>20. UrlsLead'
    <2>1. \A a \in Analytics \ astray : Stored(a)' => Latest(a)'.url \in {None, Parent(Latest(a)'.rels)}
      <3> SUFFICES ASSUME NEW a \in Analytics \ astray, Stored(a)
                   PROVE  Latest(a)'.url \in {None, Parent(Latest(a)'.rels)}
        BY <1>10
      <3>1. CASE a = y
        BY <1>10, <3>1
      <3>2. CASE a # y
        BY <1>10, <3>2 DEF IInv, UrlsLead
      <3> QED
        BY <3>1, <3>2
    <2>2. \A q \in Working' : req'[q].step = "save" /\ About(q)' \in Analytics \ astray => FALSE
      BY <1>2, <1>12, <1>16
    <2> QED
      BY <1>2, <2>1, <2>2 DEF UrlsLead
  <1>21. Notifying'
    <2> SUFFICES ASSUME o \notin astray
                 PROVE  /\ \A p : p = o => Stored(p)' /\ Latest(p)'.refs = refs
                        /\ \A d \in ev : d.name = "referenced" <=> d.of \in Range(refs)
                        /\ \A x \in Referable(Kind(o)) \ astray : Stored(x) =>
                             /\ x \in Range(refs) =>
                                  Event("referenced", x) \in ev \/ o \in Inbound(Latest(x)'.rels)
                             /\ o \notin Analytics /\ o \in Inbound(Latest(x)'.rels) =>
                                  x \in Range(refs) \/ Event("removed", x) \in ev
      <3>1. \A q \in Working' : About(q)' \notin astray' => q = r /\ About(q)' = o /\ req'[q].doc.refs = refs /\ req'[q].events = ev
        BY <1>3, <1>11, <1>12, <1>16
      <3> HIDE DEF o, refs
      <3> QED
        BY <1>2, <1>10, <3>1 DEF Notifying
    <2>1. /\ Stored(o) /\ Latest(o).refs = refs
          /\ \A d \in req[r].events : d.name = "referenced" <=> d.of \in Range(refs)
          /\ \A x \in Referable(Kind(o)) \ astray : Stored(x) =>
               /\ x \in Range(refs) => Event("referenced", x) \in req[r].events \/ o \in Inbound(Latest(x).rels)
               /\ o \notin Analytics /\ o \in Inbound(Latest(x).rels) =>
                    x \in Range(refs) \/ Event("removed", x) \in req[r].events
      BY <1>2, <1>3 DEF IInv, Notifying
    <2>2. \A p : p = o => Stored(p)' /\ Latest(p)'.refs = refs
      BY <1>10, <2>1
    <2>3. \A x, name : x # y => (Event(name, x) \in ev <=> Event(name, x) \in req[r].events)
      BY EventsAre DEF ev
    <2> SUFFICES ASSUME NEW x \in Referable(Kind(o)) \ astray, Stored(x)
                 PROVE  /\ x \in Range(refs) =>
                             Event("referenced", x) \in ev \/ o \in Inbound(Latest(x)'.rels)
                        /\ o \notin Analytics /\ o \in Inbound(Latest(x)'.rels) =>
                             x \in Range(refs) \/ Event("removed", x) \in ev
      BY <2>1, <2>2 DEF ev
    <2>4. CASE x # y
      BY <1>10, <2>1, <2>3, <2>4
    <2>5. CASE x = y /\ e.name = "referenced"
      BY <1>10, <2>1, <2>5
    <2>6. CASE x = y /\ e.name = "removed"
      BY <1>10, <2>1, <2>6
    <2> QED
      BY <1>6, <2>4, <2>5, <2>6
  <1>22. Reposting'
    <2> SUFFICES ASSUME NEW q \in Working, req'[q].case = "same"
                 PROVE  /\ q = r /\ Working = {r} /\ req[r].at = 0
                        /\ o \notin Components =>
                             /\ \A d \in ev : d.name = "referenced"
                             /\ \A x \in Range(refs) :
                                  Event("referenced", x) \in ev \/ (Stored(x) => o \in Inbound(Latest(x)'.rels))
      <3>1. req'[r].step # "save" /\ req'[r].step # "announce"
        BY <1>12
      <3>2. \A p : Stored(p)' <=> Stored(p)
        BY <1>10
      <3>3. req'[r].doc.refs = refs /\ req'[r].at = req[r].at /\ About(r)' = o
        BY <1>3, <1>11
      <3> HIDE DEF ev, o, refs
      <3> QED
        BY <1>11, <1>12, <3>1, <3>2, <3>3 DEF Reposting
    <2>1. req[q].case = "same"
      BY <1>11, <1>12 DEF c, Working
    <2>2. /\ q = r /\ Working = {r} /\ req[r].at = 0
          /\ o \notin Components =>
               /\ \A d \in req[r].events : d.name = "referenced"
               /\ \A x \in Range(refs) :
                    Event("referenced", x) \in req[r].events \/ (Stored(x) => o \in Inbound(Latest(x).rels))
      BY <1>2, <1>3, <2>1 DEF IInv, Reposting
    <2>3. \A x, name : x # y => (Event(name, x) \in ev <=> Event(name, x) \in req[r].events)
      BY EventsAre DEF ev
    <2> SUFFICES ASSUME o \notin Components, NEW x \in Range(refs), Stored(x)
                 PROVE  Event("referenced", x) \in ev \/ o \in Inbound(Latest(x)'.rels)
      BY <2>2 DEF ev
    <2>4. CASE x # y
      BY <1>10, <2>2, <2>3, <2>4
    <2>5. CASE x = y
      <3>1. e.name = "referenced"
        BY <2>2
      <3> QED
        BY <1>10, <2>5, <3>1
    <2> QED
      BY <2>4, <2>5
  <1> QED
    BY <1>13, <1>14, <1>15, <1>17, <1>18, <1>19, <1>20, <1>21, <1>22 DEF IInv

-----------------------------------------------------------------------------
(***************************************************************************)
(* The invariant holds, and with it the properties.                        *)
(***************************************************************************)
LEMMA InitKeeps == Init => IInv
  <1> SUFFICES ASSUME Init PROVE IInv
    OBVIOUS
  <1>1. /\ docs = InitDocs /\ field = [k \in Keepers |-> NoField]
        /\ req = [r \in Requests |-> Idle] /\ soiled = {} /\ astray = {}
    BY DEF Init
  <1>2. Working = {}
    BY <1>1 DEF Working, Idle
  <1>3. \A k \in Keepers : field[k] = NoField
    BY <1>1
  <1>4. TypeOK
    <2>1. docs \in Seq(Documents)
      BY <1>1, StoreAssumption
    <2>2. NoField \in [added : SUBSET Objects, removed : SUBSET Objects]
      BY DEF NoField
    <2>3. \A k \in Keepers : field[k] \in FieldsOf(k)
      BY <1>3, NoFieldTyped
    <2>4. field \in [Keepers -> [added : SUBSET Objects, removed : SUBSET Objects]]
      BY <1>1, <2>2
    <2> QED
      BY <1>1, <2>1, <2>3, <2>4 DEF TypeOK
  <1>5. \A o \in Objects : \A x \in Referable(Kind(o)) : Agree(docs, o, x)
    BY <1>1, StoreAssumption
  <1>6. ReferencesStored
    <2> SUFFICES ASSUME NEW o \in Objects, Stored(o), NEW x \in Range(Latest(o).refs) PROVE Stored(x)
      BY <1>2 DEF ReferencesStored
    <2>1. LatestIn(docs, o) \in Documents /\ LatestIn(docs, o).of = o
      BY <1>4, LatestVersions DEF TypeOK, Stored, VersionsOf
    <2>2. x \in Range(LatestIn(docs, o).refs)
      BY DEF Latest
    <2>3. x \in Referable(Kind(o))
      BY <2>1, <2>2, DocumentFields
    <2> QED
      BY <1>5, <2>2, <2>3 DEF Agree, Stored, VersionsOf
  <1>7. Knit
    BY <1>5 DEF Knit
  <1>8. UrlsLead
    <2>1. \A a \in Analytics : VersionsIn(docs, a) # {} =>
             LatestIn(docs, a).url \in {None, Parent(LatestIn(docs, a).rels)}
      BY <1>1, StoreAssumption
    <2> QED
      BY <1>2, <2>1 DEF UrlsLead, Stored, VersionsOf, Latest
  <1>9. Alone /\ FieldsOwned /\ Saving /\ Announcing /\ Notifying /\ Reposting
    BY <1>2, <1>3 DEF Alone, FieldsOwned, Saving, Announcing, Notifying, Reposting
  <1> QED
    BY <1>4, <1>6, <1>7, <1>8, <1>9 DEF IInv

LEMMA NextKeeps == IInv /\ [Next]_vars => IInv'
  <1> SUFFICES ASSUME IInv, [Next]_vars PROVE IInv'
    OBVIOUS
  <1>1. ASSUME NEW r \in Requests, Post(r) PROVE IInv'
    <2>1. PICK o \in Objects : \E refs \in References(o) :
            \E sent \in {<<>>} \cup {docs[i].rels : i \in VersionsOf(o)} : BeginPost(r, o, refs, sent)
      BY <1>1 DEF Post
    <2>2. PICK refs \in References(o) :
            \E sent \in {<<>>} \cup {docs[i].rels : i \in VersionsOf(o)} : BeginPost(r, o, refs, sent)
      BY <2>1
    <2>3. PICK sent : BeginPost(r, o, refs, sent)
      BY <2>2
    <2> QED
      BY <2>3, PostRefused, PostAccepted
  <1>2. ASSUME NEW r \in Requests, Put(r) PROVE IInv'
    BY <1>2, BeginPutKeeps DEF Put
  <1>3. ASSUME NEW r \in Requests, Abandon(r) PROVE IInv'
    BY <1>3, AbandonKeeps
  <1>4. ASSUME NEW r \in Requests, Save(r) PROVE IInv'
    BY <1>4, SaveKeeps
  <1>5. ASSUME NEW r \in Requests, Announce(r) PROVE IInv'
    BY <1>5, AnnounceKeeps
  <1>6. ASSUME NEW r \in Requests, Finish(r) PROVE IInv'
    BY <1>6, FinishKeeps
  <1>7. ASSUME NEW r \in Requests, NEW e \in req[r].events, Notify(r, e) PROVE IInv'
    BY <1>7, NotifyKeeps
  <1>8. ASSUME NEW r \in Requests, NEW e \in req[r].events, Overhear(r, e) PROVE IInv'
    BY <1>8, OverhearKeeps
  <1>9. ASSUME UNCHANGED vars PROVE IInv'
    <2>1. UNCHANGED <<docs, field, req, soiled, astray>>
      BY <1>9 DEF vars
    <2>2. Working' = Working
      BY <2>1 DEF Working
    <2>3. TypeOK'
      BY <2>1 DEF IInv, TypeOK
    <2>4. Alone' /\ FieldsOwned'
      BY <2>1, <2>2 DEF IInv, Alone, FieldsOwned, About
    <2>5. ReferencesStored' /\ UrlsLead'
      BY <2>1, <2>2 DEF IInv, ReferencesStored, UrlsLead, About, Stored, Latest, VersionsOf
    <2>6. Knit' /\ Saving'
      BY <2>1, <2>2 DEF IInv, Knit, Saving, CarriesOver, Remembers, About, Telling, Stored, Latest, VersionsOf
    <2>7. Announcing'
      BY <2>1, <2>2 DEF IInv, Announcing, Outstanding, About, Stored, Latest, VersionsOf
    <2>8. Notifying' /\ Reposting'
      BY <2>1, <2>2 DEF IInv, Notifying, Reposting, About, Stored, Latest, VersionsOf
    <2> QED
      BY <2>3, <2>4, <2>5, <2>6, <2>7, <2>8 DEF IInv
  <1> QED
    BY <1>1, <1>2, <1>3, <1>4, <1>5, <1>6, <1>7, <1>8, <1>9 DEF Next

\* The invariant that the four theorems below rest on, whatever is requested and whichever listener
\* fails: types, what requests under way hold, and the pairs on which both sides agree.
THEOREM Invariance == Spec => []IInv
  BY InitKeeps, NextKeeps, PTL DEF Spec

\* Between requests, what an object's latest version references knows of it, if neither went astray:
\* the hooks and listeners of the four services lose no reference.
THEOREM ReferencedKnowsHolds == Spec => []ReferencedKnows
  <1>1. IInv => ReferencedKnows
    <2> SUFFICES ASSUME IInv, Working = {}, NEW x \in Objects, NEW o \in Referrers(x),
                        Stored(x), {o, x} \cap astray = {}, x \in Range(Latest(o).refs)
                 PROVE  o \in Inbound(Latest(x).rels)
      BY DEF ReferencedKnows, Settled
    <2>1. Agree(docs, o, x)
      BY DEF IInv, Knit, Referrers
    <2>2. Stored(o)
      BY DEF Referrers
    <2> QED
      BY <2>1, <2>2 DEF Agree, Stored, VersionsOf, Latest
  <1> QED
    BY <1>1, Invariance, PTL

\* And a strategy or data component that is listed as referencing an object does reference it.
THEOREM BackReferencesHold == Spec => []BackReferenceHolds
  <1>1. IInv => BackReferenceHolds
    <2> SUFFICES ASSUME IInv, Working = {}, NEW x \in Objects, NEW o \in Referrers(x) \ Analytics,
                        Stored(x), {o, x} \cap astray = {}, o \in Inbound(Latest(x).rels)
                 PROVE  x \in Range(Latest(o).refs)
      BY DEF BackReferenceHolds, Settled
    <2>1. Agree(docs, o, x)
      BY DEF IInv, Knit, Referrers
    <2> QED
      BY <2>1 DEF Agree, Stored, VersionsOf, Latest
  <1> QED
    BY <1>1, Invariance, PTL

\* The URL that hooks and listeners give an analytic leads to its first strategy, or nowhere.
THEOREM UrlsLeadToParents == Spec => []UrlLeadsToParent
  <1>1. IInv => UrlLeadsToParent
    BY DEF IInv, UrlsLead, UrlLeadsToParent
  <1> QED
    BY <1>1, Invariance, PTL

\* Posting the references of the version before again restores the back references, even of what
\* went astray: the request does not end before every object it references knows of it.
THEOREM RepostsHeal == Spec => RepostHeals
  <1> DEFINE Healed == \A r \in Requests :
        (Finish(r) /\ req[r].case = "same" /\ req[r].doc.of \notin Components)
          => \A x \in Range(req[r].doc.refs) : Stored(x) => req[r].doc.of \in Inbound(Latest(x).rels)
  <1>1. IInv /\ [Next]_vars => [Healed]_vars
    <2> SUFFICES ASSUME IInv, NEW r \in Requests, Finish(r), req[r].case = "same",
                        req[r].doc.of \notin Components, NEW x \in Range(req[r].doc.refs), Stored(x)
                 PROVE  req[r].doc.of \in Inbound(Latest(x).rels)
      BY DEF Healed
    <2>1. req[r].step = "notify" /\ req[r].events = {} /\ r \in Working
      BY DEF Finish, Working
    <2> QED
      BY <2>1 DEF IInv, Reposting, About
  <1> QED
    BY <1>1, Invariance, PTL DEF Spec, RepostHeals, Healed

=============================================================================
