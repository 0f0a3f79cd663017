------------------------------ MODULE BundleProofs ------------------------------
(***************************************************************************)
(* Proofs about bundles.  About BundleImport: an imported collection       *)
(* accounts for all of its contents, a deletion takes nothing away that    *)
(* another collection lists, the history of a collection is kept, and a    *)
(* failed import is not left half done; for any number of imports, bundles *)
(* and deletions.  About BundleExport: an export brings in nothing that    *)
(* its options leave out and, when no other overlaps it, all that is       *)
(* required, with the domains as stored and the detections derived; for    *)
(* any documents, relationships and number of exports.                     *)
(***************************************************************************)
EXTENDS BundleImport, BundleExport, Maxima, FiniteSetTheorems, TLAPS

-----------------------------------------------------------------------------
(***************************************************************************)
(* Import.                                                                 *)
(***************************************************************************)
Working == {"tiers", "references"}

IsCollection(c) == DOMAIN c = {"contents", "by", "errors", "reimports", "exported"}

\* Like the import that it is of, an import keeps its request until it ends.
IsImport(q) ==
  /\ DOMAIN q = DOMAIN Idle
  /\ q.phase \in {"idle"} \cup Working \cup Ended
  /\ q.phase \in Working => q.request \in DOMAIN Requests /\ ~Refused(Requests[q.request])
  /\ q.phase \in Working /\ q.dup # None => IsCollection(q.dup) /\ q.dup.exported \in Nat

TypeOK ==
  /\ DOMAIN imp = Importers
  /\ \A i \in Importers : IsImport(imp[i])
  /\ DOMAIN job = DOMAIN NoJob
  /\ jobs \in Nat /\ others \in Nat
  /\ \A k \in DOMAIN colls : IsCollection(colls[k]) /\ colls[k].exported \in Nat
  /\ \A d \in store : DOMAIN d = DOMAIN Document(d, {})

\* Who made a collection: a request to create one, by its number, or an import that ended.
Author(a) == (a \in Nat /\ a < jobs) \/ (a \in Importers /\ imp[a].phase \in Ended)

SameOrigin(c, d) == c.by = d.by => c.contents = d.contents /\ c.errors = d.errors

\* What an import writes back over a collection by the same author lists the same objects.
Origins ==
  /\ \A k \in DOMAIN colls : Author(colls[k].by)
  /\ \A i \in Importers : imp[i].phase \in Working /\ imp[i].dup # None =>
       /\ Author(imp[i].dup.by)
       /\ CollectionKey(i) \in DOMAIN colls => SameOrigin(colls[CollectionKey(i)], imp[i].dup)

\* The import may still make the collection it is for.
Seen(i) == job.victim # None => i \in job.seen

\* Since a deletion looked, only the imports that it saw could add a collection.
Unlisted ==
  /\ job.victim # None => job.kind = "delete"
  /\ \A i \in Importers : imp[i].phase \notin Ended => Seen(i)
  /\ job.victim # None =>
       \A k \in DOMAIN colls :
         job.victim \in colls[k].contents => Doomed(k) \/ colls[k].by \in job.seen

ImportInv == TypeOK /\ Origins /\ Unlisted

Blamed(errors) == {e[1] : e \in errors}

\* Each entry of the collection is yet to come, or went one of the ways it may go.
Underway(i) ==
  imp[i].phase \in Working /\ ~Req(i).preview =>
    \A key \in Bundle(i).contents :
      \/ imp[i].phase = "tiers" /\ key \in imp[i].contents \cup Keys(imp[i].pending)
      \/ key \in Keys(store) \cup Blamed(imp[i].errors) \cup {CollectionKey(i)}
      \/ <<i, key>> \in stolen

\* No collection is doomed but by a deletion.
NoneDoomed == job.kind # "delete" => job.gone = {}

AccountInv ==
  /\ ImportInv
  /\ NoneDoomed
  /\ ContentsAccounted
  /\ \A i \in Importers : Underway(i)

\* What can be stored of the bundle is yet to come, or is stored.
Arriving(i) ==
  imp[i].phase \in Working /\ ~Req(i).preview =>
    \A o \in Bundle(i).objects : Storable(Req(i), o) =>
      \/ Present(o)
      \/ imp[i].phase = "tiers" /\ (o.type \in imp[i].left \/ o \in imp[i].pending)

\* What an import leaves that its collection fails.
AllStored(i) ==
  /\ ~TheCollection(Bundle(i)).accepted
  /\ \A o \in Bundle(i).objects : Storable(Req(i), o) => Present(o)

\* What an import that has the database to itself finds there.
Undisturbed(i) ==
  /\ imp[i].phase \in {"idle", "refused"} => store = Before /\ refs = {}
  /\ imp[i].phase # "done" => DOMAIN colls = {}
  /\ imp[i].phase \in Working =>
       /\ imp[i].dup = None
       /\ ~Req(i).scheduled /\ ~Req(i).forceSpec =>
            \A o \in Bundle(i).objects : ~specViolation(o)
  /\ imp[i].phase = "tiers" => refs = {}
  /\ imp[i].phase = "references" => refs \cap imp[i].names \subseteq imp[i].known
  /\ Arriving(i)
  /\ imp[i].phase = "failed" /\ ~Req(i).scheduled /\ ~Req(i).forceSpec =>
       (store = Before /\ refs = {}) \/ AllStored(i)

AloneInv ==
  /\ TypeOK
  /\ jobs = 0 => job.kind = "none"
  /\ \A i \in Importers : Alone(i) => Undisturbed(i)

-----------------------------------------------------------------------------
(***************************************************************************)
(* What each step of an import does.                                       *)
(***************************************************************************)
LEMMA Fields ==
  /\ DOMAIN Idle = {"phase", "request", "dup", "contents", "left", "pending", "names",
                    "known", "errors", "categories"}
  /\ DOMAIN NoJob = {"kind", "gone", "all", "work", "victim", "seen"}
  /\ \A d, marks : DOMAIN Document(d, marks) =
                     {"id", "type", "modified", "version", "status", "collections"}
  BY DEF Idle, NoJob, Document

\* Of the imports only this one is changed.
Alters(i) ==
  /\ DOMAIN imp' = Importers
  /\ IsImport(imp'[i])
  /\ \A j \in Importers \ {i} : imp'[j] = imp[j]

Database == <<store, colls, refs, job, jobs, others, stolen>>

LEMMA Going ==
  ASSUME TypeOK, NEW i \in Importers, NEW q, IsImport(q), imp' = [imp EXCEPT ![i] = q]
  PROVE  Alters(i) /\ imp'[i] = q
  BY DEF TypeOK, Alters

LEMMA Ending ==
  ASSUME TypeOK, NEW i \in Importers, NEW phase \in Ended, Ends(i, phase)
  PROVE  Alters(i) /\ imp'[i].phase = phase /\ imp'[i].request = imp[i].request
  <1> DEFINE n == [Idle EXCEPT !.phase = phase, !.request = imp[i].request]
  <1>1. IsImport(n) /\ n.phase = phase /\ n.request = imp[i].request
    BY DEF IsImport, Idle, Ended, Working
  <1>2. imp' = [imp EXCEPT ![i] = n]
    BY DEF Ends
  <1> HIDE DEF n
  <1> QED
    BY <1>1, <1>2, Going

LEMMA BeginEffect ==
  ASSUME TypeOK, NEW i \in Importers, NEW r \in DOMAIN Requests, Begin(i, r)
  PROVE  LET n == imp'[i]
             key == makeKeyFromObject(TheCollection(Requests[r].bundle))
         IN
         /\ UNCHANGED Database
         /\ imp[i].phase = "idle" /\ Alters(i) /\ n.request = r
         /\ \/ n.phase = "refused"
            \/ n.phase = "failed" /\ key \in DOMAIN colls
            \/ /\ n.phase = "tiers" /\ ~Refused(Requests[r])
               /\ n.contents = Requests[r].bundle.contents
               /\ n.left = {o.type : o \in Requests[r].bundle.objects}
               /\ \/ key \in DOMAIN colls /\ n.dup = colls[key]
                  \/ key \notin DOMAIN colls /\ n.dup = None
  <1> DEFINE request == Requests[r]
             key == makeKeyFromObject(TheCollection(request.bundle))
             found == ~Refused(request) /\ key \in DOMAIN colls
             ends == Refused(request) \/ (found /\ ~request.forceDuplicate)
             phase == IF Refused(request) THEN "refused" ELSE "failed"
             e == [Idle EXCEPT !.request = r, !.phase = phase]
             dup == IF found THEN colls[key] ELSE None
             b == [Idle EXCEPT
                     !.request = r,
                     !.phase = "tiers",
                     !.dup = dup,
                     !.contents = request.bundle.contents,
                     !.left = {o.type : o \in request.bundle.objects},
                     !.errors = IF found THEN {<<key, "duplicateCollection">>} ELSE {}]
  <1>1. /\ imp[i].phase = "idle" /\ UNCHANGED Database
        /\ imp' = [imp EXCEPT ![i] = IF ends THEN e ELSE b]
    BY DEF Begin, Database
  <1>2. CASE ends
    <2>1. IsImport(e) /\ e.phase = phase /\ e.request = r
      BY DEF IsImport, Idle, Ended, Working
    <2>2. imp' = [imp EXCEPT ![i] = e]
      BY <1>1, <1>2
    <2> HIDE DEF e
    <2>3. Alters(i) /\ imp'[i].phase = phase /\ imp'[i].request = r
      BY <2>1, <2>2, Going
    <2> QED
      BY <1>1, <1>2, <2>3
  <1>3. CASE ~ends
    <2>1. dup # None => IsCollection(dup) /\ dup.exported \in Nat
      BY DEF TypeOK
    <2>2. /\ DOMAIN b = DOMAIN Idle /\ b.phase = "tiers" /\ b.request = r /\ b.dup = dup
          /\ b.contents = request.bundle.contents /\ b.left = {o.type : o \in request.bundle.objects}
      <3> HIDE DEF dup, request, found
      <3> QED
        BY DEF Idle
    <2>3. imp' = [imp EXCEPT ![i] = b]
      BY <1>1, <1>3
    <2> HIDE DEF b, dup
    <2>4. IsImport(b)
      BY <1>3, <2>1, <2>2 DEF IsImport, Working
    <2>5. Alters(i) /\ imp'[i] = b
      BY <2>3, <2>4, Going
    <2> QED
      BY <1>1, <1>3, <2>2, <2>5 DEF dup
  <1> QED
    BY <1>2, <1>3

\* A working import that changes what neither its request nor its duplicate is.
LEMMA Advancing ==
  ASSUME NEW q, NEW n, IsImport(q), q.phase \in Working,
         DOMAIN n = DOMAIN q, n.phase \in Working, n.request = q.request, n.dup = q.dup
  PROVE  IsImport(n)
  BY DEF IsImport

\* Each entry of the contents that the tier takes off the list is accounted for.
Handled(i, n) ==
  \A key \in imp[i].contents :
    \/ key \in n.contents \cup Keys(n.pending)
    \/ key \in Keys(store) \cup Blamed(n.errors) \cup {CollectionKey(i)}

LEMMA GatedFields ==
  ASSUME TypeOK, NEW i \in Importers
  PROVE  LET g == Gated(i) IN
         /\ DOMAIN g = DOMAIN imp[i]
         /\ g.phase = imp[i].phase /\ g.request = imp[i].request /\ g.dup = imp[i].dup
         /\ g.pending = imp[i].pending /\ g.names = imp[i].names /\ g.known = imp[i].known
         /\ g.left = imp[i].left \ {FirstType(imp[i].left)}
         /\ g.contents = imp[i].contents \ {makeKeyFromObject(o) : o \in Tier(i)}
         /\ imp[i].errors \subseteq g.errors
         /\ Errors(Tier(i) \ Eligible(i), "attackSpecVersionViolation") \subseteq g.errors
  <1>1. DOMAIN imp[i] = DOMAIN Idle
    BY DEF TypeOK, IsImport
  <1> DEFINE q == imp[i]
  <1> HIDE DEF q
  <1>2. DOMAIN q = DOMAIN Idle
    BY <1>1 DEF q
  <1> QED
    BY <1>2, Fields DEF Gated, q

LEMMA BlamedErrors ==
  ASSUME NEW objects, NEW kind
  PROVE  Blamed(Errors(objects, kind)) = Keys(objects)
  <1>1. \A k : <<k, kind>>[1] = k
    OBVIOUS
  <1>2. ASSUME NEW o \in objects
        PROVE  makeKeyFromObject(o) \in Blamed(Errors(objects, kind))
    <2>1. <<makeKeyFromObject(o), kind>> \in Errors(objects, kind)
      BY DEF Errors
    <2> QED
      BY <1>1, <2>1 DEF Blamed
  <1>3. ASSUME NEW e \in Errors(objects, kind)
        PROVE  e[1] \in Keys(objects)
    BY <1>1, <1>3 DEF Errors, Keys
  <1> QED
    BY <1>2, <1>3 DEF Keys, Blamed

LEMMA BlamedGrows ==
  ASSUME NEW e, NEW f, e \subseteq f
  PROVE  Blamed(e) \subseteq Blamed(f)
  BY DEF Blamed

LEMMA BlamedUnion ==
  ASSUME NEW e, NEW f
  PROVE  Blamed(e \cup f) = Blamed(e) \cup Blamed(f)
  BY DEF Blamed

\* An object that is ready to be composed is stored, or is left to be stored, or is blamed.
LEMMA Composing ==
  ASSUME NEW i \in Importers, ~Req(i).preview, NEW o \in Eligible(i)
  PROVE  \/ makeKeyFromObject(o) \in Keys(store)
         \/ o \in Composed(i)
         \/ makeKeyFromObject(o) \in Blamed(ComposeErrors(i))
  <1>1. CASE o \notin Fresh(i)
    <2>1. PICK d \in store : d.id = o.id /\ d.modified = o.modified
      BY <1>1 DEF Fresh, checkForDuplicate, Existing
    <2> QED
      BY <2>1 DEF Keys, makeKeyFromObject
  <1>2. CASE o \in Fresh(i) /\ Invalid(o)
    <2> DEFINE bad == {p \in Fresh(i) : Invalid(p)}
    <2>1. makeKeyFromObject(o) \in Keys(bad)
      BY <1>2 DEF Keys
    <2>2. Errors(bad, "validationError") \subseteq ComposeErrors(i)
      BY DEF ComposeErrors
    <2> HIDE DEF bad
    <2> QED
      BY <2>1, <2>2, BlamedErrors, BlamedGrows
  <1>3. CASE o \in Fresh(i) /\ ~o.accepted
    <2> DEFINE bad == {p \in Fresh(i) : ~p.accepted}
    <2>1. makeKeyFromObject(o) \in Keys(bad)
      BY <1>3 DEF Keys
    <2>2. Errors(bad, "saveError") \subseteq ComposeErrors(i)
      BY DEF ComposeErrors
    <2> HIDE DEF bad
    <2> QED
      BY <2>1, <2>2, BlamedErrors, BlamedGrows
  <1>4. CASE o \in Fresh(i) /\ o.accepted /\ ~Invalid(o)
    BY <1>4 DEF Composed
  <1> QED
    BY <1>1, <1>2, <1>3, <1>4

\* An object of the tier that can be stored is stored already, or is left to be stored.
Lands(i, n) ==
  ~Req(i).preview =>
    \A o \in Bundle(i).objects : Storable(Req(i), o) /\ o.type \in imp[i].left =>
      Present(o) \/ o.type \in n.left \/ o \in n.pending

LEMMA Landing ==
  ASSUME NEW i \in Importers, NEW n,
         n.left = imp[i].left \ {FirstType(imp[i].left)},
         \/ n.pending = Composed(i)
         \/ FirstType(imp[i].left) \in Unreadable
         \/ ~HasService(FirstType(imp[i].left))
  PROVE  Lands(i, n)
  <1> SUFFICES ASSUME ~Req(i).preview,
                      NEW o \in Bundle(i).objects, Storable(Req(i), o), o.type \in imp[i].left,
                      o.type \notin n.left
               PROVE  Present(o) \/ o \in n.pending
    BY DEF Lands
  <1>1. o.type = FirstType(imp[i].left)
    OBVIOUS
  <1>2. n.pending = Composed(i)
    BY <1>1 DEF Storable
  <1>3. o \in Eligible(i)
    BY <1>1 DEF Eligible, Tier, Storable
  <1>4. CASE o \in Fresh(i)
    BY <1>2, <1>4 DEF Composed, Storable
  <1>5. CASE o \notin Fresh(i)
    <2>1. PICK d \in store : d.id = o.id /\ d.modified = o.modified
      BY <1>3, <1>5 DEF Fresh, checkForDuplicate, Existing
    <2> QED
      BY <2>1 DEF Present, makeKeyFromObject
  <1> QED
    BY <1>4, <1>5

\* There is one collection in a bundle that was let in.
LEMMA OneCollection ==
  ASSUME ImportAssumption, NEW r \in DOMAIN Requests, ~Refused(Requests[r]),
         NEW o \in Requests[r].bundle.objects, o.type = "x-mitre-collection"
  PROVE  o = TheCollection(Requests[r].bundle)
  <1> DEFINE objects == Requests[r].bundle.objects
             found == {p \in objects : p.type = "x-mitre-collection"}
  <1>1. Cardinality(found) = 1
    BY DEF Refused, shouldBlockImport
  <1>2. IsFiniteSet(found)
    BY FS_Subset DEF ImportAssumption
  <1>3. \E x : found = {x}
    BY <1>1, <1>2, FS_Singleton
  <1>4. found = {o}
    BY <1>3
  <1> QED
    BY <1>4 DEF TheCollection

\* What is left of a tier: its errors, and those for the objects that got past the gate.
LEMMA TierHandled ==
  ASSUME TypeOK, NEW i \in Importers, NEW n,
         n.contents = imp[i].contents \ {makeKeyFromObject(o) : o \in Tier(i)},
         Gated(i).errors \subseteq n.errors,
         \A o \in Eligible(i) :
           makeKeyFromObject(o) \in Keys(n.pending) \cup Keys(store) \cup Blamed(n.errors)
                                    \cup {CollectionKey(i)}
  PROVE  Handled(i, n)
  <1> DEFINE rest == Tier(i) \ Eligible(i)
  <1>1. Keys(rest) \subseteq Blamed(n.errors)
    <2>1. Errors(rest, "attackSpecVersionViolation") \subseteq n.errors
      BY GatedFields
    <2> HIDE DEF rest
    <2> QED
      BY <2>1, BlamedErrors, BlamedGrows
  <1>2. ASSUME NEW o \in Tier(i)
        PROVE  makeKeyFromObject(o) \in Keys(n.pending) \cup Keys(store) \cup Blamed(n.errors)
                                        \cup {CollectionKey(i)}
    BY <1>1 DEF Keys
  <1> QED
    BY <1>2 DEF Handled

LEMMA TierEffect ==
  ASSUME TypeOK, ImportAssumption, NEW i \in Importers, processTier(i)
  PROVE  LET n == imp'[i] IN
         /\ UNCHANGED Database
         /\ imp[i].phase = "tiers" /\ imp[i].pending = {}
         /\ Alters(i) /\ n.request = imp[i].request
         /\ \/ n.phase = "failed" /\ GateThrows(i)
            \/ /\ n.phase = "tiers" /\ n.dup = imp[i].dup /\ imp[i].errors \subseteq n.errors
               /\ ~Req(i).preview => Handled(i, n)
               /\ Lands(i, n) /\ n.left \subseteq imp[i].left
  <1> DEFINE g == Gated(i)
             q == imp[i]
  <1>0. UNCHANGED Database /\ q.phase = "tiers" /\ q.pending = {}
    BY DEF processTier, Database
  <1>1. /\ DOMAIN g = DOMAIN Idle /\ g.phase = "tiers" /\ g.request = q.request /\ g.dup = q.dup
        /\ g.pending = {} /\ q.errors \subseteq g.errors
        /\ g.left = q.left \ {FirstType(q.left)}
        /\ g.contents = q.contents \ {makeKeyFromObject(o) : o \in Tier(i)}
    BY <1>0, GatedFields DEF TypeOK, IsImport
  <1>2. ASSUME NEW n, imp' = [imp EXCEPT ![i] = n],
               DOMAIN n = DOMAIN Idle, n.phase = "tiers", n.request = q.request, n.dup = q.dup
        PROVE  Alters(i) /\ imp'[i] = n
    <2>1. IsImport(n)
      BY <1>0, <1>2, Advancing DEF Working, TypeOK, IsImport
    <2> QED
      BY <1>2, <2>1, Going
  <1>3. CASE GateThrows(i) /\ Fails(i)
    BY <1>0, <1>3, Ending DEF Fails, Ended
  <1>4. CASE Compose(i)
    <2> DEFINE categories ==
                 q.categories
                 \cup {<<"duplicates", o.id>> : o \in Eligible(i) \ Fresh(i)}
                 \cup UNION {{<<c, o.id>> : c \in categorizeObject(o, Existing({o.id}))} :
                               o \in Fresh(i)}
               names == q.names \cup UNION {processExternalReferences(o) : o \in Fresh(i)}
               errors == g.errors \cup IF Req(i).preview THEN {} ELSE ComposeErrors(i)
               c == g.categories
                    \cup {<<"duplicates", o.id>> : o \in Eligible(i) \ Fresh(i)}
                    \cup UNION {{<<c, o.id>> : c \in categorizeObject(o, Existing({o.id}))} :
                                  o \in Fresh(i)}
               m == g.names \cup UNION {processExternalReferences(o) : o \in Fresh(i)}
               n == [g EXCEPT !.pending = Composed(i), !.categories = c, !.names = m,
                              !.errors = errors]
    <2>1. imp' = [imp EXCEPT ![i] = n]
      BY <1>4 DEF Compose
    <2>2. /\ DOMAIN n = DOMAIN Idle /\ n.phase = "tiers" /\ n.request = q.request /\ n.dup = q.dup
          /\ n.contents = g.contents /\ n.pending = Composed(i) /\ n.errors = errors
          /\ n.left = g.left
      <3> HIDE DEF g, q, c, m, errors
      <3> QED
        BY <1>1, Fields
    <2> HIDE DEF n
    <2>3. Alters(i) /\ imp'[i] = n
      BY <1>2, <2>1, <2>2
    <2>4. ~Req(i).preview => Handled(i, n)
      <3> SUFFICES ASSUME ~Req(i).preview PROVE Handled(i, n)
        OBVIOUS
      <3>1. Blamed(ComposeErrors(i)) \subseteq Blamed(n.errors)
        BY <2>2, BlamedGrows
      <3>2. ASSUME NEW o \in Eligible(i)
            PROVE  makeKeyFromObject(o) \in Keys(n.pending) \cup Keys(store) \cup Blamed(n.errors)
        BY <2>2, <3>1, Composing DEF Keys
      <3> QED
        BY <1>1, <2>2, <3>2, TierHandled
    <2>5. Lands(i, n)
      BY <1>1, <2>2, Landing
    <2> QED
      BY <1>0, <1>1, <2>2, <2>3, <2>4, <2>5
  <1>5. ASSUME NEW objects,
               imp' = [imp EXCEPT ![i] = [g EXCEPT !.errors = @ \cup objects]],
               \A o \in Eligible(i) : makeKeyFromObject(o) \in Blamed(objects) \cup {CollectionKey(i)},
               FirstType(q.left) \in Unreadable \/ ~HasService(FirstType(q.left))
        PROVE  /\ Alters(i) /\ imp'[i].request = q.request
               /\ imp'[i].phase = "tiers" /\ imp'[i].dup = q.dup /\ q.errors \subseteq imp'[i].errors
               /\ Handled(i, imp'[i])
               /\ Lands(i, imp'[i]) /\ imp'[i].left \subseteq q.left
    <2> DEFINE n == [g EXCEPT !.errors = g.errors \cup objects]
    <2>1. imp' = [imp EXCEPT ![i] = n]
      BY <1>5
    <2>2. /\ DOMAIN n = DOMAIN Idle /\ n.phase = "tiers" /\ n.request = q.request /\ n.dup = q.dup
          /\ n.contents = g.contents /\ n.errors = g.errors \cup objects /\ n.left = g.left
      <3> HIDE DEF g, q
      <3> QED
        BY <1>1, Fields
    <2> HIDE DEF n
    <2>3. Alters(i) /\ imp'[i] = n
      BY <1>2, <2>1, <2>2
    <2>4. Handled(i, n)
      <3>1. Blamed(objects) \subseteq Blamed(n.errors)
        BY <2>2, BlamedGrows
      <3> QED
        BY <1>1, <1>5, <2>2, <3>1, TierHandled
    <2>5. Lands(i, n)
      BY <1>1, <1>5, <2>2, Landing
    <2> QED
      BY <1>1, <2>2, <2>3, <2>4, <2>5
  <1>6. CASE /\ FirstType(imp[i].left) \in Unreadable
             /\ imp' = [imp EXCEPT ![i] = [g EXCEPT !.errors = @ \cup Errors(Eligible(i), "retrievalError")]]
    <2>1. \A o \in Eligible(i) : makeKeyFromObject(o) \in Blamed(Errors(Eligible(i), "retrievalError"))
      BY BlamedErrors DEF Keys
    <2> HIDE DEF g
    <2> QED
      BY <1>0, <1>5, <1>6, <2>1
  <1>7. CASE /\ ~HasService(FirstType(imp[i].left))
             /\ imp' = [imp EXCEPT ![i] = [g EXCEPT
                  !.errors = @ \cup IF FirstType(imp[i].left) = "x-mitre-collection" THEN {}
                                    ELSE Errors(Eligible(i), "unknownObjectType")]]
    <2> DEFINE objects == IF FirstType(imp[i].left) = "x-mitre-collection" THEN {}
                          ELSE Errors(Eligible(i), "unknownObjectType")
    <2>1. ASSUME NEW o \in Eligible(i)
          PROVE  makeKeyFromObject(o) \in Blamed(objects) \cup {CollectionKey(i)}
      <3>1. CASE FirstType(imp[i].left) = "x-mitre-collection"
        <4>1. o \in Bundle(i).objects /\ o.type = "x-mitre-collection"
          BY <3>1 DEF Eligible, Tier
        <4>2. imp[i].request \in DOMAIN Requests /\ ~Refused(Requests[imp[i].request])
          BY <1>0 DEF TypeOK, IsImport, Working
        <4> QED
          BY <4>1, <4>2, OneCollection DEF CollectionKey, Bundle, Req
      <3>2. CASE FirstType(imp[i].left) # "x-mitre-collection"
        BY <3>2, BlamedErrors DEF Keys
      <3> QED
        BY <3>1, <3>2
    <2>2. imp' = [imp EXCEPT ![i] = [g EXCEPT !.errors = @ \cup objects]]
      BY <1>7
    <2> HIDE DEF g, objects
    <2> QED
      BY <1>0, <1>5, <1>7, <2>1, <2>2
  <1> QED
    BY <1>3, <1>4, <1>6, <1>7 DEF processTier

LEMMA SaveManyEffect ==
  ASSUME TypeOK, NEW i \in Importers, NEW o \in imp[i].pending, saveMany(i, o)
  PROVE  LET n == imp'[i] IN
         /\ UNCHANGED <<colls, refs, job, jobs, others, stolen>>
         /\ store \subseteq store'
         /\ \A d \in store' : d \in store \/ DOMAIN d = DOMAIN Document(d, {})
         /\ imp[i].phase = "tiers" /\ Alters(i) /\ n.phase = "tiers"
         /\ n.request = imp[i].request /\ n.dup = imp[i].dup /\ n.contents = imp[i].contents
         /\ imp[i].errors \subseteq n.errors
         /\ Keys(imp[i].pending) \subseteq Keys(n.pending) \cup Keys(store') \cup Blamed(n.errors)
         /\ n.left = imp[i].left /\ n.pending = imp[i].pending \ {o} /\ Present(o)'
  <1> DEFINE q == imp[i]
             taken == UniqueIndex(o) \in {UniqueIndex(d) : d \in store}
             errors == IF taken THEN Errors({o}, "saveError") ELSE {}
             n == imp'[i]
             doc == Document(o, {CollectionKey(i)})
  <1>0. q.phase = "tiers" /\ UNCHANGED <<colls, refs, job, jobs, others, stolen>>
    BY DEF saveMany
  <1>1. DOMAIN q = DOMAIN Idle
    BY DEF TypeOK, IsImport
  <1>2. /\ DOMAIN imp' = Importers /\ \A j \in Importers \ {i} : imp'[j] = imp[j]
        /\ DOMAIN n = DOMAIN Idle /\ n.phase = q.phase /\ n.request = q.request /\ n.dup = q.dup
        /\ n.contents = q.contents /\ n.pending = q.pending \ {o} /\ n.errors = q.errors \cup errors
        /\ n.left = q.left
    <2>1. imp' = [imp EXCEPT ![i].pending = @ \ {o}, ![i].errors = @ \cup errors]
      BY DEF saveMany
    <2> HIDE DEF errors
    <2> QED
      BY <1>1, <2>1, Fields DEF TypeOK
  <1>4. store' = IF taken THEN store ELSE store \cup {doc}
    BY DEF saveMany
  <1>5. Alters(i)
    BY <1>0, <1>1, <1>2, Advancing DEF TypeOK, Working, Alters
  <1>6. makeKeyFromObject(o) \in Keys(store') \cup Blamed(n.errors)
    <2>1. CASE taken
      <3>1. Errors({o}, "saveError") \subseteq n.errors /\ makeKeyFromObject(o) \in Keys({o})
        BY <1>2, <2>1 DEF Keys
      <3> QED
        BY <3>1, BlamedErrors, BlamedGrows
    <2>2. CASE ~taken
      <3>1. doc \in store' /\ makeKeyFromObject(doc) = makeKeyFromObject(o)
        BY <1>4, <2>2 DEF Document, makeKeyFromObject
      <3> QED
        BY <3>1 DEF Keys
    <2> QED
      BY <2>1, <2>2
  <1>7. Keys(q.pending) \subseteq Keys(n.pending) \cup {makeKeyFromObject(o)}
    BY <1>2 DEF Keys
  <1>8. DOMAIN doc = DOMAIN Document(doc, {})
    BY Fields
  <1>9. \E d \in store' : UniqueIndex(d) = UniqueIndex(o)
    <2>1. UniqueIndex(doc) = UniqueIndex(o)
      BY DEF Document, UniqueIndex
    <2> HIDE DEF doc
    <2> QED
      BY <1>4, <2>1
  <1>10. Present(o)'
    BY <1>9 DEF Present
  <1> QED
    BY <1>0, <1>2, <1>4, <1>5, <1>6, <1>7, <1>8, <1>10

LEMMA ReadEffect ==
  ASSUME TypeOK, NEW i \in Importers, ReadReferences(i)
  PROVE  LET n == imp'[i] IN
         /\ UNCHANGED Database
         /\ imp[i].phase = "tiers" /\ imp[i].left = {} /\ imp[i].pending = {}
         /\ Alters(i) /\ n.phase = "references"
         /\ n.request = imp[i].request /\ n.dup = imp[i].dup
         /\ n.known = refs /\ n.names = imp[i].names
         /\ imp[i].contents \subseteq Blamed(n.errors) /\ imp[i].errors \subseteq n.errors
  <1> DEFINE q == imp[i]
             missing == {<<k, "missingObject">> : k \in q.contents}
             n == [q EXCEPT !.phase = "references", !.known = refs, !.errors = q.errors \cup missing]
  <1>0. q.phase = "tiers" /\ q.left = {} /\ q.pending = {} /\ UNCHANGED Database
    BY DEF ReadReferences, Database
  <1>1. DOMAIN q = DOMAIN Idle
    BY DEF TypeOK, IsImport
  <1>2. /\ DOMAIN n = DOMAIN Idle /\ n.phase = "references" /\ n.request = q.request
        /\ n.dup = q.dup /\ n.names = q.names /\ n.known = refs /\ n.errors = q.errors \cup missing
    <2> HIDE DEF q, missing
    <2> QED
      BY <1>1, Fields
  <1>3. imp' = [imp EXCEPT ![i] = n]
    BY <1>1, Fields DEF ReadReferences, TypeOK
  <1> HIDE DEF n
  <1>4. Alters(i) /\ imp'[i] = n
    <2>1. IsImport(q)
      BY DEF TypeOK
    <2>2. IsImport(n)
      BY <1>0, <1>1, <1>2, <2>1, Advancing DEF Working
    <2> QED
      BY <1>3, <2>2, Going
  <1>5. \A k \in q.contents : k \in Blamed(missing)
    <2>1. \A k : <<k, "missingObject">>[1] = k
      OBVIOUS
    <2> QED
      BY <2>1 DEF Blamed
  <1>6. Blamed(missing) \subseteq Blamed(n.errors)
    BY <1>2, BlamedGrows
  <1> QED
    BY <1>0, <1>2, <1>4, <1>5, <1>6

LEMMA ReferenceEffect ==
  ASSUME TypeOK, NEW i \in Importers, NEW name \in imp[i].names, importReferences(i, name)
  PROVE  LET n == imp'[i] IN
         /\ UNCHANGED <<store, colls, job, jobs, others, stolen>>
         /\ imp[i].phase = "references" /\ Alters(i) /\ n.request = imp[i].request
         /\ \/ n.phase = "failed" /\ name \in refs /\ name \notin imp[i].known
            \/ /\ n.phase = "references" /\ n.dup = imp[i].dup /\ n.errors = imp[i].errors
               /\ n.known = imp[i].known /\ n.names = imp[i].names \ {name}
               /\ refs' \subseteq refs \cup {name}
  <1> DEFINE q == imp[i]
             n == [q EXCEPT !.names = q.names \ {name}]
  <1>0. q.phase = "references" /\ UNCHANGED <<store, colls, job, jobs, others, stolen>>
    BY DEF importReferences
  <1>1. DOMAIN q = DOMAIN Idle
    BY DEF TypeOK, IsImport
  <1>2. /\ DOMAIN n = DOMAIN Idle /\ n.phase = q.phase /\ n.request = q.request
        /\ n.dup = q.dup /\ n.names = q.names \ {name} /\ n.known = q.known /\ n.errors = q.errors
    <2> HIDE DEF q
    <2> QED
      BY <1>1, Fields
  <1>3. CASE imp' = [imp EXCEPT ![i].names = @ \ {name}] /\ refs' \subseteq refs \cup {name}
    <2>1. imp' = [imp EXCEPT ![i] = n]
      BY <1>1, <1>3, Fields DEF TypeOK
    <2> HIDE DEF n
    <2>2. IsImport(q) /\ q.phase \in Working
      BY <1>0 DEF TypeOK, Working
    <2> HIDE DEF q
    <2>3. IsImport(n)
      BY <1>1, <1>2, <2>2, Advancing
    <2>4. Alters(i) /\ imp'[i] = n
      BY <2>1, <2>3, Going
    <2> QED
      BY <1>0, <1>2, <1>3, <2>4 DEF q
  <1>4. CASE Fails(i) /\ name \in refs /\ name \notin imp[i].known
    BY <1>0, <1>4, Ending DEF Fails, Ended
  <1> QED
    BY <1>3, <1>4 DEF importReferences

\* The collection is written back with one more import over it.
Rewrites(i, key) ==
  /\ imp[i].dup # None /\ key \in DOMAIN colls /\ colls[key].by = imp[i].dup.by
  /\ colls' = [colls EXCEPT ![key] = Reimported(i)]

\* The collection is new.
Adds(i, key) ==
  /\ imp[i].dup = None /\ key \notin DOMAIN colls
  /\ DOMAIN colls' = DOMAIN colls \cup {key}
  /\ colls'[key] = SavedCollection(i)
  /\ \A k \in DOMAIN colls : colls'[k] = colls[k]

LEMMA SaveCollectionEffect ==
  ASSUME TypeOK, NEW i \in Importers, saveCollection(i)
  PROVE  LET n == imp'[i] IN
         /\ UNCHANGED <<store, refs, job, jobs, others, stolen>>
         /\ imp[i].phase = "references" /\ Alters(i) /\ n.request = imp[i].request
         /\ \/ colls' = colls /\ n.phase = "done"
            \/ /\ colls' = colls /\ n.phase = "failed" /\ ~Req(i).preview
               /\ \/ imp[i].dup # None \/ CollectionKey(i) \in DOMAIN colls
                  \/ ~TheCollection(Bundle(i)).accepted
            \/ /\ n.phase = "done" /\ ~Req(i).preview
               /\ Rewrites(i, CollectionKey(i)) \/ Adds(i, CollectionKey(i))
  <1> DEFINE key == CollectionKey(i)
             dup == imp[i].dup
             kept == key \in DOMAIN colls /\ dup # None /\ colls[key].by = dup.by
  <1>0. imp[i].phase = "references" /\ UNCHANGED <<store, refs, job, jobs, others, stolen>>
    BY DEF saveCollection
  <1>1. ASSUME NEW phase \in Ended, Ends(i, phase)
        PROVE  Alters(i) /\ imp'[i].phase = phase /\ imp'[i].request = imp[i].request
    BY <1>1, Ending
  <1>2. CASE Req(i).preview
    BY <1>0, <1>1, <1>2 DEF saveCollection, Ended
  <1>3. CASE ~Req(i).preview /\ dup # None /\ kept
    BY <1>0, <1>1, <1>3 DEF saveCollection, Ended, Rewrites
  <1>4. CASE ~Req(i).preview /\ dup # None /\ ~kept
    BY <1>0, <1>1, <1>4 DEF saveCollection, Ended
  <1>5. CASE ~Req(i).preview /\ dup = None /\ (~TheCollection(Bundle(i)).accepted \/ key \in DOMAIN colls)
    BY <1>0, <1>1, <1>5 DEF saveCollection, Ended, Fails
  <1>6. CASE ~Req(i).preview /\ dup = None /\ TheCollection(Bundle(i)).accepted /\ key \notin DOMAIN colls
    <2>1. /\ colls' = [k \in DOMAIN colls \cup {key} |-> IF k = key THEN SavedCollection(i) ELSE colls[k]]
          /\ Ends(i, "done")
      BY <1>6 DEF saveCollection
    <2>2. Adds(i, key)
      <3> HIDE DEF key
      <3> QED
        BY <1>6, <2>1 DEF Adds
    <2> QED
      BY <1>0, <1>1, <1>6, <2>1, <2>2 DEF Ended
  <1> QED
    BY <1>2, <1>3, <1>4, <1>5, <1>6

-----------------------------------------------------------------------------
(***************************************************************************)
(* What the other requests do.                                             *)
(***************************************************************************)
LEMMA CreateEffect ==
  ASSUME TypeOK, NEW c \in Collections, CreateCollection(c)
  PROVE  LET key == makeKeyFromObject(c) IN
         /\ UNCHANGED <<store, refs, imp, others, stolen>>
         /\ job.kind = "none" /\ jobs' = jobs + 1
         /\ DOMAIN job' = DOMAIN NoJob /\ job'.kind # "delete" /\ job'.gone = {} /\ job'.victim = None
         /\ key \notin DOMAIN colls /\ DOMAIN colls' = DOMAIN colls \cup {key}
         /\ IsCollection(colls'[key]) /\ colls'[key].by = jobs /\ colls'[key].exported = 0
         /\ \A k \in DOMAIN colls : colls'[k] = colls[k]
  <1> DEFINE key == makeKeyFromObject(c)
             new == [contents |-> c.contents, by |-> jobs, errors |-> {}, reimports |-> {}, exported |-> 0]
             kind == IF c.contents = {} THEN "none" ELSE "mark"
             work == {<<key, k>> : k \in c.contents}
             j == [NoJob EXCEPT !.kind = kind, !.work = work]
  <1>1. /\ UNCHANGED <<store, refs, imp, others, stolen>> /\ job.kind = "none" /\ jobs' = jobs + 1
        /\ key \notin DOMAIN colls /\ job' = j
        /\ colls' = [k \in DOMAIN colls \cup {key} |-> IF k \in DOMAIN colls THEN colls[k] ELSE new]
    BY DEF CreateCollection
  <1>2. DOMAIN j = DOMAIN NoJob /\ j.kind = kind /\ j.gone = {} /\ j.victim = None
    <2> HIDE DEF kind, work
    <2> QED
      BY DEF NoJob
  <1>3. IsCollection(new) /\ new.by = jobs /\ new.exported = 0
    BY DEF IsCollection
  <1> HIDE DEF key, new, j
  <1>4. /\ DOMAIN colls' = DOMAIN colls \cup {key} /\ colls'[key] = new
        /\ \A k \in DOMAIN colls : colls'[k] = colls[k]
    BY <1>1
  <1> QED
    BY <1>1, <1>2, <1>3, <1>4 DEF key

LEMMA MarkEffect ==
  ASSUME TypeOK, NEW item \in job.work, insertCollection(item)
  PROVE  /\ UNCHANGED <<colls, refs, imp, jobs, others, stolen>>
         /\ job.kind = "mark" /\ Keys(store') = Keys(store)
         /\ \A d \in store' : DOMAIN d = DOMAIN Document(d, {})
         /\ job' = NoJob \/ (/\ DOMAIN job' = DOMAIN NoJob /\ job'.kind = "mark"
                             /\ job'.gone = job.gone /\ job'.victim = job.victim)
  <1>1. UNCHANGED <<colls, refs, imp, jobs, others, stolen>> /\ job.kind = "mark"
    BY DEF insertCollection
  <1> DEFINE marked(d) == [d EXCEPT !.collections = @ \cup {item[1]}]
             M(d) == IF d.type # Marking /\ makeKeyFromObject(d) = item[2] THEN marked(d) ELSE d
  <1>2. store' = {M(d) : d \in store}
    BY DEF insertCollection
  <1>3. ASSUME NEW d \in store
        PROVE  makeKeyFromObject(M(d)) = makeKeyFromObject(d) /\ DOMAIN M(d) = DOMAIN Document(M(d), {})
    <2>1. DOMAIN d = {"id", "type", "modified", "version", "status", "collections"}
      BY Fields DEF TypeOK
    <2>2. DOMAIN marked(d) = DOMAIN d /\ marked(d).id = d.id /\ marked(d).modified = d.modified
      BY <2>1
    <2> HIDE DEF marked
    <2> QED
      BY <2>1, <2>2, Fields DEF makeKeyFromObject
  <1> HIDE DEF M
  <1>4. Keys(store') = Keys(store)
    BY <1>2, <1>3 DEF Keys
  <1>5. job' = NoJob \/ job' = [job EXCEPT !.work = @ \ {item}]
    BY DEF insertCollection
  <1> QED
    BY <1>1, <1>2, <1>3, <1>4, <1>5, Fields DEF TypeOK

LEMMA DeleteEffect ==
  ASSUME TypeOK, NEW gone, NEW every, NEW withContents, DeleteCollections(gone, every, withContents)
  PROVE  /\ UNCHANGED <<store, colls, refs, imp, others, stolen>>
         /\ job.kind = "none" /\ jobs' = jobs + 1
         /\ DOMAIN job' = DOMAIN NoJob /\ job'.kind = "delete" /\ job'.victim = None
  <1> DEFINE work == IF withContents
                     THEN UNION {{<<k, c>> : c \in colls[k].contents} : k \in gone}
                     ELSE {}
  <1>1. job' = [NoJob EXCEPT !.kind = "delete", !.gone = gone, !.all = every, !.work = work]
    BY DEF DeleteCollections
  <1> HIDE DEF work
  <1> QED
    BY <1>1 DEF DeleteCollections, NoJob

LEMMA CheckEffect ==
  ASSUME TypeOK, NEW item \in job.work, CheckContent(item)
  PROVE  /\ UNCHANGED <<store, colls, refs, imp, jobs, others, stolen>>
         /\ job.kind = "delete" /\ job.victim = None
         /\ DOMAIN job' = DOMAIN NoJob /\ job'.kind = "delete"
         /\ job'.gone = job.gone /\ job'.all = job.all
         /\ job'.seen = {i \in Importers : imp[i].phase \notin Ended}
         /\ job'.victim = None \/ findWithContents(job'.victim) = {}
  <1> DEFINE victim == IF retrieveOneByVersionLean(item[2]) # {} /\ findWithContents(item[2]) = {}
                       THEN item[2] ELSE None
             seen == {i \in Importers : imp[i].phase \notin Ended}
  <1>1. /\ job' = [job EXCEPT !.work = @ \ {item}, !.victim = victim, !.seen = seen]
        /\ UNCHANGED <<store, colls, refs, imp, jobs, others, stolen>>
        /\ job.kind = "delete" /\ job.victim = None
    BY DEF CheckContent
  <1>2. victim = None \/ findWithContents(victim) = {}
    OBVIOUS
  <1> HIDE DEF victim, seen
  <1>3. /\ DOMAIN job' = DOMAIN job /\ job'.kind = job.kind /\ job'.gone = job.gone
        /\ job'.all = job.all /\ job'.seen = seen /\ job'.victim = victim
    BY <1>1, Fields DEF TypeOK
  <1> QED
    BY <1>1, <1>2, <1>3 DEF TypeOK, seen

LEMMA FindByIdEffect ==
  ASSUME TypeOK, findByIdAndDelete
  PROVE  /\ UNCHANGED <<colls, refs, imp, jobs, others>>
         /\ job.kind = "delete" /\ job.victim # None
         /\ store' \subseteq store /\ Keys(store) \subseteq Keys(store') \cup {job.victim}
         /\ stolen \subseteq stolen'
         /\ \A i \in job.seen : imp[i].phase # "idle" => <<i, job.victim>> \in stolen'
         /\ DOMAIN job' = DOMAIN NoJob /\ job'.kind = "delete" /\ job'.victim = None
         /\ job'.gone = job.gone /\ job'.all = job.all
  <1>1. /\ UNCHANGED <<colls, refs, imp, jobs, others>>
        /\ job.kind = "delete" /\ job.victim # None
        /\ job' = [job EXCEPT !.victim = None]
        /\ store' = store \ retrieveOneByVersionLean(job.victim)
        /\ stolen' = stolen \cup {<<i, job.victim>> : i \in {j \in job.seen : imp[j].phase # "idle"}}
    BY DEF findByIdAndDelete
  <1>2. Keys(store) \subseteq Keys(store') \cup {job.victim}
    BY <1>1 DEF Keys, retrieveOneByVersionLean
  <1>3. /\ DOMAIN job' = DOMAIN NoJob /\ job'.kind = "delete" /\ job'.victim = None
        /\ job'.gone = job.gone /\ job'.all = job.all
    BY <1>1, Fields DEF TypeOK
  <1> QED
    BY <1>1, <1>2, <1>3

LEMMA DeleteManyEffect ==
  ASSUME TypeOK, deleteMany
  PROVE  /\ UNCHANGED <<store, refs, imp, jobs, others, stolen>>
         /\ job.kind = "delete" /\ job.victim = None /\ job' = NoJob
         /\ DOMAIN colls' = {k \in DOMAIN colls : ~Doomed(k)}
         /\ \A k \in DOMAIN colls' : colls'[k] = colls[k]
  <1> DEFINE doomed == {k \in DOMAIN colls : Doomed(k)}
  <1>1. /\ UNCHANGED <<store, refs, imp, jobs, others, stolen>>
        /\ job.kind = "delete" /\ job.victim = None /\ job' = NoJob
        /\ colls' = Without(colls, doomed)
    BY DEF deleteMany
  <1>2. DOMAIN colls' = DOMAIN colls \ doomed /\ \A k \in DOMAIN colls' : colls'[k] = colls[k]
    <2> HIDE DEF doomed
    <2> QED
      BY <1>1 DEF Without
  <1> QED
    BY <1>1, <1>2

LEMMA ExportEffect ==
  ASSUME TypeOK, NEW key \in DOMAIN colls, insertExport(key)
  PROVE  /\ UNCHANGED <<store, refs, imp, job, jobs, stolen>> /\ others' = others + 1
         /\ DOMAIN colls' = DOMAIN colls
         /\ \A k \in DOMAIN colls \ {key} : colls'[k] = colls[k]
         /\ LET c == colls[key]  d == colls'[key] IN
              /\ IsCollection(d) /\ d.by = c.by /\ d.contents = c.contents /\ d.errors = c.errors
              /\ d.reimports = c.reimports /\ d.exported = c.exported + 1
  <1> DEFINE c == colls[key]
             d == [c EXCEPT !.exported = @ + 1]
  <1>1. /\ UNCHANGED <<store, refs, imp, job, jobs, stolen>> /\ others' = others + 1
        /\ colls' = [colls EXCEPT ![key] = d]
    BY DEF insertExport
  <1>2. IsCollection(c)
    BY DEF TypeOK
  <1>3. /\ IsCollection(d) /\ d.by = c.by /\ d.contents = c.contents /\ d.errors = c.errors
        /\ d.reimports = c.reimports /\ d.exported = c.exported + 1
    <2> HIDE DEF c
    <2> QED
      BY <1>2 DEF IsCollection
  <1> HIDE DEF d
  <1> QED
    BY <1>1, <1>3

LEMMA RewriteEffect ==
  ASSUME TypeOK, NEW i \in Importers, imp[i].phase \in Working, NEW key, Rewrites(i, key)
  PROVE  /\ DOMAIN colls' = DOMAIN colls
         /\ \A k \in DOMAIN colls \ {key} : colls'[k] = colls[k]
         /\ LET c == imp[i].dup  d == colls'[key] IN
              /\ IsCollection(d) /\ d.by = c.by /\ d.contents = c.contents /\ d.errors = c.errors
              /\ c.reimports \subseteq d.reimports /\ d.exported = c.exported /\ c.exported \in Nat
  <1> DEFINE c == imp[i].dup
             d == Reimported(i)
  <1>1. IsCollection(c) /\ c.exported \in Nat
    BY DEF TypeOK, IsImport, Rewrites
  <1>2. /\ IsCollection(d) /\ d.by = c.by /\ d.contents = c.contents /\ d.errors = c.errors
        /\ c.reimports \subseteq d.reimports /\ d.exported = c.exported
    <2>1. d = [c EXCEPT !.reimports = @ \cup {Account(i)}]
      BY DEF Reimported
    <2> HIDE DEF c, d
    <2> QED
      BY <1>1, <2>1 DEF IsCollection
  <1> HIDE DEF d
  <1> QED
    BY <1>1, <1>2 DEF Rewrites, d

-----------------------------------------------------------------------------
(***************************************************************************)
(* The steps put together.                                                 *)
(***************************************************************************)
\* A deletion that begins, whichever request it is.
Deletes == \E gone, every, withContents : DeleteCollections(gone, every, withContents)

Unimporting ==
  \/ \E c \in Collections : CreateCollection(c)
  \/ \E item \in job.work : insertCollection(item) \/ CheckContent(item)
  \/ Deletes
  \/ findByIdAndDelete
  \/ deleteMany
  \/ \E k \in DOMAIN colls : insertExport(k)
  \/ \E name : CreateReference(name)

LEMMA Steps ==
  ASSUME [Next]_vars
  PROVE  UNCHANGED vars \/ (\E i \in Importers : Import(i)) \/ Unimporting
  <1>1. ASSUME NEW k \in DOMAIN colls, NEW contents \in BOOLEAN,
               delete(k[1], contents) \/ deleteVersionById(k, contents)
        PROVE  Deletes
    BY <1>1 DEF delete, deleteVersionById, Deletes
  <1> QED
    BY <1>1 DEF Next, Unimporting

LEMMA OtherSteps ==
  ASSUME TypeOK, Unimporting
  PROVE  UNCHANGED imp
  BY CreateEffect, MarkEffect, CheckEffect, DeleteEffect, FindByIdEffect, DeleteManyEffect,
     ExportEffect DEF Unimporting, Deletes, CreateReference

\* Of the documents only new ones are documents that were not there.
LEMMA TypeStep ==
  ASSUME TypeOK, ImportAssumption, [Next]_vars
  PROVE  TypeOK'
  <1>1. ASSUME NEW i \in Importers, Import(i)
        PROVE  TypeOK'
    <2>1. ASSUME Alters(i), UNCHANGED <<colls, job, jobs, others>>,
                 \A d \in store' : d \in store \/ DOMAIN d = DOMAIN Document(d, {})
          PROVE  TypeOK'
      BY <2>1 DEF TypeOK, Alters
    <2>2. ASSUME NEW r \in DOMAIN Requests, Begin(i, r)
          PROVE  TypeOK'
      BY <2>1, <2>2, BeginEffect DEF Database
    <2>3. CASE processTier(i)
      BY <2>1, <2>3, TierEffect DEF Database
    <2>4. ASSUME NEW o \in imp[i].pending, saveMany(i, o)
          PROVE  TypeOK'
      BY <2>1, <2>4, SaveManyEffect
    <2>5. CASE ReadReferences(i)
      BY <2>1, <2>5, ReadEffect DEF Database
    <2>6. ASSUME NEW name \in imp[i].names, importReferences(i, name)
          PROVE  TypeOK'
      BY <2>1, <2>6, ReferenceEffect
    <2>7. CASE saveCollection(i)
      <3>1. /\ UNCHANGED <<store, job, jobs, others>> /\ Alters(i) /\ imp[i].phase \in Working
            /\ colls' = colls \/ Rewrites(i, CollectionKey(i)) \/ Adds(i, CollectionKey(i))
        BY <2>7, SaveCollectionEffect DEF Working
      <3>2. CASE colls' = colls
        BY <2>1, <3>1, <3>2
      <3>3. \A k \in DOMAIN colls' : IsCollection(colls'[k]) /\ colls'[k].exported \in Nat
        <4>1. CASE colls' = colls
          BY <4>1 DEF TypeOK
        <4>2. CASE Rewrites(i, CollectionKey(i))
          BY <3>1, <4>2, RewriteEffect DEF TypeOK
        <4>3. CASE Adds(i, CollectionKey(i))
          <5>1. IsCollection(SavedCollection(i)) /\ SavedCollection(i).exported = 0
            BY DEF SavedCollection, IsCollection
          <5> QED
            BY <4>3, <5>1 DEF TypeOK, Adds
        <4> QED
          BY <3>1, <4>1, <4>2, <4>3
      <3> QED
        BY <3>1, <3>3 DEF TypeOK, Alters
    <2> QED
      BY <1>1, <2>2, <2>3, <2>4, <2>5, <2>6, <2>7 DEF Import
  <1>2. ASSUME NEW c \in Collections, CreateCollection(c)
        PROVE  TypeOK'
    <2> DEFINE key == makeKeyFromObject(c)
    <2>1. /\ UNCHANGED <<store, imp, others>> /\ jobs' = jobs + 1 /\ DOMAIN job' = DOMAIN NoJob
          /\ DOMAIN colls' = DOMAIN colls \cup {key}
          /\ IsCollection(colls'[key]) /\ colls'[key].exported = 0
          /\ \A k \in DOMAIN colls : colls'[k] = colls[k]
      BY <1>2, CreateEffect
    <2> HIDE DEF key
    <2>2. \A k \in DOMAIN colls' : IsCollection(colls'[k]) /\ colls'[k].exported \in Nat
      BY <2>1 DEF TypeOK
    <2> QED
      BY <2>1, <2>2 DEF TypeOK
  <1>3. ASSUME NEW item \in job.work, insertCollection(item)
        PROVE  TypeOK'
    BY <1>3, MarkEffect DEF TypeOK
  <1>4. ASSUME NEW item \in job.work, CheckContent(item)
        PROVE  TypeOK'
    BY <1>4, CheckEffect DEF TypeOK
  <1>5. ASSUME Deletes
        PROVE  TypeOK'
    BY <1>5, DeleteEffect DEF TypeOK, Deletes
  <1>6. ASSUME findByIdAndDelete
        PROVE  TypeOK'
    BY <1>6, FindByIdEffect DEF TypeOK
  <1>7. ASSUME deleteMany
        PROVE  TypeOK'
    BY <1>7, DeleteManyEffect DEF TypeOK
  <1>8. ASSUME NEW k \in DOMAIN colls, insertExport(k)
        PROVE  TypeOK'
    BY <1>8, ExportEffect DEF TypeOK
  <1>9. ASSUME NEW name, CreateReference(name)
        PROVE  TypeOK'
    BY <1>9 DEF TypeOK, CreateReference
  <1>10. CASE UNCHANGED vars
    BY <1>10 DEF TypeOK, vars
  <1> QED
    BY <1>1, <1>2, <1>3, <1>4, <1>5, <1>6, <1>7, <1>8, <1>9, <1>10, Steps DEF Unimporting

KeyOf(r) == makeKeyFromObject(TheCollection(Requests[r].bundle))

\* What any step makes of an import.
LEMMA ImportsFrom ==
  ASSUME TypeOK, ImportAssumption, [Next]_vars, NEW i \in Importers
  PROVE  LET q == imp[i]  n == imp'[i] IN
         /\ q.phase \in Ended => n = q
         /\ q.phase # "idle" => n.phase # "idle" /\ n.request = q.request
         /\ n.phase \in Working =>
              \/ q.phase \in Working /\ n.dup = q.dup
              \/ /\ q.phase = "idle" /\ UNCHANGED Database
                 /\ \/ n.dup = None
                    \/ KeyOf(n.request) \in DOMAIN colls /\ n.dup = colls[KeyOf(n.request)]
  <1> DEFINE Fine(j) ==
        LET q == imp[j]  n == imp'[j] IN
         /\ q.phase \in Ended => n = q
         /\ q.phase # "idle" => n.phase # "idle" /\ n.request = q.request
         /\ n.phase \in Working =>
              \/ q.phase \in Working /\ n.dup = q.dup
              \/ /\ q.phase = "idle" /\ UNCHANGED Database
                 /\ \/ n.dup = None
                    \/ KeyOf(n.request) \in DOMAIN colls /\ n.dup = colls[KeyOf(n.request)]
  <1>0. ASSUME imp'[i] = imp[i]
        PROVE  Fine(i)
    BY <1>0
  <1>1. ASSUME NEW j \in Importers, Import(j)
        PROVE  Alters(j)
    BY <1>1, BeginEffect, TierEffect, SaveManyEffect, ReadEffect, ReferenceEffect,
       SaveCollectionEffect DEF Import
  <1>2. ASSUME Import(i)
        PROVE  Fine(i)
    <2>1. ASSUME NEW r \in DOMAIN Requests, Begin(i, r)
          PROVE  Fine(i)
      BY <2>1, BeginEffect DEF Ended, KeyOf, Working
    <2>2. CASE processTier(i)
      BY <2>2, TierEffect DEF Ended, Working
    <2>3. ASSUME NEW o \in imp[i].pending, saveMany(i, o)
          PROVE  Fine(i)
      BY <2>3, SaveManyEffect DEF Ended, Working
    <2>4. CASE ReadReferences(i)
      BY <2>4, ReadEffect DEF Ended, Working
    <2>5. ASSUME NEW name \in imp[i].names, importReferences(i, name)
          PROVE  Fine(i)
      BY <2>5, ReferenceEffect DEF Ended, Working
    <2>6. CASE saveCollection(i)
      BY <2>6, SaveCollectionEffect DEF Ended, Working
    <2> QED
      BY <1>2, <2>1, <2>2, <2>3, <2>4, <2>5, <2>6 DEF Import
  <1>3. UNCHANGED vars => imp'[i] = imp[i]
    BY DEF vars
  <1>4. Unimporting => imp'[i] = imp[i]
    BY OtherSteps
  <1>5. \A j \in Importers \ {i} : Import(j) => imp'[i] = imp[i]
    BY <1>1 DEF Alters
  <1> HIDE DEF Fine
  <1>6. Fine(i)
    BY <1>0, <1>2, <1>3, <1>4, <1>5, Steps
  <1> QED
    BY <1>6 DEF Fine

SameCollection(c, d) == c.by = d.by /\ c.contents = d.contents /\ c.errors = d.errors

\* The import saves its collection, which was not there.
Saves(i, k) ==
  /\ imp[i].phase = "references" /\ imp'[i].phase = "done" /\ ~Req(i).preview
  /\ k = CollectionKey(i) /\ colls'[k] = SavedCollection(i)
  /\ UNCHANGED <<store, job, jobs, stolen>>

\* What any step makes of the collections.
LEMMA CollectionsFrom ==
  ASSUME TypeOK, Origins, [Next]_vars, NEW k \in DOMAIN colls'
  PROVE  \/ k \in DOMAIN colls /\ SameCollection(colls'[k], colls[k])
         \/ /\ colls'[k].by = jobs /\ jobs' = jobs + 1 /\ job.kind = "none"
            /\ job'.victim = None /\ UNCHANGED imp
         \/ \E i \in Importers : Saves(i, k)
  <1> DEFINE Same == k \in DOMAIN colls /\ SameCollection(colls'[k], colls[k])
  <1>0. colls' = colls => Same
    BY DEF SameCollection
  <1>1. ASSUME NEW i \in Importers, Import(i)
        PROVE  Same \/ Saves(i, k)
    <2>1. \/ colls' = colls
          \/ saveCollection(i)
      BY <1>1 DEF Import, Begin, processTier, saveMany, ReadReferences, importReferences
    <2>2. CASE saveCollection(i)
      <3>1. CASE Rewrites(i, CollectionKey(i))
        <4>1. imp[i].phase \in Working
          BY <2>2 DEF saveCollection, Working
        <4>2. SameOrigin(colls[CollectionKey(i)], imp[i].dup)
          BY <3>1, <4>1 DEF Origins, Rewrites
        <4>3. CASE k = CollectionKey(i)
          <5>1. k \in DOMAIN colls /\ colls[k].by = imp[i].dup.by
            BY <3>1, <4>3 DEF Rewrites
          <5>2. SameCollection(colls'[k], imp[i].dup)
            BY <3>1, <4>1, <4>3, RewriteEffect DEF SameCollection
          <5> QED
            BY <4>2, <4>3, <5>1, <5>2 DEF SameCollection, SameOrigin
        <4>4. CASE k # CollectionKey(i)
          <5>1. k \in DOMAIN colls /\ colls'[k] = colls[k]
            BY <3>1, <4>1, <4>4, RewriteEffect
          <5> QED
            BY <5>1 DEF SameCollection
        <4> QED
          BY <4>3, <4>4
      <3>2. CASE imp'[i].phase = "done" /\ ~Req(i).preview /\ Adds(i, CollectionKey(i))
        <4>1. CASE k = CollectionKey(i)
          BY <2>2, <3>2, <4>1, SaveCollectionEffect DEF Adds, Saves
        <4>2. CASE k # CollectionKey(i)
          BY <3>2, <4>2 DEF Adds, SameCollection
        <4> QED
          BY <4>1, <4>2
      <3> QED
        BY <1>0, <2>2, <3>1, <3>2, SaveCollectionEffect
    <2> QED
      BY <1>0, <2>1, <2>2
  <1>2. ASSUME NEW c \in Collections, CreateCollection(c)
        PROVE  \/ Same
               \/ /\ colls'[k].by = jobs /\ jobs' = jobs + 1 /\ job.kind = "none"
                  /\ job'.victim = None /\ UNCHANGED imp
    <2>1. CASE k \in DOMAIN colls
      BY <1>2, <2>1, CreateEffect DEF SameCollection
    <2>2. CASE k \notin DOMAIN colls
      BY <1>2, <2>2, CreateEffect
    <2> QED
      BY <2>1, <2>2
  <1>3. deleteMany => Same
    BY DeleteManyEffect DEF SameCollection
  <1>4. ASSUME NEW key \in DOMAIN colls, insertExport(key)
        PROVE  Same
    BY <1>4, ExportEffect DEF SameCollection
  <1>5. UNCHANGED vars => colls' = colls
    BY DEF vars
  <1>6. ASSUME NEW item \in job.work, insertCollection(item) \/ CheckContent(item)
        PROVE  colls' = colls
    BY <1>6 DEF insertCollection, CheckContent
  <1>7. Deletes \/ findByIdAndDelete \/ (\E name : CreateReference(name)) => colls' = colls
    BY DEF Deletes, DeleteCollections, findByIdAndDelete, CreateReference
  <1> HIDE DEF Same
  <1>8. \/ Same
        \/ /\ colls'[k].by = jobs /\ jobs' = jobs + 1 /\ job.kind = "none"
           /\ job'.victim = None /\ UNCHANGED imp
        \/ \E i \in Importers : Saves(i, k)
    BY <1>0, <1>1, <1>2, <1>3, <1>4, <1>5, <1>6, <1>7, Steps DEF Unimporting
  <1> QED
    BY <1>8 DEF Same

LEMMA JobsGrow ==
  ASSUME TypeOK, [Next]_vars
  PROVE  jobs' \in {jobs, jobs + 1} /\ others' \in {others, others + 1} /\ stolen \subseteq stolen'
  <1>1. \A i \in Importers : Import(i) => UNCHANGED <<jobs, others, stolen>>
    BY DEF Import, Begin, processTier, saveMany, ReadReferences, importReferences, saveCollection
  <1>2. Unimporting => jobs' \in {jobs, jobs + 1} /\ others' \in {others, others + 1}
                       /\ stolen \subseteq stolen'
    BY CreateEffect, MarkEffect, CheckEffect, DeleteEffect, FindByIdEffect, DeleteManyEffect,
       ExportEffect DEF Unimporting, Deletes, CreateReference
  <1> QED
    BY <1>1, <1>2, Steps DEF vars

LEMMA AuthorKept ==
  ASSUME TypeOK, ImportAssumption, [Next]_vars, NEW a, Author(a)
  PROVE  (a \in Nat /\ a < jobs') \/ (a \in Importers /\ imp'[a].phase \in Ended)
  BY JobsGrow, ImportsFrom DEF Author, TypeOK

\* Neither the number of the next request nor a working import is an author yet.
LEMMA NewAuthors ==
  ASSUME TypeOK, ImportAssumption, NEW a, Author(a)
  PROVE  a # jobs /\ (a \in Importers => imp[a].phase \in Ended)
  BY DEF Author, TypeOK, ImportAssumption

LEMMA OriginsStep ==
  ASSUME TypeOK, Origins, ImportAssumption, [Next]_vars
  PROVE  Origins'
  <1>1. ASSUME NEW k \in DOMAIN colls'
        PROVE  \/ colls'[k].by \in Nat /\ colls'[k].by < jobs'
               \/ colls'[k].by \in Importers /\ imp'[colls'[k].by].phase \in Ended
    <2>1. CASE k \in DOMAIN colls /\ SameCollection(colls'[k], colls[k])
      <3>1. Author(colls[k].by) /\ colls'[k].by = colls[k].by
        BY <2>1 DEF Origins, SameCollection
      <3> QED
        BY <3>1, AuthorKept
    <2>2. CASE colls'[k].by = jobs /\ jobs' = jobs + 1
      BY <2>2 DEF TypeOK
    <2>3. ASSUME NEW i \in Importers, Saves(i, k)
          PROVE  colls'[k].by = i /\ imp'[i].phase \in Ended
      BY <2>3 DEF Saves, SavedCollection, Ended
    <2> QED
      BY <2>1, <2>2, <2>3, CollectionsFrom
  <1>2. ASSUME NEW i \in Importers, imp'[i].phase \in Working, imp'[i].dup # None
        PROVE  LET d == imp'[i].dup  k == KeyOf(imp'[i].request) IN
               /\ (d.by \in Nat /\ d.by < jobs') \/ (d.by \in Importers /\ imp'[d.by].phase \in Ended)
               /\ k \in DOMAIN colls' => SameOrigin(colls'[k], d)
    <2> DEFINE d == imp'[i].dup
               k == KeyOf(imp'[i].request)
    <2>1. CASE imp[i].phase \in Working /\ d = imp[i].dup
      <3>1. imp'[i].request = imp[i].request
        BY <2>1, ImportsFrom DEF Working
      <3>2. Author(d.by) /\ (k \in DOMAIN colls => SameOrigin(colls[k], d))
        BY <1>2, <2>1, <3>1 DEF Origins, CollectionKey, KeyOf, Bundle, Req
      <3>3. ASSUME k \in DOMAIN colls'
            PROVE  SameOrigin(colls'[k], d)
        <4>1. CASE k \in DOMAIN colls /\ SameCollection(colls'[k], colls[k])
          BY <3>2, <4>1 DEF SameOrigin, SameCollection
        <4>2. CASE colls'[k].by = jobs
          BY <3>2, <4>2, NewAuthors DEF SameOrigin
        <4>3. ASSUME NEW j \in Importers, Saves(j, k)
              PROVE  SameOrigin(colls'[k], d)
          <5>1. colls'[k].by = j /\ imp[j].phase = "references"
            BY <4>3 DEF Saves, SavedCollection
          <5> QED
            BY <3>2, <5>1, NewAuthors DEF SameOrigin, Ended
        <4> QED
          BY <3>3, <4>1, <4>2, <4>3, CollectionsFrom
      <3> QED
        BY <3>2, <3>3, AuthorKept
    <2>2. CASE UNCHANGED Database /\ k \in DOMAIN colls /\ d = colls[k]
      <3>1. Author(d.by)
        BY <2>2 DEF Origins
      <3>2. colls' = colls
        BY <2>2 DEF Database
      <3> QED
        BY <2>2, <3>1, <3>2, AuthorKept DEF SameOrigin
    <2> QED
      BY <1>2, <2>1, <2>2, ImportsFrom
  <1>3. \A i \in Importers : CollectionKey(i)' = KeyOf(imp'[i].request)
    BY DEF CollectionKey, KeyOf, Bundle, Req
  <1> QED
    BY <1>1, <1>2, <1>3 DEF Origins, Author

\* What any step makes of the request about collections.
LEMMA JobFrom ==
  ASSUME TypeOK, Unlisted, [Next]_vars
  PROVE  \/ job' = job
         \/ job'.victim = None
         \/ /\ UNCHANGED <<colls, imp>>
            /\ job'.kind = "delete" /\ job'.gone = job.gone /\ job'.all = job.all
            /\ job'.seen = {i \in Importers : imp[i].phase \notin Ended}
            /\ findWithContents(job'.victim) = {}
  <1>1. \A i \in Importers : Import(i) => job' = job
    BY DEF Import, Begin, processTier, saveMany, ReadReferences, importReferences, saveCollection
  <1>2. UNCHANGED vars => job' = job
    BY DEF vars
  <1>3. ASSUME NEW item \in job.work, insertCollection(item)
        PROVE  job'.victim = None
    BY <1>3, MarkEffect, Fields DEF Unlisted, NoJob
  <1>4. ASSUME NEW item \in job.work, CheckContent(item)
        PROVE  \/ job'.victim = None
               \/ /\ UNCHANGED <<colls, imp>>
                  /\ job'.kind = "delete" /\ job'.gone = job.gone /\ job'.all = job.all
                  /\ job'.seen = {i \in Importers : imp[i].phase \notin Ended}
                  /\ findWithContents(job'.victim) = {}
    BY <1>4, CheckEffect
  <1>5. (\E c \in Collections : CreateCollection(c)) \/ Deletes \/ findByIdAndDelete \/ deleteMany =>
          job'.victim = None
    <2>1. (\E c \in Collections : CreateCollection(c)) => job'.victim = None
      BY CreateEffect
    <2>2. Deletes => job'.victim = None
      BY DeleteEffect DEF Deletes
    <2>3. findByIdAndDelete \/ deleteMany => job'.victim = None
      BY FindByIdEffect, DeleteManyEffect DEF NoJob
    <2> QED
      BY <2>1, <2>2, <2>3
  <1>6. (\E k \in DOMAIN colls : insertExport(k)) \/ (\E name : CreateReference(name)) => job' = job
    BY DEF insertExport, CreateReference
  <1> QED
    BY <1>1, <1>2, <1>3, <1>4, <1>5, <1>6, Steps DEF Unimporting

LEMMA DoomedSame ==
  ASSUME job'.gone = job.gone, job'.all = job.all, NEW k
  PROVE  Doomed(k)' = Doomed(k)
  BY DEF Doomed

LEMMA UnlistedStep ==
  ASSUME ImportInv, ImportAssumption, [Next]_vars
  PROVE  Unlisted'
  <1>0. TypeOK /\ Origins /\ Unlisted
    BY DEF ImportInv
  <1>1. \A i \in Importers : imp'[i].phase \notin Ended => imp[i].phase \notin Ended
    BY <1>0, ImportsFrom
  <1>2. CASE job'.victim = None
    BY <1>2 DEF Unlisted, Seen
  <1>3. CASE job' = job
    <2>1. ASSUME job.victim # None, NEW k \in DOMAIN colls', job.victim \in colls'[k].contents
          PROVE  Doomed(k)' \/ colls'[k].by \in job.seen
      <3>1. CASE k \in DOMAIN colls /\ SameCollection(colls'[k], colls[k])
        <4>1. Doomed(k) \/ colls[k].by \in job.seen
          BY <1>0, <2>1, <3>1 DEF Unlisted, SameCollection
        <4> QED
          BY <1>3, <3>1, <4>1, DoomedSame DEF SameCollection
      <3>2. CASE job.kind = "none"
        BY <1>0, <2>1, <3>2 DEF Unlisted
      <3>3. ASSUME NEW i \in Importers, Saves(i, k)
            PROVE  colls'[k].by \in job.seen
        BY <1>0, <2>1, <3>3 DEF Unlisted, Seen, Saves, SavedCollection, Ended
      <3> QED
        BY <1>0, <3>1, <3>2, <3>3, CollectionsFrom
    <2> QED
      BY <1>0, <1>1, <1>3, <2>1 DEF Unlisted, Seen
  <1>4. CASE /\ UNCHANGED <<colls, imp>>
             /\ job'.kind = "delete" /\ job'.gone = job.gone /\ job'.all = job.all
             /\ job'.seen = {i \in Importers : imp[i].phase \notin Ended}
             /\ findWithContents(job'.victim) = {}
    <2>1. ASSUME NEW k \in DOMAIN colls, job'.victim \in colls[k].contents
          PROVE  Doomed(k)'
      <3>1. Doomed(k)
        BY <1>4, <2>1 DEF findWithContents
      <3> QED
        BY <1>4, <3>1, DoomedSame
    <2> QED
      BY <1>4, <2>1 DEF Unlisted, Seen
  <1> QED
    BY <1>0, <1>2, <1>3, <1>4, JobFrom

LEMMA ImportInit ==
  ASSUME ImportAssumption, Init
  PROVE  ImportInv
  <1>1. IsImport(Idle)
    BY DEF IsImport, Idle, Working, Ended
  <1>2. DOMAIN colls = {}
    BY DEF Init
  <1>3. ASSUME NEW d \in store
        PROVE  DOMAIN d = DOMAIN Document(d, {})
    <2>1. d = Document(d, d.collections)
      BY DEF Init, ImportAssumption
    <2> QED
      BY <2>1, Fields
  <1>4. TypeOK
    BY <1>1, <1>2, <1>3 DEF TypeOK, Init
  <1>5. Origins
    BY <1>2 DEF Origins, Init, Idle, Working
  <1>6. Unlisted
    BY DEF Unlisted, Init, NoJob, Seen
  <1> QED
    BY <1>4, <1>5, <1>6 DEF ImportInv

LEMMA ImportStep ==
  ASSUME ImportInv, ImportAssumption, [Next]_vars
  PROVE  ImportInv'
  BY TypeStep, OriginsStep, UnlistedStep DEF ImportInv

LEMMA ImportInvariant == Spec => []ImportInv
  <1>1. Init => ImportInv
    BY ImportInit, ImportAssumption
  <1>2. ImportInv /\ [Next]_vars => ImportInv'
    BY ImportStep, ImportAssumption
  <1> QED
    BY <1>1, <1>2, PTL DEF Spec

-----------------------------------------------------------------------------
(***************************************************************************)
(* Deletions.                                                              *)
(***************************************************************************)
\* Only a deletion takes the key of an object away, the one it looked for.
LEMMA KeysFrom ==
  ASSUME TypeOK, [Next]_vars
  PROVE  Keys(store) \subseteq Keys(store') \/ findByIdAndDelete
  <1>1. store \subseteq store' => Keys(store) \subseteq Keys(store')
    BY DEF Keys
  <1>2. ASSUME NEW i \in Importers, Import(i)
        PROVE  store \subseteq store'
    <2>1. \A o \in imp[i].pending : saveMany(i, o) => store \subseteq store'
      BY SaveManyEffect
    <2> QED
      BY <1>2, <2>1 DEF Import, Begin, processTier, ReadReferences, importReferences, saveCollection
  <1>3. ASSUME Unimporting
        PROVE  Keys(store) \subseteq Keys(store') \/ findByIdAndDelete
    BY <1>1, <1>3, CreateEffect, MarkEffect, CheckEffect, DeleteEffect, DeleteManyEffect,
       ExportEffect DEF Unimporting, Deletes, CreateReference
  <1> QED
    BY <1>1, <1>2, <1>3, Steps DEF vars

\* CollectionsService.delete with its contents: whatever other imports, creations and
\* deletions do meanwhile, an object that another collection lists is not deleted, unless
\* an import that was running when the deletion looked saved that collection since.
THEOREM SharedObjectsKept ==
  Spec => SharedKept
  <1>1. ASSUME ImportInv, [Next]_vars
        PROVE  \A key \in Keys(store) \ Keys(store') : \A k \in DOMAIN colls :
                 key \in colls[k].contents => Doomed(k) \/ colls[k].by \in job.seen
    <2>1. TypeOK /\ Unlisted
      BY <1>1 DEF ImportInv
    <2>2. ASSUME NEW key \in Keys(store) \ Keys(store')
          PROVE  key = job.victim /\ job.victim # None
      BY <1>1, <2>1, <2>2, KeysFrom, FindByIdEffect
    <2> QED
      BY <2>1, <2>2 DEF Unlisted
  <1> QED
    BY <1>1, ImportInvariant, PTL DEF Spec, SharedKept

-----------------------------------------------------------------------------
(***************************************************************************)
(* The history of a collection.                                            *)
(***************************************************************************)
LEMMA HistoryStep ==
  ASSUME TypeOK, ImportAssumption, [Next]_vars, NEW k \in DOMAIN colls \cap DOMAIN colls'
  PROVE  \/ /\ colls[k].reimports \subseteq colls'[k].reimports
            /\ colls[k].exported <= colls'[k].exported
         \/ \E i \in Importers : imp[i].phase # imp'[i].phase /\ imp[i].dup \notin {None, colls[k]}
  <1> DEFINE Grows == /\ colls[k].reimports \subseteq colls'[k].reimports
                      /\ colls[k].exported <= colls'[k].exported
  <1>0. colls'[k] = colls[k] => Grows
    BY DEF TypeOK
  <1>1. ASSUME NEW i \in Importers, Import(i)
        PROVE  Grows \/ (imp[i].phase # imp'[i].phase /\ imp[i].dup \notin {None, colls[k]})
    <2>1. colls' = colls \/ saveCollection(i)
      BY <1>1 DEF Import, Begin, processTier, saveMany, ReadReferences, importReferences
    <2>2. CASE saveCollection(i)
      <3>1. /\ imp[i].phase = "references" /\ imp'[i].phase \in {"done", "failed"}
            /\ colls' = colls \/ Rewrites(i, CollectionKey(i)) \/ Adds(i, CollectionKey(i))
        BY <2>2, SaveCollectionEffect
      <3>2. CASE Rewrites(i, CollectionKey(i))
        <4>1. CASE k # CollectionKey(i)
          BY <1>0, <3>1, <3>2, <4>1, RewriteEffect DEF Working
        <4>2. CASE k = CollectionKey(i) /\ imp[i].dup = colls[k]
          <5>1. /\ imp[i].dup.reimports \subseteq colls'[k].reimports
                /\ colls'[k].exported = imp[i].dup.exported
            BY <3>1, <3>2, <4>2, RewriteEffect DEF Working
          <5> QED
            BY <4>2, <5>1 DEF TypeOK
        <4>3. CASE imp[i].dup # colls[k]
          BY <3>1, <3>2, <4>3 DEF Rewrites
        <4> QED
          BY <4>1, <4>2, <4>3
      <3> QED
        BY <1>0, <3>1, <3>2 DEF Adds
    <2> QED
      BY <1>0, <2>1, <2>2
  <1>2. ASSUME NEW c \in Collections, CreateCollection(c)
        PROVE  Grows
    BY <1>0, <1>2, CreateEffect
  <1>3. deleteMany => Grows
    BY <1>0, DeleteManyEffect
  <1>4. ASSUME NEW key \in DOMAIN colls, insertExport(key)
        PROVE  Grows
    <2>1. CASE k = key
      BY <1>4, <2>1, ExportEffect DEF TypeOK
    <2>2. CASE k # key
      BY <1>0, <1>4, <2>2, ExportEffect
    <2> QED
      BY <2>1, <2>2
  <1>5. UNCHANGED vars => Grows
    BY <1>0 DEF vars
  <1>6. ASSUME NEW item \in job.work, insertCollection(item) \/ CheckContent(item)
        PROVE  Grows
    BY <1>0, <1>6 DEF insertCollection, CheckContent
  <1>7. Deletes \/ findByIdAndDelete \/ (\E name : CreateReference(name)) => Grows
    BY <1>0 DEF Deletes, DeleteCollections, findByIdAndDelete, CreateReference
  <1> HIDE DEF Grows
  <1>8. Grows \/ \E i \in Importers : imp[i].phase # imp'[i].phase /\ imp[i].dup \notin {None, colls[k]}
    BY <1>1, <1>2, <1>3, <1>4, <1>5, <1>6, <1>7, Steps DEF Unimporting
  <1> QED
    BY <1>8 DEF Grows

\* insertExport and the import over a collection: an entry of its history is lost only
\* when an import writes back a document that was changed since it was read.
THEOREM HistoriesKept ==
  Spec => HistoryKept
  <1>1. ImportInv /\ [Next]_vars => [HistoryGrows]_vars
    BY HistoryStep, ImportAssumption DEF ImportInv, HistoryGrows
  <1> QED
    BY <1>1, ImportInvariant, PTL DEF Spec, HistoryKept

-----------------------------------------------------------------------------
(***************************************************************************)
(* The account of an import.                                               *)
(***************************************************************************)
\* What is doomed stays doomed until it is deleted.
LEMMA DoomedFrom ==
  ASSUME ImportInv, NoneDoomed, [Next]_vars
  PROVE  /\ NoneDoomed'
         /\ \A k \in DOMAIN colls \cap DOMAIN colls' : Doomed(k) => Doomed(k)'
  <1>0. TypeOK
    BY DEF ImportInv
  <1> DEFINE Fine == /\ NoneDoomed'
                     /\ \A k \in DOMAIN colls \cap DOMAIN colls' : Doomed(k) => Doomed(k)'
  <1>1. ASSUME job' = job
        PROVE  Fine
    BY <1>1, DoomedSame DEF NoneDoomed
  <1>2. ASSUME job'.kind = "delete", job'.gone = job.gone, job'.all = job.all
        PROVE  Fine
    BY <1>2, DoomedSame DEF NoneDoomed
  <1>3. ASSUME job.kind # "delete"
        PROVE  \A k : ~Doomed(k)
    BY <1>3 DEF NoneDoomed, Doomed
  <1>4. \A i \in Importers : Import(i) => job' = job
    BY DEF Import, Begin, processTier, saveMany, ReadReferences, importReferences, saveCollection
  <1>5. ASSUME NEW c \in Collections, CreateCollection(c)
        PROVE  Fine
    <2>1. job'.gone = {} /\ job.kind # "delete"
      BY <1>0, <1>5, CreateEffect
    <2> QED
      BY <1>3, <2>1 DEF NoneDoomed
  <1>6. ASSUME NEW item \in job.work, insertCollection(item)
        PROVE  Fine
    <2>1. /\ job.kind # "delete"
          /\ job'.gone = {}
      BY <1>0, <1>6, MarkEffect DEF NoneDoomed, NoJob
    <2> QED
      BY <1>3, <2>1 DEF NoneDoomed
  <1>7. ASSUME NEW item \in job.work, CheckContent(item)
        PROVE  Fine
    BY <1>0, <1>2, <1>7, CheckEffect
  <1>8. ASSUME Deletes
        PROVE  Fine
    <2>1. job.kind # "delete" /\ job'.kind = "delete"
      BY <1>0, <1>8, DeleteEffect DEF Deletes
    <2> QED
      BY <1>3, <2>1 DEF NoneDoomed
  <1>9. ASSUME findByIdAndDelete
        PROVE  Fine
    BY <1>0, <1>2, <1>9, FindByIdEffect
  <1>10. ASSUME deleteMany
         PROVE  Fine
    BY <1>0, <1>10, DeleteManyEffect DEF NoneDoomed, NoJob
  <1>11. (\E k \in DOMAIN colls : insertExport(k)) \/ (\E name : CreateReference(name)) => job' = job
    BY DEF insertExport, CreateReference
  <1>12. UNCHANGED vars => job' = job
    BY DEF vars
  <1> HIDE DEF Fine
  <1>13. Fine
    BY <1>1, <1>4, <1>5, <1>6, <1>7, <1>8, <1>9, <1>10, <1>11, <1>12, Steps DEF Unimporting
  <1> QED
    BY <1>13 DEF Fine

\* An object that is stored stays so, or is taken from the imports that were running.
LEMMA KeyKept ==
  ASSUME TypeOK, [Next]_vars, NEW key \in Keys(store)
  PROVE  \/ key \in Keys(store')
         \/ /\ key = job.victim /\ job.victim # None
            /\ \A i \in job.seen : imp[i].phase # "idle" => <<i, key>> \in stolen'
            /\ UNCHANGED <<colls, imp>>
  BY KeysFrom, FindByIdEffect

LEMMA AccountedStep ==
  ASSUME AccountInv, ImportAssumption, [Next]_vars, NEW k \in DOMAIN colls',
         colls'[k].by \in Importers, ~Doomed(k)', NEW key \in colls'[k].contents
  PROVE  \/ key \in Keys(store')
         \/ key \in Blamed(colls'[k].errors) \cup {k}
         \/ <<colls'[k].by, key>> \in stolen'
  <1>0. TypeOK /\ Origins /\ Unlisted /\ ImportInv /\ NoneDoomed /\ stolen \subseteq stolen'
    BY JobsGrow DEF AccountInv, ImportInv
  <1>1. CASE k \in DOMAIN colls /\ SameCollection(colls'[k], colls[k])
    <2> DEFINE i == colls[k].by
    <2>1. ~Doomed(k) /\ i \in Importers /\ key \in colls[k].contents
      BY <1>0, <1>1, DoomedFrom DEF SameCollection
    <2>2. key \in Keys(store) \/ key \in Blamed(colls[k].errors) \cup {k} \/ <<i, key>> \in stolen
      BY <1>1, <2>1 DEF AccountInv, ContentsAccounted, Blamed
    <2>3. CASE key \in Keys(store) /\ key \notin Keys(store')
      <3>1. /\ key = job.victim /\ job.victim # None
            /\ \A j \in job.seen : imp[j].phase # "idle" => <<j, key>> \in stolen'
        BY <1>0, <2>3, KeyKept
      <3>2. i \in job.seen
        BY <1>0, <1>1, <2>1, <3>1 DEF Unlisted
      <3>3. imp[i].phase # "idle"
        BY <1>0, <1>1, <2>1, NewAuthors DEF Origins, Ended
      <3> QED
        BY <1>1, <3>1, <3>2, <3>3 DEF SameCollection
    <2> QED
      BY <1>0, <1>1, <2>2, <2>3 DEF SameCollection
  <1>2. CASE colls'[k].by = jobs
    BY <1>0, <1>2 DEF TypeOK, ImportAssumption
  <1>3. ASSUME NEW i \in Importers, Saves(i, k)
        PROVE  \/ key \in Keys(store')
               \/ key \in Blamed(colls'[k].errors) \cup {k}
               \/ <<colls'[k].by, key>> \in stolen'
    <2>1. /\ colls'[k].by = i /\ colls'[k].contents = Bundle(i).contents
          /\ colls'[k].errors = imp[i].errors
      BY <1>3 DEF Saves, SavedCollection
    <2>2. /\ imp[i].phase = "references" /\ ~Req(i).preview /\ k = CollectionKey(i)
          /\ store' = store /\ stolen' = stolen
      BY <1>3 DEF Saves
    <2> QED
      BY <2>1, <2>2 DEF AccountInv, Underway, Working
  <1> QED
    BY <1>0, <1>1, <1>2, <1>3, CollectionsFrom

\* Underway(i), of the import and the database as they are after a step.
Accounted(i, n, objects, taken) ==
  n.phase \in Working /\ ~Requests[n.request].preview =>
    \A key \in Requests[n.request].bundle.contents :
      \/ n.phase = "tiers" /\ key \in n.contents \cup Keys(n.pending)
      \/ key \in Keys(objects) \cup Blamed(n.errors) \cup {KeyOf(n.request)}
      \/ <<i, key>> \in taken

LEMMA UnderwayStep ==
  ASSUME AccountInv, ImportAssumption, [Next]_vars, NEW i \in Importers
  PROVE  Accounted(i, imp'[i], store', stolen')
  <1> DEFINE q == imp[i]
             n == imp'[i]
  <1>0. TypeOK /\ Unlisted /\ ImportInv /\ stolen \subseteq stolen'
    BY JobsGrow DEF AccountInv, ImportInv
  <1>1. Accounted(i, q, store, stolen)
    BY DEF AccountInv, Underway, Accounted, KeyOf, CollectionKey, Bundle, Req
  <1>2. ASSUME n = q
        PROVE  Accounted(i, n, store', stolen')
    <2> SUFFICES ASSUME q.phase \in Working, NEW key \in Keys(store), key \notin Keys(store')
                 PROVE  <<i, key>> \in stolen'
      BY <1>0, <1>1, <1>2 DEF Accounted
    <2>1. key = job.victim /\ job.victim # None
          /\ \A j \in job.seen : imp[j].phase # "idle" => <<j, key>> \in stolen'
      BY <1>0, KeyKept
    <2>2. i \in job.seen /\ q.phase # "idle"
      BY <1>0, <2>1 DEF Unlisted, Seen, Working, Ended
    <2> QED
      BY <2>1, <2>2
  <1>3. ASSUME NEW r \in DOMAIN Requests, Begin(i, r)
        PROVE  Accounted(i, n, store', stolen')
    BY <1>0, <1>3, BeginEffect DEF Accounted, Working
  <1>4. CASE processTier(i)
    <2>1. Keys({}) = {}
      BY DEF Keys
    <2>2. /\ q.phase = "tiers" /\ q.pending = {} /\ n.request = q.request /\ UNCHANGED <<store, stolen>>
          /\ \/ n.phase = "failed"
             \/ /\ n.phase = "tiers" /\ q.errors \subseteq n.errors
                /\ ~Req(i).preview => Handled(i, n)
      BY <1>0, <1>4, TierEffect DEF Database
    <2>3. Blamed(q.errors) \subseteq Blamed(n.errors) \/ n.phase = "failed"
      BY <2>2, BlamedGrows
    <2>4. CollectionKey(i) = KeyOf(q.request) /\ Req(i) = Requests[q.request]
      BY DEF CollectionKey, KeyOf, Bundle, Req
    <2> QED
      BY <1>1, <2>1, <2>2, <2>3, <2>4 DEF Accounted, Working, Handled
  <1>5. ASSUME NEW o \in q.pending, saveMany(i, o)
        PROVE  Accounted(i, n, store', stolen')
    <2>1. /\ q.phase = "tiers" /\ n.phase = "tiers" /\ n.request = q.request
          /\ n.contents = q.contents /\ stolen' = stolen
          /\ store \subseteq store' /\ q.errors \subseteq n.errors
          /\ Keys(q.pending) \subseteq Keys(n.pending) \cup Keys(store') \cup Blamed(n.errors)
      BY <1>0, <1>5, SaveManyEffect
    <2>2. Keys(store) \subseteq Keys(store') /\ Blamed(q.errors) \subseteq Blamed(n.errors)
      BY <2>1, BlamedGrows DEF Keys
    <2> QED
      BY <1>1, <2>1, <2>2 DEF Accounted, Working
  <1>6. CASE ReadReferences(i)
    <2>1. Keys({}) = {}
      BY DEF Keys
    <2>2. /\ q.phase = "tiers" /\ q.pending = {} /\ n.phase = "references" /\ n.request = q.request
          /\ UNCHANGED <<store, stolen>>
          /\ q.contents \subseteq Blamed(n.errors) /\ q.errors \subseteq n.errors
      BY <1>0, <1>6, ReadEffect DEF Database
    <2>3. Blamed(q.errors) \subseteq Blamed(n.errors)
      BY <2>2, BlamedGrows
    <2> QED
      BY <1>1, <2>1, <2>2, <2>3 DEF Accounted, Working
  <1>7. ASSUME NEW name \in q.names, importReferences(i, name)
        PROVE  Accounted(i, n, store', stolen')
    BY <1>0, <1>1, <1>7, ReferenceEffect DEF Accounted, Working
  <1>8. CASE saveCollection(i)
    BY <1>0, <1>8, SaveCollectionEffect DEF Accounted, Working
  <1>9. ASSUME NEW j \in Importers \ {i}, Import(j)
        PROVE  n = q
    <2>1. Alters(j)
      BY <1>0, <1>9, BeginEffect, TierEffect, SaveManyEffect, ReadEffect, ReferenceEffect,
         SaveCollectionEffect DEF Import
    <2> QED
      BY <1>9, <2>1 DEF Alters
  <1>10. Unimporting => n = q
    BY <1>0, OtherSteps
  <1>11. UNCHANGED vars => n = q
    BY DEF vars
  <1>12. Import(i) => Accounted(i, n, store', stolen')
    BY <1>3, <1>4, <1>5, <1>6, <1>7, <1>8 DEF Import
  <1> QED
    BY <1>2, <1>9, <1>10, <1>11, <1>12, Steps

\* collection-bundles import: whatever fails for an object of an imported collection, and
\* whatever else runs, the object is stored or the account of the import names it, unless
\* a deletion that had looked before the collection was saved took it away.
THEOREM ImportsAccount ==
  Spec => []ContentsAccounted
  <1>1. Init /\ ImportInv => AccountInv
    <2> SUFFICES ASSUME Init, ImportInv PROVE AccountInv
      OBVIOUS
    <2>1. DOMAIN colls = {}
      BY DEF Init
    <2> QED
      BY <2>1 DEF AccountInv, NoneDoomed, ContentsAccounted, Underway, Init, NoJob, Idle, Working
  <1>2. AccountInv /\ [Next]_vars => AccountInv'
    <2> SUFFICES ASSUME AccountInv, [Next]_vars PROVE AccountInv'
      OBVIOUS
    <2>1. ImportInv' /\ NoneDoomed'
      BY ImportStep, DoomedFrom, ImportAssumption DEF AccountInv
    <2>2. ContentsAccounted'
      BY AccountedStep, ImportAssumption DEF ContentsAccounted, Blamed
    <2>3. \A i \in Importers : Underway(i)'
      <3>1. \A i \in Importers : Accounted(i, imp'[i], store', stolen')
        BY UnderwayStep, ImportAssumption
      <3> QED
        BY <3>1 DEF Underway, Accounted, KeyOf, CollectionKey, Bundle, Req
    <2> QED
      BY <2>1, <2>2, <2>3 DEF AccountInv
  <1>3. AccountInv => ContentsAccounted
    BY DEF AccountInv
  <1> QED
    BY <1>1, <1>2, <1>3, ImportInvariant, PTL DEF Spec

-----------------------------------------------------------------------------
(***************************************************************************)
(* An import that fails with nothing else going on.                        *)
(***************************************************************************)
\* What the validation of a request lets through, unless it is forced, fits.
LEMMA LetThrough ==
  ASSUME ImportAssumption, NEW r \in DOMAIN Requests, ~Refused(Requests[r]),
         ~Requests[r].scheduled, ~Requests[r].forceSpec,
         NEW o \in Requests[r].bundle.objects
  PROVE  ~specViolation(o)
  <1> DEFINE objects == Requests[r].bundle.objects
             bad == {p \in objects : specViolation(p)}
  <1>1. IsFiniteSet(bad)
    BY FS_Subset DEF ImportAssumption
  <1>2. ~(Cardinality(bad) > 0)
    BY DEF Refused, shouldBlockImport, invalidAttackSpecVersionCount
  <1>3. bad = {}
    BY <1>1, <1>2, FS_CardinalityType, FS_EmptySet
  <1> QED
    BY <1>3

\* While nothing else was going on, nothing else was done.
LEMMA StillAlone ==
  ASSUME AloneInv, ImportAssumption, [Next]_vars, NEW i \in Importers, Alone(i)'
  PROVE  Alone(i) /\ (UNCHANGED vars \/ Import(i))
  <1>0. TypeOK /\ (jobs = 0 => job.kind = "none")
    BY DEF AloneInv
  <1>1. \A j \in Importers \ {i} : imp'[j].phase = "idle"
    BY DEF Alone
  <1>2. jobs' = 0 /\ others' = 0
    BY DEF Alone
  <1>3. Alone(i)
    <2>1. \A j \in Importers \ {i} : imp[j].phase = "idle"
      BY <1>0, <1>1, ImportsFrom
    <2>2. jobs = 0 /\ others = 0
      BY <1>0, <1>2, JobsGrow DEF TypeOK
    <2> QED
      BY <2>1, <2>2 DEF Alone
  <1>4. \A j \in Importers \ {i} : ~Import(j)
    <2> SUFFICES ASSUME NEW j \in Importers \ {i}, Import(j) PROVE FALSE
      OBVIOUS
    <2>1. imp[j].phase = "idle"
      BY <1>3 DEF Alone
    <2>2. PICK r \in DOMAIN Requests : Begin(j, r)
      BY <2>1 DEF Import, processTier, saveMany, ReadReferences, importReferences, saveCollection
    <2>3. imp'[j].phase # "idle"
      BY <1>0, <2>2, BeginEffect
    <2> QED
      BY <1>1, <2>3
  <1>5. ~Unimporting
    <2>1. jobs = 0 /\ others = 0 /\ job.kind = "none" /\ DOMAIN job = DOMAIN NoJob
      BY <1>0, <1>3 DEF Alone, TypeOK
    <2>2. \A k \in DOMAIN colls : ~insertExport(k)
      BY <1>2, <2>1 DEF insertExport
    <2>3. \A name : ~CreateReference(name)
      BY <1>2, <2>1 DEF CreateReference
    <2>4. \A c \in Collections : ~CreateCollection(c)
      BY <1>2, <2>1 DEF CreateCollection
    <2>5. ~Deletes
      BY <1>2, <2>1 DEF Deletes, DeleteCollections
    <2> QED
      BY <2>1, <2>2, <2>3, <2>4, <2>5
      DEF Unimporting, insertCollection, CheckContent, findByIdAndDelete, deleteMany
  <1> QED
    BY <1>3, <1>4, <1>5, Steps

\* Undisturbed(i), after a step.
After(i, n) ==
  /\ n.phase \in {"idle", "refused"} => store' = Before /\ refs' = {}
  /\ n.phase # "done" => DOMAIN colls' = {}
  /\ n.phase \in Working =>
       /\ n.dup = None
       /\ ~Requests[n.request].scheduled /\ ~Requests[n.request].forceSpec =>
            \A o \in Requests[n.request].bundle.objects : ~specViolation(o)
  /\ n.phase = "tiers" => refs' = {}
  /\ n.phase = "references" => refs' \cap n.names \subseteq n.known
  /\ n.phase = "failed" /\ ~Requests[n.request].scheduled /\ ~Requests[n.request].forceSpec =>
       (store' = Before /\ refs' = {}) \/ AllStored(i)'

\* What is present stays so while objects are added.
LEMMA StaysPresent ==
  ASSUME store \subseteq store', NEW o, Present(o)
  PROVE  Present(o)'
  BY DEF Present

LEMMA ArrivingStep ==
  ASSUME TypeOK, ImportAssumption, NEW i \in Importers, Arriving(i), Import(i)
  PROVE  Arriving(i)'
  <1> DEFINE q == imp[i]
             n == imp'[i]
  <1> SUFFICES ASSUME n.phase \in Working, ~Requests[n.request].preview,
                      NEW o \in Requests[n.request].bundle.objects, Storable(Requests[n.request], o)
               PROVE  Present(o)' \/ (n.phase = "tiers" /\ (o.type \in n.left \/ o \in n.pending))
    BY DEF Arriving, Bundle, Req
  <1>1. ASSUME NEW r \in DOMAIN Requests, Begin(i, r)
        PROVE  n.phase = "tiers" /\ o.type \in n.left
    BY <1>1, BeginEffect DEF Working
  <1>2. ASSUME q.phase \in Working, n.request = q.request
        PROVE  /\ Present(o) \/ (q.phase = "tiers" /\ (o.type \in q.left \/ o \in q.pending))
               /\ o \in Bundle(i).objects /\ Storable(Req(i), o) /\ ~Req(i).preview
    BY <1>2 DEF Arriving, Bundle, Req
  <1>3. CASE processTier(i)
    <2>1. /\ q.phase = "tiers" /\ q.pending = {} /\ n.request = q.request /\ store' = store
          /\ n.phase = "tiers" /\ Lands(i, n)
      BY <1>3, TierEffect DEF Database, Working
    <2>2. Present(o) \/ o.type \in q.left
      BY <1>2, <2>1 DEF Working
    <2>3. CASE Present(o)
      BY <2>1, <2>3, StaysPresent
    <2>4. CASE o.type \in q.left
      BY <1>2, <2>1, <2>4, StaysPresent DEF Lands, Working
    <2> QED
      BY <2>2, <2>3, <2>4
  <1>4. ASSUME NEW p \in q.pending, saveMany(i, p)
        PROVE  Present(o)' \/ (n.phase = "tiers" /\ (o.type \in n.left \/ o \in n.pending))
    <2>1. /\ q.phase = "tiers" /\ n.phase = "tiers" /\ n.request = q.request /\ store \subseteq store'
          /\ n.left = q.left /\ n.pending = q.pending \ {p} /\ Present(p)'
      BY <1>4, SaveManyEffect
    <2> QED
      BY <1>2, <2>1, StaysPresent DEF Working
  <1>5. CASE ReadReferences(i)
    <2>1. /\ q.phase = "tiers" /\ q.left = {} /\ q.pending = {} /\ n.request = q.request
          /\ store' = store
      BY <1>5, ReadEffect DEF Database
    <2> QED
      BY <1>2, <2>1, StaysPresent DEF Working
  <1>6. ASSUME NEW name \in q.names, importReferences(i, name)
        PROVE  Present(o)'
    <2>1. q.phase = "references" /\ n.request = q.request /\ store' = store
      BY <1>6, ReferenceEffect
    <2> QED
      BY <1>2, <2>1, StaysPresent DEF Working
  <1>7. ~saveCollection(i)
    BY SaveCollectionEffect DEF Working
  <1> QED
    BY <1>1, <1>3, <1>4, <1>5, <1>6, <1>7 DEF Import

LEMMA UndisturbedStep ==
  ASSUME TypeOK, ImportAssumption, NEW i \in Importers, Undisturbed(i), Import(i)
  PROVE  After(i, imp'[i])
  <1> DEFINE q == imp[i]
             n == imp'[i]
  <1>0. /\ q.phase \in {"idle", "refused"} => store = Before /\ refs = {}
        /\ q.phase # "done" => DOMAIN colls = {}
        /\ q.phase \in Working =>
             /\ q.dup = None
             /\ ~Requests[q.request].scheduled /\ ~Requests[q.request].forceSpec =>
                  \A o \in Requests[q.request].bundle.objects : ~specViolation(o)
        /\ q.phase = "tiers" => refs = {}
        /\ q.phase = "references" => refs \cap q.names \subseteq q.known
    BY DEF Undisturbed, Bundle, Req
  <1>1. ASSUME NEW r \in DOMAIN Requests, Begin(i, r)
        PROVE  After(i, n)
    BY <1>0, <1>1, BeginEffect, LetThrough DEF After, Database, Working
  <1>2. CASE processTier(i)
    <2>1. /\ q.phase = "tiers" /\ n.request = q.request /\ UNCHANGED <<store, colls, refs>>
          /\ \/ n.phase = "failed" /\ GateThrows(i)
             \/ n.phase = "tiers" /\ n.dup = q.dup
      BY <1>2, TierEffect DEF Database
    <2>2. GateThrows(i) => \E o \in Requests[q.request].bundle.objects : specViolation(o)
      BY DEF GateThrows, Tier, Bundle, Req
    <2> QED
      BY <1>0, <2>1, <2>2 DEF After, Working
  <1>3. ASSUME NEW o \in q.pending, saveMany(i, o)
        PROVE  After(i, n)
    BY <1>0, <1>3, SaveManyEffect DEF After, Working
  <1>4. CASE ReadReferences(i)
    BY <1>0, <1>4, ReadEffect DEF After, Working, Database
  <1>5. ASSUME NEW name \in q.names, importReferences(i, name)
        PROVE  After(i, n)
    BY <1>0, <1>5, ReferenceEffect DEF After, Working
  <1>6. CASE saveCollection(i)
    <2>1. /\ q.phase = "references" /\ n.phase \in {"done", "failed"}
          /\ n.request = q.request /\ store' = store
          /\ n.phase = "failed" => colls' = colls
      BY <1>6, SaveCollectionEffect
    <2>2. ASSUME n.phase = "failed"
          PROVE  AllStored(i)'
      <3>1. ~Req(i).preview /\ ~TheCollection(Bundle(i)).accepted
        BY <1>0, <1>6, <2>1, <2>2, SaveCollectionEffect DEF Working
      <3>2. \A o \in Requests[q.request].bundle.objects :
              Storable(Requests[q.request], o) => Present(o)
        BY <2>1, <3>1 DEF Undisturbed, Arriving, Working, Bundle, Req
      <3>3. \A o : Present(o) => Present(o)'
        BY <2>1, StaysPresent
      <3> QED
        BY <2>1, <3>1, <3>2, <3>3 DEF AllStored, Bundle, Req
    <2> QED
      BY <1>0, <2>1, <2>2 DEF After, Working
  <1> QED
    BY <1>1, <1>2, <1>3, <1>4, <1>5, <1>6 DEF Import

LEMMA IdleJob ==
  ASSUME TypeOK, [Next]_vars, jobs = 0 => job.kind = "none", jobs' = 0
  PROVE  job'.kind = "none"
  <1>1. jobs = 0 /\ job.kind = "none"
    BY JobsGrow DEF TypeOK
  <1>2. \A i \in Importers : Import(i) => job' = job
    BY DEF Import, Begin, processTier, saveMany, ReadReferences, importReferences, saveCollection
  <1>3. Unimporting => job' = job
    BY <1>1 DEF Unimporting, CreateCollection, insertCollection, CheckContent, Deletes,
       DeleteCollections, findByIdAndDelete, deleteMany, insertExport, CreateReference
  <1>4. UNCHANGED vars => job' = job
    BY DEF vars
  <1> QED
    BY <1>1, <1>2, <1>3, <1>4, Steps

\* An import that fails, with the database to itself and without forcing anything, has
\* stored nothing, or all that can be stored of its bundle: the validation of the
\* controller lets nothing past it that would make a tier throw, whatever the bundle, and
\* a collection that the schema refuses fails at the very end.
THEOREM FailedImportsAllOrNothing ==
  Spec => []NoHalfImport
  <1>1. Init /\ ImportInv => AloneInv
    <2> SUFFICES ASSUME Init, ImportInv PROVE AloneInv
      OBVIOUS
    <2>1. DOMAIN colls = {} /\ job.kind = "none" /\ \A i \in Importers : imp[i].phase = "idle"
      BY DEF Init, NoJob, Idle
    <2> QED
      BY <2>1 DEF AloneInv, ImportInv, Undisturbed, Arriving, Init, Working
  <1>2. AloneInv /\ ImportInv' /\ [Next]_vars => AloneInv'
    <2> SUFFICES ASSUME AloneInv, ImportInv', [Next]_vars PROVE AloneInv'
      OBVIOUS
    <2>1. TypeOK' /\ (jobs' = 0 => job'.kind = "none")
      BY IdleJob DEF AloneInv, ImportInv
    <2>2. ASSUME NEW i \in Importers, Alone(i)'
          PROVE  After(i, imp'[i]) /\ Arriving(i)'
      <3>1. Undisturbed(i) /\ (UNCHANGED vars \/ Import(i)) /\ TypeOK
        BY <2>2, StillAlone, ImportAssumption DEF AloneInv
      <3>2. CASE UNCHANGED vars
        <4>1. \A o : Present(o)' <=> Present(o)
          BY <3>2 DEF vars, Present
        <4> QED
          BY <3>1, <3>2, <4>1 DEF Undisturbed, Arriving, AllStored, After, vars, Bundle, Req
      <3>3. CASE Import(i)
        BY <3>1, <3>3, UndisturbedStep, ArrivingStep, ImportAssumption DEF Undisturbed
      <3> QED
        BY <3>1, <3>2, <3>3
    <2>3. \A i \in Importers : Alone(i)' => Undisturbed(i)'
      BY <2>2 DEF Undisturbed, After, Bundle, Req
    <2> QED
      BY <2>1, <2>3 DEF AloneInv
  <1>3. AloneInv => NoHalfImport
    BY DEF AloneInv, NoHalfImport, Undisturbed, AllStored, Bundle
  <1> QED
    BY <1>1, <1>2, <1>3, ImportInvariant, PTL DEF Spec

-----------------------------------------------------------------------------
(***************************************************************************)
(* Export.                                                                 *)
(***************************************************************************)
-----------------------------------------------------------------------------
(***************************************************************************)
(* Types.  A document is at an address that names its id and its reader.   *)
(***************************************************************************)
Addresses == Exports \X Ids \X Nat

DomainSets == (SUBSET STRING) \cup {Null}

\* A document as it was read, but for its domains.
Copies == [id : Ids, version : Nat, domains : DomainSets]

\* The documents of an id that an export read.
ReadBy(e, id) == {a \in DOMAIN heap : a[1] = e /\ a[2] = id}

Maps(S) == UNION {[D -> S] : D \in SUBSET Ids}

States ==
  [step : Stages \cup {"idle", "failed", "done"}, options : AllOptions \cup {Null},
   objects : Maps(Addresses), work : Seq(Relation) \cup Seq(Ids),
   asked : Ids \cup {Null}, held : Maps(Addresses \cup {Null}), unfit : BOOLEAN,
   targets : Seq(Ids) \cup {Null}, domains : SUBSET STRING, derived : SUBSET (Ids \X Ids),
   sources : SUBSET Ids, context : SUBSET Ids, rels : SUBSET Relation, contents : SUBSET Ids]

HeapOK ==
  /\ IsFiniteSet(DOMAIN heap)
  /\ DOMAIN heap \subseteq Addresses
  /\ \A a \in DOMAIN heap :
       /\ heap[a] \in Copies
       /\ heap[a].id = a[2]
       /\ a[2] \in Stored
       /\ heap[a].version \in DOMAIN Db[a[2]]
       /\ a[3] < Cardinality(ReadBy(a[1], a[2]))

ExportTypeOK ==
  /\ HeapOK
  /\ cache \in [BOOLEAN -> [Ids -> Addresses \cup {Null}]]
  /\ domainCache \in [BOOLEAN -> [Ids -> DomainSets]]
  /\ all \in [BOOLEAN -> Seq(Relation)]
  /\ export \in [Exports -> States]
  /\ overlapped \subseteq Exports

\* A document read is the latest of its id, but for strategies found by analytics; and
\* its domains are those stored, but for types that are not checked for them.
Faithful ==
  \A a \in DOMAIN heap :
    /\ heap[a].version = Len(Db[a[2]]) \/ Latest(a[2]).type = "x-mitre-detection-strategy"
    /\ Doc(a).type \in DomainChecked => heap[a].domains = Doc(a).domains

\* The latest document of an id is at this address.
LatestAt(a, id) == a \in DOMAIN heap /\ a[2] = id /\ heap[a].version = Len(Db[id])

CacheOK == \A s \in BOOLEAN : \A id \in Ids : cache[s][id] # Null => LatestAt(cache[s][id], id)

\* The steps that call getAttackObject.
Reading == {"secondary", "sources", "further", "context"}

\* An export holds addresses of what they name, and the work of its step.
WellFormed(e) ==
  LET x == export[e]
  IN  /\ x.step # "idle" => x.options \in Options[e]
      /\ \A id \in InBundle(x) : x.objects[id] \in DOMAIN heap /\ x.objects[id][2] = id
      /\ \A id \in DOMAIN x.held :
           IF x.held[id] = Null THEN id \notin Stored ELSE LatestAt(x.held[id], id)
      /\ x.asked # Null => x.step \in Reading /\ x.work # <<>> /\ x.asked \notin DOMAIN x.held
      /\ x.step \in {"secondary", "further"} => x.work \in Seq(Relation)
      /\ x.step \in {"sources", "context"} => x.work \in Seq(Ids)
      /\ x.step \in {"primaries", "relationships"} => x.work = <<>>
      /\ x.step \notin {"context", "done"} => x.rels = {}
      /\ x.step \in {"secondary", "further"} /\ x.work # <<>> => ~Idles(x, Head(x.work))
      /\ x.targets = Null => x.domains = {}
      /\ x.step = "primaries" => InBundle(x) = {}

-----------------------------------------------------------------------------
(***************************************************************************)
(* What is in a bundle fits its options, whoever read it.                  *)
(***************************************************************************)
\* A document is one that the options of the export admit.
Fitting(x, a) == a \in DOMAIN heap /\ Fit(Doc(a), Doc(a).domains, x.options)

\* A group or campaign whose domains are collected was found fit, and is held.
Deriving(e) ==
  LET x == export[e]
      c == OtherEnd(x, Head(x.work))
  IN  x.targets # Null =>
        /\ x.step = "secondary" /\ x.work # <<>> /\ Missing(x, Head(x.work))
        /\ c \in DOMAIN x.held /\ Fitting(x, x.held[c]) /\ OfGroup(x.held[c])

FitBundle(e) ==
  LET x == export[e]
  IN  \A id \in InBundle(x) : Fitting(x, x.objects[id])

-----------------------------------------------------------------------------
(***************************************************************************)
(* What relationships connect with the primary objects.                    *)
(***************************************************************************)
\* The two ends of a relationship.
EndsOf(q) == {q.source, q.target}

\* Its ends that must be in the bundle are.
Covered(x, q) == \A id \in EndsOf(q) : ValidLatest(id, x.options) => id \in InBundle(x)

\* The relationships that touch a primary object, and those that connect with it.
ReadOf(options) == {q \in Read(options) : EndsOf(q) \cap Primary(options) # {}}

Relevant(options) == {q \in ReadOf(options) : options.legacy \/ q.kind # "detects"}

\* The detections that the legacy export records.
Detections(options) ==
  {q \in ReadOf(options) : options.legacy /\ q.kind = "detects" /\ relationshipIsActive(q)}

\* The export found primary objects, and is past the step that adds what they relate to.
Gathered(x) == x.step \in {"sources", "further", "context"} \/ (x.step = "done" /\ x.objects # <<>>)

\* Each relationship with a primary object is still to be processed or has its ends in the bundle.
Connected(e) ==
  LET x == export[e]
  IN  /\ x.step = "relationships" => InBundle(x) = Primary(x.options)
      /\ x.step = "secondary" \/ Gathered(x) => Primary(x.options) \subseteq InBundle(x)
      /\ x.step = "secondary" =>
           /\ \A q \in Range(x.work) : EndsOf(q) \cap InBundle(x) # {}
           /\ \A q \in Relevant(x.options) : q \in Range(x.work) \/ Covered(x, q)
      /\ x.unfit => x.step = "secondary" /\ x.work # <<>> /\ Covered(x, Head(x.work))
      /\ Gathered(x) => \A q \in Relevant(x.options) : Covered(x, q)

\* What detects a technique is recorded, and the data source it comes from is looked up.
Recording(e) ==
  LET x == export[e]
  IN  /\ x.step = "secondary" =>
           \A q \in Detections(x.options) : q \in Range(x.work) \/ <<q.target, q.source>> \in x.derived
      /\ Gathered(x) =>
           \A q \in Detections(x.options) :
             \/ x.step # "done"
             \/ /\ q \in x.rels /\ DerivesFor(q.target)
                /\ Latest(q.source).type = "x-mitre-data-component"
             => <<q.target, q.source>> \in x.derived

\* A recorded detection by a data component that the bundle holds.
Detects(x, q) ==
  /\ q \in Detections(x.options)
  /\ Latest(q.source).type = "x-mitre-data-component" /\ ValidLatest(q.source, x.options)

Sourcing(e) ==
  LET x == export[e]
  IN  \A q \in Relation :
        Gathered(x) /\ Detects(x, q) =>
          /\ Latest(q.source).refs \subseteq x.sources
          /\ x.step # "sources" => Latest(q.source).refs # {}

\* All that was read is among the relationships.
OfOrders == UNION {Range(order) : order \in Orders}

ReadOK == \A s \in BOOLEAN : Range(all[s]) \subseteq OfOrders

\* The relationships of the bundle are active, and between its objects.
Relating(e) ==
  LET x == export[e]
  IN  \A q \in x.rels : q \in OfOrders /\ relationshipIsActive(q) /\ EndsOf(q) \subseteq InBundle(x)

-----------------------------------------------------------------------------
(***************************************************************************)
(* Exports of one service that run at the same time overlap; one that does *)
(* not has the fields of the service for itself.                           *)
(***************************************************************************)
Active(e) == export[e].step \in Stages

\* Both exports run, on the same service.
Together(e, f) == e # f /\ Active(e) /\ Active(f) /\ Svc(e) = Svc(f)

Pairs == \A e, f \in Exports : Together(e, f) => e \in overlapped /\ f \in overlapped

\* What an export that overlaps no other finds in allRelationships is what it read.
Own(e) ==
  LET x == export[e]
  IN  e \notin overlapped /\ x.step \in Reading => Range(all[Svc(e)]) = Read(x.options)

\* The end that a relationship of what was gathered demands is in the bundle.
Settled(x, q) ==
  LET base == Secondary(x.options)
  IN  /\ /\ q.kind = "attributed-to" /\ q.source \in base /\ ValidLatest(q.target, x.options)
         /\ Latest(q.target).type = "intrusion-set"
         => q.target \in InBundle(x)
      /\ /\ q.target \in base /\ ValidLatest(q.source, x.options)
         /\ \/ q.kind = "revoked-by"
            \/ /\ q.kind = "detects" /\ ~x.options.legacy
               /\ Latest(q.source).type = "x-mitre-detection-strategy"
         => q.source \in InBundle(x)

\* The export has passed the relationships that lead further.
Concluded(x) == x.step = "context" \/ (x.step = "done" /\ x.objects # <<>>)

\* Each relationship that may lead further is still to be processed or has its end in the bundle.
Settling(e) ==
  LET x == export[e]
  IN  e \notin overlapped =>
        /\ x.step = "further" => \A q \in Read(x.options) : q \in Range(x.work) \/ Settled(x, q)
        /\ Concluded(x) => \A q \in Read(x.options) : Settled(x, q)

\* The collection lists what the bundle holds, but markings.
Listing(e) ==
  LET x == export[e]
  IN  x.step = "done" /\ x.objects # <<>> =>
        \A id \in InBundle(x) : Latest(id).type # "marking-definition" => id \in x.contents

-----------------------------------------------------------------------------
(***************************************************************************)
(* The domains of groups and campaigns, of an export that overlaps none.   *)
(***************************************************************************)
\* Only exports that overlap share a document.
Shared(e, a) == a[1] = e \/ (e \in overlapped /\ a[1] \in overlapped)

\* An export that overlaps no other uses documents that it read itself.
Private(e) ==
  LET x == export[e]
  IN  /\ \A id \in InBundle(x) : Shared(e, x.objects[id])
      /\ \A id \in DOMAIN x.held : x.held[id] # Null => Shared(e, x.held[id])
      /\ Active(e) => \A id \in Ids : cache[Svc(e)][id] # Null => Shared(e, cache[Svc(e)][id])

\* The stored objects that relationships from an id lead to.
TargetsOf(id, options) == {t \in Stored : \E q \in Read(options) : q.source = id /\ q.target = t}

\* The domains of all that a group or campaign leads to are stored.
Known(id, options) == \A t \in TargetsOf(id, options) : Latest(t).domains # Null

\* The domains stored with them.
Collected(id, options) == UNION {Latest(t).domains : t \in TargetsOf(id, options)}

\* A document whose domains changed is in the bundle, and its domains are kept.
Changed(e) ==
  LET x == export[e]
      c == cache[Svc(e)]
  IN  e \notin overlapped /\ x.step \in {"primaries", "relationships", "secondary"} =>
        /\ \A id \in DOMAIN x.held : x.held[id] # Null => c[id] = x.held[id]
        /\ \A id \in Stored :
             /\ domainCache[Svc(e)][id] \in {Null, Latest(id).domains}
             /\ c[id] # Null /\ heap[c[id]].domains # Latest(id).domains =>
                  id \in InBundle(x) /\ domainCache[Svc(e)][id] = Latest(id).domains

\* The domains collected so far, with those of the targets that are left.
Collecting(e) ==
  LET x == export[e]
      c == OtherEnd(x, Head(x.work))
  IN  e \notin overlapped /\ x.targets # Null =>
        /\ domainCache[Svc(e)][c] = Latest(c).domains
        /\ Range(x.targets) \cap Stored \subseteq TargetsOf(c, x.options)
        /\ Known(c, x.options) =>
             Collected(c, x.options) =
               x.domains \cup UNION {Latest(t).domains : t \in Range(x.targets) \cap Stored}

\* The domains of the groups and campaigns of the bundle are those collected.
Domained(e) ==
  LET x == export[e]
  IN  e \notin overlapped =>
        \A id \in InBundle(x) :
          /\ x.step = "secondary" \/ (Gathered(x) /\ id \in Secondary(x.options))
          /\ Latest(id).type \in {"intrusion-set", "campaign"} /\ Known(id, x.options)
          => heap[x.objects[id]].domains = Collected(id, x.options)

-----------------------------------------------------------------------------
\* What holds of each export, and with what is shared, of all.
Sound(e) ==
  /\ WellFormed(e) /\ Deriving(e) /\ FitBundle(e)
  /\ Connected(e) /\ Recording(e) /\ Sourcing(e) /\ Relating(e)
  /\ Own(e) /\ Settling(e) /\ Listing(e)
  /\ Private(e) /\ Changed(e) /\ Collecting(e) /\ Domained(e)

ExportInv ==
  /\ ExportTypeOK /\ Faithful /\ CacheOK /\ ReadOK /\ Pairs
  /\ \A e \in Exports : Sound(e)

-----------------------------------------------------------------------------
(***************************************************************************)
(* Lists.                                                                  *)
(***************************************************************************)
LEMMA EntriesKept ==
  ASSUME NEW rels \in Seq(Relation), NEW W
  PROVE  /\ Kept(rels, W) \in Seq(Relation)
         /\ Range(Kept(rels, W)) = Range(rels) \cap W
  <1> DEFINE k == Kept(rels, W)
  <1>1. k \in Seq(Relation)
    BY KeptEntries
  <1>2. ASSUME NEW q
        PROVE  (\E i \in DOMAIN k : k[i] = q) <=> q \in W /\ \E i \in DOMAIN rels : rels[i] = q
    BY KeptEntries
  <1> HIDE DEF k
  <1>3. Range(k) = Range(rels) \cap W
    BY <1>2 DEF Range
  <1> QED
    BY <1>1, <1>3 DEF k

LEMMA HeadAndTail ==
  ASSUME NEW S, NEW list \in Seq(S), list # <<>>
  PROVE  /\ Tail(list) \in Seq(S)
         /\ Head(list) \in S
         /\ Head(list) \in Range(list)
         /\ Range(list) = {Head(list)} \cup Range(Tail(list))
  <1>1. Len(list) \in Nat \ {0} /\ DOMAIN list = 1 .. Len(list)
    OBVIOUS
  <1>2. /\ Tail(list) \in Seq(S) /\ Head(list) = list[1] /\ list[1] \in S
        /\ Len(Tail(list)) = Len(list) - 1
        /\ \A i \in 1 .. Len(list) - 1 : Tail(list)[i] = list[i + 1]
    OBVIOUS
  <1>3. DOMAIN Tail(list) = 1 .. Len(list) - 1
    BY <1>1, <1>2
  <1>4. \A i \in DOMAIN list : i = 1 \/ (i - 1 \in DOMAIN Tail(list) /\ Tail(list)[i - 1] = list[i])
    BY <1>1, <1>2, <1>3
  <1>5. \A i \in DOMAIN Tail(list) : i + 1 \in DOMAIN list /\ Tail(list)[i] = list[i + 1]
    BY <1>1, <1>2, <1>3
  <1> HIDE <1>2
  <1>6. 1 \in DOMAIN list
    BY <1>1
  <1> QED
    BY <1>2, <1>4, <1>5, <1>6 DEF Range

\* What is left of the work starts with an item for which there is something to do.
LEMMA WhatIsLeft ==
  ASSUME NEW S, NEW x, x.work \in Seq(S)
  PROVE  /\ Left(x) \in Seq(S)
         /\ Range(Left(x)) \subseteq Range(x.work)
         /\ \A q \in Range(x.work) : q \in Range(Left(x)) \/ Idles(x, q)
         /\ Left(x) # <<>> => ~Idles(x, Head(Left(x)))
  <1> DEFINE w == x.work
             n == Len(w)
             busy == {i \in DOMAIN w : ~Idles(x, w[i])}
             k == Min(busy)
             rest == SubSeq(w, k, n)
  <1>1. n \in Nat /\ DOMAIN w = 1 .. n /\ w \in Seq(S)
    OBVIOUS
  <1>2. Left(x) = IF busy = {} THEN <<>> ELSE rest
    BY DEF Left
  <1>3. CASE busy = {}
    <2>1. \A q \in Range(w) : Idles(x, q)
      BY <1>3 DEF Range
    <2>2. Left(x) = <<>> /\ Range(<<>>) = {}
      BY <1>2, <1>3 DEF Range
    <2> HIDE DEF w
    <2> QED
      BY <2>1, <2>2 DEF w
  <1>4. CASE busy # {}
    <2>1. k \in busy /\ \A i \in busy : k <= i
      BY <1>1, <1>4, BoundedMin
    <2> HIDE DEF k
    <2>2. k \in 1 .. n /\ ~Idles(x, w[k])
      BY <1>1, <2>1
    <2> HIDE DEF w, n, busy
    <2>3. rest \in Seq(S) /\ Len(rest) = n - k + 1 /\ \A i \in 1 .. n - k + 1 : rest[i] = w[k + i - 1]
      BY <1>1, <2>2 DEF n
    <2>4. DOMAIN rest = 1 .. n - k + 1 /\ rest # <<>> /\ Head(rest) = w[k]
      BY <1>1, <2>2, <2>3
    <2>5. \A i \in DOMAIN rest : k + i - 1 \in DOMAIN w /\ rest[i] = w[k + i - 1]
      BY <1>1, <2>2, <2>3, <2>4
    <2>6. \A i \in DOMAIN w : i \in busy => i - k + 1 \in DOMAIN rest /\ rest[i - k + 1] = w[i]
      <3> SUFFICES ASSUME NEW i \in DOMAIN w, i \in busy
                   PROVE  i - k + 1 \in DOMAIN rest /\ rest[i - k + 1] = w[i]
        OBVIOUS
      <3>1. k <= i /\ i \in 1 .. n
        BY <1>1, <2>1
      <3>2. i - k + 1 \in 1 .. n - k + 1 /\ k + (i - k + 1) - 1 = i
        BY <1>1, <2>2, <3>1
      <3> QED
        BY <2>3, <2>4, <3>2
    <2>7. \A i \in DOMAIN w : i \in busy \/ Idles(x, w[i])
      BY DEF busy
    <2> HIDE DEF rest
    <2>8. Range(rest) \subseteq Range(w) /\ \A q \in Range(w) : q \in Range(rest) \/ Idles(x, q)
      BY <2>5, <2>6, <2>7 DEF Range
    <2>9. Left(x) = rest
      BY <1>2, <1>4
    <2> QED
      BY <2>2, <2>3, <2>4, <2>8, <2>9 DEF w
  <1> QED
    BY <1>3, <1>4

LEMMA ListOfSet ==
  ASSUME NEW S \in SUBSET Ids
  PROVE  SetToSeq(S) \in Seq(S)
  <1> DEFINE n == Cardinality(S)
  <1>1. IsFiniteSet(S) /\ n \in Nat
    BY DocumentsAssumption, FS_Subset, FS_CardinalityType
  <1>2. PICK f \in [1 .. n -> S] : IsInjective(f)
    <2>1. ExistsBijection(1 .. n, S)
      BY <1>1, FS_CardinalityType
    <2>2. PICK f \in Bijection(1 .. n, S) : TRUE
      BY <2>1 DEF ExistsBijection
    <2>3. f \in [1 .. n -> S] /\ \A i, j \in 1 .. n : f[i] = f[j] => i = j
      BY <2>2 DEF Bijection, Injection, IsInjective
    <2> QED
      BY <2>3 DEF IsInjective
  <1>3. SetToSeq(S) \in [1 .. n -> S]
    BY <1>2 DEF SetToSeq
  <1> QED
    BY <1>1, <1>3
-----------------------------------------------------------------------------
(***************************************************************************)
(* Going on with the work.                                                 *)
(***************************************************************************)
LEMMA EmptyMap ==
  ASSUME NEW S
  PROVE  <<>> \in Maps(S) /\ DOMAIN <<>> = {}
  <1>1. <<>> \in [{} -> S] /\ {} \in SUBSET Ids
    OBVIOUS
  <1>2. DOMAIN <<>> = {}
    OBVIOUS
  <1> QED
    BY <1>1, <1>2 DEF Maps

LEMMA MapParts ==
  ASSUME NEW S, NEW f \in Maps(S)
  PROVE  DOMAIN f \subseteq Ids /\ f \in [DOMAIN f -> S]
  <1>1. PICK D \in SUBSET Ids : f \in [D -> S]
    BY DEF Maps
  <1> QED
    BY <1>1

LEMMA PutParts ==
  ASSUME NEW S, NEW f \in Maps(S), NEW key \in Ids, NEW value \in S
  PROVE  LET g == Put(f, key, value)
         IN  /\ g \in Maps(S)
             /\ DOMAIN g = DOMAIN f \cup {key}
             /\ g[key] = value
             /\ \A k \in DOMAIN f : k # key => g[k] = f[k]
  <1> DEFINE g == Put(f, key, value)
  <1>1. DOMAIN f \subseteq Ids /\ f \in [DOMAIN f -> S]
    BY MapParts
  <1>2. /\ DOMAIN g = DOMAIN f \cup {key}
        /\ g \in [DOMAIN f \cup {key} -> S]
        /\ g[key] = value
        /\ \A k \in DOMAIN f : k # key => g[k] = f[k]
    BY <1>1 DEF Put
  <1> HIDE DEF g
  <1>3. g \in Maps(S)
    BY <1>1, <1>2 DEF Maps
  <1> QED
    BY <1>2, <1>3 DEF g

\* Two states with the same request and bundle have the same to do.
LEMMA SameToDo ==
  ASSUME NEW x, NEW y, NEW q, y.step = x.step, y.options = x.options, y.objects = x.objects,
         y.unfit = x.unfit
  PROVE  /\ Idles(y, q) <=> Idles(x, q)
         /\ Missing(y, q) <=> Missing(x, q)
         /\ FurtherEnd(y, q) = FurtherEnd(x, q)
         /\ OtherEnd(y, q) = OtherEnd(x, q)
  BY DEF Idles, Missing, FurtherEnd, OtherEnd, Recorded, InBundle

\* Nothing is held of the item before.
Rested(y) == y.held = <<>> /\ y.unfit = FALSE /\ y.targets = Null /\ y.domains = {}

\* What adding objects and going on with the work leave.
Alike(x, y) ==
  /\ y.step = x.step /\ y.options = x.options /\ y.asked = x.asked /\ y.sources = x.sources
  /\ y.context = x.context /\ y.rels = x.rels /\ y.contents = x.contents

LEMMA AnewParts ==
  ASSUME NEW x \in States, NEW y, y = Anew(x)
  PROVE  /\ y \in States /\ Rested(y) /\ Alike(x, y)
         /\ y.objects = x.objects /\ y.work = x.work /\ y.derived = x.derived
  <1>1. <<>> \in Maps(Addresses \cup {Null}) /\ Null \in Seq(Ids) \cup {Null} /\ {} \in SUBSET STRING
    BY EmptyMap
  <1>2. y = [x EXCEPT !.held = <<>>, !.unfit = FALSE, !.targets = Null, !.domains = {}]
    BY DEF Anew
  <1> QED
    BY <1>1, <1>2 DEF States, Rested, Alike

LEMMA OnwardParts ==
  ASSUME NEW x \in States, NEW S \in {Relation, Ids}, x.work \in Seq(S), NEW y, y = Onward(x)
  PROVE  /\ y \in States /\ Rested(y) /\ Alike(x, y)
         /\ y.objects = x.objects /\ y.derived = x.derived
         /\ y.work \in Seq(S) /\ Range(y.work) \subseteq Range(x.work)
         /\ \A q \in Range(x.work) : q \in Range(y.work) \/ Idles(y, q)
         /\ y.work # <<>> => ~Idles(y, Head(y.work))
  <1>1. PICK z : z = Anew(x)
    OBVIOUS
  <1>2. PICK w : w = Left(z)
    OBVIOUS
  <1>3. /\ z \in States /\ Rested(z) /\ Alike(x, z)
        /\ z.objects = x.objects /\ z.work = x.work /\ z.derived = x.derived
    BY <1>1, AnewParts
  <1>4. /\ w \in Seq(S)
        /\ Range(w) \subseteq Range(x.work)
        /\ \A q \in Range(x.work) : q \in Range(w) \/ Idles(z, q)
        /\ w # <<>> => ~Idles(z, Head(w))
    BY <1>2, <1>3, WhatIsLeft
  <1>5. y = [z EXCEPT !.work = w]
    BY <1>1, <1>2 DEF Onward
  <1>6. w \in Seq(Relation) \cup Seq(Ids)
    BY <1>4
  <1>7. /\ y \in States /\ Rested(y) /\ Alike(z, y)
        /\ y.work = w /\ y.objects = z.objects /\ y.derived = z.derived
    BY <1>3, <1>5, <1>6 DEF States, Rested, Alike
  <1>8. \A q : Idles(y, q) <=> Idles(z, q)
    BY <1>3, <1>7, SameToDo DEF Alike, Rested
  <1>9. Alike(x, y)
    BY <1>3, <1>7 DEF Alike
  <1> QED
    BY <1>3, <1>4, <1>7, <1>8, <1>9
-----------------------------------------------------------------------------
(***************************************************************************)
(* The heap.                                                               *)
(***************************************************************************)
LEMMA AddressParts ==
  ASSUME HeapOK, NEW e \in Exports, NEW id \in Ids, NEW a, a = Address(e, id)
  PROVE  /\ a \in Addresses /\ a \notin DOMAIN heap
         /\ a[1] = e /\ a[2] = id /\ a[3] = Cardinality(ReadBy(e, id))
         /\ a # Null
         /\ IsFiniteSet(ReadBy(e, id)) /\ Cardinality(ReadBy(e, id)) \in Nat
  <1>1. IsFiniteSet(ReadBy(e, id)) /\ Cardinality(ReadBy(e, id)) \in Nat
    <2>1. ReadBy(e, id) \subseteq DOMAIN heap
      BY DEF ReadBy
    <2> QED
      BY <2>1, FS_Subset, FS_CardinalityType DEF HeapOK
  <1>2. a = <<e, id, Cardinality(ReadBy(e, id))>>
    BY DEF Address, ReadBy
  <1>3. a \in Addresses /\ a[1] = e /\ a[2] = id /\ a[3] = Cardinality(ReadBy(e, id))
    BY <1>1, <1>2 DEF Addresses
  <1>4. a \notin DOMAIN heap
    <2>1. a \in DOMAIN heap => a[3] < Cardinality(ReadBy(a[1], a[2]))
      BY DEF HeapOK
    <2> QED
      BY <1>1, <1>3, <2>1
  <1>5. a # Null
    BY <1>3, NullAssumption DEF Addresses
  <1> QED
    BY <1>1, <1>3, <1>4, <1>5

\* What an export reads adds to the heap.
LEMMA WithParts ==
  ASSUME HeapOK, NEW e \in Exports, NEW D \in SUBSET Stored, NEW docs,
         DOMAIN docs = {Address(e, id) : id \in D},
         \A a \in DOMAIN docs : /\ docs[a] \in Copies /\ docs[a].id = a[2]
                                /\ docs[a].version \in DOMAIN Db[a[2]],
         heap' = With(docs)
  PROVE  /\ HeapOK'
         /\ DOMAIN heap' = DOMAIN heap \cup DOMAIN docs
         /\ \A a \in DOMAIN heap : a \notin DOMAIN docs /\ heap'[a] = heap[a]
         /\ \A a \in DOMAIN docs : heap'[a] = docs[a] /\ a[1] = e /\ a[2] \in D
  <1>1. D \subseteq Ids /\ IsFiniteSet(D)
    BY DocumentsAssumption, FS_Subset DEF Stored, Db
  <1>2. \A id \in D : /\ Address(e, id) \in Addresses /\ Address(e, id) \notin DOMAIN heap
                      /\ Address(e, id)[1] = e /\ Address(e, id)[2] = id
                      /\ Address(e, id)[3] = Cardinality(ReadBy(e, id))
                      /\ Cardinality(ReadBy(e, id)) \in Nat
                      /\ IsFiniteSet(ReadBy(e, id))
    BY <1>1, AddressParts
  <1>3. /\ DOMAIN heap' = DOMAIN heap \cup DOMAIN docs
        /\ \A a \in DOMAIN heap : a \notin DOMAIN docs /\ heap'[a] = heap[a]
        /\ \A a \in DOMAIN docs : heap'[a] = docs[a] /\ a[1] = e /\ a[2] \in D
    <2>1. DOMAIN heap' = DOMAIN heap \cup DOMAIN docs
      BY DEF With
    <2>2. \A a \in DOMAIN heap' : heap'[a] = IF a \in DOMAIN docs THEN docs[a] ELSE heap[a]
      BY DEF With
    <2> QED
      BY <1>2, <2>1, <2>2
  <1>4. IsFiniteSet(DOMAIN heap')
    <2> DEFINE f == [id \in D |-> Address(e, id)]
               T == {Address(e, id) : id \in D}
    <2>1. f \in Surjection(D, T)
      BY DEF Surjection
    <2>2. IsFiniteSet(T)
      BY <1>1, <2>1, FS_Surjection
    <2>3. DOMAIN heap' = DOMAIN heap \cup T
      BY <1>3
    <2>4. IsFiniteSet(DOMAIN heap)
      BY DEF HeapOK
    <2> HIDE DEF T
    <2>5. IsFiniteSet(DOMAIN heap \cup T)
      BY <2>2, <2>4, FS_Union
    <2> QED
      BY <2>3, <2>5
  <1>5. \A f, i : IsFiniteSet(ReadBy(f, i)') /\ ReadBy(f, i) \subseteq ReadBy(f, i)'
    <2> SUFFICES ASSUME NEW f, NEW i
                 PROVE  IsFiniteSet(ReadBy(f, i)') /\ ReadBy(f, i) \subseteq ReadBy(f, i)'
      OBVIOUS
    <2>1. ReadBy(f, i)' \subseteq DOMAIN heap' /\ ReadBy(f, i) \subseteq ReadBy(f, i)'
      BY <1>3 DEF ReadBy
    <2> QED
      BY <1>4, <2>1, FS_Subset
  <1>6. \A f, i : Cardinality(ReadBy(f, i)) \in Nat /\ Cardinality(ReadBy(f, i)') \in Nat
                    /\ Cardinality(ReadBy(f, i)) <= Cardinality(ReadBy(f, i)')
    BY <1>5, FS_Subset, FS_CardinalityType
  <1>7. \A id \in D : Cardinality(ReadBy(e, id)) < Cardinality(ReadBy(e, id)')
    <2> SUFFICES ASSUME NEW id \in D
                 PROVE  Cardinality(ReadBy(e, id)) < Cardinality(ReadBy(e, id)')
      OBVIOUS
    <2> DEFINE R == ReadBy(e, id)
               T == ReadBy(e, id)'
               a == Address(e, id)
    <2>1. a \in T /\ a \notin R
      BY <1>2, <1>3 DEF ReadBy
    <2>2. IsFiniteSet(T) /\ R \subseteq T
      BY <1>5
    <2> HIDE DEF R, T, a
    <2>3. R # T
      BY <2>1
    <2>4. Cardinality(R) <= Cardinality(T) /\ Cardinality(R) # Cardinality(T)
      BY <2>2, <2>3, FS_Subset
    <2>5. Cardinality(R) \in Nat /\ Cardinality(T) \in Nat
      BY <1>6 DEF R, T
    <2> QED
      BY <2>4, <2>5 DEF R, T
  <1>8. ASSUME NEW a \in DOMAIN heap'
        PROVE  /\ a \in Addresses
               /\ heap'[a] \in Copies /\ heap'[a].id = a[2] /\ a[2] \in Stored
               /\ heap'[a].version \in DOMAIN Db[a[2]]
               /\ a[3] < Cardinality(ReadBy(a[1], a[2])')
    <2>1. CASE a \in DOMAIN heap
      <3>1. /\ a \in Addresses
            /\ heap[a] \in Copies /\ heap[a].id = a[2] /\ a[2] \in Stored
            /\ heap[a].version \in DOMAIN Db[a[2]]
            /\ a[3] < Cardinality(ReadBy(a[1], a[2]))
        BY <2>1 DEF HeapOK
      <3>2. a[3] \in Nat
        BY <3>1 DEF Addresses
      <3>3. a[3] < Cardinality(ReadBy(a[1], a[2])')
        BY <1>6, <3>1, <3>2
      <3> QED
        BY <1>3, <2>1, <3>1, <3>3
    <2>2. CASE a \in DOMAIN docs
      <3>1. PICK id \in D : a = Address(e, id)
        BY <2>2
      <3>2. a[3] < Cardinality(ReadBy(a[1], a[2])')
        BY <1>2, <1>7, <3>1
      <3> QED
        BY <1>2, <1>3, <2>2, <3>1, <3>2
    <2> QED
      BY <1>3, <2>1, <2>2
  <1>9. HeapOK'
    BY <1>4, <1>8 DEF HeapOK
  <1> QED
    BY <1>3, <1>9

\* Changing the domains of a document leaves the rest of it.
LEMMA SetDomainsParts ==
  ASSUME HeapOK, NEW a \in DOMAIN heap, NEW domains \in SUBSET STRING, SetDomains(a, domains)
  PROVE  /\ HeapOK'
         /\ DOMAIN heap' = DOMAIN heap
         /\ \A b \in DOMAIN heap : b # a => heap'[b] = heap[b]
         /\ heap'[a].id = heap[a].id /\ heap'[a].version = heap[a].version
         /\ heap'[a].domains = domains
  <1>1. heap[a] \in Copies
    BY DEF HeapOK
  <1>2. PICK d : d = [heap[a] EXCEPT !.domains = domains]
    OBVIOUS
  <1>3. heap' = [heap EXCEPT ![a] = d]
    BY <1>2 DEF SetDomains
  <1>4. d \in Copies /\ d.id = heap[a].id /\ d.version = heap[a].version /\ d.domains = domains
    BY <1>1, <1>2 DEF Copies, DomainSets
  <1>5. /\ DOMAIN heap' = DOMAIN heap /\ heap'[a] = d
        /\ \A b \in DOMAIN heap : b # a => heap'[b] = heap[b]
    BY <1>3
  <1>6. \A f, i : ReadBy(f, i)' = ReadBy(f, i)
    BY <1>5 DEF ReadBy
  <1>7. \A b \in DOMAIN heap' :
          /\ heap'[b] \in Copies /\ heap'[b].id = b[2] /\ b[2] \in Stored
          /\ heap'[b].version \in DOMAIN Db[b[2]]
          /\ b[3] < Cardinality(ReadBy(b[1], b[2]))
    BY <1>4, <1>5 DEF HeapOK
  <1>8. HeapOK'
    BY <1>5, <1>6, <1>7 DEF HeapOK
  <1> QED
    BY <1>4, <1>5, <1>8
-----------------------------------------------------------------------------
(***************************************************************************)
(* Documents, and the ones at hand.                                        *)
(***************************************************************************)
LEMMA StoredParts ==
  ASSUME NEW id \in Stored
  PROVE  /\ id \in Ids
         /\ Len(Db[id]) \in DOMAIN Db[id] /\ Len(Db[id]) \in Nat
         /\ Latest(id) \in StoredDocument
         /\ \A v \in DOMAIN Db[id] :
              v \in Nat /\ Db[id][v] \in StoredDocument /\ Db[id][v].type = Latest(id).type
  <1>1. /\ id \in Ids /\ Db[id] \in Seq(StoredDocument) /\ Db[id] # <<>>
        /\ \A v, w \in DOMAIN Db[id] : Db[id][v].type = Db[id][w].type
    BY DocumentsAssumption DEF Stored, Db
  <1>2. Len(Db[id]) \in Nat \ {0} /\ DOMAIN Db[id] = 1 .. Len(Db[id])
    BY <1>1
  <1>3. Len(Db[id]) \in DOMAIN Db[id]
    BY <1>2
  <1>4. \A v \in DOMAIN Db[id] : v \in Nat /\ Db[id][v] \in StoredDocument
    BY <1>1, <1>2
  <1> QED
    BY <1>1, <1>2, <1>3, <1>4 DEF Latest

LEMMA CopyParts ==
  ASSUME NEW id \in Stored, NEW v \in DOMAIN Db[id]
  PROVE  /\ Copy(id, v) \in Copies
         /\ Copy(id, v).id = id /\ Copy(id, v).version = v /\ Copy(id, v).domains = Db[id][v].domains
  <1>1. id \in Ids /\ v \in Nat /\ Db[id][v].domains \in DomainSets
    BY StoredParts DEF StoredDocument, DomainSets
  <1> QED
    BY <1>1 DEF Copy, Copies

LEMMA AtHeap ==
  ASSUME HeapOK, NEW a \in DOMAIN heap
  PROVE  /\ a # Null /\ a \in Addresses /\ a[1] \in Exports
         /\ a[2] \in Stored /\ heap[a].id = a[2]
         /\ Doc(a) = Db[a[2]][heap[a].version] /\ Doc(a) \in StoredDocument
         /\ Doc(a).type = Latest(a[2]).type
  <1>1. a \in Addresses /\ a[2] \in Stored /\ heap[a].id = a[2] /\ heap[a].version \in DOMAIN Db[a[2]]
    BY DEF HeapOK
  <1>2. a # Null /\ a[1] \in Exports
    BY <1>1, NullAssumption DEF Addresses
  <1>3. Doc(a) = Db[a[2]][heap[a].version]
    BY <1>1 DEF Doc
  <1> QED
    BY <1>1, <1>2, <1>3, StoredParts

LEMMA LatestParts ==
  ASSUME HeapOK, NEW a, NEW id, LatestAt(a, id)
  PROVE  /\ a # Null /\ a \in DOMAIN heap /\ a \in Addresses /\ a[2] = id /\ heap[a].id = id
         /\ id \in Stored /\ Doc(a) = Latest(id)
  BY AtHeap DEF LatestAt, Latest

LEMMA WhatFits ==
  ASSUME HeapOK, Faithful, NEW x, NEW a \in DOMAIN heap
  PROVE  /\ Valid(x, a) <=> Fitting(x, a)
         /\ heap[a].version = Len(Db[a[2]]) => (Fitting(x, a) <=> ValidLatest(a[2], x.options))
         /\ Latest(a[2]).type # "x-mitre-detection-strategy"
              => Doc(a) = Latest(a[2]) /\ (Fitting(x, a) <=> ValidLatest(a[2], x.options))
  <1>1. /\ a # Null /\ a[2] \in Stored
        /\ Doc(a) = Db[a[2]][heap[a].version]
    BY AtHeap
  <1>2. /\ heap[a].version = Len(Db[a[2]]) \/ Latest(a[2]).type = "x-mitre-detection-strategy"
        /\ Doc(a).type \in DomainChecked => heap[a].domains = Doc(a).domains
    BY DEF Faithful
  <1>3. isCorrectDomain(Doc(a), heap[a].domains, x.options)
          <=> isCorrectDomain(Doc(a), Doc(a).domains, x.options)
    BY <1>2 DEF isCorrectDomain
  <1>4. Fit(Doc(a), heap[a].domains, x.options) <=> Fit(Doc(a), Doc(a).domains, x.options)
    BY <1>3 DEF Fit
  <1>5. Valid(x, a) <=> Fitting(x, a)
    BY <1>1, <1>4 DEF Valid, Fitting
  <1>6. heap[a].version = Len(Db[a[2]]) =>
          Doc(a) = Latest(a[2]) /\ (Fitting(x, a) <=> ValidLatest(a[2], x.options))
    BY <1>1 DEF Fitting, ValidLatest, Latest
  <1> QED
    BY <1>2, <1>5, <1>6

LEMMA RequestParts ==
  ASSUME ExportTypeOK, NEW e \in Exports, WellFormed(e), export[e].step # "idle"
  PROVE  /\ export[e].options \in Options[e] /\ export[e].options \in AllOptions
         /\ Svc(e) \in BOOLEAN /\ Svc(e) = export[e].options.legacy
         /\ export[e].options.domain \in STRING
  BY OptionsAssumption DEF WellFormed, Svc, AllOptions

LEMMA HandParts ==
  ASSUME ExportTypeOK, CacheOK, NEW e \in Exports, WellFormed(e), Private(e), Active(e),
         NEW id \in Ids, NEW a, a = Hand(e, id)
  PROVE  /\ a # Null => LatestAt(a, id) /\ Shared(e, a)
         /\ a = Null /\ (id \in DOMAIN export[e].held \/ cache[Svc(e)][id] # Null) => id \notin Stored
  <1>1. Svc(e) \in BOOLEAN
    BY RequestParts DEF Active, Stages
  <1>2. CASE id \in DOMAIN export[e].held
    <2>1. a = export[e].held[id]
      BY <1>2 DEF Hand
    <2> QED
      BY <1>2, <2>1 DEF WellFormed, Private
  <1>3. CASE id \notin DOMAIN export[e].held
    <2>1. a = cache[Svc(e)][id]
      BY <1>3 DEF Hand
    <2> QED
      BY <1>1, <1>3, <2>1 DEF CacheOK, Private
  <1> QED
    BY <1>2, <1>3
-----------------------------------------------------------------------------
(***************************************************************************)
(* What a step of an export leaves to the others.                          *)
(***************************************************************************)
\* The heap grows by documents this export reads, and of the others it changes
\* but the domains of those that exports which overlap share with it.
HeapStep(e) ==
  /\ DOMAIN heap \subseteq DOMAIN heap'
  /\ \A a \in DOMAIN heap :
       /\ heap'[a].version = heap[a].version
       /\ heap'[a].domains # heap[a].domains => Doc(a).type \notin DomainChecked /\ Shared(e, a)
  /\ \A a \in DOMAIN heap' :
       a \notin DOMAIN heap =>
         /\ a[1] = e
         /\ heap'[a].version = Len(Db[a[2]]) \/ Latest(a[2]).type = "x-mitre-detection-strategy"
         /\ Doc(a)'.type \in DomainChecked => heap'[a].domains = Doc(a)'.domains

\* The fields of the other service are not touched.
FieldStep(e) ==
  /\ \A s \in BOOLEAN :
       s # Svc(e) => cache'[s] = cache[s] /\ domainCache'[s] = domainCache[s] /\ all'[s] = all[s]
  /\ \A id \in Ids :
       LET c == cache'[Svc(e)][id]
       IN  c # cache[Svc(e)][id] =>
             c \in DOMAIN heap' /\ c[2] = id /\ heap'[c].version = Len(Db[id]) /\ c[1] = e

\* What any step of an export leaves alone.
StepOf(e) ==
  /\ Active(e)
  /\ HeapStep(e) /\ FieldStep(e)
  /\ overlapped' = overlapped
  /\ export'[e].options = export[e].options
  /\ \A f \in Exports : f # e => export'[f] = export[f]

LEMMA DocStays ==
  ASSUME HeapOK, HeapOK', NEW e, HeapStep(e), NEW a \in DOMAIN heap
  PROVE  /\ a \in DOMAIN heap' /\ Doc(a)' = Doc(a)
         /\ \A id : LatestAt(a, id) => LatestAt(a, id)'
         /\ OfGroup(a)' = OfGroup(a)
         /\ \A x : Fitting(x, a)' <=> Fitting(x, a)
  <1>1. a \in DOMAIN heap' /\ heap'[a].version = heap[a].version
    BY DEF HeapStep
  <1>2. heap'[a].id = heap[a].id
    BY <1>1 DEF HeapOK
  <1>3. Doc(a)' = Doc(a)
    BY <1>1, <1>2 DEF Doc
  <1>4. OfGroup(a)' = OfGroup(a)
    BY <1>3 DEF OfGroup
  <1> QED
    BY <1>1, <1>3, <1>4 DEF LatestAt, Fitting

LEMMA GlobalStays ==
  ASSUME ExportTypeOK, Faithful, CacheOK, ExportTypeOK', NEW e \in Exports, StepOf(e), Svc(e) \in BOOLEAN, Pairs
  PROVE  Faithful' /\ CacheOK' /\ Pairs'
  <1>1. HeapOK /\ HeapOK' /\ HeapStep(e) /\ FieldStep(e)
    BY DEF ExportTypeOK, StepOf
  <1>2. Faithful'
    <2> SUFFICES ASSUME NEW a \in DOMAIN heap'
                 PROVE  /\ heap'[a].version = Len(Db[a[2]]) \/ Latest(a[2]).type = "x-mitre-detection-strategy"
                        /\ Doc(a)'.type \in DomainChecked => heap'[a].domains = Doc(a)'.domains
      BY DEF Faithful
    <2>1. CASE a \in DOMAIN heap
      <3>1. Doc(a)' = Doc(a)
        BY <1>1, <2>1, DocStays
      <3>2. /\ heap'[a].version = heap[a].version
            /\ Doc(a).type \in DomainChecked => heap'[a].domains = heap[a].domains
        BY <1>1, <2>1 DEF HeapStep
      <3>3. /\ heap[a].version = Len(Db[a[2]]) \/ Latest(a[2]).type = "x-mitre-detection-strategy"
            /\ Doc(a).type \in DomainChecked => heap[a].domains = Doc(a).domains
        BY <2>1 DEF Faithful
      <3> QED
        BY <3>1, <3>2, <3>3
    <2>2. CASE a \notin DOMAIN heap
      BY <1>1, <2>2 DEF HeapStep
    <2> QED
      BY <2>1, <2>2
  <1>3. CacheOK'
    <2> SUFFICES ASSUME NEW s \in BOOLEAN, NEW id \in Ids, cache'[s][id] # Null
                 PROVE  LatestAt(cache[s][id], id)'
      BY DEF CacheOK
    <2>1. CASE cache'[s][id] = cache[s][id]
      <3>1. LatestAt(cache[s][id], id)
        BY <2>1 DEF CacheOK
      <3>2. PICK a : a = cache[s][id]
        OBVIOUS
      <3>3. LatestAt(a, id) /\ a \in DOMAIN heap
        BY <3>1, <3>2 DEF LatestAt
      <3>4. a \in DOMAIN heap' /\ a[2] = id /\ heap'[a].version = Len(Db[id])
        BY <1>1, <3>3 DEF LatestAt, HeapStep
      <3>5. a = cache'[s][id]
        BY <2>1, <3>2
      <3> QED
        BY <3>4, <3>5 DEF LatestAt
    <2>2. CASE cache'[s][id] # cache[s][id]
      <3>1. s = Svc(e)
        BY <1>1, <2>2 DEF FieldStep
      <3> QED
        BY <1>1, <2>2, <3>1 DEF FieldStep, LatestAt
    <2> QED
      BY <2>1, <2>2
  <1>4. Pairs'
    <2>1. \A f \in Exports : Active(f)' => Active(f)
      BY DEF StepOf, Active
    <2>2. \A f \in Exports : export'[f].options = export[f].options
      BY DEF StepOf
    <2>3. overlapped' = overlapped
      BY DEF StepOf
    <2> QED
      BY <2>1, <2>2, <2>3 DEF Pairs, Together, Svc
  <1> QED
    BY <1>2, <1>3, <1>4
\* What an export that overlaps no other has for itself stays as it is.
LEMMA PrivateStays ==
  ASSUME ExportTypeOK, Pairs, NEW e \in Exports, StepOf(e), Svc(e) \in BOOLEAN,
         NEW f \in Exports, f # e, f \notin overlapped
  PROVE  /\ \A a \in DOMAIN heap : Shared(f, a) => a \in DOMAIN heap' /\ heap'[a].domains = heap[a].domains
         /\ Active(f) /\ Svc(f) \in BOOLEAN =>
              /\ cache'[Svc(f)] = cache[Svc(f)]
              /\ domainCache'[Svc(f)] = domainCache[Svc(f)]
              /\ all'[Svc(f)] = all[Svc(f)]
  <1>1. ASSUME NEW a \in DOMAIN heap, Shared(f, a)
        PROVE  a \in DOMAIN heap' /\ heap'[a].domains = heap[a].domains
    <2>1. a[1] = f
      BY <1>1 DEF Shared
    <2>2. ~Shared(e, a)
      BY <2>1 DEF Shared
    <2> QED
      BY <2>2 DEF StepOf, HeapStep
  <1>2. ASSUME Active(f), Svc(f) \in BOOLEAN
        PROVE  Svc(f) # Svc(e)
    <2>1. Active(e)
      BY DEF StepOf
    <2> QED
      BY <1>2, <2>1 DEF Pairs, Together
  <1> QED
    BY <1>1, <1>2 DEF StepOf, FieldStep

LEMMA OthersStay ==
  ASSUME ExportInv, ExportTypeOK', NEW e \in Exports, StepOf(e), NEW f \in Exports, f # e
  PROVE  Sound(f)'
  <1>0. PICK x : x = export[f]
    OBVIOUS
  <1>1. /\ ExportTypeOK /\ HeapOK /\ HeapOK' /\ HeapStep(e) /\ Faithful /\ CacheOK /\ Pairs
        /\ Sound(f) /\ Sound(e)
    BY DEF ExportInv, ExportTypeOK, StepOf
  <1>2. export'[f] = x /\ overlapped' = overlapped /\ Svc(f)' = Svc(f) /\ Svc(f) = x.options.legacy
    BY <1>0 DEF StepOf, Svc
  <1>3. x.step # "idle" => Svc(f) \in BOOLEAN
    BY <1>0, <1>1, RequestParts DEF Sound
  <1>4. Svc(e) \in BOOLEAN
    BY <1>1, RequestParts DEF Sound, StepOf, Active, Stages
  <1>5. /\ \A a \in DOMAIN heap : a \in DOMAIN heap' /\ OfGroup(a)' = OfGroup(a)
        /\ \A a \in DOMAIN heap : \A id : LatestAt(a, id) => LatestAt(a, id)'
        /\ \A a \in DOMAIN heap : \A z : Fitting(z, a)' <=> Fitting(z, a)
    BY <1>1, DocStays
  <1>6. Active(f)' = Active(f)
    BY <1>0, <1>2 DEF Active
  <1>7. WellFormed(f)'
    <2>1. \A id \in DOMAIN x.held : x.held[id] # Null => LatestAt(x.held[id], id)'
      <3>1. \A id \in DOMAIN x.held : x.held[id] # Null => LatestAt(x.held[id], id) /\ x.held[id] \in DOMAIN heap
        BY <1>0, <1>1 DEF Sound, WellFormed, LatestAt
      <3> QED
        BY <1>5, <3>1
    <2>2. \A id \in InBundle(x) : x.objects[id] \in DOMAIN heap' /\ x.objects[id][2] = id
      BY <1>0, <1>1, <1>5 DEF Sound, WellFormed
    <2> QED
      BY <1>0, <1>1, <1>2, <2>1, <2>2 DEF Sound, WellFormed
  <1>8. Deriving(f)'
    <2> DEFINE c == OtherEnd(x, Head(x.work))
               a == x.held[c]
    <2>1. x.targets # Null =>
            /\ x.step = "secondary" /\ x.work # <<>> /\ Missing(x, Head(x.work))
            /\ c \in DOMAIN x.held /\ Fitting(x, a) /\ OfGroup(a)
      BY <1>0, <1>1 DEF Sound, Deriving
    <2> HIDE DEF a
    <2>2. x.targets # Null => Fitting(x, a)' /\ OfGroup(a)'
      BY <1>5, <2>1 DEF Fitting
    <2> QED
      BY <1>2, <2>1, <2>2 DEF Deriving, a
  <1>9. FitBundle(f)'
    <2>1. \A id \in InBundle(x) : Fitting(x, x.objects[id]) /\ x.objects[id] \in DOMAIN heap
      BY <1>0, <1>1 DEF Sound, FitBundle, Fitting
    <2>2. \A id \in InBundle(x) : Fitting(x, x.objects[id])'
      BY <1>0, <1>5, <2>1
    <2> QED
      BY <1>2, <2>2 DEF FitBundle
  <1>10. Connected(f)' /\ Recording(f)' /\ Sourcing(f)' /\ Relating(f)'
    BY <1>0, <1>1, <1>2 DEF Sound, Connected, Recording, Sourcing, Relating
  <1>11. Settling(f)' /\ Listing(f)'
    BY <1>0, <1>1, <1>2 DEF Sound, Settling, Listing
  <1>12. ASSUME f \notin overlapped
         PROVE  /\ \A a \in DOMAIN heap : Shared(f, a) => a \in DOMAIN heap' /\ heap'[a].domains = heap[a].domains
                /\ Active(f) =>
                     /\ cache'[Svc(f)] = cache[Svc(f)]
                     /\ domainCache'[Svc(f)] = domainCache[Svc(f)]
                     /\ all'[Svc(f)] = all[Svc(f)]
    BY <1>0, <1>1, <1>3, <1>4, <1>12, PrivateStays DEF Active, Stages
  <1>13. Own(f)'
    <2>1. x.step \in Reading => Active(f)
      BY <1>0 DEF Reading, Active, Stages
    <2> QED
      BY <1>0, <1>1, <1>2, <1>12, <2>1 DEF Sound, Own
  <1>14. Private(f)'
    <2>1. \A a : Shared(f, a)' <=> Shared(f, a)
      BY <1>2 DEF Shared
    <2>2. ASSUME Active(f), NEW id \in Ids, cache'[Svc(f)][id] # Null
          PROVE  Shared(f, cache'[Svc(f)][id])
      <3>1. CASE cache'[Svc(f)][id] = cache[Svc(f)][id]
        BY <1>1, <2>2, <3>1 DEF Sound, Private
      <3>2. CASE cache'[Svc(f)][id] # cache[Svc(f)][id]
        <4>1. Svc(f) \in BOOLEAN
          BY <1>0, <1>3, <2>2 DEF Active, Stages
        <4>2. Svc(f) = Svc(e) /\ cache'[Svc(f)][id][1] = e
          BY <3>2, <4>1 DEF StepOf, FieldStep
        <4>3. e \in overlapped /\ f \in overlapped
          BY <1>1, <2>2, <4>2 DEF Pairs, Together, StepOf
        <4> QED
          BY <4>2, <4>3 DEF Shared
      <3> QED
        BY <3>1, <3>2
    <2> QED
      BY <1>0, <1>1, <1>2, <1>6, <2>1, <2>2 DEF Sound, Private
  <1>15. Changed(f)'
    <2> SUFFICES ASSUME f \notin overlapped, x.step \in {"primaries", "relationships", "secondary"}
                 PROVE  Changed(f)'
      BY <1>2 DEF Changed
    <2>1. Active(f)
      BY <1>0 DEF Active, Stages
    <2>2. cache'[Svc(f)] = cache[Svc(f)] /\ domainCache'[Svc(f)] = domainCache[Svc(f)]
      BY <1>12, <2>1
    <2>3. Svc(f) \in BOOLEAN
      BY <1>3
    <2>4. \A id \in Stored : cache[Svc(f)][id] # Null =>
            heap'[cache[Svc(f)][id]].domains = heap[cache[Svc(f)][id]].domains
      <3>1. \A id \in Stored : id \in Ids
        BY StoredParts
      <3>2. \A id \in Stored : cache[Svc(f)][id] # Null =>
              cache[Svc(f)][id] \in DOMAIN heap /\ Shared(f, cache[Svc(f)][id])
        BY <1>1, <2>1, <2>3, <3>1 DEF CacheOK, LatestAt, Sound, Private
      <3> QED
        BY <1>12, <3>2
    <2>5. Changed(f)
      BY <1>1 DEF Sound
    <2> QED
      BY <1>0, <1>2, <2>2, <2>4, <2>5 DEF Changed
  <1>16. Collecting(f)'
    <2>1. x.targets # Null => Active(f)
      BY <1>0, <1>1 DEF Sound, Deriving, Active, Stages
    <2>2. f \notin overlapped /\ x.targets # Null => domainCache'[Svc(f)] = domainCache[Svc(f)]
      BY <1>12, <2>1
    <2>3. Collecting(f)
      BY <1>1 DEF Sound
    <2> QED
      BY <1>0, <1>2, <2>2, <2>3 DEF Collecting
  <1>17. Domained(f)'
    <2>1. \A id \in InBundle(x) : x.objects[id] \in DOMAIN heap /\ Shared(f, x.objects[id])
      BY <1>0, <1>1 DEF Sound, WellFormed, Private
    <2>2. f \notin overlapped => \A id \in InBundle(x) : heap'[x.objects[id]].domains = heap[x.objects[id]].domains
      BY <1>12, <2>1
    <2>3. Domained(f)
      BY <1>1 DEF Sound
    <2> QED
      BY <1>0, <1>2, <2>2, <2>3 DEF Domained
  <1> QED
    BY <1>7, <1>8, <1>9, <1>10, <1>11, <1>13, <1>14, <1>15, <1>16, <1>17 DEF Sound
-----------------------------------------------------------------------------
(***************************************************************************)
(* Steps that change nothing but the state of their export.                *)
(***************************************************************************)
LEMMA BundleParts ==
  ASSUME ExportInv, NEW e \in Exports, NEW x, x = export[e]
  PROVE  /\ \A id \in InBundle(x) :
              /\ id \in Stored /\ x.objects[id] \in DOMAIN heap /\ x.objects[id][2] = id
              /\ Fitting(x, x.objects[id]) /\ Shared(e, x.objects[id])
         /\ x \in States
  <1>1. ExportTypeOK /\ HeapOK /\ Sound(e)
    BY DEF ExportInv, ExportTypeOK
  <1>2. ASSUME NEW id \in InBundle(x)
        PROVE  /\ x.objects[id] \in DOMAIN heap /\ x.objects[id][2] = id
               /\ Fitting(x, x.objects[id]) /\ Shared(e, x.objects[id])
    BY <1>1, <1>2 DEF Sound, WellFormed, FitBundle, Private
  <1>3. \A id \in InBundle(x) : id \in Stored
    BY <1>1, <1>2 DEF HeapOK
  <1>4. x \in States
    BY <1>1 DEF ExportTypeOK
  <1> QED
    BY <1>2, <1>3, <1>4

\* Adding a document leaves those that are in the bundle.
AddedWell(e, x, a, id, y) ==
  /\ y \in States /\ Alike(x, y) /\ y.work = x.work /\ y.derived = x.derived
  /\ InBundle(y) = InBundle(x) \cup {id}
  /\ \A i \in InBundle(x) : y.objects[i] = x.objects[i]
  /\ \A i \in InBundle(y) :
       /\ i \in Stored /\ y.objects[i] \in DOMAIN heap /\ y.objects[i][2] = i
       /\ Fitting(x, y.objects[i]) /\ Shared(e, y.objects[i])
  /\ id \notin InBundle(x) => y.objects[id] = a

LEMMA AddParts ==
  ASSUME ExportInv, NEW e \in Exports, NEW x, x = export[e],
         NEW a, NEW id, LatestAt(a, id) /\ Shared(e, a) /\ Fitting(x, a), NEW y, y = Add(x, a)
  PROVE  AddedWell(e, x, a, id, y)
  <1> USE DEF AddedWell
  <1>1. /\ x \in States
        /\ \A i \in InBundle(x) :
              /\ i \in Stored /\ x.objects[i] \in DOMAIN heap /\ x.objects[i][2] = i
              /\ Fitting(x, x.objects[i]) /\ Shared(e, x.objects[i])
    BY BundleParts
  <1>2. /\ a \in DOMAIN heap /\ a \in Addresses /\ a[2] = id /\ heap[a].id = id /\ id \in Stored /\ id \in Ids
    BY LatestParts, StoredParts DEF ExportInv, ExportTypeOK
  <1>3. CASE id \in InBundle(x)
    BY <1>1, <1>2, <1>3 DEF Add, Alike
  <1>4. CASE id \notin InBundle(x)
    <2>1. PICK o : o = Put(x.objects, id, a)
      OBVIOUS
    <2>2. x.objects \in Maps(Addresses)
      BY <1>1 DEF States
    <2>3. /\ o \in Maps(Addresses) /\ DOMAIN o = DOMAIN x.objects \cup {id} /\ o[id] = a
          /\ \A i \in DOMAIN x.objects : i # id => o[i] = x.objects[i]
      <3>1. id \in Ids /\ a \in Addresses
        BY <1>2
      <3>2. PICK f : f = x.objects
        OBVIOUS
      <3>3. /\ o \in Maps(Addresses) /\ DOMAIN o = DOMAIN f \cup {id} /\ o[id] = a
            /\ \A i \in DOMAIN f : i # id => o[i] = f[i]
        <4>1. f \in Maps(Addresses) /\ o = Put(f, id, a)
          BY <2>1, <2>2, <3>2
        <4> QED
          BY <3>1, <4>1, PutParts
      <3> QED
        BY <3>2, <3>3
    <2>4. y = [x EXCEPT !.objects = o]
      BY <1>2, <1>4, <2>1 DEF Add
    <2>5. /\ y \in States /\ y.objects = o
          /\ Alike(x, y) /\ y.work = x.work /\ y.derived = x.derived
      BY <1>1, <2>3, <2>4 DEF States, Alike
    <2>6. /\ InBundle(y) = InBundle(x) \cup {id}
          /\ \A i \in InBundle(x) : y.objects[i] = x.objects[i]
          /\ y.objects[id] = a
      BY <1>4, <2>3, <2>5 DEF InBundle
    <2>7. \A i \in InBundle(y) :
              /\ i \in Stored /\ y.objects[i] \in DOMAIN heap /\ y.objects[i][2] = i
              /\ Fitting(x, y.objects[i]) /\ Shared(e, y.objects[i])
      BY <1>1, <1>2, <2>6
    <2> QED
      BY <2>5, <2>6, <2>7
  <1> QED
    BY <1>3, <1>4

\* What is gathered holds what the primary objects are connected with.
LEMMA BasedOn ==
  ASSUME NEW x, Primary(x.options) \subseteq InBundle(x), \A q \in Relevant(x.options) : Covered(x, q)
  PROVE  Secondary(x.options) \subseteq InBundle(x)
  <1> SUFFICES ASSUME NEW id \in Secondary(x.options), id \notin Primary(x.options)
               PROVE  id \in InBundle(x)
    OBVIOUS
  <1>1. ValidLatest(id, x.options)
    BY DEF Secondary
  <1>2. PICK q \in Relevant(x.options) : id \in EndsOf(q)
    <2>1. PICK q \in Read(x.options) :
            /\ x.options.legacy \/ q.kind # "detects"
            /\ \/ q.target \in Primary(x.options) /\ id = q.source
               \/ q.source \in Primary(x.options) /\ id = q.target
      BY DEF Secondary
    <2>2. q \in Relevant(x.options) /\ id \in EndsOf(q)
      BY <2>1 DEF Relevant, ReadOf, EndsOf
    <2> QED
      BY <2>2
  <1>3. Covered(x, q)
    OBVIOUS
  <1> QED
    BY <1>1, <1>2, <1>3 DEF Covered

LEMMA Based ==
  ASSUME NEW e \in Exports, NEW x, x = export[e], Connected(e), Gathered(x)
  PROVE  Secondary(x.options) \subseteq InBundle(x)
  <1>1. Primary(x.options) \subseteq InBundle(x) /\ \A q \in Relevant(x.options) : Covered(x, q)
    BY DEF Connected
  <1> QED
    BY <1>1, BasedOn

\* A step that changes nothing but the state of the export.
QuietTo(e, y) ==
  export' = [export EXCEPT ![e] = y] /\ UNCHANGED <<heap, cache, domainCache, all, overlapped>>

LEMMA QuietStep ==
  ASSUME ExportInv, NEW e \in Exports, NEW x, x = export[e], Active(e), NEW y \in States, y.options = x.options,
         QuietTo(e, y)
  PROVE  ExportTypeOK' /\ StepOf(e) /\ ReadOK' /\ export'[e] = y /\ Svc(e)' = Svc(e)
  <1>1. ExportTypeOK /\ HeapOK /\ export \in [Exports -> States] /\ ReadOK
    BY DEF ExportInv, ExportTypeOK
  <1>2. export'[e] = y /\ \A f \in Exports : f # e => export'[f] = export[f]
    BY <1>1 DEF QuietTo
  <1>3. export' \in [Exports -> States]
    BY <1>1 DEF QuietTo
  <1>4. HeapOK' /\ ReadOK'
    BY <1>1 DEF HeapOK, ReadBy, ReadOK, QuietTo
  <1>5. ExportTypeOK'
    BY <1>1, <1>3, <1>4 DEF ExportTypeOK, QuietTo
  <1>6. HeapStep(e) /\ FieldStep(e) /\ overlapped' = overlapped
    BY DEF HeapStep, FieldStep, QuietTo
  <1> QED
    BY <1>2, <1>4, <1>5, <1>6 DEF StepOf, Svc

\* What is in the bundle, held and cached goes on to be as it must.
LEMMA QuietParts ==
  ASSUME ExportInv, NEW e \in Exports, NEW x, x = export[e], Active(e), NEW y \in States, y.options = x.options,
         QuietTo(e, y),
         InBundle(x) \subseteq InBundle(y),
         \A id \in InBundle(x) : y.objects[id] = x.objects[id],
         \A id \in InBundle(y) : /\ y.objects[id] \in DOMAIN heap
                                 /\ Fitting(x, y.objects[id]) /\ Shared(e, y.objects[id]),
         Rested(y) \/ y.held = x.held,
         y.step \in Reading \cup {"done"}, y.step \in Reading => x.step \in Reading,
         y.step = "secondary" => x.step = "secondary",
         Gathered(y) => x.step = "secondary" \/ Gathered(x),
         y.step = "secondary" =>
           \A id \in InBundle(y) \ InBundle(x) : Latest(id).type \notin {"intrusion-set", "campaign"},
         Gathered(y) /\ ~Gathered(x) => InBundle(y) = InBundle(x)
  PROVE  /\ ExportTypeOK' /\ StepOf(e) /\ ReadOK' /\ export'[e] = y
         /\ FitBundle(e)' /\ Private(e)' /\ Own(e)' /\ Changed(e)' /\ Domained(e)'
  <1>1. ExportTypeOK' /\ StepOf(e) /\ ReadOK' /\ export'[e] = y /\ Svc(e)' = Svc(e)
    BY QuietStep
  <1>2. Sound(e)
    BY DEF ExportInv
  <1> USE DEF QuietTo
  <1>3. FitBundle(e)'
    <2>1. \A a : Fitting(y, a)' <=> Fitting(x, a)
      BY DEF Fitting, Doc
    <2> QED
      BY <1>1, <2>1 DEF FitBundle
  <1>4. Private(e)'
    <2>1. \A a : Shared(e, a)' <=> Shared(e, a)
      BY DEF Shared
    <2>2. \A id \in DOMAIN y.held : y.held[id] # Null => Shared(e, y.held[id])
      <3>1. CASE Rested(y)
        BY <3>1, EmptyMap DEF Rested
      <3>2. CASE y.held = x.held
        BY <1>2, <3>2 DEF Sound, Private
      <3> QED
        BY <3>1, <3>2
    <2>3. \A id \in Ids : cache[Svc(e)][id] # Null => Shared(e, cache[Svc(e)][id])
      BY <1>2 DEF Sound, Private
    <2> QED
      BY <1>1, <2>1, <2>2, <2>3 DEF Private
  <1>5. Own(e)'
    BY <1>1, <1>2 DEF Sound, Own
  <1>6. Changed(e)'
    <2> SUFFICES ASSUME e \notin overlapped, y.step = "secondary"
                 PROVE  Changed(e)'
      BY <1>1 DEF Changed, Reading
    <2>1. /\ \A id \in DOMAIN x.held : x.held[id] # Null => cache[Svc(e)][id] = x.held[id]
          /\ \A id \in Stored :
               LET c == cache[Svc(e)]
               IN  /\ domainCache[Svc(e)][id] \in {Null, Latest(id).domains}
                   /\ c[id] # Null /\ heap[c[id]].domains # Latest(id).domains =>
                        id \in InBundle(x) /\ domainCache[Svc(e)][id] = Latest(id).domains
      BY <1>2 DEF Sound, Changed
    <2>2. \A id \in DOMAIN y.held : y.held[id] # Null => cache[Svc(e)][id] = y.held[id]
      <3>1. CASE Rested(y)
        BY <3>1, EmptyMap DEF Rested
      <3>2. CASE y.held = x.held
        BY <2>1, <3>2
      <3> QED
        BY <3>1, <3>2
    <2> QED
      BY <1>1, <2>1, <2>2 DEF Changed
  <1>7. Domained(e)'
    <2> SUFFICES ASSUME e \notin overlapped, NEW id \in InBundle(y),
                        y.step = "secondary" \/ (Gathered(y) /\ id \in Secondary(y.options)),
                        Latest(id).type \in {"intrusion-set", "campaign"}, Known(id, y.options)
                 PROVE  heap[y.objects[id]].domains = Collected(id, y.options)
      BY <1>1 DEF Domained
    <2>1. CASE id \in InBundle(x)
      BY <1>2, <2>1 DEF Sound, Domained
    <2>2. CASE id \notin InBundle(x)
      <3>1. Gathered(x)
        BY <2>2
      <3>2. id \in Secondary(x.options)
        BY <2>2
      <3> QED
        BY <1>2, <2>2, <3>1, <3>2, Based DEF Sound
    <2> QED
      BY <2>1, <2>2
  <1> QED
    BY <1>1, <1>3, <1>4, <1>5, <1>6, <1>7

\* What a step of an export has to keep up.
Upheld(e) == ExportTypeOK' /\ StepOf(e) /\ ReadOK' /\ Sound(e)'

LEMMA Failing ==
  ASSUME ExportInv, NEW e \in Exports, NEW x, x = export[e], Active(e), QuietTo(e, Failed(x))
  PROVE  Upheld(e)
  <1>1. PICK y : y = Failed(x)
    OBVIOUS
  <1>2. x \in States /\ WellFormed(e)
    BY BundleParts DEF ExportInv, Sound
  <1>3. x.options \in AllOptions \cup {Null} /\ x.options \in Options[e]
    BY <1>2 DEF States, WellFormed, Active, Stages
  <1>4. /\ y = [step |-> "failed", options |-> x.options, objects |-> <<>>, work |-> <<>>,
                asked |-> Null, held |-> <<>>, unfit |-> FALSE, targets |-> Null, domains |-> {},
                derived |-> {}, sources |-> {}, context |-> {}, rels |-> {}, contents |-> {}]
    BY <1>1 DEF Failed, NotBegun
  <1>5. /\ <<>> \in Maps(Addresses) /\ <<>> \in Maps(Addresses \cup {Null}) /\ <<>> \in Seq(Ids)
        /\ DOMAIN <<>> = {}
    BY EmptyMap
  <1>6. y \in States
    BY <1>3, <1>4, <1>5 DEF States
  <1>7. /\ y.step = "failed" /\ y.options = x.options /\ y.objects = <<>> /\ y.work = <<>>
        /\ y.asked = Null /\ y.held = <<>> /\ y.unfit = FALSE /\ y.targets = Null
        /\ y.domains = {} /\ y.rels = {} /\ DOMAIN y.objects = {} /\ DOMAIN y.held = {}
    BY <1>4, <1>5
  <1> HIDE <1>4
  <1>8. ExportTypeOK' /\ StepOf(e) /\ ReadOK' /\ export'[e] = y
    BY <1>1, <1>6, <1>7, QuietStep
  <1>9. WellFormed(e)' /\ Deriving(e)' /\ FitBundle(e)'
    BY <1>3, <1>7, <1>8 DEF WellFormed, Deriving, FitBundle, InBundle, Reading
  <1>10. Connected(e)' /\ Recording(e)' /\ Sourcing(e)' /\ Relating(e)'
    BY <1>7, <1>8 DEF Connected, Recording, Sourcing, Relating, Gathered
  <1>11. Own(e)' /\ Settling(e)' /\ Listing(e)'
    BY <1>7, <1>8 DEF Own, Settling, Listing, Concluded, Reading
  <1>12. Private(e)' /\ Changed(e)' /\ Collecting(e)' /\ Domained(e)'
    BY <1>7, <1>8 DEF Private, Active, Stages, Changed, Collecting, Domained, InBundle
  <1> QED
    BY <1>8, <1>9, <1>10, <1>11, <1>12 DEF Upheld, Sound
-----------------------------------------------------------------------------
(***************************************************************************)
(* addSecondaryObjects.                                                    *)
(***************************************************************************)
\* A relationship that is done with had nothing to add any more.
Pursues(x, y) ==
  /\ x.step = "secondary" /\ y.step = "secondary" /\ y.options = x.options
  /\ Rested(y)
  /\ InBundle(x) \subseteq InBundle(y) /\ x.derived \subseteq y.derived
  /\ y.work \in Seq(Relation) /\ Range(y.work) \subseteq Range(x.work)
  /\ y.work # <<>> => ~Idles(y, Head(y.work))
  /\ \A q \in Range(x.work) :
       \/ q \in Range(y.work) \/ Idles(y, q)
       \/ Covered(y, q) /\ (q \in Detections(x.options) => <<q.target, q.source>> \in y.derived)

LEMMA GoingOn ==
  ASSUME NEW e \in Exports, Pursues(export[e], export'[e]), Connected(e), Recording(e)
  PROVE  Connected(e)' /\ Recording(e)'
  <1>0. PICK x, y : x = export[e] /\ y = export'[e]
    OBVIOUS
  <1> USE <1>0 DEF Pursues, Rested
  <1>1. ASSUME NEW q, Covered(x, q)
        PROVE  Covered(y, q)
    BY <1>1 DEF Covered
  <1>2. ASSUME NEW q \in Relevant(x.options), Idles(y, q)
        PROVE  Covered(y, q)
    <2>1. q.kind # "detects" \/ y.options.legacy
      BY DEF Relevant
    <2>2. EndsOf(q) \subseteq InBundle(y)
      BY <1>2, <2>1 DEF Idles, Missing, EndsOf
    <2> QED
      BY <2>2 DEF Covered
  <1>3. ASSUME NEW q \in Detections(x.options)
        PROVE  ~Idles(y, q)
    BY DEF Detections, Idles, Recorded
  <1>4. Connected(e)'
    <2>1. Primary(x.options) \subseteq InBundle(y)
      BY DEF Connected
    <2>2. \A q \in Range(y.work) : EndsOf(q) \cap InBundle(y) # {}
      BY DEF Connected
    <2>3. \A q \in Relevant(x.options) : q \in Range(y.work) \/ Covered(y, q)
      BY <1>1, <1>2 DEF Connected
    <2> QED
      BY <2>1, <2>2, <2>3 DEF Connected, Gathered
  <1>5. Recording(e)'
    <2>1. \A q \in Detections(x.options) : q \in Range(y.work) \/ <<q.target, q.source>> \in y.derived
      BY <1>3 DEF Recording
    <2> QED
      BY <2>1 DEF Recording, Gathered
  <1> QED
    BY <1>4, <1>5

LEMMA SecondaryGoesOn ==
  ASSUME ExportInv, NEW e \in Exports, NEW x, x = export[e], x.asked = Null,
         NEW y \in States, QuietTo(e, y), Pursues(x, y), y.asked = x.asked, y.rels = x.rels,
         \A id \in InBundle(x) : y.objects[id] = x.objects[id],
         \A id \in InBundle(y) : /\ y.objects[id] \in DOMAIN heap /\ y.objects[id][2] = id
                                 /\ Fitting(x, y.objects[id]) /\ Shared(e, y.objects[id]),
         \A id \in InBundle(y) \ InBundle(x) : Latest(id).type \notin {"intrusion-set", "campaign"}
  PROVE  Upheld(e)
  <1>1. Sound(e) /\ Active(e)
    BY DEF ExportInv, Active, Stages, Pursues
  <1> USE DEF Pursues
  <1>2. /\ ExportTypeOK' /\ StepOf(e) /\ ReadOK' /\ export'[e] = y
        /\ FitBundle(e)' /\ Private(e)' /\ Own(e)' /\ Changed(e)' /\ Domained(e)'
    BY <1>1, QuietParts DEF Gathered, Reading
  <1>3. Connected(e)' /\ Recording(e)'
    <2>1. Pursues(export[e], export'[e])
      BY <1>2
    <2> QED
      BY <1>1, <2>1, GoingOn DEF Sound
  <1>4. x.rels = {} /\ x.options \in Options[e]
    BY <1>1 DEF Sound, WellFormed
  <1>5. DOMAIN y.held = {} /\ y.unfit = FALSE /\ y.targets = Null /\ y.domains = {}
    BY EmptyMap DEF Rested
  <1>6. WellFormed(e)'
    <2>1. heap' = heap
      BY DEF QuietTo
    <2> QED
      BY <1>2, <1>4, <1>5, <2>1 DEF WellFormed
  <1>7. Deriving(e)' /\ Sourcing(e)' /\ Relating(e)' /\ Collecting(e)'
    BY <1>2, <1>4, <1>5 DEF Deriving, Sourcing, Relating, Collecting, Gathered
  <1>8. Settling(e)' /\ Listing(e)'
    BY <1>2 DEF Settling, Listing, Concluded
  <1> QED
    BY <1>1, <1>2, <1>3, <1>6, <1>7, <1>8 DEF Upheld, Sound

LEMMA DoneParts ==
  ASSUME NEW x \in States, NEW S \in {Relation, Ids}, x.work \in Seq(S), x.work # <<>>, NEW y, y = Done(x)
  PROVE  /\ y \in States /\ Rested(y) /\ Alike(x, y)
         /\ y.objects = x.objects /\ y.derived = x.derived
         /\ y.work \in Seq(S) /\ Range(y.work) \subseteq Range(x.work)
         /\ \A q \in Range(x.work) : q \in Range(y.work) \/ Idles(y, q) \/ q = Head(x.work)
         /\ y.work # <<>> => ~Idles(y, Head(y.work))
  <1>1. PICK t : t = Tail(x.work)
    OBVIOUS
  <1>2. PICK z : z = [x EXCEPT !.work = t]
    OBVIOUS
  <1>3. t \in Seq(S) /\ Range(x.work) = {Head(x.work)} \cup Range(t)
    BY <1>1, HeadAndTail
  <1>4. t \in Seq(Relation) \cup Seq(Ids)
    BY <1>3
  <1>5. z \in States /\ z.work = t /\ Alike(x, z) /\ z.objects = x.objects /\ z.derived = x.derived
    BY <1>2, <1>4 DEF States, Alike
  <1>6. y = Onward(z) /\ z \in States /\ z.work \in Seq(S)
    BY <1>1, <1>2, <1>3, <1>5 DEF Done
  <1>7. /\ y \in States /\ Rested(y) /\ Alike(z, y)
        /\ y.objects = z.objects /\ y.derived = z.derived
        /\ y.work \in Seq(S) /\ Range(y.work) \subseteq Range(z.work)
        /\ \A q \in Range(z.work) : q \in Range(y.work) \/ Idles(y, q)
        /\ y.work # <<>> => ~Idles(y, Head(y.work))
    BY <1>6, OnwardParts
  <1>8. Alike(x, y)
    BY <1>5, <1>7 DEF Alike
  <1>9. Range(y.work) \subseteq Range(x.work)
    BY <1>3, <1>5, <1>7
  <1>10. \A q \in Range(x.work) : q \in Range(y.work) \/ Idles(y, q) \/ q = Head(x.work)
    BY <1>3, <1>5, <1>7
  <1> QED
    BY <1>5, <1>7, <1>8, <1>9, <1>10

\* The object that is considered is the one that is stored.
ConsideredWell(e, x, q, id, a) ==
  /\ x \in States /\ Sound(e) /\ Active(e)
  /\ x.step = "secondary" /\ x.asked = Null /\ x.work # <<>> /\ x.work \in Seq(Relation)
  /\ q \in Relation /\ q \in Range(x.work) /\ x.unfit = FALSE
  /\ id \in Ids /\ id \notin InBundle(x) /\ EndsOf(q) \subseteq InBundle(x) \cup {id}
  /\ a = Null => id \notin Stored
  /\ a # Null => LatestAt(a, id) /\ Shared(e, a)
  /\ Valid(x, a) <=> ValidLatest(id, x.options)
  /\ Valid(x, a) => LatestAt(a, id) /\ Shared(e, a) /\ Fitting(x, a)

LEMMA ConsideredParts ==
  ASSUME ExportInv, NEW e \in Exports, Considers(e), NEW x, NEW q, NEW id, NEW a,
         x = export[e] /\ q = Head(x.work) /\ id = OtherEnd(x, q) /\ a = Considered(e)
  PROVE  ConsideredWell(e, x, q, id, a)
  <1>1. /\ ExportTypeOK /\ HeapOK /\ Faithful /\ CacheOK /\ Sound(e) /\ x \in States
    BY BundleParts DEF ExportInv, ExportTypeOK
  <1>2. /\ x.step = "secondary" /\ x.asked = Null /\ x.work # <<>> /\ Missing(x, q)
        /\ Needed(x) \notin DOMAIN x.held \cup {Null} => cache[Svc(e)][Needed(x)] # Null
    BY DEF Considers, At
  <1>3. Active(e) /\ x.work \in Seq(Relation)
    BY <1>1, <1>2 DEF Active, Stages, Sound, WellFormed
  <1>4. q \in Relation /\ q \in Range(x.work)
    BY <1>2, <1>3, HeadAndTail
  <1>5. q.source \in Ids /\ q.target \in Ids
    BY <1>4 DEF Relation
  <1>6. EndsOf(q) \cap InBundle(x) # {} /\ x.unfit \in BOOLEAN
    BY <1>1, <1>2, <1>4 DEF Sound, Connected, States
  <1>7. x.unfit = FALSE /\ id \in Ids /\ id \notin InBundle(x) /\ EndsOf(q) \subseteq InBundle(x) \cup {id}
    BY <1>2, <1>5, <1>6 DEF Missing, OtherEnd, EndsOf
  <1>8. id # Null
    BY <1>7, NullAssumption
  <1>9. id \in DOMAIN x.held \/ cache[Svc(e)][id] # Null
    <2>1. CASE x.targets = Null
      <3>1. Needed(x) = id
        BY <1>2, <2>1 DEF Needed, NeededIn
      <3> QED
        BY <1>2, <1>8, <3>1
    <2>2. CASE x.targets # Null
      BY <1>1, <2>2 DEF Sound, Deriving
    <2> QED
      BY <2>1, <2>2
  <1>10. a = Hand(e, id)
    BY DEF Considered
  <1>11. /\ a # Null => LatestAt(a, id) /\ Shared(e, a)
         /\ a = Null => id \notin Stored
    BY <1>1, <1>3, <1>7, <1>9, <1>10, HandParts DEF Sound
  <1>12. CASE a = Null
    <2>1. ~Valid(x, a) /\ ~ValidLatest(id, x.options)
      BY <1>11, <1>12 DEF Valid, ValidLatest
    <2> QED
      BY <1>1, <1>2, <1>3, <1>4, <1>7, <1>11, <2>1 DEF ConsideredWell
  <1>13. CASE a # Null
    <2>1. a \in DOMAIN heap /\ a[2] = id /\ heap[a].version = Len(Db[a[2]])
      BY <1>11, <1>13 DEF LatestAt
    <2>2. Valid(x, a) <=> ValidLatest(id, x.options)
      BY <1>1, <2>1, WhatFits
    <2>3. Valid(x, a) => Fitting(x, a)
      BY <1>1, <2>1, WhatFits
    <2> QED
      BY <1>1, <1>2, <1>3, <1>4, <1>7, <1>11, <1>13, <2>2, <2>3 DEF ConsideredWell
  <1> QED
    BY <1>12, <1>13

LEMMA AddSecondaryStep ==
  ASSUME ExportInv, NEW e \in Exports, AddSecondary(e)
  PROVE  Upheld(e)
  <1>0. PICK x, q, id, a : x = export[e] /\ q = Head(x.work) /\ id = OtherEnd(x, q) /\ a = Considered(e)
    OBVIOUS
  <1>1. /\ x \in States /\ Sound(e) /\ Active(e)
        /\ x.step = "secondary" /\ x.asked = Null /\ x.work # <<>> /\ x.work \in Seq(Relation)
        /\ q \in Relation /\ q \in Range(x.work) /\ x.unfit = FALSE
        /\ id \in Ids /\ id \notin InBundle(x) /\ EndsOf(q) \subseteq InBundle(x) \cup {id}
        /\ Valid(x, a) <=> ValidLatest(id, x.options)
        /\ Valid(x, a) => LatestAt(a, id) /\ Shared(e, a) /\ Fitting(x, a)
    <2>1. ConsideredWell(e, x, q, id, a)
      BY <1>0, ConsideredParts DEF AddSecondary
    <2> QED
      BY <2>1 DEF ConsideredWell
  <1>2. x.targets = Null /\ UNCHANGED <<heap, cache, domainCache, all, overlapped>>
    BY <1>0 DEF AddSecondary
  <1>3. /\ \A i \in InBundle(x) :
             /\ x.objects[i] \in DOMAIN heap /\ x.objects[i][2] = i
             /\ Fitting(x, x.objects[i]) /\ Shared(e, x.objects[i])
    BY <1>0, BundleParts
  <1>4. CASE Valid(x, a)
    <2>1. ~OfGroup(a) /\ export' = [export EXCEPT ![e] = Onward(Add(x, a))]
      BY <1>0, <1>4 DEF AddSecondary
    <2>2. PICK z : z = Add(x, a)
      OBVIOUS
    <2>3. PICK y : y = Onward(z)
      OBVIOUS
    <2>4. LatestAt(a, id) /\ Shared(e, a) /\ Fitting(x, a)
      BY <1>1, <1>4
    <2>5. /\ z \in States /\ Alike(x, z) /\ z.work = x.work /\ z.derived = x.derived
          /\ InBundle(z) = InBundle(x) \cup {id}
          /\ \A i \in InBundle(x) : z.objects[i] = x.objects[i]
          /\ \A i \in InBundle(z) :
               /\ i \in Stored /\ z.objects[i] \in DOMAIN heap /\ z.objects[i][2] = i
               /\ Fitting(x, z.objects[i]) /\ Shared(e, z.objects[i])
      <3>1. AddedWell(e, x, a, id, z)
        BY <1>0, <2>2, <2>4, AddParts
      <3> QED
        BY <3>1 DEF AddedWell
    <2>6. /\ y \in States /\ Rested(y) /\ Alike(z, y)
          /\ y.objects = z.objects /\ y.derived = z.derived
          /\ y.work \in Seq(Relation) /\ Range(y.work) \subseteq Range(z.work)
          /\ \A p \in Range(z.work) : p \in Range(y.work) \/ Idles(y, p)
          /\ y.work # <<>> => ~Idles(y, Head(y.work))
      <3>1. z.work \in Seq(Relation)
        BY <1>1, <2>5
      <3> QED
        BY <2>3, <2>5, <3>1, OnwardParts
    <2>7. InBundle(y) = InBundle(x) \cup {id}
      BY <2>5, <2>6 DEF InBundle
    <2>8. Alike(x, y)
      BY <2>5, <2>6 DEF Alike
    <2>9. Pursues(x, y)
      BY <1>1, <2>5, <2>6, <2>7, <2>8 DEF Pursues, Alike
    <2>10. Latest(id).type \notin {"intrusion-set", "campaign"}
      <3>1. Doc(a) = Latest(id)
        BY <2>4, LatestParts DEF ExportInv, ExportTypeOK
      <3> QED
        BY <2>1, <3>1 DEF OfGroup
    <2>11. QuietTo(e, y)
      BY <1>2, <2>1, <2>2, <2>3 DEF QuietTo
    <2>12. /\ \A i \in InBundle(x) : y.objects[i] = x.objects[i]
           /\ \A i \in InBundle(y) : /\ y.objects[i] \in DOMAIN heap /\ y.objects[i][2] = i
                                     /\ Fitting(x, y.objects[i]) /\ Shared(e, y.objects[i])
           /\ \A i \in InBundle(y) \ InBundle(x) : Latest(i).type \notin {"intrusion-set", "campaign"}
      BY <2>5, <2>6, <2>7, <2>10
    <2>13. y.asked = x.asked /\ y.rels = x.rels
      BY <2>8 DEF Alike
    <2> QED
      BY <1>0, <1>1, <2>6, <2>9, <2>11, <2>12, <2>13, SecondaryGoesOn
  <1>5. CASE ~Valid(x, a) /\ ~Recorded(x, q)
    <2>1. PICK y : y = Done(x)
      OBVIOUS
    <2>2. QuietTo(e, y)
      BY <1>0, <1>2, <1>5, <2>1 DEF AddSecondary, QuietTo
    <2>3. /\ y \in States /\ Rested(y) /\ Alike(x, y)
          /\ y.objects = x.objects /\ y.derived = x.derived
          /\ y.work \in Seq(Relation) /\ Range(y.work) \subseteq Range(x.work)
          /\ \A p \in Range(x.work) : p \in Range(y.work) \/ Idles(y, p) \/ p = Head(x.work)
          /\ y.work # <<>> => ~Idles(y, Head(y.work))
      BY <1>1, <2>1, DoneParts
    <2>4. InBundle(y) = InBundle(x) /\ y.options = x.options
      BY <2>3 DEF InBundle, Alike
    <2>5. Covered(y, q) /\ q \notin Detections(x.options)
      BY <1>1, <1>5, <2>4 DEF Covered, Recorded, Detections
    <2>6. Pursues(x, y)
      BY <1>0, <1>1, <2>3, <2>4, <2>5 DEF Pursues, Alike
    <2>7. y.asked = x.asked /\ y.rels = x.rels
      BY <2>3 DEF Alike
    <2>8. /\ \A i \in InBundle(x) : y.objects[i] = x.objects[i]
          /\ \A i \in InBundle(y) : /\ y.objects[i] \in DOMAIN heap /\ y.objects[i][2] = i
                                    /\ Fitting(x, y.objects[i]) /\ Shared(e, y.objects[i])
          /\ \A i \in InBundle(y) \ InBundle(x) : Latest(i).type \notin {"intrusion-set", "campaign"}
      BY <1>3, <2>3, <2>4
    <2> QED
      BY <1>0, <1>1, <2>2, <2>3, <2>6, <2>7, <2>8, SecondaryGoesOn
  <1>6. CASE ~Valid(x, a) /\ Recorded(x, q)
    <2>1. PICK y : y = [x EXCEPT !.unfit = TRUE]
      OBVIOUS
    <2>2. QuietTo(e, y)
      BY <1>0, <1>2, <1>6, <2>1 DEF AddSecondary, QuietTo
    <2>3. /\ y \in States /\ Alike(x, y) /\ y.objects = x.objects /\ y.work = x.work
          /\ y.held = x.held /\ y.unfit = TRUE /\ y.targets = Null /\ y.domains = x.domains
          /\ y.derived = x.derived
      BY <1>1, <1>2, <2>1 DEF States, Alike
    <2>4. /\ InBundle(y) = InBundle(x) /\ y.options = x.options /\ y.step = "secondary"
          /\ y.asked = Null /\ y.rels = x.rels
      BY <1>1, <2>3 DEF InBundle, Alike
    <2>5. /\ \A i \in InBundle(x) : y.objects[i] = x.objects[i]
          /\ \A i \in InBundle(y) : /\ y.objects[i] \in DOMAIN heap
                                    /\ Fitting(x, y.objects[i]) /\ Shared(e, y.objects[i])
      BY <1>3, <2>3, <2>4
    <2>6. /\ ExportTypeOK' /\ StepOf(e) /\ ReadOK' /\ export'[e] = y
          /\ FitBundle(e)' /\ Private(e)' /\ Own(e)' /\ Changed(e)' /\ Domained(e)'
      BY <1>0, <1>1, <2>2, <2>3, <2>4, <2>5, QuietParts DEF Gathered, Reading
    <2>7. WellFormed(e)'
      <3>1. ~Idles(y, Head(y.work))
        BY <1>0, <1>6, <2>3, <2>4 DEF Idles, Recorded
      <3>2. WellFormed(e) /\ heap' = heap
        BY <1>1, <1>2 DEF Sound
      <3> QED
        BY <1>0, <1>1, <1>2, <2>3, <2>4, <2>6, <3>1, <3>2 DEF WellFormed, LatestAt
    <2>8. Connected(e)' /\ Recording(e)'
      <3>1. Covered(y, q)
        BY <1>1, <1>6, <2>4 DEF Covered
      <3>2. Connected(e) /\ Recording(e)
        BY <1>1 DEF Sound
      <3>3. \A p : Covered(x, p) => Covered(y, p)
        BY <2>4 DEF Covered
      <3> QED
        BY <1>0, <1>1, <2>3, <2>4, <2>6, <3>1, <3>2, <3>3 DEF Connected, Recording, Gathered
    <2>9. Deriving(e)' /\ Sourcing(e)' /\ Relating(e)' /\ Collecting(e)'
      <3>1. x.rels = {}
        BY <1>0, <1>1 DEF Sound, WellFormed
      <3> QED
        BY <2>3, <2>4, <2>6, <3>1 DEF Deriving, Sourcing, Relating, Collecting, Gathered
    <2>10. Settling(e)' /\ Listing(e)'
      BY <2>4, <2>6 DEF Settling, Listing, Concluded
    <2> QED
      BY <2>6, <2>7, <2>8, <2>9, <2>10 DEF Upheld, Sound
  <1> QED
    BY <1>4, <1>5, <1>6

LEMMA RecordDetectionStep ==
  ASSUME ExportInv, NEW e \in Exports, RecordDetection(e)
  PROVE  Upheld(e)
  <1>0. PICK x, q : x = export[e] /\ q = Head(x.work)
    OBVIOUS
  <1>1. /\ x.step = "secondary" /\ x.asked = Null /\ x.work # <<>> /\ ~Missing(x, q)
        /\ UNCHANGED <<heap, cache, domainCache, all, overlapped>>
    BY <1>0 DEF RecordDetection, At
  <1>2. /\ x \in States /\ Sound(e) /\ Active(e)
        /\ \A i \in InBundle(x) :
             /\ x.objects[i] \in DOMAIN heap /\ x.objects[i][2] = i
             /\ Fitting(x, x.objects[i]) /\ Shared(e, x.objects[i])
    BY <1>0, <1>1, BundleParts DEF ExportInv, Active, Stages
  <1>3. x.work \in Seq(Relation) /\ ~Idles(x, q)
    BY <1>0, <1>1, <1>2 DEF Sound, WellFormed
  <1>4. q \in Relation /\ q \in Range(x.work) /\ q.source \in Ids /\ q.target \in Ids
    <2>1. q \in Relation /\ q \in Range(x.work)
      BY <1>0, <1>1, <1>3, HeadAndTail
    <2> QED
      BY <2>1 DEF Relation
  <1>5. Recorded(x, q)
    BY <1>1, <1>3 DEF Idles
  <1>6. Covered(x, q)
    <2>1. CASE x.unfit
      BY <1>0, <1>2, <2>1 DEF Sound, Connected
    <2>2. CASE ~x.unfit
      BY <1>1, <1>5, <2>2 DEF Missing, Recorded, Covered, EndsOf
    <2> QED
      BY <2>1, <2>2
  <1>7. CASE Hand(e, q.source) = Null
    <2>1. QuietTo(e, Failed(x))
      BY <1>0, <1>1, <1>7 DEF RecordDetection, QuietTo
    <2> QED
      BY <1>0, <1>2, <2>1, Failing
  <1>8. CASE Hand(e, q.source) # Null
    <2>1. PICK d : d = x.derived \cup {<<q.target, q.source>>}
      OBVIOUS
    <2>2. PICK z : z = [x EXCEPT !.derived = d]
      OBVIOUS
    <2>3. PICK y : y = Done(z)
      OBVIOUS
    <2>4. QuietTo(e, y)
      BY <1>0, <1>1, <1>8, <2>1, <2>2, <2>3 DEF RecordDetection, QuietTo
    <2>5. d \in SUBSET (Ids \X Ids)
      BY <1>2, <1>4, <2>1 DEF States
    <2>6. z \in States /\ Alike(x, z) /\ z.objects = x.objects /\ z.work = x.work /\ z.derived = d
      BY <1>2, <2>2, <2>5 DEF States, Alike
    <2>7. z.work \in Seq(Relation) /\ z.work # <<>>
      BY <1>1, <1>3, <2>6
    <2>8. /\ y \in States /\ Rested(y) /\ Alike(z, y)
          /\ y.objects = z.objects /\ y.derived = z.derived
          /\ y.work \in Seq(Relation) /\ Range(y.work) \subseteq Range(z.work)
          /\ \A p \in Range(z.work) : p \in Range(y.work) \/ Idles(y, p) \/ p = Head(z.work)
          /\ y.work # <<>> => ~Idles(y, Head(y.work))
      BY <2>3, <2>6, <2>7, DoneParts
    <2>9. Alike(x, y) /\ InBundle(y) = InBundle(x)
      BY <2>6, <2>8 DEF Alike, InBundle
    <2>10. Covered(y, q) /\ <<q.target, q.source>> \in y.derived /\ x.derived \subseteq y.derived
      BY <1>6, <2>1, <2>6, <2>8, <2>9 DEF Covered, Alike
    <2>11. Pursues(x, y)
      BY <1>0, <1>1, <2>6, <2>8, <2>9, <2>10 DEF Pursues, Alike
    <2>12. y.asked = x.asked /\ y.rels = x.rels
      BY <2>9 DEF Alike
    <2>13. /\ \A i \in InBundle(x) : y.objects[i] = x.objects[i]
           /\ \A i \in InBundle(y) : /\ y.objects[i] \in DOMAIN heap /\ y.objects[i][2] = i
                                     /\ Fitting(x, y.objects[i]) /\ Shared(e, y.objects[i])
           /\ \A i \in InBundle(y) \ InBundle(x) : Latest(i).type \notin {"intrusion-set", "campaign"}
      BY <1>2, <2>6, <2>8, <2>9
    <2> QED
      BY <1>0, <1>1, <2>4, <2>8, <2>11, <2>12, <2>13, SecondaryGoesOn
  <1> QED
    BY <1>7, <1>8

LEMMA NeededParts ==
  ASSUME NEW e \in Exports, NEW x \in States, x = export[e], WellFormed(e), x.step \in Reading, Needed(x) # Null
  PROVE  Needed(x) \in Ids /\ x.work # <<>>
  <1>1. x.work # <<>> /\ Needed(x) = NeededIn(x, Head(x.work))
    BY DEF Needed
  <1>2. CASE x.step \in {"sources", "context"}
    <2>1. x.work \in Seq(Ids)
      BY <1>2 DEF WellFormed
    <2>2. Head(x.work) \in Ids
      BY <1>1, <2>1
    <2> QED
      BY <1>1, <1>2, <2>2 DEF NeededIn
  <1>3. CASE x.step \in {"secondary", "further"}
    <2>1. x.work \in Seq(Relation)
      BY <1>3 DEF WellFormed
    <2>2. PICK q \in Relation : q = Head(x.work)
      BY <1>1, <2>1
    <2>3. q.source \in Ids /\ q.target \in Ids
      BY DEF Relation
    <2>4. CASE x.step = "further"
      BY <1>1, <2>2, <2>3, <2>4 DEF NeededIn, FurtherEnd
    <2>5. CASE x.step = "secondary" /\ (~Missing(x, q) \/ x.targets \in {Null, <<>>})
      BY <1>1, <2>2, <2>3, <2>5 DEF NeededIn, OtherEnd
    <2>6. CASE x.step = "secondary" /\ Missing(x, q) /\ x.targets \notin {Null, <<>>}
      <3>1. Needed(x) = Head(x.targets)
        BY <1>1, <2>2, <2>6 DEF NeededIn
      <3>2. x.targets \in Seq(Ids) /\ x.targets # <<>>
        BY <2>6 DEF States
      <3> QED
        BY <1>1, <3>1, <3>2
    <2> QED
      BY <1>3, <2>4, <2>5, <2>6
  <1> QED
    BY <1>2, <1>3 DEF Reading

LEMMA GetAttackObjectStep ==
  ASSUME ExportInv, NEW e \in Exports, GetAttackObject(e)
  PROVE  Upheld(e)
  <1>0. PICK x, id : x = export[e] /\ id = Needed(x)
    OBVIOUS
  <1>1. PICK y : y = [x EXCEPT !.asked = id]
    OBVIOUS
  <1>2. /\ x.step \in Reading /\ x.asked = Null /\ id # Null /\ id \notin DOMAIN x.held
        /\ QuietTo(e, y)
    BY <1>0, <1>1 DEF GetAttackObject, QuietTo, Reading
  <1>3. /\ x \in States /\ Sound(e) /\ Active(e)
        /\ \A i \in InBundle(x) :
             /\ x.objects[i] \in DOMAIN heap /\ x.objects[i][2] = i
             /\ Fitting(x, x.objects[i]) /\ Shared(e, x.objects[i])
    BY <1>0, <1>2, BundleParts DEF ExportInv, Active, Stages, Reading
  <1>4. id \in Ids /\ x.work # <<>>
    BY <1>0, <1>2, <1>3, NeededParts DEF Sound
  <1>5. /\ y \in States /\ y.asked = id
        /\ y.step = x.step /\ y.options = x.options /\ y.objects = x.objects /\ y.work = x.work
        /\ y.held = x.held /\ y.unfit = x.unfit /\ y.targets = x.targets /\ y.domains = x.domains
        /\ y.derived = x.derived /\ y.sources = x.sources
        /\ y.context = x.context /\ y.rels = x.rels /\ y.contents = x.contents
    BY <1>1, <1>3, <1>4 DEF States
  <1>6. InBundle(y) = InBundle(x)
    BY <1>5 DEF InBundle
  <1>7. /\ \A i \in InBundle(x) : y.objects[i] = x.objects[i]
        /\ \A i \in InBundle(y) : /\ y.objects[i] \in DOMAIN heap
                                  /\ Fitting(x, y.objects[i]) /\ Shared(e, y.objects[i])
    BY <1>3, <1>5, <1>6
  <1>8. /\ ExportTypeOK' /\ StepOf(e) /\ ReadOK' /\ export'[e] = y
        /\ FitBundle(e)' /\ Private(e)' /\ Own(e)' /\ Changed(e)' /\ Domained(e)'
    BY <1>0, <1>2, <1>3, <1>5, <1>6, <1>7, QuietParts DEF Gathered, Reading
  <1>9. \A q : /\ Idles(y, q) <=> Idles(x, q)
               /\ Missing(y, q) <=> Missing(x, q)
               /\ OtherEnd(y, q) = OtherEnd(x, q)
    BY <1>5, SameToDo
  <1>10. heap' = heap /\ domainCache' = domainCache /\ overlapped' = overlapped /\ Svc(e)' = Svc(e)
    BY <1>0, <1>2, <1>5, <1>8 DEF QuietTo, StepOf, Svc
  <1>11. WellFormed(e)'
    BY <1>0, <1>2, <1>3, <1>4, <1>5, <1>6, <1>8, <1>9, <1>10 DEF Sound, WellFormed, LatestAt
  <1>12. Deriving(e)' /\ Collecting(e)'
    <2>1. \A a : (Fitting(y, a)' <=> Fitting(x, a)) /\ (OfGroup(a)' <=> OfGroup(a))
      BY <1>5, <1>10 DEF Fitting, OfGroup, Doc
    <2>2. Deriving(e) /\ Collecting(e)
      BY <1>3 DEF Sound
    <2>3. Deriving(e)'
      BY <1>0, <1>5, <1>8, <1>9, <2>1, <2>2 DEF Deriving
    <2>4. Collecting(e)'
      BY <1>0, <1>5, <1>8, <1>9, <1>10, <2>2 DEF Collecting
    <2> QED
      BY <2>3, <2>4
  <1>13. /\ Gathered(y) <=> Gathered(x)
         /\ \A q : Covered(y, q) <=> Covered(x, q)
         /\ \A q : Settled(y, q) <=> Settled(x, q)
         /\ \A q : Detects(y, q) <=> Detects(x, q)
    BY <1>5, <1>6 DEF Gathered, Covered, Settled, Detects
  <1>14. Connected(e)' /\ Recording(e)'
    BY <1>0, <1>3, <1>5, <1>6, <1>8, <1>13 DEF Sound, Connected, Recording
  <1>15. Sourcing(e)' /\ Relating(e)'
    BY <1>0, <1>3, <1>5, <1>6, <1>8, <1>13 DEF Sound, Sourcing, Relating
  <1>16. Settling(e)' /\ Listing(e)'
    BY <1>0, <1>3, <1>5, <1>6, <1>8, <1>10, <1>13 DEF Sound, Settling, Listing, Concluded
  <1> QED
    BY <1>8, <1>11, <1>12, <1>14, <1>15, <1>16 DEF Upheld, Sound

\* The domains of a target are the stored ones, whatever an export has changed.
LEMMA TargetDomains ==
  ASSUME ExportInv, NEW e \in Exports, Considers(e), NEW x, x = export[e],
         NEW id \in Ids, id \in DOMAIN x.held \/ cache[Svc(e)][id] # Null,
         NEW a, a = Hand(e, id)
  PROVE  /\ DomainsOf(Svc(e), id, a) \in SUBSET STRING
         /\ id \notin Stored => DomainsOf(Svc(e), id, a) = {}
         /\ e \notin overlapped /\ id \in Stored /\ Latest(id).domains # Null
              => DomainsOf(Svc(e), id, a) = Latest(id).domains
  <1>1. /\ ExportTypeOK /\ HeapOK /\ CacheOK /\ Sound(e) /\ WellFormed(e) /\ Private(e) /\ Changed(e)
        /\ x.step = "secondary"
    BY DEF ExportInv, ExportTypeOK, Sound, Considers, At
  <1>2. Active(e) /\ Svc(e) \in BOOLEAN
    BY <1>1, RequestParts DEF Active, Stages
  <1>3. /\ a # Null => LatestAt(a, id)
        /\ a = Null => id \notin Stored
    BY <1>1, <1>2, HandParts
  <1>4. domainCache[Svc(e)][id] \in DomainSets
    BY <1>1, <1>2 DEF ExportTypeOK
  <1>5. a # Null => heap[a].domains \in DomainSets /\ id \in Stored
    <2>1. a # Null => a \in DOMAIN heap /\ id \in Stored
      BY <1>1, <1>3, LatestParts
    <2> QED
      BY <1>1, <2>1 DEF HeapOK, Copies
  <1>6. DomainsOf(Svc(e), id, a) \in SUBSET STRING
    <2>2. \A k : k \in DomainSets => k = Null \/ k \in SUBSET STRING
      BY Zenon DEF DomainSets
    <2>3. a # Null => Listed(heap[a].domains) \in SUBSET STRING
      BY <1>5, <2>2 DEF Listed
    <2>4. {} \in SUBSET STRING
      OBVIOUS
    <2> QED
      BY <1>4, <2>2, <2>3, <2>4 DEF DomainsOf
  <1>7. id \notin Stored => DomainsOf(Svc(e), id, a) = {}
    BY <1>5 DEF DomainsOf
  <1>8. ASSUME e \notin overlapped, id \in Stored, Latest(id).domains # Null
        PROVE  DomainsOf(Svc(e), id, a) = Latest(id).domains
    <2>1. /\ \A i \in DOMAIN x.held : x.held[i] # Null => cache[Svc(e)][i] = x.held[i]
          /\ \A i \in Stored :
               LET c == cache[Svc(e)]
               IN  /\ domainCache[Svc(e)][i] \in {Null, Latest(i).domains}
                   /\ c[i] # Null /\ heap[c[i]].domains # Latest(i).domains =>
                        i \in InBundle(x) /\ domainCache[Svc(e)][i] = Latest(i).domains
      BY <1>1, <1>8 DEF Changed
    <2>2. a # Null /\ a = cache[Svc(e)][id]
      BY <1>3, <1>8, <2>1 DEF Hand
    <2>3. domainCache[Svc(e)][id] \in {Null, Latest(id).domains}
      BY <1>8, <2>1
    <2>4. domainCache[Svc(e)][id] = Null => heap[a].domains = Latest(id).domains
      BY <1>8, <2>1, <2>2
    <2> QED
      BY <1>8, <2>2, <2>3, <2>4 DEF DomainsOf, Listed
  <1> QED
    BY <1>6, <1>7, <1>8

LEMMA CollectDomainsStep ==
  ASSUME ExportInv, NEW e \in Exports, CollectDomains(e)
  PROVE  Upheld(e)
  <1>0. PICK x, q, c, a, id, b :
          /\ x = export[e] /\ q = Head(x.work) /\ c = OtherEnd(x, q) /\ a = Considered(e)
          /\ id = Head(x.targets) /\ b = Hand(e, id)
    OBVIOUS
  <1>1. PICK d, t : d = x.domains \cup DomainsOf(Svc(e), id, b) /\ t = Tail(x.targets)
    OBVIOUS
  <1>2. PICK y : y = [x EXCEPT !.targets = t, !.domains = d]
    OBVIOUS
  <1>3. Considers(e) /\ x.targets \notin {Null, <<>>} /\ QuietTo(e, y)
    BY <1>0, <1>1, <1>2 DEF CollectDomains, QuietTo
  <1>4. ConsideredWell(e, x, q, c, a)
    BY <1>0, <1>3, ConsideredParts
  <1>5. /\ x \in States /\ Sound(e) /\ Active(e)
        /\ x.step = "secondary" /\ x.asked = Null /\ x.work # <<>> /\ x.work \in Seq(Relation)
    BY <1>4 DEF ConsideredWell
  <1>6. x.targets \in Seq(Ids) /\ x.targets # <<>>
    BY <1>3, <1>5 DEF States
  <1>7. t \in Seq(Ids) /\ id \in Ids /\ id \in Range(x.targets) /\ Range(x.targets) = {id} \cup Range(t)
    BY <1>0, <1>1, <1>6, HeadAndTail
  <1>8. id \in DOMAIN x.held \/ cache[Svc(e)][id] # Null
    <2>1. Needed(x) = id
      BY <1>0, <1>3, <1>5 DEF Needed, NeededIn, Considers
    <2>2. id # Null
      BY <1>7, NullAssumption
    <2> QED
      BY <1>0, <1>3, <2>1, <2>2 DEF Considers, At
  <1>9. /\ DomainsOf(Svc(e), id, b) \in SUBSET STRING
        /\ id \notin Stored => DomainsOf(Svc(e), id, b) = {}
        /\ e \notin overlapped /\ id \in Stored /\ Latest(id).domains # Null
             => DomainsOf(Svc(e), id, b) = Latest(id).domains
    BY <1>0, <1>3, <1>7, <1>8, TargetDomains
  <1>10. d \in SUBSET STRING
    BY <1>1, <1>5, <1>9 DEF States
  <1>11. /\ y \in States /\ y.asked = x.asked
         /\ y.step = x.step /\ y.options = x.options /\ y.objects = x.objects /\ y.work = x.work
         /\ y.held = x.held /\ y.unfit = x.unfit /\ y.targets = t /\ y.domains = d
         /\ y.derived = x.derived /\ y.sources = x.sources
         /\ y.context = x.context /\ y.rels = x.rels /\ y.contents = x.contents
    BY <1>2, <1>5, <1>7, <1>10 DEF States
  <1>12. InBundle(y) = InBundle(x)
    BY <1>11 DEF InBundle
  <1>13. /\ \A i \in InBundle(x) : y.objects[i] = x.objects[i]
         /\ \A i \in InBundle(y) : /\ y.objects[i] \in DOMAIN heap
                                   /\ Fitting(x, y.objects[i]) /\ Shared(e, y.objects[i])
    BY <1>0, <1>11, <1>12, BundleParts
  <1>14. /\ ExportTypeOK' /\ StepOf(e) /\ ReadOK' /\ export'[e] = y
         /\ FitBundle(e)' /\ Private(e)' /\ Own(e)' /\ Changed(e)' /\ Domained(e)'
    BY <1>0, <1>3, <1>5, <1>11, <1>12, <1>13, QuietParts DEF Gathered, Reading
  <1>15. \A p : /\ Idles(y, p) <=> Idles(x, p)
                /\ Missing(y, p) <=> Missing(x, p)
                /\ OtherEnd(y, p) = OtherEnd(x, p)
    BY <1>11, SameToDo
  <1>16. heap' = heap /\ domainCache' = domainCache /\ overlapped' = overlapped /\ Svc(e)' = Svc(e)
    BY <1>0, <1>3, <1>11, <1>14 DEF QuietTo, StepOf, Svc
  <1>17. WellFormed(e)'
    <2>1. t # Null
      BY <1>7, NullAssumption
    <2> QED
      BY <1>0, <1>5, <1>11, <1>12, <1>14, <1>15, <1>16, <2>1 DEF Sound, WellFormed, LatestAt
  <1>18. Deriving(e)'
    <2>1. \A p : (Fitting(y, p)' <=> Fitting(x, p)) /\ (OfGroup(p)' <=> OfGroup(p))
      BY <1>11, <1>16 DEF Fitting, OfGroup, Doc
    <2>2. Deriving(e)
      BY <1>5 DEF Sound
    <2> QED
      BY <1>0, <1>3, <1>11, <1>14, <1>15, <2>1, <2>2 DEF Deriving
  <1>19. Collecting(e)'
    <2> SUFFICES ASSUME e \notin overlapped
                 PROVE  /\ domainCache[Svc(e)][c] = Latest(c).domains
                        /\ Range(t) \cap Stored \subseteq TargetsOf(c, x.options)
                        /\ Known(c, x.options) =>
                             Collected(c, x.options) =
                               d \cup UNION {Latest(i).domains : i \in Range(t) \cap Stored}
      BY <1>0, <1>11, <1>14, <1>15, <1>16 DEF Collecting
    <2>1. /\ domainCache[Svc(e)][c] = Latest(c).domains
          /\ Range(x.targets) \cap Stored \subseteq TargetsOf(c, x.options)
          /\ Known(c, x.options) =>
               Collected(c, x.options) =
                 x.domains \cup UNION {Latest(i).domains : i \in Range(x.targets) \cap Stored}
      BY <1>0, <1>3, <1>5 DEF Sound, Collecting
    <2>2. ASSUME Known(c, x.options)
          PROVE  d \cup UNION {Latest(i).domains : i \in Range(t) \cap Stored}
                   = x.domains \cup UNION {Latest(i).domains : i \in Range(x.targets) \cap Stored}
      <3>1. CASE id \in Stored
        <4>1. DomainsOf(Svc(e), id, b) = Latest(id).domains
          BY <1>7, <1>9, <2>1, <2>2, <3>1 DEF Known
        <4> QED
          BY <1>1, <1>7, <3>1, <4>1
      <3>2. CASE id \notin Stored
        BY <1>1, <1>7, <1>9, <3>2
      <3> QED
        BY <3>1, <3>2
    <2> QED
      BY <1>7, <2>1, <2>2
  <1>20. Connected(e)' /\ Recording(e)'
    <2>1. Connected(e) /\ Recording(e)
      BY <1>5 DEF Sound
    <2>2. \A p : Covered(y, p) <=> Covered(x, p)
      BY <1>11, <1>12 DEF Covered
    <2> QED
      BY <1>0, <1>5, <1>11, <1>12, <1>14, <2>1, <2>2 DEF Connected, Recording, Gathered
  <1>21. Sourcing(e)' /\ Relating(e)'
    <2>1. x.rels = {}
      BY <1>0, <1>5 DEF Sound, WellFormed
    <2> QED
      BY <1>5, <1>11, <1>14, <2>1 DEF Sourcing, Relating, Gathered
  <1>22. Settling(e)' /\ Listing(e)'
    BY <1>5, <1>11, <1>14 DEF Settling, Listing, Concluded
  <1> QED
    BY <1>14, <1>17, <1>18, <1>19, <1>20, <1>21, <1>22 DEF Upheld, Sound

LEMMA BeginDomainsStep ==
  ASSUME ExportInv, NEW e \in Exports, BeginDomains(e)
  PROVE  Upheld(e)
  <1>0. PICK x, q, c, a, of :
          /\ x = export[e] /\ q = Head(x.work) /\ c = OtherEnd(x, q) /\ a = Considered(e)
          /\ of = Kept(all[Svc(e)], {p \in Range(all[Svc(e)]) : p.source = heap[a].id})
    OBVIOUS
  <1>1. PICK t, h : t = [i \in DOMAIN of |-> of[i].target] /\ h = [id \in {heap[a].id} |-> a]
    OBVIOUS
  <1>2. PICK y : y = [x EXCEPT !.targets = t, !.held = h]
    OBVIOUS
  <1>3. /\ Considers(e) /\ x.targets = Null /\ Valid(x, a) /\ OfGroup(a) /\ KeepDomains(e, a)
        /\ export' = [export EXCEPT ![e] = y]
        /\ heap' = heap /\ cache' = cache /\ all' = all /\ overlapped' = overlapped
    BY <1>0, <1>1, <1>2 DEF BeginDomains
  <1>4. ConsideredWell(e, x, q, c, a)
    BY <1>0, <1>3, ConsideredParts
  <1>5. /\ x \in States /\ Sound(e) /\ Active(e)
        /\ x.step = "secondary" /\ x.asked = Null /\ x.work # <<>> /\ x.work \in Seq(Relation)
        /\ c \in Ids /\ c \notin InBundle(x)
        /\ LatestAt(a, c) /\ Shared(e, a) /\ Fitting(x, a)
    BY <1>3, <1>4 DEF ConsideredWell
  <1>6. ExportTypeOK /\ HeapOK /\ ReadOK /\ Svc(e) \in BOOLEAN
    BY <1>0, <1>5, RequestParts DEF ExportInv, ExportTypeOK, Sound
  <1>7. heap[a].id = c /\ a # Null /\ a \in DOMAIN heap /\ a \in Addresses /\ c \in Stored
    BY <1>5, <1>6, LatestParts
  <1>8. of \in Seq(Relation) /\ Range(of) = {p \in Range(all[Svc(e)]) : p.source = c}
    <2>1. all[Svc(e)] \in Seq(Relation)
      BY <1>6 DEF ExportTypeOK
    <2> QED
      BY <1>0, <1>7, <2>1, EntriesKept
  <1>9. t \in Seq(Ids) /\ Range(t) = {p.target : p \in Range(of)}
    <2>1. \A i \in DOMAIN of : of[i] \in Relation
      BY <1>8
    <2>2. \A i \in DOMAIN of : of[i].target \in Ids
      BY <2>1 DEF Relation
    <2>3. DOMAIN of = 1 .. Len(of) /\ Len(of) \in Nat
      BY <1>8
    <2>4. t \in [1 .. Len(of) -> Ids]
      BY <1>1, <2>2, <2>3
    <2>5. Range(t) = {p.target : p \in Range(of)}
      BY <1>1 DEF Range
    <2> QED
      BY <2>3, <2>4, <2>5
  <1>10. h \in Maps(Addresses \cup {Null}) /\ DOMAIN h = {c} /\ h[c] = a
    <2>1. h \in [{c} -> Addresses \cup {Null}] /\ {c} \in SUBSET Ids
      BY <1>1, <1>5, <1>7
    <2>2. h \in Maps(Addresses \cup {Null})
      BY <2>1 DEF Maps
    <2> QED
      BY <1>1, <1>7, <2>2
  <1>11. /\ y \in States /\ y.asked = x.asked
         /\ y.step = x.step /\ y.options = x.options /\ y.objects = x.objects /\ y.work = x.work
         /\ y.held = h /\ y.unfit = x.unfit /\ y.targets = t /\ y.domains = x.domains
         /\ y.derived = x.derived /\ y.sources = x.sources
         /\ y.context = x.context /\ y.rels = x.rels /\ y.contents = x.contents
    BY <1>2, <1>5, <1>9, <1>10 DEF States
  <1>12. InBundle(y) = InBundle(x)
    BY <1>11 DEF InBundle
  <1>13. export'[e] = y /\ \A f \in Exports : f # e => export'[f] = export[f]
    BY <1>3, <1>6 DEF ExportTypeOK
  <1>14. Svc(e)' = Svc(e)
    BY <1>0, <1>11, <1>13 DEF Svc
  <1>15. heap[a].domains \in DomainSets
    BY <1>6, <1>7 DEF HeapOK, Copies
  <1>16. /\ domainCache' \in [BOOLEAN -> [Ids -> DomainSets]]
         /\ \A s \in BOOLEAN : s # Svc(e) => domainCache'[s] = domainCache[s]
         /\ \A id \in Ids : id # c => domainCache'[Svc(e)][id] = domainCache[Svc(e)][id]
         /\ domainCache'[Svc(e)][c] = IF heap[a].domains = Null THEN domainCache[Svc(e)][c]
                                                              ELSE heap[a].domains
    BY <1>3, <1>5, <1>6, <1>7, <1>15 DEF ExportTypeOK, KeepDomains
  <1>17. ExportTypeOK' /\ ReadOK'
    <2>1. HeapOK' /\ ReadOK'
      BY <1>3, <1>6 DEF HeapOK, ReadBy, ReadOK
    <2>2. export' \in [Exports -> States]
      BY <1>3, <1>6, <1>11 DEF ExportTypeOK
    <2> QED
      BY <1>3, <1>6, <1>16, <2>1, <2>2 DEF ExportTypeOK
  <1>18. StepOf(e)
    BY <1>0, <1>3, <1>5, <1>11, <1>13, <1>16 DEF StepOf, HeapStep, FieldStep
  <1>19. \A p : /\ Idles(y, p) <=> Idles(x, p)
                /\ Missing(y, p) <=> Missing(x, p)
                /\ OtherEnd(y, p) = OtherEnd(x, p)
    BY <1>11, SameToDo
  <1>20. \A p : (Fitting(y, p)' <=> Fitting(x, p)) /\ (OfGroup(p)' <=> OfGroup(p)) /\ (Shared(e, p)' <=> Shared(e, p))
    BY <1>3, <1>11 DEF Fitting, OfGroup, Doc, Shared
  <1>21. t # Null /\ x.domains = {}
    BY <1>0, <1>3, <1>5, <1>9, NullAssumption DEF Sound, WellFormed
  <1>22. WellFormed(e)'
    <2>1. LatestAt(a, c)'
      BY <1>3, <1>5 DEF LatestAt
    <2> QED
      BY <1>0, <1>3, <1>5, <1>7, <1>10, <1>11, <1>12, <1>13, <1>19, <1>21, <2>1 DEF Sound, WellFormed
  <1>23. Deriving(e)'
    BY <1>0, <1>3, <1>5, <1>10, <1>11, <1>13, <1>19, <1>20 DEF Deriving, Considers
  <1>24. FitBundle(e)' /\ Private(e)' /\ Own(e)'
    <2>1. FitBundle(e) /\ Private(e) /\ Own(e)
      BY <1>5 DEF Sound
    <2>2. FitBundle(e)'
      BY <1>0, <1>11, <1>12, <1>13, <1>20, <2>1 DEF FitBundle
    <2>3. Private(e)'
      BY <1>0, <1>3, <1>5, <1>10, <1>11, <1>12, <1>13, <1>14, <1>20, <2>1 DEF Private
    <2>4. Own(e)'
      BY <1>0, <1>3, <1>11, <1>13, <1>14, <2>1 DEF Own
    <2> QED
      BY <2>2, <2>3, <2>4
  <1>25. ASSUME e \notin overlapped
         PROVE  /\ cache[Svc(e)][c] = a /\ heap[a].domains = Latest(c).domains
                /\ domainCache'[Svc(e)][c] = Latest(c).domains
                /\ \A id \in Stored :
                     LET k == cache[Svc(e)]
                     IN  /\ domainCache[Svc(e)][id] \in {Null, Latest(id).domains}
                         /\ k[id] # Null /\ heap[k[id]].domains # Latest(id).domains =>
                              id \in InBundle(x) /\ domainCache[Svc(e)][id] = Latest(id).domains
    <2>1. /\ \A i \in DOMAIN x.held : x.held[i] # Null => cache[Svc(e)][i] = x.held[i]
          /\ \A i \in Stored :
               LET k == cache[Svc(e)]
               IN  /\ domainCache[Svc(e)][i] \in {Null, Latest(i).domains}
                   /\ k[i] # Null /\ heap[k[i]].domains # Latest(i).domains =>
                        i \in InBundle(x) /\ domainCache[Svc(e)][i] = Latest(i).domains
      BY <1>0, <1>5, <1>25 DEF Sound, Changed
    <2>2. cache[Svc(e)][c] = a
      BY <1>0, <1>7, <2>1 DEF Considered, Hand
    <2>3. heap[a].domains = Latest(c).domains
      BY <1>5, <1>7, <2>1, <2>2
    <2>4. domainCache[Svc(e)][c] \in {Null, Latest(c).domains}
      BY <1>7, <2>1
    <2>5. domainCache'[Svc(e)][c] = Latest(c).domains
      BY <1>16, <2>3, <2>4
    <2> QED
      BY <2>1, <2>2, <2>3, <2>5
  <1>26. Changed(e)'
    <2> SUFFICES ASSUME e \notin overlapped
                 PROVE  /\ \A id \in DOMAIN h : h[id] # Null => cache[Svc(e)][id] = h[id]
                        /\ \A id \in Stored :
                             LET k == cache[Svc(e)]
                             IN  /\ domainCache'[Svc(e)][id] \in {Null, Latest(id).domains}
                                 /\ k[id] # Null /\ heap[k[id]].domains # Latest(id).domains =>
                                      id \in InBundle(x) /\ domainCache'[Svc(e)][id] = Latest(id).domains
      BY <1>3, <1>11, <1>12, <1>13, <1>14 DEF Changed
    <2>1. \A id \in Stored : id \in Ids
      BY StoredParts
    <2>2. \A id \in Stored :
            LET k == cache[Svc(e)]
            IN  /\ domainCache'[Svc(e)][id] \in {Null, Latest(id).domains}
                /\ k[id] # Null /\ heap[k[id]].domains # Latest(id).domains =>
                     id \in InBundle(x) /\ domainCache'[Svc(e)][id] = Latest(id).domains
      <3> SUFFICES ASSUME NEW id \in Stored
                   PROVE  LET k == cache[Svc(e)]
                          IN  /\ domainCache'[Svc(e)][id] \in {Null, Latest(id).domains}
                              /\ k[id] # Null /\ heap[k[id]].domains # Latest(id).domains =>
                                   id \in InBundle(x) /\ domainCache'[Svc(e)][id] = Latest(id).domains
        OBVIOUS
      <3>1. CASE id = c
        BY <1>25, <3>1
      <3>2. CASE id # c
        BY <1>16, <1>25, <2>1, <3>2
      <3> QED
        BY <3>1, <3>2
    <2> QED
      BY <1>10, <1>25, <2>2
  <1>27. Collecting(e)'
    <2> SUFFICES ASSUME e \notin overlapped
                 PROVE  /\ domainCache'[Svc(e)][c] = Latest(c).domains
                        /\ Range(t) \cap Stored \subseteq TargetsOf(c, x.options)
                        /\ Known(c, x.options) =>
                             Collected(c, x.options) =
                               {} \cup UNION {Latest(i).domains : i \in Range(t) \cap Stored}
      BY <1>0, <1>3, <1>11, <1>13, <1>14, <1>19, <1>21 DEF Collecting
    <2>1. Range(all[Svc(e)]) = Read(x.options)
      BY <1>0, <1>5 DEF Sound, Own, Reading
    <2>2. Range(t) \cap Stored = TargetsOf(c, x.options)
      BY <1>8, <1>9, <2>1 DEF TargetsOf
    <2> QED
      BY <1>25, <2>2 DEF Collected
  <1>28. Domained(e)'
    BY <1>0, <1>3, <1>5, <1>11, <1>12, <1>13 DEF Sound, Domained, Gathered
  <1>29. Connected(e)' /\ Recording(e)'
    <2>1. Connected(e) /\ Recording(e)
      BY <1>5 DEF Sound
    <2>2. \A p : Covered(y, p) <=> Covered(x, p)
      BY <1>11, <1>12 DEF Covered
    <2> QED
      BY <1>0, <1>5, <1>11, <1>12, <1>13, <2>1, <2>2 DEF Connected, Recording, Gathered
  <1>30. Sourcing(e)' /\ Relating(e)'
    <2>1. x.rels = {}
      BY <1>0, <1>5 DEF Sound, WellFormed
    <2> QED
      BY <1>5, <1>11, <1>13, <2>1 DEF Sourcing, Relating, Gathered
  <1>31. Settling(e)' /\ Listing(e)'
    BY <1>5, <1>11, <1>13 DEF Settling, Listing, Concluded
  <1> QED
    BY <1>17, <1>18, <1>22, <1>23, <1>24, <1>26, <1>27, <1>28, <1>29, <1>30, <1>31 DEF Upheld, Sound

LEMMA AddGroupStep ==
  ASSUME ExportInv, NEW e \in Exports, AddGroup(e)
  PROVE  Upheld(e)
  <1>0. PICK x, q, c, a :
          x = export[e] /\ q = Head(x.work) /\ c = OtherEnd(x, q) /\ a = Considered(e)
    OBVIOUS
  <1>1. PICK z : z = Add(x, a)
    OBVIOUS
  <1>2. PICK y : y = Onward(z)
    OBVIOUS
  <1>3. /\ Considers(e) /\ x.targets = <<>> /\ SetDomains(a, x.domains)
        /\ export' = [export EXCEPT ![e] = y]
        /\ cache' = cache /\ domainCache' = domainCache /\ all' = all /\ overlapped' = overlapped
    BY <1>0, <1>1, <1>2 DEF AddGroup
  <1>4. ConsideredWell(e, x, q, c, a)
    BY <1>0, <1>3, ConsideredParts
  <1>5. /\ x \in States /\ Sound(e) /\ Active(e)
        /\ x.step = "secondary" /\ x.asked = Null /\ x.work # <<>> /\ x.work \in Seq(Relation)
        /\ c \in Ids /\ c \notin InBundle(x)
        /\ a # Null => LatestAt(a, c) /\ Shared(e, a)
    BY <1>4 DEF ConsideredWell
  <1>6. ExportTypeOK /\ HeapOK /\ ReadOK /\ Svc(e) \in BOOLEAN
    BY <1>0, <1>5, RequestParts DEF ExportInv, ExportTypeOK, Sound
  <1>7. x.targets # Null
    <2>1. <<>> \in Seq(Ids)
      OBVIOUS
    <2> QED
      BY <1>3, <2>1, NullAssumption
  <1>8. Fitting(x, a) /\ OfGroup(a)
    BY <1>0, <1>5, <1>7 DEF Sound, Deriving, Considered, Hand
  <1>9. a # Null /\ a \in DOMAIN heap
    BY <1>6, <1>8, AtHeap DEF Fitting
  <1>10. LatestAt(a, c) /\ Shared(e, a)
    BY <1>5, <1>9
  <1>11. a[2] = c /\ c \in Stored /\ Doc(a) = Latest(c)
    BY <1>6, <1>10, LatestParts
  <1>12. AddedWell(e, x, a, c, z)
    BY <1>0, <1>1, <1>8, <1>10, AddParts
  <1>13. /\ z \in States /\ Alike(x, z) /\ z.work = x.work /\ z.derived = x.derived
         /\ InBundle(z) = InBundle(x) \cup {c}
         /\ \A i \in InBundle(x) : z.objects[i] = x.objects[i]
         /\ \A i \in InBundle(z) :
              /\ z.objects[i] \in DOMAIN heap /\ z.objects[i][2] = i
              /\ Fitting(x, z.objects[i]) /\ Shared(e, z.objects[i])
         /\ z.objects[c] = a
    BY <1>5, <1>12 DEF AddedWell
  <1>14. z.work \in Seq(Relation)
    BY <1>5, <1>13
  <1>15. /\ y \in States /\ Rested(y) /\ Alike(z, y)
         /\ y.objects = z.objects /\ y.derived = z.derived
         /\ y.work \in Seq(Relation) /\ Range(y.work) \subseteq Range(z.work)
         /\ \A p \in Range(z.work) : p \in Range(y.work) \/ Idles(y, p)
         /\ y.work # <<>> => ~Idles(y, Head(y.work))
    BY <1>2, <1>13, <1>14, OnwardParts
  <1>16. InBundle(y) = InBundle(x) \cup {c} /\ Alike(x, y)
    BY <1>13, <1>15 DEF InBundle, Alike
  <1>17. Pursues(x, y)
    BY <1>5, <1>13, <1>15, <1>16 DEF Pursues, Alike
  <1>18. /\ y.step = "secondary" /\ y.options = x.options /\ y.asked = Null /\ y.rels = x.rels
         /\ DOMAIN y.held = {} /\ y.unfit = FALSE /\ y.targets = Null /\ y.domains = {}
    BY <1>5, <1>15, <1>16, EmptyMap DEF Alike, Rested
  <1>19. /\ HeapOK' /\ DOMAIN heap' = DOMAIN heap
         /\ \A b \in DOMAIN heap : b # a => heap'[b] = heap[b]
         /\ heap'[a].id = heap[a].id /\ heap'[a].version = heap[a].version
         /\ heap'[a].domains = x.domains
    <2>1. x.domains \in SUBSET STRING
      BY <1>5 DEF States
    <2> QED
      BY <1>3, <1>6, <1>9, <2>1, SetDomainsParts
  <1>20. export'[e] = y /\ \A f \in Exports : f # e => export'[f] = export[f]
    BY <1>3, <1>6 DEF ExportTypeOK
  <1>21. Svc(e)' = Svc(e)
    BY <1>0, <1>18, <1>20 DEF Svc
  <1>22. ExportTypeOK' /\ ReadOK'
    <2>1. export' \in [Exports -> States]
      BY <1>3, <1>6, <1>15 DEF ExportTypeOK
    <2> QED
      BY <1>3, <1>6, <1>19, <2>1 DEF ExportTypeOK, ReadOK
  <1>23. StepOf(e)
    <2>1. Doc(a).type \notin DomainChecked
      BY <1>8 DEF OfGroup, DomainChecked
    <2>2. HeapStep(e)
      BY <1>10, <1>19, <2>1 DEF HeapStep
    <2> QED
      BY <1>0, <1>3, <1>5, <1>18, <1>20, <2>2 DEF StepOf, FieldStep
  <1>24. /\ \A b \in DOMAIN heap : Fitting(y, b)' <=> Fitting(x, b)
         /\ \A b : Shared(e, b)' <=> Shared(e, b)
    <2>1. \A b \in DOMAIN heap : Fitting(y, b)' <=> Fitting(y, b)
      BY <1>6, <1>19, <1>23, DocStays DEF StepOf
    <2> QED
      BY <1>3, <1>18, <2>1 DEF Fitting, Shared
  <1>25. Connected(e)' /\ Recording(e)'
    <2>1. Pursues(export[e], export'[e])
      BY <1>0, <1>17, <1>20
    <2> QED
      BY <1>5, <2>1, GoingOn DEF Sound
  <1>26. x.rels = {} /\ x.options \in Options[e]
    BY <1>0, <1>5 DEF Sound, WellFormed
  <1>27. WellFormed(e)'
    BY <1>13, <1>15, <1>16, <1>18, <1>19, <1>20, <1>26 DEF WellFormed, InBundle
  <1>28. Deriving(e)' /\ Sourcing(e)' /\ Relating(e)' /\ Collecting(e)'
    BY <1>18, <1>20, <1>26 DEF Deriving, Sourcing, Relating, Collecting, Gathered
  <1>29. Settling(e)' /\ Listing(e)'
    BY <1>18, <1>20 DEF Settling, Listing, Concluded
  <1>30. FitBundle(e)' /\ Private(e)' /\ Own(e)'
    <2>1. FitBundle(e)'
      BY <1>13, <1>15, <1>16, <1>20, <1>24 DEF FitBundle, InBundle
    <2>2. Private(e)'
      BY <1>0, <1>3, <1>5, <1>13, <1>15, <1>18, <1>20, <1>21, <1>24 DEF Sound, Private, InBundle
    <2>3. Own(e)'
      BY <1>0, <1>3, <1>5, <1>18, <1>20, <1>21 DEF Sound, Own, Reading
    <2> QED
      BY <2>1, <2>2, <2>3
  <1>31. Changed(e)'
    <2> SUFFICES ASSUME e \notin overlapped, NEW id \in Stored, NEW k, k = cache[Svc(e)][id]
                 PROVE  /\ domainCache[Svc(e)][id] \in {Null, Latest(id).domains}
                        /\ k # Null /\ heap'[k].domains # Latest(id).domains =>
                             id \in InBundle(y) /\ domainCache[Svc(e)][id] = Latest(id).domains
      BY <1>3, <1>18, <1>20, <1>21 DEF Changed
    <2>1. /\ domainCache[Svc(e)][id] \in {Null, Latest(id).domains}
          /\ k # Null /\ heap[k].domains # Latest(id).domains =>
               id \in InBundle(x) /\ domainCache[Svc(e)][id] = Latest(id).domains
      BY <1>0, <1>5 DEF Sound, Changed
    <2>2. k # Null => LatestAt(k, id)
      <3>1. id \in Ids
        BY StoredParts
      <3> QED
        BY <1>6, <3>1 DEF ExportInv, CacheOK
    <2>3. CASE k = a
      <3>1. id = c
        BY <1>9, <1>11, <2>2, <2>3 DEF LatestAt
      <3>2. domainCache[Svc(e)][c] = Latest(c).domains
        BY <1>0, <1>5, <1>7 DEF Sound, Collecting
      <3> QED
        BY <1>16, <3>1, <3>2
    <2>4. CASE k # a
      <3>1. k # Null => heap'[k] = heap[k]
        BY <1>19, <2>2, <2>4 DEF LatestAt
      <3> QED
        BY <1>16, <2>1, <3>1
    <2> QED
      BY <2>3, <2>4
  <1>32. Domained(e)'
    <2> SUFFICES ASSUME e \notin overlapped, NEW i \in InBundle(y),
                        Latest(i).type \in {"intrusion-set", "campaign"}, Known(i, x.options)
                 PROVE  heap'[y.objects[i]].domains = Collected(i, x.options)
      BY <1>3, <1>18, <1>20 DEF Domained
    <2>1. CASE i = c
      <3>1. Collected(c, x.options) =
               x.domains \cup UNION {Latest(t).domains : t \in Range(x.targets) \cap Stored}
        BY <1>0, <1>5, <1>7, <2>1 DEF Sound, Collecting
      <3>2. Range(x.targets) = {}
        BY <1>3, EmptyMap DEF Range
      <3>3. Collected(c, x.options) = x.domains
        BY <3>1, <3>2
      <3> QED
        BY <1>13, <1>15, <1>19, <2>1, <3>3
    <2>2. CASE i # c
      <3>1. i \in InBundle(x) /\ y.objects[i] = x.objects[i] /\ x.objects[i] \in DOMAIN heap /\ x.objects[i][2] = i
        BY <1>13, <1>15, <1>16, <2>2
      <3>2. heap'[y.objects[i]] = heap[x.objects[i]]
        BY <1>11, <1>19, <2>2, <3>1
      <3>3. heap[x.objects[i]].domains = Collected(i, x.options)
        BY <1>0, <1>5, <3>1 DEF Sound, Domained
      <3> QED
        BY <3>2, <3>3
    <2> QED
      BY <2>1, <2>2
  <1> QED
    BY <1>22, <1>23, <1>25, <1>27, <1>28, <1>29, <1>30, <1>31, <1>32 DEF Upheld, Sound
-----------------------------------------------------------------------------
(***************************************************************************)
(* What is gathered goes on to be so.                                      *)
(***************************************************************************)
LEMMA SourcesParts ==
  ASSUME NEW D \in SUBSET Stored
  PROVE  /\ SourcesOf(D) \in SUBSET Ids
         /\ \A c \in D : Latest(c).type = "x-mitre-data-component" => Latest(c).refs \subseteq SourcesOf(D)
  <1>1. \A c \in D : Latest(c).refs \in SUBSET Ids
    BY StoredParts DEF StoredDocument
  <1> QED
    BY <1>1 DEF SourcesOf

\* Nothing to do for a relationship means that what it demands is there.
LEMMA IdleSettled ==
  ASSUME NEW y, y.step = "further", NEW q \in Relation, Idles(y, q), Secondary(y.options) \subseteq InBundle(y)
  PROVE  Settled(y, q)
  <1>1. FurtherEnd(y, q) = Null /\ q.source # Null /\ q.target # Null
    BY NullAssumption DEF Idles, Relation
  <1>2. ASSUME q.kind = "attributed-to", q.source \in InBundle(y)
        PROVE  q.target \in InBundle(y)
    BY <1>1, <1>2 DEF FurtherEnd
  <1>3. ASSUME q.kind = "revoked-by" \/ (q.kind = "detects" /\ ~y.options.legacy), q.target \in InBundle(y)
        PROVE  q.source \in InBundle(y)
    BY <1>1, <1>3 DEF FurtherEnd
  <1> QED
    BY <1>2, <1>3 DEF Settled

\* A step that leaves what is gathered, or adds to it.
Retains(x, y) ==
  /\ y.step \in {"sources", "further", "context"} /\ y.options = x.options
  /\ y.unfit = FALSE /\ InBundle(x) \subseteq InBundle(y) /\ y.derived = x.derived

LEMMA GatheringEnds ==
  ASSUME NEW e \in Exports, Retains(export[e], export'[e]), Connected(e), Recording(e),
         export[e].step = "secondary", export[e].work = <<>>
  PROVE  Connected(e)' /\ Recording(e)'
  <1>0. PICK x, y : x = export[e] /\ y = export'[e]
    OBVIOUS
  <1> USE <1>0 DEF Retains
  <1>1. Range(x.work) = {}
    BY EmptyMap DEF Range
  <1>2. \A q : Covered(x, q) => Covered(y, q)
    BY DEF Covered
  <1>3. Connected(e)'
    BY <1>1, <1>2 DEF Connected, Gathered
  <1>4. Recording(e)'
    BY <1>1 DEF Recording, Gathered
  <1> QED
    BY <1>3, <1>4

LEMMA GatheredGoesOn ==
  ASSUME NEW e \in Exports, Retains(export[e], export'[e]), Connected(e), Recording(e), Sourcing(e),
         export[e].step \in {"sources", "further", "context"},
         export'[e].sources = export[e].sources,
         export[e].step = "sources" /\ export'[e].step # "sources" => Sourceless(export[e]) = {}
  PROVE  Connected(e)' /\ Recording(e)' /\ Sourcing(e)'
  <1>0. PICK x, y : x = export[e] /\ y = export'[e]
    OBVIOUS
  <1> USE <1>0 DEF Retains
  <1>1. \A q : Covered(x, q) => Covered(y, q)
    BY DEF Covered
  <1>2. Connected(e)'
    BY <1>1 DEF Connected, Gathered
  <1>3. Recording(e)'
    BY DEF Recording, Gathered
  <1>4. Sourcing(e)'
    <2> SUFFICES ASSUME NEW q \in Relation, Detects(y, q)
                 PROVE  /\ Latest(q.source).refs \subseteq y.sources
                        /\ y.step # "sources" => Latest(q.source).refs # {}
      BY DEF Sourcing, Gathered
    <2>1. Detects(x, q)
      BY DEF Detects
    <2>2. /\ Latest(q.source).refs \subseteq x.sources
          /\ x.step # "sources" => Latest(q.source).refs # {}
      BY <2>1 DEF Sourcing, Gathered
    <2>3. q.source \in InBundle(x)
      <3>1. q \in Relevant(x.options) /\ ValidLatest(q.source, x.options)
        BY <2>1 DEF Detects, Detections, Relevant
      <3>2. Covered(x, q)
        BY <3>1 DEF Connected, Gathered
      <3> QED
        BY <3>1, <3>2 DEF Covered, EndsOf
    <2>4. Sourceless(x) = {} => Latest(q.source).refs # {}
      BY <2>1, <2>3 DEF Sourceless, Components, Detects
    <2> QED
      BY <2>2, <2>4
  <1> QED
    BY <1>2, <1>3, <1>4

LEMMA GatheredStep ==
  ASSUME ExportInv, NEW e \in Exports, NEW x, x = export[e], x.step \in {"sources", "further", "context"},
         NEW y \in States, QuietTo(e, y), Retains(x, y), Rested(y),
         y.asked = Null, y.sources = x.sources, y.rels = x.rels,
         x.step = "context" => y.step = "context",
         x.step = "sources" /\ y.step # "sources" => Sourceless(x) = {},
         \A id \in InBundle(x) : y.objects[id] = x.objects[id],
         \A id \in InBundle(y) : /\ y.objects[id] \in DOMAIN heap /\ y.objects[id][2] = id
                                 /\ Fitting(x, y.objects[id]) /\ Shared(e, y.objects[id]),
         y.step = "further" => y.work \in Seq(Relation) /\ (y.work # <<>> => ~Idles(y, Head(y.work))),
         y.step # "further" => y.work \in Seq(Ids),
         Settling(e)'
  PROVE  Upheld(e)
  <1>1. Sound(e) /\ Active(e)
    BY DEF ExportInv, Active, Stages
  <1>2. y.step \in {"sources", "further", "context"} /\ y.options = x.options /\ InBundle(x) \subseteq InBundle(y)
    BY DEF Retains
  <1>3. /\ ExportTypeOK' /\ StepOf(e) /\ ReadOK' /\ export'[e] = y
        /\ FitBundle(e)' /\ Private(e)' /\ Own(e)' /\ Changed(e)' /\ Domained(e)'
    BY <1>1, <1>2, QuietParts DEF Gathered, Reading
  <1>4. Connected(e)' /\ Recording(e)' /\ Sourcing(e)'
    BY <1>1, <1>3, GatheredGoesOn DEF Sound
  <1>5. x.options \in Options[e] /\ (x.step # "context" => x.rels = {})
    BY <1>1 DEF Sound, WellFormed
  <1>6. DOMAIN y.held = {} /\ y.unfit = FALSE /\ y.targets = Null /\ y.domains = {}
    BY EmptyMap DEF Rested
  <1>7. WellFormed(e)'
    <2>1. heap' = heap
      BY DEF QuietTo
    <2> QED
      BY <1>2, <1>3, <1>5, <1>6, <2>1 DEF WellFormed
  <1>8. Relating(e)'
    <2>1. Relating(e)
      BY <1>1 DEF Sound
    <2> QED
      BY <1>2, <1>3, <2>1 DEF Relating
  <1>9. Deriving(e)' /\ Collecting(e)' /\ Listing(e)'
    BY <1>2, <1>3, <1>6 DEF Deriving, Collecting, Listing
  <1> QED
    BY <1>3, <1>4, <1>7, <1>8, <1>9 DEF Upheld, Sound

\* The relationships are passed over again; those with nothing to do are settled.
FurtherWell(x, y) ==
  /\ y \in States /\ Rested(y) /\ y.step = "further" /\ y.options = x.options /\ y.asked = Null
  /\ y.objects = x.objects /\ y.derived = x.derived /\ y.sources = x.sources /\ y.rels = x.rels
  /\ y.work \in Seq(Relation) /\ (y.work # <<>> => ~Idles(y, Head(y.work)))

LEMMA FurtherBegins ==
  ASSUME ExportInv, NEW e \in Exports, NEW x, x = export[e], x.step \in Reading, x.asked = Null,
         Secondary(x.options) \subseteq InBundle(x),
         NEW y, y = Onward([x EXCEPT !.step = "further", !.work = all[Svc(e)]]),
         QuietTo(e, y)
  PROVE  FurtherWell(x, y) /\ Settling(e)'
  <1>1. x \in States /\ Sound(e) /\ ExportTypeOK
    BY BundleParts DEF ExportInv
  <1>2. all[Svc(e)] \in Seq(Relation)
    <2>1. Svc(e) \in BOOLEAN
      BY <1>1, RequestParts DEF Sound, Reading
    <2> QED
      BY <1>1, <2>1 DEF ExportTypeOK
  <1>3. PICK r : r = all[Svc(e)]
    OBVIOUS
  <1>4. PICK z : z = [x EXCEPT !.step = "further", !.work = r]
    OBVIOUS
  <1>5. /\ z \in States /\ z.step = "further" /\ z.options = x.options /\ z.asked = x.asked
        /\ z.objects = x.objects /\ z.derived = x.derived /\ z.sources = x.sources /\ z.rels = x.rels
        /\ z.work = r
    <2>1. r \in Seq(Relation) \cup Seq(Ids) /\ "further" \in Stages \cup {"idle", "failed", "done"}
      BY <1>2, <1>3 DEF Stages
    <2> QED
      BY <1>1, <1>4, <2>1 DEF States
  <1>6. y = Onward(z) /\ z.work \in Seq(Relation)
    BY <1>2, <1>3, <1>4, <1>5
  <1>7. /\ y \in States /\ Rested(y) /\ Alike(z, y)
        /\ y.objects = z.objects /\ y.derived = z.derived
        /\ y.work \in Seq(Relation) /\ Range(y.work) \subseteq Range(z.work)
        /\ \A q \in Range(z.work) : q \in Range(y.work) \/ Idles(y, q)
        /\ y.work # <<>> => ~Idles(y, Head(y.work))
    BY <1>5, <1>6, OnwardParts
  <1>8. FurtherWell(x, y)
    BY <1>5, <1>7 DEF FurtherWell, Alike
  <1>9. export'[e] = y /\ overlapped' = overlapped
    BY <1>1 DEF ExportTypeOK, QuietTo
  <1>10. Settling(e)'
    <2> SUFFICES ASSUME e \notin overlapped, NEW q \in Read(y.options), q \notin Range(y.work)
                 PROVE  Settled(y, q)
      BY <1>8, <1>9 DEF Settling, FurtherWell, Concluded
    <2>1. Range(r) = Read(x.options)
      BY <1>1, <1>3 DEF Sound, Own
    <2>2. q \in Range(r)
      BY <1>8, <2>1 DEF FurtherWell
    <2>3. Idles(y, q)
      BY <1>5, <1>7, <2>2
    <2>4. q \in Relation
      BY <1>2, <1>3, <2>2 DEF Range
    <2>5. Secondary(y.options) \subseteq InBundle(y)
      BY <1>8 DEF FurtherWell, InBundle
    <2> QED
      BY <1>8, <2>3, <2>4, <2>5, IdleSettled DEF FurtherWell
  <1> QED
    BY <1>8, <1>10

LEMMA EndSecondaryStep ==
  ASSUME ExportInv, NEW e \in Exports, EndSecondary(e)
  PROVE  Upheld(e)
  <1>0. PICK x, sources : x = export[e] /\ sources = SourcesOf(Components(x))
    OBVIOUS
  <1>1. x.step = "secondary" /\ x.work = <<>> /\ UNCHANGED <<heap, cache, domainCache, all, overlapped>>
    BY <1>0 DEF EndSecondary
  <1>2. /\ x \in States /\ Sound(e) /\ Active(e)
        /\ \A i \in InBundle(x) :
             /\ i \in Stored /\ x.objects[i] \in DOMAIN heap /\ x.objects[i][2] = i
             /\ Fitting(x, x.objects[i]) /\ Shared(e, x.objects[i])
    BY <1>0, <1>1, BundleParts DEF ExportInv, Active, Stages
  <1>3. x.asked = Null /\ x.unfit = FALSE /\ x.targets = Null /\ x.domains = {} /\ x.rels = {}
        /\ x.options \in Options[e]
    BY <1>0, <1>1, <1>2 DEF Sound, WellFormed, Connected, Deriving, States
  <1>4. Range(x.work) = {}
    BY <1>1, EmptyMap DEF Range
  <1>5. Primary(x.options) \subseteq InBundle(x) /\ \A q \in Relevant(x.options) : Covered(x, q)
    BY <1>0, <1>1, <1>2, <1>4 DEF Sound, Connected
  <1>6. PICK y : y = IF x.options.legacy
                     THEN [x EXCEPT !.step = "sources", !.work = SetToSeq(sources), !.sources = sources]
                     ELSE Onward([x EXCEPT !.step = "further", !.work = all[Svc(e)]])
    OBVIOUS
  <1>7. QuietTo(e, y)
    BY <1>0, <1>1, <1>6 DEF EndSecondary, QuietTo
  <1>8. /\ sources \in SUBSET Ids
        /\ \A c \in InBundle(x) : Latest(c).type = "x-mitre-data-component" => Latest(c).refs \subseteq sources
    <2>1. Components(x) \in SUBSET Stored
      BY <1>2 DEF Components
    <2>2. SourcesOf(Components(x)) \in SUBSET Ids
      BY <2>1, SourcesParts
    <2>3. \A c \in Components(x) : Latest(c).type = "x-mitre-data-component" => Latest(c).refs \subseteq sources
      BY <1>0, <2>1, SourcesParts
    <2> QED
      BY <1>0, <2>2, <2>3 DEF Components
  <1>9. /\ y \in States /\ (Rested(y) \/ y.held = x.held)
        /\ y.step \in {"sources", "further"} /\ y.options = x.options /\ y.asked = Null
        /\ y.unfit = FALSE /\ y.targets = Null /\ y.domains = {}
        /\ y.objects = x.objects /\ y.derived = x.derived /\ y.rels = {}
        /\ y.step = "further" => y.work \in Seq(Relation) /\ (y.work # <<>> => ~Idles(y, Head(y.work)))
        /\ y.step = "sources" => y.work \in Seq(Ids)
        /\ x.options.legacy => y.step = "sources" /\ y.sources = sources
        /\ y.step = "further" => Settling(e)'
    <2>1. CASE x.options.legacy
      <3>1. PICK w : w = SetToSeq(sources)
        OBVIOUS
      <3>2. w \in Seq(Ids)
        BY <1>8, <3>1, ListOfSet
      <3>3. y = [x EXCEPT !.step = "sources", !.work = w, !.sources = sources]
        BY <1>6, <2>1, <3>1
      <3> QED
        BY <1>2, <1>3, <1>8, <3>2, <3>3 DEF States, Stages
    <2>2. CASE ~x.options.legacy
      <3>1. y = Onward([x EXCEPT !.step = "further", !.work = all[Svc(e)]])
        BY <1>6, <2>2
      <3>2. Secondary(x.options) \subseteq InBundle(x)
        BY <1>5, BasedOn
      <3>3. FurtherWell(x, y) /\ Settling(e)'
        BY <1>0, <1>1, <1>3, <1>7, <3>1, <3>2, FurtherBegins DEF Reading
      <3> QED
        BY <1>3, <2>2, <3>3 DEF FurtherWell, Rested
    <2> QED
      BY <2>1, <2>2
  <1>10. InBundle(y) = InBundle(x)
    BY <1>9 DEF InBundle
  <1>11. /\ \A i \in InBundle(x) : y.objects[i] = x.objects[i]
         /\ \A i \in InBundle(y) : /\ y.objects[i] \in DOMAIN heap
                                   /\ Fitting(x, y.objects[i]) /\ Shared(e, y.objects[i])
    BY <1>2, <1>9, <1>10
  <1>12. /\ ExportTypeOK' /\ StepOf(e) /\ ReadOK' /\ export'[e] = y
         /\ FitBundle(e)' /\ Private(e)' /\ Own(e)' /\ Changed(e)' /\ Domained(e)'
    BY <1>0, <1>1, <1>2, <1>7, <1>9, <1>10, <1>11, QuietParts DEF Gathered, Reading
  <1>13. Retains(export[e], export'[e])
    BY <1>0, <1>9, <1>10, <1>12 DEF Retains
  <1>14. Connected(e)' /\ Recording(e)'
    BY <1>0, <1>1, <1>2, <1>13, GatheringEnds DEF Sound
  <1>15. Sourcing(e)'
    <2> SUFFICES ASSUME NEW q \in Relation, Detects(y, q)
                 PROVE  Latest(q.source).refs \subseteq y.sources /\ y.step = "sources"
      BY <1>12 DEF Sourcing
    <2>1. /\ q \in Relevant(x.options) /\ ValidLatest(q.source, x.options) /\ x.options.legacy
          /\ Latest(q.source).type = "x-mitre-data-component"
      BY <1>9 DEF Detects, Detections, Relevant
    <2>2. q.source \in InBundle(x)
      BY <1>5, <2>1 DEF Covered, EndsOf
    <2> QED
      BY <1>8, <1>9, <2>1, <2>2
  <1>16. WellFormed(e)'
    <2>1. WellFormed(e) /\ heap' = heap
      BY <1>1, <1>2 DEF Sound
    <2>2. \A i \in DOMAIN y.held :
            IF y.held[i] = Null THEN i \notin Stored ELSE LatestAt(y.held[i], i)'
      <3>1. CASE Rested(y)
        BY <3>1, EmptyMap DEF Rested
      <3>2. CASE y.held = x.held
        BY <1>0, <2>1, <3>2 DEF WellFormed, LatestAt
      <3> QED
        BY <1>9, <3>1, <3>2
    <2> QED
      BY <1>2, <1>3, <1>9, <1>10, <1>12, <2>1, <2>2 DEF WellFormed
  <1>17. Deriving(e)' /\ Collecting(e)' /\ Relating(e)' /\ Listing(e)'
    BY <1>9, <1>12 DEF Deriving, Collecting, Relating, Listing
  <1>18. Settling(e)'
    <2>1. y.step = "sources" => Settling(e)'
      BY <1>12 DEF Settling, Concluded
    <2> QED
      BY <1>9, <2>1
  <1> QED
    BY <1>12, <1>14, <1>15, <1>16, <1>17, <1>18 DEF Upheld, Sound

\* What is at hand is the stored object.
HandWell(e, x, id, a) ==
  /\ x \in States /\ Sound(e) /\ Active(e) /\ id \in Ids
  /\ a = Null => id \notin Stored
  /\ a # Null => LatestAt(a, id) /\ Shared(e, a) /\ a \in DOMAIN heap /\ heap[a].id = id /\ Doc(a) = Latest(id)
  /\ Valid(x, a) <=> ValidLatest(id, x.options)
  /\ Valid(x, a) => LatestAt(a, id) /\ Shared(e, a) /\ Fitting(x, a)

LEMMA AtParts ==
  ASSUME ExportInv, NEW e \in Exports, NEW step \in {"sources", "further", "context"}, At(e, step),
         NEW x, NEW id, NEW a, x = export[e] /\ id = NeededIn(x, Head(x.work)) /\ a = Hand(e, id)
  PROVE  HandWell(e, x, id, a)
  <1>1. /\ ExportTypeOK /\ HeapOK /\ Faithful /\ CacheOK /\ Sound(e) /\ x \in States
    BY BundleParts DEF ExportInv, ExportTypeOK
  <1>2. /\ x.step = step /\ x.asked = Null /\ x.work # <<>>
        /\ Needed(x) \notin DOMAIN x.held \cup {Null} => cache[Svc(e)][Needed(x)] # Null
    BY DEF At
  <1>3. Active(e)
    BY <1>2 DEF Active, Stages
  <1>4. id = Needed(x)
    BY <1>2 DEF Needed
  <1>5. id # Null
    <2>1. CASE step = "further"
      <3>1. ~Idles(x, Head(x.work))
        BY <1>1, <1>2, <2>1 DEF Sound, WellFormed
      <3> QED
        BY <1>2, <2>1, <3>1 DEF Idles, NeededIn
    <2>2. CASE step \in {"sources", "context"}
      <3>1. x.work \in Seq(Ids)
        BY <1>1, <1>2, <2>2 DEF Sound, WellFormed
      <3>2. Head(x.work) \in Ids
        BY <1>2, <3>1
      <3> QED
        BY <1>2, <2>2, <3>2, NullAssumption DEF NeededIn
    <2> QED
      BY <2>1, <2>2
  <1>6. id \in Ids
    <2>1. Needed(x) # Null /\ x.step \in Reading /\ WellFormed(e)
      BY <1>1, <1>2, <1>4, <1>5 DEF Sound, Reading
    <2> QED
      BY <1>1, <1>4, <2>1, NeededParts
  <1>7. id \in DOMAIN x.held \/ cache[Svc(e)][id] # Null
    BY <1>2, <1>4, <1>5
  <1>8. /\ a # Null => LatestAt(a, id) /\ Shared(e, a)
        /\ a = Null => id \notin Stored
    BY <1>1, <1>3, <1>6, <1>7, HandParts DEF Sound
  <1>9. a # Null => a \in DOMAIN heap /\ heap[a].id = id /\ Doc(a) = Latest(id)
    BY <1>1, <1>8, LatestParts
  <1>10. CASE a = Null
    <2>1. ~Valid(x, a) /\ ~ValidLatest(id, x.options)
      BY <1>8, <1>10 DEF Valid, ValidLatest
    <2> QED
      BY <1>1, <1>3, <1>6, <1>8, <1>10, <2>1 DEF HandWell
  <1>11. CASE a # Null
    <2>1. a \in DOMAIN heap /\ a[2] = id /\ heap[a].version = Len(Db[a[2]])
      BY <1>8, <1>11 DEF LatestAt
    <2>2. Valid(x, a) <=> ValidLatest(id, x.options)
      BY <1>1, <2>1, WhatFits
    <2>3. Valid(x, a) => Fitting(x, a)
      BY <1>1, <2>1, WhatFits
    <2> QED
      BY <1>1, <1>3, <1>6, <1>8, <1>9, <1>11, <2>2, <2>3 DEF HandWell
  <1> QED
    BY <1>10, <1>11

LEMMA EndSourcesStep ==
  ASSUME ExportInv, NEW e \in Exports, EndSources(e)
  PROVE  Upheld(e)
  <1>0. PICK x : x = export[e]
    OBVIOUS
  <1>1. PICK y : y = Onward([x EXCEPT !.step = "further", !.work = all[Svc(e)]])
    OBVIOUS
  <1>2. x.step = "sources" /\ x.work = <<>> /\ Sourceless(x) = {} /\ QuietTo(e, y)
    BY <1>0, <1>1 DEF EndSources, QuietTo
  <1>3. /\ x \in States /\ Sound(e)
        /\ \A i \in InBundle(x) :
             /\ x.objects[i] \in DOMAIN heap /\ x.objects[i][2] = i
             /\ Fitting(x, x.objects[i]) /\ Shared(e, x.objects[i])
    BY <1>0, BundleParts DEF ExportInv
  <1>4. x.asked = Null
    BY <1>0, <1>2, <1>3 DEF Sound, WellFormed
  <1>5. Secondary(x.options) \subseteq InBundle(x)
    BY <1>0, <1>2, <1>3, Based DEF Sound, Gathered
  <1>6. FurtherWell(x, y) /\ Settling(e)'
    BY <1>0, <1>1, <1>2, <1>4, <1>5, FurtherBegins DEF Reading
  <1>7. InBundle(y) = InBundle(x)
    BY <1>6 DEF FurtherWell, InBundle
  <1>8. Retains(x, y)
    BY <1>6, <1>7 DEF FurtherWell, Retains, Rested
  <1>9. /\ \A i \in InBundle(x) : y.objects[i] = x.objects[i]
        /\ \A i \in InBundle(y) : /\ y.objects[i] \in DOMAIN heap /\ y.objects[i][2] = i
                                  /\ Fitting(x, y.objects[i]) /\ Shared(e, y.objects[i])
    BY <1>3, <1>6, <1>7 DEF FurtherWell
  <1>10. /\ y \in States /\ Rested(y) /\ y.asked = Null /\ y.sources = x.sources /\ y.rels = x.rels
         /\ y.step = "further" /\ y.work \in Seq(Relation) /\ (y.work # <<>> => ~Idles(y, Head(y.work)))
    BY <1>6 DEF FurtherWell
  <1> QED
    BY <1>0, <1>2, <1>6, <1>8, <1>9, <1>10, GatheredStep

\* What is at hand may be added, or told apart as context.
AddsTo(e, x, z) ==
  /\ z \in States /\ z.step = x.step /\ z.options = x.options /\ z.asked = x.asked
  /\ z.sources = x.sources /\ z.rels = x.rels /\ z.work = x.work /\ z.derived = x.derived
  /\ InBundle(x) \subseteq InBundle(z)
  /\ \A id \in InBundle(x) : z.objects[id] = x.objects[id]
  /\ \A id \in InBundle(z) : /\ z.objects[id] \in DOMAIN heap /\ z.objects[id][2] = id
                             /\ Fitting(x, z.objects[id]) /\ Shared(e, z.objects[id])

\* The work goes on behind its first item.
DoneWell(x, z, y) ==
  /\ y \in States /\ Rested(y) /\ y.step = x.step /\ y.asked = Null /\ y.objects = z.objects
  /\ y.sources = x.sources /\ y.rels = x.rels /\ Retains(x, y)
  /\ y.step = "further" => y.work \in Seq(Relation) /\ (y.work # <<>> => ~Idles(y, Head(y.work)))
  /\ y.step # "further" => y.work \in Seq(Ids)
  /\ Range(y.work) \subseteq Range(x.work)
  /\ \A q \in Range(x.work) : q \in Range(y.work) \/ Idles(y, q) \/ q = Head(x.work)

LEMMA DoneAtHand ==
  ASSUME ExportInv, NEW e \in Exports, NEW x, x = export[e], x.step \in {"sources", "further", "context"},
         x.asked = Null, x.work # <<>>, NEW z, AddsTo(e, x, z), NEW y, y = Done(z)
  PROVE  DoneWell(x, z, y)
  <1>1. x \in States /\ Sound(e)
    BY BundleParts DEF ExportInv
  <1>2. /\ z \in States /\ z.step = x.step /\ z.options = x.options /\ z.asked = x.asked
        /\ z.sources = x.sources /\ z.rels = x.rels /\ z.work = x.work /\ z.derived = x.derived
        /\ InBundle(x) \subseteq InBundle(z)
    BY DEF AddsTo
  <1>3. PICK S \in {Relation, Ids} : /\ x.work \in Seq(S)
                                     /\ x.step = "further" => S = Relation
                                     /\ x.step # "further" => S = Ids
    BY <1>1 DEF Sound, WellFormed
  <1>4. z.work \in Seq(S) /\ z.work # <<>>
    BY <1>2, <1>3
  <1>5. /\ y \in States /\ Rested(y) /\ Alike(z, y)
        /\ y.objects = z.objects /\ y.derived = z.derived
        /\ y.work \in Seq(S) /\ Range(y.work) \subseteq Range(z.work)
        /\ \A q \in Range(z.work) : q \in Range(y.work) \/ Idles(y, q) \/ q = Head(z.work)
        /\ y.work # <<>> => ~Idles(y, Head(y.work))
    BY <1>2, <1>4, DoneParts
  <1>6. Retains(x, y)
    BY <1>2, <1>5 DEF Retains, Alike, Rested, InBundle
  <1> QED
    BY <1>2, <1>3, <1>5, <1>6 DEF DoneWell, Alike

LEMMA SettlingGoesOn ==
  ASSUME NEW e \in Exports, NEW x, x = export[e], x.step \in {"sources", "further", "context"},
         NEW z, NEW y, DoneWell(x, z, y), export'[e] = y, overlapped' = overlapped,
         Settling(e), Connected(e), \A q \in Range(x.work) : x.step = "further" => q \in Relation,
         x.step = "further" => Settled(y, Head(x.work))
  PROVE  Settling(e)'
  <1>1. y.step = x.step /\ y.options = x.options /\ InBundle(x) \subseteq InBundle(y)
    BY DEF DoneWell, Retains
  <1>2. \A q : Settled(x, q) => Settled(y, q)
    BY <1>1 DEF Settled
  <1>3. CASE x.step = "further"
    <2> SUFFICES ASSUME e \notin overlapped, NEW q \in Read(y.options), q \notin Range(y.work)
                 PROVE  Settled(y, q)
      BY <1>1, <1>3 DEF Settling, Concluded
    <2>1. q \in Range(x.work) \/ Settled(x, q)
      BY <1>1, <1>3 DEF Settling
    <2>2. CASE Settled(x, q)
      BY <1>2, <2>2
    <2>3. CASE q \in Range(x.work) /\ q = Head(x.work)
      BY <1>3, <2>3
    <2>4. CASE q \in Range(x.work) /\ q # Head(x.work)
      <3>1. Idles(y, q) /\ q \in Relation
        BY <1>3, <2>4 DEF DoneWell
      <3>2. Secondary(y.options) \subseteq InBundle(y)
        BY <1>1, <1>3, Based DEF Gathered
      <3> QED
        BY <1>1, <1>3, <3>1, <3>2, IdleSettled
    <2> QED
      BY <2>1, <2>2, <2>3, <2>4
  <1>4. CASE x.step # "further"
    BY <1>1, <1>2, <1>4 DEF Settling, Concluded
  <1> QED
    BY <1>3, <1>4

LEMMA WorkDone ==
  ASSUME ExportInv, NEW e \in Exports, NEW x, x = export[e], x.step \in {"sources", "further", "context"},
         x.asked = Null, x.work # <<>>, NEW z, AddsTo(e, x, z), NEW y, y = Done(z), QuietTo(e, y),
         x.step = "further" => Settled(y, Head(x.work))
  PROVE  Upheld(e)
  <1>1. x \in States /\ Sound(e) /\ ExportTypeOK
    BY BundleParts DEF ExportInv
  <1>2. DoneWell(x, z, y)
    BY DoneAtHand
  <1>3. export'[e] = y /\ overlapped' = overlapped
    BY <1>1 DEF ExportTypeOK, QuietTo
  <1>4. \A q \in Range(x.work) : x.step = "further" => q \in Relation
    BY <1>1 DEF Sound, WellFormed, Range
  <1>5. Settling(e)'
    BY <1>1, <1>2, <1>3, <1>4, SettlingGoesOn DEF Sound
  <1>6. /\ y \in States /\ Rested(y) /\ y.step = x.step /\ y.asked = Null
        /\ y.sources = x.sources /\ y.rels = x.rels /\ Retains(x, y)
        /\ y.step = "further" => y.work \in Seq(Relation) /\ (y.work # <<>> => ~Idles(y, Head(y.work)))
        /\ y.step # "further" => y.work \in Seq(Ids)
    BY <1>2 DEF DoneWell
  <1>7. /\ \A i \in InBundle(x) : y.objects[i] = x.objects[i]
        /\ \A i \in InBundle(y) : /\ y.objects[i] \in DOMAIN heap /\ y.objects[i][2] = i
                                  /\ Fitting(x, y.objects[i]) /\ Shared(e, y.objects[i])
    BY <1>2 DEF DoneWell, AddsTo, InBundle
  <1> QED
    BY <1>5, <1>6, <1>7, GatheredStep

LEMMA AddsNothing ==
  ASSUME ExportInv, NEW e \in Exports, NEW x, x = export[e]
  PROVE  AddsTo(e, x, x)
  BY BundleParts DEF AddsTo

LEMMA AddsIt ==
  ASSUME ExportInv, NEW e \in Exports, NEW x, x = export[e],
         NEW a, NEW id, LatestAt(a, id) /\ Shared(e, a) /\ Fitting(x, a), NEW z, z = Add(x, a)
  PROVE  AddsTo(e, x, z) /\ id \in InBundle(z)
  <1>1. AddedWell(e, x, a, id, z)
    BY AddParts
  <1> QED
    BY <1>1 DEF AddedWell, AddsTo, Alike

LEMMA AddSourceStep ==
  ASSUME ExportInv, NEW e \in Exports, AddSource(e)
  PROVE  Upheld(e)
  <1>0. PICK x, id, a : x = export[e] /\ id = NeededIn(x, Head(x.work)) /\ a = Hand(e, id)
    OBVIOUS
  <1>1. /\ At(e, "sources") /\ x.step = "sources" /\ x.asked = Null /\ x.work # <<>>
        /\ UNCHANGED <<heap, cache, domainCache, all, overlapped>>
    BY <1>0 DEF AddSource, At
  <1>2. id = Head(x.work)
    BY <1>0, <1>1 DEF NeededIn
  <1>3. HandWell(e, x, id, a)
    BY <1>0, <1>1, AtParts
  <1>4. CASE a = Null
    <2>1. QuietTo(e, Failed(x))
      BY <1>0, <1>1, <1>2, <1>4 DEF AddSource, QuietTo
    <2> QED
      BY <1>0, <1>3, <2>1, Failing DEF HandWell
  <1>5. CASE a # Null /\ Valid(x, a)
    <2>1. PICK z, y : z = Add(x, a) /\ y = Done(z)
      OBVIOUS
    <2>2. QuietTo(e, y)
      BY <1>0, <1>1, <1>2, <1>5, <2>1 DEF AddSource, QuietTo
    <2>3. AddsTo(e, x, z)
      BY <1>0, <1>3, <1>5, <2>1, AddsIt DEF HandWell
    <2> QED
      BY <1>0, <1>1, <2>1, <2>2, <2>3, WorkDone
  <1>6. CASE a # Null /\ ~Valid(x, a)
    <2>1. PICK y : y = Done(x)
      OBVIOUS
    <2>2. QuietTo(e, y)
      BY <1>0, <1>1, <1>2, <1>6, <2>1 DEF AddSource, QuietTo
    <2>3. AddsTo(e, x, x)
      BY <1>0, AddsNothing
    <2> QED
      BY <1>0, <1>1, <2>1, <2>2, <2>3, WorkDone
  <1> QED
    BY <1>4, <1>5, <1>6

LEMMA FailSourcesStep ==
  ASSUME ExportInv, NEW e \in Exports, FailSources(e)
  PROVE  Upheld(e)
  <1>0. PICK x : x = export[e]
    OBVIOUS
  <1>1. x.step = "sources" /\ QuietTo(e, Failed(x))
    BY <1>0 DEF FailSources, QuietTo
  <1>2. Active(e)
    BY <1>0, <1>1 DEF Active, Stages
  <1> QED
    BY <1>0, <1>1, <1>2, Failing

LEMMA FailFurtherStep ==
  ASSUME ExportInv, NEW e \in Exports, FailFurther(e)
  PROVE  Upheld(e)
  <1>0. PICK x : x = export[e]
    OBVIOUS
  <1>1. x.step = "further" /\ QuietTo(e, Failed(x))
    BY <1>0 DEF FailFurther, At, QuietTo
  <1>2. Active(e)
    BY <1>0, <1>1 DEF Active, Stages
  <1> QED
    BY <1>0, <1>1, <1>2, Failing

\* Whether the end that an item of the pass demands is in the bundle.
LEMMA FurtherSettled ==
  ASSUME NEW x, NEW y, x.step = "further", Retains(x, y), NEW q \in Relation, ~Idles(x, q),
         Secondary(x.options) \subseteq InBundle(x), NEW id, id = FurtherEnd(x, q),
         \/ id \in InBundle(y)
         \/ ~ValidLatest(id, x.options)
         \/ q.kind = "attributed-to" /\ Latest(id).type # "intrusion-set"
         \/ q.kind = "detects" /\ Latest(id).type # "x-mitre-detection-strategy"
  PROVE  Settled(y, q)
  <1>1. y.options = x.options /\ InBundle(x) \subseteq InBundle(y)
    BY DEF Retains
  <1>2. id # Null
    BY DEF Idles
  <1>3. CASE q.kind = "attributed-to"
    <2>1. id = q.target
      BY <1>2, <1>3 DEF FurtherEnd
    <2> QED
      BY <1>1, <1>3, <2>1 DEF Settled
  <1>4. CASE q.kind = "revoked-by" \/ (q.kind = "detects" /\ ~x.options.legacy)
    <2>1. id = q.source
      BY <1>2, <1>4 DEF FurtherEnd
    <2> QED
      BY <1>1, <1>4, <2>1 DEF Settled
  <1>5. CASE q.kind # "attributed-to" /\ ~(q.kind = "revoked-by" \/ (q.kind = "detects" /\ ~x.options.legacy))
    BY <1>2, <1>5 DEF FurtherEnd
  <1> QED
    BY <1>3, <1>4, <1>5

LEMMA PassFurtherStep ==
  ASSUME ExportInv, NEW e \in Exports, PassFurther(e)
  PROVE  Upheld(e)
  <1>0. PICK x, q, id, a :
          x = export[e] /\ q = Head(x.work) /\ id = NeededIn(x, Head(x.work)) /\ a = Hand(e, id)
    OBVIOUS
  <1>1. PICK y : y = Done(x)
    OBVIOUS
  <1>2. At(e, "further") /\ x.step = "further" /\ x.asked = Null /\ x.work # <<>> /\ QuietTo(e, y)
    BY <1>0, <1>1 DEF PassFurther, At, QuietTo
  <1>3. id = FurtherEnd(x, q)
    BY <1>0, <1>2 DEF NeededIn
  <1>4. IF a = Null THEN q.kind = "revoked-by" ELSE ~Welcome(x, q, a)
    BY <1>0, <1>3 DEF PassFurther
  <1>5. HandWell(e, x, id, a)
    BY <1>0, <1>2, AtParts
  <1>6. /\ Sound(e) /\ (a # Null => Doc(a) = Latest(id)) /\ (a = Null => id \notin Stored)
        /\ Valid(x, a) <=> ValidLatest(id, x.options)
    BY <1>5 DEF HandWell
  <1>7. \/ ~ValidLatest(id, x.options)
        \/ q.kind = "attributed-to" /\ Latest(id).type # "intrusion-set"
        \/ q.kind = "detects" /\ Latest(id).type # "x-mitre-detection-strategy"
    <2>1. CASE a = Null
      BY <1>6, <2>1 DEF ValidLatest
    <2>2. CASE a # Null
      BY <1>4, <1>6, <2>2 DEF Welcome
    <2> QED
      BY <2>1, <2>2
  <1>8. AddsTo(e, x, x)
    BY <1>0, AddsNothing
  <1>9. DoneWell(x, x, y)
    BY <1>0, <1>1, <1>2, <1>8, DoneAtHand
  <1>10. q \in Relation /\ ~Idles(x, q)
    <2>1. x.work \in Seq(Relation)
      BY <1>0, <1>2, <1>6 DEF Sound, WellFormed
    <2>2. q \in Relation
      BY <1>0, <1>2, <2>1, HeadAndTail
    <2> QED
      BY <1>0, <1>2, <1>6, <2>2 DEF Sound, WellFormed
  <1>11. Secondary(x.options) \subseteq InBundle(x)
    BY <1>0, <1>2, <1>6, Based DEF Sound, Gathered
  <1>12. Settled(y, q)
    BY <1>2, <1>3, <1>7, <1>9, <1>10, <1>11, FurtherSettled DEF DoneWell
  <1> QED
    BY <1>0, <1>1, <1>2, <1>8, <1>12, WorkDone

LEMMA AddContextStep ==
  ASSUME ExportInv, NEW e \in Exports, AddContext(e)
  PROVE  Upheld(e)
  <1>0. PICK x, id, a : x = export[e] /\ id = NeededIn(x, Head(x.work)) /\ a = Hand(e, id)
    OBVIOUS
  <1>1. /\ At(e, "context") /\ x.step = "context" /\ x.asked = Null /\ x.work # <<>>
        /\ UNCHANGED <<heap, cache, domainCache, all, overlapped>>
    BY <1>0 DEF AddContext, At
  <1>2. id = Head(x.work)
    BY <1>0, <1>1 DEF NeededIn
  <1>3. HandWell(e, x, id, a)
    BY <1>0, <1>1, AtParts
  <1>4. AddsTo(e, x, x)
    BY <1>0, AddsNothing
  <1>5. CASE a = Null
    <2>1. PICK y : y = Done(x)
      OBVIOUS
    <2>2. QuietTo(e, y)
      BY <1>0, <1>1, <1>2, <1>5, <2>1 DEF AddContext, QuietTo
    <2> QED
      BY <1>0, <1>1, <1>4, <2>1, <2>2, WorkDone
  <1>6. CASE a # Null
    <2>1. PICK c : c = x.context \cup {heap[a].id}
      OBVIOUS
    <2>2. PICK z, y : z = [x EXCEPT !.context = c] /\ y = Done(z)
      OBVIOUS
    <2>3. QuietTo(e, y)
      BY <1>0, <1>1, <1>2, <1>6, <2>1, <2>2 DEF AddContext, QuietTo
    <2>4. x \in States /\ id \in Ids /\ heap[a].id = id
      BY <1>3, <1>6 DEF HandWell
    <2>5. c \in SUBSET Ids
      BY <2>1, <2>4 DEF States
    <2>6. /\ z \in States /\ z.step = x.step /\ z.options = x.options /\ z.asked = x.asked
          /\ z.sources = x.sources /\ z.rels = x.rels /\ z.work = x.work /\ z.derived = x.derived
          /\ z.objects = x.objects
      BY <2>2, <2>4, <2>5 DEF States
    <2>7. AddsTo(e, x, z)
      BY <1>4, <2>6 DEF AddsTo, InBundle
    <2> QED
      BY <1>0, <1>1, <2>2, <2>3, <2>7, WorkDone
  <1> QED
    BY <1>5, <1>6

LEMMA KeepDomainsParts ==
  ASSUME ExportTypeOK, NEW e \in Exports, Svc(e) \in BOOLEAN, NEW a \in DOMAIN heap, KeepDomains(e, a)
  PROVE  /\ domainCache' \in [BOOLEAN -> [Ids -> DomainSets]]
         /\ \A s \in BOOLEAN : s # Svc(e) => domainCache'[s] = domainCache[s]
  <1>1. heap[a].domains \in DomainSets /\ heap[a].id \in Ids
    BY DEF ExportTypeOK, HeapOK, Copies
  <1> QED
    BY <1>1 DEF ExportTypeOK, KeepDomains

LEMMA AddFurtherStep ==
  ASSUME ExportInv, NEW e \in Exports, AddFurther(e)
  PROVE  Upheld(e)
  <1>0. PICK x, q, id, a :
          x = export[e] /\ q = Head(x.work) /\ id = NeededIn(x, Head(x.work)) /\ a = Hand(e, id)
    OBVIOUS
  <1>1. PICK z, y : z = Add(x, a) /\ y = Done(z)
    OBVIOUS
  <1>2. At(e, "further") /\ x.step = "further" /\ x.asked = Null /\ x.work # <<>>
    BY <1>0 DEF AddFurther, At
  <1>3. id = FurtherEnd(x, q)
    BY <1>0, <1>2 DEF NeededIn
  <1>4. /\ a # Null /\ Welcome(x, q, a)
        /\ IF Redomained(q, a) THEN KeepDomains(e, a) /\ SetDomains(a, {x.options.domain})
                               ELSE heap' = heap /\ domainCache' = domainCache
        /\ export' = [export EXCEPT ![e] = y]
        /\ cache' = cache /\ all' = all /\ overlapped' = overlapped
    BY <1>0, <1>1, <1>3 DEF AddFurther
  <1>5. HandWell(e, x, id, a)
    BY <1>0, <1>2, AtParts
  <1>6. /\ x \in States /\ Sound(e) /\ Active(e)
        /\ LatestAt(a, id) /\ Shared(e, a) /\ Fitting(x, a) /\ a \in DOMAIN heap
    BY <1>4, <1>5 DEF HandWell, Welcome
  <1>7. AddsTo(e, x, z) /\ id \in InBundle(z)
    BY <1>0, <1>1, <1>6, AddsIt
  <1>8. DoneWell(x, z, y)
    BY <1>0, <1>1, <1>2, <1>7, DoneAtHand
  <1>9. x.work \in Seq(Relation) /\ q \in Relation /\ ~Idles(x, q)
    <2>1. x.work \in Seq(Relation)
      BY <1>0, <1>2, <1>6 DEF Sound, WellFormed
    <2>2. q \in Relation
      BY <1>0, <1>2, <2>1, HeadAndTail
    <2> QED
      BY <1>0, <1>2, <1>6, <2>1, <2>2 DEF Sound, WellFormed
  <1>10. Secondary(x.options) \subseteq InBundle(x)
    BY <1>0, <1>2, <1>6, Based DEF Sound, Gathered
  <1>11. Settled(y, q)
    <2>1. id \in InBundle(y) /\ Retains(x, y)
      BY <1>7, <1>8 DEF DoneWell, InBundle
    <2> QED
      BY <1>2, <1>3, <1>9, <1>10, <2>1, FurtherSettled
  <1>12. CASE ~Redomained(q, a)
    <2>1. QuietTo(e, y)
      BY <1>4, <1>12 DEF QuietTo
    <2> QED
      BY <1>0, <1>1, <1>2, <1>7, <1>11, <2>1, WorkDone
  <1>13. CASE Redomained(q, a)
    <2>1. ExportTypeOK /\ HeapOK /\ ReadOK /\ Svc(e) \in BOOLEAN /\ x.options.domain \in STRING /\ x.options \in Options[e]
      BY <1>0, <1>2, <1>6, RequestParts DEF ExportInv, ExportTypeOK, Sound
    <2>2. /\ domainCache' \in [BOOLEAN -> [Ids -> DomainSets]]
          /\ \A s \in BOOLEAN : s # Svc(e) => domainCache'[s] = domainCache[s]
      BY <1>4, <1>6, <1>13, <2>1, KeepDomainsParts
    <2>3. /\ HeapOK' /\ DOMAIN heap' = DOMAIN heap
          /\ \A b \in DOMAIN heap : b # a => heap'[b] = heap[b]
          /\ heap'[a].id = heap[a].id /\ heap'[a].version = heap[a].version
      <3>1. {x.options.domain} \in SUBSET STRING
        BY <2>1
      <3> QED
        BY <1>4, <1>6, <1>13, <2>1, <3>1, SetDomainsParts
    <2>4. Doc(a).type \notin DomainChecked
      <3>1. q.kind \in {"attributed-to", "revoked-by", "detects"}
        BY <1>2, <1>9 DEF Idles, FurtherEnd
      <3> QED
        BY <1>4, <1>13, <3>1 DEF Welcome, Redomained, OfGroup, DomainChecked
    <2>5. /\ y \in States /\ Rested(y) /\ y.step = "further" /\ y.asked = Null /\ y.objects = z.objects
          /\ y.sources = x.sources /\ y.rels = x.rels /\ Retains(x, y)
          /\ y.work \in Seq(Relation) /\ (y.work # <<>> => ~Idles(y, Head(y.work)))
          /\ y.options = x.options
      BY <1>2, <1>8 DEF DoneWell, Retains
    <2>6. /\ InBundle(x) \subseteq InBundle(y)
          /\ \A i \in InBundle(x) : y.objects[i] = x.objects[i]
          /\ \A i \in InBundle(y) : /\ y.objects[i] \in DOMAIN heap /\ y.objects[i][2] = i
                                    /\ Fitting(x, y.objects[i]) /\ Shared(e, y.objects[i])
      BY <1>7, <2>5 DEF AddsTo, InBundle
    <2>7. export'[e] = y /\ \A f \in Exports : f # e => export'[f] = export[f]
      BY <1>4, <2>1 DEF ExportTypeOK
    <2>8. Svc(e)' = Svc(e)
      BY <1>0, <2>5, <2>7 DEF Svc
    <2>9. ExportTypeOK' /\ ReadOK'
      <3>1. export' \in [Exports -> States]
        BY <1>4, <2>1, <2>5 DEF ExportTypeOK
      <3> QED
        BY <1>4, <2>1, <2>2, <2>3, <3>1 DEF ExportTypeOK, ReadOK
    <2>10. StepOf(e)
      <3>1. HeapStep(e)
        BY <1>6, <2>3, <2>4 DEF HeapStep
      <3> QED
        BY <1>0, <1>4, <1>6, <2>2, <2>5, <2>7, <3>1 DEF StepOf, FieldStep
    <2>11. /\ \A b \in DOMAIN heap : Fitting(y, b)' <=> Fitting(x, b)
           /\ \A b : Shared(e, b)' <=> Shared(e, b)
      <3>1. \A b \in DOMAIN heap : Fitting(y, b)' <=> Fitting(y, b)
        BY <2>1, <2>3, <2>10, DocStays DEF StepOf
      <3> QED
        BY <1>4, <2>5, <3>1 DEF Fitting, Shared
    <2>12. DOMAIN y.held = {} /\ y.unfit = FALSE /\ y.targets = Null /\ y.domains = {}
      BY <2>5, EmptyMap DEF Rested
    <2>13. x.rels = {}
      BY <1>0, <1>2, <1>6 DEF Sound, WellFormed
    <2>14. WellFormed(e)'
      BY <2>1, <2>3, <2>5, <2>6, <2>7, <2>12, <2>13 DEF WellFormed
    <2>15. Deriving(e)' /\ Collecting(e)' /\ Listing(e)' /\ Changed(e)' /\ Relating(e)'
      BY <2>5, <2>7, <2>12, <2>13 DEF Deriving, Collecting, Listing, Changed, Relating
    <2>16. FitBundle(e)' /\ Private(e)' /\ Own(e)'
      <3>1. FitBundle(e)'
        BY <2>6, <2>7, <2>11 DEF FitBundle
      <3>2. Private(e)'
        BY <1>0, <1>4, <1>6, <2>6, <2>7, <2>8, <2>11, <2>12 DEF Sound, Private
      <3>3. Own(e)'
        BY <1>0, <1>2, <1>4, <1>6, <2>5, <2>7, <2>8 DEF Sound, Own, Reading
      <3> QED
        BY <3>1, <3>2, <3>3
    <2>17. Connected(e)' /\ Recording(e)' /\ Sourcing(e)'
      <3>1. Retains(export[e], export'[e])
        BY <1>0, <2>5, <2>7
      <3> QED
        BY <1>0, <1>2, <1>6, <2>5, <2>7, <3>1, GatheredGoesOn DEF Sound
    <2>18. Settling(e)'
      <3>1. \A p \in Range(x.work) : x.step = "further" => p \in Relation
        BY <1>9 DEF Range
      <3>2. Settled(y, Head(x.work))
        BY <1>0, <1>11
      <3> QED
        BY <1>0, <1>2, <1>4, <1>6, <1>8, <2>7, <3>1, <3>2, SettlingGoesOn DEF Sound
    <2>19. Domained(e)'
      <3> SUFFICES ASSUME e \notin overlapped, NEW i \in InBundle(y), i \in Secondary(x.options),
                          Latest(i).type \in {"intrusion-set", "campaign"}, Known(i, x.options)
                   PROVE  heap'[y.objects[i]].domains = Collected(i, x.options)
        BY <1>4, <2>5, <2>7 DEF Domained
      <3>1. i \in InBundle(x) /\ y.objects[i] = x.objects[i]
        BY <1>10, <2>6
      <3>2. x.objects[i] \in DOMAIN heap /\ x.objects[i][2] = i
        BY <2>6, <3>1
      <3>3. id \notin InBundle(x) /\ a[2] = id
        BY <1>3, <1>6, <1>9, <1>2 DEF FurtherEnd, Idles, LatestAt
      <3>4. heap'[y.objects[i]] = heap[x.objects[i]]
        BY <2>3, <3>1, <3>2, <3>3
      <3>5. heap[x.objects[i]].domains = Collected(i, x.options)
        BY <1>0, <1>2, <1>6, <3>1 DEF Sound, Domained, Gathered
      <3> QED
        BY <3>4, <3>5
    <2> QED
      BY <2>9, <2>10, <2>14, <2>15, <2>16, <2>17, <2>18, <2>19 DEF Upheld, Sound
  <1> QED
    BY <1>12, <1>13
-----------------------------------------------------------------------------
(***************************************************************************)
(* The answer of the database.                                             *)
(***************************************************************************)
\* What it leaves in the heap and the cache.
Answered(e, x, id, a) ==
  /\ HeapOK' /\ cache' \in [BOOLEAN -> [Ids -> Addresses \cup {Null}]]
  /\ \A b \in DOMAIN heap : b \in DOMAIN heap' /\ heap'[b] = heap[b]
  /\ \A b \in DOMAIN heap' : b \notin DOMAIN heap => b = a
  /\ a \in Addresses \cup {Null}
  /\ a = Null => id \notin Stored
  /\ a # Null => /\ a \in DOMAIN heap' /\ a[1] = e /\ a[2] = id /\ id \in Stored
                 /\ heap'[a].version = Len(Db[id])
                 /\ heap'[a].domains = Latest(id).domains /\ Doc(a)' = Latest(id)
  /\ \A s \in BOOLEAN : s # Svc(e) => cache'[s] = cache[s]
  /\ \A i \in Ids : i # id => cache'[Svc(e)][i] = cache[Svc(e)][i]
  /\ cache'[Svc(e)][id] = IF a = Null THEN cache[Svc(e)][id] ELSE a

LEMMA AnswerParts ==
  ASSUME ExportTypeOK, NEW e \in Exports, Svc(e) \in BOOLEAN, Answer(e), NEW x, x = export[e], NEW id \in Ids, id = x.asked,
         NEW a, a = IF id \in Stored THEN Address(e, id) ELSE Null
  PROVE  Answered(e, x, id, a)
  <1>1. /\ heap' = IF a = Null THEN heap ELSE With([b \in {a} |-> Copy(id, Len(Db[id]))])
        /\ cache' = IF a = Null THEN cache ELSE [cache EXCEPT ![Svc(e)][id] = a]
    BY DEF Answer
  <1>2. HeapOK /\ cache \in [BOOLEAN -> [Ids -> Addresses \cup {Null}]]
    BY DEF ExportTypeOK
  <1>3. CASE id \notin Stored
    <2>1. a = Null /\ heap' = heap /\ cache' = cache
      BY <1>1, <1>3
    <2>2. HeapOK'
      BY <1>2, <2>1 DEF HeapOK, ReadBy
    <2> QED
      BY <1>2, <1>3, <2>1, <2>2 DEF Answered
  <1>4. CASE id \in Stored
    <2>1. a = Address(e, id)
      BY <1>4
    <2>2. a \in Addresses /\ a \notin DOMAIN heap /\ a[1] = e /\ a[2] = id /\ a # Null
      BY <1>2, <2>1, AddressParts
    <2>3. PICK docs : docs = [b \in {a} |-> Copy(id, Len(Db[id]))]
      OBVIOUS
    <2>4. heap' = With(docs)
      BY <1>1, <2>2, <2>3
    <2>5. DOMAIN docs = {Address(e, i) : i \in {id}} /\ DOMAIN docs = {a} /\ docs[a] = Copy(id, Len(Db[id]))
      BY <2>1, <2>3
    <2>6. Len(Db[id]) \in DOMAIN Db[id]
      BY <1>4, StoredParts
    <2>7. /\ docs[a] \in Copies /\ docs[a].id = id /\ docs[a].version = Len(Db[id])
          /\ docs[a].domains = Latest(id).domains
      BY <1>4, <2>5, <2>6, CopyParts DEF Latest
    <2>8. {id} \in SUBSET Stored
      BY <1>4
    <2>9. \A b \in DOMAIN docs : /\ docs[b] \in Copies /\ docs[b].id = b[2]
                                 /\ docs[b].version \in DOMAIN Db[b[2]]
      BY <2>2, <2>5, <2>6, <2>7
    <2>10. /\ HeapOK'
           /\ DOMAIN heap' = DOMAIN heap \cup DOMAIN docs
           /\ \A b \in DOMAIN heap : b \notin DOMAIN docs /\ heap'[b] = heap[b]
           /\ \A b \in DOMAIN docs : heap'[b] = docs[b] /\ b[1] = e /\ b[2] \in {id}
      <3>1. DOMAIN docs = {Address(e, i) : i \in {id}}
        BY <2>5
      <3> QED
        BY <1>2, <2>4, <2>8, <2>9, <3>1, WithParts
    <2>11. heap'[a] = docs[a] /\ a \in DOMAIN heap'
      BY <2>5, <2>10
    <2>12. Doc(a)' = Latest(id)
      BY <2>7, <2>11 DEF Doc, Latest
    <2>13. /\ cache' \in [BOOLEAN -> [Ids -> Addresses \cup {Null}]]
           /\ \A s \in BOOLEAN : s # Svc(e) => cache'[s] = cache[s]
           /\ \A i \in Ids : i # id => cache'[Svc(e)][i] = cache[Svc(e)][i]
           /\ cache'[Svc(e)][id] = a
      BY <1>1, <1>2, <2>2
    <2> QED
      BY <1>4, <2>2, <2>5, <2>7, <2>10, <2>11, <2>12, <2>13 DEF Answered
  <1> QED
    BY <1>3, <1>4

LEMMA AnswerStep ==
  ASSUME ExportInv, NEW e \in Exports, Answer(e)
  PROVE  Upheld(e)
  <1>0. PICK x, id : x = export[e] /\ id = x.asked
    OBVIOUS
  <1>1. PICK a : a = IF id \in Stored THEN Address(e, id) ELSE Null
    OBVIOUS
  <1>2. PICK h, y : h = Put(x.held, id, a) /\ y = [x EXCEPT !.held = h, !.asked = Null]
    OBVIOUS
  <1>3. /\ id # Null
        /\ export' = [export EXCEPT ![e] = y]
        /\ domainCache' = domainCache /\ all' = all /\ overlapped' = overlapped
    <2>1. /\ id # Null
          /\ export' = [export EXCEPT ![e] = [export[e] EXCEPT !.held = Put(export[e].held, id, a), !.asked = Null]]
          /\ domainCache' = domainCache /\ all' = all /\ overlapped' = overlapped
      <3>1. a = IF export[e].asked \in Stored THEN Address(e, export[e].asked) ELSE Null
        BY <1>0, <1>1
      <3>2. /\ export[e].asked # Null
            /\ domainCache' = domainCache /\ all' = all /\ overlapped' = overlapped
        BY DEF Answer
      <3>3. export' = [export EXCEPT ![e] =
              [export[e] EXCEPT !.held = Put(export[e].held, export[e].asked, a), !.asked = Null]]
        BY <3>1 DEF Answer
      <3> QED
        BY <1>0, <3>2, <3>3
    <2>2. y = [export[e] EXCEPT !.held = Put(export[e].held, id, a), !.asked = Null]
      BY <1>0, <1>2
    <2> QED
      BY <2>1, <2>2
  <1>4. /\ x \in States /\ Sound(e) /\ ExportTypeOK /\ HeapOK /\ CacheOK /\ ReadOK
        /\ \A i \in InBundle(x) :
             /\ x.objects[i] \in DOMAIN heap /\ x.objects[i][2] = i
             /\ Fitting(x, x.objects[i]) /\ Shared(e, x.objects[i])
    BY <1>0, BundleParts DEF ExportInv, ExportTypeOK
  <1>5. /\ x.step \in Reading /\ x.work # <<>> /\ id \notin DOMAIN x.held /\ Active(e) /\ id \in Ids
        /\ x.options \in Options[e] /\ Svc(e) \in BOOLEAN
    <2>1. x.step \in Reading /\ x.work # <<>> /\ id \notin DOMAIN x.held /\ id \in Ids
      BY <1>0, <1>3, <1>4 DEF Sound, WellFormed, States
    <2> QED
      BY <1>0, <1>4, <2>1, RequestParts DEF Sound, Reading, Active, Stages
  <1>6. Answered(e, x, id, a)
    BY <1>0, <1>1, <1>3, <1>4, <1>5, AnswerParts
  <1>7. /\ HeapOK' /\ cache' \in [BOOLEAN -> [Ids -> Addresses \cup {Null}]]
        /\ \A b \in DOMAIN heap : b \in DOMAIN heap' /\ heap'[b] = heap[b]
        /\ \A b \in DOMAIN heap' : b \notin DOMAIN heap => b = a
        /\ a \in Addresses \cup {Null}
        /\ a = Null => id \notin Stored
        /\ a # Null => /\ a \in DOMAIN heap' /\ a[1] = e /\ a[2] = id /\ id \in Stored
                       /\ heap'[a].version = Len(Db[id])
                       /\ heap'[a].domains = Latest(id).domains /\ Doc(a)' = Latest(id)
        /\ \A s \in BOOLEAN : s # Svc(e) => cache'[s] = cache[s]
        /\ \A i \in Ids : i # id => cache'[Svc(e)][i] = cache[Svc(e)][i]
        /\ cache'[Svc(e)][id] = IF a = Null THEN cache[Svc(e)][id] ELSE a
    BY <1>6 DEF Answered
  <1>8. /\ h \in Maps(Addresses \cup {Null})
        /\ DOMAIN h = DOMAIN x.held \cup {id} /\ h[id] = a
        /\ \A i \in DOMAIN x.held : h[i] = x.held[i]
    <2>1. x.held \in Maps(Addresses \cup {Null})
      BY <1>4 DEF States
    <2>2. PICK f : f = x.held
      OBVIOUS
    <2>3. /\ h \in Maps(Addresses \cup {Null})
          /\ DOMAIN h = DOMAIN f \cup {id} /\ h[id] = a
          /\ \A i \in DOMAIN f : i # id => h[i] = f[i]
      <3>1. f \in Maps(Addresses \cup {Null}) /\ h = Put(f, id, a)
        BY <1>2, <2>1, <2>2
      <3>2. id \in Ids /\ a \in Addresses \cup {Null}
        BY <1>5, <1>7
      <3> QED
        BY <3>1, <3>2, PutParts
    <2> QED
      BY <1>5, <2>2, <2>3
  <1>9. /\ y \in States /\ y.asked = Null
        /\ y.step = x.step /\ y.options = x.options /\ y.objects = x.objects /\ y.work = x.work
        /\ y.held = h /\ y.unfit = x.unfit /\ y.targets = x.targets /\ y.domains = x.domains
        /\ y.derived = x.derived /\ y.sources = x.sources
        /\ y.context = x.context /\ y.rels = x.rels /\ y.contents = x.contents
    BY <1>2, <1>4, <1>8 DEF States
  <1>10. InBundle(y) = InBundle(x)
    BY <1>9 DEF InBundle
  <1>11. export'[e] = y /\ \A f \in Exports : f # e => export'[f] = export[f]
    BY <1>3, <1>4 DEF ExportTypeOK
  <1>12. Svc(e)' = Svc(e)
    BY <1>0, <1>9, <1>11 DEF Svc
  <1>13. ExportTypeOK' /\ ReadOK'
    <2>1. export' \in [Exports -> States]
      BY <1>3, <1>4, <1>9 DEF ExportTypeOK
    <2> QED
      BY <1>3, <1>4, <1>7, <2>1 DEF ExportTypeOK, ReadOK
  <1>14. StepOf(e)
    <2>1. HeapStep(e)
      <3>1. \A b \in DOMAIN heap' : b \notin DOMAIN heap =>
              b = a /\ a # Null
        BY <1>7, NullAssumption DEF HeapOK, Addresses
      <3>2. a # Null /\ Doc(a)'.type \in DomainChecked => heap'[a].domains = Doc(a)'.domains
        BY <1>7
      <3>3. \A b \in DOMAIN heap : b \in DOMAIN heap' /\ heap'[b] = heap[b]
        BY <1>7
      <3>4. a # Null => a[1] = e /\ heap'[a].version = Len(Db[a[2]])
        BY <1>7
      <3> QED
        BY <3>1, <3>2, <3>3, <3>4 DEF HeapStep
    <2>2. FieldStep(e)
      BY <1>3, <1>7 DEF FieldStep
    <2> QED
      BY <1>0, <1>3, <1>5, <1>9, <1>11, <2>1, <2>2 DEF StepOf
  <1>15. \A b \in DOMAIN heap : /\ Fitting(y, b)' <=> Fitting(x, b)
                                /\ OfGroup(b)' <=> OfGroup(b)
                                /\ \A i : LatestAt(b, i) => LatestAt(b, i)'
    <2>1. \A b \in DOMAIN heap : /\ Fitting(y, b)' <=> Fitting(y, b)
                                 /\ OfGroup(b)' = OfGroup(b)
                                 /\ \A i : LatestAt(b, i) => LatestAt(b, i)'
      BY <1>4, <1>7, <1>14, DocStays DEF StepOf
    <2> QED
      BY <1>9, <2>1 DEF Fitting
  <1>16. \A b : Shared(e, b)' <=> Shared(e, b)
    BY <1>3 DEF Shared
  <1>17. \A p : /\ Idles(y, p) <=> Idles(x, p)
                /\ Missing(y, p) <=> Missing(x, p)
                /\ OtherEnd(y, p) = OtherEnd(x, p)
    BY <1>9, SameToDo
  <1>18. WellFormed(e)'
    <2>1. WellFormed(e)
      BY <1>4 DEF Sound
    <2>2. \A i \in DOMAIN h : IF h[i] = Null THEN i \notin Stored ELSE LatestAt(h[i], i)'
      <3> SUFFICES ASSUME NEW i \in DOMAIN h
                   PROVE  IF h[i] = Null THEN i \notin Stored ELSE LatestAt(h[i], i)'
        OBVIOUS
      <3>1. CASE i = id
        BY <1>7, <1>8, <3>1 DEF LatestAt
      <3>2. CASE i # id
        <4>1. i \in DOMAIN x.held /\ h[i] = x.held[i]
          BY <1>8, <3>2
        <4>2. IF h[i] = Null THEN i \notin Stored ELSE LatestAt(h[i], i)
          BY <1>0, <2>1, <4>1 DEF WellFormed
        <4>3. h[i] # Null => h[i] \in DOMAIN heap
          BY <4>2 DEF LatestAt
        <4> QED
          BY <1>15, <4>2, <4>3
      <3> QED
        BY <3>1, <3>2
    <2> QED
      BY <1>0, <1>7, <1>9, <1>10, <1>11, <1>17, <2>1, <2>2 DEF WellFormed
  <1>19. Deriving(e)'
    <2>1. PICK c : c = OtherEnd(x, Head(x.work))
      OBVIOUS
    <2> SUFFICES ASSUME x.targets # Null
                 PROVE  /\ x.step = "secondary" /\ Missing(x, Head(x.work))
                        /\ c \in DOMAIN h /\ Fitting(y, h[c])' /\ OfGroup(h[c])'
      BY <1>5, <1>9, <1>11, <1>17, <2>1 DEF Deriving
    <2>2. /\ x.step = "secondary" /\ Missing(x, Head(x.work))
          /\ c \in DOMAIN x.held /\ Fitting(x, x.held[c]) /\ OfGroup(x.held[c])
      BY <1>0, <1>4, <2>1 DEF Sound, Deriving
    <2>3. h[c] = x.held[c] /\ x.held[c] \in DOMAIN heap /\ c \in DOMAIN h
      BY <1>8, <2>2 DEF Fitting
    <2>4. PICK b \in DOMAIN heap : b = h[c] /\ Fitting(x, b) /\ OfGroup(b)
      BY <2>2, <2>3
    <2>5. Fitting(y, b)' /\ OfGroup(b)'
      BY <1>15, <2>4
    <2> QED
      BY <2>2, <2>3, <2>4, <2>5
  <1>20. FitBundle(e)' /\ Private(e)' /\ Own(e)'
    <2>1. FitBundle(e)'
      BY <1>4, <1>9, <1>10, <1>11, <1>15 DEF FitBundle
    <2>2. \A i \in DOMAIN h : h[i] # Null => Shared(e, h[i])
      BY <1>0, <1>4, <1>7, <1>8 DEF Sound, Private, Shared
    <2>3. \A i \in Ids : cache'[Svc(e)][i] # Null => Shared(e, cache'[Svc(e)][i])
      BY <1>4, <1>5, <1>7 DEF Sound, Private, Shared
    <2>4. Private(e)'
      BY <1>4, <1>9, <1>10, <1>11, <1>12, <1>16, <2>2, <2>3 DEF Private
    <2>5. Own(e)'
      BY <1>0, <1>3, <1>4, <1>9, <1>11, <1>12 DEF Sound, Own
    <2> QED
      BY <2>1, <2>4, <2>5
  <1>21. Changed(e)'
    <2> SUFFICES ASSUME e \notin overlapped, x.step \in {"primaries", "relationships", "secondary"}
                 PROVE  /\ \A i \in DOMAIN h : h[i] # Null => cache'[Svc(e)][i] = h[i]
                        /\ \A i \in Stored :
                             LET c == cache'[Svc(e)]
                             IN  /\ domainCache[Svc(e)][i] \in {Null, Latest(i).domains}
                                 /\ c[i] # Null /\ heap'[c[i]].domains # Latest(i).domains =>
                                      i \in InBundle(x) /\ domainCache[Svc(e)][i] = Latest(i).domains
      BY <1>3, <1>9, <1>10, <1>11, <1>12 DEF Changed
    <2>1. /\ \A i \in DOMAIN x.held : x.held[i] # Null => cache[Svc(e)][i] = x.held[i]
          /\ \A i \in Stored :
               LET c == cache[Svc(e)]
               IN  /\ domainCache[Svc(e)][i] \in {Null, Latest(i).domains}
                   /\ c[i] # Null /\ heap[c[i]].domains # Latest(i).domains =>
                        i \in InBundle(x) /\ domainCache[Svc(e)][i] = Latest(i).domains
      BY <1>0, <1>4 DEF Sound, Changed
    <2>2. DOMAIN x.held \subseteq Ids
      <3>1. x.held \in Maps(Addresses \cup {Null})
        BY <1>4 DEF States
      <3> QED
        BY <3>1, MapParts
    <2>3. \A i \in DOMAIN h : h[i] # Null => cache'[Svc(e)][i] = h[i]
      BY <1>5, <1>7, <1>8, <2>1, <2>2
    <2>4. \A i \in Stored : i \in Ids /\ (cache[Svc(e)][i] # Null => cache[Svc(e)][i] \in DOMAIN heap)
      <3>1. \A i \in Stored : i \in Ids
        BY StoredParts
      <3> QED
        BY <1>4, <1>5, <3>1 DEF CacheOK, LatestAt
    <2>5. \A i \in Stored :
            LET c == cache'[Svc(e)]
            IN  /\ domainCache[Svc(e)][i] \in {Null, Latest(i).domains}
                /\ c[i] # Null /\ heap'[c[i]].domains # Latest(i).domains =>
                     i \in InBundle(x) /\ domainCache[Svc(e)][i] = Latest(i).domains
      <3> SUFFICES ASSUME NEW i \in Stored
                   PROVE  LET c == cache'[Svc(e)]
                          IN  /\ domainCache[Svc(e)][i] \in {Null, Latest(i).domains}
                              /\ c[i] # Null /\ heap'[c[i]].domains # Latest(i).domains =>
                                   i \in InBundle(x) /\ domainCache[Svc(e)][i] = Latest(i).domains
        OBVIOUS
      <3>1. CASE i = id /\ a # Null
        BY <1>7, <2>1, <3>1
      <3>2. CASE i # id \/ a = Null
        <4>1. cache'[Svc(e)][i] = cache[Svc(e)][i]
          BY <1>7, <2>4, <3>2
        <4> QED
          BY <1>7, <2>1, <2>4, <4>1
      <3> QED
        BY <3>1, <3>2
    <2> QED
      BY <2>3, <2>5
  <1>22. Collecting(e)'
    <2>1. Collecting(e)
      BY <1>4 DEF Sound
    <2> QED
      BY <1>0, <1>3, <1>9, <1>11, <1>12, <1>17, <2>1 DEF Collecting
  <1>23. Domained(e)'
    <2>1. \A i \in InBundle(x) : heap'[x.objects[i]] = heap[x.objects[i]]
      BY <1>4, <1>7
    <2>2. Domained(e)
      BY <1>4 DEF Sound
    <2> QED
      BY <1>0, <1>3, <1>9, <1>10, <1>11, <2>1, <2>2 DEF Domained, Gathered
  <1>24. /\ Gathered(y) <=> Gathered(x)
         /\ \A q : Covered(y, q) <=> Covered(x, q)
         /\ \A q : Settled(y, q) <=> Settled(x, q)
         /\ \A q : Detects(y, q) <=> Detects(x, q)
    BY <1>9, <1>10 DEF Gathered, Covered, Settled, Detects
  <1>25. Connected(e)' /\ Recording(e)'
    BY <1>0, <1>4, <1>9, <1>10, <1>11, <1>24 DEF Sound, Connected, Recording
  <1>26. Sourcing(e)' /\ Relating(e)'
    BY <1>0, <1>4, <1>9, <1>10, <1>11, <1>24 DEF Sound, Sourcing, Relating
  <1>27. Settling(e)' /\ Listing(e)'
    BY <1>0, <1>3, <1>4, <1>9, <1>10, <1>11, <1>24 DEF Sound, Settling, Listing, Concluded
  <1> QED
    BY <1>13, <1>14, <1>18, <1>19, <1>20, <1>21, <1>22, <1>23, <1>25, <1>26, <1>27 DEF Upheld, Sound
-----------------------------------------------------------------------------
(***************************************************************************)
(* The end of an export.                                                   *)
(***************************************************************************)
LEMMA FinishStep ==
  ASSUME ExportInv, NEW e \in Exports, Finish(e)
  PROVE  Upheld(e)
  <1>0. PICK x : x = export[e]
    OBVIOUS
  <1>1. PICK y : y = [x EXCEPT !.step = "done", !.derived = Derived(x),
                              !.contents = {id \in InBundle(x) \cup x.context :
                                              Latest(id).type # "marking-definition"}]
    OBVIOUS
  <1>2. x.step = "context" /\ x.work = <<>> /\ QuietTo(e, y)
    BY <1>0, <1>1 DEF Finish, QuietTo
  <1>3. /\ x \in States /\ Sound(e) /\ ExportTypeOK /\ HeapOK /\ Faithful
        /\ \A i \in InBundle(x) :
             /\ i \in Stored /\ x.objects[i] \in DOMAIN heap /\ x.objects[i][2] = i
             /\ Fitting(x, x.objects[i]) /\ Shared(e, x.objects[i])
    BY <1>0, BundleParts DEF ExportInv, ExportTypeOK
  <1>4. Active(e) /\ x.asked = Null /\ x.targets = Null /\ x.domains = {} /\ x.unfit = FALSE
    <2>1. x.asked = Null /\ x.targets = Null
      BY <1>0, <1>2, <1>3 DEF Sound, WellFormed, Deriving
    <2>2. x.domains = {}
      BY <1>0, <1>3, <2>1 DEF Sound, WellFormed
    <2>3. x.unfit = FALSE
      BY <1>0, <1>2, <1>3 DEF Sound, Connected, States
    <2> QED
      BY <1>0, <1>2, <2>1, <2>2, <2>3 DEF Active, Stages
  <1>5. /\ y \in States /\ y.step = "done" /\ y.options = x.options /\ y.objects = x.objects
        /\ y.work = <<>> /\ y.asked = Null /\ y.held = x.held /\ y.unfit = FALSE
        /\ y.targets = Null /\ y.domains = {} /\ y.rels = x.rels /\ y.sources = x.sources
        /\ y.derived = Derived(x)
        /\ y.contents = {id \in InBundle(x) \cup x.context : Latest(id).type # "marking-definition"}
    <2>1. Derived(x) \in SUBSET (Ids \X Ids)
      BY <1>3 DEF Derived, States
    <2>2. PICK D : D = Derived(x)
      OBVIOUS
    <2>3. PICK C : C = {id \in InBundle(x) \cup x.context : Latest(id).type # "marking-definition"}
      OBVIOUS
    <2>4. C \in SUBSET Ids
      <3>1. InBundle(x) \subseteq Ids
        BY <1>3, StoredParts
      <3>2. x.context \subseteq Ids
        BY <1>3 DEF States
      <3> QED
        BY <2>3, <3>1, <3>2
    <2>5. y = [x EXCEPT !.step = "done", !.derived = D, !.contents = C]
      BY <1>1, <2>2, <2>3
    <2>6. D \in SUBSET (Ids \X Ids)
      BY <2>1, <2>2
    <2>7. /\ y \in States /\ y.step = "done" /\ y.options = x.options /\ y.objects = x.objects
          /\ y.work = x.work /\ y.asked = x.asked /\ y.held = x.held /\ y.unfit = x.unfit
          /\ y.targets = x.targets /\ y.domains = x.domains /\ y.rels = x.rels /\ y.sources = x.sources
          /\ y.derived = D /\ y.contents = C
      BY <1>3, <2>4, <2>5, <2>6 DEF States
    <2> QED
      BY <1>2, <1>4, <2>2, <2>3, <2>7
  <1>6. InBundle(y) = InBundle(x) /\ Gathered(x)
    BY <1>2, <1>5 DEF InBundle, Gathered
  <1>7. /\ ExportTypeOK' /\ StepOf(e) /\ ReadOK' /\ export'[e] = y
        /\ FitBundle(e)' /\ Private(e)' /\ Own(e)' /\ Changed(e)' /\ Domained(e)'
    <2>1. y.step \in Reading \cup {"done"} /\ (y.step \in Reading => x.step \in Reading) /\ y.step # "secondary"
      BY <1>5 DEF Reading
    <2>2. /\ InBundle(x) \subseteq InBundle(y)
          /\ \A id \in InBundle(x) : y.objects[id] = x.objects[id]
          /\ \A id \in InBundle(y) : /\ y.objects[id] \in DOMAIN heap
                                     /\ Fitting(x, y.objects[id]) /\ Shared(e, y.objects[id])
      BY <1>3, <1>5, <1>6
    <2>3. y \in States /\ y.options = x.options /\ y.held = x.held
      BY <1>5
    <2> QED
      BY <1>0, <1>2, <1>4, <1>6, <2>1, <2>2, <2>3, QuietParts
  <1>8. WellFormed(e)'
    <2>1. \A a, i : LatestAt(a, i)' <=> LatestAt(a, i)
      BY <1>2 DEF LatestAt, QuietTo
    <2>2. DOMAIN heap' = DOMAIN heap
      BY <1>2 DEF QuietTo
    <2>3. x.options \in Options[e]
      BY <1>0, <1>2, <1>3 DEF Sound, WellFormed
    <2>4. \A i \in DOMAIN x.held : IF x.held[i] = Null THEN i \notin Stored ELSE LatestAt(x.held[i], i)
      BY <1>0, <1>3 DEF Sound, WellFormed
    <2> QED
      BY <1>3, <1>5, <1>6, <1>7, <2>1, <2>2, <2>3, <2>4 DEF WellFormed
  <1>9. Deriving(e)' /\ Collecting(e)'
    BY <1>5, <1>7 DEF Deriving, Collecting
  <1>10. Connected(e)'
    <2>1. Primary(x.options) \subseteq InBundle(x) /\ \A q \in Relevant(x.options) : Covered(x, q)
      BY <1>0, <1>3, <1>6 DEF Sound, Connected
    <2>2. \A q : Covered(y, q) <=> Covered(x, q)
      BY <1>5, <1>6 DEF Covered
    <2> QED
      BY <1>5, <1>6, <1>7, <2>1, <2>2 DEF Connected
  <1>11. Recording(e)'
    <2> SUFFICES ASSUME NEW q \in Detections(x.options), q \in x.rels, DerivesFor(q.target),
                        Latest(q.source).type = "x-mitre-data-component"
                 PROVE  <<q.target, q.source>> \in Derived(x)
      BY <1>5, <1>7 DEF Recording
    <2>1. <<q.target, q.source>> \in x.derived
      BY <1>0, <1>2, <1>3, <1>6 DEF Sound, Recording
    <2>2. q \in Relation /\ q.source \in InBundle(x) /\ q.target \in InBundle(x)
      BY <1>0, <1>3 DEF Sound, Relating, EndsOf, States
    <2>3. ValidLatest(q.source, x.options)
      <3>1. PICK a : a = x.objects[q.source] /\ a \in DOMAIN heap /\ a[2] = q.source /\ Fitting(x, a)
        BY <1>3, <2>2
      <3> QED
        BY <1>3, <3>1, WhatFits
    <2>4. Latest(q.source).refs \subseteq x.sources /\ Latest(q.source).refs # {}
      <3>1. Detects(x, q)
        BY <2>3 DEF Detects
      <3> QED
        BY <1>0, <1>2, <1>3, <1>6, <2>2, <3>1 DEF Sound, Sourcing
    <2>5. SourcesOf({q.source}) \cap x.sources # {}
      <3>1. {q.source} \in SUBSET Stored
        BY <1>3, <2>2
      <3>2. Latest(q.source).refs \subseteq SourcesOf({q.source})
        BY <3>1, SourcesParts
      <3> QED
        BY <2>4, <3>2
    <2> QED
      BY <2>1, <2>2, <2>5 DEF Derived
  <1>12. Sourcing(e)' /\ Relating(e)'
    <2>1. \A q : Detects(y, q) <=> Detects(x, q)
      BY <1>5 DEF Detects
    <2> QED
      BY <1>0, <1>2, <1>3, <1>5, <1>6, <1>7, <2>1 DEF Sound, Sourcing, Relating
  <1>13. Settling(e)' /\ Listing(e)'
    <2>1. \A q : Settled(y, q) <=> Settled(x, q)
      BY <1>5, <1>6 DEF Settled
    <2>2. overlapped' = overlapped
      BY <1>2 DEF QuietTo
    <2>3. e \notin overlapped => \A q \in Read(x.options) : Settled(x, q)
      BY <1>0, <1>2, <1>3 DEF Sound, Settling, Concluded
    <2> QED
      BY <1>5, <1>6, <1>7, <2>1, <2>2, <2>3 DEF Settling, Listing
  <1> QED
    BY <1>7, <1>8, <1>9, <1>10, <1>11, <1>12, <1>13 DEF Upheld, Sound
-----------------------------------------------------------------------------
(***************************************************************************)
(* The beginning of an export.                                             *)
(***************************************************************************)
\* The documents of objects that are primary, with the heap they are read to.
PrimariesRead(e, x, o) ==
  /\ HeapOK' /\ DOMAIN heap \subseteq DOMAIN heap'
  /\ \A a \in DOMAIN heap : heap'[a] = heap[a]
  /\ \A a \in DOMAIN heap' :
       a \notin DOMAIN heap =>
         /\ a[1] = e /\ heap'[a].version = Len(Db[a[2]])
         /\ heap'[a].domains = Doc(a)'.domains
  /\ o \in Maps(Addresses) /\ DOMAIN o = Primary(x.options)
  /\ \A id \in DOMAIN o :
       o[id] \in DOMAIN heap' /\ o[id][1] = e /\ o[id][2] = id /\ Fitting(x, o[id])'

LEMMA PrimariesParts ==
  ASSUME HeapOK, NEW e \in Exports, Primaries(e), NEW x, x = export[e],
         NEW o, o = [id \in Primary(x.options) |-> Address(e, id)]
  PROVE  PrimariesRead(e, x, o)
  <1>1. PICK D : D = Primary(x.options)
    OBVIOUS
  <1>2. PICK docs : docs = [a \in {Address(e, id) : id \in D} |-> Copy(a[2], Len(Db[a[2]]))]
    OBVIOUS
  <1>3. heap' = With(docs)
    BY <1>1, <1>2 DEF Primaries
  <1>4. D \in SUBSET Stored /\ \A id \in D : id \in Ids /\ id \in Stored
    BY <1>1, StoredParts DEF Primary
  <1>5. \A id \in D : /\ Address(e, id) \in Addresses /\ Address(e, id) \notin DOMAIN heap
                      /\ Address(e, id)[1] = e /\ Address(e, id)[2] = id
    BY <1>4, AddressParts
  <1>6. DOMAIN docs = {Address(e, id) : id \in D}
    BY <1>2
  <1>7. \A a \in DOMAIN docs :
          /\ a[2] \in D /\ docs[a] = Copy(a[2], Len(Db[a[2]]))
          /\ docs[a] \in Copies /\ docs[a].id = a[2] /\ docs[a].version = Len(Db[a[2]])
          /\ docs[a].version \in DOMAIN Db[a[2]]
          /\ docs[a].domains = Latest(a[2]).domains
    <2> SUFFICES ASSUME NEW a \in DOMAIN docs
                 PROVE  /\ a[2] \in D /\ docs[a] = Copy(a[2], Len(Db[a[2]]))
                        /\ docs[a] \in Copies /\ docs[a].id = a[2] /\ docs[a].version = Len(Db[a[2]])
                        /\ docs[a].version \in DOMAIN Db[a[2]]
                        /\ docs[a].domains = Latest(a[2]).domains
      OBVIOUS
    <2>1. PICK id \in D : a = Address(e, id)
      BY <1>6
    <2>2. a[2] = id /\ id \in Stored
      BY <1>4, <1>5, <2>1
    <2>3. docs[a] = Copy(id, Len(Db[id]))
      BY <1>2, <1>6, <2>2
    <2>4. Len(Db[id]) \in DOMAIN Db[id]
      BY <2>2, StoredParts
    <2> QED
      BY <2>2, <2>3, <2>4, CopyParts DEF Latest
  <1>8. /\ HeapOK'
        /\ DOMAIN heap' = DOMAIN heap \cup DOMAIN docs
        /\ \A a \in DOMAIN heap : a \notin DOMAIN docs /\ heap'[a] = heap[a]
        /\ \A a \in DOMAIN docs : heap'[a] = docs[a] /\ a[1] = e /\ a[2] \in D
    <2>1. \A a \in DOMAIN docs : /\ docs[a] \in Copies /\ docs[a].id = a[2]
                                 /\ docs[a].version \in DOMAIN Db[a[2]]
      BY <1>7
    <2>2. D \in SUBSET Stored
      BY <1>4
    <2> QED
      BY <1>3, <1>6, <2>1, <2>2, WithParts
  <1>9. \A a \in DOMAIN docs :
          /\ heap'[a].version = Len(Db[a[2]]) /\ heap'[a].domains = Latest(a[2]).domains
          /\ Doc(a)' = Latest(a[2])
    BY <1>7, <1>8 DEF Doc, Latest
  <1>10. o \in Maps(Addresses) /\ DOMAIN o = D /\ \A id \in D : o[id] = Address(e, id)
    <2>1. o \in [D -> Addresses] /\ D \in SUBSET Ids
      BY <1>1, <1>4, <1>5
    <2> QED
      BY <1>1, <2>1 DEF Maps
  <1>11. \A id \in D : Fit(Latest(id), Latest(id).domains, x.options)
    BY <1>1 DEF Primary, Fit, isCorrectDomain
  <1>12. \A id \in D : o[id] \in DOMAIN docs /\ o[id][1] = e /\ o[id][2] = id
    BY <1>5, <1>6, <1>10
  <1>13. \A id \in D : Fitting(x, o[id])'
    <2>1. \A a \in DOMAIN docs : Fitting(x, a)'
      BY <1>7, <1>8, <1>9, <1>11 DEF Fitting
    <2> QED
      BY <1>12, <2>1
  <1>14. \A a \in DOMAIN heap' :
           a \notin DOMAIN heap =>
             /\ a[1] = e /\ heap'[a].version = Len(Db[a[2]])
             /\ heap'[a].domains = Doc(a)'.domains
    BY <1>8, <1>9
  <1> QED
    BY <1>1, <1>8, <1>10, <1>12, <1>13, <1>14 DEF PrimariesRead

LEMMA PrimariesStep ==
  ASSUME ExportInv, NEW e \in Exports, Primaries(e)
  PROVE  Upheld(e)
  <1>0. PICK x : x = export[e]
    OBVIOUS
  <1>1. PICK o : o = [id \in Primary(x.options) |-> Address(e, id)]
    OBVIOUS
  <1>2. PICK step : step = IF Primary(x.options) = {} THEN "done" ELSE "relationships"
    OBVIOUS
  <1>3. PICK y : y = [x EXCEPT !.step = step, !.objects = o]
    OBVIOUS
  <1>4. /\ x.step = "primaries"
        /\ export' = [export EXCEPT ![e] = y]
        /\ cache' = cache /\ domainCache' = domainCache /\ all' = all /\ overlapped' = overlapped
    BY <1>0, <1>1, <1>2, <1>3 DEF Primaries
  <1>5. x \in States /\ Sound(e) /\ ExportTypeOK /\ HeapOK /\ CacheOK /\ ReadOK
    BY <1>0, BundleParts DEF ExportInv, ExportTypeOK
  <1>6. PrimariesRead(e, x, o)
    BY <1>0, <1>1, <1>5, PrimariesParts
  <1>7. /\ x.asked = Null /\ x.work = <<>> /\ x.targets = Null /\ x.domains = {} /\ x.unfit = FALSE
        /\ x.rels = {} /\ InBundle(x) = {} /\ x.options \in Options[e] /\ Active(e) /\ Svc(e) \in BOOLEAN
    <2>1. /\ x.asked = Null /\ x.work = <<>> /\ x.rels = {} /\ InBundle(x) = {} /\ x.options \in Options[e]
          /\ (x.targets = Null => x.domains = {})
      BY <1>0, <1>4, <1>5 DEF Sound, WellFormed, Reading
    <2>2. x.targets = Null
      BY <1>0, <1>4, <1>5 DEF Sound, Deriving
    <2>3. x.unfit = FALSE
      BY <1>0, <1>4, <1>5 DEF Sound, Connected, States
    <2>4. Svc(e) \in BOOLEAN
      BY <1>0, <1>4, <1>5, RequestParts DEF Sound
    <2> QED
      BY <1>0, <1>4, <2>1, <2>2, <2>3, <2>4 DEF Active, Stages
  <1>8. /\ y \in States /\ y.step = step /\ y.options = x.options /\ y.objects = o
        /\ y.work = <<>> /\ y.asked = Null /\ y.held = x.held /\ y.unfit = FALSE
        /\ y.targets = Null /\ y.domains = {} /\ y.rels = {}
    <2>1. o \in Maps(Addresses)
      BY <1>6 DEF PrimariesRead
    <2>2. step \in Stages \cup {"idle", "failed", "done"}
      BY <1>2 DEF Stages
    <2>3. /\ y \in States /\ y.step = step /\ y.options = x.options /\ y.objects = o
          /\ y.work = x.work /\ y.asked = x.asked /\ y.held = x.held /\ y.unfit = x.unfit
          /\ y.targets = x.targets /\ y.domains = x.domains /\ y.rels = x.rels
      BY <1>3, <1>5, <2>1, <2>2 DEF States
    <2> QED
      BY <1>7, <2>3
  <1>9. InBundle(y) = Primary(x.options)
    BY <1>6, <1>8 DEF InBundle, PrimariesRead
  <1>10. y.step = "done" => y.objects = <<>>
    BY <1>1, <1>2, <1>8
  <1>11. export'[e] = y /\ \A f \in Exports : f # e => export'[f] = export[f]
    BY <1>4, <1>5 DEF ExportTypeOK
  <1>12. Svc(e)' = Svc(e)
    BY <1>0, <1>8, <1>11 DEF Svc
  <1>13. y.step \in {"done", "relationships"}
    BY <1>2, <1>8
  <1>14. ~Gathered(y) /\ ~Concluded(y) /\ y.step \notin Reading \cup {"primaries"}
    BY <1>10, <1>13 DEF Gathered, Concluded, Reading
  <1>15. ExportTypeOK' /\ ReadOK'
    <2>1. export' \in [Exports -> States]
      BY <1>4, <1>5, <1>8 DEF ExportTypeOK
    <2> QED
      BY <1>4, <1>5, <1>6, <2>1 DEF ExportTypeOK, ReadOK, PrimariesRead
  <1>16. StepOf(e)
    <2>1. HeapStep(e)
      BY <1>6 DEF HeapStep, PrimariesRead
    <2>2. FieldStep(e)
      BY <1>4 DEF FieldStep
    <2> QED
      BY <1>0, <1>4, <1>7, <1>8, <1>11, <2>1, <2>2 DEF StepOf
  <1>17. \A b : Shared(e, b)' <=> Shared(e, b)
    BY <1>4 DEF Shared
  <1>18. WellFormed(e)'
    <2>1. \A i \in DOMAIN x.held : IF x.held[i] = Null THEN i \notin Stored ELSE LatestAt(x.held[i], i)'
      <3>1. \A i \in DOMAIN x.held : IF x.held[i] = Null THEN i \notin Stored ELSE LatestAt(x.held[i], i)
        BY <1>0, <1>5 DEF Sound, WellFormed
      <3>2. \A b, i : LatestAt(b, i) => LatestAt(b, i)'
        BY <1>6 DEF LatestAt, PrimariesRead
      <3> QED
        BY <3>1, <3>2
    <2>2. \A id \in InBundle(y) : y.objects[id] \in DOMAIN heap' /\ y.objects[id][2] = id
      BY <1>6, <1>8, <1>9 DEF PrimariesRead
    <2> QED
      BY <1>7, <1>8, <1>11, <1>13, <1>14, <2>1, <2>2 DEF WellFormed, Reading
  <1>19. FitBundle(e)'
    <2>1. \A b : Fitting(y, b)' <=> Fitting(x, b)'
      BY <1>8 DEF Fitting
    <2>2. \A id \in InBundle(y) : Fitting(x, y.objects[id])'
      BY <1>6, <1>8, <1>9 DEF PrimariesRead
    <2> QED
      BY <1>11, <2>1, <2>2 DEF FitBundle
  <1>20. Private(e)'
    <2>1. \A id \in InBundle(y) : Shared(e, y.objects[id])
      BY <1>6, <1>8, <1>9 DEF PrimariesRead, Shared
    <2>2. /\ \A i \in DOMAIN x.held : x.held[i] # Null => Shared(e, x.held[i])
          /\ \A i \in Ids : cache[Svc(e)][i] # Null => Shared(e, cache[Svc(e)][i])
      BY <1>0, <1>5, <1>7 DEF Sound, Private
    <2> QED
      BY <1>4, <1>8, <1>11, <1>12, <1>17, <2>1, <2>2 DEF Private
  <1>21. Changed(e)'
    <2> SUFFICES ASSUME e \notin overlapped
                 PROVE  Changed(e)'
      BY <1>4 DEF Changed
    <2>1. /\ \A i \in DOMAIN x.held : x.held[i] # Null => cache[Svc(e)][i] = x.held[i]
          /\ \A i \in Stored :
               LET c == cache[Svc(e)]
               IN  /\ domainCache[Svc(e)][i] \in {Null, Latest(i).domains}
                   /\ c[i] # Null => heap[c[i]].domains = Latest(i).domains
      BY <1>0, <1>4, <1>5, <1>7 DEF Sound, Changed
    <2>2. \A i \in Stored : cache[Svc(e)][i] # Null =>
            heap'[cache[Svc(e)][i]].domains = Latest(i).domains
      <3>1. \A i \in Stored : i \in Ids
        BY StoredParts
      <3>2. \A i \in Stored : cache[Svc(e)][i] # Null => cache[Svc(e)][i] \in DOMAIN heap
        BY <1>5, <1>7, <3>1 DEF CacheOK, LatestAt
      <3> QED
        BY <1>6, <2>1, <3>2 DEF PrimariesRead
    <2> QED
      BY <1>4, <1>8, <1>11, <1>12, <2>1, <2>2 DEF Changed
  <1>22. Deriving(e)' /\ Collecting(e)' /\ Relating(e)'
    BY <1>8, <1>11 DEF Deriving, Collecting, Relating
  <1>23. Connected(e)' /\ Recording(e)' /\ Sourcing(e)'
    BY <1>8, <1>9, <1>11, <1>13, <1>14 DEF Connected, Recording, Sourcing
  <1>24. Own(e)' /\ Settling(e)' /\ Listing(e)' /\ Domained(e)'
    BY <1>8, <1>10, <1>11, <1>13, <1>14 DEF Own, Settling, Listing, Domained
  <1> QED
    BY <1>15, <1>16, <1>18, <1>19, <1>20, <1>21, <1>22, <1>23, <1>24 DEF Upheld, Sound

\* What is read of the relationships is the same in every order.
LEMMA ReadParts ==
  ASSUME NEW order \in Orders, NEW options, NEW read, read = RetrieveAllForBundle(order, options)
  PROVE  /\ read \in Seq(Relation)
         /\ Range(read) = Read(options)
         /\ Range(read) \subseteq OfOrders
  <1>1. \A other \in Orders :
          /\ RetrieveAllForBundle(other, options) \in Seq(Relation)
          /\ Range(RetrieveAllForBundle(other, options)) = {q \in Range(other) : Selected(q, options)}
    <2> SUFFICES ASSUME NEW other \in Orders
                 PROVE  /\ RetrieveAllForBundle(other, options) \in Seq(Relation)
                        /\ Range(RetrieveAllForBundle(other, options)) = {q \in Range(other) : Selected(q, options)}
      OBVIOUS
    <2>1. PICK W : W = {q \in Range(other) : Selected(q, options)}
      OBVIOUS
    <2>2. other \in Seq(Relation)
      BY OrdersAssumption
    <2>3. Kept(other, W) \in Seq(Relation) /\ Range(Kept(other, W)) = Range(other) \cap W
      BY <2>2, EntriesKept
    <2>4. RetrieveAllForBundle(other, options) = Kept(other, W)
      BY <2>1 DEF RetrieveAllForBundle
    <2> QED
      BY <2>1, <2>3, <2>4
  <1>2. \A other \in Orders : Range(other) = Range(order)
    BY OrdersAssumption
  <1>3. \A other \in Orders : Range(RetrieveAllForBundle(other, options)) = Range(read)
    BY <1>1, <1>2
  <1>4. Range(read) = Read(options)
    BY <1>3 DEF Read
  <1>5. Range(read) \subseteq OfOrders
    BY <1>1 DEF OfOrders
  <1> QED
    BY <1>1, <1>4, <1>5

LEMMA RelationshipsStep ==
  ASSUME ExportInv, NEW e \in Exports, Relationships(e)
  PROVE  Upheld(e)
  <1>0. PICK x : x = export[e]
    OBVIOUS
  <1>1. PICK order \in Orders :
          LET read == RetrieveAllForBundle(order, x.options)
          IN  /\ all' = [all EXCEPT ![Svc(e)] = read]
              /\ export' = [export EXCEPT ![e] =
                   Onward([x EXCEPT !.step = "secondary",
                                    !.work = Kept(read, Touching(read, InBundle(x)))])]
    BY <1>0 DEF Relationships
  <1>2. PICK read : read = RetrieveAllForBundle(order, x.options)
    OBVIOUS
  <1>3. PICK w, z : w = Kept(read, Touching(read, InBundle(x))) /\ z = [x EXCEPT !.step = "secondary", !.work = w]
    OBVIOUS
  <1>4. PICK y : y = Onward(z)
    OBVIOUS
  <1>5. /\ x.step = "relationships"
        /\ export' = [export EXCEPT ![e] = y] /\ all' = [all EXCEPT ![Svc(e)] = read]
        /\ heap' = heap /\ cache' = cache /\ domainCache' = domainCache /\ overlapped' = overlapped
    BY <1>0, <1>1, <1>2, <1>3, <1>4 DEF Relationships
  <1>6. /\ x \in States /\ Sound(e) /\ ExportTypeOK /\ HeapOK /\ CacheOK /\ ReadOK
        /\ \A id \in InBundle(x) :
             /\ id \in Stored /\ x.objects[id] \in DOMAIN heap /\ x.objects[id][2] = id
             /\ Fitting(x, x.objects[id]) /\ Shared(e, x.objects[id])
    BY <1>0, BundleParts DEF ExportInv, ExportTypeOK
  <1>7. read \in Seq(Relation) /\ Range(read) = Read(x.options) /\ Range(read) \subseteq OfOrders
    BY <1>2, ReadParts
  <1>8. w \in Seq(Relation) /\ Range(w) = {q \in Range(read) : EndsOf(q) \cap InBundle(x) # {}}
    <2>1. PICK W : W = Touching(read, InBundle(x))
      OBVIOUS
    <2>2. Kept(read, W) \in Seq(Relation) /\ Range(Kept(read, W)) = Range(read) \cap W
      BY <1>7, EntriesKept
    <2> QED
      BY <1>3, <2>1, <2>2 DEF Touching, EndsOf
  <1>9. /\ x.asked = Null /\ x.rels = {} /\ x.options \in Options[e] /\ Active(e) /\ Svc(e) \in BOOLEAN
        /\ InBundle(x) = Primary(x.options)
    <2>1. x.asked = Null /\ x.rels = {} /\ x.options \in Options[e]
      BY <1>0, <1>5, <1>6 DEF Sound, WellFormed, Reading
    <2>2. InBundle(x) = Primary(x.options)
      BY <1>0, <1>5, <1>6 DEF Sound, Connected
    <2>3. Svc(e) \in BOOLEAN
      BY <1>0, <1>5, <1>6, RequestParts DEF Sound
    <2> QED
      BY <1>0, <1>5, <2>1, <2>2, <2>3 DEF Active, Stages
  <1>10. /\ z \in States /\ z.step = "secondary" /\ z.work = w /\ z.objects = x.objects
         /\ z.options = x.options /\ z.asked = Null /\ z.rels = {}
    <2>1. w \in Seq(Relation) \cup Seq(Ids) /\ "secondary" \in Stages
      BY <1>8 DEF Stages
    <2> QED
      BY <1>3, <1>6, <1>9, <2>1 DEF States
  <1>11. /\ y \in States /\ Rested(y) /\ Alike(z, y) /\ y.objects = z.objects
         /\ y.work \in Seq(Relation) /\ Range(y.work) \subseteq Range(w)
         /\ \A q \in Range(w) : q \in Range(y.work) \/ Idles(y, q)
         /\ y.work # <<>> => ~Idles(y, Head(y.work))
    BY <1>4, <1>8, <1>10, OnwardParts
  <1>12. /\ y.step = "secondary" /\ y.options = x.options /\ y.objects = x.objects /\ y.asked = Null
         /\ y.rels = {} /\ y.held = <<>> /\ y.unfit = FALSE /\ y.targets = Null /\ y.domains = {}
         /\ DOMAIN y.held = {}
    BY <1>10, <1>11, EmptyMap DEF Alike, Rested
  <1>13. InBundle(y) = Primary(x.options) /\ InBundle(y) = InBundle(x) /\ ~Gathered(y)
    BY <1>9, <1>12 DEF InBundle, Gathered
  <1>14. export'[e] = y /\ \A f \in Exports : f # e => export'[f] = export[f]
    BY <1>5, <1>6 DEF ExportTypeOK
  <1>15. Svc(e)' = Svc(e)
    BY <1>0, <1>12, <1>14 DEF Svc
  <1>16. /\ all' \in [BOOLEAN -> Seq(Relation)] /\ all'[Svc(e)] = read
         /\ \A s \in BOOLEAN : s # Svc(e) => all'[s] = all[s]
    BY <1>5, <1>6, <1>7, <1>9 DEF ExportTypeOK
  <1>17. ExportTypeOK' /\ ReadOK'
    <2>1. export' \in [Exports -> States]
      BY <1>5, <1>6, <1>11 DEF ExportTypeOK
    <2>2. HeapOK'
      BY <1>5, <1>6 DEF HeapOK, ReadBy
    <2>3. ReadOK'
      BY <1>6, <1>7, <1>9, <1>16 DEF ReadOK
    <2> QED
      BY <1>5, <1>6, <1>16, <2>1, <2>2, <2>3 DEF ExportTypeOK
  <1>18. StepOf(e)
    <2>1. HeapStep(e)
      BY <1>5 DEF HeapStep
    <2>2. FieldStep(e)
      BY <1>5, <1>16 DEF FieldStep
    <2> QED
      BY <1>0, <1>5, <1>9, <1>12, <1>14, <2>1, <2>2 DEF StepOf
  <1>19. \A b : (Shared(e, b)' <=> Shared(e, b)) /\ (Fitting(y, b)' <=> Fitting(x, b))
    BY <1>5, <1>12 DEF Shared, Fitting, Doc
  <1>20. WellFormed(e)'
    BY <1>5, <1>6, <1>9, <1>11, <1>12, <1>13, <1>14 DEF WellFormed, Reading
  <1>21. FitBundle(e)'
    BY <1>6, <1>12, <1>13, <1>14, <1>19 DEF FitBundle
  <1>22. Private(e)'
    <2>1. \A i \in Ids : cache[Svc(e)][i] # Null => Shared(e, cache[Svc(e)][i])
      BY <1>6, <1>9 DEF Sound, Private
    <2> QED
      BY <1>5, <1>6, <1>12, <1>13, <1>14, <1>15, <1>19, <2>1 DEF Private
  <1>23. Changed(e)'
    <2>1. Changed(e)
      BY <1>6 DEF Sound
    <2> QED
      BY <1>0, <1>5, <1>12, <1>13, <1>14, <1>15, <2>1 DEF Changed
  <1>24. Deriving(e)' /\ Collecting(e)' /\ Relating(e)'
    BY <1>12, <1>14 DEF Deriving, Collecting, Relating
  <1>25. Connected(e)'
    <2>1. \A q \in Range(y.work) : EndsOf(q) \cap InBundle(y) # {}
      BY <1>8, <1>11, <1>13
    <2>2. ASSUME NEW q \in Relevant(x.options), q \notin Range(y.work)
          PROVE  Covered(y, q)
      <3>1. q \in Range(w)
        BY <1>7, <1>8, <1>9 DEF Relevant, ReadOf
      <3>2. Idles(y, q)
        BY <1>11, <2>2, <3>1
      <3>3. q.kind # "detects" \/ y.options.legacy
        BY <1>12 DEF Relevant
      <3>4. EndsOf(q) \subseteq InBundle(y)
        BY <1>12, <3>2, <3>3 DEF Idles, Missing, EndsOf
      <3> QED
        BY <3>4 DEF Covered
    <2> QED
      BY <1>12, <1>13, <1>14, <2>1, <2>2 DEF Connected
  <1>26. Recording(e)'
    <2>1. ASSUME NEW q \in Detections(x.options)
          PROVE  q \in Range(y.work)
      <3>1. q \in Range(w)
        BY <1>7, <1>8, <1>9 DEF Detections, ReadOf
      <3>2. ~Idles(y, q)
        BY <1>12 DEF Idles, Recorded, Detections
      <3> QED
        BY <1>11, <3>1, <3>2
    <2> QED
      BY <1>12, <1>13, <1>14, <2>1 DEF Recording
  <1>27. Own(e)' /\ Sourcing(e)' /\ Settling(e)' /\ Listing(e)'
    BY <1>7, <1>12, <1>13, <1>14, <1>15, <1>16 DEF Own, Sourcing, Settling, Listing, Concluded
  <1>28. Domained(e)'
    <2>1. \A id \in InBundle(y) : Latest(id).type \notin {"intrusion-set", "campaign"}
      BY <1>13 DEF Primary, PrimaryTypes
    <2> QED
      BY <1>14, <2>1 DEF Domained
  <1> QED
    BY <1>17, <1>18, <1>20, <1>21, <1>22, <1>23, <1>24, <1>25, <1>26, <1>27, <1>28 DEF Upheld, Sound
-----------------------------------------------------------------------------
(***************************************************************************)
(* The rest of exportBundle.                                               *)
(***************************************************************************)
\* What is known of a strategy that the analytics of the bundle refer to.
Strategic(x, f) ==
  /\ f.id \in Stored /\ f.id \notin InBundle(x) /\ f.version \in DOMAIN Db[f.id]
  /\ Latest(f.id).type = "x-mitre-detection-strategy"
  /\ Fit(Db[f.id][f.version], Db[f.id][f.version].domains, x.options)

LEMMA StrategyParts ==
  ASSUME NEW x
  PROVE  /\ \A f \in Strategies(x) : Strategic(x, f)
         /\ \A f, g \in Strategies(x) : f.id = g.id => f = g
  <1>1. PICK A : A = {id \in InBundle(x) : Latest(id).type = "x-mitre-analytic"}
    OBVIOUS
  <1>2. \A f \in Strategies(x) :
          /\ f \in FindByAnalyticRefs(A, x.options) /\ f.id \notin InBundle(x)
          /\ Fit(Db[f.id][f.version], Db[f.id][f.version].domains, x.options)
    BY <1>1 DEF Strategies
  <1>3. \A f \in FindByAnalyticRefs(A, x.options) :
          /\ f = [id |-> f.id, version |-> Max(Referring(f.id, A, x.options))]
          /\ f.version = Max(Referring(f.id, A, x.options))
          /\ f.id \in Stored /\ Latest(f.id).type = "x-mitre-detection-strategy"
          /\ Referring(f.id, A, x.options) # {}
    BY DEF FindByAnalyticRefs
  <1>4. ASSUME NEW id \in Stored, Referring(id, A, x.options) # {}
        PROVE  Max(Referring(id, A, x.options)) \in DOMAIN Db[id]
    <2>1. PICK S, n : S = Referring(id, A, x.options) /\ n = Len(Db[id])
      OBVIOUS
    <2>2. n \in Nat /\ DOMAIN Db[id] = 1 .. n
      BY <2>1, DocumentsAssumption DEF Stored, Db
    <2>3. S \subseteq 1 .. n /\ S # {}
      BY <1>4, <2>1, <2>2 DEF Referring
    <2>4. Max(S) \in S
      <3>1. IsFiniteSet(1 .. n) /\ 1 .. n \subseteq Nat
        BY <2>2, FS_Interval
      <3>2. S \in SUBSET Nat /\ IsFiniteSet(S) /\ S # {}
        BY <2>3, <3>1, FS_Subset
      <3> QED
        BY <3>2, FiniteMax
    <2> QED
      BY <2>1, <2>2, <2>3, <2>4
  <1>5. \A f \in Strategies(x) : f.version \in DOMAIN Db[f.id]
    BY <1>2, <1>3, <1>4
  <1>6. \A f, g \in Strategies(x) : f.id = g.id => f = g
    BY <1>2, <1>3
  <1> QED
    BY <1>2, <1>3, <1>5, <1>6 DEF Strategic

LEMMA FoundParts ==
  ASSUME NEW x, NEW id \in {f.id : f \in Strategies(x)}, NEW v, v = Found(Strategies(x), id).version
  PROVE  /\ id \in Stored /\ id \in Ids /\ id \notin InBundle(x) /\ v \in DOMAIN Db[id] /\ v \in Nat
         /\ Latest(id).type = "x-mitre-detection-strategy" /\ Db[id][v].type = Latest(id).type
         /\ Fit(Db[id][v], Db[id][v].domains, x.options)
         /\ Db[id][v].domains \in DomainSets
  <1>1. PICK f : f = Found(Strategies(x), id)
    OBVIOUS
  <1>2. f \in Strategies(x) /\ f.id = id
    BY <1>1 DEF Found
  <1>3. Strategic(x, f) /\ v = f.version
    BY <1>1, <1>2, StrategyParts
  <1>4. /\ id \in Stored /\ id \notin InBundle(x) /\ v \in DOMAIN Db[id]
        /\ Latest(id).type = "x-mitre-detection-strategy"
        /\ Fit(Db[id][v], Db[id][v].domains, x.options)
    BY <1>2, <1>3 DEF Strategic
  <1>5. id \in Ids /\ v \in Nat /\ Db[id][v] \in StoredDocument /\ Db[id][v].type = Latest(id).type
    BY <1>4, StoredParts
  <1> QED
    BY <1>4, <1>5 DEF StoredDocument, DomainSets

\* The strategies of a bundle, with the heap they are read to.
StrategiesRead(e, x, N, o) ==
  /\ HeapOK' /\ DOMAIN heap \subseteq DOMAIN heap'
  /\ \A a \in DOMAIN heap : heap'[a] = heap[a]
  /\ \A a \in DOMAIN heap' :
       a \notin DOMAIN heap =>
         /\ a[1] = e /\ Latest(a[2]).type = "x-mitre-detection-strategy"
         /\ Doc(a)'.type \notin DomainChecked
  /\ o \in Maps(Addresses) /\ DOMAIN o = InBundle(x) \cup N
  /\ \A id \in InBundle(x) : o[id] = x.objects[id]
  /\ \A id \in N :
       o[id] \in DOMAIN heap' /\ o[id][1] = e /\ o[id][2] = id /\ Fitting(x, o[id])'

LEMMA AssembleParts ==
  ASSUME HeapOK, NEW e \in Exports, Assemble(e), NEW x \in States, x = export[e], x.options.domain \in STRING,
         NEW N, N = {f.id : f \in Strategies(x)},
         NEW o, o = [id \in InBundle(x) \cup N |-> IF id \in N THEN Address(e, id) ELSE x.objects[id]]
  PROVE  StrategiesRead(e, x, N, o)
  <1>1. PICK found : found = Strategies(x)
    OBVIOUS
  <1>2. PICK docs :
          docs = [a \in {Address(e, id) : id \in N} |->
                   [id |-> a[2], version |-> Found(found, a[2]).version, domains |-> {x.options.domain}]]
    OBVIOUS
  <1>3. heap' = With(docs)
    BY <1>1, <1>2 DEF Assemble
  <1>4. N \in SUBSET Stored /\ \A id \in N : id \in Ids /\ id \in Stored /\ id \notin InBundle(x)
    BY FoundParts
  <1>5. \A id \in N : /\ Address(e, id) \in Addresses /\ Address(e, id) \notin DOMAIN heap
                      /\ Address(e, id)[1] = e /\ Address(e, id)[2] = id
    BY <1>4, AddressParts
  <1>6. DOMAIN docs = {Address(e, id) : id \in N}
    BY <1>2
  <1>7. ASSUME NEW a \in DOMAIN docs
        PROVE  /\ a[2] \in N /\ docs[a] \in Copies /\ docs[a].id = a[2]
               /\ docs[a].version \in DOMAIN Db[a[2]]
               /\ Db[a[2]][docs[a].version].type = "x-mitre-detection-strategy"
               /\ Latest(a[2]).type = "x-mitre-detection-strategy"
               /\ Fit(Db[a[2]][docs[a].version], Db[a[2]][docs[a].version].domains, x.options)
    <2>1. PICK id \in N : a = Address(e, id)
      BY <1>6
    <2>2. a[2] = id /\ id \in {f.id : f \in Strategies(x)}
      BY <1>5, <2>1
    <2>3. PICK v : v = Found(Strategies(x), id).version
      OBVIOUS
    <2>4. docs[a] = [id |-> id, version |-> v, domains |-> {x.options.domain}]
      BY <1>1, <1>2, <1>6, <2>2, <2>3
    <2>5. /\ id \in Ids /\ v \in DOMAIN Db[id] /\ v \in Nat
          /\ Latest(id).type = "x-mitre-detection-strategy" /\ Db[id][v].type = Latest(id).type
          /\ Fit(Db[id][v], Db[id][v].domains, x.options)
      BY <2>2, <2>3, FoundParts
    <2>6. docs[a] \in Copies
      BY <2>4, <2>5 DEF Copies, DomainSets
    <2>7. docs[a].id = id /\ docs[a].version = v
      BY <2>4
    <2> QED
      BY <2>1, <2>2, <2>5, <2>6, <2>7
  <1>8. /\ HeapOK'
        /\ DOMAIN heap' = DOMAIN heap \cup DOMAIN docs
        /\ \A a \in DOMAIN heap : a \notin DOMAIN docs /\ heap'[a] = heap[a]
        /\ \A a \in DOMAIN docs : heap'[a] = docs[a] /\ a[1] = e /\ a[2] \in N
    <2>1. \A a \in DOMAIN docs : /\ docs[a] \in Copies /\ docs[a].id = a[2]
                                 /\ docs[a].version \in DOMAIN Db[a[2]]
      BY <1>7
    <2>2. PICK D : D = N
      OBVIOUS
    <2>3. D \in SUBSET Stored /\ DOMAIN docs = {Address(e, id) : id \in D}
      BY <1>4, <1>6, <2>2
    <2>4. /\ HeapOK'
          /\ DOMAIN heap' = DOMAIN heap \cup DOMAIN docs
          /\ \A a \in DOMAIN heap : a \notin DOMAIN docs /\ heap'[a] = heap[a]
          /\ \A a \in DOMAIN docs : heap'[a] = docs[a] /\ a[1] = e /\ a[2] \in D
      BY <1>3, <2>1, <2>3, WithParts
    <2> QED
      BY <2>2, <2>4
  <1>9. \A a \in DOMAIN docs : Doc(a)' = Db[a[2]][docs[a].version]
    BY <1>7, <1>8 DEF Doc
  <1>10. \A a \in DOMAIN docs : Fitting(x, a)' /\ Doc(a)'.type \notin DomainChecked
    BY <1>7, <1>8, <1>9 DEF Fitting, DomainChecked
  <1>11. /\ DOMAIN o = InBundle(x) \cup N
         /\ \A id \in N : o[id] = Address(e, id)
         /\ \A id \in InBundle(x) : o[id] = x.objects[id]
    BY <1>4
  <1>12. o \in Maps(Addresses)
    <2>1. PICK f : f = x.objects
      OBVIOUS
    <2>2. f \in Maps(Addresses)
      BY <2>1 DEF States
    <2>3. DOMAIN f \subseteq Ids /\ f \in [DOMAIN f -> Addresses]
      BY <2>2, MapParts
    <2>4. \A id \in InBundle(x) : id \in Ids /\ x.objects[id] \in Addresses
      BY <2>1, <2>3 DEF InBundle
    <2>5. o \in [InBundle(x) \cup N -> Addresses] /\ InBundle(x) \cup N \in SUBSET Ids
      BY <1>4, <1>5, <2>4
    <2> QED
      BY <2>5 DEF Maps
  <1>13. \A id \in N : o[id] \in DOMAIN docs /\ o[id][1] = e /\ o[id][2] = id
    BY <1>5, <1>6, <1>11
  <1>14. \A id \in N : Fitting(x, o[id])'
    BY <1>10, <1>13
  <1>15. \A a \in DOMAIN heap' :
           a \notin DOMAIN heap =>
             /\ a[1] = e /\ Latest(a[2]).type = "x-mitre-detection-strategy"
             /\ Doc(a)'.type \notin DomainChecked
    BY <1>7, <1>8, <1>10
  <1> QED
    BY <1>8, <1>11, <1>12, <1>13, <1>14, <1>15 DEF StrategiesRead

LEMMA ContextIds ==
  ASSUME NEW S \in SUBSET Stored
  PROVE  SetToSeq(Referenced(S)) \in Seq(Ids)
  <1>1. PICK R : R = Referenced(S)
    OBVIOUS
  <1>2. \A id \in S : Latest(id).context \subseteq Ids
    BY StoredParts DEF StoredDocument
  <1>3. R \in SUBSET Ids
    BY <1>1, <1>2 DEF Referenced
  <1>4. SetToSeq(R) \in Seq(R)
    BY <1>3, ListOfSet
  <1> QED
    BY <1>1, <1>3, <1>4

\* The domains kept of the strategies that are added.
LEMMA KeepStoredParts ==
  ASSUME ExportTypeOK, NEW e \in Exports, Svc(e) \in BOOLEAN, NEW x, KeepStored(e, Strategies(x))
  PROVE  /\ domainCache' \in [BOOLEAN -> [Ids -> DomainSets]]
         /\ \A s \in BOOLEAN : s # Svc(e) => domainCache'[s] = domainCache[s]
  <1>1. PICK c :
          c = [id \in Ids |->
                IF /\ id \in {f.id : f \in Strategies(x)}
                   /\ Db[id][Found(Strategies(x), id).version].domains # Null
                THEN Db[id][Found(Strategies(x), id).version].domains ELSE domainCache[Svc(e)][id]]
    OBVIOUS
  <1>2. domainCache' = [domainCache EXCEPT ![Svc(e)] = c]
    BY <1>1 DEF KeepStored
  <1>3. domainCache \in [BOOLEAN -> [Ids -> DomainSets]]
    BY DEF ExportTypeOK
  <1>4. \A id \in {f.id : f \in Strategies(x)} :
          Db[id][Found(Strategies(x), id).version].domains \in DomainSets
    BY FoundParts
  <1>5. c \in [Ids -> DomainSets]
    BY <1>1, <1>3, <1>4
  <1> QED
    BY <1>2, <1>3, <1>5

LEMMA AssembleStep ==
  ASSUME ExportInv, NEW e \in Exports, Assemble(e)
  PROVE  Upheld(e)
  <1>0. PICK x : x = export[e]
    OBVIOUS
  <1>1. PICK N : N = {f.id : f \in Strategies(x)}
    OBVIOUS
  <1>2. PICK o : o = [id \in InBundle(x) \cup N |-> IF id \in N THEN Address(e, id) ELSE x.objects[id]]
    OBVIOUS
  <1>3. PICK R, notes, w :
          /\ R = {q \in Range(all[Svc(e)]) : Bundled(q, InBundle(x) \cup N, x.options)}
          /\ notes = IF x.options.includeNotes THEN NotesAbout(InBundle(x) \cup N) ELSE {}
          /\ w = SetToSeq(Referenced((InBundle(x) \cup N) \cup notes))
    OBVIOUS
  <1>4. PICK y : y = [x EXCEPT !.step = "context", !.objects = o, !.rels = R, !.context = notes, !.work = w]
    OBVIOUS
  <1>5. /\ x.step = "further" /\ x.work = <<>>
        /\ export' = [export EXCEPT ![e] = y]
        /\ KeepStored(e, Strategies(x))
        /\ cache' = cache /\ all' = all /\ overlapped' = overlapped
    BY <1>0, <1>1, <1>2, <1>3, <1>4 DEF Assemble
  <1>6. /\ x \in States /\ Sound(e) /\ ExportTypeOK /\ HeapOK /\ CacheOK /\ ReadOK
        /\ \A id \in InBundle(x) :
             /\ id \in Stored /\ x.objects[id] \in DOMAIN heap /\ x.objects[id][2] = id
             /\ Fitting(x, x.objects[id]) /\ Shared(e, x.objects[id])
    BY <1>0, BundleParts DEF ExportInv, ExportTypeOK
  <1>7. /\ x.asked = Null /\ x.targets = Null /\ x.domains = {} /\ x.unfit = FALSE
        /\ x.options \in Options[e] /\ x.options.domain \in STRING /\ Active(e) /\ Svc(e) \in BOOLEAN
    <2>1. x.asked = Null /\ x.targets = Null /\ x.options \in Options[e]
      BY <1>0, <1>5, <1>6 DEF Sound, WellFormed, Deriving
    <2>2. x.domains = {}
      BY <1>0, <1>6, <2>1 DEF Sound, WellFormed
    <2>3. x.unfit = FALSE
      BY <1>0, <1>5, <1>6 DEF Sound, Connected, States
    <2>4. Svc(e) \in BOOLEAN /\ x.options.domain \in STRING
      BY <1>0, <1>5, <1>6, RequestParts DEF Sound
    <2> QED
      BY <1>0, <1>5, <2>1, <2>2, <2>3, <2>4 DEF Active, Stages
  <1>8. StrategiesRead(e, x, N, o)
    BY <1>0, <1>1, <1>2, <1>6, <1>7, AssembleParts
  <1>9. N \in SUBSET Stored /\ \A id \in N : id \notin InBundle(x)
    BY <1>1, FoundParts
  <1>10. R \subseteq Relation /\ R \subseteq OfOrders
    <2>1. all[Svc(e)] \in Seq(Relation)
      BY <1>6, <1>7 DEF ExportTypeOK
    <2>2. Range(all[Svc(e)]) \subseteq Relation
      BY <2>1 DEF Range
    <2>3. Range(all[Svc(e)]) \subseteq OfOrders
      BY <1>6, <1>7 DEF ReadOK
    <2> QED
      BY <1>3, <2>2, <2>3
  <1>11. notes \in SUBSET Stored /\ notes \in SUBSET Ids /\ w \in Seq(Ids)
    <2>1. notes \in SUBSET Stored
      BY <1>3 DEF NotesAbout
    <2>2. notes \in SUBSET Ids
      BY <2>1, StoredParts
    <2>3. (InBundle(x) \cup N) \cup notes \in SUBSET Stored
      BY <1>6, <1>9, <2>1
    <2> QED
      BY <1>3, <2>1, <2>2, <2>3, ContextIds
  <1>12. /\ y \in States /\ y.step = "context" /\ y.options = x.options /\ y.objects = o
         /\ y.work = w /\ y.asked = Null /\ y.held = x.held /\ y.unfit = FALSE
         /\ y.targets = Null /\ y.domains = {} /\ y.rels = R /\ y.sources = x.sources
         /\ y.derived = x.derived
    <2>1. o \in Maps(Addresses) /\ "context" \in Stages /\ w \in Seq(Relation) \cup Seq(Ids)
      BY <1>8, <1>11 DEF StrategiesRead, Stages
    <2>2. /\ y \in States /\ y.step = "context" /\ y.options = x.options /\ y.objects = o
          /\ y.work = w /\ y.asked = x.asked /\ y.held = x.held /\ y.unfit = x.unfit
          /\ y.targets = x.targets /\ y.domains = x.domains /\ y.rels = R /\ y.sources = x.sources
          /\ y.derived = x.derived
      BY <1>4, <1>6, <1>10, <1>11, <2>1 DEF States
    <2> QED
      BY <1>7, <2>2
  <1>13. /\ InBundle(y) = InBundle(x) \cup N
         /\ \A id \in InBundle(x) : y.objects[id] = x.objects[id]
    BY <1>8, <1>12 DEF InBundle, StrategiesRead
  <1>14. export'[e] = y /\ \A f \in Exports : f # e => export'[f] = export[f]
    BY <1>5, <1>6 DEF ExportTypeOK
  <1>15. Svc(e)' = Svc(e)
    BY <1>0, <1>12, <1>14 DEF Svc
  <1>16. /\ domainCache' \in [BOOLEAN -> [Ids -> DomainSets]]
         /\ \A s \in BOOLEAN : s # Svc(e) => domainCache'[s] = domainCache[s]
    BY <1>5, <1>6, <1>7, KeepStoredParts
  <1>17. ExportTypeOK' /\ ReadOK'
    <2>1. export' \in [Exports -> States]
      BY <1>5, <1>6, <1>12 DEF ExportTypeOK
    <2> QED
      BY <1>5, <1>6, <1>8, <1>16, <2>1 DEF ExportTypeOK, ReadOK, StrategiesRead
  <1>18. StepOf(e)
    <2>1. HeapStep(e)
      BY <1>8 DEF HeapStep, StrategiesRead
    <2>2. FieldStep(e)
      BY <1>5, <1>16 DEF FieldStep
    <2> QED
      BY <1>0, <1>5, <1>7, <1>12, <1>14, <2>1, <2>2 DEF StepOf
  <1>19. \A b : Shared(e, b)' <=> Shared(e, b)
    BY <1>5 DEF Shared
  <1>20. \A b \in DOMAIN heap : Fitting(x, b)' <=> Fitting(x, b)
    BY <1>6, <1>17, <1>18, DocStays DEF ExportTypeOK, StepOf
  <1>21. WellFormed(e)'
    <2>1. \A i \in DOMAIN x.held : IF x.held[i] = Null THEN i \notin Stored ELSE LatestAt(x.held[i], i)'
      <3>1. \A i \in DOMAIN x.held : IF x.held[i] = Null THEN i \notin Stored ELSE LatestAt(x.held[i], i)
        BY <1>0, <1>6 DEF Sound, WellFormed
      <3>2. \A b, i : LatestAt(b, i) => LatestAt(b, i)'
        BY <1>8 DEF LatestAt, StrategiesRead
      <3> QED
        BY <3>1, <3>2
    <2>2. \A id \in InBundle(y) : y.objects[id] \in DOMAIN heap' /\ y.objects[id][2] = id
      BY <1>6, <1>8, <1>12, <1>13 DEF StrategiesRead
    <2> QED
      BY <1>7, <1>11, <1>12, <1>14, <2>1, <2>2 DEF WellFormed
  <1>22. FitBundle(e)'
    <2>1. \A b : Fitting(y, b)' <=> Fitting(x, b)'
      BY <1>12 DEF Fitting
    <2>2. ASSUME NEW id \in InBundle(y)
          PROVE  Fitting(x, y.objects[id])'
      <3>1. CASE id \in InBundle(x)
        <4>1. PICK b \in DOMAIN heap : b = x.objects[id] /\ Fitting(x, b)
          BY <1>6, <3>1
        <4>2. Fitting(x, b)'
          BY <1>20, <4>1
        <4>3. b = o[id] /\ o[id] = y.objects[id]
          BY <1>8, <1>12, <3>1, <4>1 DEF StrategiesRead
        <4> QED
          BY <4>2, <4>3
      <3>2. CASE id \in N
        BY <1>8, <1>12, <3>2 DEF StrategiesRead
      <3> QED
        BY <1>13, <2>2, <3>1, <3>2
    <2> QED
      BY <1>14, <2>1, <2>2 DEF FitBundle
  <1>23. Private(e)'
    <2>1. \A id \in InBundle(y) : Shared(e, y.objects[id])
      BY <1>6, <1>8, <1>12, <1>13 DEF StrategiesRead, Shared
    <2>2. /\ \A i \in DOMAIN x.held : x.held[i] # Null => Shared(e, x.held[i])
          /\ \A i \in Ids : cache[Svc(e)][i] # Null => Shared(e, cache[Svc(e)][i])
      BY <1>0, <1>6, <1>7 DEF Sound, Private
    <2> QED
      BY <1>5, <1>12, <1>14, <1>15, <1>19, <2>1, <2>2 DEF Private
  <1>24. Deriving(e)' /\ Collecting(e)' /\ Changed(e)' /\ Listing(e)'
    BY <1>12, <1>14 DEF Deriving, Collecting, Changed, Listing
  <1>25. Connected(e)' /\ Recording(e)' /\ Sourcing(e)'
    <2>1. Retains(export[e], export'[e])
      BY <1>0, <1>12, <1>13, <1>14 DEF Retains
    <2> QED
      BY <1>0, <1>5, <1>6, <1>12, <1>14, <2>1, GatheredGoesOn DEF Sound
  <1>26. Relating(e)'
    <2>1. \A q \in R : q \in OfOrders /\ relationshipIsActive(q) /\ EndsOf(q) \subseteq InBundle(y)
      BY <1>3, <1>10, <1>13 DEF Bundled, EndsOf
    <2> QED
      BY <1>12, <1>14, <2>1 DEF Relating
  <1>27. Own(e)'
    BY <1>0, <1>5, <1>6, <1>12, <1>14, <1>15 DEF Sound, Own, Reading
  <1>28. Settling(e)'
    <2> SUFFICES ASSUME e \notin overlapped, NEW q \in Read(x.options)
                 PROVE  Settled(y, q)
      BY <1>5, <1>12, <1>14 DEF Settling
    <2>1. q \in Range(x.work) \/ Settled(x, q)
      BY <1>0, <1>5, <1>6 DEF Sound, Settling
    <2>2. Range(x.work) = {}
      BY <1>5 DEF Range
    <2> QED
      BY <1>12, <1>13, <2>1, <2>2 DEF Settled
  <1>29. Domained(e)'
    <2> SUFFICES ASSUME e \notin overlapped, NEW id \in InBundle(y), id \in Secondary(x.options),
                        Latest(id).type \in {"intrusion-set", "campaign"}, Known(id, x.options)
                 PROVE  heap'[y.objects[id]].domains = Collected(id, x.options)
      BY <1>5, <1>12, <1>14 DEF Domained
    <2>1. Gathered(x)
      BY <1>5 DEF Gathered
    <2>2. id \in InBundle(x)
      BY <1>0, <1>6, <2>1, Based DEF Sound
    <2>3. y.objects[id] = x.objects[id] /\ heap'[x.objects[id]] = heap[x.objects[id]]
      BY <1>6, <1>8, <1>13, <2>2 DEF StrategiesRead
    <2>4. heap[x.objects[id]].domains = Collected(id, x.options)
      BY <1>0, <1>6, <2>1, <2>2 DEF Sound, Domained
    <2> QED
      BY <2>3, <2>4
  <1> QED
    BY <1>17, <1>18, <1>21, <1>22, <1>23, <1>24, <1>25, <1>26, <1>27, <1>28, <1>29 DEF Upheld, Sound
-----------------------------------------------------------------------------
(***************************************************************************)
(* An export that begins, and the invariant.                               *)
(***************************************************************************)
\* Nothing is read yet.
Blank(y) ==
  /\ y \in States /\ y.asked = Null /\ y.work = <<>> /\ y.unfit = FALSE /\ y.targets = Null
  /\ y.domains = {} /\ y.rels = {} /\ InBundle(y) = {} /\ DOMAIN y.held = {}

LEMMA BlankParts ==
  /\ Blank(NotBegun) /\ NotBegun.step = "idle"
  /\ \A options \in AllOptions :
       LET y == [NotBegun EXCEPT !.step = "primaries", !.options = options]
       IN  Blank(y) /\ y.step = "primaries" /\ y.options = options
  <1>1. /\ <<>> \in Maps(Addresses) /\ <<>> \in Maps(Addresses \cup {Null}) /\ <<>> \in Seq(Ids)
        /\ DOMAIN <<>> = {}
    BY EmptyMap
  <1>2. Blank(NotBegun) /\ NotBegun.step = "idle"
    BY <1>1 DEF NotBegun, Blank, States, InBundle
  <1>3. ASSUME NEW options \in AllOptions, NEW y, y = [NotBegun EXCEPT !.step = "primaries", !.options = options]
        PROVE  Blank(y) /\ y.step = "primaries" /\ y.options = options
    <2>1. "primaries" \in Stages
      BY DEF Stages
    <2> QED
      BY <1>1, <1>3, <2>1 DEF NotBegun, Blank, States, InBundle
  <1> QED
    BY <1>2, <1>3

\* A state in which nothing is read is sound.
LEMMA BlankSound ==
  ASSUME NEW e \in Exports, Blank(export[e]),
         \/ export[e].step = "idle"
         \/ /\ export[e].step = "primaries" /\ export[e].options \in Options[e]
            /\ \A id \in Ids : cache[Svc(e)][id] = Null /\ domainCache[Svc(e)][id] = Null
  PROVE  Sound(e)
  <1>0. PICK x : x = export[e]
    OBVIOUS
  <1>1. /\ x.asked = Null /\ x.work = <<>> /\ x.unfit = FALSE /\ x.targets = Null
        /\ x.domains = {} /\ x.rels = {} /\ InBundle(x) = {} /\ DOMAIN x.held = {}
    BY <1>0 DEF Blank
  <1>2. x.step = "idle" \/ (x.step = "primaries" /\ x.options \in Options[e])
    BY <1>0
  <1>3. WellFormed(e)
    BY <1>0, <1>1, <1>2 DEF WellFormed
  <1>4. Deriving(e) /\ FitBundle(e) /\ Relating(e) /\ Collecting(e) /\ Domained(e)
    BY <1>0, <1>1 DEF Deriving, FitBundle, Relating, Collecting, Domained
  <1>5. ~Gathered(x) /\ ~Concluded(x) /\ x.step \notin Reading
    BY <1>2 DEF Gathered, Concluded, Reading
  <1>6. Connected(e) /\ Recording(e) /\ Sourcing(e)
    BY <1>0, <1>1, <1>2, <1>5 DEF Connected, Recording, Sourcing
  <1>7. Own(e) /\ Settling(e) /\ Listing(e)
    BY <1>0, <1>2, <1>5 DEF Own, Settling, Listing
  <1>8. x.step = "primaries" => \A id \in Ids : cache[Svc(e)][id] = Null /\ domainCache[Svc(e)][id] = Null
    BY <1>0
  <1>9. Private(e)
    BY <1>0, <1>1, <1>2, <1>8 DEF Private, Active, Stages
  <1>10. Changed(e)
    <2>1. \A id \in Stored : id \in Ids
      BY StoredParts
    <2> QED
      BY <1>0, <1>1, <1>2, <1>8, <2>1 DEF Changed
  <1> QED
    BY <1>3, <1>4, <1>6, <1>7, <1>9, <1>10 DEF Sound

LEMMA ExportBegins ==
  ASSUME ExportInit
  PROVE  ExportInv
  <1> USE DEF ExportInit
  <1>1. ExportTypeOK
    <2>1. HeapOK
      <3>1. DOMAIN heap = {}
        BY EmptyMap
      <3> QED
        BY <3>1, FS_EmptySet DEF HeapOK
    <2>2. export \in [Exports -> States]
      BY BlankParts DEF Blank
    <2>3. \A s \in BOOLEAN : <<>> \in Seq(Relation)
      OBVIOUS
    <2> QED
      BY <2>1, <2>2, <2>3 DEF ExportTypeOK, Services, DomainSets
  <1>2. Faithful /\ CacheOK /\ ReadOK
    <2>1. DOMAIN heap = {} /\ Range(<<>>) = {}
      BY EmptyMap DEF Range
    <2> QED
      BY <2>1 DEF Faithful, CacheOK, ReadOK, Services
  <1>3. Pairs
    BY BlankParts DEF Pairs, Together, Active, Stages
  <1>4. \A e \in Exports : Sound(e)
    BY BlankParts, BlankSound
  <1> QED
    BY <1>1, <1>2, <1>3, <1>4 DEF ExportInv

LEMMA BeginExportStep ==
  ASSUME ExportInv, NEW e \in Exports, NEW o \in Options[e], export[e].step = "idle", BeginExport(e, o)
  PROVE  ExportInv'
  <1>1. PICK y : y = [NotBegun EXCEPT !.step = "primaries", !.options = o]
    OBVIOUS
  <1>2. /\ cache' = [cache EXCEPT ![o.legacy] = [id \in Ids |-> Null]]
        /\ domainCache' = [domainCache EXCEPT ![o.legacy] = [id \in Ids |-> Null]]
        /\ export' = [export EXCEPT ![e] = y]
        /\ overlapped' = overlapped \cup IF Running(o.legacy) = {} THEN {}
                                         ELSE Running(o.legacy) \cup {e}
        /\ heap' = heap /\ all' = all
    BY <1>1 DEF BeginExport
  <1>3. ExportTypeOK /\ HeapOK /\ CacheOK /\ Faithful /\ ReadOK /\ Pairs
    BY DEF ExportInv, ExportTypeOK
  <1>4. o \in AllOptions /\ o.legacy \in BOOLEAN
    BY OptionsAssumption DEF AllOptions
  <1>5. Blank(y) /\ y \in States /\ y.step = "primaries" /\ y.options = o
    BY <1>1, <1>4, BlankParts DEF Blank
  <1>6. export'[e] = y /\ \A f \in Exports : f # e => export'[f] = export[f]
    BY <1>2, <1>3 DEF ExportTypeOK
  <1>7. /\ \A id \in Ids : cache'[o.legacy][id] = Null /\ domainCache'[o.legacy][id] = Null
        /\ \A s \in BOOLEAN : s # o.legacy => cache'[s] = cache[s] /\ domainCache'[s] = domainCache[s]
        /\ cache' \in [BOOLEAN -> [Ids -> Addresses \cup {Null}]]
        /\ domainCache' \in [BOOLEAN -> [Ids -> DomainSets]]
    BY <1>2, <1>3, <1>4 DEF ExportTypeOK, DomainSets
  <1>8. overlapped \subseteq overlapped' /\ overlapped' \subseteq Exports
    BY <1>2, <1>3 DEF ExportTypeOK, Running
  <1>9. \A f \in Exports : Active(f) /\ Svc(f) = o.legacy => f \in overlapped' /\ e \in overlapped'
    BY <1>2 DEF Running, Active
  <1>10. ExportTypeOK' /\ ReadOK' /\ Faithful' /\ CacheOK'
    <2>1. export' \in [Exports -> States]
      BY <1>2, <1>3, <1>5 DEF ExportTypeOK
    <2>2. HeapOK' /\ ReadOK' /\ Faithful'
      BY <1>2, <1>3 DEF HeapOK, ReadBy, ReadOK, Faithful, Doc
    <2>3. ExportTypeOK'
      BY <1>2, <1>3, <1>7, <1>8, <2>1, <2>2 DEF ExportTypeOK
    <2>4. CacheOK'
      <3> SUFFICES ASSUME NEW s \in BOOLEAN, NEW id \in Ids, cache'[s][id] # Null
                   PROVE  LatestAt(cache[s][id], id)'
        BY DEF CacheOK
      <3>1. s # o.legacy /\ cache'[s][id] = cache[s][id]
        BY <1>7
      <3>2. PICK a : a = cache[s][id]
        OBVIOUS
      <3>3. LatestAt(a, id)
        BY <1>3, <3>1, <3>2 DEF CacheOK
      <3>4. a \in DOMAIN heap' /\ a[2] = id /\ heap'[a].version = Len(Db[id]) /\ a = cache'[s][id]
        BY <1>2, <3>1, <3>2, <3>3 DEF LatestAt
      <3> QED
        BY <3>4 DEF LatestAt
    <2> QED
      BY <2>2, <2>3, <2>4
  <1>11. \A f \in Exports : f # e => (Active(f)' <=> Active(f)) /\ Svc(f)' = Svc(f)
    BY <1>6 DEF Active, Svc
  <1>12. Svc(e)' = o.legacy
    BY <1>5, <1>6 DEF Svc
  <1>13. Pairs'
    <2> SUFFICES ASSUME NEW f \in Exports, NEW g \in Exports, Together(f, g)'
                 PROVE  f \in overlapped' /\ g \in overlapped'
      BY DEF Pairs
    <2>1. f # g /\ Active(f)' /\ Active(g)' /\ Svc(f)' = Svc(g)'
      BY DEF Together
    <2>2. CASE f # e /\ g # e
      <3>1. Together(f, g)
        BY <1>11, <2>1, <2>2 DEF Together
      <3> QED
        BY <1>3, <1>8, <3>1 DEF Pairs
    <2>3. CASE f = e
      BY <1>9, <1>11, <1>12, <2>1, <2>3
    <2>4. CASE g = e
      BY <1>9, <1>11, <1>12, <2>1, <2>4
    <2> QED
      BY <2>2, <2>3, <2>4
  <1>14. Sound(e)'
    <2>1. /\ y.asked = Null /\ y.work = <<>> /\ y.unfit = FALSE /\ y.targets = Null
          /\ y.domains = {} /\ y.rels = {} /\ InBundle(y) = {} /\ DOMAIN y.held = {}
          /\ y.step = "primaries" /\ y.options \in Options[e]
      BY <1>5 DEF Blank
    <2>2. WellFormed(e)'
      BY <1>6, <2>1 DEF WellFormed
    <2>3. Deriving(e)' /\ FitBundle(e)' /\ Relating(e)' /\ Collecting(e)' /\ Domained(e)'
      BY <1>6, <2>1 DEF Deriving, FitBundle, Relating, Collecting, Domained
    <2>4. ~Gathered(y) /\ ~Concluded(y) /\ y.step \notin Reading
      BY <2>1 DEF Gathered, Concluded, Reading
    <2>5. Connected(e)' /\ Recording(e)' /\ Sourcing(e)'
      BY <1>6, <2>1, <2>4 DEF Connected, Recording, Sourcing
    <2>6. Own(e)' /\ Settling(e)' /\ Listing(e)'
      BY <1>6, <2>1, <2>4 DEF Own, Settling, Listing
    <2>7. Private(e)'
      BY <1>6, <1>7, <1>12, <2>1 DEF Private
    <2>8. Changed(e)'
      <3>1. \A id \in Stored : id \in Ids
        BY StoredParts
      <3> QED
        BY <1>6, <1>7, <1>12, <2>1, <3>1 DEF Changed
    <2> QED
      BY <2>2, <2>3, <2>5, <2>6, <2>7, <2>8 DEF Sound
  <1>15. ASSUME NEW f \in Exports, f # e
         PROVE  Sound(f)'
    <2>0. PICK x : x = export[f]
      OBVIOUS
    <2>1. Sound(f) /\ export'[f] = x /\ Svc(f)' = Svc(f)
      BY <1>6, <1>11, <1>15, <2>0 DEF ExportInv
    <2>2. \A a, i, z : /\ LatestAt(a, i)' <=> LatestAt(a, i)
                       /\ Fitting(z, a)' <=> Fitting(z, a)
                       /\ OfGroup(a)' <=> OfGroup(a)
                       /\ Shared(f, a) => Shared(f, a)'
      BY <1>2, <1>8 DEF LatestAt, Fitting, OfGroup, Doc, Shared
    <2>3. WellFormed(f)' /\ FitBundle(f)'
      <3>1. FitBundle(f)'
        BY <1>2, <2>0, <2>1, <2>2 DEF Sound, FitBundle
      <3>2. WellFormed(f)
        BY <2>1 DEF Sound
      <3>3. \A a, i : LatestAt(a, i)' <=> LatestAt(a, i)
        BY <1>2 DEF LatestAt
      <3>4. \A i \in DOMAIN x.held : IF x.held[i] = Null THEN i \notin Stored ELSE LatestAt(x.held[i], i)'
        BY <2>0, <3>2, <3>3 DEF WellFormed
      <3>5. WellFormed(f)'
        BY <1>2, <2>0, <2>1, <3>2, <3>4 DEF WellFormed
      <3> QED
        BY <3>1, <3>5
    <2>4. Deriving(f)'
      <3> DEFINE c == OtherEnd(x, Head(x.work))
      <3>1. x.targets # Null =>
              /\ x.step = "secondary" /\ x.work # <<>> /\ Missing(x, Head(x.work))
              /\ c \in DOMAIN x.held /\ Fitting(x, x.held[c]) /\ OfGroup(x.held[c])
        BY <2>0, <2>1 DEF Sound, Deriving
      <3>2. PICK a : a = x.held[c]
        OBVIOUS
      <3>3. x.targets # Null => Fitting(x, a)' /\ OfGroup(a)'
        BY <2>2, <3>1, <3>2
      <3> QED
        BY <2>1, <3>1, <3>2, <3>3 DEF Deriving
    <2>5. Connected(f)' /\ Recording(f)' /\ Sourcing(f)' /\ Relating(f)'
      BY <2>0, <2>1 DEF Sound, Connected, Recording, Sourcing, Relating
    <2>6. Own(f)' /\ Settling(f)' /\ Listing(f)'
      BY <1>2, <1>8, <2>0, <2>1 DEF Sound, Own, Settling, Listing
    <2>7. Domained(f)'
      BY <1>2, <1>8, <2>0, <2>1 DEF Sound, Domained
    <2>8. Active(f) => Svc(f) \in BOOLEAN
      BY <1>3, <2>1, RequestParts DEF Sound, Active, Stages
    <2>9. Active(f) /\ f \notin overlapped' =>
            cache'[Svc(f)] = cache[Svc(f)] /\ domainCache'[Svc(f)] = domainCache[Svc(f)]
      BY <1>7, <1>9, <2>8
    <2>10. Private(f)'
      <3>1. /\ \A id \in InBundle(x) : Shared(f, x.objects[id])
            /\ \A id \in DOMAIN x.held : x.held[id] # Null => Shared(f, x.held[id])
            /\ Active(f) => \A id \in Ids : cache[Svc(f)][id] # Null => Shared(f, cache[Svc(f)][id])
        BY <2>0, <2>1 DEF Sound, Private
      <3>2. ASSUME Active(f), NEW id \in Ids, cache'[Svc(f)][id] # Null
            PROVE  cache'[Svc(f)][id] = cache[Svc(f)][id]
        BY <1>7, <2>8, <3>2
      <3>3. \A a : Shared(f, a) => Shared(f, a)'
        BY <2>2
      <3>4. Active(f) => \A id \in Ids : cache'[Svc(f)][id] # Null => Shared(f, cache[Svc(f)][id])
        BY <3>1, <3>2
      <3>5. ASSUME Active(f), NEW id \in Ids, cache'[Svc(f)][id] # Null
            PROVE  Shared(f, cache[Svc(f)][id])'
        <4>1. PICK a : a = cache[Svc(f)][id]
          OBVIOUS
        <4>2. Shared(f, a)' /\ a = cache'[Svc(f)][id]
          BY <3>2, <3>3, <3>4, <3>5, <4>1
        <4> QED
          BY <2>1, <4>2
      <3> QED
        BY <1>11, <1>15, <2>1, <3>1, <3>3, <3>5 DEF Private
    <2>11. Changed(f)'
      <3> SUFFICES ASSUME f \notin overlapped', x.step \in {"primaries", "relationships", "secondary"}
                   PROVE  Changed(f)'
        BY <2>1 DEF Changed
      <3>1. Active(f)
        BY <2>0 DEF Active, Stages
      <3>2. Changed(f) /\ f \notin overlapped
        BY <1>8, <2>1 DEF Sound
      <3> QED
        BY <1>2, <2>0, <2>1, <2>9, <3>1, <3>2 DEF Changed
    <2>12. Collecting(f)'
      <3> SUFFICES ASSUME f \notin overlapped', x.targets # Null
                   PROVE  Collecting(f)'
        BY <2>1 DEF Collecting
      <3>1. Active(f)
        BY <2>0, <2>1 DEF Sound, Deriving, Active, Stages
      <3>2. Collecting(f) /\ f \notin overlapped
        BY <1>8, <2>1 DEF Sound
      <3> QED
        BY <2>0, <2>1, <2>9, <3>1, <3>2 DEF Collecting
    <2> QED
      BY <2>3, <2>4, <2>5, <2>6, <2>7, <2>10, <2>11, <2>12 DEF Sound
  <1> QED
    BY <1>10, <1>13, <1>14, <1>15 DEF ExportInv

LEMMA ProcessStep ==
  ASSUME ExportInv, NEW e \in Exports, Process(e)
  PROVE  Upheld(e)
  <1>1. CASE Primaries(e)
    BY <1>1, PrimariesStep
  <1>2. CASE Relationships(e)
    BY <1>2, RelationshipsStep
  <1>3. CASE GetAttackObject(e)
    BY <1>3, GetAttackObjectStep
  <1>4. CASE Answer(e)
    BY <1>4, AnswerStep
  <1>5. CASE AddSecondary(e)
    BY <1>5, AddSecondaryStep
  <1>6. CASE BeginDomains(e)
    BY <1>6, BeginDomainsStep
  <1>7. CASE CollectDomains(e)
    BY <1>7, CollectDomainsStep
  <1>8. CASE AddGroup(e)
    BY <1>8, AddGroupStep
  <1>9. CASE RecordDetection(e)
    BY <1>9, RecordDetectionStep
  <1>10. CASE EndSecondary(e)
    BY <1>10, EndSecondaryStep
  <1>11. CASE AddSource(e)
    BY <1>11, AddSourceStep
  <1>12. CASE FailSources(e)
    BY <1>12, FailSourcesStep
  <1>13. CASE EndSources(e)
    BY <1>13, EndSourcesStep
  <1>14. CASE PassFurther(e)
    BY <1>14, PassFurtherStep
  <1>15. CASE FailFurther(e)
    BY <1>15, FailFurtherStep
  <1>16. CASE AddFurther(e)
    BY <1>16, AddFurtherStep
  <1>17. CASE Assemble(e)
    BY <1>17, AssembleStep
  <1>18. CASE AddContext(e)
    BY <1>18, AddContextStep
  <1>19. CASE Finish(e)
    BY <1>19, FinishStep
  <1> QED
    BY <1>1, <1>2, <1>3, <1>4, <1>5, <1>6, <1>7, <1>8, <1>9, <1>10, <1>11, <1>12, <1>13, <1>14,
       <1>15, <1>16, <1>17, <1>18, <1>19 DEF Process

\* The state of every export, what it has added and what it holds of the fields of its
\* service are as they must be, whatever else is exported at the time (exportBundle).
THEOREM ExportInvariance == ExportSpec => []ExportInv
  <1>1. ExportInit => ExportInv
    BY ExportBegins
  <1>2. ExportInv /\ [ExportNext]_exportvars => ExportInv'
    <2> SUFFICES ASSUME ExportInv, [ExportNext]_exportvars
                 PROVE  ExportInv'
      OBVIOUS
    <2>1. ASSUME NEW e \in Exports, Process(e)
          PROVE  ExportInv'
      <3>1. ExportTypeOK' /\ StepOf(e) /\ ReadOK' /\ Sound(e)'
        BY <2>1, ProcessStep DEF Upheld
      <3>2. ExportTypeOK /\ Faithful /\ CacheOK /\ Pairs /\ Sound(e)
        BY DEF ExportInv
      <3>3. Svc(e) \in BOOLEAN
        BY <3>1, <3>2, RequestParts DEF Sound, StepOf, Active, Stages
      <3>4. Faithful' /\ CacheOK' /\ Pairs'
        BY <3>1, <3>2, <3>3, GlobalStays
      <3>5. \A f \in Exports : f # e => Sound(f)'
        BY <3>1, OthersStay
      <3> QED
        BY <3>1, <3>4, <3>5 DEF ExportInv
    <2>2. ASSUME NEW e \in Exports, export[e].step = "idle", NEW o \in Options[e], BeginExport(e, o)
          PROVE  ExportInv'
      BY <2>2, BeginExportStep
    <2>3. CASE UNCHANGED exportvars
      <3>1. /\ heap' = heap /\ cache' = cache /\ domainCache' = domainCache /\ all' = all
            /\ export' = export /\ overlapped' = overlapped
        BY <2>3 DEF exportvars
      <3>2. ExportTypeOK' /\ Faithful' /\ CacheOK' /\ ReadOK' /\ Pairs'
        BY <3>1 DEF ExportInv, ExportTypeOK, HeapOK, ReadBy, Faithful, CacheOK, LatestAt, ReadOK, Pairs,
                    Together, Active, Svc, Doc
      <3>3. \A e \in Exports : Sound(e)'
        <4> SUFFICES ASSUME NEW e \in Exports
                     PROVE  Sound(e)'
          OBVIOUS
        <4>1. Sound(e)
          BY DEF ExportInv
        <4>2. WellFormed(e)' /\ Deriving(e)' /\ FitBundle(e)'
          BY <3>1, <4>1 DEF Sound, WellFormed, Deriving, FitBundle, Fitting, LatestAt, OfGroup, Doc
        <4>3. Connected(e)' /\ Recording(e)' /\ Sourcing(e)' /\ Relating(e)'
          BY <3>1, <4>1 DEF Sound, Connected, Recording, Sourcing, Relating
        <4>4. Own(e)' /\ Settling(e)' /\ Listing(e)'
          BY <3>1, <4>1 DEF Sound, Own, Settling, Listing, Svc
        <4>5. Private(e)' /\ Changed(e)' /\ Collecting(e)' /\ Domained(e)'
          BY <3>1, <4>1 DEF Sound, Private, Changed, Collecting, Domained, Shared, Svc, Active
        <4> QED
          BY <4>2, <4>3, <4>4, <4>5 DEF Sound
      <3> QED
        BY <3>2, <3>3 DEF ExportInv
    <2> QED
      BY <2>1, <2>2, <2>3 DEF ExportNext
  <1> QED
    BY <1>1, <1>2, PTL DEF ExportSpec

LEMMA ReturnedParts ==
  ASSUME ExportInv, NEW e \in Returned, NEW x, x = export[e]
  PROVE  /\ e \in Exports /\ x.step = "done" /\ x.objects # <<>> /\ x.options \in AllOptions
         /\ Gathered(x) /\ Concluded(x) /\ Sound(e) /\ HeapOK /\ Faithful
         /\ Secondary(x.options) \subseteq InBundle(x)
         /\ \A id \in InBundle(x) :
              /\ id \in Stored /\ x.objects[id] \in DOMAIN heap /\ x.objects[id][2] = id
              /\ Fitting(x, x.objects[id])
  <1>1. e \in Exports /\ x.step = "done" /\ x.objects # <<>>
    BY DEF Returned
  <1>2. Gathered(x) /\ Concluded(x) /\ Sound(e) /\ HeapOK /\ Faithful /\ ExportTypeOK
    BY <1>1 DEF Gathered, Concluded, ExportInv, ExportTypeOK
  <1>3. Secondary(x.options) \subseteq InBundle(x)
    BY <1>1, <1>2, Based DEF Sound
  <1>4. x.options \in AllOptions
    BY <1>1, <1>2, RequestParts DEF Sound
  <1>5. \A id \in InBundle(x) :
          /\ id \in Stored /\ x.objects[id] \in DOMAIN heap /\ x.objects[id][2] = id
          /\ Fitting(x, x.objects[id])
    BY <1>1, BundleParts
  <1> QED
    BY <1>1, <1>2, <1>3, <1>4, <1>5

\* No bundle holds an object that the options of its export leave out, although the
\* documents, and the domains other exports give them, are shared (OnlyWanted).
THEOREM OnlyWantedHolds == ExportSpec => []OnlyWanted
  <1>1. ExportInv => OnlyWanted
    <2> SUFFICES ASSUME ExportInv, NEW e \in Returned, NEW id \in InBundle(export[e])
                 PROVE  LET a == export[e].objects[id]
                        IN  heap[a].id = id /\ Fit(Doc(a), Doc(a).domains, export[e].options)
      BY DEF OnlyWanted
    <2>1. PICK x, a : x = export[e] /\ a = x.objects[id]
      OBVIOUS
    <2>2. HeapOK /\ a \in DOMAIN heap /\ a[2] = id /\ Fitting(x, a)
      BY <2>1, ReturnedParts
    <2>3. heap[a].id = id
      BY <2>2, AtHeap
    <2> QED
      BY <2>1, <2>2, <2>3 DEF Fitting
  <1> QED
    BY <1>1, ExportInvariance, PTL

\* The bundle of an export that overlapped none holds, in whatever order the
\* relationships were read, all that they require of it, and its collection lists
\* that but the markings (Complete).
THEOREM CompleteHolds == ExportSpec => []Complete
  <1>1. ExportInv => Complete
    <2> SUFFICES ASSUME ExportInv, NEW e \in Returned \ overlapped, NEW id \in RequiredWith[export[e].options]
                 PROVE  /\ id \in InBundle(export[e])
                        /\ Latest(id).type # "marking-definition" => id \in export[e].contents
      BY DEF Complete
    <2>1. PICK x, o : x = export[e] /\ o = x.options
      OBVIOUS
    <2>2. /\ e \in Exports /\ x.step = "done" /\ x.objects # <<>> /\ o \in AllOptions
          /\ Concluded(x) /\ Sound(e) /\ Secondary(o) \subseteq InBundle(x)
      BY <2>1, ReturnedParts
    <2>3. id \in Required(o)
      BY <2>1, <2>2 DEF RequiredWith
    <2>4. \A q \in Read(o) : Settled(x, q)
      BY <2>1, <2>2 DEF Sound, Settling
    <2>5. id \in InBundle(x)
      <3>1. CASE id \in Secondary(o)
        BY <2>2, <3>1
      <3>2. ASSUME NEW p \in Read(o), id = p.target, p.kind = "attributed-to", p.source \in Secondary(o),
                   ValidLatest(p.target, o), Latest(p.target).type = "intrusion-set"
            PROVE  id \in InBundle(x)
        BY <2>1, <2>4, <3>2 DEF Settled
      <3>3. ASSUME NEW p \in Read(o), id = p.source, p.target \in Secondary(o), ValidLatest(p.source, o),
                   \/ p.kind = "revoked-by"
                   \/ /\ p.kind = "detects" /\ ~o.legacy
                      /\ Latest(p.source).type = "x-mitre-detection-strategy"
            PROVE  id \in InBundle(x)
        BY <2>1, <2>4, <3>3 DEF Settled
      <3> QED
        BY <2>3, <3>1, <3>2, <3>3 DEF Required
    <2> QED
      BY <2>1, <2>2, <2>5 DEF Sound, Listing
  <1> QED
    BY <1>1, ExportInvariance, PTL

\* The domains of a group or campaign in such a bundle are those stored with what its
\* relationships lead to, whatever the export has changed before (DomainsAsStored).
THEOREM DomainsAsStoredHolds == ExportSpec => []DomainsAsStored
  <1>1. ExportInv => DomainsAsStored
    <2> SUFFICES ASSUME ExportInv, NEW e \in Returned \ overlapped, NEW id \in SecondaryWith[export[e].options],
                        Latest(id).type \in {"intrusion-set", "campaign"},
                        Known(id, export[e].options)
                 PROVE  heap[export[e].objects[id]].domains = Collected(id, export[e].options)
      BY DEF DomainsAsStored, Known, Collected, TargetsOf
    <2>1. PICK x, o : x = export[e] /\ o = x.options
      OBVIOUS
    <2>2. e \in Exports /\ o \in AllOptions /\ Gathered(x) /\ Sound(e) /\ Secondary(o) \subseteq InBundle(x)
      BY <2>1, ReturnedParts
    <2>3. id \in Secondary(o)
      BY <2>1, <2>2 DEF SecondaryWith
    <2> QED
      BY <2>1, <2>2, <2>3 DEF Sound, Domained
  <1> QED
    BY <1>1, ExportInvariance, PTL

LEMMA ReadActive ==
  ASSUME NEW q \in OfOrders, relationshipIsActive(q), NEW options
  PROVE  q \in Read(options)
  <1>1. PICK order \in Orders : q \in Range(order)
    BY DEF OfOrders
  <1>2. PICK W : W = {p \in Range(order) : Selected(p, options)}
    OBVIOUS
  <1>3. order \in Seq(Relation)
    BY OrdersAssumption
  <1>4. Range(Kept(order, W)) = Range(order) \cap W
    BY <1>3, EntriesKept
  <1>5. RetrieveAllForBundle(order, options) = Kept(order, W)
    BY <1>2 DEF RetrieveAllForBundle
  <1>6. Selected(q, options)
    BY DEF Selected, relationshipIsActive
  <1>7. q \in Range(RetrieveAllForBundle(order, options))
    BY <1>1, <1>2, <1>4, <1>5, <1>6
  <1> QED
    BY <1>7 DEF Read

\* The legacy export derives a data source for every data component that detects a
\* technique by a relationship of the bundle, so none is lost on the way from
\* addSecondaryObjects to addDerivedDataSources (DetectionsDerived).
THEOREM DetectionsDerivedHolds == ExportSpec => []DetectionsDerived
  <1>1. ExportInv => DetectionsDerived
    <2> SUFFICES ASSUME ExportInv, NEW e \in Returned, NEW q \in export[e].rels,
                        export[e].options.legacy, q.kind = "detects",
                        Latest(q.source).type = "x-mitre-data-component", DerivesFor(q.target)
                 PROVE  <<q.target, q.source>> \in export[e].derived
      BY DEF DetectionsDerived
    <2>1. PICK x, o : x = export[e] /\ o = x.options
      OBVIOUS
    <2>2. e \in Exports /\ Gathered(x) /\ Sound(e) /\ HeapOK /\ Faithful
      BY <2>1, ReturnedParts
    <2>3. q \in OfOrders /\ relationshipIsActive(q) /\ q.target \in InBundle(x)
      BY <2>1, <2>2 DEF Sound, Relating, EndsOf
    <2>4. q \in Read(o)
      BY <2>3, ReadActive
    <2>5. Latest(q.target).type = "attack-pattern"
      BY DEF DerivesFor
    <2>6. ValidLatest(q.target, o)
      <3>1. PICK a : a = x.objects[q.target] /\ a \in DOMAIN heap /\ a[2] = q.target /\ Fitting(x, a)
        BY <2>1, <2>3, ReturnedParts
      <3> QED
        BY <2>1, <2>2, <2>5, <3>1, WhatFits
    <2>7. q.target \in Primary(o)
      BY <2>5, <2>6 DEF ValidLatest, Fit, isCorrectDomain, requiresAttackId, DomainChecked, Primary, PrimaryTypes
    <2>8. q \in Detections(o)
      BY <2>1, <2>3, <2>4, <2>7 DEF Detections, ReadOf, EndsOf
    <2> QED
      BY <2>1, <2>2, <2>8 DEF Sound, Recording
  <1> QED
    BY <1>1, ExportInvariance, PTL

=============================================================================
