--------------------- MODULE CollectionIndexSyncProofs ---------------------
(***************************************************************************)
(* Proof about CollectionIndexSync: for any number of passes, indexes and  *)
(* publications, and whatever fails, an index has one checker at a time.   *)
(***************************************************************************)
EXTENDS CollectionIndexSync, Maxima, TLAPS

PassFields == {"phase", "todo", "list", "got", "doc", "left", "entry"}

IsPass(q) == q = [f \in PassFields |-> q[f]]

PassesShaped == DOMAIN pass = Passes /\ \A p \in Passes : IsPass(pass[p])

Checking(p) == pass[p].phase \in {"check", "import"}

\* OneChecker, without naming the index.
MarkedAlone ==
  /\ \A p \in Passes : Checking(p) => Current(p) \in checking
  /\ \A p, q \in Passes : Checking(p) /\ Checking(q) /\ Current(p) = Current(q) => p = q

IInv == PassesShaped /\ MarkedAlone

LEMMA NewPassFields ==
  ASSUME NEW ph, NEW t, NEW l
  PROVE  IsPass(Pass(ph, t, l)) /\ Pass(ph, t, l).phase = ph
  BY DEF IsPass, PassFields, Pass

LEMMA IdleFields == IsPass(Idle) /\ Idle.phase = "idle"
  BY NewPassFields DEF Idle

\* Where a pass goes from an index it checks no more.
LEMMA OnwardFields ==
  ASSUME NEW p \in Passes
  PROVE  IsPass(Onward(p)) /\ Onward(p).phase \in {"idle", "visit"}
  BY IdleFields, NewPassFields DEF Onward

\* What the updates of a pass leave as they were.
LEMMA FetchedFields ==
  ASSUME NEW q, IsPass(q), NEW n, NEW c,
         c = [q EXCEPT !.phase = "store", !.got = n]
  PROVE  IsPass(c) /\ c.phase = "store"
  <1>1. IsPass(c)
    BY DEF IsPass, PassFields
  <1>2. c.phase = "store"
    BY DEF IsPass, PassFields
  <1> QED
    BY <1>1, <1>2

LEMMA SkippedFields ==
  ASSUME NEW q, IsPass(q), NEW l, NEW c,
         c = [q EXCEPT !.left = l]
  PROVE  IsPass(c) /\ c.phase = q.phase /\ c.todo = q.todo
  <1>1. IsPass(c)
    BY DEF IsPass, PassFields
  <1>2. c.phase = q.phase
    BY DEF IsPass, PassFields
  <1>3. c.todo = q.todo
    BY DEF IsPass, PassFields
  <1> QED
    BY <1>1, <1>2, <1>3

LEMMA ShapeStep ==
  ASSUME PassesShaped, NEW p \in Passes, NEW q, Goes(p, q), IsPass(q)
  PROVE  PassesShaped' /\ pass'[p] = q /\ \A r \in Passes \ {p} : pass'[r] = pass[r]
  BY DEF PassesShaped, Goes

\* A pass that checks nothing in its next state disturbs nothing.
LEMMA QuietStep ==
  ASSUME IInv, NEW p \in Passes, NEW q, Goes(p, q), IsPass(q),
         q.phase \notin {"check", "import"}, UNCHANGED checking
  PROVE  IInv'
  BY ShapeStep DEF IInv, MarkedAlone, Checking, Current

\* A pass that stays with its index, checking it before and after, changes no checker.
LEMMA CheckingStep ==
  ASSUME IInv, NEW p \in Passes, NEW q, Goes(p, q), IsPass(q),
         Checking(p), q.todo = pass[p].todo, UNCHANGED checking
  PROVE  IInv'
  BY ShapeStep DEF IInv, MarkedAlone, Checking, Current

\* The mark is what keeps a second pass out.
LEMMA EnterStep ==
  ASSUME IInv, NEW p \in Passes, NEW d, Enter(p, d)
  PROVE  IInv'
  <1>1. CASE Current(p) \in checking
    BY <1>1, OnwardFields, QuietStep DEF Enter
  <1>2. CASE Current(p) \notin checking
    <2>1. PICK q : /\ Goes(p, q) /\ checking' = checking \cup {Current(p)}
                   /\ q = [pass[p] EXCEPT !.phase = "check", !.doc = d, !.left = d.subscriptions]
      BY <1>2 DEF Enter
    <2>2. IsPass(q) /\ q.phase = "check" /\ q.todo = pass[p].todo
      <3>1. IsPass(pass[p])
        BY DEF IInv, PassesShaped
      <3>2. IsPass(q)
        BY <2>1, <3>1 DEF IsPass, PassFields
      <3>3. q.phase = "check"
        BY <2>1, <3>1 DEF IsPass, PassFields
      <3>4. q.todo = pass[p].todo
        BY <2>1, <3>1 DEF IsPass, PassFields
      <3> QED
        BY <3>2, <3>3, <3>4
    <2>3. PassesShaped' /\ pass'[p] = q /\ \A r \in Passes \ {p} : pass'[r] = pass[r]
      BY <2>1, <2>2, ShapeStep DEF IInv
    <2>4. \A r \in Passes : Checking(r) => Current(r) # Current(p)
      BY <1>2 DEF IInv, MarkedAlone
    <2> QED
      <3>1. \A r \in Passes : Checking(r)' /\ r # p => Checking(r)
        BY <2>3 DEF Checking
      <3>2. \A r \in Passes : Current(r)' = Current(r)
        BY <2>2, <2>3 DEF Current
      <3>3. \A r \in Passes : Checking(r)' => Current(r)' \in checking'
        BY <2>1, <3>1, <3>2 DEF IInv, MarkedAlone
      <3>4. \A r, t \in Passes : Checking(r)' /\ Checking(t)' /\ Current(r)' = Current(t)' => r = t
        BY <2>4, <3>1, <3>2 DEF IInv, MarkedAlone
      <3> QED
        BY <2>3, <3>3, <3>4 DEF IInv, MarkedAlone
  <1> QED
    BY <1>1, <1>2

LEMMA LeaveStep ==
  ASSUME IInv, NEW p \in Passes, Leave(p)
  PROVE  IInv'
  <1>1. PassesShaped' /\ pass'[p] = Onward(p) /\ \A r \in Passes \ {p} : pass'[r] = pass[r]
    BY OnwardFields, ShapeStep DEF IInv, Leave
  <1>2. checking' = checking \ {Current(p)} /\ \A r \in Passes \ {p} : Checking(r) => Current(r) # Current(p)
    BY DEF Leave, Checking, IInv, MarkedAlone
  <1> QED
    BY <1>1, <1>2, OnwardFields DEF IInv, MarkedAlone, Checking, Current

LEMMA InvInit == Init => IInv
  BY IdleFields DEF Init, IInv, PassesShaped, MarkedAlone, Checking

LEMMA ProceedStep ==
  ASSUME IInv, NEW p \in Passes, Proceed(p)
  PROVE  IInv'
  <1>1. CASE Start(p)
    <2>1. /\ Goes(p, IF DOMAIN stored = {} THEN Idle ELSE Pass("visit", DOMAIN stored, stored))
          /\ UNCHANGED checking
      BY <1>1 DEF Start
    <2> QED
      BY <2>1, IdleFields, NewPassFields, QuietStep
  <1>2. CASE Pause(p)
    BY <1>2, OnwardFields, QuietStep DEF Pause
  <1>3. CASE Fetch(p)
    <2>1. PICK q : /\ Goes(p, q) /\ UNCHANGED checking
                   /\ q = [pass[p] EXCEPT !.phase = "store", !.got = published[Current(p)]]
      BY <1>3 DEF Fetch
    <2>2. IsPass(q) /\ q.phase = "store"
      BY <2>1, FetchedFields DEF IInv, PassesShaped
    <2> QED
      BY <2>1, <2>2, QuietStep
  <1>4. CASE FetchFails(p) \/ StoreFails(p) \/ ImportFails(p)
    BY <1>4, IdleFields, QuietStep DEF FetchFails, StoreFails, ImportFails, Ends
  <1>5. CASE Store(p)
    <2>1. \/ \E d : Enter(p, d)
          \/ Ends(p) /\ UNCHANGED checking
      BY <1>5 DEF Store
    <2> QED
      BY <2>1, EnterStep, IdleFields, QuietStep DEF Ends
  <1>6. CASE Compare(p)
    <2>1. pass[p].phase = "check" /\ UNCHANGED checking
      BY <1>6 DEF Compare
    <2>2. PICK q : /\ Goes(p, q)
                   /\ \/ q = [pass[p] EXCEPT !.phase = "import", !.entry = Newest(Offered(p))]
                      \/ q = [pass[p] EXCEPT !.left = Tail(pass[p].left)]
      BY <1>6 DEF Compare
    <2>3. IsPass(q) /\ q.phase \in {"check", "import"} /\ q.todo = pass[p].todo
      <3>1. IsPass(pass[p])
        BY DEF IInv, PassesShaped
      <3>2. CASE q = [pass[p] EXCEPT !.phase = "import", !.entry = Newest(Offered(p))]
        <4>1. IsPass(q)
          BY <3>1, <3>2 DEF IsPass, PassFields
        <4>2. q.phase = "import"
          BY <3>1, <3>2 DEF IsPass, PassFields
        <4>3. q.todo = pass[p].todo
          BY <3>1, <3>2 DEF IsPass, PassFields
        <4> QED
          BY <4>1, <4>2, <4>3
      <3>3. CASE q = [pass[p] EXCEPT !.left = Tail(pass[p].left)]
        BY <2>1, <3>1, <3>3, SkippedFields
      <3> QED
        BY <2>2, <3>2, <3>3
    <2> QED
      BY <2>1, <2>2, <2>3, CheckingStep DEF Checking
  <1>7. CASE Import(p)
    <2>1. PICK q : /\ Goes(p, q) /\ UNCHANGED checking
                   /\ q = [pass[p] EXCEPT !.phase = "check", !.left = Tail(pass[p].left), !.entry = NoEntry]
      BY <1>7 DEF Import
    <2>2. IsPass(q) /\ q.phase = "check" /\ q.todo = pass[p].todo
      <3>1. IsPass(pass[p])
        BY DEF IInv, PassesShaped
      <3>2. IsPass(q)
        BY <2>1, <3>1 DEF IsPass, PassFields
      <3>3. q.phase = "check"
        BY <2>1, <3>1 DEF IsPass, PassFields
      <3>4. q.todo = pass[p].todo
        BY <2>1, <3>1 DEF IsPass, PassFields
      <3> QED
        BY <3>2, <3>3, <3>4
    <2> QED
      BY <1>7, <2>1, <2>2, CheckingStep DEF Import, Checking
  <1>8. CASE Leave(p)
    BY <1>8, LeaveStep
  <1> QED
    BY <1>1, <1>2, <1>3, <1>4, <1>5, <1>6, <1>7, <1>8 DEF Proceed

LEMMA InvStep == IInv /\ [Next]_vars => IInv'
  <1> SUFFICES ASSUME IInv, [Next]_vars PROVE IInv'
    OBVIOUS
  <1>1. ASSUME NEW p \in Passes, Proceed(p) PROVE IInv'
    BY <1>1, ProceedStep
  <1>2. ASSUME UNCHANGED <<pass, checking>> PROVE IInv'
    BY <1>2 DEF IInv, PassesShaped, MarkedAlone, Checking, Current
  <1>3. CASE Restart
    <2>1. \A p \in Passes : pass'[p] = Idle
      BY <1>3 DEF Restart
    <2>2. PassesShaped'
      BY <1>3, IdleFields DEF Restart, PassesShaped
    <2> QED
      BY <2>1, <2>2, IdleFields DEF IInv, MarkedAlone, Checking
  <1>4. ASSUME NEW i \in Indexes, Publish(i) \/ PutSubscriptions(i) \/ Delete(i)
        PROVE  IInv'
    BY <1>2, <1>4 DEF Publish, PutSubscriptions, Delete
  <1> QED
    BY <1>1, <1>2, <1>3, <1>4 DEF Next, vars

\* However many passes the cron job starts, and wherever they fail or the process is
\* restarted, no two of them check the subscriptions of an index at the same time
\* (scheduledSubscriptions), and the one that does has it marked.
THEOREM OneCheckerAtATime == Spec => []OneChecker
  <1>1. Spec => []IInv
    BY InvInit, InvStep, PTL DEF Spec
  <1>2. IInv => OneChecker
    BY DEF IInv, MarkedAlone, OneChecker, Checking, Checks
  <1> QED
    BY <1>1, <1>2, PTL

-----------------------------------------------------------------------------
(***************************************************************************)
(* What documents hold.  A content, however often merged, has in each      *)
(* place a listing that some publication of the index has there, and       *)
(* versions that one has there.                                            *)
(***************************************************************************)
NamesAt(i, k) ==
  {Publications[i][m][k].id : m \in {n \in DOMAIN Publications[i] : k \in DOMAIN Publications[i][n]}}

VersionsOf(N) == [of : N, mod : Nat]

ListingsOf(N) == [id : N, versions : Seq(VersionsOf(N))]

ListingsAt(i, k) == ListingsOf(NamesAt(i, k))

ContentOf(i, cs) == cs \in Contents /\ \A k \in DOMAIN cs : cs[k] \in ListingsAt(i, k)

IsDocument(i, d) == d = Document(d.modified, d.collections, d.subscriptions) /\ ContentOf(i, d.collections)

Begins(s, t) ==
  /\ s \in Seq(Collections)
  /\ t \in Seq(Collections)
  /\ Len(s) <= Len(t)
  /\ \A k \in 1..Len(s) : s[k] = t[k]

LEMMA OverlayType ==
  ASSUME NEW S, NEW old \in Seq(S), NEW new \in Seq(S)
  PROVE  /\ Overlay(old, new) \in Seq(S)
         /\ Len(Overlay(old, new)) = IF Len(old) >= Len(new) THEN Len(old) ELSE Len(new)
         /\ \A k \in 1..Len(Overlay(old, new)) :
              Overlay(old, new)[k] = IF k <= Len(new) THEN new[k] ELSE old[k]
  <1> DEFINE n == Max({Len(old), Len(new)})
  <1>1. n = IF Len(old) >= Len(new) THEN Len(old) ELSE Len(new)
    BY MaxOfTwo
  <1>2. \A k \in 1..n : (IF k <= Len(new) THEN new[k] ELSE old[k]) \in S
    BY <1>1
  <1>3. n \in Nat
    BY <1>1
  <1>4. Overlay(old, new) = [k \in 1..n |-> IF k <= Len(new) THEN new[k] ELSE old[k]]
    BY DEF Overlay
  <1> HIDE DEF n
  <1> QED
    BY <1>1, <1>2, <1>3, <1>4

\* What was read before goes over what begins with it and leaves no trace.
LEMMA OverlayBeginning ==
  ASSUME NEW s, NEW t, Begins(s, t)
  PROVE  Overlay(t, s) = t
  <1>1. s \in Seq(Collections) /\ t \in Seq(Collections) /\ Len(s) <= Len(t)
    BY DEF Begins
  <1>2. /\ Overlay(t, s) \in Seq(Collections) /\ Len(Overlay(t, s)) = Len(t)
        /\ \A k \in 1..Len(t) : Overlay(t, s)[k] = IF k <= Len(s) THEN s[k] ELSE t[k]
    <2>1. Len(t) >= Len(s)
      BY <1>1
    <2> QED
      BY <1>1, <2>1, OverlayType
  <1>3. \A k \in 1..Len(t) : Overlay(t, s)[k] = t[k]
    BY <1>1, <1>2 DEF Begins
  <1> QED
    BY <1>1, <1>2, <1>3

LEMMA OverlayAppended ==
  ASSUME NEW s \in Seq(Collections), NEW c \in Collections
  PROVE  Overlay(s, Append(s, c)) = Append(s, c)
  <1> DEFINE t == Append(s, c)
  <1>1. t \in Seq(Collections) /\ Len(t) = Len(s) + 1
    OBVIOUS
  <1>2. /\ Overlay(s, t) \in Seq(Collections) /\ Len(Overlay(s, t)) = Len(t)
        /\ \A k \in 1..Len(t) : Overlay(s, t)[k] = t[k]
    <2> HIDE DEF t
    <2>1. Overlay(s, t) \in Seq(Collections) /\ Len(Overlay(s, t)) = Len(t)
      BY <1>1, OverlayType
    <2>2. \A k \in 1..Len(t) : Overlay(s, t)[k] = IF k <= Len(t) THEN t[k] ELSE s[k]
      BY <1>1, <2>1, OverlayType
    <2> QED
      BY <1>1, <2>1, <2>2
  <1>3. Overlay(s, t) = t
    <2> HIDE DEF t
    <2> QED
      BY <1>1, <1>2
  <1> QED
    BY <1>3

LEMMA BeginsOn ==
  ASSUME NEW s, NEW t, NEW u, Begins(s, t), Begins(t, u)
  PROVE  Begins(s, u)
  BY DEF Begins

LEMMA ContentsShape == Contents = Seq(ListingsOf(Collections))
  BY DEF Contents, ListingsOf, VersionsOf

LEMMA ListingFields ==
  ASSUME NEW N, NEW l
  PROVE  l \in ListingsOf(N) <=>
           /\ l = [id |-> l.id, versions |-> l.versions]
           /\ l.id \in N
           /\ l.versions \in Seq(VersionsOf(N))
  <1> DEFINE V == Seq(VersionsOf(N))
  <1> HIDE DEF V
  <1>1. l \in [id : N, versions : V] <=>
          l = [id |-> l.id, versions |-> l.versions] /\ l.id \in N /\ l.versions \in V
    OBVIOUS
  <1> QED
    BY <1>1 DEF ListingsOf, V

LEMMA MergedListing ==
  ASSUME NEW N, NEW old \in ListingsOf(N), NEW new \in ListingsOf(N)
  PROVE  MergeListing(old, new) \in ListingsOf(N)
  <1> DEFINE o == Overlay(old.versions, new.versions)
  <1>1. old.versions \in Seq(VersionsOf(N)) /\ new.versions \in Seq(VersionsOf(N)) /\ new.id \in N
    BY ListingFields
  <1>2. o \in Seq(VersionsOf(N))
    BY <1>1, OverlayType
  <1> DEFINE m == [id |-> new.id, versions |-> o]
  <1>3. m.id = new.id /\ m.versions = o /\ m = [id |-> m.id, versions |-> m.versions]
    OBVIOUS
  <1>4. m = MergeListing(old, new)
    BY DEF MergeListing
  <1> HIDE DEF m, o
  <1> QED
    BY <1>1, <1>2, <1>3, <1>4, ListingFields

LEMMA NamesAreCollections ==
  ASSUME NEW i \in Indexes, NEW k
  PROVE  NamesAt(i, k) \subseteq Collections
  <1> SUFFICES ASSUME NEW m \in DOMAIN Publications[i], k \in DOMAIN Publications[i][m]
               PROVE  Publications[i][m][k].id \in Collections
    BY DEF NamesAt
  <1>1. Publications[i] \in Seq(Contents)
    BY PublicationAssumption
  <1>2. Publications[i][m] \in Seq(ListingsOf(Collections))
    BY <1>1, ContentsShape
  <1>3. Publications[i][m][k] \in ListingsOf(Collections)
    BY <1>2
  <1> QED
    BY <1>3, ListingFields

LEMMA ListingsKnown ==
  ASSUME NEW i \in Indexes, NEW k, NEW l \in ListingsAt(i, k)
  PROVE  l \in ListingsOf(Collections)
  <1> DEFINE N == NamesAt(i, k)
  <1>1. N \subseteq Collections
    BY NamesAreCollections
  <1>2. l \in ListingsOf(N)
    BY DEF ListingsAt
  <1>3. VersionsOf(N) \subseteq VersionsOf(Collections)
    BY <1>1 DEF VersionsOf
  <1>4. Seq(VersionsOf(N)) \subseteq Seq(VersionsOf(Collections))
    <2> DEFINE A == VersionsOf(N)
               B == VersionsOf(Collections)
    <2>1. A \subseteq B
      BY <1>3
    <2> HIDE DEF A, B
    <2>2. Seq(A) \subseteq Seq(B)
      BY <2>1
    <2> QED
      BY <2>2 DEF A, B
  <1> HIDE DEF N
  <1> QED
    BY <1>1, <1>2, <1>4, ListingFields

LEMMA MergedContent ==
  ASSUME NEW i \in Indexes, NEW old, NEW new, ContentOf(i, old), ContentOf(i, new)
  PROVE  ContentOf(i, MergeCollections(old, new))
  <1> DEFINE n == Max({Len(old), Len(new)})
             At(k) == IF k > Len(new) THEN old[k]
                      ELSE IF k > Len(old) THEN new[k] ELSE MergeListing(old[k], new[k])
  <1>1. Len(old) \in Nat /\ Len(new) \in Nat /\ DOMAIN old = 1..Len(old) /\ DOMAIN new = 1..Len(new)
    <2>1. old \in Seq(ListingsOf(Collections)) /\ new \in Seq(ListingsOf(Collections))
      BY ContentsShape DEF ContentOf
    <2> QED
      BY <2>1
  <1>2. n \in Nat /\ n = IF Len(old) >= Len(new) THEN Len(old) ELSE Len(new)
    BY <1>1, MaxOfTwo
  <1>3. ASSUME NEW k \in 1..n PROVE At(k) \in ListingsAt(i, k)
    <2>1. CASE k > Len(new)
      BY <1>1, <1>2, <2>1 DEF ContentOf
    <2>2. CASE ~(k > Len(new)) /\ k > Len(old)
      BY <1>1, <1>2, <2>2 DEF ContentOf
    <2>3. CASE ~(k > Len(new)) /\ ~(k > Len(old))
      <3>1. old[k] \in ListingsAt(i, k) /\ new[k] \in ListingsAt(i, k)
        BY <1>1, <1>2, <2>3 DEF ContentOf
      <3> QED
        BY <2>3, <3>1, MergedListing DEF ListingsAt
    <2> QED
      BY <2>1, <2>2, <2>3
  <1>4. MergeCollections(old, new) = [k \in 1..n |-> At(k)]
    BY DEF MergeCollections
  <1>5. \A k \in 1..n : At(k) \in ListingsOf(Collections)
    BY <1>3, ListingsKnown
  <1> HIDE DEF n, At
  <1>6. MergeCollections(old, new) \in Contents
    <2>1. [k \in 1..n |-> At(k)] \in Seq(ListingsOf(Collections))
      BY <1>2, <1>5
    <2> QED
      BY <2>1, <1>4, ContentsShape
  <1> QED
    BY <1>3, <1>4, <1>6 DEF ContentOf

\* What a remote publishes is such a content.
LEMMA PublishedContent ==
  ASSUME NEW i \in Indexes, NEW n \in DOMAIN Publications[i]
  PROVE  ContentOf(i, Publications[i][n])
  <1>1. Publications[i] \in Seq(Contents)
    BY PublicationAssumption
  <1>2. Publications[i][n] \in Contents /\ Publications[i][n] \in Seq(ListingsOf(Collections))
    BY <1>1, ContentsShape
  <1>3. ASSUME NEW k \in DOMAIN Publications[i][n]
        PROVE  Publications[i][n][k] \in ListingsAt(i, k)
    <2> DEFINE l == Publications[i][n][k]
               N == NamesAt(i, k)
    <2>1. l \in ListingsOf(Collections)
      BY <1>2
    <2>2. l.id \in N
      BY <1>3 DEF NamesAt
    <2>3. \A v \in ToSet(l.versions) : v.of = l.id
      BY <1>3, PublicationAssumption
    <2> HIDE DEF l, N
    <2>4. l = [id |-> l.id, versions |-> l.versions] /\ l.versions \in Seq(VersionsOf(Collections))
      BY <2>1, ListingFields
    <2>5. \A j \in DOMAIN l.versions : l.versions[j] \in VersionsOf(Collections)
      BY <2>4
    <2>6. \A j \in DOMAIN l.versions : l.versions[j].of = l.id
      BY <2>3 DEF ToSet
    <2>7. \A j \in DOMAIN l.versions : l.versions[j] \in VersionsOf(N)
      BY <2>2, <2>5, <2>6 DEF VersionsOf
    <2>8. l.versions \in Seq(VersionsOf(N))
      BY <2>4, <2>7
    <2>9. l \in ListingsOf(N)
      BY <2>2, <2>4, <2>8, ListingFields
    <2> QED
      BY <2>9 DEF ListingsAt, l, N
  <1> QED
    BY <1>2, <1>3 DEF ContentOf

LEMMA MergedDocument ==
  ASSUME NEW i \in Indexes, NEW old, NEW new, IsDocument(i, old), IsDocument(i, new)
  PROVE  /\ IsDocument(i, Merged(old, new))
         /\ Merged(old, new).subscriptions = Overlay(old.subscriptions, new.subscriptions)
  BY MergedContent DEF IsDocument, Merged, Document

-----------------------------------------------------------------------------
(***************************************************************************)
(* What a pass holds of the indexes it has still to look at: documents it  *)
(* read, whose subscriptions the stored ones begin with unless a user      *)
(* ended one.  What it is about to import is listed by the index it is at, *)
(* and, of a collection that is listed alone and keeps its place, newer    *)
(* than what the workbench has.                                            *)
(***************************************************************************)
At(todo) == Order[Min({k \in DOMAIN Order : Order[k] \in todo})]

Steady(c) == ListedAlone(c) /\ KeepsPlace(c)

StoredFine ==
  /\ DOMAIN stored \subseteq Indexes
  /\ \A i \in DOMAIN stored : IsDocument(i, stored[i])
  /\ \A i \in DOMAIN stored \ removed : stored[i].subscriptions \in Seq(Collections)

ReadFine(i, d) ==
  /\ IsDocument(i, d)
  /\ i \in DOMAIN stored \ removed => Begins(d.subscriptions, stored[i].subscriptions)

EntryFine(i, e) == Lists(i, e.of) /\ (Steady(e.of) => \A f \in HaveOf(e.of) : f.mod < e.mod)

ListFine(q) ==
  /\ q.todo \subseteq Indexes
  /\ q.todo # {}
  /\ \A i \in q.todo : i \in DOMAIN q.list /\ ReadFine(i, q.list[i])

PassFine(q) ==
  /\ q.phase \in Phases
  /\ q.phase # "idle" => ListFine(q)
  /\ q.phase = "store" => q.got \in DOMAIN Publications[At(q.todo)]
  /\ q.phase \in {"check", "import"} => ContentOf(At(q.todo), q.doc.collections)
  /\ q.phase = "import" => EntryFine(At(q.todo), q.entry)

PassesFine == \A p \in Passes : PassFine(pass[p])

PublishedFine == \A i \in Indexes : published[i] \in DOMAIN Publications[i]

DataInv == PassesShaped /\ StoredFine /\ PassesFine /\ PublishedFine

LEMMA AtTodo ==
  ASSUME NEW todo, todo \subseteq Indexes, todo # {}
  PROVE  At(todo) \in todo
  <1> DEFINE S == {k \in DOMAIN Order : Order[k] \in todo}
  <1>1. DOMAIN Order = 1..Len(Order) /\ Len(Order) \in Nat
    BY OrderAssumption
  <1>2. PICK k \in DOMAIN Order : Order[k] \in todo
    BY DEF Indexes, ToSet
  <1>3. S \in SUBSET (1..Len(Order)) /\ S # {}
    BY <1>1, <1>2
  <1>4. Min(S) \in S
    <2> HIDE DEF S
    <2> QED
      BY <1>1, <1>3, BoundedMin
  <1> QED
    BY <1>4 DEF At

LEMMA IdleFine == PassFine(Idle)
  BY IdleFields DEF PassFine, Phases

\* What may happen meanwhile: documents go or are merged with, never shortened at the
\* end of one whose subscriptions were only added to; versions of other collections
\* are imported.
StoredGrows ==
  /\ DOMAIN stored' \subseteq DOMAIN stored
  /\ removed \subseteq removed'
  /\ \A i \in DOMAIN stored' \ removed' :
       Begins(stored[i].subscriptions, stored'[i].subscriptions)

LEMMA ReadStays ==
  ASSUME StoredGrows, NEW i, NEW d, ReadFine(i, d)
  PROVE  ReadFine(i, d)'
  <1>1. IsDocument(i, d)
    BY DEF ReadFine
  <1>2. ASSUME i \in DOMAIN stored' \ removed'
        PROVE  Begins(d.subscriptions, stored'[i].subscriptions)
    BY <1>2, BeginsOn DEF ReadFine, StoredGrows
  <1> QED
    BY <1>1, <1>2 DEF ReadFine

LEMMA ListStays ==
  ASSUME StoredGrows, NEW q, ListFine(q)
  PROVE  ListFine(q)'
  BY ReadStays DEF ListFine

LEMMA PassStays ==
  ASSUME StoredGrows, have' = have, NEW q, PassFine(q)
  PROVE  PassFine(q)'
  BY ListStays DEF PassFine, EntryFine, HaveOf

\* The step of one pass that imports nothing.
LEMMA PassesStep ==
  ASSUME DataInv, StoredGrows, have' = have, published' = published, StoredFine',
         NEW p \in Passes, NEW q, Goes(p, q), IsPass(q), PassFine(q)'
  PROVE  DataInv'
  <1>1. PassesShaped' /\ pass'[p] = q /\ \A r \in Passes \ {p} : pass'[r] = pass[r]
    BY ShapeStep DEF DataInv
  <1>2. \A r \in Passes : PassFine(pass[r])'
    <2> TAKE r \in Passes
    <2>1. CASE r = p
      BY <1>1, <2>1
    <2>2. CASE r # p
      BY <1>1, <2>2, PassStays DEF DataInv, PassesFine
    <2> QED
      BY <2>1, <2>2
  <1>3. PublishedFine'
    BY DEF DataInv, PublishedFine
  <1> QED
    BY <1>1, <1>2, <1>3 DEF DataInv, PassesFine

LEMMA StoredSame ==
  ASSUME StoredFine, UNCHANGED <<stored, removed>>
  PROVE  StoredGrows /\ StoredFine'
  <1>1. \A i \in DOMAIN stored \ removed :
          Begins(stored[i].subscriptions, stored[i].subscriptions)
    BY DEF StoredFine, Begins
  <1> QED
    BY <1>1 DEF StoredFine, StoredGrows

\* A step of a pass that writes nothing.
LEMMA WritelessStep ==
  ASSUME DataInv, NEW p \in Passes, NEW q, Goes(p, q), IsPass(q), PassFine(q),
         UNCHANGED <<published, stored, have, removed>>
  PROVE  DataInv'
  <1>1. StoredGrows /\ StoredFine'
    BY StoredSame DEF DataInv
  <1>2. PassFine(q)'
    BY <1>1, PassStays
  <1> QED
    BY <1>1, <1>2, PassesStep

LEMMA VisitFields ==
  ASSUME NEW t, NEW l
  PROVE  /\ Pass("visit", t, l).phase = "visit"
         /\ Pass("visit", t, l).todo = t
         /\ Pass("visit", t, l).list = l
  BY DEF Pass

LEMMA CurrentInTodo ==
  ASSUME DataInv, NEW p \in Passes, pass[p].phase # "idle"
  PROVE  /\ Current(p) = At(pass[p].todo)
         /\ Current(p) \in pass[p].todo
         /\ Current(p) \in Indexes
         /\ ListFine(pass[p])
         /\ ReadFine(Current(p), pass[p].list[Current(p)])
  <1>1. ListFine(pass[p])
    BY DEF DataInv, PassesFine, PassFine
  <1>2. Current(p) = At(pass[p].todo)
    BY DEF Current, At
  <1>3. Current(p) \in pass[p].todo
    BY <1>1, <1>2, AtTodo DEF ListFine
  <1> QED
    BY <1>1, <1>2, <1>3 DEF ListFine

LEMMA OnwardFine ==
  ASSUME DataInv, NEW p \in Passes, pass[p].phase # "idle"
  PROVE  PassFine(Onward(p))
  <1> DEFINE rest == pass[p].todo \ {Current(p)}
             list == Restrict(pass[p].list, rest)
  <1>1. CASE rest = {}
    BY <1>1, IdleFine DEF Onward
  <1>2. CASE rest # {}
    <2>1. Onward(p) = Pass("visit", rest, list)
      BY <1>2 DEF Onward
    <2>2. ListFine(pass[p])
      BY CurrentInTodo
    <2>3. \A i \in rest : i \in DOMAIN list /\ list[i] = pass[p].list[i]
      BY DEF Restrict
    <2> DEFINE q == Pass("visit", rest, list)
    <2>4. q.phase = "visit" /\ q.todo = rest /\ q.list = list
      BY VisitFields
    <2>5. rest \subseteq pass[p].todo
      OBVIOUS
    <2> HIDE DEF q, rest, list
    <2>6. ListFine(q)
      BY <1>2, <2>2, <2>3, <2>4, <2>5 DEF ListFine
    <2>7. PassFine(q)
      BY <2>4, <2>6 DEF PassFine, Phases
    <2> QED
      BY <2>1, <2>7 DEF q
  <1> QED
    BY <1>1, <1>2

LEMMA StartFine ==
  ASSUME DataInv, DOMAIN stored # {}
  PROVE  PassFine(Pass("visit", DOMAIN stored, stored))
  <1> DEFINE q == Pass("visit", DOMAIN stored, stored)
  <1>1. q.phase = "visit" /\ q.todo = DOMAIN stored /\ q.list = stored
    BY VisitFields
  <1>2. \A i \in DOMAIN stored : ReadFine(i, stored[i])
    BY DEF DataInv, StoredFine, ReadFine, Begins
  <1> HIDE DEF q
  <1>3. ListFine(q)
    BY <1>1, <1>2 DEF ListFine, DataInv, StoredFine
  <1>4. PassFine(q)
    BY <1>1, <1>3 DEF PassFine, Phases
  <1> QED
    BY <1>4 DEF q

\* The document a pass writes has the subscriptions it read.
LEMMA WrittenFine ==
  ASSUME DataInv, NEW p \in Passes, pass[p].phase = "store"
  PROVE  ReadFine(Current(p), Written(p))
  <1> DEFINE i == Current(p)
             old == pass[p].list[i]
             new == Document(pass[p].got, Retrieved(i, pass[p].got), old.subscriptions)
  <1>1. i = At(pass[p].todo) /\ i \in Indexes /\ ReadFine(i, old)
    BY CurrentInTodo
  <1>2. pass[p].got \in DOMAIN Publications[i]
    BY <1>1 DEF DataInv, PassesFine, PassFine
  <1>3. ContentOf(i, Retrieved(i, pass[p].got))
    BY <1>1, <1>2, PublishedContent DEF Retrieved
  <1>4. Written(p) = old \/ Written(p) = new
    BY DEF Written
  <1>5. ReadFine(i, new)
    <2>1. /\ new.subscriptions = old.subscriptions
          /\ new.collections = Retrieved(i, pass[p].got)
          /\ new = Document(new.modified, new.collections, new.subscriptions)
      BY DEF Document
    <2> HIDE DEF i, old, new
    <2> QED
      BY <1>1, <1>3, <2>1 DEF ReadFine, IsDocument
  <1> QED
    BY <1>1, <1>4, <1>5

LEMMA WriteEffect ==
  ASSUME DataInv, NEW p \in Passes, pass[p].phase = "store", Current(p) \in DOMAIN stored,
         stored' = [stored EXCEPT ![Current(p)] = Merged(stored[Current(p)], Written(p))],
         removed' = removed
  PROVE  /\ StoredGrows
         /\ StoredFine'
         /\ IsDocument(Current(p), Merged(stored[Current(p)], Written(p)))
         /\ \A j \in DOMAIN stored \ removed : stored'[j].subscriptions = stored[j].subscriptions
  <1> DEFINE i == Current(p)
             new == Merged(stored[i], Written(p))
  <1>1. i \in Indexes /\ ReadFine(i, Written(p))
    BY CurrentInTodo, WrittenFine
  <1>2. /\ IsDocument(i, new)
        /\ new.subscriptions = Overlay(stored[i].subscriptions, Written(p).subscriptions)
    BY <1>1, MergedDocument DEF ReadFine, DataInv, StoredFine
  <1>3. i \notin removed => new.subscriptions = stored[i].subscriptions
    BY <1>1, <1>2, OverlayBeginning DEF ReadFine
  <1>4. DOMAIN stored' = DOMAIN stored /\ stored'[i] = new /\ \A j \in DOMAIN stored \ {i} : stored'[j] = stored[j]
    OBVIOUS
  <1> HIDE DEF new
  <1>5. \A j \in DOMAIN stored \ removed : stored'[j].subscriptions = stored[j].subscriptions
    BY <1>3, <1>4
  <1>6. \A j \in DOMAIN stored : IsDocument(j, stored'[j])
    BY <1>2, <1>4 DEF DataInv, StoredFine
  <1>7. StoredFine'
    BY <1>4, <1>5, <1>6 DEF DataInv, StoredFine
  <1>8. StoredGrows
    BY <1>4, <1>5 DEF DataInv, StoredFine, StoredGrows, Begins
  <1> QED
    BY <1>2, <1>5, <1>7, <1>8 DEF new

LEMMA EnterFine ==
  ASSUME DataInv, NEW p \in Passes, pass[p].phase # "idle", NEW d, Enter(p, d),
         ContentOf(Current(p), d.collections)
  PROVE  \E q : Goes(p, q) /\ IsPass(q) /\ PassFine(q)
  <1>1. CASE Current(p) \in checking
    BY <1>1, OnwardFields, OnwardFine DEF Enter
  <1>2. CASE Current(p) \notin checking
    <2>1. PICK q : /\ Goes(p, q)
                   /\ q = [pass[p] EXCEPT !.phase = "check", !.doc = d, !.left = d.subscriptions]
      BY <1>2 DEF Enter
    <2>2. IsPass(pass[p])
      BY DEF DataInv, PassesShaped
    <2>3. IsPass(q)
      BY <2>1, <2>2 DEF IsPass, PassFields
    <2>4. q.phase = "check"
      BY <2>1, <2>2 DEF IsPass, PassFields
    <2>5. q.todo = pass[p].todo
      BY <2>1, <2>2 DEF IsPass, PassFields
    <2>6. q.list = pass[p].list
      BY <2>1, <2>2 DEF IsPass, PassFields
    <2>7. q.doc = d
      BY <2>1, <2>2 DEF IsPass, PassFields
    <2>8. ListFine(q) /\ ContentOf(At(q.todo), q.doc.collections)
      BY <2>5, <2>6, <2>7, CurrentInTodo DEF ListFine
    <2>9. PassFine(q)
      BY <2>4, <2>8 DEF PassFine, Phases
    <2> QED
      BY <2>1, <2>3, <2>9
  <1> QED
    BY <1>1, <1>2

LEMMA StoreFine ==
  ASSUME DataInv, NEW p \in Passes, Store(p)
  PROVE  /\ DataInv'
         /\ \A j \in DOMAIN stored \ removed : stored'[j].subscriptions = stored[j].subscriptions
  <1> DEFINE doc == Merged(stored[Current(p)], Written(p))
  <1>1. pass[p].phase = "store" /\ UNCHANGED <<published, have, removed>>
    BY DEF Store
  <1>2. ReadFine(Current(p), Written(p))
    BY <1>1, WrittenFine
  <1>3. CASE Current(p) \in DOMAIN stored
    <2>1. /\ stored' = [stored EXCEPT ![Current(p)] = doc]
          /\ Enter(p, IF IsNewer(p) THEN doc ELSE Written(p))
      BY <1>3 DEF Store
    <2>2. /\ StoredGrows /\ StoredFine' /\ IsDocument(Current(p), doc)
          /\ \A j \in DOMAIN stored \ removed : stored'[j].subscriptions = stored[j].subscriptions
      BY <1>1, <1>3, <2>1, WriteEffect
    <2> HIDE DEF doc
    <2>3. PICK d : Enter(p, d) /\ (d = doc \/ d = Written(p))
      BY <2>1
    <2>4. ContentOf(Current(p), d.collections)
      BY <1>2, <2>2, <2>3 DEF ReadFine, IsDocument
    <2>5. PICK q : Goes(p, q) /\ IsPass(q) /\ PassFine(q)
      BY <1>1, <2>3, <2>4, EnterFine
    <2>6. PassFine(q)'
      BY <1>1, <2>2, <2>5, PassStays
    <2> QED
      BY <1>1, <2>2, <2>5, <2>6, PassesStep
  <1>4. CASE Current(p) \notin DOMAIN stored
    <2>1. stored' = stored /\ (Ends(p) \/ Enter(p, Written(p)))
      BY <1>4 DEF Store
    <2>2. PICK q : Goes(p, q) /\ IsPass(q) /\ PassFine(q)
      <3>1. CASE Ends(p)
        BY <3>1, IdleFields, IdleFine DEF Ends
      <3>2. CASE Enter(p, Written(p))
        <4>1. ContentOf(Current(p), Written(p).collections)
          BY <1>2 DEF ReadFine, IsDocument
        <4> QED
          BY <1>1, <3>2, <4>1, EnterFine
      <3> QED
        BY <2>1, <3>1, <3>2
    <2> QED
      BY <1>1, <2>1, <2>2, WritelessStep
  <1> QED
    BY <1>3, <1>4

-----------------------------------------------------------------------------
(***************************************************************************)
(* What a pass is about to import.                                         *)
(***************************************************************************)
LEMMA NewestExists ==
  ASSUME NEW N, NEW vs \in Seq(VersionsOf(N)), ToSet(vs) # {}
  PROVE  Newest(ToSet(vs)) \in ToSet(vs)
  <1> DEFINE mods == [j \in 1..Len(vs) |-> vs[j].mod]
             S == {vs[j].mod : j \in 1..Len(vs)}
  <1>1. Len(vs) \in Nat /\ DOMAIN vs = 1..Len(vs) /\ \A j \in 1..Len(vs) : vs[j] \in VersionsOf(N)
    OBVIOUS
  <1>2. \A j \in 1..Len(vs) : vs[j].mod \in Nat
    BY <1>1 DEF VersionsOf
  <1>3. ToSet(vs) = {vs[j] : j \in 1..Len(vs)}
    BY <1>1 DEF ToSet
  <1>4. IsFiniteSet(1..Len(vs))
    BY <1>1, FS_Interval
  <1>5. mods \in Surjection(1..Len(vs), S)
    BY DEF Surjection
  <1>6. IsFiniteSet(S)
    BY <1>4, <1>5, FS_Surjection
  <1>7. S \in SUBSET Nat /\ S # {}
    BY <1>2, <1>3
  <1>8. PICK x \in S : \A y \in S : x >= y
    <2> HIDE DEF S
    <2> QED
      BY <1>6, <1>7, GreatestExists
  <1>9. PICK j \in 1..Len(vs) : x = vs[j].mod
    BY <1>8
  <1>10. \A k \in 1..Len(vs) : vs[k].mod <= vs[j].mod
    <2> TAKE k \in 1..Len(vs)
    <2>1. x >= vs[k].mod
      BY <1>8
    <2> QED
      BY <1>2, <1>9, <2>1
  <1>11. vs[j] \in ToSet(vs) /\ \A f \in ToSet(vs) : f.mod <= vs[j].mod
    BY <1>3, <1>10
  <1> HIDE DEF mods, S
  <1> QED
    BY <1>11 DEF Newest

LEMMA OfferedFrom ==
  ASSUME DataInv, NEW p \in Passes, pass[p].phase = "check", Offered(p) # {}
  PROVE  \E k, vs :
           /\ Offered(p) = ToSet(vs)
           /\ vs \in Seq(VersionsOf(NamesAt(Current(p), k)))
           /\ Head(pass[p].left) \in NamesAt(Current(p), k)
  <1> DEFINE cs == pass[p].doc.collections
             k == Min(Listings(p))
  <1>1. ContentOf(Current(p), cs)
    BY CurrentInTodo DEF DataInv, PassesFine, PassFine
  <1>2. Len(cs) \in Nat /\ DOMAIN cs = 1..Len(cs)
    <2>1. cs \in Seq(ListingsOf(Collections))
      BY <1>1, ContentsShape DEF ContentOf
    <2> HIDE DEF cs
    <2> QED
      BY <2>1
  <1>3. Listings(p) # {} /\ Offered(p) = ToSet(cs[k].versions)
    BY DEF Offered
  <1>4. k \in Listings(p)
    <2>1. Listings(p) \in SUBSET (1..Len(cs))
      BY <1>2 DEF Listings
    <2> HIDE DEF cs
    <2> QED
      BY <1>2, <1>3, <2>1, BoundedMin
  <1>5. k \in DOMAIN cs /\ cs[k].id = Head(pass[p].left)
    BY <1>4 DEF Listings
  <1> HIDE DEF cs, k
  <1>6. cs[k] \in ListingsOf(NamesAt(Current(p), k))
    BY <1>1, <1>5 DEF ContentOf, ListingsAt
  <1>7. cs[k].id \in NamesAt(Current(p), k) /\ cs[k].versions \in Seq(VersionsOf(NamesAt(Current(p), k)))
    BY <1>6, ListingFields
  <1> QED
    BY <1>3, <1>5, <1>7

\* Two names that publications give to one place are the same where the name keeps its place.
LEMMA NamesAgree ==
  ASSUME NEW i \in Indexes, NEW k, NEW b \in NamesAt(i, k), NEW c \in NamesAt(i, k), KeepsPlace(b)
  PROVE  b = c /\ Lists(i, b)
  <1>1. PICK m \in DOMAIN Publications[i] : k \in DOMAIN Publications[i][m] /\ b = Publications[i][m][k].id
    BY DEF NamesAt
  <1>2. PICK n \in DOMAIN Publications[i] : k \in DOMAIN Publications[i][n] /\ c = Publications[i][n][k].id
    BY DEF NamesAt
  <1>3. k \in DOMAIN Publications[i][m] \cap DOMAIN Publications[i][n]
    BY <1>1, <1>2
  <1>4. Publications[i][n][k].id = b
    BY <1>1, <1>3 DEF KeepsPlace
  <1> QED
    BY <1>1, <1>2, <1>4 DEF Lists

LEMMA WantedEntry ==
  ASSUME DataInv, NEW p \in Passes, pass[p].phase = "check", Wanted(p)
  PROVE  EntryFine(Current(p), Newest(Offered(p)))
  <1> DEFINE i == Current(p)
             e == Newest(Offered(p))
  <1>1. PICK k, vs : /\ Offered(p) = ToSet(vs)
                     /\ vs \in Seq(VersionsOf(NamesAt(i, k)))
                     /\ Head(pass[p].left) \in NamesAt(i, k)
    BY OfferedFrom DEF Wanted
  <1>2. e \in ToSet(vs)
    BY <1>1, NewestExists DEF Wanted
  <1>3. PICK j \in DOMAIN vs : e = vs[j]
    BY <1>2 DEF ToSet
  <1>4. e \in VersionsOf(NamesAt(i, k))
    BY <1>1, <1>3
  <1>5. e.of \in NamesAt(i, k)
    BY <1>4 DEF VersionsOf
  <1>6. Lists(i, e.of)
    BY <1>5 DEF NamesAt, Lists
  <1>7. ASSUME Steady(e.of)
        PROVE  \A f \in HaveOf(e.of) : f.mod < e.mod
    <2>1. i \in Indexes
      BY CurrentInTodo
    <2>2. e.of = Head(pass[p].left)
      BY <1>1, <1>5, <1>7, <2>1, NamesAgree DEF Steady
    <2> QED
      BY <2>2 DEF Wanted
  <1> QED
    BY <1>6, <1>7 DEF EntryFine

LEMMA CompareFine ==
  ASSUME DataInv, NEW p \in Passes, Compare(p)
  PROVE  DataInv'
  <1>1. pass[p].phase = "check" /\ UNCHANGED <<published, stored, have, removed>>
    BY DEF Compare
  <1>2. /\ IsPass(pass[p]) /\ ListFine(pass[p])
        /\ ContentOf(At(pass[p].todo), pass[p].doc.collections)
        /\ Current(p) = At(pass[p].todo)
    BY <1>1, CurrentInTodo DEF DataInv, PassesShaped, PassesFine, PassFine
  <1>3. CASE Wanted(p)
    <2>1. PICK q : /\ Goes(p, q)
                   /\ q = [pass[p] EXCEPT !.phase = "import", !.entry = Newest(Offered(p))]
      BY <1>3 DEF Compare
    <2>2. IsPass(q)
      BY <1>2, <2>1 DEF IsPass, PassFields
    <2>3. q.phase = "import"
      BY <1>2, <2>1 DEF IsPass, PassFields
    <2>4. q.todo = pass[p].todo
      BY <1>2, <2>1 DEF IsPass, PassFields
    <2>5. q.list = pass[p].list
      BY <1>2, <2>1 DEF IsPass, PassFields
    <2>6. q.doc = pass[p].doc
      BY <1>2, <2>1 DEF IsPass, PassFields
    <2>7. q.entry = Newest(Offered(p))
      BY <1>2, <2>1 DEF IsPass, PassFields
    <2>8. EntryFine(Current(p), Newest(Offered(p)))
      BY <1>1, <1>3, WantedEntry
    <2>9. ListFine(q) /\ ContentOf(At(q.todo), q.doc.collections) /\ EntryFine(At(q.todo), q.entry)
      BY <1>2, <2>4, <2>5, <2>6, <2>7, <2>8 DEF ListFine
    <2>10. PassFine(q)
      BY <2>3, <2>9 DEF PassFine, Phases
    <2> QED
      BY <1>1, <2>1, <2>2, <2>10, WritelessStep
  <1>4. CASE ~Wanted(p)
    <2>1. PICK q : Goes(p, q) /\ q = [pass[p] EXCEPT !.left = Tail(pass[p].left)]
      BY <1>4 DEF Compare
    <2>2. IsPass(q) /\ q.phase = "check" /\ q.todo = pass[p].todo
      BY <1>1, <1>2, <2>1, SkippedFields
    <2>3. q.list = pass[p].list
      BY <1>2, <2>1 DEF IsPass, PassFields
    <2>4. q.doc = pass[p].doc
      BY <1>2, <2>1 DEF IsPass, PassFields
    <2>5. ListFine(q) /\ ContentOf(At(q.todo), q.doc.collections)
      BY <1>2, <2>2, <2>3, <2>4 DEF ListFine
    <2>6. PassFine(q)
      BY <2>2, <2>5 DEF PassFine, Phases
    <2> QED
      BY <1>1, <2>1, <2>2, <2>6, WritelessStep
  <1> QED
    BY <1>3, <1>4

\* Only the pass that imports it works on a collection that one index lists.
LEMMA ImportFine ==
  ASSUME IInv, DataInv, NEW p \in Passes, Import(p)
  PROVE  /\ DataInv'
         /\ have' = have \cup {pass[p].entry}
         /\ EntryFine(Current(p), pass[p].entry)
  <1>1. /\ pass[p].phase = "import"
        /\ UNCHANGED <<published, stored, removed>>
        /\ have' = have \cup {pass[p].entry}
    BY DEF Import
  <1>2. /\ IsPass(pass[p]) /\ ListFine(pass[p])
        /\ ContentOf(At(pass[p].todo), pass[p].doc.collections)
        /\ EntryFine(Current(p), pass[p].entry)
        /\ Current(p) = At(pass[p].todo) /\ Current(p) \in Indexes
    BY <1>1, CurrentInTodo DEF DataInv, PassesShaped, PassesFine, PassFine
  <1>3. PICK q : /\ Goes(p, q)
                 /\ q = [pass[p] EXCEPT !.phase = "check", !.left = Tail(pass[p].left), !.entry = NoEntry]
    BY DEF Import
  <1>4. IsPass(q)
    BY <1>2, <1>3 DEF IsPass, PassFields
  <1>5. q.phase = "check"
    BY <1>2, <1>3 DEF IsPass, PassFields
  <1>6. q.todo = pass[p].todo
    BY <1>2, <1>3 DEF IsPass, PassFields
  <1>7. q.list = pass[p].list
    BY <1>2, <1>3 DEF IsPass, PassFields
  <1>8. q.doc = pass[p].doc
    BY <1>2, <1>3 DEF IsPass, PassFields
  <1>9. PassesShaped' /\ pass'[p] = q /\ \A r \in Passes \ {p} : pass'[r] = pass[r]
    BY <1>3, <1>4, ShapeStep DEF IInv
  <1>10. StoredGrows /\ StoredFine'
    BY <1>1, StoredSame DEF DataInv
  <1>11. PassFine(q)'
    <2>1. ListFine(q) /\ ContentOf(At(q.todo), q.doc.collections)
      BY <1>2, <1>6, <1>7, <1>8 DEF ListFine
    <2>2. ListFine(q)'
      BY <1>10, <2>1, ListStays
    <2> QED
      BY <1>5, <2>1, <2>2 DEF PassFine, Phases
  <1>12. ASSUME NEW r \in Passes \ {p}
         PROVE  PassFine(pass[r])'
    <2>1. PICK s : s = pass[r]
      OBVIOUS
    <2>2. PassFine(s) /\ pass'[r] = s
      BY <1>9, <2>1 DEF DataInv, PassesFine
    <2>3. s.phase = "import" => EntryFine(At(s.todo), s.entry)'
      <3> SUFFICES ASSUME s.phase = "import" PROVE EntryFine(At(s.todo), s.entry)'
        OBVIOUS
      <3>1. /\ EntryFine(At(s.todo), s.entry)
            /\ At(s.todo) = Current(r) /\ Current(r) \in Indexes
        BY <2>1, <2>2, CurrentInTodo DEF PassFine
      <3>2. ASSUME Steady(s.entry.of)
            PROVE  pass[p].entry.of # s.entry.of
        <4> SUFFICES ASSUME pass[p].entry.of = s.entry.of PROVE FALSE
          OBVIOUS
        <4>1. Lists(Current(p), s.entry.of) /\ Lists(Current(r), s.entry.of)
          BY <1>2, <3>1 DEF EntryFine
        <4>2. Current(p) = Current(r)
          BY <1>2, <3>1, <3>2, <4>1 DEF Steady, ListedAlone
        <4>3. Checking(p) /\ Checking(r)
          BY <1>1, <2>1 DEF Checking
        <4> QED
          BY <4>2, <4>3 DEF IInv, MarkedAlone
      <3>3. ASSUME Steady(s.entry.of)
            PROVE  HaveOf(s.entry.of)' = HaveOf(s.entry.of)
        BY <1>1, <3>2, <3>3 DEF HaveOf
      <3> QED
        BY <3>1, <3>3 DEF EntryFine
    <2>4. s.phase # "idle" => ListFine(s)'
      BY <1>10, <2>2, ListStays DEF PassFine
    <2>5. PassFine(s)'
      BY <2>2, <2>3, <2>4 DEF PassFine
    <2> QED
      BY <2>2, <2>5
  <1>13. PassesFine'
    <2> SUFFICES ASSUME NEW r \in Passes PROVE PassFine(pass[r])'
      BY DEF PassesFine
    <2> QED
      BY <1>9, <1>11, <1>12
  <1>14. PublishedFine'
    BY <1>1 DEF DataInv, PublishedFine
  <1> QED
    BY <1>1, <1>2, <1>9, <1>10, <1>13, <1>14 DEF DataInv

LEMMA FetchFine ==
  ASSUME DataInv, NEW p \in Passes, Fetch(p)
  PROVE  DataInv'
  <1>1. pass[p].phase = "visit" /\ UNCHANGED <<published, stored, have, removed>>
    BY DEF Fetch
  <1>2. /\ IsPass(pass[p]) /\ ListFine(pass[p])
        /\ Current(p) = At(pass[p].todo) /\ Current(p) \in Indexes
    BY <1>1, CurrentInTodo DEF DataInv, PassesShaped
  <1>3. PICK q : Goes(p, q) /\ q = [pass[p] EXCEPT !.phase = "store", !.got = published[Current(p)]]
    BY DEF Fetch
  <1>4. IsPass(q) /\ q.phase = "store"
    BY <1>2, <1>3, FetchedFields
  <1>5. q.todo = pass[p].todo
    BY <1>2, <1>3 DEF IsPass, PassFields
  <1>6. q.list = pass[p].list
    BY <1>2, <1>3 DEF IsPass, PassFields
  <1>7. q.got = published[Current(p)]
    BY <1>2, <1>3 DEF IsPass, PassFields
  <1>8. ListFine(q) /\ q.got \in DOMAIN Publications[At(q.todo)]
    BY <1>2, <1>5, <1>6, <1>7 DEF ListFine, DataInv, PublishedFine
  <1>9. PassFine(q)
    BY <1>4, <1>8 DEF PassFine, Phases
  <1> QED
    BY <1>1, <1>3, <1>4, <1>9, WritelessStep

\* The step of a pass: the invariant, the subscriptions it leaves, the import it makes.
LEMMA ProceedFine ==
  ASSUME IInv, DataInv, NEW p \in Passes, Proceed(p)
  PROVE  /\ DataInv'
         /\ removed' = removed
         /\ \A j \in DOMAIN stored \ removed : stored'[j].subscriptions = stored[j].subscriptions
         /\ \/ have' = have
            \/ have' = have \cup {pass[p].entry} /\ EntryFine(Current(p), pass[p].entry)
  <1> DEFINE Unaltered == \A j \in DOMAIN stored \ removed : stored'[j].subscriptions = stored[j].subscriptions
  <1>1. CASE Start(p)
    <2>1. PICK q : /\ Goes(p, q) /\ UNCHANGED <<published, stored, have, removed>>
                   /\ q = IF DOMAIN stored = {} THEN Idle ELSE Pass("visit", DOMAIN stored, stored)
      BY <1>1 DEF Start
    <2>2. IsPass(q) /\ PassFine(q)
      BY <2>1, IdleFields, IdleFine, NewPassFields, StartFine
    <2> QED
      BY <2>1, <2>2, WritelessStep
  <1>2. CASE Pause(p) \/ Leave(p)
    <2>1. PICK q : /\ Goes(p, q) /\ UNCHANGED <<published, stored, have, removed>>
                   /\ q = Onward(p) /\ pass[p].phase # "idle"
      BY <1>2 DEF Pause, Leave
    <2>2. IsPass(q) /\ PassFine(q)
      BY <2>1, OnwardFields, OnwardFine
    <2> QED
      BY <2>1, <2>2, WritelessStep
  <1>3. CASE Fetch(p)
    BY <1>3, FetchFine DEF Fetch
  <1>4. CASE FetchFails(p) \/ StoreFails(p) \/ ImportFails(p)
    <2>1. Goes(p, Idle) /\ UNCHANGED <<published, stored, have, removed>>
      BY <1>4 DEF FetchFails, StoreFails, ImportFails, Ends
    <2>2. IsPass(Idle) /\ PassFine(Idle)
      BY IdleFields, IdleFine
    <2> QED
      BY <2>1, <2>2, WritelessStep
  <1>5. CASE Store(p)
    <2>1. have' = have /\ removed' = removed
      BY <1>5 DEF Store
    <2> QED
      BY <1>5, <2>1, StoreFine
  <1>6. CASE Compare(p)
    BY <1>6, CompareFine DEF Compare
  <1>7. CASE Import(p)
    <2>1. UNCHANGED <<stored, removed>>
      BY <1>7 DEF Import
    <2> QED
      BY <1>7, <2>1, ImportFine
  <1> QED
    BY <1>1, <1>2, <1>3, <1>4, <1>5, <1>6, <1>7 DEF Proceed

\* What leaves the passes alone.
LEMMA PassesStay ==
  ASSUME DataInv, pass' = pass, have' = have, StoredGrows, StoredFine', PublishedFine'
  PROVE  DataInv'
  <1>1. PassesFine'
    <2> SUFFICES ASSUME NEW r \in Passes PROVE PassFine(pass[r])'
      BY DEF PassesFine
    <2>1. PICK s : s = pass[r]
      OBVIOUS
    <2>2. PassFine(s)'
      BY <2>1, PassStays DEF DataInv, PassesFine
    <2> QED
      BY <2>1, <2>2
  <1> QED
    BY <1>1 DEF DataInv, PassesShaped

LEMMA PutFine ==
  ASSUME DataInv, NEW i \in Indexes, PutSubscriptions(i)
  PROVE  DataInv'
  <1>1. i \in DOMAIN stored /\ UNCHANGED <<published, have, pass>>
    BY DEF PutSubscriptions
  <1> DEFINE old == stored[i].subscriptions
             New(c) == IF Contains(old, c) THEN Remove(old, c) ELSE Append(old, c)
  <1>2. PICK c \in Collections :
          /\ stored' = [stored EXCEPT ![i].subscriptions = Overlay(old, New(c))]
          /\ removed' = IF Contains(old, c) THEN removed \cup {i} ELSE removed
    BY DEF PutSubscriptions
  <1> DEFINE s == Overlay(old, New(c))
  <1>3. stored[i] = Document(stored[i].modified, stored[i].collections, old) /\ IsDocument(i, stored[i])
    BY <1>1 DEF DataInv, StoredFine, IsDocument
  <1>4. /\ DOMAIN stored' = DOMAIN stored
        /\ \A j \in DOMAIN stored \ {i} : stored'[j] = stored[j]
    BY <1>2
  <1>5. /\ stored'[i] = Document(stored[i].modified, stored[i].collections, s)
        /\ stored'[i].collections = stored[i].collections
        /\ stored'[i].subscriptions = s
    <2> HIDE DEF s, old
    <2>1. stored'[i] = [stored[i] EXCEPT !.subscriptions = s]
      BY <1>1, <1>2 DEF s, old
    <2>2. PICK m, cs : stored[i] = Document(m, cs, old)
      BY <1>3
    <2>3. stored'[i] = Document(m, cs, s)
      BY <2>1, <2>2 DEF Document
    <2>4. stored[i].modified = m /\ stored[i].collections = cs
      BY <2>2 DEF Document
    <2>5. stored'[i].collections = cs /\ stored'[i].subscriptions = s
      BY <2>3 DEF Document
    <2> QED
      BY <2>3, <2>4, <2>5
  <1>6. IsDocument(i, stored'[i])
    <2> HIDE DEF s, old
    <2>1. stored'[i].modified = stored[i].modified
      BY <1>5 DEF Document
    <2> QED
      BY <1>3, <1>5, <2>1 DEF IsDocument
  <1>7. ASSUME i \notin removed'
        PROVE  Begins(old, stored'[i].subscriptions)
    <2>1. ~Contains(old, c) /\ i \notin removed
      BY <1>2, <1>7
    <2>2. old \in Seq(Collections)
      BY <1>1, <2>1 DEF DataInv, StoredFine
    <2>3. s = Append(old, c)
      BY <2>1, <2>2, OverlayAppended
    <2> HIDE DEF s, old
    <2> QED
      BY <1>5, <2>2, <2>3 DEF Begins
  <1> HIDE DEF s
  <1>8. removed \subseteq removed'
    BY <1>2
  <1>9. ASSUME NEW j \in DOMAIN stored \ removed'
        PROVE  Begins(stored[j].subscriptions, stored'[j].subscriptions)
    <2>1. CASE j = i
      BY <1>7, <1>9, <2>1
    <2>2. CASE j # i
      <3>1. stored'[j] = stored[j] /\ j \notin removed
        BY <1>4, <1>8, <1>9, <2>2
      <3> QED
        BY <3>1, <1>9 DEF DataInv, StoredFine, Begins
    <2> QED
      BY <2>1, <2>2
  <1>10. StoredGrows
    BY <1>4, <1>8, <1>9 DEF StoredGrows
  <1>11. StoredFine'
    <2>1. \A j \in DOMAIN stored' : IsDocument(j, stored'[j])
      BY <1>4, <1>6 DEF DataInv, StoredFine
    <2>2. \A j \in DOMAIN stored' \ removed' : stored'[j].subscriptions \in Seq(Collections)
      BY <1>4, <1>9 DEF Begins
    <2> QED
      BY <1>4, <2>1, <2>2 DEF DataInv, StoredFine
  <1> QED
    BY <1>1, <1>10, <1>11, PassesStay DEF DataInv, PublishedFine

LEMMA DataInit == Init => DataInv
  <1> SUFFICES ASSUME Init PROVE DataInv
    OBVIOUS
  <1>1. PassesShaped
    BY IdleFields DEF Init, PassesShaped
  <1>2. \A p \in Passes : pass[p] = Idle
    BY DEF Init
  <1>3. PassesFine
    BY <1>2, IdleFine DEF PassesFine
  <1>4. \A i \in Indexes : 1 \in DOMAIN Publications[i]
    <2> TAKE i \in Indexes
    <2>1. Publications[i] \in Seq(Contents) /\ Publications[i] # <<>>
      BY PublicationAssumption
    <2> QED
      BY <2>1
  <1>5. PublishedFine
    BY <1>4 DEF Init, PublishedFine
  <1>6. /\ DOMAIN stored = Indexes
        /\ \A i \in Indexes : stored[i] = Document(1, Retrieved(i, 1), Subscribed[i])
    BY DEF Init
  <1>7. ASSUME NEW i \in Indexes
        PROVE  IsDocument(i, stored[i]) /\ stored[i].subscriptions \in Seq(Collections)
    <2>1. ContentOf(i, Retrieved(i, 1))
      BY <1>4, PublishedContent DEF Retrieved
    <2>2. Subscribed[i] \in Seq(Collections)
      BY SubscribedAssumption
    <2> QED
      BY <1>6, <2>1, <2>2 DEF IsDocument, Document
  <1>8. StoredFine
    BY <1>6, <1>7 DEF StoredFine
  <1> QED
    BY <1>1, <1>3, <1>5, <1>8 DEF DataInv

LEMMA DataStep == IInv /\ DataInv /\ [Next]_vars => DataInv'
  <1> SUFFICES ASSUME IInv, DataInv, [Next]_vars PROVE DataInv'
    OBVIOUS
  <1>1. ASSUME NEW p \in Passes, Proceed(p) PROVE DataInv'
    BY <1>1, ProceedFine
  <1>2. ASSUME NEW i \in Indexes, PutSubscriptions(i) PROVE DataInv'
    BY <1>2, PutFine
  <1>3. ASSUME NEW i \in Indexes, Publish(i) PROVE DataInv'
    <2>1. UNCHANGED <<stored, have, pass, removed>>
      BY <1>3 DEF Publish
    <2>2. StoredGrows /\ StoredFine'
      BY <2>1, StoredSame DEF DataInv
    <2>3. PublishedFine'
      <3>1. Publications[i] \in Seq(Contents)
        BY PublicationAssumption
      <3>2. published' = [published EXCEPT ![i] = published[i] + 1] /\ published[i] < Len(Publications[i])
        BY <1>3 DEF Publish
      <3>3. published[i] + 1 \in DOMAIN Publications[i]
        BY <3>1, <3>2 DEF DataInv, PublishedFine
      <3> QED
        BY <3>2, <3>3 DEF DataInv, PublishedFine, Init
    <2> QED
      BY <2>1, <2>2, <2>3, PassesStay
  <1>4. ASSUME NEW i \in Indexes, Delete(i) PROVE DataInv'
    <2>1. /\ UNCHANGED <<published, have, pass, removed>>
          /\ stored' = [j \in DOMAIN stored \ {i} |-> stored[j]]
      BY <1>4 DEF Delete, Restrict
    <2>2. StoredGrows
      BY <2>1 DEF StoredGrows, DataInv, StoredFine, Begins
    <2>3. StoredFine'
      BY <2>1 DEF DataInv, StoredFine
    <2> QED
      BY <2>1, <2>2, <2>3, PassesStay DEF DataInv, PublishedFine
  <1>5. CASE Restart
    <2>1. /\ UNCHANGED <<published, stored, have, removed>>
          /\ pass' = [p \in Passes |-> Idle]
      BY <1>5 DEF Restart
    <2>2. StoredFine'
      BY <2>1, StoredSame DEF DataInv
    <2>3. PassesShaped'
      BY <2>1, IdleFields DEF PassesShaped
    <2>4. PassesFine'
      <3>1. Idle.phase = "idle"
        BY IdleFields
      <3>2. PassFine(Idle)'
        BY <3>1 DEF PassFine, Phases
      <3> SUFFICES ASSUME NEW r \in Passes PROVE PassFine(pass[r])'
        BY DEF PassesFine
      <3>3. PICK s : s = Idle /\ pass'[r] = s
        BY <2>1
      <3> QED
        BY <3>1, <3>3 DEF PassFine, Phases
    <2> QED
      BY <2>1, <2>2, <2>3, <2>4 DEF DataInv, PublishedFine
  <1>6. CASE UNCHANGED vars
    <2>1. UNCHANGED <<published, stored, have, pass, removed>>
      BY <1>6 DEF vars
    <2>2. StoredGrows /\ StoredFine'
      BY <2>1, StoredSame DEF DataInv
    <2> QED
      BY <2>1, <2>2, PassesStay DEF DataInv, PublishedFine
  <1> QED
    BY <1>1, <1>2, <1>3, <1>4, <1>5, <1>6 DEF Next

LEMMA DataAlways == Spec => [](IInv /\ DataInv)
  <1>1. Init => IInv /\ DataInv
    BY InvInit, DataInit
  <1>2. (IInv /\ DataInv) /\ [Next]_vars => (IInv /\ DataInv)'
    BY InvStep, DataStep
  <1> QED
    BY <1>1, <1>2, PTL DEF Spec

KeptStep ==
  pass' # pass =>
    \A i \in (DOMAIN stored \cap DOMAIN stored') \ removed :
      stored'[i].subscriptions = stored[i].subscriptions

ForwardStep ==
  \A e \in have' \ have :
    ListedAlone(e.of) /\ KeepsPlace(e.of) => \A f \in HaveOf(e.of) : f.mod < e.mod

LEMMA StepsOfPasses ==
  ASSUME IInv, DataInv, [Next]_vars
  PROVE  KeptStep /\ ForwardStep
  <1>1. ASSUME NEW p \in Passes, Proceed(p) PROVE KeptStep /\ ForwardStep
    <2>1. KeptStep
      BY <1>1, ProceedFine DEF KeptStep
    <2>2. \/ have' = have
          \/ have' = have \cup {pass[p].entry} /\ EntryFine(Current(p), pass[p].entry)
      BY <1>1, ProceedFine
    <2>3. ForwardStep
      BY <2>2 DEF ForwardStep, EntryFine, Steady
    <2> QED
      BY <2>1, <2>3
  <1>2. ASSUME NEW i \in Indexes, Publish(i) \/ PutSubscriptions(i) \/ Delete(i)
        PROVE  KeptStep /\ ForwardStep
    BY <1>2 DEF Publish, PutSubscriptions, Delete, KeptStep, ForwardStep
  <1>3. CASE Restart \/ UNCHANGED vars
    BY <1>3 DEF Restart, vars, KeptStep, ForwardStep
  <1> QED
    BY <1>1, <1>2, <1>3 DEF Next

\* However passes overlap, whatever fails and whatever users do meanwhile, a pass that
\* writes back the document it read at its start leaves the subscriptions of an index as
\* users recorded them, as long as none was ended (updateFull merges).
THEOREM SubscriptionsStay == Spec => SubscriptionsKept
  <1>1. IInv /\ DataInv /\ [Next]_vars => KeptStep
    BY StepsOfPasses
  <1>2. Spec => [][KeptStep]_vars
    BY <1>1, DataAlways, PTL DEF Spec
  <1> QED
    BY <1>2 DEF SubscriptionsKept, KeptStep

\* Whatever the remote hosts publish and wherever passes fail, a collection that one index
\* lists, always in the same place, is imported version after newer version
\* (subscriptionHandler, and the mark that keeps a second pass out of an index).
THEOREM ImportsGoForward == Spec => ImportsForward
  <1>1. IInv /\ DataInv /\ [Next]_vars => ForwardStep
    BY StepsOfPasses
  <1>2. Spec => [][ForwardStep]_vars
    BY <1>1, DataAlways, PTL DEF Spec
  <1> QED
    BY <1>2 DEF ImportsForward, ForwardStep

=============================================================================
