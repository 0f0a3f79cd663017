------------------------ MODULE CollectionIndexSync ------------------------
(***************************************************************************)
(* The scheduled synchronisation of collection indexes                     *)
(* (scheduler/sync-collection-indexes-task.js) with the documents it works *)
(* on (collection-indexes-service.js, _base.repository.js) and what users  *)
(* do to them meanwhile.  The cron job starts a pass whether or not the    *)
(* one before has ended; a pass keeps the list of documents it read first. *)
(* Remote hosts publish index contents; an index lists versions of         *)
(* collections, and the bundles of those subscribed to are imported.       *)
(***************************************************************************)
EXTENDS Naturals, Sequences, SequencesExt, FiniteSets, FiniteSetsExt

CONSTANTS
  Order,          \* the ids of the collection indexes, all automatic, as find() lists them
  Publications,   \* for each index, the contents its remote publishes, one after the other
  Passes,         \* the passes that may be running at a time
  Collections,    \* the collections that indexes list and users subscribe to
  MaxSubscriptions, \* bound on the length of a subscription list
  Subscribed,     \* for each index, the subscriptions it is created with
  MaxEdits,       \* bound on what users do
  MaxFaults       \* bound on failures and restarts

Indexes == ToSet(Order)

ASSUME OrderAssumption ==
  /\ Order \in Seq(Indexes)
  /\ \A j, k \in DOMAIN Order : Order[j] = Order[k] => j = k

Contents == Seq([id : Collections, versions : Seq([of : Collections, mod : Nat])])

\* A listing offers versions of the collection it names.
ASSUME PublicationAssumption ==
  \A i \in Indexes :
    /\ Publications[i] \in Seq(Contents)
    /\ Publications[i] # <<>>
    /\ \A n \in DOMAIN Publications[i] : \A k \in DOMAIN Publications[i][n] :
         \A v \in ToSet(Publications[i][n][k].versions) : v.of = Publications[i][n][k].id

ASSUME SubscribedAssumption == Subscribed \in [Indexes -> Seq(Collections)]

VARIABLES
  published,   \* for each index, how much of it its remote has published
  stored,      \* the stored documents, by index id
  have,        \* the collection versions imported so far
  checking,    \* scheduledSubscriptions, an in-memory map
  pass,        \* the state of each pass
  failed,      \* auxiliary: the indexes of which an import failed since the process started
  removed,     \* auxiliary: the indexes of which a user ended a subscription
  edits,       \* auxiliary: what users did so far
  faults       \* auxiliary: the failures so far

vars == <<published, stored, have, checking, pass, failed, removed, edits, faults>>

-----------------------------------------------------------------------------
(***************************************************************************)
(* Documents.  modified counts publications; last_retrieval is left out:   *)
(* whether the interval since has elapsed is an open choice at every visit *)
(* (Pause or Fetch).                                                       *)
(***************************************************************************)
Document(m, c, s) == [modified |-> m, collections |-> c, subscriptions |-> s]

NoDocument == Document(0, <<>>, <<>>)

\* lodash merges arrays element by element, and never shortens the destination.
\* A slip to rule out: the array of the source takes its place.
Overlay_Replaces(old, new) == new

Overlay(old, new) == [k \in 1..Max({Len(old), Len(new)}) |-> IF k <= Len(new) THEN new[k] ELSE old[k]]

MergeListing(old, new) == [id |-> new.id, versions |-> Overlay(old.versions, new.versions)]

MergeCollections(old, new) ==
  [k \in 1..Max({Len(old), Len(new)}) |->
     IF k > Len(new) THEN old[k]
     ELSE IF k > Len(old) THEN new[k] ELSE MergeListing(old[k], new[k])]

\* updateFull: read the document, merge, save.
Merged(old, new) ==
  Document(new.modified, MergeCollections(old.collections, new.collections),
           Overlay(old.subscriptions, new.subscriptions))

Retrieved(i, n) == Publications[i][n]

-----------------------------------------------------------------------------
(***************************************************************************)
(* Passes.  todo is the set of indexes still to be looked at, one after    *)
(* the other in the order of the list read at the start, list the          *)
(* documents read then, got the publication retrieved, doc the document    *)
(* whose subscriptions are checked and left those not yet checked, entry   *)
(* the version being imported.                                             *)
(***************************************************************************)
NoEntry == [of |-> "none", mod |-> 0]

Pass(ph, todo, list) ==
  [phase |-> ph, todo |-> todo, list |-> list, got |-> 0, doc |-> NoDocument,
   left |-> <<>>, entry |-> NoEntry]

Idle == Pass("idle", {}, <<>>)

Current(p) == Order[Min({k \in DOMAIN Order : Order[k] \in pass[p].todo})]

Goes(p, state) == pass' = [pass EXCEPT ![p] = state]

\* The pass is over: it returned, or an error ended it.
Ends(p) == Goes(p, Idle)

\* On to the next index of the list, dropping what belonged to this one.
Onward(p) ==
  LET rest == pass[p].todo \ {Current(p)}
  IN IF rest = {} THEN Idle ELSE Pass("visit", rest, Restrict(pass[p].list, rest))

Fault == faults < MaxFaults /\ faults' = faults + 1

Edit == edits < MaxEdits /\ edits' = edits + 1

Init ==
  /\ published = [i \in Indexes |-> 1]
  /\ stored = [i \in Indexes |-> Document(1, Retrieved(i, 1), Subscribed[i])]
  /\ have = {}
  /\ checking = {}
  /\ pass = [p \in Passes |-> Idle]
  /\ failed = {}
  /\ removed = {}
  /\ edits = 0
  /\ faults = 0

\* retrieveAll; what it returns is the list of the whole pass.
Start(p) ==
  /\ pass[p].phase = "idle"
  /\ Goes(p, IF DOMAIN stored = {} THEN Idle ELSE Pass("visit", DOMAIN stored, stored))
  /\ UNCHANGED <<published, stored, have, checking, failed, removed, edits, faults>>

\* It is not yet time to retrieve this index.
Pause(p) ==
  /\ pass[p].phase = "visit"
  /\ Goes(p, Onward(p))
  /\ UNCHANGED <<published, stored, have, checking, failed, removed, edits, faults>>

\* retrieveByUrl answers.
Fetch(p) ==
  /\ pass[p].phase = "visit"
  /\ Goes(p, [pass[p] EXCEPT !.phase = "store", !.got = published[Current(p)]])
  /\ UNCHANGED <<published, stored, have, checking, failed, removed, edits, faults>>

\* retrieveByUrl fails: the error is logged, and reading modified of nothing ends the pass.
FetchFails(p) ==
  /\ pass[p].phase = "visit"
  /\ Fault
  /\ Ends(p)
  /\ UNCHANGED <<published, stored, have, checking, failed, removed, edits>>

IsNewer(p) == pass[p].got > pass[p].list[Current(p)].modified

\* The document the pass writes: the one it read first, with the content just retrieved
\* if that is newer.
Written(p) ==
  LET i == Current(p)  old == pass[p].list[i]
  IN IF IsNewer(p) THEN Document(pass[p].got, Retrieved(i, pass[p].got), old.subscriptions)
                   ELSE old

\* The subscriptions of doc are checked next, unless the index is marked.
\* A slip to rule out: the mark is not looked at.
Enter_Regardless(p, doc) ==
  /\ checking' = checking \cup {Current(p)}
  /\ Goes(p, [pass[p] EXCEPT !.phase = "check", !.doc = doc, !.left = doc.subscriptions])

Enter(p, doc) ==
  IF Current(p) \in checking
  THEN Goes(p, Onward(p)) /\ UNCHANGED checking
  ELSE /\ checking' = checking \cup {Current(p)}
       /\ Goes(p, [pass[p] EXCEPT !.phase = "check", !.doc = doc, !.left = doc.subscriptions])

Store(p) ==
  LET i == Current(p) IN
  /\ pass[p].phase = "store"
  /\ IF i \in DOMAIN stored
     THEN LET doc == Merged(stored[i], Written(p))
          IN /\ stored' = [stored EXCEPT ![i] = doc]
             /\ Enter(p, IF IsNewer(p) THEN doc ELSE Written(p))
     ELSE /\ IF IsNewer(p) THEN Ends(p) /\ UNCHANGED checking    \* null is dereferenced
                           ELSE Enter(p, Written(p))
          /\ UNCHANGED stored
  /\ UNCHANGED <<published, have, failed, removed, edits, faults>>

\* updateFull fails: the pass returns.
StoreFails(p) ==
  /\ pass[p].phase = "store"
  /\ Fault
  /\ Ends(p)
  /\ UNCHANGED <<published, stored, have, checking, failed, removed, edits>>

-----------------------------------------------------------------------------
(***************************************************************************)
(* subscriptionHandler.                                                    *)
(***************************************************************************)
Listings(p) ==
  {k \in DOMAIN pass[p].doc.collections :
     pass[p].doc.collections[k].id = Head(pass[p].left)}

\* The versions offered of the collection, in the first listing of its id.
Offered(p) ==
  IF Listings(p) = {} THEN {} ELSE ToSet(pass[p].doc.collections[Min(Listings(p))].versions)

Newest(entries) == CHOOSE e \in entries : \A f \in entries : f.mod <= e.mod

HaveOf(c) == {e \in have : e.of = c}

\* A slip to rule out: what the workbench has is not compared with.
Wanted_Always(p) == Offered(p) # {}

Wanted(p) == Offered(p) # {} /\ \A e \in HaveOf(Head(pass[p].left)) : e.mod < Newest(Offered(p)).mod

\* The latest version of the collection is retrieved from the database and compared.
Compare(p) ==
  /\ pass[p].phase = "check"
  /\ pass[p].left # <<>>
  /\ IF Wanted(p)
     THEN Goes(p, [pass[p] EXCEPT !.phase = "import", !.entry = Newest(Offered(p))])
     ELSE Goes(p, [pass[p] EXCEPT !.left = Tail(@)])
  /\ UNCHANGED <<published, stored, have, checking, failed, removed, edits, faults>>

\* The bundle is retrieved, and its collection object saved last of all.
Import(p) ==
  /\ pass[p].phase = "import"
  /\ pass[p].entry \notin have
  /\ have' = have \cup {pass[p].entry}
  /\ Goes(p, [pass[p] EXCEPT !.phase = "check", !.left = Tail(@), !.entry = NoEntry])
  /\ UNCHANGED <<published, stored, checking, failed, removed, edits, faults>>

\* The handler throws and the pass returns; the mark of the index stays.
ImportFails(p) ==
  /\ pass[p].phase = "import"
  /\ \/ pass[p].entry \in have /\ UNCHANGED faults      \* a duplicate collection
     \/ Fault
  /\ failed' = failed \cup {Current(p)}
  /\ Ends(p)
  /\ UNCHANGED <<published, stored, have, checking, removed, edits>>

\* A slip to rule out: the mark is left behind on success too.
Leave_KeepsMark(p) ==
  /\ pass[p].phase = "check"
  /\ pass[p].left = <<>>
  /\ Goes(p, Onward(p))
  /\ UNCHANGED <<published, stored, have, checking, failed, removed, edits, faults>>

Leave(p) ==
  /\ pass[p].phase = "check"
  /\ pass[p].left = <<>>
  /\ checking' = checking \ {Current(p)}
  /\ Goes(p, Onward(p))
  /\ UNCHANGED <<published, stored, have, failed, removed, edits, faults>>

-----------------------------------------------------------------------------
(***************************************************************************)
(* Everybody else: the remote hosts, time, users, and the process itself.  *)
(***************************************************************************)
Publish(i) ==
  /\ published[i] < Len(Publications[i])
  /\ published' = [published EXCEPT ![i] = @ + 1]
  /\ UNCHANGED <<stored, have, checking, pass, failed, removed, edits, faults>>

\* PUT /collection-indexes/:id of a document read before, with one subscription more or
\* less: the same merge.
PutSubscriptions(i) ==
  /\ i \in DOMAIN stored
  /\ Edit
  /\ \E c \in Collections :
       LET old == stored[i].subscriptions
           new == IF Contains(old, c) THEN Remove(old, c) ELSE Append(old, c)
       IN /\ Len(new) <= MaxSubscriptions
          /\ stored' = [stored EXCEPT ![i].subscriptions = Overlay(old, new)]
          /\ removed' = IF Contains(old, c) THEN removed \cup {i} ELSE removed
  /\ UNCHANGED <<published, have, checking, pass, failed, faults>>

Delete(i) ==
  /\ i \in DOMAIN stored
  /\ Edit
  /\ stored' = Restrict(stored, DOMAIN stored \ {i})
  /\ UNCHANGED <<published, have, checking, pass, failed, removed, faults>>

\* The process stops and starts again: passes and marks are lost.
Restart ==
  /\ Fault
  /\ checking' = {}
  /\ failed' = {}
  /\ pass' = [p \in Passes |-> Idle]
  /\ UNCHANGED <<published, stored, have, removed, edits>>

Proceed(p) ==
  \/ Start(p) \/ Pause(p) \/ Fetch(p) \/ FetchFails(p) \/ Store(p) \/ StoreFails(p)
  \/ Compare(p) \/ Import(p) \/ ImportFails(p) \/ Leave(p)

Next ==
  \/ \E p \in Passes : Proceed(p)
  \/ \E i \in Indexes : Publish(i) \/ PutSubscriptions(i) \/ Delete(i)
  \/ Restart

\* The cron job keeps firing and awaited calls are answered; an index that is visited
\* again and again is due again and again, for its interval elapses.
Fairness ==
  /\ \A p \in Passes : WF_vars(Proceed(p))
  /\ \A p \in Passes, i \in Indexes : SF_vars(Fetch(p) /\ Current(p) = i)

Spec == Init /\ [][Next]_vars /\ Fairness

-----------------------------------------------------------------------------
(***************************************************************************)
(* Properties.                                                             *)
(***************************************************************************)
Phases == {"idle", "visit", "store", "check", "import"}

Checks(p, i) == pass[p].phase \in {"check", "import"} /\ Current(p) = i

\* However passes overlap, one at a time checks the subscriptions of an index, and the
\* index is marked all the while.
OneChecker ==
  /\ \A p \in Passes, i \in Indexes : Checks(p, i) => i \in checking
  /\ \A p, q \in Passes, i \in Indexes : Checks(p, i) /\ Checks(q, i) => p = q

\* A pass, working on the documents it read at its start, leaves the subscriptions of an
\* index exactly as users recorded them meanwhile, in their order, unless one of them was
\* ended before: ending one moves those behind it, and element by element what the pass
\* read then takes the place of others, old or new.
SubscriptionsKept ==
  [][ pass' # pass =>
      \A i \in (DOMAIN stored \cap DOMAIN stored') \ removed :
        stored'[i].subscriptions = stored[i].subscriptions ]_vars

Lists(i, c) ==
  \E n \in DOMAIN Publications[i] : \E k \in DOMAIN Publications[i][n] :
    Publications[i][n][k].id = c

ListedAlone(c) == \A i, j \in Indexes : Lists(i, c) /\ Lists(j, c) => i = j

KeepsPlace(c) ==
  \A i \in Indexes : \A m, n \in DOMAIN Publications[i] :
    \A k \in DOMAIN Publications[i][m] \cap DOMAIN Publications[i][n] :
      Publications[i][m][k].id = c => Publications[i][n][k].id = c

\* Of a collection that one index lists, and always in the same place, versions are
\* imported in order: never one that is not newer than all those the workbench has.
\* (Contents are merged place by place: where listings move, the versions of one
\* collection end up under another.)
ImportsForward ==
  [][ \A e \in have' \ have :
        ListedAlone(e.of) /\ KeepsPlace(e.of) => \A f \in HaveOf(e.of) : f.mod < e.mod ]_vars

\* The workbench has of collection c what index i publishes of it, or newer.
UpToDate(i, c) ==
  LET content == Publications[i][published[i]]
  IN \A k \in DOMAIN content : content[k].id = c =>
       \A v \in ToSet(content[k].versions) : \E e \in HaveOf(c) : v.mod <= e.mod

\* Again and again, until for good, the workbench has the newest published versions of
\* the collections subscribed to in each index still there, unless an import of that
\* index has failed and left the index marked (what MarkedIsChecked is about).
EventuallyUpToDate == \A i \in Indexes : \A c \in Collections :
  []<>(i \in DOMAIN stored /\ Contains(stored[i].subscriptions, c) => UpToDate(i, c) \/ i \in failed)

\* sync-collection-indexes-task.js:111 and :148: of an index that is marked, the log says
\* that its subscriptions "are already being checked".
MarkedIsChecked == \A i \in checking : \E p \in Passes : Checks(p, i)

=============================================================================
