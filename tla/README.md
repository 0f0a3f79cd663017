# A formal model of the ATT&CK Workbench REST API

The ATT&CK Workbench REST API is a Node.js server over MongoDB that keeps the knowledge
base of MITRE ATT&CK: STIX objects in versions, relationships between them, collections
imported from elsewhere, and release tracks, in which an organisation stages what it is
going to publish. This directory holds TLA+ models of its logic, the TLC configurations
that check them, and TLAPS proofs. Every definition is translated from the code under
`src/`; `PROJECT.json` gives for each one the lines it stands for.

The server is one process with one event loop. Two requests interleave only where a
handler awaits something, nearly always a database call, and no handler uses a
transaction or a lock: what a request read before an await may be stale after it, and a
failure or a crash between two awaits leaves what was written before. That is what the
models are about.

## Inventory

| Component | State it keeps | Operations | What is hard about it |
| --- | --- | --- | --- |
| Release tracks: snapshots (`snapshot-service`, dynamic repository) | one MongoDB collection of snapshots per track, unique on (id, modified) | create, clone, save, tag in place, delete | copy-on-write without an expected version; timestamps taken before the save; no rollback |
| Release tracks: tiers (`standard-track-service`, `workflow-service`, `member-sync-service`, `conflict-resolution`) | candidates, staged, members and configuration inside a snapshot | add, review, promote, demote, withdraw, re-pin, replace, configure, synchronise | long sequences of legal calls; three promotions with policies |
| Release tracks: versioning (`versioning-service`, `version-utils`) | version and version_history of a snapshot, counters of the registry | bump latest, bump by timestamp, previews | each history knows only its own branch |
| Release tracks: registry | one entry per track with counters | insert, update, delete | written after the snapshots, dropped after them, never with them |
| Release tracks: virtual tracks | snapshots composed of tagged snapshots of other tracks | compose, preview, create snapshot, bump | components go on changing |
| Release tracks: ephemeral tracks, bundle import, export | none; new tracks from bundles | generate, import, export | a track made in three steps after its objects; an export that reads type by type while objects come and go |
| Scheduler: collection indexes (`sync-collection-indexes-task`) | index documents; the in-memory map `scheduledSubscriptions` | passes started by cron, whether or not the last one ended | overlapping passes over documents read at their start; marks that outlive failures |
| Scheduler: object validation | validation verdicts in documents | one pass over all documents | verdicts about a version read earlier, under rules loaded before |
| Object store (`base.service`, `hooks.service`, `_base.repository`) | versions of STIX objects, keyed by (stix.id, stix.modified) | create, add a version, update in place, delete, revoke | read, check, then save; several saves per request |
| ATT&CK IDs (`attack-id-generator`) | none: computed from the objects | generate, check uniqueness | two requests compute the same one |
| Techniques and conversion | techniques, their parent's `subtechnique-of` relationship | convert both ways, propagate tactic shortnames | checks before saves; listener does the second half |
| Relationships | relationship objects | create, deprecate, transfer | changed by event listeners |
| Embedded relationships (analytics, detection strategies, data components, data sources) | back references inside documents | add, remove, propagate | hooks of one request communicate through fields of a shared service object |
| Collections and bundles | collection objects, imported objects, references | import, export, delete | thousands of saves and no transaction |
| STIX bundle export | caches in fields of the service | select and order what a domain's bundle holds | one pass that adds on the way; caches shared by exports that overlap |
| System configuration, validation bypasses | one document per change of a setting; bypass rules | get, set; create and delete rules | every change stores all settings; listeners remake rules one by one and propagate identities |
| Users, teams, authentication | accounts, teams | register, log in, change role | races of registration |
| Notes, references, reports, recent activity | single documents | single reads and writes | little |
| Controllers, routes, middleware, migrations | none between requests | parse, dispatch, answer | nothing these models would show |

How they interact: controllers call services; services call repositories (MongoDB).
`EventBus.emit` (`lib/event-bus.js:60-90`) starts all listeners of an event at once, waits
for all of them and logs the ones that fail, so that one service's save triggers writes of
another inside the same request (revocation, conversion, embedded relationships, member
synchronisation of release tracks), and the request succeeds even when those writes do not
happen. The scheduler calls the same services from cron jobs. Nothing else is shared but
the database, a few caches, `scheduledSubscriptions`, and the fields in which some
singleton services keep what one hook passes to the next.

## What makes each component correct

- **Snapshots and versioning.** Snapshots are only added, tagged once, and deleted; a
  history is true and increasing; a release does not change any more; counters agree with
  the collection.
- **Tiers.** Nothing an editor put in a tier gets lost on its way to a release; one entry
  per object in staged; a release takes no object back to an older version; automatic
  promotion and member synchronisation leave nothing half done.
- **Virtual tracks.** What is composed is what the components had released, each object once.
- **Registry.** A track is listed exactly when its collection exists, under its own name.
- **Index synchronisation.** One pass at a time per index, users' subscriptions kept,
  versions imported in order, every subscription served in the end.
- **Object store, techniques, relationships.** A revoked object has a successor and stays
  revoked; its relationships move over, none twice; a subtechnique has one parent and no
  children; identifiers are unique.
- **Embedded relationships.** The reference and its back reference agree, whoever else is
  served meanwhile.
- **Imports.** What is imported is what the collection lists, and trying again after a
  failure completes it.
- **Bundle export.** Every object related to one of the domain is in it, and no revoked or
  deprecated one unless asked for.
- **System configuration.** A change of one setting keeps the others; rules and authors follow
  the settings; a verdict is about the version it is stored with.

`PROJECT.json` lists the hazards at their lines, those that no property covers yet included.

## Modules

| Module | Models | Used by |
| --- | --- | --- |
| `ConflictResolution` | `lib/release-tracks/conflict-resolution.js`: the five policies | `TierOperations` |
| `TierOperations` | what every editing request makes of the tiers and the configuration of a snapshot, as operators | `TierWorkflow`, `ReleaseTrack` |
| `TierWorkflow` | the latest snapshot of one standard track, one request after the other | `MCTierWorkflow`, `ReleaseTrackProofs` |
| `ReleaseTrack` | the collection of snapshots of one track, its registry counters and requests that interleave | `MCReleaseTrack`, `ReleaseTrackProofs` |
| `SnapshotLog` | the abstract promise: a log of snapshots, drafts appear, are released once, or withdrawn | `ReleaseTrack` (`Log`) |
| `CollectionIndexSync` | passes of the scheduler over collection indexes, users, remotes | `MCCollectionIndexSync`, `CollectionIndexSyncProofs` |
| `Techniques` | creation, new versions, conversion and revocation of techniques, with their relationships | `MCTechniques`, `TechniquesProofs` |
| `EmbeddedRelationships` | references between strategies, analytics, data components and data sources, their hooks, the fields of the services, the events and listeners that keep the back references | `MCEmbeddedRelationships`, `EmbeddedRelationshipsProofs` |
| `BundleExport` | the two services that export a domain as a bundle, with their caches | `MCBundleExport`, `BundleProofs` |
| `BundleImport` | the import of a collection bundle, collections and their deletion | `MCBundleImport`, `BundleProofs` |
| `Filter` | `Array.prototype.filter`, as a recursive function | `TierOperations`, `CompositionRules` |
| `CompositionRules` | filters and deduplication of the members of a virtual track, as operators | `TrackCatalog` |
| `TrackCatalog` | all tracks and the registry: creation, cloning, bundles, deletion, virtual tracks, export | `MCTrackCatalog`, `TrackCatalogProofs` |
| `SystemConfiguration` | settings, bypass rules, the boot checks, the objects they reach and the scheduled validation | `MCSystemConfiguration`, `SystemConfigurationProofs` |
| `Maxima` | no code: lemmas about the greatest and least elements of sets of numbers, induction and recursive functions | the proofs |

`MC*` modules hold the bounds of the runs, `*Proofs` modules the theorems. Definitions that
end in `_Word` (`Stamp_DropsHistory`, `FoundBy_Document`, ...) are slips: mistakes one could
make in the code they stand next to. Nothing uses them; `PROJECT.json` says under "mutants"
which property each of them breaks when it takes the place of the real definition.

### Release tracks

`TierOperations` gives for each operation the set of bodies it can result in,
`Results(op, body)`; the set is empty when the handler throws. A body has the three tiers,
as sequences in the order of the arrays, and the configuration. An entry names an object
(`ref`), a version of it (`mod`) and, outside the members, a review status. `TierWorkflow`
has one action per handler of `standard-track-service`, `workflow-service`,
`snapshot-service` (contents, configuration) and `member-sync-service`, and `Tag` for `_doBump`; auto-promotion is part
of the handler that triggers it. The variable `handler` only names the last action, for the
action properties. Filters and merges of arrays are recursive functions (`Kept` of `Filter` and the
loops of `ConflictResolution`), so that the proofs can speak of arrays of any length; a partial
configuration, as a `PUT` carries it, is part of one of `Settings`.

`ReleaseTrack` cuts the same requests at their awaits. `snaps` is the collection, a
function from `modified` to documents, for (id, modified) is its unique index. A request
is a record: `phase` says which database call comes next, `doc` is the document it carries
and `counts` the counters it computed. An edit goes stamp, save, recount, register, and
then perhaps stamp again (auto-promotion goes on from the clone it has in hand); a bump goes
tag, record; a deletion goes remove, recount, register. `Fail` ends a request anywhere.
The clock may stand still between two clones (timestamps have milliseconds), so that two
requests compute one timestamp; the second is refused by the index, unless the first
snapshot was deleted in between. `recycled` records that this happened, and the properties
are void from there on: a history entry then names another snapshot than the one it was
written about.

### Synchronisation of collection indexes

A pass (`runCheckCollectionIndexes`) is a record with the list of documents it read first,
the indexes still to visit, and where in `subscriptionHandler` it is. `checking` is
`scheduledSubscriptions`. `Merged` is the merge of lodash that `updateFull` applies to the
stored document: arrays are merged element by element and do not get shorter. Whether the
interval since the last retrieval has elapsed is a free choice at each visit. Remotes publish
(`Publish`), users put and delete index documents, the process restarts. The auxiliary `removed`
holds the indexes of which a user ended a subscription, where merging element by element has
the least fortunate effects: what the pass read takes the place of another subscription, old or
new. For the same reason the versions of a collection that moves within the contents of its
index end up under another one; `ImportsForward` is about those that keep their place.

### Techniques

`docs` is the log of all versions of techniques, and the latest version of a technique is
the last one in it; `rels` holds the latest version of each relationship. A request carries
the document composed (`doc`), the other technique (`other`), and the lists it read. `Save`
serves creations, new versions and conversions; `Mark`, `Link`, `ListRelationships`,
`Transfer` and `Settle` are the steps of `revoke()`, with what the listener of
`relationships-service` does when the event is emitted; `RelateParent` is the listener of
a conversion. `cut` names the techniques on which a request was cut short or a
relationship was not saved and the error logged only.

### Embedded relationships

`docs` is the log of versions of the four kinds, each with the references it makes (`refs`), its
embedded relationships (`rels`) and, for analytics, the strategy its URL leads to. A request goes
compose, save, announce (afterCreate or afterUpdate read the fields of the service), notify (the
listeners of the events, in any order, any of which may fail: `Overhear`), finish. `field` holds
`_addedAnalyticRefs` and its kin: they are left there by dry runs and rejected requests
(`soiled`), and taken over by the next request. `Merge` is the element-wise merge of a `PUT`.
`astray` names the objects on which a listener failed, a field was soiled or requests overlapped.

### Bundle export

`Db` is constant, the `Documents` of the run: the export writes nothing. `heap` holds the documents read; `cache`,
`domainCache` and `all` are the fields every export of a service shares. The steps are those of
`exportBundle`: primary objects, the ends of active relationships, then one pass over all
relationships, then notes, identities and markings. `options.legacy` chooses the service. Every
await of `getAttackObject` is a step of its own: the id is asked for, and answered later, while
another export of the service may begin and replace the fields. What needs no await is part of the
step before: `Onward` passes over the items of a list that call for nothing.

### Bundle import and collections

An import validates, looks for duplicates, then processes its objects tier by tier, with the
errors each may meet (`categorizeObject`, `Gated`, `ComposeErrors`), then its references, then the collection,
which the schema may refuse (`accepted`, as of any object): it is validated when it is saved, and
not before.
Versions are pairs, and `Text` is how the code compares them: as text.
`job` is the creation or deletion of collections, which looks first and deletes afterwards.

### Track catalogue

Each track is a function from timestamps to snapshots, `registry` the type of each track
registered. A request reads, then saves or drops, then registers or deregisters; a composition
validates the components one by one and resolves them in any order, while `Edit`, `Tag`,
`Withdraw` and `Write` change tracks and objects under it. An export fetches the pinned objects
type by type (`Hydrate`); a query that fails is only logged, and the bundle lacks the objects of
that type without saying so (`HydrateFails`). The auxiliary `floor` holds what a request may be
asked for: the newest releases of its components, or the objects stored all the while. What
happens inside one track is in `ReleaseTrack`: here an edit, a tag and the deletion of a snapshot
are one step each. `Edit` replaces the members of any snapshot of a track of either type, as
`updateContents` does; the auxiliary field `edited` says of a composed snapshot that this was done
to it or to what it was cloned from. The loops of `CompositionRules` are recursive functions, as those of the tiers
are.

### System configuration

`configs` is the log of configuration documents, the newest of which counts. A setter reads it
(`ReadConfig`), saves all settings with its own replaced (`SaveConfig`), and emits; the listeners
wipe rules and make them anew one at a time, and propagate the identity object by object.
`docs` holds the stored versions with their authors, errors and verdicts; the pass (`pass`) loads
the rules, reads with a cursor, and writes verdicts. `mode` is whether the process is starting,
up or stopped; the boot checks run at every start. `spoilt` says what excuses a property:
"overtaken" a change stored over one it had not read, "crossed" two changes of the namespace at
once, "rules" a listener cut short or a rule deleted.

## What the runs check

Runs that pass:

| Run | Shows |
| --- | --- |
| `tier_workflow` | Over every sequence of editorial calls that keeps at most three entries: `StagedOnePinPerObject`; `NewestWaitingSurvives`, no promotion, demotion, review or addition loses the newest version that waits; `ReleaseNeverRegresses`; `AutoPromotionSettles`, no candidate that qualifies stays behind without a reason; `SyncSupplants`, a synchronisation that replaces does not pile up entries. |
| `track_concurrent` | Two requests interleaved at every await, any of which may be cut short anywhere: `HistoryTruthful`, `HistoryIncreasing`, `ReleaseSealed`, and `LogSpec`, the refinement of `SnapshotLog`. |
| `track_sequential` | One request at a time, releases of the latest snapshot only, no failures: `RegistryCurrent`, through deletions of the latest snapshots too. It fails with two requests, with failures or with bumps of named snapshots, which is why it is asked here only; under those conditions it is proved for any number of snapshots. |
| `track_catalog` | Up to two requests on all tracks, interleaved with edits, releases, withdrawals and changes of the objects, and cut short anywhere: `CompositionSound`, a composed snapshot is exactly what its `composition_resolution` says, unless a user replaced its members since, and then its parts are still releases; `FreshWhenAsked`, no component is taken at an older release than the latest one when the request came in, unless that was deleted; `CatalogAgrees`, registry against collections; `ExportFaithful`, an exported bundle has every pinned version that was stored throughout, if its type has a repository that answered, and no other. |
| `index_sync` | Two passes that overlap over two indexes with a collection in common, a user's edit, a failure or restart, a new publication: `OneChecker`; `SubscriptionsKept`, for an index of which no subscription was ended (with one ended, a pass that read the index before loses another); `ImportsForward`, for a collection that one index lists in the same place always; and under fairness `EventuallyUpToDate`. |
| `techniques` | One request at a time, any of which may fail half way, over a technique, its subtechnique and a third one: `SuccessorRecorded`, `ActiveIdsDistinct`, `OneParent`, `StaysRevoked`, `RevocationSettles`, `TransferComplete`. All but the first fail with two requests: they may take the same ATT&CK ID, and a new version composed before a revocation and saved after it undoes it. The first is proved for any number of requests, the others for any sequence of them. |
| `embedded` | First and further versions and updates in place of a strategy, an analytic, a data component and a data source, and of a strategy and an analytic made meanwhile, with one mishap (a listener that fails, a dry run, a request rejected late): `ReferencedKnows`, `BackReferenceHolds`, `UrlLeadsToParent`, and `RepostHeals`, that posting the same references again repairs what went astray. |
| `bundle_export` | Two exports of one service that overlap, with relationships in two orders: `Complete`, against a definition that reads everything at once; `OnlyWanted`; `DomainsAsStored`; `DetectionsDerived`. |
| `bundle_import` | Two imports, forced or not, over the same objects, and one other request among their steps: `ContentsAccounted`, every entry of an imported collection is stored, reported or the collection itself; `NoHalfImport`, a validated import that fails alone leaves nothing, or all of its bundle that can be stored when what fails is the collection; `SharedKept`; `HistoryKept`. |
| `system_configuration` | Two requests change settings, rules and objects, while the process may stop or a listener fail once and one pass of the validation runs: `SettingsKept`, `RulesFollowSettings`, `PassSettles`. |

Runs that find a disagreement between the code and what its documents or comments say (see
"findings" in `PROJECT.json`, with the lines):

| Run | Shows |
| --- | --- |
| `stale_mark` | When an import fails, the index stays marked as being checked until the server restarts, and no pass checks its subscriptions. |
| `authors_follow` | When the identity of the organisation changes, the documents saved for the objects it had made are no versions of them, so that their newest versions keep the former author. |

### Divergences noticed

Met while modelling and not the subject of a run. Of the code against a document, comment or
message:

- One version of an object can be in candidates and in staged: add it, promote it, add it again
  (`standard-track-service.js:454`; `docs/developer/release-tracks/implementation-notes.md:18`).
- With `staged_to_members: always_reject` an entry turned away at a release is in no tier
  afterwards (`versioning-service.js:113`); `release-workflow.md:298` says that it stays.
- Two snapshots of a track can carry one version: clone a draft, tag it, tag the draft it was
  cloned from with the same number (`versioning-service.js:49`; `versioning.md:156`).
- Revoke the technique with the highest number and create another: it gets the same ATT&CK ID
  (`attack-id-generator.js:234` against `:121`).
- A technique can be converted to a subtechnique of a revoked technique, or of one that has become
  a subtechnique itself, since its old versions still bear the ID (`techniques-service.js:293`;
  `technique-conversion-workflow.md:32`).
- The members of a composed virtual snapshot can be replaced by request and the result released,
  with the `composition_resolution` of the members before (`snapshot-service.js:355`;
  `virtual-tracks.md:192` and `:1201`).
- The preview of a bundle whose collection lacks a name succeeds; its import stores all objects and
  references and then fails (`import-bundle.js:667`, `collection-model.js:9`;
  `stix-bundle-import.md:30`).
- The first version of a strategy announces what an earlier dry run left in the fields instead of
  all it references (`detection-strategies-service.js:157`, against the comment at `:155`), and
  `_assertAnalyticRefsAreUnique` is not awaited, so that it never refuses anything.
- A strategy may be exported in an old version, the newest that still refers to the analytic
  (`detection-strategies-repository.js:133`, against the comment at `:130`).
- Versions of imported objects are compared as text: 10.0 counts as older than 9.1
  (`import-bundle.js:119`; `docs/user/stix-bundle-import.md:151`).
- `findByIdAndUpdate` gets a lean document without its id, so that nothing is unlinked
  (`collections-service.js:252`, against the comment at `:248`).
- A clone without a name gets one with parentheses, which the schema of names refuses
  (`snapshot-service.js:251`; `api-reference.md:352`).
- Creating a virtual track does not validate its composition; `virtual-tracks.md:720` says it does.
- The scheduled validation looks at revoked and deprecated objects, which its comment and
  `docs/developer/workspace-validation.md` say it skips; it compares only the number of errors.

Besides: two revocations, each of the other object's successor, leave an object that is revoked by
itself after a transfer with preserved relationships; a deprecated relationship of the successor
keeps its equivalent from being transferred; after a deletion the number of releases in the
registry counts the deleted one until the next draft is saved; a relationship one end of which is
not stored makes an export fail (`stix-bundles-service.js:761`); an import that forces the
specification's version throws among the tiers when the version is no version; two imports that
create the same reference make one fail after its objects were saved (`import-bundle.js:625`); a
track made from a bundle takes the name of the collection, and when that is refused all its
objects are imported already (`bundle-import-service.js:233`); equal versions from two components
of a virtual track count as a conflict; a bypass rule of the file that is skipped as a duplicate
of one made for a setting disappears with that one until the next start.

### Bounds

| Bound | Value | Why it is enough |
| --- | --- | --- |
| `MaxEntries` | 3 | A conflict needs two versions of an object in one call and one more in the tier it goes to, or another object besides. Three versions of one object and one of another are offered; the configurations are three that differ in every setting, and a partial one. |
| `MaxTime` | 3 (concurrent), 4 (sequential) | Races are about a source, the clone of one request and that of the other, with equal or different timestamps. In the sequential run two releases with drafts before and after, and deletions of any of them. |
| Tiers in `track_*` | one version | There the tiers only matter for whether something can be staged, released and withdrawn; what operations do to tiers is the subject of `tier_workflow`. |
| `Explicit` | 1.1 | A number that is greater than the first release, and refused after 2.0. |
| `Publications` | 2 and 1 | A new version, a new collection in the same index, and a collection that two indexes list. |
| `MaxSubscriptions`, `MaxEdits`, `MaxFaults` | 2, 1, 1 | A user edits while passes run; a failure anywhere, once. Two faults only make the passes start anew. |
| `MaxDocs`, `MaxRels` | 5, 7 | Three versions beyond the two at the start: a creation and a conversion before a revocation, a chain of two revocations. Relationships: the transfer of three, and what two users' requests add. |
| `embedded`: `MaxDocs`, `MaxMishaps` | 6, 1 | Two versions beyond the four at the start: a reference taken up by one and dropped by the other; what a listener writes is in place and not counted. One request at a time. |
| `bundle_export` | thirteen objects, nine relationships in two orders | Each further end once: revoked by, attributed to, detected by, uses across domains, a data source, a component that names none (on which the export fails), a note, and an end that is not stored. The orders are each other's reverse, so that whatever precedes in one follows in the other. Five requests: both services for the first domain, the other domain with and without its extras. |
| `bundle_import`: `MaxJobs`, `MaxOthers` | 1, 1, not both | The twelve requests hold an object in two versions, a marking definition created twice, one object for each error, a collection that the schema refuses, and every way to force or preview; a deletion or an export is what can come between two steps. |
| `track_catalog`: `MaxTime`, `MaxRequests`, `MaxEdits` | 4, 2, 2, of the last two at most 3 together | A composition against an edit and a release, or against another request and one edit. Two components that disagree about an object, with each of the four strategies. |
| `system_configuration`: `MaxDocs`, `MaxChanges`, `MaxPasses`, `MaxStops` | 3, 2, 1, 1 | Two changes that cross and their listeners; a document read by the pass and written by a request; a stop during the boot checks or between two rules. |

`TrackConcurrent.cfg` has a `VIEW` that leaves the counters out: no guard of an action reads
them and no property of that run does. Its `SYMMETRY` permutes
requests, which no definition tells apart, and the run checks no liveness. Its `CONSTRAINT`
stops at states that are `recycled`, where all its properties are void for good. Deadlock is
checked where the system goes on forever under the bounds (`tier_workflow`, `index_sync`);
elsewhere the bounds on time, documents, relationships and requests let it stop, and the cfg says
so. The constraints of `bundle_export` (`OneService`), `bundle_import` (`OneOther`) and
`track_catalog` (`MCBound`) are bounds in the same sense: they cut off further requests.

### Fairness

Only `CollectionIndexSync` assumes any. Weak fairness of the steps of each pass: the cron
job fires again and again, and a database or HTTP call that is awaited is answered, with an
error perhaps. Strong fairness of `Fetch` for each index: at every visit it is open whether
the interval of the index has elapsed, and since time goes on it has elapsed again and again.
Publications, edits, failures and restarts are not assumed to happen. A failed import is
excused in `EventuallyUpToDate` (`i \in failed`) since it leaves the mark that
`stale_mark` is about; everything else is not.

## What is proved

TLAPS proves the following for every value of the constants; the runs show most of it on small
instances. Each proof module states its inductive invariant at its beginning, or where the part
of it begins that needs more; one lemma per action, or per group of actions that touch the same
state, shows that a step keeps it. The type invariants of the modules, `CopiesFaithful`,
`TiersWellFormed` and `PartsAreReleases` are stated for the proofs and only proved.

**Release tracks** (`ReleaseTrackProofs`). The inductive invariant is `IInv`: the type
invariant, `NoReuse` (a deleted timestamp is not stored), `HistoryTruthful`,
`HistoryIncreasing`, `ReleaseSealed` and `CopiesFaithful`. The last one is what makes it
inductive: histories are computed from copies read several awaits ago, so that what is
stored stays true only if what every request carries is true, and a tag produces a sealed
release only if the copy to be tagged is still the stored draft, which holds since nothing
but a tag changes a snapshot in place. `TypeStep` and `InvStep` take the actions one by
one; the theorems `TypeCorrect`, `HistoriesTrue`, `HistoriesIncrease`, `ReleasesSealed` and
`CopiesStayFaithful` follow. `ImplementsLog` proves `Spec => LogSpec`: under `IInv` a `Save`
is a `Publish` of the log, a `Tag` a `Release`, an `Erase` a `Withdraw`, a save at a deleted
timestamp `Void`, and everything else a stutter. Assumptions: `TimeAssumption`,
`ExplicitAssumption`. Nothing is assumed of the tiers, so that the theorems hold of whatever
the editing operations make of them. `RegistryAgrees` is about the counters, which are right
only while requests come one after the other: its hypotheses are that there is one request at
a time, that it is on the latest snapshot, and that none fails. Its invariant `TurnInv` says
for each phase of the request what it has counted, and in `LatestCounted` why a count taken
from one history is a count of the collection: the latest snapshot's history tells of all
releases, unless some were deleted.

**Tiers** (`ReleaseTrackProofs`). Here the invariant is small (`TierInv`: the tiers are well formed, and staged
pins no object twice) and the work is in what the operations compute. `KeptFacts` and
`PolicyApplied` say of the filters and of the merge under a conflict policy, for lists of any
length, what is in the result, what is rejected and why; they are inductions over the length of
the array. The library's induction theorems take a predicate as a parameter, which the provers
here cannot instantiate; `SetInduction` of `Maxima` takes the set of numbers for which a
statement holds instead. On those rest `PromotionFacts`, `AutoPromotionFacts`, `ReleaseFacts` and
`SyncFacts`, one for each operation, and on these the theorems: `StagedPinsOnce`, `NewestWaits`,
`ReleaseGoesForward`, `PromotionComplete` and `SyncReplaces` (the five properties of the run).
Assumptions: `VersionsAssumption`, `ConfigsAssumption`.

**Virtual tracks and the registry** (`TrackCatalogProofs`). `RegistryAndCollectionsAgree`: the
invariant `CatalogInv` needs `Sole`, that a request about to create a track is alone with its
identifier, and `Underway`, what a request half done can count on. `CompositionsAreFresh`: the
snapshots that had to be known when the request came in are still there or no longer count
(`Aware`), and what was found is no older (`Timely`). `CompositionsNameReleases`: every part of a
`composition_resolution` names a release that a standard track made, for which the phases of a
request remember which components were validated (`Checked`) and tracks never change their type
(`OneType`).

`CompositionsAreSound` adds that the members and the quarantine account for what these releases
offer. Most of it is about what `resolveComposition` computes, for component lists, filters and
members of any length: the entries stand one to one for the offers (`EntriesStand`), a strategy
takes of the entries of one object one that no other beats (`WinnerPreferred`,
`ChoiceUnbeaten`), and `deduplicate` takes each object once or sets all of its versions aside
(`DeduplicateSettles`); together these are `ComposedAccounts`. The invariant `ContentInv` then
carries the statement through everything that copies a snapshot: clones to other tracks, drafts,
tags, edits, and documents that requests hold while a track is deleted under them. An edit of
members leaves a resolution behind whose parts are true and whose account is not (`edited`), until
the track is composed anew. It needs that a request which is to fill a track with the members of a
bundle (`Stocked`) has no resolution. `ExportsAreFaithful` rests on `ExportInv`: what an export has fetched is pinned, and
whatever is pinned, still stored and of a type already asked for has been fetched (`Fetching`).
Assumption: `CatalogAssumption`, that the tracks at the start are of one type each, that members
are pins, lists of them finite, and that components name known tracks.

**Bundle import** (`BundleProofs`). `SharedObjectsKept` and `HistoriesKept` follow from
`ImportInv`: collections come from a request or an import that ended, an import only writes back
what the same author made (`Origins`), and since a deletion looked, only imports it saw may have
saved a collection (`Unlisted`). `ImportsAccount` adds `AccountInv`: every entry of the bundle is
still to come, stored, blamed, or stolen by a deletion. `FailedImportsAllOrNothing` is about
an import alone (`Undisturbed`): nothing that would make a tier throw gets past the validation,
unless the request forces it, so that only the collection can fail; and what can be stored of the
bundle is then stored, for until then it was in a tier to come or composed and pending
(`Arriving`). Assumption: `ImportAssumption`.

**Index synchronisation** (`CollectionIndexSyncProofs`). `OneCheckerAtATime`: however many
passes run, at most one checks the subscriptions of an index, and the index is marked
meanwhile. The invariant is `MarkedAlone`, that statement without the name of the index,
with `PassesShaped`, that a pass is a record. It is inductive because `Enter` looks at the
mark and sets it with no await in between, and only the pass that set it takes it away;
a restart takes away the marks and the passes at once. `SubscriptionsStay` and
`ImportsGoForward` are action properties and need `DataInv`: what a pass has read begins what is
stored (`ReadFine`), so that merging it back changes nothing, and what it is about to import is
newer than all the workbench has (`EntryFine`), for as long as it holds the mark nobody else
imports it. Assumptions: `OrderAssumption`, `PublicationAssumption`, `SubscribedAssumption`.

**Techniques** (`TechniquesProofs`). `TypeCorrect`, and `SuccessorsRecorded`: a technique
marked as revoked has its successor recorded, or the request that marked it is about to, or
was cut short on it. The invariant adds `CarriedRecorded`: the same of every document a
request carries, for a new version copies `revoked` from what it read. Both hold for any number
of requests. The five sequential properties of the run are proved for one request at a time
(`Requests = {r}`), of any length and cut short anywhere: `AloneInv` says for each phase
what the request knows of a store that nobody else changes (`Stage`, `Deprecating`,
`Transferring`), and of the hierarchy which relationships stand meanwhile (`Parents`). It needs
that the ID generated for a technique is free, which is a statement about the greatest element of
a finite set (`FiniteMax`). Assumptions: `InitAssumption`, that the documents at the start are
well formed and none of them revoked, and `OrderAssumption`, that their ATT&CK IDs are distinct
and their hierarchy is in order.

**System configuration** (`SystemConfigurationProofs`). One invariant, `IInv`, for three theorems.
`SettingsAreKept`: the newest document is what was set last, but for changes stored over one another.
`RulesKeepUp`: each rule that the newest settings call for exists or some request still owes it
(`Due`), and the listeners of at most one change of the namespace are at work (`OneNamespace`).
`VerdictsAreRight`: the cursor of a pass has right verdicts behind it (`PassInv`), although a
verdict with the same number of errors is not rewritten; that is enough because while nothing is
touched, an existing verdict is of the same version under the same rules. Assumptions:
`IdentityAssumption`, `BootAssumption`, `MigrationAssumption`, `StaticAssumption`.

**Embedded relationships** (`EmbeddedRelationshipsProofs`). `ReferencedKnowsHolds`,
`BackReferencesHold`, `UrlsLeadToParents` and `RepostsHeal`, the four properties of the run, for any
number of objects, requests and mishaps. The first two are two directions of one statement about a
pair, `Agree`, which is false while a request is announcing; `IInv` therefore says where the missing
half is at that time. Before the save it is in the document and in the fields of the service
(`CarriesOver`, `Remembers`), after it in the fields alone (`Outstanding`), and then in the events
not yet handled (`Notifying`); `Knit` has `Agree` for every pair of which no request is telling.
`FieldsOwned` is needed because the fields belong to nobody: what one holds is that of a request
that clears it, or the service is `soiled`. `Alone` is what `astray` leaves: a request on an object
that did not go astray has the services for itself. `Reposting` is the part for `RepostsHeal`, which
may not use that its object is not astray. Assumptions: `DisjointAssumption`, that an id has one
type, and `StoreAssumption`, that the documents at the start are well formed and their back
references agree, as those of an empty store do.

**Bundle export** (`BundleProofs`). `ExportInvariance`: the invariant `ExportInv`, for any
documents, any orders in which relationships may be read, and any number of exports that overlap.
Its parts follow the code:

- `Faithful`, `CacheOK` and `WellFormed`: a document at hand is a version of what its id names, and
  only groups, campaigns and others whose domains nobody checks have changed ones. With `FitBundle`
  (what is in a bundle was found to fit) this is `OnlyWantedHolds`, which needs no assumption about
  overlap: whatever another export did to a shared document, it did not change whether it fits.
- `Connected`: a relationship with a primary object is still to be processed or has its ends in the
  bundle; `Settling` says the same of the pass over all relationships. An export reads each
  relationship once and its bundle grows meanwhile, so `Settling` is about the relationships of
  what was gathered before the pass (`Secondary`), which is all that `Complete` requires of it.
  `Own` says that the relationships are those this export read. `CompleteHolds` follows with
  `Listing`.
- `Private`, `Changed`, `Collecting` and `Domained`: an export that overlaps no other has read its
  documents itself; a document whose domains differ from the stored ones is in the bundle and has
  the stored ones in `domainCache`; hence what it collects for a group are stored domains, however
  many groups were changed before. `DomainsAsStoredHolds` follows.
- `Recording` and `Sourcing`: each detection is recorded before the relationship is passed, and the
  data source of a component in the bundle is looked up or the export fails. From them
  `DetectionsDerivedHolds`, for exports that overlap too.

Assumptions: `DocumentsAssumption` (finitely many ids, a stored id has a version, all of one type),
`OrdersAssumption` (every order lists the same relationships), `OptionsAssumption`, and
`NullAssumption`, that what is undefined is no id, list or address.

Only model-checked: `EventuallyUpToDate`, since liveness is out of the prover's reach. The
disagreements that `stale_mark` and `authors_follow` look for are counterexamples of TLC.

## What is abstracted, and not modelled

Within the modelled components:

- Contents of objects, names, descriptions, markings and formatting are left out; an object
  is an identifier, a version of it a number. Validation of what a client sends is assumed
  to accept it. Dry runs and previews change no state.
- Release tracks (`ReleaseTrack`, `TierWorkflow`): the registry entry is assumed to be
  there, which is the subject of `TrackCatalog`. The clock does not go backwards. A tier may
  pin a version that does not exist, as in the code; nothing is promised of it.
- Track catalogue: the members an edit gives a snapshot stand for all that a draft may become,
  and versions are numbers. Objects of a bundle come in the order of their dependencies; a track's name
  is the one given or a copy's. Stamping a release and saving it are one step. The renaming
  of the registry entry before its clone is saved, and the composition a concurrently
  composed snapshot overwrites, are not covered.
- Index synchronisation: `updateFull` reads, merges and saves in one step; the import of a
  bundle is one step, which saves its collection object. Indexes that are not automatic are
  left out, since passes skip them.
- Techniques: their deletion and deprecation are left out, and what a `PUT` does, which
  changes none of the fields modelled. Documents are saved in the order of their
  `stix.modified`. A client that posts a new version sends back what it has read; it could
  also change `x_mitre_is_subtechnique`. The frontend relates a subtechnique it has created
  to the technique whose ID it bears; other relationships of users are `uses` ones. The two
  listings before a transfer are one step. Relationships are deprecated in a fixed order,
  which nothing depends on.
- Embedded relationships: requests are served one at a time in the run, so what concurrent
  listeners of one document may duplicate is not explored. Deletion emits no event and is
  left out; the import path skips the rewriting of external URLs. A new data component takes
  its relationships from the request; a posted analytic announces no data component it no
  longer names, as in the code.
- Bundle export: the store does not change while exports run; documents are read one by one,
  relationships and primary objects each at once. The conversion of LinkById text, `conformToStixVersion`, the caches of identities and marking
  definitions, the older LinkById and collection copies and the filter by workflow state are
  left out.
- Bundle import: the objects of a bundle have distinct keys. Of what the store may refuse,
  the model has the failing prefetch of an object's versions and the duplicate; a lost
  database connection elsewhere is left out, and so are `afterCreate` events, the references
  an import deletes or updates on request, streaming and retrieval. The export of a
  collection is one step without its derived data sources and notes. Relationships and
  marking definitions are never deleted together with the contents of a collection.
- System configuration: markings of the defaults, the list of invalid collections,
  namespaces, teams and accounts are left out. A validation pass reads the bypass rules once;
  when that fails it has none. Configurations created in the same millisecond are not
  distinguished from ordered ones. No fairness is assumed there.

Components that are not modelled are listed in `PROJECT.json` with the reason: ephemeral
tracks (a pure reading of the store), tactics' short names, users, teams and authentication,
notes, references, reports and recent activity (single documents read or written),
migrations, and the wiring of controllers, routes, middleware and configuration.

## Plan

What is left, in this order:

1. **Composition**: `CollectionIndexSync` takes the import of a bundle as one step; it could rest
   on what `BundleImport` promises instead.
2. **Renaming and propagation**: the registry entry renamed before its clone is saved
   (`snapshot-service.js:298`), tactics' short names propagated to techniques, and the
   registration of user accounts.
3. **A store that changes under an export**, and several requests at a time on embedded
   relationships: the first is not modelled, the second is excused in the properties, and what
   then still holds is open.
