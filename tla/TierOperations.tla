--------------------------- MODULE TierOperations ---------------------------
(***************************************************************************)
(* What each handler of a standard release track does to the tiers of one  *)
(* snapshot (services/release-tracks/standard-track-service.js,            *)
(* workflow-service.js, member-sync-service.js, snapshot-service.js and    *)
(* the promotion of versioning-service.js), as functions from the body of  *)
(* the snapshot a handler read to the body of the clone it saves.          *)
(*                                                                         *)
(* A body is [members, staged, candidates, config].  Entries keep what the *)
(* code decides on: object_ref (ref), object_modified (mod) and, outside   *)
(* members, object_status (status).  Author and time stamps are left out.  *)
(***************************************************************************)
EXTENDS ConflictResolution, Filter

CONSTANTS
  Versions,     \* the object versions in play, records [ref, mod]
  Configs       \* the partial configurations a PUT /config may carry

ASSUME VersionsAssumption == Versions \subseteq [ref : {v.ref : v \in Versions}, mod : Nat]

(***************************************************************************)
(* Workflow states and their STATUS_RANK.                                  *)
(***************************************************************************)
Statuses == {"wip", "awaiting", "reviewed"}

StatusRank == [wip |-> 0, awaiting |-> 1, reviewed |-> 2]

(***************************************************************************)
(* The configurations of a track; candidates_to_staged has no 'abort'.  A  *)
(* request gives some fields of one.                                       *)
(***************************************************************************)
Settings ==
  [threshold : Statuses, autoPromote : BOOLEAN,
   candidatesToStaged : Policies \ {"abort"}, stagedToMembers : Policies,
   strategy : {"track_latest", "manual"}, behavior : {"replace", "queue", "ignore"},
   statusPolicy : {"reset", "preserve"}]

ASSUME ConfigsAssumption ==
  \A c \in Configs : \E d \in Settings : \A f \in DOMAIN c : f \in DOMAIN d /\ c[f] = d[f]

\* A slip to rule out: a candidate has to exceed the threshold.
MeetsThreshold_Exceeds(status, threshold) == StatusRank[status] > StatusRank[threshold]

MeetsThreshold(status, threshold) == StatusRank[status] >= StatusRank[threshold]

(***************************************************************************)
(* The configuration the snapshot schema gives a new track.                *)
(***************************************************************************)
DefaultConfig ==
  [threshold |-> "reviewed", autoPromote |-> TRUE,
   candidatesToStaged |-> "prefer_latest", stagedToMembers |-> "abort",
   strategy |-> "track_latest", behavior |-> "replace", statusPolicy |-> "reset"]

EmptyBody ==
  [members |-> <<>>, staged |-> <<>>, candidates |-> <<>>, config |-> DefaultConfig]

Candidate(ref, mod, status) == [ref |-> ref, mod |-> mod, status |-> status]

MemberEntry(e) == [ref |-> e.ref, mod |-> e.mod]

SameVersion(e, f) == e.ref = f.ref /\ e.mod = f.mod

HasVersion(tier, e) == \E i \in DOMAIN tier : SameVersion(tier[i], e)

WithRefs(tier, refs)    == Kept(tier, {e \in Range(tier) : e.ref \in refs})
WithoutRefs(tier, refs) == Kept(tier, {e \in Range(tier) : e.ref \notin refs})
RefsOf(tier)            == {e.ref : e \in Range(tier)}

MapEntries(tier, Change(_)) == [i \in DOMAIN tier |-> Change(tier[i])]

(***************************************************************************)
(* addCandidates: entries already in candidates are skipped; the request   *)
(* itself, staged and members are not looked at.                           *)
(***************************************************************************)
AddCandidates(b, pins) ==
  LET fresh == Kept(pins, {p \in Range(pins) : ~HasVersion(b.candidates, p)})
  IN [b EXCEPT !.candidates =
        @ \o [i \in DOMAIN fresh |-> Candidate(fresh[i].ref, fresh[i].mod, "wip")]]

CanRemoveCandidate(b, ref) == Pinned(b.candidates, ref)

RemoveCandidate(b, ref) == [b EXCEPT !.candidates = WithoutRefs(@, {ref})]

(***************************************************************************)
(* reviewCandidates: a forward-only transition of the entries in state     *)
(* from, restricted to refs when the request names some.                   *)
(***************************************************************************)
CanReview(from, to) == StatusRank[to] > StatusRank[from]

ReviewCandidates(b, from, to, refs) ==
  [b EXCEPT !.candidates =
     MapEntries(@, LAMBDA c : IF c.status = from /\ c.ref \in refs
                              THEN [c EXCEPT !.status = to] ELSE c)]

(***************************************************************************)
(* Promotion of every candidate of the given objects, shared by            *)
(* promoteCandidates and by _promoteToStaged.  What the policy rejected is *)
(* put back by object, not by version.  candidates_to_staged has no        *)
(* 'abort'.                                                                *)
(***************************************************************************)
CanPromote(b, refs) == WithRefs(b.candidates, refs) # <<>>

Promotion(b, refs) ==
  ApplyConflictPolicy(b.staged, WithRefs(b.candidates, refs), b.config.candidatesToStaged)

\* A slip to rule out: what the policy turned away is not put back.
PromoteRefs_DropsRejected(b, refs) ==
  [b EXCEPT !.staged = Promotion(b, refs).merged,
            !.candidates = WithoutRefs(@, refs)]

PromoteRefs(b, refs) ==
  LET promotion == Promotion(b, refs)
  IN [b EXCEPT !.staged = promotion.merged,
               !.candidates = WithoutRefs(@, refs)
                              \o WithRefs(@, refs \cap RefsOf(promotion.rejected))]

(***************************************************************************)
(* evaluateAutoPromotion: runs on the clone an add or a review has just    *)
(* saved, and promotes every candidate of an object with a qualifying one. *)
(***************************************************************************)
QualifyingRefs(b) ==
  {c.ref : c \in {d \in Range(b.candidates) : MeetsThreshold(d.status, b.config.threshold)}}

AutoPromotes(b) == b.config.autoPromote /\ QualifyingRefs(b) # {}

AutoPromotion(b) == IF AutoPromotes(b) THEN PromoteRefs(b, QualifyingRefs(b)) ELSE b

(***************************************************************************)
(* updateCandidateVersion: the pin moves, the status stays.                *)
(***************************************************************************)
CanUpdateVersion(b, ref, old) == HasVersion(b.candidates, [ref |-> ref, mod |-> old])

UpdateVersion(b, ref, old, new) ==
  [b EXCEPT !.candidates =
     MapEntries(@, LAMBDA c : IF c.ref = ref /\ c.mod = old
                              THEN [c EXCEPT !.mod = new] ELSE c)]

(***************************************************************************)
(* demoteStaged: the named versions go back to candidates, status kept.    *)
(***************************************************************************)
Demoted(b, pins) == Kept(b.staged, {s \in Range(b.staged) : \E p \in pins : SameVersion(s, p)})

CanDemote(b, pins) == Demoted(b, pins) # <<>>

DemoteStaged(b, pins) ==
  [b EXCEPT !.staged = Kept(@, {s \in Range(@) : ~\E p \in pins : SameVersion(s, p)}),
            !.candidates = @ \o Demoted(b, pins)]

(***************************************************************************)
(* updateContents replaces the members; updateConfig merges the fields the *)
(* request names into the configuration (c is a record of those fields).   *)
(* updateMetadata touches neither tiers nor configuration.                 *)
(***************************************************************************)
UpdateMetadata(b) == b

UpdateContents(b, members) == [b EXCEPT !.members = members]

UpdateConfig(b, c) ==
  [b EXCEPT !.config = [f \in DOMAIN @ |-> IF f \in DOMAIN c THEN c[f] ELSE @[f]]]

(***************************************************************************)
(* The merge of staged into members when a snapshot is tagged (_doBump).   *)
(* Entries the policy rejects are in neither tier afterwards.              *)
(***************************************************************************)
CanRelease(b) ==
  ~Aborts(b.members, MapEntries(b.staged, MemberEntry), b.config.stagedToMembers)

ReleaseBody(b) ==
  [b EXCEPT !.members = ApplyConflictPolicy(@, MapEntries(b.staged, MemberEntry),
                                            b.config.stagedToMembers).merged,
            !.staged = <<>>]

(***************************************************************************)
(* processMemberSync: a new version mod of a member ref.  The entry that   *)
(* already waits for it, in staged first, is replaced, joined or left.     *)
(***************************************************************************)
\* A slip to rule out: an entry that waits in staged is not found.
Waiting_CandidatesOnly(b, ref) == Pinned(b.candidates, ref)

Waiting(b, ref) == Pinned(b.staged, ref) \/ Pinned(b.candidates, ref)

SyncApplies(b, ref) ==
  /\ Pinned(b.members, ref)
  /\ b.config.strategy # "manual"
  /\ Waiting(b, ref) => b.config.behavior # "ignore"

WaitingEntry(b, ref) ==
  IF Pinned(b.staged, ref) THEN b.staged[Incumbent(b.staged, ref)]
                           ELSE b.candidates[Incumbent(b.candidates, ref)]

Replaces(b, ref)  == Waiting(b, ref) /\ b.config.behavior = "replace"
Preserves(b, ref) == Replaces(b, ref) /\ b.config.statusPolicy = "preserve"

\* Whether the new entry goes straight to staged.
SyncToStaged(b, ref) == Preserves(b, ref) /\ Pinned(b.staged, ref)

WithoutVersion(tier, e) == Kept(tier, {x \in Range(tier) : ~SameVersion(x, e)})

\* The body with the replaced entry, if any, taken out of its tier.
\* A slip to rule out: a staged entry that is replaced stays where it is.
Supplanted_KeepsStaged(b, ref) ==
  IF ~Replaces(b, ref) \/ Pinned(b.staged, ref) THEN b
  ELSE [b EXCEPT !.candidates = WithoutVersion(@, WaitingEntry(b, ref))]

Supplanted(b, ref) ==
  IF ~Replaces(b, ref) THEN b
  ELSE IF Pinned(b.staged, ref)
       THEN [b EXCEPT !.staged = WithoutVersion(@, WaitingEntry(b, ref))]
       ELSE [b EXCEPT !.candidates = WithoutVersion(@, WaitingEntry(b, ref))]

MemberSync(b, ref, mod) ==
  LET status == IF Preserves(b, ref) THEN WaitingEntry(b, ref).status ELSE "wip"
      entry  == Candidate(ref, mod, status)
  IN IF SyncToStaged(b, ref)
     THEN [Supplanted(b, ref) EXCEPT !.staged = Append(@, entry)]
     ELSE [Supplanted(b, ref) EXCEPT !.candidates = Append(@, entry)]

(***************************************************************************)
(* What each editing request may turn a body into, whatever its arguments  *)
(* (the schemas of lib/release-tracks/release-track-schemas.js); no result *)
(* when the handler throws.                                                *)
(***************************************************************************)
Refs == {v.ref : v \in Versions}

Pin(ref, mod) == [ref |-> ref, mod |-> mod]

\* The object lists a request may carry: one or two versions.
PinLists == {<<v>> : v \in Versions} \cup {<<v, w>> : v, w \in Versions}

RefSets == SUBSET Refs \ {{}}

Transitions == {t \in Statuses \X Statuses : CanReview(t[1], t[2])}

Repins(b) ==
  {p \in Versions \X Versions : p[1].ref = p[2].ref /\ CanUpdateVersion(b, p[1].ref, p[1].mod)}

SyncTargets(b) == {v \in Versions : SyncApplies(b, v.ref)}

Results(op, b) ==
  CASE op = "metadata"    -> {UpdateMetadata(b)}
    [] op = "contents"    -> {UpdateContents(b, members) : members \in PinLists}
    [] op = "config"      -> {UpdateConfig(b, c) : c \in Configs}
    [] op = "add"         -> {AddCandidates(b, pins) : pins \in PinLists}
    [] op = "withdraw"    -> {RemoveCandidate(b, ref) : ref \in {r \in Refs : CanRemoveCandidate(b, r)}}
    [] op = "review"      -> {ReviewCandidates(b, t[1], t[2], refs) : t \in Transitions, refs \in RefSets}
    [] op = "promote"     -> {PromoteRefs(b, refs) : refs \in {s \in RefSets : CanPromote(b, s)}}
    [] op = "repin"       -> {UpdateVersion(b, p[1].ref, p[1].mod, p[2].mod) : p \in Repins(b)}
    [] op = "demote"      -> {DemoteStaged(b, pins) : pins \in {s \in SUBSET Versions : CanDemote(b, s)}}
    [] op = "sync"        -> {MemberSync(b, v.ref, v.mod) : v \in {w \in SyncTargets(b) : ~SyncToStaged(b, w.ref)}}
    [] op = "sync_staged" -> {MemberSync(b, v.ref, v.mod) : v \in {w \in SyncTargets(b) : SyncToStaged(b, w.ref)}}
    [] op = "autopromote" -> {AutoPromotion(b)}

EditOps == {"metadata", "contents", "config", "add", "withdraw", "review", "promote",
            "repin", "demote", "sync", "sync_staged"}

\* The operations that evaluate auto-promotion on the clone they have saved.
EvaluatingOps == {"add", "review", "sync"}

=============================================================================
