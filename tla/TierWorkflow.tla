---------------------------- MODULE TierWorkflow ----------------------------
(***************************************************************************)
(* The editorial workflow of one standard release track, one request at a  *)
(* time: what successive calls do to the candidates, staged and members of *)
(* the latest snapshot.  Every action is a whole handler, from the read of *)
(* the latest snapshot to the last clone it saves, auto-promotion          *)
(* included.  How requests interleave is the subject of ReleaseTrack.      *)
(***************************************************************************)
EXTENDS TierOperations

CONSTANT MaxEntries    \* bound on the entries of the three tiers together

ASSUME BoundAssumption == MaxEntries \in Nat

VARIABLES
  tiers,        \* the body of the latest snapshot
  tagged,       \* whether that snapshot carries a version
  handler       \* auxiliary: the kind of request the last step served

tiervars == <<tiers, tagged, handler>>

TiersInit ==
  /\ tiers = EmptyBody
  /\ tagged = FALSE
  /\ handler = "none"

(***************************************************************************)
(* cloneSnapshot: every change is saved as a new draft.                    *)
(***************************************************************************)
SaveTiers(h, b) ==
  /\ Len(b.members) + Len(b.staged) + Len(b.candidates) <= MaxEntries
  /\ tiers' = b
  /\ tagged' = FALSE
  /\ handler' = h

Outcome(op, b) == IF op \in EvaluatingOps THEN AutoPromotion(b) ELSE b

Serve(h, op) == \E b \in Results(op, tiers) : SaveTiers(h, Outcome(op, b))

Add             == Serve("enroll", "add")
Review          == Serve("enroll", "review")
Promote         == Serve("move", "promote")
Demote          == Serve("move", "demote")
Withdraw        == Serve("edit", "withdraw")
MovePin         == Serve("edit", "repin")
ReplaceContents == Serve("edit", "contents")
Configure       == Serve("edit", "config")

(***************************************************************************)
(* handleObjectModified for this track: a version of a member is created   *)
(* or updated somewhere in the knowledge base.                             *)
(***************************************************************************)
Synchronise == Serve("sync", "sync") \/ Serve("sync", "sync_staged")

(***************************************************************************)
(* _doBump: the only change made to a snapshot in place.                   *)
(***************************************************************************)
TagTiers ==
  /\ ~tagged
  /\ CanRelease(tiers)
  /\ tiers' = ReleaseBody(tiers)
  /\ tagged' = TRUE
  /\ handler' = "tag"

TiersNext ==
  \/ Add \/ Withdraw \/ Review \/ Promote \/ MovePin \/ Demote
  \/ ReplaceContents \/ Configure \/ Synchronise \/ TagTiers

TiersSpec == TiersInit /\ [][TiersNext]_tiervars

-----------------------------------------------------------------------------
(***************************************************************************)
(* Properties.                                                             *)
(***************************************************************************)
\* Whatever sequence of calls, staged never holds two entries of one object:
\* promotion, auto-promotion and member sync each keep it so by their own means.
StagedOnePinPerObject ==
  \A i, j \in DOMAIN tiers.staged : tiers.staged[i].ref = tiers.staged[j].ref => i = j

\* The versions of an object that wait for a release.
WaitingMods(b, ref) == {b.staged[i].mod : i \in PinsOf(b.staged, ref)}
                       \cup {b.candidates[i].mod : i \in PinsOf(b.candidates, ref)}

MemberMods(b, ref) == {b.members[i].mod : i \in PinsOf(b.members, ref)}

WaitingCount(b, ref) == Cardinality(PinsOf(b.staged, ref)) + Cardinality(PinsOf(b.candidates, ref))

\* Adding, reviewing, promoting and demoting never lose the newest version of an object
\* that waits for a release, nor does a synchronisation unless it replaces, nor any of
\* them unless the policy lets an older entry overwrite it.
NewestWaitingSurvives ==
  [][ /\ \/ handler' \in {"enroll", "move"}
         \/ handler' = "sync" /\ tiers.config.behavior # "replace"
      /\ tiers.config.candidatesToStaged # "always_overwrite"
      => \A ref \in Refs : WaitingMods(tiers, ref) # {}
           => /\ WaitingMods(tiers', ref) # {}
              /\ Max(WaitingMods(tiers', ref)) >= Max(WaitingMods(tiers, ref)) ]_tiervars

\* Tagging never takes a released object back to an older version or out of the
\* members, unless staged_to_members is always_overwrite; under abort it changes no
\* member at all; and a staged object is a member afterwards.
ReleaseNeverRegresses ==
  [][ handler' = "tag" =>
      \A ref \in Refs :
        /\ Pinned(tiers.staged, ref) => Pinned(tiers'.members, ref)
        /\ Pinned(tiers.members, ref) /\ tiers.config.stagedToMembers # "always_overwrite"
             => /\ Pinned(tiers'.members, ref)
                /\ Max(MemberMods(tiers', ref)) >= Max(MemberMods(tiers, ref))
        /\ Pinned(tiers.members, ref) /\ tiers.config.stagedToMembers = "abort"
             => MemberMods(tiers', ref) = MemberMods(tiers, ref) ]_tiervars

\* After an add or a review, with auto-promotion on, a candidate that meets the
\* threshold is still a candidate only because staged holds that object already, under
\* prefer_latest in a version at least as new.
AutoPromotionSettles ==
  [][ handler' = "enroll" /\ tiers'.config.autoPromote =>
      \A i \in DOMAIN tiers'.candidates :
        LET c == tiers'.candidates[i]
        IN StatusRank[c.status] >= StatusRank[tiers'.config.threshold] =>
             /\ Pinned(tiers'.staged, c.ref)
             /\ tiers'.config.candidatesToStaged = "prefer_latest"
                  => tiers'.staged[Incumbent(tiers'.staged, c.ref)].mod >= c.mod ]_tiervars

\* Synchronising leaves a version of some member waiting for the next release, and under
\* replace it supplants what waited instead of piling up: an object with at most one
\* waiting entry still has at most one, wherever that entry was and wherever it went.
SyncSupplants ==
  [][ handler' = "sync" =>
      /\ \E ref \in RefsOf(tiers.members) : WaitingMods(tiers', ref) # {}
      /\ tiers.config.behavior = "replace" =>
           \A ref \in Refs : WaitingCount(tiers, ref) <= 1 => WaitingCount(tiers', ref) <= 1 ]_tiervars

=============================================================================
