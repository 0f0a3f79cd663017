--------------------------- MODULE MCTierWorkflow ---------------------------
(***************************************************************************)
(* Bounds for TierWorkflow: three versions of one object and one of        *)
(* another, and the configurations that change what a promotion or a       *)
(* synchronisation does.                                                   *)
(***************************************************************************)
EXTENDS TierWorkflow

CONSTANTS a, b

MCVersions == {Pin(a, 1), Pin(a, 2), Pin(a, 3), Pin(b, 1)}

\* A request that names every field, so that the configurations reached are these.
Request(auto, threshold, toStaged, toMembers, behavior, statusPolicy) ==
  [autoPromote |-> auto, threshold |-> threshold, candidatesToStaged |-> toStaged,
   stagedToMembers |-> toMembers, behavior |-> behavior, statusPolicy |-> statusPolicy]

MCConfigs ==
  {Request(TRUE,  "wip",      "prefer_latest",    "prefer_latest",    "queue",   "reset"),
   Request(FALSE, "reviewed", "always_reject",    "always_reject",    "replace", "preserve"),
   Request(TRUE,  "awaiting", "always_overwrite", "always_overwrite", "ignore",  "reset"),
   [strategy |-> "manual"]}

=============================================================================
