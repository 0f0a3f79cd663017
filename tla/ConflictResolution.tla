------------------------- MODULE ConflictResolution -------------------------
(***************************************************************************)
(* The conflict policies of src/app/lib/release-tracks/conflict-           *)
(* resolution.js: how a list of entries is merged into a tier of a release *)
(* track.  An entry is a record with at least the fields ref (the STIX id) *)
(* and mod (the object_modified timestamp the entry is pinned to).         *)
(***************************************************************************)
EXTENDS Naturals, Sequences, SequencesExt, FiniteSetsExt

Policies == {"always_overwrite", "always_reject", "prefer_latest", "abort"}

\* The entries of a tier that pin some version of ref, as indices.
PinsOf(tier, ref) == {i \in DOMAIN tier : tier[i].ref = ref}

Pinned(tier, ref) == PinsOf(tier, ref) # {}

\* findIndex returns the first entry of the same object, whatever its version.
Incumbent(tier, ref) == Min(PinsOf(tier, ref))

\* A merge in progress: the tier so far, the entries turned away, the conflicts met.
MergeStart(tier) == [merged |-> tier, rejected |-> <<>>, conflicts |-> <<>>]

Overwrite(acc, i, e) == [acc EXCEPT !.merged[i] = e]
Reject(acc, e)       == [acc EXCEPT !.rejected = Append(@, e)]

(***************************************************************************)
(* One turn of the loop over the incoming entries.                         *)
(***************************************************************************)
\* A slip to rule out: prefer_latest compares the wrong way round.
Admit_PrefersOldest(policy, acc, e) ==
  IF ~Pinned(acc.merged, e.ref)
  THEN [acc EXCEPT !.merged = Append(@, e)]
  ELSE LET i == Incumbent(acc.merged, e.ref)
       IN CASE policy = "always_overwrite" -> Overwrite(acc, i, e)
            [] policy = "always_reject"    -> Reject(acc, e)
            [] policy = "prefer_latest"    ->
                 IF e.mod < acc.merged[i].mod THEN Overwrite(acc, i, e) ELSE Reject(acc, e)
            [] policy = "abort"            -> [acc EXCEPT !.conflicts = Append(@, e)]

Admit(policy, acc, e) ==
  IF ~Pinned(acc.merged, e.ref)
  THEN [acc EXCEPT !.merged = Append(@, e)]
  ELSE LET i == Incumbent(acc.merged, e.ref)
       IN CASE policy = "always_overwrite" -> Overwrite(acc, i, e)
            [] policy = "always_reject"    -> Reject(acc, e)
            [] policy = "prefer_latest"    ->
                 IF e.mod > acc.merged[i].mod THEN Overwrite(acc, i, e) ELSE Reject(acc, e)
            [] policy = "abort"            -> [acc EXCEPT !.conflicts = Append(@, e)]

(***************************************************************************)
(* applyConflictPolicy.  The code throws ReleaseConflictError exactly when *)
(* the policy is 'abort' and a conflict was collected; Aborts says so and  *)
(* the merged tier is then not used.                                       *)
(***************************************************************************)
\* The merge after each number of the incoming entries.
Merges(tier, incoming, policy) ==
  LET after[n \in 0 .. Len(incoming)] ==
        IF n = 0 THEN MergeStart(tier) ELSE Admit(policy, after[n - 1], incoming[n])
  IN  after

ApplyConflictPolicy(tier, incoming, policy) ==
  Merges(tier, incoming, policy)[Len(incoming)]

Aborts(tier, incoming, policy) ==
  ApplyConflictPolicy(tier, incoming, policy).conflicts # <<>>

=============================================================================
