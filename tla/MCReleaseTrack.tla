--------------------------- MODULE MCReleaseTrack ---------------------------
(***************************************************************************)
(* Bounds for ReleaseTrack: one object version, and a new track whose      *)
(* candidates are promoted as soon as they are added, or a cloned one that *)
(* has an object staged.                                                   *)
(***************************************************************************)
EXTENDS ReleaseTrack, TLC

CONSTANTS a

MCVersions == {Pin(a, 1)}

Eager == [EmptyBody EXCEPT !.config.threshold = "wip"]

MCInitBodies == {Eager, [EmptyBody EXCEPT !.staged = <<Candidate(a, 1, "reviewed")>>]}

MCExplicit == {<<1, 1>>}

\* The counters never decide a step of a request and no property of the concurrent run
\* reads them, so that states that differ in them alone are one state there.
MCView ==
  <<snaps, clock, removed, recycled,
    [r \in Requests |-> <<req[r].phase, req[r].op, req[r].doc>>]>>

\* Every property is void once a timestamp was used again, which is for good.
MCConstraint == ~recycled

MCSymmetry == Permutations(Requests)

=============================================================================
