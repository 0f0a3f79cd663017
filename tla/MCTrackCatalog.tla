--------------------------- MODULE MCTrackCatalog ---------------------------
(***************************************************************************)
(* Bounds for TrackCatalog: two standard tracks that disagree about an     *)
(* object, a virtual track over both, one free identifier.                 *)
(***************************************************************************)
EXTENDS TrackCatalog, TLC

CONSTANTS a, b, S1, S2, V, New, r1, r2

MCTypeOf == a :> "attack-pattern" @@ b :> "x-unknown"

P(ref, mod) == [ref |-> ref, mod |-> mod]

MCLists == {<<P(a, 1)>>, <<P(a, 2), P(b, 1)>>}

Component(track, by, version, snapshot, priority, types) ==
  [track |-> track, by |-> by, version |-> version, snapshot |-> snapshot,
   priority |-> priority, types |-> types]

LatestOf(t, priority) == Component(t, "latest_tagged", 0, 0, priority, {})

Both(strategy) ==
  [components |-> <<LatestOf(S1, 2), LatestOf(S2, 1)>>, strategy |-> strategy]

MCCompositions ==
  {[components |-> <<Component(S1, "specific_snapshot", 0, 2, 1, {"attack-pattern"})>>,
    strategy |-> None],
   [components |-> <<Component(S2, "specific_version", 1, 0, 1, {}), LatestOf(V, 2)>>,
    strategy |-> None]}

Release1(time, v, members) ==
  [Snapshot("standard", members, NoComposition) EXCEPT
     !.modified = time, !.version = v, !.past = v]

Draft(time, past, members) ==
  [Snapshot("standard", members, NoComposition) EXCEPT !.modified = time, !.past = past]

MCInitColls ==
  {[t \in {S1, S2, V, New} |->
      CASE t = S1 -> (1 :> Release1(1, 1, <<P(a, 2)>>) @@ 2 :> Draft(2, 1, <<P(a, 1), P(a, 2)>>))
        [] t = S2 -> (2 :> Release1(2, 1, <<P(a, 1), P(b, 1)>>))
        [] t = V -> (1 :> At(Snapshot("virtual", <<>>, Both(strategy)), 1))
        [] OTHER -> <<>>] : strategy \in Strategies}

Object(ref, mod, known, valid) == [ref |-> ref, mod |-> mod, known |-> known, valid |-> valid]

MCBundles ==
  {[name |-> "plain", contents |-> <<>>,
    objects |-> <<Object(a, 1, TRUE, TRUE), Object(a, 3, TRUE, FALSE), Object(b, 1, FALSE, TRUE)>>],
   [name |-> "copy", contents |-> <<P(b, 2)>>, objects |-> <<Object(a, 3, TRUE, TRUE)>>]}

MCInitStore == {P(a, 1), P(a, 2), P(b, 1)}

MCObjects == {P(a, 2)}

\* Two requests meet at most one edit, one request at most two.
MCBound == edits + begun <= 3

MCSymmetry == Permutations(Requests)

=============================================================================
