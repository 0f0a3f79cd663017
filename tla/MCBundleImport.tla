--------------------------- MODULE MCBundleImport ---------------------------
(***************************************************************************)
(* Bounds for BundleImport: an object in two versions, a relationship, a   *)
(* marking definition created twice, an object of a type without service,  *)
(* objects that fail validation, composition or the gate, and a collection *)
(* that the schema refuses.                                                *)
(***************************************************************************)
EXTENDS BundleImport, TLC

CONSTANTS i1, i2

Object(id, type, modified, version) ==
  [id |-> id, type |-> type, modified |-> modified, version |-> version, status |-> "active",
   spec |-> "ok", valid |-> TRUE, accepted |-> TRUE, references |-> {}]

Old == [Object("t", "attack-pattern", 1, <<9, 1>>) EXCEPT !.references = {"ref"}]
New == [Object("t", "attack-pattern", 2, <<10, 0>>) EXCEPT !.references = {"ref"}]
Rel == Object("r", "relationship", 1, <<1, 0>>)
Mark(created) == Object("m", Marking, created, <<1, 0>>)
Odd == Object("o", "x-unknown", 1, <<1, 0>>)
Bad == [Object("b", "malware", 1, <<1, 0>>) EXCEPT !.valid = FALSE]
Worse == [Object("w", "tool", 1, <<1, 0>>) EXCEPT !.accepted = FALSE]
Later(spec) == [Object("l", "relationship", 2, <<1, 0>>) EXCEPT !.spec = spec]

BundleOf(id, objects, contents) ==
  [objects |-> objects \cup {Object(id, "x-mitre-collection", 1, <<1, 0>>)},
   contents |-> contents]

First == BundleOf("A", {Old, Mark(1), Bad}, Keys({Old, Mark(1), Bad}) \cup {<<"absent", 1>>})
Second == BundleOf("B", {Old, Mark(2)}, Keys({Old, Mark(2)}))
Third == BundleOf("C", {New, Later("later")}, Keys({New, Later("later")}))
Fourth == BundleOf("C", {Odd, Worse, Later("invalid")}, Keys({Odd, Worse}))

Nameless ==
  [objects |-> {Old, [Object("D", "x-mitre-collection", 1, <<1, 0>>) EXCEPT !.accepted = FALSE]},
   contents |-> Keys({Old})]

Request(bundle) ==
  [bundle |-> bundle, forceSpec |-> FALSE, forceDuplicate |-> FALSE, preview |-> FALSE,
   strict |-> FALSE, scheduled |-> FALSE]

MCRequests ==
  <<[Request(First) EXCEPT !.strict = TRUE],
    [Request(First) EXCEPT !.forceDuplicate = TRUE],
    [Request(First) EXCEPT !.preview = TRUE],
    Request(Second),
    Request(Third),
    [Request(Third) EXCEPT !.forceSpec = TRUE],
    [Request(Third) EXCEPT !.scheduled = TRUE],
    [Request(Fourth) EXCEPT !.forceSpec = TRUE],
    Request([Fourth EXCEPT !.objects = @ \ {Later("invalid")}]),
    Request([Second EXCEPT !.objects = {Old}]),
    Request(Nameless),
    [Request(Nameless) EXCEPT !.preview = TRUE]>>

MCCollections == {[id |-> "B", modified |-> 2, contents |-> {<<"t", 1>>, <<"absent", 1>>}]}

MCBefore ==
  {[id |-> "t", type |-> "attack-pattern", modified |-> 0, version |-> <<1, 0>>,
    status |-> "active", collections |-> {}]}

\* One request besides the imports.
OneOther == jobs + others <= 1

Symmetry == Permutations(Importers)

=============================================================================
