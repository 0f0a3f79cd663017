-------------------------- MODULE CompositionRules --------------------------
(***************************************************************************)
(* How a virtual track computes its contents from the released snapshots   *)
(* of its components: the filters, the annotation of each member with its  *)
(* source, and the four strategies of deduplication-strategies.js.         *)
(*                                                                         *)
(* A pin is [ref, mod]; the members of a snapshot are a sequence of pins.  *)
(* A component is [track, by, version, snapshot, priority, types], an      *)
(* empty set of types being no filter.                                     *)
(***************************************************************************)
EXTENDS Naturals, Sequences, FiniteSets, SequencesExt, Filter

CONSTANT TypeOf     \* the STIX type of each object, the prefix of its id

Strategies ==
  {"prioritize_latest_object", "prioritize_latest_snapshot", "prioritize_higher_priority",
   "quarantine"}

Pin(e) == [ref |-> e.ref, mod |-> e.mod]

SamePin(e, f) == e.ref = f.ref /\ e.mod = f.mod

\* applyFilters; the filter by domain is not implemented.
OfTypes(members, types) == {m \in ToSet(members) : TypeOf[m.ref] \in types}

ApplyFilters(members, types) ==
  IF types = {} THEN members ELSE Kept(members, OfTypes(members, types))

\* The filtered members of what one component resolved to, with their source.
Annotated(component, found) ==
  LET pins == ApplyFilters(found.members, component.types)
  IN [i \in DOMAIN pins |->
        [ref |-> pins[i].ref, mod |-> pins[i].mod, track |-> component.track,
         snapshot |-> found.modified, version |-> found.version,
         priority |-> component.priority]]

\* One component after the other.
AllAnnotated(components, found) ==
  LET after[n \in 0 .. Len(components)] ==
        IF n = 0 THEN <<>> ELSE after[n - 1] \o Annotated(components[n], found[n])
  IN  after[Len(components)]

\* A slip to rule out: the higher number has the higher priority.
Beats_HigherNumber(strategy, e, winner) ==
  CASE strategy = "prioritize_latest_object" -> e.mod > winner.mod
    [] strategy = "prioritize_latest_snapshot" -> e.snapshot > winner.snapshot
    [] strategy = "prioritize_higher_priority" -> e.priority > winner.priority

\* Whether an entry replaces the winner among those before it.
Beats(strategy, e, winner) ==
  CASE strategy = "prioritize_latest_object" -> e.mod > winner.mod
    [] strategy = "prioritize_latest_snapshot" -> e.snapshot > winner.snapshot
    [] strategy = "prioritize_higher_priority" -> e.priority < winner.priority

\* The winner of a list of entries of one object.
Winner(strategy, group) ==
  LET best[n \in 0 .. Len(group) - 1] ==
        IF n = 0 THEN group[1]
        ELSE IF Beats(strategy, group[n + 1], best[n - 1]) THEN group[n + 1] ELSE best[n - 1]
  IN  best[Len(group) - 1]

\* The entries of one object; several of them conflict.
Group(entries, ref) == Kept(entries, {e \in ToSet(entries) : e.ref = ref})

Conflict(entries, ref) == Len(Group(entries, ref)) > 1

SetAside(entries, ref, strategy) == Conflict(entries, ref) /\ strategy = "quarantine"

Positions(entries) == [k \in DOMAIN entries |-> k]

\* Where the Map meets an object first: it keeps the objects in that order.
Firsts(entries) ==
  {k \in DOMAIN entries : \A j \in DOMAIN entries : entries[j].ref = entries[k].ref => k <= j}

Quarantined(e) == [ref |-> e.ref, mod |-> e.mod, track |-> e.track, version |-> e.version]

\* deduplicate: what goes to members, and what to the quarantine, which lists its entries
\* object by object in the code.
Deduplicate(entries, strategy) ==
  LET kept == Kept(Positions(entries),
                   {k \in Firsts(entries) : ~SetAside(entries, entries[k].ref, strategy)})
      out  == Kept(Positions(entries),
                   {k \in DOMAIN entries : SetAside(entries, entries[k].ref, strategy)})
  IN [members |->
        [i \in DOMAIN kept |->
           LET group == Group(entries, entries[kept[i]].ref)
           IN Pin(IF Len(group) > 1 THEN Winner(strategy, group) ELSE group[1])],
      quarantine |-> [i \in DOMAIN out |-> Quarantined(entries[out[i]])]]

\* objects_contributed: the entries of a component whose version survived.
Contributed(entries, members, track) ==
  Cardinality({i \in DOMAIN entries :
    entries[i].track = track /\ \E j \in DOMAIN members : SamePin(members[j], entries[i])})

=============================================================================
