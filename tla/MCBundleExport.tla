-------------------------- MODULE MCBundleExport ---------------------------
(***************************************************************************)
(* Bounds for BundleExport: two domains, a technique of each, a campaign   *)
(* attributed to a group that also uses a technique of the first domain, a *)
(* group the latter revoked, a strategy that detects and one whose former  *)
(* version referred to the analytic, a data component with its data source  *)
(* and a revoked one without.                                              *)
(***************************************************************************)
EXTENDS BundleExport

CONSTANT e1

Object(type, domains, status, refs) ==
  <<[type |-> type, domains |-> domains, status |-> status, refs |-> refs,
     attackId |-> TRUE, url |-> TRUE, context |-> IF type = "note" THEN {"org"} ELSE {}]>>

Ent == "enterprise-attack"
Mob == "mobile-attack"

MCDb ==
  [tech     |-> Object("attack-pattern", {Ent}, "active", {}),
   mobtech  |-> Object("attack-pattern", {Mob}, "active", {}),
   campaign |-> Object("campaign", Null, "active", {}),
   group    |-> Object("intrusion-set", {"ics-attack"}, "active", {}),
   former   |-> Object("intrusion-set", Null, "revoked", {}),
   strategy |-> Object("x-mitre-detection-strategy", Null, "active", {}),
   past     |-> Object("x-mitre-detection-strategy", Null, "active", {"analytic"})
                \o Object("x-mitre-detection-strategy", Null, "active", {}),
   analytic |-> Object("x-mitre-analytic", {Ent}, "active", {}),
   comp     |-> Object("x-mitre-data-component", {Ent}, "active", {"source"}),
   bare     |-> Object("x-mitre-data-component", {Ent}, "revoked", {}),
   source   |-> Object("x-mitre-data-source", {Ent}, "active", {}),
   note     |-> Object("note", Null, "active", {"group"}),
   org      |-> Object("identity", Null, "active", {})]

MCIds == DOMAIN MCDb \cup {"gone"}

Between(kind, source, target) ==
  [kind |-> kind, source |-> source, target |-> target, status |-> "active"]

MCRelationships ==
  <<Between("revoked-by", "former", "group"), Between("detects", "bare", "tech"),
    Between("uses", "group", "tech"), Between("attributed-to", "campaign", "group"), Between("uses", "campaign", "tech"),
    Between("detects", "strategy", "tech"), Between("detects", "comp", "tech"),
    Between("uses", "group", "mobtech"),
    [Between("detects", "gone", "mobtech") EXCEPT !.status = "revoked"]>>

MCOrders == {MCRelationships, Reverse(MCRelationships)}

Request(domain, legacy, extra) ==
  [domain |-> domain, legacy |-> legacy, includeRevoked |-> extra, includeDeprecated |-> FALSE,
   includeDataSources |-> extra, includeMissingAttackId |-> FALSE, includeNotes |-> extra]

MCOptions ==
  [e \in Exports |-> IF e = e1 THEN {Request(Ent, FALSE, TRUE), Request(Ent, TRUE, FALSE), Request(Ent, TRUE, TRUE)}
                     ELSE {Request(Mob, FALSE, FALSE), Request(Mob, FALSE, TRUE)}]

\* The two services share nothing: exports of both need not be interleaved.
OneService == Cardinality({Svc(e) : e \in {f \in Exports : export[f].step # "idle"}}) <= 1

=============================================================================
