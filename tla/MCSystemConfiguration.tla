------------------------ MODULE MCSystemConfiguration ------------------------
(***************************************************************************)
(* Bounds for SystemConfiguration: an object of each of two types, one of  *)
(* them stored before the first start.                                     *)
(***************************************************************************)
EXTENDS SystemConfiguration, TLC

CONSTANTS r1, r2, o1, o2, mitre, org, p1, p2

MCTypeOf == o1 :> "technique" @@ o2 :> "group"

MCStatic == {[field |-> ExternalId, type |-> "technique"]}

MCInitDocs == <<Document(o1, mitre, mitre, {ExternalId})>>

MCSymmetry == Permutations(Requests)

=============================================================================
