---------------------------- MODULE MCTechniques ----------------------------
(***************************************************************************)
(* Bounds for Techniques: a technique with a subtechnique, which a group   *)
(* uses as two relationships say, and a technique yet to be created.       *)
(***************************************************************************)
EXTENDS Techniques

CONSTANTS a, b, g

MCInitDocs == <<Technique(a, FALSE, <<1>>, FALSE), Technique(b, TRUE, <<1, 1>>, FALSE)>>

MCInitRels ==
  <<Relationship("subtechnique-of", b, a), Relationship("uses", g, b), Relationship("uses", g, b)>>

=============================================================================
