---------------------- MODULE MCEmbeddedRelationships ----------------------
(***************************************************************************)
(* Bounds for EmbeddedRelationships: a strategy with an analytic, which    *)
(* references a data component, which has a data source; another strategy  *)
(* and another analytic are yet to be created.                             *)
(***************************************************************************)
EXTENDS EmbeddedRelationships

CONSTANTS s1, a1, c, d

MCInitDocs ==
  <<Document(d, <<>>, <<Rel(c, "inbound")>>, None),
    Document(c, <<d>>, <<Rel(d, "outbound"), Rel(a1, "inbound")>>, None),
    Document(a1, <<c>>, <<Rel(c, "outbound"), Rel(s1, "inbound")>>, s1),
    Document(s1, <<a1>>, <<Rel(a1, "outbound")>>, None)>>

=============================================================================
