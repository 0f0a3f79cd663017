----------------------- MODULE MCCollectionIndexSync -----------------------
(***************************************************************************)
(* Bounds for CollectionIndexSync: one index that is published twice, the  *)
(* second time with a newer version of its collection and one collection   *)
(* more, which a second index lists too.                                   *)
(***************************************************************************)
EXTENDS CollectionIndexSync

CONSTANTS x, y, c, d

MCOrder == <<x, y>>

Version(coll, n) == [of |-> coll, mod |-> n]

Listing(coll, versions) == [id |-> coll, versions |-> versions]

MCPublications ==
  [i \in {x, y} |->
     IF i = x
     THEN << <<Listing(c, <<Version(c, 1)>>)>>,
             <<Listing(c, <<Version(c, 2), Version(c, 1)>>), Listing(d, <<Version(d, 1)>>)>> >>
     ELSE << <<Listing(d, <<Version(d, 1)>>)>> >>]

MCSubscribed == [i \in {x, y} |-> IF i = x THEN <<c>> ELSE <<d>>]

=============================================================================
