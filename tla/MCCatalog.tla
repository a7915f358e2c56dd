----------------------------- MODULE MCCatalog -----------------------------
EXTENDS Catalog, TLC

CONSTANTS t1, t2, c1, c2, d1, d2, b1, b2, v1, wide, narrow, deep, shallow, h1

TwoTenants == c1 :> t1 @@ c2 :> t2
TwoOwners == d1 :> t1 @@ d2 :> t2 @@ v1 :> t1
OwnTypes == [b \in Backends |-> b]

(* example.invalid holds both names, sub.example.invalid the deeper one.    *)
Nested == (Zones \X Names) \ {<<narrow, shallow>>}
=============================================================================
