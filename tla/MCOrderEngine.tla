--------------------------- MODULE MCOrderEngine ---------------------------
(***************************************************************************)
(* Instances of OrderEngine for TLC.                                       *)
(***************************************************************************)
EXTENDS OrderEngine, TLC

CONSTANTS r1, r2, r3, v1, v2, u1, u2, k1, k2, basic, plus, ghost

\* basic and plus are items of v1, ghost is an inactive item of v2.
MCItemVendor == basic :> v1 @@ plus :> v1 @@ ghost :> v2
MCPrice == basic :> 1 @@ plus :> 2 @@ ghost :> 1
MCOneItemVendor == basic :> v1
MCOnePrice == basic :> 1
MCTopUps == {-1, 2}
MCMinBalance == -1
MCMaxBalance == 2

\* Handler slots are interchangeable.
RequestSymmetry == Permutations(Requests)

=============================================================================
