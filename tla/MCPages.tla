------------------------------ MODULE MCPages ------------------------------
(***************************************************************************)
(* An instance of Pages for TLC.                                           *)
(***************************************************************************)
EXTENDS Pages, TLC

CONSTANTS v1, v2, u1, u2, k1, renewal, basic, gift, twin, rival

\* twin repeats the slug of another item of its vendor and is not active,
\* rival that of another vendor's item, and gift costs nothing and is in the
\* catalog of the pages only.  The second vendor's slug is one no page accepts,
\* though an order does.
MCItemVendor == basic :> v1 @@ gift :> v1 @@ twin :> v1 @@ rival :> v2
MCPrice      == basic :> 1 @@ gift :> 0 @@ twin :> 1 @@ rival :> 2
MCSlug       == v1 :> "one" @@ v2 :> "Two" @@ gift :> "gift" @@
                basic :> "vless" @@ twin :> "vless" @@ rival :> "vless"

\* A purchase from each vendor and a renewal.
MCCallerRows == {<<v1, u1, k1>>, <<v2, u1, k1>>}
MCRows       == MCCallerRows \cup {<<v1, u1, renewal>>}
MCTopUps     == {-1, 3}

=============================================================================
