--------------------------- MODULE MCProvisioning ---------------------------
(***************************************************************************)
(* Instances of Provisioning for TLC.                                      *)
(***************************************************************************)
EXTENDS Provisioning

CONSTANTS w1, w2, v1, v2

MCJobVendor == [j \in Jobs |-> IF j = 2 THEN v2 ELSE v1]

=============================================================================
