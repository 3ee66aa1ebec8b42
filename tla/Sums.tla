-------------------------------- MODULE Sums --------------------------------
(***************************************************************************)
(* Sums of money, for the properties that speak of ledgers.                *)
(***************************************************************************)
EXTENDS Integers

\* f[1] + ... + f[n]
SumTo(f, n) ==
    LET sum[k \in 0..n] == IF k = 0 THEN 0 ELSE sum[k - 1] + f[k]
    IN sum[n]

=============================================================================
