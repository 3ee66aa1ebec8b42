--------------------------- MODULE MCRateLimiter ---------------------------
(***************************************************************************)
(* Instances of RateLimiter for TLC.                                       *)
(***************************************************************************)
EXTENDS RateLimiter, TLC

CONSTANTS c1, c2

\* Requests with and without each header, through a proxy or not.
MCRequests ==
    [forwarded: {<<>>} \cup (Clients \X Clients), real: Clients \cup {None}, remote: Clients]

\* Clients are interchangeable.
ClientSymmetry == Permutations(Clients)

=============================================================================
