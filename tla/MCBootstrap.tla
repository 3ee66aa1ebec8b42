---------------------------- MODULE MCBootstrap ----------------------------
(***************************************************************************)
(* An instance of Bootstrap for TLC.                                       *)
(***************************************************************************)
EXTENDS Bootstrap, TLC

CONSTANTS p1, p2, p3

\* One process relies on the default of APP_ENV.
MCAppEnv == p1 :> "unset" @@ p2 :> "development" @@ p3 :> "production"

=============================================================================
