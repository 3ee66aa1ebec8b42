-------------------------- MODULE MCProxyLifecycle --------------------------
(***************************************************************************)
(* An instance of ProxyLifecycle for TLC.                                  *)
(***************************************************************************)
EXTENDS ProxyLifecycle

CONSTANTS s1, h1, h2

=============================================================================
