----------------------------- MODULE MCAccounts -----------------------------
(***************************************************************************)
(* Instances of Accounts for TLC.                                          *)
(***************************************************************************)
EXTENDS Accounts, TLC

CONSTANTS h1, h2, e1, e2, p1

\* The first user becomes a vendor or an administrator, and back and forth.
MCGrants == [sub: {1}, role: {"vendor", "admin"}]

\* Handler slots and addresses are interchangeable.
AccountSymmetry == Permutations(Handlers) \cup Permutations(Emails)

=============================================================================
