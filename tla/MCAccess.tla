------------------------------ MODULE MCAccess ------------------------------
(***************************************************************************)
(* Three registrations, of which two have one email and two one user name, *)
(* and devices that pair, refresh, expire and are revoked.                 *)
(***************************************************************************)
EXTENDS Access, TLC

CONSTANTS f1, f2, f3

MCEmail == f1 :> "a" @@ f2 :> "a" @@ f3 :> "b"
MCName == f1 :> "m" @@ f2 :> "n" @@ f3 :> "n"

Symmetry == Permutations(Tokens) \cup Permutations(Fingerprints)
=============================================================================
