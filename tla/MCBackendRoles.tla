-------------------------- MODULE MCBackendRoles --------------------------
(* Small instances of the backend roles for TLC. *)
EXTENDS BackendRoles, TLC

CONSTANTS b1, b2, b3

\* Two choices that name the same worker key, and one that does not.
Keys == (b1 :> "k1") @@ (b2 :> "k1") @@ (b3 :> "k2")
===========================================================================
