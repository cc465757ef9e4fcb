------------------------------- MODULE MCHome -------------------------------
(* One home, three keys to generate and two recovery packages.             *)
EXTENDS Home

CONSTANTS g1, g2, g3, x, y

SomeKeys == {g1, g2, g3}
TwoPackages == {x, y}
=============================================================================
