---------------------------- MODULE MCAuthority -----------------------------
(* One or two devices of one user, with a token and a name for each.        *)
EXTENDS Authority, TLC

CONSTANTS d1, d2, t1, t2, u1

One == {d1}
Two == {d1, d2}
OneToken == {t1}
TwoTokens == {t1, t2}

Alone == [x \in One \cup OneToken |-> u1]
AloneName == d1 :> "laptop"
OneUser == [x \in Two \cup TwoTokens |-> u1]
OwnNames == (d1 :> "laptop") @@ (d2 :> "phone")

\* Keys and tokens are compared with each other only, and no two keys share a name.
PairSymmetry == Permutations(Two) \cup Permutations(TwoTokens)
=============================================================================
