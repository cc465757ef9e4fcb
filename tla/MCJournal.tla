----------------------------- MODULE MCJournal -----------------------------
(* Two devices of two users, two overlapping service processes.            *)
EXTENDS Journal

CONSTANTS phone, laptop, p1, p2, s1, s2

Two == {phone, laptop}
Users == [e \in Two |-> IF e = phone THEN "alice" ELSE "bob"]
OldPhone == [e \in Two |-> IF e = phone THEN p1 ELSE None]
Both == {p1, p2}
=============================================================================
