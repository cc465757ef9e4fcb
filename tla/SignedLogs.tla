----------------------------- MODULE SignedLogs -----------------------------
(***************************************************************************)
(* What the two signed journals of the identity service promise their       *)
(* readers: registrations and revocations are only ever appended, one valid *)
(* record at a time.  A registration claims an endpoint nobody registered;   *)
(* a revocation names a registered endpoint once, and is authorised by the  *)
(* operator or by a registered, unrevoked device of the same user.           *)
(***************************************************************************)
EXTENDS LogRecords

VARIABLES
    entries,      \* Snapshot.entries
    revocations   \* RevocationLog.entries

Init == entries = << >> /\ revocations = << >>

Register ==
    \E r \in Registration :
        /\ r.endpoint \notin Registered(entries)
        /\ entries' = Append(entries, r)
        /\ UNCHANGED revocations

Revoke ==
    \E q \in Request :
        /\ q.target \notin Targets(revocations)
        /\ MayRevoke(q, entries, revocations)
        /\ revocations' = Append(revocations, q)
        /\ UNCHANGED entries

Next == Register \/ Revoke

Spec == Init /\ [][Next]_<<entries, revocations>>
=============================================================================
