----------------------------- MODULE LogRecords -----------------------------
(***************************************************************************)
(* The records of the registration and revocation journals, and the rules   *)
(* a revocation is validated by.  Signatures are taken to be authentic: a    *)
(* record is what its signer wrote.  An endpoint stands for the NKey it is   *)
(* enrolled with.                                                           *)
(***************************************************************************)
EXTENDS Naturals, Sequences, FiniteSets

CONSTANTS
    Endpoints,    \* users.<user>.devices.<device>, each enrolled with its own NKey
    Packages,     \* the signed registrations a device may present for its endpoint
    Owner,        \* the user of an endpoint
    Operator      \* the service's own key

ASSUME OperatorAssumption == Operator \notin Endpoints

Registration == [endpoint : Endpoints, package : Packages]
Request == [target : Endpoints, author : Endpoints \cup {Operator}]

Registered(log) == {log[i].endpoint : i \in DOMAIN log}
Targets(log) == {log[i].target : i \in DOMAIN log}

\* RevokeRequest::validate, against a registration snapshot and the revocations
\* before it: by the operator or by an active device of the target's user.
MayRevoke(request, registrations, previous) ==
    /\ request.target \in Registered(registrations)
    /\ request.author \notin Targets(previous)
    /\ \/ request.author = Operator
       \/ /\ request.author \in Registered(registrations)
          /\ Owner[request.author] = Owner[request.target]

\* RevocationLog::validate, against a registration snapshot.
ValidLog(log, registrations) ==
    \A i \in DOMAIN log :
        /\ MayRevoke(log[i], registrations, SubSeq(log, 1, i - 1))
        /\ log[i].target \notin Targets(SubSeq(log, 1, i - 1))
=============================================================================
