---------------------------- MODULE AuthRegistry ----------------------------
(***************************************************************************)
(* The identity service's registry, auth.sqlite: the enrolled devices, the  *)
(* enrollment tokens and the membership policy of a group.  Each operator    *)
(* is one SQL transaction of the service: its guard, and the registry it     *)
(* leaves behind.  Nothing here is a step; the modules that use the registry  *)
(* say when its transactions run.                                            *)
(*                                                                          *)
(* One group is modelled.  Its members are a function from device keys to   *)
(* leaves, as the table's primary key has it.                                *)
(***************************************************************************)
EXTENDS Naturals, FiniteSets

CONSTANTS
    Devices,    \* device keys, each with the one registration signed for it
    Tokens,     \* enrollment tokens
    NoOne,      \* the absent key
    Leaves,     \* leaf indices of an MLS tree
    User,       \* the user of a device key, and the user a token was issued to
    Name        \* the device id a device key registers under

ASSUME KeysAssumption == NoOne \notin Devices
ASSUME LeavesAssumption == Leaves \subseteq Nat /\ 0 \in Leaves
ASSUME SlotsAssumption == DOMAIN User = Devices \cup Tokens /\ DOMAIN Name = Devices

Membership == UNION {[s -> Leaves] : s \in SUBSET Devices}
NoMembers == [d \in {} |-> 0]

\* No update is on record: the group is new, or a revocation changed it last.
NoUpdate == [expected |-> 0, epoch |-> 0, signer |-> NoOne, members |-> NoMembers]

\* PolicyUpdate, signed by the device it names.
Update == [expected : Nat, epoch : Nat, signer : Devices, members : Membership]

\* A group's row and its member rows; generation 0 is a group that has no row.
Policy == [generation : Nat, epoch : Nat, coordinator : Devices \cup {NoOne},
           members : Membership, last : Update \cup {NoUpdate}]

\* devices: the rows, those with ready = 1, those with revoked = 1 and their
\* authorization_generation.  used: the key that consumed a token.
Registry == [rows : SUBSET Devices, ready : SUBSET Devices, revoked : SUBSET Devices,
             generation : [Devices -> Nat], used : [Tokens -> Devices \cup {NoOne}],
             policy : Policy]

EmptyRegistry ==
    [rows |-> {}, ready |-> {}, revoked |-> {}, generation |-> [d \in Devices |-> 0],
     used |-> [t \in Tokens |-> NoOne],
     policy |-> [generation |-> 0, epoch |-> 0, coordinator |-> NoOne, members |-> NoMembers,
                 last |-> NoUpdate]]

\* No two members on one leaf.
Distinct(m) == \A d, e \in DOMAIN m : m[d] = m[e] => d = e

----------------------------------------------------------------------------
(* Reads.                                                                  *)

authorize(r, d) == d \in (r.rows \cap r.ready) \ r.revoked

\* enrollment and historical_enrollment.
enrollment(r) == r.rows \ r.revoked
historical_enrollment(r) == r.rows

authorized_group(r, d) == authorize(r, d) /\ d \in DOMAIN r.policy.members

\* A live token admits any key until a key has consumed it, then only that key.
enrollment_admission(r, live, t, d) ==
    /\ t \in live
    /\ r.used[t] = NoOne \/ (r.used[t] = d /\ d \notin r.revoked)

----------------------------------------------------------------------------
(* Transactions.                                                           *)

\* The same request again, after a lost answer: whether the token has expired since
\* does not matter.
ExactRetry(r, t, d) == r.used[t] = d /\ d \notin r.revoked

\* The INSERT fails when the key, or the user's device id, already has a row.
may_enroll(r, live, t, d) ==
    /\ User[d] = User[t]
    /\ \/ ExactRetry(r, t, d)
       \/ /\ r.used[t] = NoOne
          /\ t \in live
          /\ \A e \in r.rows : e # d /\ ~(User[e] = User[d] /\ Name[e] = Name[d])

enroll(r, t, d) ==
    IF ExactRetry(r, t, d) THEN r
    ELSE [r EXCEPT !.rows = @ \cup {d}, !.generation[d] = 1, !.used[t] = d]

activate(r, d) == [r EXCEPT !.ready = @ \cup {d}]

Without(m, d) == [e \in DOMAIN m \ {d} |-> m[e]]
LowestLeaf(m) == CHOOSE d \in DOMAIN m : \A e \in DOMAIN m : m[d] <= m[e]

\* Mutant: the group keeps the coordinator that was revoked.
PolicyKeepsCoordinator(p, d) ==
    IF d \notin DOMAIN p.members THEN p
    ELSE [p EXCEPT !.generation = @ + 1, !.last = NoUpdate, !.members = Without(@, d)]

\* A group that loses a member has a new generation, forgets its last update and
\* falls to the member on the lowest leaf when it was the coordinator that left.
policy_without(p, d) ==
    LET left == Without(p.members, d) IN
    IF d \notin DOMAIN p.members THEN p
    ELSE [p EXCEPT !.generation = @ + 1, !.last = NoUpdate, !.members = left,
                   !.coordinator = IF @ # d THEN @ ELSE IF DOMAIN left = {} THEN NoOne
                                    ELSE LowestLeaf(left)]

\* Every member of the group gets a new generation, the revoked device one more.
revoke(r, d) ==
    LET group == IF d \in DOMAIN r.policy.members THEN DOMAIN r.policy.members ELSE {} IN
    IF d \notin enrollment(r) THEN r
    ELSE [r EXCEPT !.revoked = @ \cup {d},
                   !.policy = policy_without(@, d),
                   !.generation = [e \in Devices |-> @[e] + (IF e \in group THEN 1 ELSE 0)
                                                          + (IF e = d THEN 1 ELSE 0)]]

\* The update the group's row records, sent again.
Repeated(p, u) == p.generation = u.expected + 1 /\ p.last = u

\* Mutant: any epoch will do.
ChangeAnyEpoch(p, u) ==
    IF p.generation = 0
    THEN u.expected = 0 /\ u.epoch = 0 /\ u.members = [d \in {u.signer} |-> 0]
    ELSE p.generation = u.expected /\ p.coordinator = u.signer

may_change(p, u) ==
    IF p.generation = 0
    THEN u.expected = 0 /\ u.epoch = 0 /\ u.members = [d \in {u.signer} |-> 0]
    ELSE p.generation = u.expected /\ p.coordinator = u.signer /\ u.epoch > p.epoch

may_apply(r, u) ==
    /\ DOMAIN u.members # {}
    /\ authorize(r, u.signer)
    /\ Distinct(u.members)
    /\ \A d \in DOMAIN u.members : authorize(r, d)
    /\ Repeated(r.policy, u) \/ (may_change(r.policy, u) /\ u.signer \in DOMAIN u.members)

\* Mutant: devices keep their generation when their group changes.
ApplySameGeneration(r, u) ==
    IF Repeated(r.policy, u) THEN r
    ELSE [r EXCEPT !.policy = [generation |-> u.expected + 1, epoch |-> u.epoch,
                               coordinator |-> u.signer, members |-> u.members, last |-> u]]

apply_policy(r, u) ==
    IF Repeated(r.policy, u) THEN r
    ELSE [r EXCEPT !.policy = [generation |-> u.expected + 1, epoch |-> u.epoch,
                               coordinator |-> u.signer, members |-> u.members, last |-> u],
                   !.generation = [d \in Devices |->
                       @[d] + (IF d \in DOMAIN r.policy.members THEN 1 ELSE 0)
                            + (IF d \in DOMAIN u.members THEN 1 ELSE 0)]]

----------------------------------------------------------------------------
(* What every transaction preserves.                                       *)

\* The members of a group are distinct devices that could connect now, one of them
\* its coordinator; and only enrolled devices are ready or revoked.
Sound(r) ==
    /\ r.ready \subseteq r.rows /\ r.revoked \subseteq r.rows
    /\ Distinct(r.policy.members)
    /\ \A d \in DOMAIN r.policy.members : authorize(r, d)
    /\ IF DOMAIN r.policy.members = {} THEN r.policy.coordinator = NoOne
       ELSE r.policy.coordinator \in DOMAIN r.policy.members

=============================================================================
