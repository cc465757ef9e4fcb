-------------------------- MODULE Authority_proofs --------------------------
(* Proofs about the modules that use the registry, Authority and             *)
(* ChannelPolicy, for every set of devices, tokens and leaves, and every      *)
(* bound.                                                                    *)
EXTENDS Authority, ChannelPolicy, FiniteSetTheorems, WellFoundedInduction, TLAPS

----------------------------------------------------------------------------
(* The registry's transactions.                                             *)

(* Every non-empty set of naturals has a least element.                     *)
LEMMA LeastNatural ==
    ASSUME NEW T \in SUBSET Nat, T # {}
    PROVE  \E x \in T : \A y \in T : x <= y
<1> DEFINE below == {pair \in Nat \X Nat : pair[1] < pair[2]}
<1>1. IsWellFoundedOn(below, Nat)
  BY NatLessThanWellFounded, Zenon DEF OpToRel
<1>2. PICK x \in T : \A y \in T : ~(<<y, x>> \in below)
  <2> HIDE DEF below
  <2> QED BY <1>1, WFMin
<1>3. ASSUME NEW y \in T PROVE x <= y
  <2>1. y < x => <<y, x>> \in below
    OBVIOUS
  <2> QED BY <1>2, <2>1
<1> QED BY <1>3

(* Succession: a group that has members has one on its lowest leaf.         *)
LEMMA LowestLeafIsMember ==
    ASSUME NEW m \in Membership, DOMAIN m # {}
    PROVE  LowestLeaf(m) \in DOMAIN m
<1> DEFINE held == {m[d] : d \in DOMAIN m}
<1>1. held \in SUBSET Nat /\ held # {}
  BY LeavesAssumption DEF Membership
<1>2. PICK x \in held : \A y \in held : x <= y
  <2> HIDE DEF held
  <2> QED BY <1>1, LeastNatural
<1>3. \E d \in DOMAIN m : \A e \in DOMAIN m : m[d] <= m[e]
  BY <1>2
<1> QED BY <1>3 DEF LowestLeaf

(* Deleting a member's row leaves the others where they are.                *)
LEMMA WithoutIsMembership ==
    ASSUME NEW m \in Membership, NEW d
    PROVE  /\ Without(m, d) \in Membership
           /\ DOMAIN Without(m, d) = DOMAIN m \ {d}
           /\ Distinct(m) => Distinct(Without(m, d))
<1>1. PICK s \in SUBSET Devices : m \in [s -> Leaves]
  BY DEF Membership
<1>2. DOMAIN m = s /\ \A e \in s : m[e] \in Leaves
  BY <1>1
<1>3. Without(m, d) = [e \in s \ {d} |-> m[e]]
  BY <1>2 DEF Without
<1>4. Without(m, d) \in [s \ {d} -> Leaves]
  BY <1>2, <1>3
<1>5. Without(m, d) \in Membership
  BY <1>4 DEF Membership
<1>6. DOMAIN Without(m, d) = s \ {d} /\ \A e \in s \ {d} : Without(m, d)[e] = m[e]
  BY <1>3
<1> QED BY <1>2, <1>5, <1>6 DEF Distinct

(* A group that loses a device keeps distinct members, and its coordinator   *)
(* stays or is succeeded by a member.                                        *)
LEMMA PolicyWithout ==
    ASSUME NEW p \in Policy, NEW d \in Devices, Distinct(p.members),
           IF DOMAIN p.members = {} THEN p.coordinator = NoOne ELSE p.coordinator \in DOMAIN p.members
    PROVE  LET q == policy_without(p, d) IN
           /\ q \in Policy
           /\ Distinct(q.members)
           /\ DOMAIN q.members = DOMAIN p.members \ {d}
           /\ IF DOMAIN q.members = {} THEN q.coordinator = NoOne
              ELSE q.coordinator \in DOMAIN q.members
<1> DEFINE left == Without(p.members, d)
<1>1. CASE d \notin DOMAIN p.members
  BY <1>1 DEF policy_without
<1>2. CASE d \in DOMAIN p.members
  <2>1. p.members \in Membership /\ p.generation \in Nat
    BY DEF Policy
  <2>2. left \in Membership /\ DOMAIN left = DOMAIN p.members \ {d} /\ Distinct(left)
    BY <2>1, WithoutIsMembership
  <2>3. DOMAIN left # {} => LowestLeaf(left) \in DOMAIN left
    <3> HIDE DEF left
    <3> QED BY <2>2, LowestLeafIsMember
  <2>4. DOMAIN left \subseteq Devices
    BY <2>2 DEF Membership
  <2> DEFINE next == IF p.coordinator # d THEN p.coordinator
                     ELSE IF DOMAIN left = {} THEN NoOne ELSE LowestLeaf(left)
  <2>5. policy_without(p, d) = [p EXCEPT !.generation = @ + 1, !.last = NoUpdate,
                                         !.members = left, !.coordinator = next]
    BY <1>2 DEF policy_without
  <2>6. IF DOMAIN left = {} THEN next = NoOne ELSE next \in DOMAIN left
    BY <1>2, <2>2, <2>3
  <2>7. next \in Devices \cup {NoOne}
    BY <2>4, <2>6
  <2> HIDE DEF left, next
  <2>8. policy_without(p, d) = [generation |-> p.generation + 1, epoch |-> p.epoch,
                                coordinator |-> next, members |-> left, last |-> NoUpdate]
    BY <2>5 DEF Policy
  <2>9. policy_without(p, d) \in Policy
    <3>1. p.generation + 1 \in Nat /\ p.epoch \in Nat
      BY DEF Policy
    <3> QED BY <2>2, <2>7, <2>8, <3>1 DEF Policy
  <2>10. policy_without(p, d).members = left /\ policy_without(p, d).coordinator = next
    BY <2>8
  <2>11. DOMAIN left = {} => next = NoOne
    BY <2>6
  <2>12. DOMAIN left # {} => next \in DOMAIN left
    BY <2>6
  <2> QED BY <2>2, <2>9, <2>10, <2>11, <2>12
<1> QED BY <1>1, <1>2

(* revoke denies the device and touches no other row.                       *)
LEMMA RevokeSound ==
    ASSUME NEW r \in Registry, Sound(r), NEW d \in Devices
    PROVE  LET q == revoke(r, d) IN
           /\ q \in Registry
           /\ Sound(q)
           /\ q.rows = r.rows /\ q.ready = r.ready /\ q.used = r.used
           /\ q.revoked = IF d \in r.rows THEN r.revoked \cup {d} ELSE r.revoked
           /\ \A e : e # d => (e \in DOMAIN q.policy.members <=> e \in DOMAIN r.policy.members)
<1> DEFINE q == revoke(r, d)
           p == policy_without(r.policy, d)
<1>1. CASE d \notin enrollment(r)
  BY <1>1 DEF revoke, enrollment, Sound
<1>2. CASE d \in enrollment(r)
  <2>1. /\ r.policy \in Policy /\ Distinct(r.policy.members)
        /\ IF DOMAIN r.policy.members = {} THEN r.policy.coordinator = NoOne
           ELSE r.policy.coordinator \in DOMAIN r.policy.members
    BY DEF Registry, Sound
  <2>2. /\ p \in Policy /\ Distinct(p.members)
        /\ DOMAIN p.members = DOMAIN r.policy.members \ {d}
        /\ IF DOMAIN p.members = {} THEN p.coordinator = NoOne
           ELSE p.coordinator \in DOMAIN p.members
    <3> HIDE DEF p
    <3> QED BY <2>1, PolicyWithout DEF p
  <2>3. PICK generation \in [Devices -> Nat] :
           q = [r EXCEPT !.revoked = @ \cup {d}, !.policy = p, !.generation = generation]
    <3> DEFINE losers == IF d \in DOMAIN r.policy.members THEN DOMAIN r.policy.members ELSE {}
               next == [e \in Devices |-> r.generation[e] + (IF e \in losers THEN 1 ELSE 0)
                                                         + (IF e = d THEN 1 ELSE 0)]
    <3>1. r.generation \in [Devices -> Nat]
      BY DEF Registry
    <3>2. next \in [Devices -> Nat]
      BY <3>1
    <3>3. q = [r EXCEPT !.revoked = @ \cup {d}, !.policy = p, !.generation = next]
      BY <1>2, Zenon DEF revoke
    <3> HIDE DEF next, p, q
    <3> QED BY <3>2, <3>3
  <2> HIDE DEF p, q
  <2>4. /\ q \in Registry /\ q.rows = r.rows /\ q.ready = r.ready
        /\ q.revoked = r.revoked \cup {d} /\ q.policy = p /\ q.used = r.used
    BY <2>2, <2>3 DEF Registry
  <2>5. \A e \in DOMAIN p.members : authorize(q, e)
    BY <2>2, <2>4 DEF Sound, authorize
  <2>6. d \in r.rows
    BY <1>2 DEF enrollment
  <2> QED BY <2>2, <2>4, <2>5, <2>6 DEF Sound, q
<1> QED BY <1>1, <1>2

(* A consumed token names an enrolled device.                               *)
Paid(r) == \A t \in Tokens : r.used[t] \in r.rows \cup {NoOne}

(* enroll adds a row that is not ready, or finds the row its token paid for. *)
LEMMA EnrollSound ==
    ASSUME NEW r \in Registry, Sound(r), Paid(r), NEW t \in Tokens, NEW d \in Devices,
           NEW alive, may_enroll(r, alive, t, d)
    PROVE  LET q == enroll(r, t, d) IN
           /\ q \in Registry
           /\ Sound(q)
           /\ Paid(q)
           /\ q.rows = r.rows \cup {d}
           /\ q.ready = r.ready /\ q.revoked = r.revoked
           /\ q.policy = r.policy
<1> DEFINE q == enroll(r, t, d)
<1>1. CASE ExactRetry(r, t, d)
  <2>1. d \in r.rows
    BY <1>1, KeysAssumption DEF ExactRetry, Paid
  <2> QED BY <1>1, <2>1 DEF enroll
<1>2. CASE ~ExactRetry(r, t, d)
  <2>1. /\ r.generation \in [Devices -> Nat] /\ r.used \in [Tokens -> Devices \cup {NoOne}]
        /\ r.rows \subseteq Devices
    BY DEF Registry
  <2>2. q = [r EXCEPT !.rows = @ \cup {d}, !.generation[d] = 1, !.used[t] = d]
    BY <1>2 DEF enroll
  <2> HIDE DEF q
  <2>3. /\ q \in Registry /\ q.rows = r.rows \cup {d} /\ q.ready = r.ready
        /\ q.revoked = r.revoked /\ q.policy = r.policy
        /\ q.used = [r.used EXCEPT ![t] = d]
    BY <2>1, <2>2 DEF Registry
  <2>4. Sound(q)
    BY <2>3 DEF Sound, authorize
  <2>5. Paid(q)
    BY <2>1, <2>3 DEF Paid
  <2> QED BY <2>3, <2>4, <2>5 DEF q
<1> QED BY <1>1, <1>2

(* activate lets an enrolled device in.                                      *)
LEMMA ActivateSound ==
    ASSUME NEW r \in Registry, Sound(r), NEW d \in r.rows
    PROVE  LET q == activate(r, d) IN
           /\ q \in Registry /\ Sound(q)
           /\ q.rows = r.rows /\ q.revoked = r.revoked /\ q.policy = r.policy
           /\ q.ready = r.ready \cup {d} /\ q.used = r.used
BY DEF activate, Registry, Sound, authorize

(* apply_policy installs members it has checked.                             *)
LEMMA ApplySound ==
    ASSUME NEW r \in Registry, Sound(r), NEW u \in Update, may_apply(r, u)
    PROVE  LET q == apply_policy(r, u) IN
           /\ q \in Registry /\ Sound(q)
           /\ q.rows = r.rows /\ q.revoked = r.revoked /\ q.ready = r.ready
           /\ q.used = r.used
<1> DEFINE q == apply_policy(r, u)
           p == [generation |-> u.expected + 1, epoch |-> u.epoch, coordinator |-> u.signer,
                 members |-> u.members, last |-> u]
<1>1. CASE Repeated(r.policy, u)
  BY <1>1 DEF apply_policy
<1>2. CASE ~Repeated(r.policy, u)
  <2>1. p \in Policy
    BY DEF Update, Policy
  <2>2. PICK generation \in [Devices -> Nat] :
           q = [r EXCEPT !.policy = p, !.generation = generation]
    <3> DEFINE next == [d \in Devices |->
                          r.generation[d] + (IF d \in DOMAIN r.policy.members THEN 1 ELSE 0)
                                          + (IF d \in DOMAIN u.members THEN 1 ELSE 0)]
    <3>1. r.generation \in [Devices -> Nat]
      BY DEF Registry
    <3>2. next \in [Devices -> Nat]
      BY <3>1
    <3>3. q = [r EXCEPT !.policy = p, !.generation = next]
      BY <1>2, Zenon DEF apply_policy
    <3> HIDE DEF next, p, q
    <3> QED BY <3>2, <3>3
  <2>3. /\ Distinct(p.members) /\ p.coordinator \in DOMAIN p.members
        /\ \A d \in DOMAIN p.members : authorize(r, d)
    BY <1>2 DEF may_apply
  <2> HIDE DEF p, q
  <2>4. /\ q \in Registry /\ q.rows = r.rows /\ q.revoked = r.revoked
        /\ q.ready = r.ready /\ q.policy = p /\ q.used = r.used
    BY <2>1, <2>2 DEF Registry
  <2>5. Sound(q)
    BY <2>3, <2>4 DEF Sound, authorize
  <2> QED BY <2>4, <2>5 DEF q
<1> QED BY <1>1, <1>2

----------------------------------------------------------------------------
(* The registry stays sound, whatever fails and whatever lands late.        *)

(* What the loop's next step relies on: a device it is about to publish has  *)
(* a row, and a device it is about to activate is published as well.         *)
Ahead ==
    /\ svc.at \in {"publish", "activate"} => svc.todo \subseteq registry.rows
    /\ svc.at = "activate" => svc.target \in registry.rows \cap logged

Base ==
    /\ registry \in Registry
    /\ Sound(registry) /\ Paid(registry)
    /\ logged \subseteq Devices
    /\ revoked \subseteq Devices
    /\ \A w \in underway : w.device \in Devices
    /\ svc \in LoopState
    /\ registry.ready \subseteq logged
    /\ Ahead

LEMMA LoopTyped ==
    ASSUME NEW at \in {"down", "idle", "read"}, NEW why \in {"startup", "request", "repair"},
           NEW kind \in Requests \cup {"none"}
    PROVE  Loop(at, why, kind) \in LoopState /\ Loop(at, why, kind).at = at
BY DEF Loop, LoopState

LEMMA InitBase == Init => Base
<1> SUFFICES ASSUME Init PROVE Base
  OBVIOUS
<1>1. svc \in LoopState /\ svc.at = "down"
  BY LoopTyped DEF Init, Down
<1>2. NoMembers \in Membership /\ DOMAIN NoMembers = {}
  BY DEF NoMembers, Membership
<1>3. registry \in Registry
  BY <1>2 DEF Init, EmptyRegistry, Registry, Policy
<1>4. Sound(registry)
  BY <1>2 DEF Init, EmptyRegistry, Sound, Distinct
<1> QED BY <1>1, <1>3, <1>4 DEF Init, Base, Ahead, EmptyRegistry, Paid

(* Steps that leave the loop, the registry and the logs alone.              *)
LEMMA QuietBase ==
    ASSUME Base, UNCHANGED <<registry, logged, revoked, underway, svc>>
    PROVE  Base'
BY DEF Base, Ahead

(* An error sends the loop to a point that relies on nothing.               *)
LEMMA ErrorPoint ==
    ASSUME svc \in LoopState
    PROVE  AfterError(svc) \in LoopState /\ AfterError(svc).at \in {"down", "idle", "read"}
BY LoopTyped DEF AfterError, Down, Waiting, Requests

LEMMA FailsBase ==
    ASSUME Base, svc' = AfterError(svc), UNCHANGED <<registry, logged, revoked>>,
           \A w \in underway' : w.device \in Devices
    PROVE  Base'
<1>1. svc' \in LoopState /\ svc'.at \in {"down", "idle", "read"}
  BY ErrorPoint DEF Base
<1> QED BY <1>1 DEF Base, Ahead

(* Steps that only move the loop.                                           *)
LEMMA MoveBase ==
    ASSUME Base, UNCHANGED <<registry, logged, revoked, underway>>, svc' \in LoopState,
           svc'.at \notin {"publish", "activate"} \/ (svc'.at = "publish" /\ svc'.todo \subseteq registry.rows)
    PROVE  Base'
BY DEF Base, Ahead

LEMMA ServesBase ==
    ASSUME Base, Serves
    PROVE  Base'
<1> USE DEF Goes, store
<1>0. svc \in LoopState
  BY DEF Base
<1>1. CASE Start \/ RepairTick \/ Answer
  <2>1. svc' \in LoopState /\ svc'.at \in {"read", "idle"} /\ UNCHANGED <<registry, logged, revoked, underway>>
    BY <1>1, LoopTyped DEF Start, RepairTick, Answer, Waiting, Requests
  <2> QED BY <2>1, MoveBase
<1>2. CASE ReadLogs
  BY <1>0, <1>2, MoveBase DEF ReadLogs, LoopState, Base
<1>3. ASSUME NEW d \in Devices, Deny(d) PROVE Base'
  <2>1. registry' = revoke(registry, d) /\ svc' = [svc EXCEPT !.todo = @ \ {d}] /\ svc.at = "deny"
        /\ UNCHANGED <<logged, revoked, underway>>
    BY <1>3 DEF Deny
  <2>2. /\ registry' \in Registry /\ Sound(registry') /\ Paid(registry')
        /\ registry'.ready = registry.ready
    BY <2>1, RevokeSound DEF Base, Paid
  <2>3. svc' \in LoopState /\ svc'.at = "deny"
    BY <1>0, <2>1 DEF LoopState
  <2> QED BY <2>1, <2>2, <2>3 DEF Base, Ahead
<1>4. CASE DeniedAll
  <2>1. enrollment(registry) \subseteq registry.rows /\ enrollment(registry) \subseteq Devices
    BY DEF enrollment, Base, Registry
  <2>2. /\ UNCHANGED <<registry, logged, revoked, underway>>
        /\ \/ svc' = [svc EXCEPT !.at = "effect"]
           \/ svc' = [svc EXCEPT !.at = "provision"]
           \/ svc' = [svc EXCEPT !.at = "publish", !.todo = enrollment(registry)]
    BY <1>4 DEF DeniedAll
  <2>3. /\ svc' \in LoopState
        /\ \/ svc'.at \in {"effect", "provision"}
           \/ svc'.at = "publish" /\ svc'.todo = enrollment(registry)
    BY <1>0, <2>1, <2>2 DEF LoopState
  <2> QED BY <2>1, <2>2, <2>3, MoveBase
<1>5. ASSUME NEW t \in Tokens, NEW d \in Devices, EnrollDevice(t, d) PROVE Base'
  <2>1. CASE d \notin expired /\ may_enroll(registry, live, t, d)
    <3>1. /\ registry' = enroll(registry, t, d) /\ UNCHANGED <<logged, revoked, underway>>
          /\ svc' = [svc EXCEPT !.at = "publish", !.done = TRUE, !.target = d, !.todo = {d}]
      BY <1>5, <2>1 DEF EnrollDevice
    <3>2. /\ registry' \in Registry /\ Sound(registry') /\ Paid(registry')
          /\ registry'.ready = registry.ready /\ d \in registry'.rows
      BY <2>1, <3>1, EnrollSound DEF Base
    <3>3. svc' \in LoopState /\ svc'.at = "publish" /\ svc'.todo = {d}
      BY <1>0, <3>1 DEF LoopState
    <3> QED BY <3>1, <3>2, <3>3 DEF Base, Ahead
  <2>2. CASE ~(d \notin expired /\ may_enroll(registry, live, t, d))
    BY <1>5, <2>2, FailsBase DEF EnrollDevice, Fails, Base
  <2> QED BY <2>1, <2>2
<1>6. ASSUME NEW d \in Devices, RegisterDevice(d) PROVE Base'
  <2>1. CASE authorize(registry, d)
    <3>1. /\ UNCHANGED <<registry, logged, revoked, underway>>
          /\ svc' = [svc EXCEPT !.at = "publish", !.done = TRUE, !.target = d, !.todo = {d}]
      BY <1>6, <2>1 DEF RegisterDevice
    <3>2. svc' \in LoopState /\ svc'.at = "publish" /\ svc'.todo = {d}
      BY <1>0, <3>1 DEF LoopState
    <3>3. d \in registry.rows
      BY <2>1 DEF authorize
    <3> QED BY <3>1, <3>2, <3>3, MoveBase
  <2>2. CASE ~authorize(registry, d)
    BY <1>6, <2>2, FailsBase DEF RegisterDevice, Fails, Base
  <2> QED BY <2>1, <2>2
<1>7. ASSUME NEW u \in PolicyUpdates, ApplyPolicy(u) PROVE Base'
  <2>0. u \in Update /\ u.signer \in Devices
    BY BoundsAssumption DEF PolicyUpdates, Update, Base, Registry, Policy
  <2>1. CASE may_apply(registry, u)
    <3>1. /\ registry' = apply_policy(registry, u) /\ UNCHANGED <<logged, revoked, underway>>
          /\ svc' = [svc EXCEPT !.at = "provision", !.done = TRUE, !.target = u.signer]
      BY <1>7, <2>1 DEF ApplyPolicy
    <3>2. /\ registry' \in Registry /\ Sound(registry') /\ Paid(registry')
          /\ registry'.ready = registry.ready
      BY <2>0, <2>1, <3>1, ApplySound DEF Base, Paid
    <3>3. svc' \in LoopState /\ svc'.at = "provision"
      BY <1>0, <2>0, <3>1 DEF LoopState
    <3> QED BY <3>1, <3>2, <3>3 DEF Base, Ahead
  <2>2. CASE ~may_apply(registry, u)
    BY <1>7, <2>2, FailsBase DEF ApplyPolicy, Fails, Base
  <2> QED BY <2>1, <2>2
<1>8. ASSUME NEW author \in Devices \cup {Operator}, NEW d \in Devices, RevokeDevice(author, d)
      PROVE  Base'
  <2>1. CASE MayRevoke(author, d, svc.seen, revoked)
    <3>1. /\ UNCHANGED <<registry, logged, underway>> /\ revoked' = revoked \cup {d}
          /\ svc' = [svc EXCEPT !.at = "deny", !.done = TRUE, !.target = d,
                                !.todo = revoked \cup {d}]
      BY <1>8, <2>1 DEF RevokeDevice
    <3>2. svc' \in LoopState /\ svc'.at = "deny"
      BY <1>0, <3>1 DEF LoopState, Base
    <3> QED BY <3>1, <3>2 DEF Base, Ahead
  <2>2. CASE ~MayRevoke(author, d, svc.seen, revoked)
    BY <1>8, <2>2, FailsBase DEF RevokeDevice, Fails, Base
  <2> QED BY <2>1, <2>2
<1>9. ASSUME NEW d \in Devices, Publish(d) PROVE Base'
  <2>1. CASE d \notin expired
    <3>1. /\ UNCHANGED <<registry, revoked, underway>> /\ logged' = logged \cup {d}
          /\ svc' = [svc EXCEPT !.at = "activate", !.target = d]
          /\ svc.at = "publish" /\ d \in svc.todo
      BY <1>9, <2>1 DEF Publish
    <3>2. svc' \in LoopState /\ svc'.at = "activate" /\ svc'.target = d
      BY <1>0, <3>1 DEF LoopState
    <3>3. d \in registry.rows
      BY <3>1 DEF Base, Ahead
    <3> QED BY <3>1, <3>2, <3>3 DEF Base, Ahead
  <2>2. CASE d \in expired
    BY <1>9, <2>2, FailsBase DEF Publish, Fails, Base
  <2> QED BY <2>1, <2>2
<1>10. CASE Activate
  <2>1. /\ svc.target \in registry.rows \cap logged /\ UNCHANGED <<logged, revoked, underway>>
        /\ registry' = registry \/ registry' = activate(registry, svc.target)
        /\ svc' = [svc EXCEPT !.at = "publish", !.todo = @ \ {svc.target}]
    BY <1>10 DEF Activate, Base, Ahead
  <2>2. /\ registry' \in Registry /\ Sound(registry') /\ Paid(registry')
        /\ registry'.ready \subseteq logged /\ registry'.rows = registry.rows
    BY <2>1, ActivateSound DEF Base, Paid
  <2>3. svc' \in LoopState /\ svc'.at = "publish" /\ svc'.todo = svc.todo \ {svc.target}
    BY <1>0, <2>1 DEF LoopState
  <2>4. svc.todo \subseteq registry.rows
    BY <1>10 DEF Activate, Base, Ahead
  <2> QED BY <2>1, <2>2, <2>3, <2>4 DEF Base, Ahead
<1>11. CASE PublishedAll
  BY <1>0, <1>11, MoveBase DEF PublishedAll, LoopState, Base
<1>12. CASE Provision
  <2>1. historical_enrollment(registry) \subseteq Devices
    BY DEF historical_enrollment, Base, Registry
  <2> QED BY <1>0, <1>12, <2>1, MoveBase DEF Provision, LoopState, Base
<1>13. ASSUME NEW d \in Devices, Reconcile(d) PROVE Base'
  <2>1. CASE d \in registry.revoked \/ authorize(registry, d)
    <3>1. svc' = [svc EXCEPT !.todo = @ \ {d}] /\ svc.at = "reconcile"
          /\ UNCHANGED <<registry, logged, revoked, underway>>
      BY <1>13, <2>1 DEF Reconcile
    <3> QED BY <1>0, <3>1, MoveBase DEF LoopState, Base
  <2>2. CASE ~(d \in registry.revoked \/ authorize(registry, d))
    BY <1>13, <2>2, FailsBase DEF Reconcile, Fails, Base
  <2> QED BY <2>1, <2>2
<1>14. CASE Open
  <2>1. svc' \in LoopState /\ svc'.at = "idle" /\ UNCHANGED <<registry, logged, revoked, underway>>
    BY <1>14, LoopTyped DEF Open, Waiting, Requests
  <2> QED BY <2>1, MoveBase
<1> QED
  BY <1>1, <1>2, <1>3, <1>4, <1>5, <1>6, <1>7, <1>8, <1>9, <1>10, <1>11, <1>12, <1>13, <1>14
  DEF Serves

(* Every step keeps the invariant.                                          *)
LEMMA NextBase ==
    ASSUME Base, [Next]_vars
    PROVE  Base'
<1> USE DEF store, clients
<1>1. CASE Serves
  BY <1>1, ServesBase
<1>2. ASSUME NEW kind \in Requests, Receive(kind) PROVE Base'
  <2>1. svc' \in LoopState /\ svc'.at = "read" /\ UNCHANGED <<registry, logged, revoked, underway>>
    BY <1>2, LoopTyped DEF Receive
  <2> QED BY <2>1, MoveBase
<1>3. CASE StepFails
  BY <1>3, FailsBase DEF StepFails, Fails, Base
<1>4. CASE Crash
  <2>1. svc' \in LoopState /\ svc'.at = "down" /\ UNCHANGED <<registry, logged, revoked, underway>>
    BY <1>4, LoopTyped DEF Crash, Down
  <2> QED BY <2>1, MoveBase
<1>5. ASSUME NEW d \in Devices, GivenUp(d) PROVE Base'
  <2>1. /\ svc' = AfterError(svc) /\ UNCHANGED <<registry, logged, revoked>>
        /\ underway' = underway \cup {[device |-> d, after |-> Cardinality(revoked)]}
    BY <1>5 DEF GivenUp, Fails
  <2> QED BY <2>1, FailsBase DEF Base
<1>6. ASSUME NEW w \in underway, Lands(w) PROVE Base'
  <2>1. w.device \in Devices
    BY DEF Base
  <2> QED BY <1>6, <2>1 DEF Lands, Base, Ahead
<1>7. ASSUME NEW d \in Devices, NEW t \in Tokens \cup {NoOne}, Connect(d, t) PROVE Base'
  BY <1>7, QuietBase DEF Connect
<1>8. CASE Calls
  BY <1>8, QuietBase DEF Calls, AdmitToken, AdmitDevice, Grant
<1>9. ASSUME NEW l \in leases, LeaseEnds(l) PROVE Base'
  BY <1>9, QuietBase DEF LeaseEnds
<1>10. ASSUME NEW t \in Tokens, Invite(t) \/ TokenEnds(t) PROVE Base'
  BY <1>10, QuietBase DEF Invite, TokenEnds
<1>11. ASSUME NEW d \in Devices, PackageEnds(d) PROVE Base'
  BY <1>11, QuietBase DEF PackageEnds
<1>12. CASE UNCHANGED vars
  BY <1>12, QuietBase DEF vars
<1> QED
  BY <1>1, <1>2, <1>3, <1>4, <1>5, <1>6, <1>7, <1>8, <1>9, <1>10, <1>11, <1>12 DEF Next

(* Base is an invariant: the strengthening from which the theorems follow.    *)
THEOREM BaseInvariant == Spec => []Base
<1>1. Init => Base
  BY InitBase
<1>2. Base /\ [Next]_vars => Base'
  BY NextBase
<1> QED BY <1>1, <1>2, PTL DEF Spec

(* The group's members are distinct admitted devices and its coordinator is  *)
(* one of them, whatever fails, restarts or lands late.                      *)
THEOREM RegistryIsSound == Spec => []RegistrySound
<1>1. Base => RegistrySound
  BY DEF Base, RegistrySound
<1> QED BY <1>1, BaseInvariant, PTL

(* No device is admitted before its registration is in the signed log.      *)
THEOREM AdmittedAreInTheLog == Spec => []AdmittedArePublished
<1>1. Base => AdmittedArePublished
  BY DEF Base, AdmittedArePublished
<1> QED BY <1>1, BaseInvariant, PTL

----------------------------------------------------------------------------
(* While the gate is open, registry, logs and consumers agree about every   *)
(* device but those whose revocation landed late.                           *)

(* Everything names enrolled devices.                                       *)
Known ==
    /\ \A w \in underway : w.device \in registry.rows
    /\ late \subseteq revoked
    /\ consumers \in [chat : [Devices -> {"none", "nothing", "group"}], mailbox : SUBSET Devices]
    /\ logged \subseteq registry.rows
    /\ revoked \subseteq registry.rows
    /\ svc.seen \subseteq registry.rows
    /\ consumers.mailbox \subseteq registry.rows
    /\ \A d \in Devices : consumers.chat[d] # "none" => d \in registry.rows

(* The consumers of a device are those the policy gives it.                 *)
Settled(d) ==
    IF d \in registry.revoked THEN consumers.chat[d] = "none" /\ d \notin consumers.mailbox
    ELSE authorize(registry, d) /\ consumers.chat[d] = Filter(registry, d)

(* How far the loop has got: the logged revocations it has denied, the       *)
(* consumers it has reconciled.                                              *)
Progress ==
    /\ svc.at = "deny" => svc.todo \subseteq revoked /\ revoked \ (svc.todo \cup late) \subseteq registry.revoked
    /\ svc.at \in {"effect", "publish", "activate", "provision", "reconcile"} =>
           revoked \ late \subseteq registry.revoked
    /\ svc.at = "reconcile" => /\ enrollment(registry) \subseteq consumers.mailbox
                               /\ \A d \in registry.rows \ svc.todo : Settled(d)

(* The gate is open only between requests and while a read is served.       *)
GateOpen ==
    gate => /\ AdmissionAgrees
            /\ \/ svc.at = "idle"
               \/ svc.at \in {"read", "deny", "effect"} /\ svc.kind = "query" /\ svc.why = "request"
                  /\ ~svc.done

Agreement == Known /\ Progress /\ GateOpen

LEMMA InitAgreement == Init => Agreement
<1> SUFFICES ASSUME Init PROVE Agreement
  OBVIOUS
<1>1. svc.at = "down" /\ svc.seen = {}
  BY DEF Init, Down, Loop
<1>2. Known
  BY <1>1 DEF Init, Known, EmptyRegistry
<1> QED BY <1>1, <1>2 DEF Init, Agreement, Progress, GateOpen

(* Steps that leave the loop and everything it keeps alone.                 *)
LEMMA QuietAgreement ==
    ASSUME Agreement, UNCHANGED <<registry, logged, revoked, underway, consumers, svc>>,
           late' = late, gate' = gate
    PROVE  Agreement'
<1>1. Known' /\ Progress'
  BY DEF Agreement, Known, Progress, Settled
<1>2. GateOpen'
  BY DEF Agreement, GateOpen, AdmissionAgrees
<1> QED BY <1>1, <1>2 DEF Agreement

(* Steps that only move the loop while the gate is closed, to where it has   *)
(* nothing to show for it.                                                   *)
LEMMA ClosedAgreement ==
    ASSUME Agreement, UNCHANGED <<registry, logged, revoked, late, consumers>>, ~gate',
           \A w \in underway' : w.device \in registry.rows,
           svc'.at \in {"down", "idle", "read"}, svc'.seen = {}
    PROVE  Agreement'
BY DEF Agreement, Known, Progress, GateOpen

(* A failed request that had the gate open leaves the loop between requests. *)
LEMMA FailsAgreement ==
    ASSUME Agreement, svc.at # "idle", Fails, UNCHANGED store
    PROVE  Agreement'
<1> USE DEF store
<1>1. /\ svc'.at \in {"down", "idle", "read"} /\ svc'.seen = {}
      /\ gate /\ svc.why = "request" => svc'.at = "idle"
  BY DEF Fails, AfterError, Down, Waiting, Loop
<1>2. CASE ~gate
  BY <1>1, <1>2, ClosedAgreement DEF Fails, Agreement, Known
<1>3. CASE gate
  <2>1. svc'.at = "idle"
    BY <1>1, <1>3 DEF Agreement, GateOpen
  <2>2. Known' /\ Progress'
    BY <1>1, <2>1 DEF Agreement, Known, Progress
  <2>3. AdmissionAgrees'
    BY <1>3 DEF Agreement, GateOpen, AdmissionAgrees
  <2> QED BY <2>1, <2>2, <2>3 DEF Agreement, GateOpen
<1> QED BY <1>2, <1>3

(* A step of a request that may change something has the gate closed.       *)
LEMMA MutatingIsClosed ==
    ASSUME Agreement,
           \/ svc.at = "effect" /\ svc.kind # "query"
           \/ svc.at \in {"down", "publish", "activate", "provision", "reconcile"}
    PROVE  ~gate
BY DEF Agreement, GateOpen

LEMMA DenyAgreement ==
    ASSUME Base, Agreement, NEW d \in Devices, Deny(d)
    PROVE  Agreement'
<1>1. /\ svc.at = "deny" /\ d \in svc.todo /\ registry' = revoke(registry, d)
      /\ svc' = [svc EXCEPT !.todo = @ \ {d}] /\ gate' = gate
      /\ UNCHANGED <<logged, revoked, underway, late, consumers>>
  BY DEF Deny, Goes
<1>2. /\ svc'.at = "deny" /\ svc'.todo = svc.todo \ {d} /\ svc'.seen = svc.seen
      /\ svc'.kind = svc.kind /\ svc'.why = svc.why /\ svc'.done = svc.done
  BY <1>1 DEF Base, LoopState
<1>3. d \in registry.rows /\ d \in revoked
  BY <1>1 DEF Agreement, Known, Progress
<1>4. /\ registry'.rows = registry.rows /\ registry'.revoked = registry.revoked \cup {d}
      /\ registry'.ready = registry.ready
      /\ \A e : e # d => (e \in DOMAIN registry'.policy.members
                              <=> e \in DOMAIN registry.policy.members)
  BY <1>1, <1>3, RevokeSound DEF Base
<1>5. Known' /\ Progress'
  BY <1>1, <1>2, <1>3, <1>4 DEF Agreement, Known, Progress
<1>6. gate => AdmissionAgrees'
  <2>1. SUFFICES ASSUME gate, NEW e \in Devices \ late
                 PROVE  /\ e \in revoked => e \in registry'.revoked
                        /\ e \in enrollment(registry') => e \in registry'.ready \cap logged
                        /\ e \in consumers.mailbox <=> e \in enrollment(registry')
                        /\ consumers.chat[e] = IF e \in enrollment(registry')
                                               THEN Filter(registry', e) ELSE "none"
    BY <1>1 DEF AdmissionAgrees
  <2>2. /\ e \in revoked => e \in registry.revoked
        /\ e \in enrollment(registry) => e \in registry.ready \cap logged
        /\ e \in consumers.mailbox <=> e \in enrollment(registry)
        /\ consumers.chat[e] = IF e \in enrollment(registry) THEN Filter(registry, e) ELSE "none"
    BY <2>1 DEF Agreement, GateOpen, AdmissionAgrees
  <2>3. CASE e = d
    <3>1. registry' = registry
      BY <1>1, <1>3, <2>2, <2>3 DEF revoke, enrollment
    <3> QED BY <2>2, <3>1
  <2>4. CASE e # d
    <3>1. (e \in enrollment(registry') <=> e \in enrollment(registry))
          /\ Filter(registry', e) = Filter(registry, e)
      BY <1>4, <2>4 DEF enrollment, Filter
    <3> QED BY <1>4, <2>2, <3>1
  <2> QED BY <2>3, <2>4
<1>7. GateOpen'
  BY <1>1, <1>2, <1>6 DEF Agreement, GateOpen
<1> QED BY <1>5, <1>7 DEF Agreement

LEMMA EnrollAgreement ==
    ASSUME Base, Agreement, NEW t \in Tokens, NEW d \in Devices, EnrollDevice(t, d)
    PROVE  Agreement'
<1>0. svc.at = "effect" /\ ~gate
  BY MutatingIsClosed DEF EnrollDevice
<1>1. CASE d \notin expired /\ may_enroll(registry, live, t, d)
  <2>1. /\ registry' = enroll(registry, t, d) /\ gate' = gate
        /\ UNCHANGED <<logged, revoked, underway, late, consumers>>
        /\ svc' = [svc EXCEPT !.at = "publish", !.done = TRUE, !.target = d, !.todo = {d}]
    BY <1>1 DEF EnrollDevice, Goes
  <2>2. svc'.at = "publish" /\ svc'.seen = svc.seen
    BY <2>1 DEF Base, LoopState
  <2>3. registry'.rows = registry.rows \cup {d} /\ registry'.revoked = registry.revoked
    BY <1>1, <2>1, EnrollSound DEF Base
  <2> QED BY <1>0, <2>1, <2>2, <2>3 DEF Agreement, Known, Progress, GateOpen
<1>2. CASE ~(d \notin expired /\ may_enroll(registry, live, t, d))
  BY <1>0, <1>2, FailsAgreement DEF EnrollDevice, store
<1> QED BY <1>1, <1>2

LEMMA PolicyAgreement ==
    ASSUME Base, Agreement, NEW u \in PolicyUpdates, ApplyPolicy(u)
    PROVE  Agreement'
<1>0. svc.at = "effect" /\ ~gate
  BY MutatingIsClosed DEF ApplyPolicy
<1>1. CASE may_apply(registry, u)
  <2>0. u \in Update
    BY BoundsAssumption DEF PolicyUpdates, Update, Base, Registry, Policy
  <2>1. /\ registry' = apply_policy(registry, u) /\ gate' = gate
        /\ UNCHANGED <<logged, revoked, underway, late, consumers>>
        /\ svc' = [svc EXCEPT !.at = "provision", !.done = TRUE, !.target = u.signer]
    BY <1>1 DEF ApplyPolicy, Goes
  <2>2. svc'.at = "provision" /\ svc'.seen = svc.seen
    BY <2>1 DEF Base, LoopState
  <2>3. registry'.rows = registry.rows /\ registry'.revoked = registry.revoked
    BY <1>1, <2>0, <2>1, ApplySound DEF Base
  <2> QED BY <1>0, <2>1, <2>2, <2>3 DEF Agreement, Known, Progress, GateOpen
<1>2. CASE ~may_apply(registry, u)
  BY <1>0, <1>2, FailsAgreement DEF ApplyPolicy, store
<1> QED BY <1>1, <1>2

LEMMA ReconcileAgreement ==
    ASSUME Base, Agreement, NEW d \in Devices, Reconcile(d)
    PROVE  Agreement'
<1>0. svc.at = "reconcile" /\ d \in svc.todo /\ ~gate
  BY MutatingIsClosed DEF Reconcile
<1>1. CASE d \in registry.revoked \/ authorize(registry, d)
  <2>1. /\ gate' = gate /\ UNCHANGED <<registry, logged, revoked, underway, late>>
        /\ svc' = [svc EXCEPT !.todo = @ \ {d}]
        /\ consumers' = IF d \in registry.revoked
                        THEN [chat |-> [consumers.chat EXCEPT ![d] = "none"],
                              mailbox |-> consumers.mailbox \ {d}]
                        ELSE [consumers EXCEPT !.chat[d] = Filter(registry, d)]
    BY <1>1 DEF Reconcile, Goes
  <2>2. svc'.at = "reconcile" /\ svc'.seen = svc.seen /\ svc'.todo = svc.todo \ {d}
    BY <1>0, <2>1 DEF Base, LoopState
  <2>3. /\ consumers.chat \in [Devices -> {"none", "nothing", "group"}]
        /\ consumers.mailbox \in SUBSET Devices
        /\ consumers \in [chat : [Devices -> {"none", "nothing", "group"}], mailbox : SUBSET Devices]
        /\ Filter(registry, d) \in {"nothing", "group"}
    BY DEF Agreement, Known, Filter
  <2>4. /\ consumers' \in [chat : [Devices -> {"none", "nothing", "group"}], mailbox : SUBSET Devices]
        /\ \A e \in Devices \ {d} : /\ consumers'.chat[e] = consumers.chat[e]
                                    /\ e \in consumers'.mailbox <=> e \in consumers.mailbox
        /\ d \in registry.revoked => consumers'.chat[d] = "none" /\ d \notin consumers'.mailbox
        /\ d \notin registry.revoked => /\ consumers'.chat[d] = Filter(registry, d)
                                        /\ consumers'.mailbox = consumers.mailbox
    <3> HIDE DEF Filter
    <3>1. CASE d \in registry.revoked
      BY <2>1, <2>3, <3>1
    <3>2. CASE d \notin registry.revoked
      BY <2>1, <2>3, <3>2
    <3> QED BY <3>1, <3>2
  <2>5. d \in registry.rows
    BY <1>1 DEF authorize, Base, Sound
  <2>6. Known'
    <3>1. /\ consumers'.mailbox \subseteq registry.rows
          /\ \A e \in Devices : consumers'.chat[e] # "none" => e \in registry.rows
      BY <2>4, <2>5 DEF Agreement, Known
    <3> QED BY <2>1, <2>2, <2>4, <3>1 DEF Agreement, Known
  <2>7. enrollment(registry) \subseteq consumers'.mailbox
    <3>1. /\ enrollment(registry) \subseteq consumers.mailbox
          /\ enrollment(registry) \subseteq Devices
      BY <1>0 DEF Agreement, Progress, enrollment, Base, Registry
    <3> QED BY <2>4, <3>1 DEF enrollment
  <2>8. ASSUME NEW e \in registry.rows \ svc'.todo PROVE Settled(e)'
    <3>1. CASE e = d
      BY <1>1, <2>1, <2>4, <3>1 DEF Settled
    <3>2. CASE e # d
      <4>1. Settled(e) /\ e \in Devices
        BY <1>0, <2>2, <3>2 DEF Agreement, Progress, Base, Registry
      <4> QED BY <2>1, <2>4, <3>2, <4>1 DEF Settled
    <3> QED BY <3>1, <3>2
  <2>9. Progress'
    <3>1. \A e \in registry'.rows \ svc'.todo : Settled(e)'
      BY <2>1, <2>8
    <3>2. enrollment(registry') \subseteq consumers'.mailbox /\ revoked' \ late' \subseteq registry'.revoked
      BY <1>0, <2>1, <2>7 DEF Agreement, Progress
    <3> QED BY <2>2, <3>1, <3>2 DEF Progress
  <2> QED BY <1>0, <2>1, <2>6, <2>9 DEF Agreement, GateOpen
<1>2. CASE ~(d \in registry.revoked \/ authorize(registry, d))
  BY <1>0, <1>2, FailsAgreement DEF Reconcile, store
<1> QED BY <1>1, <1>2

(* What the loop has checked device by device is agreement.                 *)
LEMMA OpenAgreement ==
    ASSUME Base, Agreement, Open
    PROVE  Agreement'
<1>1. /\ svc.at = "reconcile" /\ svc.todo = {} /\ svc'.at = "idle" /\ svc'.seen = {}
      /\ UNCHANGED <<registry, logged, revoked, underway, late, consumers>>
  BY DEF Open, Waiting, Loop, store
<1>2. /\ revoked \ late \subseteq registry.revoked /\ enrollment(registry) \subseteq consumers.mailbox
      /\ \A d \in registry.rows : Settled(d)
  BY <1>1 DEF Agreement, Progress
<1>3. enrollment(registry) \subseteq registry.ready \cap logged
  BY <1>2 DEF enrollment, Settled, authorize, Base
<1>4. consumers.mailbox = enrollment(registry)
  BY <1>2 DEF enrollment, Settled, Agreement, Known
<1>5. ASSUME NEW d \in Devices
      PROVE  consumers.chat[d] = IF d \in enrollment(registry) THEN Filter(registry, d) ELSE "none"
  BY <1>2 DEF enrollment, Settled, Agreement, Known
<1>6. AdmissionAgrees'
  BY <1>1, <1>2, <1>3, <1>4, <1>5 DEF AdmissionAgrees
<1> QED BY <1>1, <1>6 DEF Agreement, Known, Progress, GateOpen

LEMMA ServesAgreement ==
    ASSUME Base, Agreement, Serves
    PROVE  Agreement'
<1> USE DEF Goes, store
<1>0. svc \in LoopState
  BY DEF Base
<1>1. CASE Start \/ RepairTick
  <2>1. ~gate
    BY <1>1, MutatingIsClosed DEF Start, RepairTick
  <2> QED BY <1>1, <2>1, ClosedAgreement DEF Start, RepairTick, Loop, Agreement, Known
<1>2. CASE ReadLogs
  <2>1. /\ svc' = [svc EXCEPT !.at = "deny", !.seen = logged, !.todo = revoked] /\ gate' = gate
        /\ svc.at = "read" /\ UNCHANGED <<registry, logged, revoked, underway, consumers>>
        /\ late' = IF gate THEN late ELSE {}
    BY <1>2 DEF ReadLogs
  <2>2. /\ svc'.at = "deny" /\ svc'.todo = revoked /\ svc'.seen = logged
        /\ svc'.kind = svc.kind /\ svc'.why = svc.why /\ svc'.done = svc.done
    BY <1>0, <2>1 DEF LoopState
  <2>3. Known' /\ Progress'
    BY <2>1, <2>2 DEF Agreement, Known, Progress
  <2>4. GateOpen'
    BY <2>1, <2>2 DEF Agreement, GateOpen, AdmissionAgrees
  <2> QED BY <2>3, <2>4 DEF Agreement
<1>3. ASSUME NEW d \in Devices, Deny(d) PROVE Agreement'
  BY <1>3, DenyAgreement
<1>4. CASE DeniedAll
  <2>1. /\ svc.at = "deny" /\ svc.todo = {} /\ gate' = gate
        /\ UNCHANGED <<registry, logged, revoked, underway, late, consumers>>
        /\ \/ svc' = [svc EXCEPT !.at = "effect"]
           \/ /\ svc' = [svc EXCEPT !.at = "provision"]
              /\ svc.done
           \/ /\ svc' = [svc EXCEPT !.at = "publish", !.todo = enrollment(registry)]
              /\ svc.why # "request"
    BY <1>0, <1>4 DEF DeniedAll, LoopState
  <2>2. svc'.at \in {"effect", "provision", "publish"} /\ svc'.seen = svc.seen
    BY <1>0, <2>1 DEF LoopState
  <2>3. Known' /\ Progress'
    BY <2>1, <2>2 DEF Agreement, Known, Progress
  <2>4. CASE gate
    <3>1. svc' = [svc EXCEPT !.at = "effect"] /\ svc.kind = "query" /\ svc.why = "request" /\ ~svc.done
      BY <2>1, <2>4 DEF Agreement, GateOpen
    <3>2. svc'.at = "effect" /\ svc'.kind = "query" /\ svc'.why = "request" /\ ~svc'.done
      BY <1>0, <3>1 DEF LoopState
    <3>3. AdmissionAgrees'
      BY <2>1, <2>4 DEF Agreement, GateOpen, AdmissionAgrees
    <3> QED BY <2>3, <3>2, <3>3 DEF Agreement, GateOpen
  <2> QED BY <2>1, <2>3, <2>4 DEF Agreement, GateOpen
<1>5. CASE Answer
  <2>1. CASE gate
    <3>1. svc'.at = "idle" /\ svc'.seen = {} /\ gate'
      BY <1>5, <2>1 DEF Answer, Waiting, Loop
    <3>2. AdmissionAgrees'
      BY <1>5, <2>1 DEF Answer, Agreement, GateOpen, AdmissionAgrees
    <3> QED BY <1>5, <3>1, <3>2 DEF Answer, Agreement, Known, Progress, GateOpen
  <2>2. CASE ~gate
    BY <1>5, <2>2, ClosedAgreement DEF Answer, Loop, Agreement, Known
  <2> QED BY <2>1, <2>2
<1>6. ASSUME NEW t \in Tokens, NEW d \in Devices, EnrollDevice(t, d) PROVE Agreement'
  BY <1>6, EnrollAgreement
<1>7. ASSUME NEW d \in Devices, RegisterDevice(d) PROVE Agreement'
  <2>0. svc.at = "effect" /\ ~gate
    BY <1>7, MutatingIsClosed DEF RegisterDevice
  <2>1. CASE authorize(registry, d)
    <3>1. /\ UNCHANGED <<registry, logged, revoked, underway, late, consumers>> /\ gate' = gate
          /\ svc' = [svc EXCEPT !.at = "publish", !.done = TRUE, !.target = d, !.todo = {d}]
      BY <1>7, <2>1 DEF RegisterDevice
    <3>2. svc'.at = "publish" /\ svc'.seen = svc.seen
      BY <1>0, <3>1 DEF LoopState
    <3> QED BY <2>0, <3>1, <3>2 DEF Agreement, Known, Progress, GateOpen
  <2>2. CASE ~authorize(registry, d)
    BY <1>7, <2>0, <2>2, FailsAgreement DEF RegisterDevice
  <2> QED BY <2>1, <2>2
<1>8. ASSUME NEW u \in PolicyUpdates, ApplyPolicy(u) PROVE Agreement'
  BY <1>8, PolicyAgreement
<1>9. ASSUME NEW author \in Devices \cup {Operator}, NEW d \in Devices, RevokeDevice(author, d)
      PROVE  Agreement'
  <2>0. svc.at = "effect" /\ ~gate
    BY <1>9, MutatingIsClosed DEF RevokeDevice
  <2>1. CASE MayRevoke(author, d, svc.seen, revoked)
    <3>1. /\ UNCHANGED <<registry, logged, underway, consumers>> /\ revoked' = revoked \cup {d}
          /\ late' = {}
          /\ svc' = [svc EXCEPT !.at = "deny", !.done = TRUE, !.target = d,
                                !.todo = revoked \cup {d}]
          /\ gate' = gate
      BY <1>9, <2>1 DEF RevokeDevice
    <3>2. svc'.at = "deny" /\ svc'.seen = svc.seen /\ svc'.todo = revoked'
      BY <1>0, <3>1 DEF LoopState
    <3>3. d \in registry.rows
      BY <2>1 DEF MayRevoke, Agreement, Known
    <3> QED BY <2>0, <3>1, <3>2, <3>3 DEF Agreement, Known, Progress, GateOpen
  <2>2. CASE ~MayRevoke(author, d, svc.seen, revoked)
    BY <1>9, <2>0, <2>2, FailsAgreement DEF RevokeDevice
  <2> QED BY <2>1, <2>2
<1>10. ASSUME NEW d \in Devices, Publish(d) PROVE Agreement'
  <2>0. svc.at = "publish" /\ d \in svc.todo /\ ~gate
    BY <1>10, MutatingIsClosed DEF Publish
  <2>1. CASE d \notin expired
    <3>1. /\ UNCHANGED <<registry, revoked, underway, late, consumers>> /\ logged' = logged \cup {d}
          /\ svc' = [svc EXCEPT !.at = "activate", !.target = d] /\ gate' = gate
      BY <1>10, <2>1 DEF Publish
    <3>2. svc'.at = "activate" /\ svc'.seen = svc.seen
      BY <1>0, <3>1 DEF LoopState
    <3>3. d \in registry.rows
      BY <2>0 DEF Base, Ahead
    <3> QED BY <2>0, <3>1, <3>2, <3>3 DEF Agreement, Known, Progress, GateOpen
  <2>2. CASE d \in expired
    BY <1>10, <2>0, <2>2, FailsAgreement DEF Publish
  <2> QED BY <2>1, <2>2
<1>11. CASE Activate
  <2>1. /\ svc.at = "activate" /\ ~gate /\ gate' = gate /\ svc.target \in registry.rows
        /\ UNCHANGED <<logged, revoked, underway, late, consumers>>
        /\ registry' = registry \/ registry' = activate(registry, svc.target)
        /\ svc' = [svc EXCEPT !.at = "publish", !.todo = @ \ {svc.target}]
    BY <1>11, MutatingIsClosed DEF Activate, Base, Ahead
  <2>2. registry'.rows = registry.rows /\ registry'.revoked = registry.revoked
    BY <2>1, ActivateSound DEF Base
  <2>3. svc'.at = "publish" /\ svc'.seen = svc.seen
    BY <1>0, <2>1 DEF LoopState
  <2> QED BY <2>1, <2>2, <2>3 DEF Agreement, Known, Progress, GateOpen
<1>12. CASE PublishedAll
  <2>1. /\ svc.at = "publish" /\ ~gate /\ gate' = gate /\ svc' = [svc EXCEPT !.at = "provision"]
        /\ UNCHANGED <<registry, logged, revoked, underway, late, consumers>>
    BY <1>12, MutatingIsClosed DEF PublishedAll
  <2>2. svc'.at = "provision" /\ svc'.seen = svc.seen
    BY <1>0, <2>1 DEF LoopState
  <2> QED BY <2>1, <2>2 DEF Agreement, Known, Progress, GateOpen
<1>13. CASE Provision
  <2>1. /\ svc.at = "provision" /\ ~gate /\ gate' = gate
        /\ svc' = [svc EXCEPT !.at = "reconcile", !.todo = historical_enrollment(registry)]
        /\ consumers' = [consumers EXCEPT !.mailbox = @ \cup enrollment(registry)]
        /\ UNCHANGED <<registry, logged, revoked, underway, late>>
    BY <1>13, MutatingIsClosed DEF Provision
  <2>2. svc'.at = "reconcile" /\ svc'.seen = svc.seen /\ svc'.todo = registry.rows
    BY <1>0, <2>1 DEF LoopState, historical_enrollment
  <2>3. enrollment(registry) \subseteq registry.rows /\ enrollment(registry) \subseteq Devices
    BY DEF enrollment, Base, Registry
  <2>4. /\ consumers' \in [chat : [Devices -> {"none", "nothing", "group"}], mailbox : SUBSET Devices]
        /\ consumers'.mailbox = consumers.mailbox \cup enrollment(registry)
        /\ consumers'.chat = consumers.chat
    BY <2>1, <2>3 DEF Agreement, Known
  <2>5. Known'
    BY <2>1, <2>2, <2>3, <2>4 DEF Agreement, Known
  <2>6. Progress'
    BY <2>1, <2>2, <2>4 DEF Agreement, Progress
  <2> QED BY <2>1, <2>5, <2>6 DEF Agreement, GateOpen
<1>14. ASSUME NEW d \in Devices, Reconcile(d) PROVE Agreement'
  BY <1>14, ReconcileAgreement
<1>15. CASE Open
  BY <1>15, OpenAgreement
<1> QED
  BY <1>1, <1>2, <1>3, <1>4, <1>5, <1>6, <1>7, <1>8, <1>9, <1>10, <1>11, <1>12, <1>13, <1>14, <1>15
  DEF Serves

LEMMA NextAgreement ==
    ASSUME Base, Agreement, [Next]_vars
    PROVE  Agreement'
<1> USE DEF store, clients
<1>1. CASE Serves
  BY <1>1, ServesAgreement
<1>2. ASSUME NEW kind \in Requests, Receive(kind) PROVE Agreement'
  <2>1. /\ svc.at = "idle" /\ svc'.at = "read" /\ svc'.seen = {} /\ svc'.why = "request"
        /\ svc'.kind = kind /\ ~svc'.done /\ UNCHANGED <<registry, logged, revoked, underway, late, consumers>>
    BY <1>2 DEF Receive, Loop
  <2>2. gate' => gate /\ kind = "query"
    BY <1>2 DEF Receive, Mutating
  <2>3. CASE ~gate'
    BY <2>1, <2>3, ClosedAgreement DEF Agreement, Known
  <2>4. CASE gate'
    <3>1. AdmissionAgrees'
      BY <2>1, <2>2, <2>4 DEF Agreement, GateOpen, AdmissionAgrees
    <3> QED BY <2>1, <2>2, <2>4, <3>1 DEF Agreement, Known, Progress, GateOpen
  <2> QED BY <2>3, <2>4
<1>3. CASE StepFails
  BY <1>3, FailsAgreement DEF StepFails
<1>4. CASE Crash
  BY <1>4, ClosedAgreement DEF Crash, Down, Loop, Agreement, Known
<1>5. ASSUME NEW d \in Devices, GivenUp(d) PROVE Agreement'
  <2>1. /\ svc' = AfterError(svc) /\ gate' = gate /\ d \in svc.seen
        /\ UNCHANGED <<registry, logged, revoked, late, consumers>>
        /\ underway' = underway \cup {[device |-> d, after |-> Cardinality(revoked)]}
    BY <1>5 DEF GivenUp, Fails, MayRevoke
  <2>2. ~gate
    BY <1>5, MutatingIsClosed DEF GivenUp
  <2>3. svc'.at \in {"down", "idle", "read"} /\ svc'.seen = {}
    BY <2>1 DEF AfterError, Down, Waiting, Loop
  <2>4. \A w \in underway' : w.device \in registry.rows
    BY <2>1 DEF Agreement, Known
  <2> QED BY <2>1, <2>2, <2>3, <2>4, ClosedAgreement
<1>6. ASSUME NEW w \in underway, Lands(w) PROVE Agreement'
  <2>1. /\ UNCHANGED <<registry, logged, consumers, gate, svc>>
        /\ underway' \subseteq underway /\ w.device \in registry.rows
        /\ \/ UNCHANGED <<revoked, late>>
           \/ revoked' = revoked \cup {w.device} /\ late' = late \cup {w.device}
    BY <1>6 DEF Lands, Agreement, Known
  <2>2. Known'
    BY <2>1 DEF Agreement, Known
  <2>3. Progress'
    <3>1. \A d : Settled(d)' = Settled(d)
      BY <2>1 DEF Settled
    <3> QED BY <2>1, <3>1 DEF Agreement, Progress
  <2>4. gate => AdmissionAgrees'
    BY <2>1 DEF Agreement, GateOpen, AdmissionAgrees
  <2> QED BY <2>1, <2>2, <2>3, <2>4 DEF Agreement, GateOpen
<1>7. ASSUME NEW d \in Devices, NEW t \in Tokens \cup {NoOne}, Connect(d, t) PROVE Agreement'
  BY <1>7, QuietAgreement DEF Connect
<1>8. CASE Calls
  BY <1>8, QuietAgreement DEF Calls, AdmitToken, AdmitDevice, Grant
<1>9. ASSUME NEW l \in leases, LeaseEnds(l) PROVE Agreement'
  BY <1>9, QuietAgreement DEF LeaseEnds
<1>10. ASSUME NEW t \in Tokens, Invite(t) \/ TokenEnds(t) PROVE Agreement'
  BY <1>10, QuietAgreement DEF Invite, TokenEnds
<1>11. ASSUME NEW d \in Devices, PackageEnds(d) PROVE Agreement'
  BY <1>11, QuietAgreement DEF PackageEnds
<1>12. CASE UNCHANGED vars
  BY <1>12, QuietAgreement DEF vars
<1> QED
  BY <1>1, <1>2, <1>3, <1>4, <1>5, <1>6, <1>7, <1>8, <1>9, <1>10, <1>11, <1>12 DEF Next

(* While admission is open, the registry denies every revoked device, every  *)
(* other one is published and ready, and the consumers are the policy's -    *)
(* through every failure, restart and late append; only a device whose       *)
(* revocation outlived its request is excepted.                              *)
THEOREM AdmissionFollowsRepair == Spec => []AdmissionAgrees
<1>1. Init => Agreement
  BY InitAgreement
<1>2. Base /\ Agreement /\ [Next]_vars => Agreement'
  BY NextAgreement
<1>3. Agreement => AdmissionAgrees
  BY DEF Agreement, GateOpen, AdmissionAgrees
<1> QED BY <1>1, <1>2, <1>3, BaseInvariant, PTL DEF Spec

----------------------------------------------------------------------------
(* A claim named after a device's present generation carries its present     *)
(* rights.                                                                   *)

(* A transaction that changes what a device may do gives it a new generation, *)
(* and generations never come back.                                          *)
Keeps(r, q) ==
    \A d \in r.rows :
        /\ d \in q.rows /\ q.generation[d] >= r.generation[d]
        /\ q.generation[d] = r.generation[d] =>
               /\ authorize(r, d) => authorize(q, d)
               /\ d \in DOMAIN q.policy.members <=> d \in DOMAIN r.policy.members

LEMMA SameKeeps ==
    ASSUME NEW r \in Registry
    PROVE  Keeps(r, r)
BY DEF Keeps, Registry

LEMMA RevokeKeeps ==
    ASSUME NEW r \in Registry, Sound(r), NEW d \in Devices
    PROVE  Keeps(r, revoke(r, d))
<1> DEFINE q == revoke(r, d)
           losers == IF d \in DOMAIN r.policy.members THEN DOMAIN r.policy.members ELSE {}
<1>1. CASE d \notin enrollment(r)
  BY <1>1, SameKeeps DEF revoke
<1>2. CASE d \in enrollment(r)
  <2>1. r.generation \in [Devices -> Nat] /\ r.rows \subseteq Devices
    BY DEF Registry
  <2>2. q.generation = [e \in Devices |-> r.generation[e] + (IF e \in losers THEN 1 ELSE 0)
                                                          + (IF e = d THEN 1 ELSE 0)]
    BY <1>2 DEF revoke, Registry
  <2>3. /\ q.rows = r.rows /\ q.ready = r.ready
        /\ q.revoked = r.revoked \cup {d}
        /\ \A e : e # d => (e \in DOMAIN q.policy.members <=> e \in DOMAIN r.policy.members)
    BY <1>2, RevokeSound DEF enrollment
  <2> HIDE DEF q, losers
  <2>4. ASSUME NEW e \in r.rows
        PROVE  q.generation[e] >= r.generation[e] /\ (e = d => q.generation[e] > r.generation[e])
    BY <2>1, <2>2
  <2> QED BY <2>1, <2>3, <2>4 DEF Keeps, authorize, q
<1> QED BY <1>1, <1>2

LEMMA EnrollKeeps ==
    ASSUME NEW r \in Registry, Sound(r), Paid(r), NEW t \in Tokens, NEW d \in Devices,
           NEW alive, may_enroll(r, alive, t, d)
    PROVE  Keeps(r, enroll(r, t, d))
<1>1. CASE ExactRetry(r, t, d)
  BY <1>1, SameKeeps DEF enroll
<1>2. CASE ~ExactRetry(r, t, d)
  <2>1. d \notin r.rows
    BY <1>2 DEF may_enroll
  <2>2. r.generation \in [Devices -> Nat] /\ r.rows \subseteq Devices
    BY DEF Registry
  <2>3. enroll(r, t, d) = [r EXCEPT !.rows = @ \cup {d}, !.generation[d] = 1, !.used[t] = d]
    BY <1>2 DEF enroll
  <2> DEFINE q == enroll(r, t, d)
  <2>4. /\ q.rows = r.rows \cup {d} /\ q.ready = r.ready /\ q.revoked = r.revoked
        /\ q.policy = r.policy /\ \A e \in r.rows : q.generation[e] = r.generation[e]
    BY <2>1, <2>2, <2>3 DEF Registry
  <2> QED BY <2>2, <2>4 DEF Keeps, authorize
<1> QED BY <1>1, <1>2

LEMMA ActivateKeeps ==
    ASSUME NEW r \in Registry, NEW d \in r.rows
    PROVE  Keeps(r, activate(r, d))
BY DEF activate, Registry, Keeps, authorize

LEMMA ApplyKeeps ==
    ASSUME NEW r \in Registry, Sound(r), NEW u \in Update, may_apply(r, u)
    PROVE  Keeps(r, apply_policy(r, u))
<1> DEFINE q == apply_policy(r, u)
<1>1. CASE Repeated(r.policy, u)
  BY <1>1, SameKeeps DEF apply_policy
<1>2. CASE ~Repeated(r.policy, u)
  <2>1. r.generation \in [Devices -> Nat] /\ r.rows \subseteq Devices
    BY DEF Registry
  <2>2. /\ q.generation = [d \in Devices |->
              r.generation[d] + (IF d \in DOMAIN r.policy.members THEN 1 ELSE 0)
                              + (IF d \in DOMAIN u.members THEN 1 ELSE 0)]
        /\ q.policy.members = u.members
    BY <1>2 DEF apply_policy, Registry
  <2>3. q.rows = r.rows /\ q.ready = r.ready /\ q.revoked = r.revoked
    BY ApplySound
  <2> HIDE DEF q
  <2>4. ASSUME NEW d \in r.rows
        PROVE  /\ q.generation[d] >= r.generation[d]
               /\ q.generation[d] = r.generation[d] =>
                      d \notin DOMAIN r.policy.members /\ d \notin DOMAIN u.members
    BY <2>1, <2>2
  <2> QED BY <2>1, <2>2, <2>3, <2>4 DEF Keeps, authorize, q
<1> QED BY <1>1, <1>2

(* A record with the fields of a callout.                                   *)
IsCallout(c) == c = [at |-> c.at, device |-> c.device, token |-> c.token, open |-> c.open,
                     generation |-> c.generation]

(* What a claim, or one in the making, knows of the registry.               *)
Claimed(d, generation) ==
    /\ d \in registry.rows
    /\ generation \in Nat
    /\ generation <= registry.generation[d]
    /\ generation = registry.generation[d] => authorize(registry, d)

Claims ==
    /\ IsCallout(callout)
    /\ callout.at = "groups" => Claimed(callout.device, callout.generation)
    /\ \A l \in leases : l.kind = "device" =>
           /\ Claimed(l.device, l.generation)
           /\ l.generation = registry.generation[l.device] =>
                  l.group = authorized_group(registry, l.device)

LEMMA NoCalloutTyped ==
    IsCallout(NoCallout) /\ NoCallout.at = "idle"
BY DEF NoCallout, IsCallout

LEMMA InitClaims == Init => Claims
BY NoCalloutTyped DEF Init, Claims

(* A transaction carries claims over.                                        *)
LEMMA CarryClaimed ==
    ASSUME Base, Base', Keeps(registry, registry'), NEW d, NEW generation, Claimed(d, generation)
    PROVE  /\ d \in registry'.rows
           /\ generation <= registry'.generation[d]
           /\ generation = registry'.generation[d] =>
                  /\ generation = registry.generation[d]
                  /\ authorize(registry', d)
                  /\ authorized_group(registry', d) = authorized_group(registry, d)
<1>1. /\ registry'.generation[d] \in Nat /\ registry.generation[d] \in Nat
      /\ d \in registry.rows /\ generation \in Nat
  BY DEF Base, Registry, Claimed
<1>2. /\ d \in registry'.rows /\ registry'.generation[d] >= registry.generation[d]
      /\ registry'.generation[d] = registry.generation[d] =>
            /\ authorize(registry, d) => authorize(registry', d)
            /\ d \in DOMAIN registry'.policy.members <=> d \in DOMAIN registry.policy.members
  BY <1>1 DEF Keeps
<1>3. generation = registry'.generation[d] => registry'.generation[d] = registry.generation[d]
  BY <1>1, <1>2 DEF Claimed
<1>4. generation <= registry'.generation[d]
  BY <1>1, <1>2 DEF Claimed
<1> QED BY <1>2, <1>3, <1>4 DEF Claimed, authorized_group

LEMMA CarryClaims ==
    ASSUME Base, Base', Claims, Keeps(registry, registry'), leases' = leases,
           callout' = callout \/ callout' = NoCallout
    PROVE  Claims'
<1>1. callout'.at = "groups" => Claimed(callout.device, callout.generation)'
  <2>1. callout'.at = "groups" => callout' = callout
    BY NoCalloutTyped
  <2> QED BY <2>1, CarryClaimed DEF Claims, Claimed
<1>2. ASSUME NEW l \in leases, l.kind = "device"
      PROVE  /\ Claimed(l.device, l.generation)'
             /\ l.generation = registry'.generation[l.device] =>
                    l.group = authorized_group(registry', l.device)
  <2>1. /\ Claimed(l.device, l.generation)
        /\ l.generation = registry.generation[l.device] =>
               l.group = authorized_group(registry, l.device)
    BY <1>2 DEF Claims
  <2> QED BY <2>1, CarryClaimed DEF Claimed
<1> QED BY <1>1, <1>2, NoCalloutTyped DEF Claims

(* The loop's own steps are transactions, and issue no claim.               *)
LEMMA ServesKeeps ==
    ASSUME Base, Serves
    PROVE  /\ Keeps(registry, registry')
           /\ leases' = leases
           /\ callout' = callout \/ callout' = NoCallout
<1> USE DEF Goes, Fails, store, clients
<1>0. /\ registry \in Registry /\ Sound(registry) /\ Paid(registry)
      /\ Keeps(registry, registry)
  BY SameKeeps DEF Base
<1>1. leases' = leases /\ (callout' = callout \/ callout' = NoCallout)
  BY DEF Serves, Start, RepairTick, ReadLogs, Deny, DeniedAll, Answer, EnrollDevice,
         RegisterDevice, ApplyPolicy, RevokeDevice, Publish, Activate, PublishedAll, Provision,
         Reconcile, Open
<1>2. ASSUME NEW d \in Devices, Deny(d) PROVE Keeps(registry, registry')
  BY <1>0, <1>2, RevokeKeeps DEF Deny
<1>3. ASSUME NEW t \in Tokens, NEW d \in Devices, EnrollDevice(t, d)
      PROVE  Keeps(registry, registry')
  BY <1>0, <1>3, EnrollKeeps DEF EnrollDevice
<1>4. ASSUME NEW u \in PolicyUpdates, ApplyPolicy(u) PROVE Keeps(registry, registry')
  <2>1. u \in Update
    BY BoundsAssumption DEF PolicyUpdates, Update, Base, Registry, Policy
  <2> QED BY <1>0, <1>4, <2>1, ApplyKeeps DEF ApplyPolicy
<1>5. CASE Activate
  <2>1. svc.target \in registry.rows
    BY <1>5 DEF Activate, Base, Ahead
  <2> QED BY <1>0, <1>5, <2>1, ActivateKeeps DEF Activate
<1>6. CASE \/ Start \/ RepairTick \/ ReadLogs \/ DeniedAll \/ Answer \/ PublishedAll
           \/ Provision \/ Open
           \/ \E d \in Devices : RegisterDevice(d) \/ Publish(d) \/ Reconcile(d)
           \/ \E author \in Devices \cup {Operator}, d \in Devices : RevokeDevice(author, d)
  BY <1>0, <1>6 DEF Start, RepairTick, ReadLogs, DeniedAll, Answer, PublishedAll, Provision,
                    Open, RegisterDevice, Publish, Reconcile, RevokeDevice
<1> QED BY <1>1, <1>2, <1>3, <1>4, <1>5, <1>6 DEF Serves

(* The callout's steps: the generation is read, then the groups.            *)
LEMMA CallsClaims ==
    ASSUME Base, Claims, Calls
    PROVE  Claims'
<1> USE DEF store
<1>1. CASE AdmitToken
  <2>1. /\ UNCHANGED registry /\ callout' = NoCallout
        /\ \A l \in leases' : l \in leases \/ l.kind = "enrollment"
    BY <1>1 DEF AdmitToken, Lease
  <2> QED BY <2>1, NoCalloutTyped DEF Claims, Claimed
<1>2. CASE AdmitDevice
  <2>0. UNCHANGED <<registry, leases>>
    BY <1>2 DEF AdmitDevice, clients
  <2>1. CASE callout.open /\ authorize(registry, callout.device)
    <3>1. callout' = [callout EXCEPT !.at = "groups",
                                     !.generation = registry.generation[callout.device]]
      BY <1>2, <2>1 DEF AdmitDevice
    <3>2. /\ callout.device \in registry.rows
          /\ registry.generation[callout.device] \in Nat
      BY <2>1 DEF authorize, Base, Registry
    <3>3. Claimed(callout.device, registry.generation[callout.device])
      BY <2>1, <3>2 DEF Claimed
    <3>4. /\ IsCallout(callout)'
          /\ callout'.device = callout.device
          /\ callout'.generation = registry.generation[callout.device]
      BY <3>1, <3>2 DEF Claims, IsCallout
    <3> QED BY <2>0, <3>3, <3>4 DEF Claims, Claimed
  <2>2. CASE ~(callout.open /\ authorize(registry, callout.device))
    <3>1. callout' = NoCallout
      BY <1>2, <2>2 DEF AdmitDevice
    <3> QED BY <2>0, <3>1, NoCalloutTyped DEF Claims, Claimed
  <2> QED BY <2>1, <2>2
<1>3. CASE Grant
  <2> DEFINE claim == Lease(callout.device, "device", callout.generation,
                            authorized_group(registry, callout.device))
  <2>1. /\ UNCHANGED registry /\ callout' = NoCallout
        /\ leases' \subseteq leases \cup {claim}
        /\ Claimed(callout.device, callout.generation)
    BY <1>3 DEF Grant, Claims
  <2>2. /\ claim.device = callout.device /\ claim.generation = callout.generation
        /\ claim.group = authorized_group(registry, callout.device)
    BY DEF Lease
  <2> HIDE DEF claim
  <2> QED BY <2>1, <2>2, NoCalloutTyped DEF Claims, Claimed
<1> QED BY <1>1, <1>2, <1>3 DEF Calls

LEMMA NextClaims ==
    ASSUME Base, Base', Claims, [Next]_vars
    PROVE  Claims'
<1> USE DEF store, clients
<1>0. Keeps(registry, registry)
  BY SameKeeps DEF Base
<1>1. CASE Serves
  BY <1>1, ServesKeeps, CarryClaims
<1>2. CASE Calls
  BY <1>2, CallsClaims
<1>3. CASE \/ \E kind \in Requests : Receive(kind)
           \/ StepFails \/ Crash
           \/ \E d \in Devices : GivenUp(d) \/ PackageEnds(d)
           \/ \E w \in underway : Lands(w)
           \/ \E t \in Tokens : Invite(t) \/ TokenEnds(t)
           \/ UNCHANGED vars
  <2>1. UNCHANGED <<registry, leases>> /\ (callout' = callout \/ callout' = NoCallout)
    BY <1>3 DEF Receive, StepFails, Crash, GivenUp, PackageEnds, Lands, Invite, TokenEnds,
                Fails, vars
  <2> QED BY <1>0, <2>1, CarryClaims
<1>4. ASSUME NEW d \in Devices, NEW t \in Tokens \cup {NoOne}, Connect(d, t) PROVE Claims'
  <2>1. /\ UNCHANGED <<registry, leases>>
        /\ callout' = [at |-> "admit", device |-> d, token |-> t, open |-> gate, generation |-> 0]
    BY <1>4 DEF Connect, NoCallout
  <2> QED BY <2>1 DEF Claims, Claimed, IsCallout
<1>5. ASSUME NEW l \in leases, LeaseEnds(l) PROVE Claims'
  BY <1>5 DEF LeaseEnds, Claims, Claimed
<1> QED BY <1>1, <1>2, <1>3, <1>4, <1>5 DEF Next

(* A lease whose generation is the device's present one carries the rights    *)
(* the policy gives it now, whatever transactions ran between the reads of   *)
(* the gate, of the row and of the groups.                                   *)
THEOREM ClaimsAreCurrent == Spec => []LeasesNameRights
<1>1. Init => Claims
  BY InitClaims
<1>2. Base /\ Base' /\ Claims /\ [Next]_vars => Claims'
  BY NextClaims
<1>3. Claims => LeasesNameRights
  BY DEF Claims, Claimed, LeasesNameRights
<1> QED BY <1>1, <1>2, <1>3, BaseInvariant, PTL DEF Spec

----------------------------------------------------------------------------
(* A device is admitted for a token and a registration of its own, and what  *)
(* it was answered stays true.                                               *)

(* Every row was paid for with one token.                                    *)
PaidFor(r) ==
    /\ r.rows = {r.used[t] : t \in Tokens} \ {NoOne}
    /\ \A t, u \in Tokens : r.used[t] = r.used[u] /\ t # u => r.used[t] = NoOne

LEMMA EnrollPays ==
    ASSUME NEW r \in Registry, PaidFor(r), NEW t \in Tokens, NEW d \in Devices,
           NEW alive, may_enroll(r, alive, t, d)
    PROVE  PaidFor(enroll(r, t, d))
<1>1. CASE ExactRetry(r, t, d)
  BY <1>1 DEF enroll
<1>2. CASE ~ExactRetry(r, t, d)
  <2>1. r.used[t] = NoOne /\ d \notin r.rows /\ d # NoOne
    BY <1>2, KeysAssumption DEF may_enroll
  <2>2. PICK q : q = enroll(r, t, d)
    OBVIOUS
  <2>3. q = [r EXCEPT !.rows = @ \cup {d}, !.generation[d] = 1, !.used[t] = d]
    BY <1>2, <2>2 DEF enroll
  <2>4. /\ q.rows = r.rows \cup {d} /\ q.used[t] = d
        /\ \A u \in Tokens \ {t} : q.used[u] = r.used[u]
    BY <2>3 DEF Registry
  <2>5. \A u \in Tokens : r.used[u] # d
    BY <2>1 DEF PaidFor
  <2>6. q.rows = {q.used[u] : u \in Tokens} \ {NoOne}
    BY <2>1, <2>4, <2>5 DEF PaidFor
  <2>7. \A u, v \in Tokens : q.used[u] = q.used[v] /\ u # v => q.used[u] = NoOne
    BY <2>4, <2>5 DEF PaidFor
  <2> QED BY <2>2, <2>6, <2>7 DEF PaidFor
<1> QED BY <1>1, <1>2

(* Rows, readiness and revocations are for good, in the registry and the logs. *)
Grows ==
    /\ registry.ready \subseteq registry'.ready /\ registry.revoked \subseteq registry'.revoked
    /\ logged \subseteq logged' /\ revoked \subseteq revoked'
    /\ PaidFor(registry) => PaidFor(registry')

LEMMA NextGrows ==
    ASSUME Base, [Next]_vars
    PROVE  Grows
<1> USE DEF Goes, Fails, store
<1>0. registry \in Registry /\ Sound(registry) /\ Paid(registry)
  BY DEF Base
<1>1. ASSUME NEW d \in Devices, Deny(d) PROVE Grows
  <2>1. registry' = revoke(registry, d) /\ UNCHANGED <<logged, revoked>>
    BY <1>1 DEF Deny
  <2>2. /\ registry'.rows = registry.rows /\ registry'.ready = registry.ready /\ registry'.used = registry.used
        /\ registry.revoked \subseteq registry'.revoked
    BY <1>0, <2>1, RevokeSound
  <2> QED BY <2>1, <2>2 DEF Grows, PaidFor
<1>2. ASSUME NEW t \in Tokens, NEW d \in Devices, EnrollDevice(t, d) PROVE Grows
  <2>1. CASE d \notin expired /\ may_enroll(registry, live, t, d)
    <3>1. registry' = enroll(registry, t, d) /\ UNCHANGED <<logged, revoked>>
      BY <1>2, <2>1 DEF EnrollDevice
    <3>2. registry'.ready = registry.ready /\ registry'.revoked = registry.revoked
      BY <1>0, <2>1, <3>1, EnrollSound
    <3>3. PaidFor(registry) => PaidFor(registry')
      BY <1>0, <2>1, <3>1, EnrollPays
    <3> QED BY <3>1, <3>2, <3>3 DEF Grows
  <2>2. CASE ~(d \notin expired /\ may_enroll(registry, live, t, d))
    BY <1>2, <2>2 DEF EnrollDevice, Grows
  <2> QED BY <2>1, <2>2
<1>3. ASSUME NEW u \in PolicyUpdates, ApplyPolicy(u) PROVE Grows
  <2>0. u \in Update
    BY BoundsAssumption DEF PolicyUpdates, Update, Base, Registry, Policy
  <2>1. CASE may_apply(registry, u)
    <3>1. registry' = apply_policy(registry, u) /\ UNCHANGED <<logged, revoked>>
      BY <1>3, <2>1 DEF ApplyPolicy
    <3>2. /\ registry'.rows = registry.rows /\ registry'.ready = registry.ready
          /\ registry'.used = registry.used /\ registry'.revoked = registry.revoked
      BY <1>0, <2>0, <2>1, <3>1, ApplySound
    <3> QED BY <3>1, <3>2 DEF Grows, PaidFor
  <2>2. CASE ~may_apply(registry, u)
    BY <1>3, <2>2 DEF ApplyPolicy, Grows
  <2> QED BY <2>1, <2>2
<1>4. CASE Activate
  <2>1. /\ svc.target \in registry.rows /\ UNCHANGED <<logged, revoked>>
        /\ registry' = registry \/ registry' = activate(registry, svc.target)
    BY <1>4 DEF Activate, Base, Ahead
  <2>2. /\ registry'.rows = registry.rows /\ registry'.used = registry.used /\ registry'.revoked = registry.revoked
        /\ registry.ready \subseteq registry'.ready
    BY <1>0, <2>1, ActivateSound
  <2> QED BY <2>1, <2>2 DEF Grows, PaidFor
<1>5. CASE \/ Start \/ RepairTick \/ ReadLogs \/ DeniedAll \/ Answer \/ PublishedAll
           \/ Provision \/ Open
           \/ \E d \in Devices : RegisterDevice(d) \/ Publish(d) \/ Reconcile(d)
           \/ \E author \in Devices \cup {Operator}, d \in Devices : RevokeDevice(author, d)
  <2>1. registry' = registry /\ logged \subseteq logged' /\ revoked \subseteq revoked'
    BY <1>5 DEF Start, RepairTick, ReadLogs, DeniedAll, Answer, PublishedAll, Provision,
                Open, RegisterDevice, Publish, Reconcile, RevokeDevice
  <2> QED BY <2>1 DEF Grows
<1>6. CASE Serves
  BY <1>1, <1>2, <1>3, <1>4, <1>5, <1>6 DEF Serves
<1>7. CASE \/ \E kind \in Requests : Receive(kind)
           \/ StepFails \/ Crash \/ Calls
           \/ \E d \in Devices : GivenUp(d) \/ PackageEnds(d)
           \/ \E w \in underway : Lands(w)
           \/ \E t \in Tokens : Invite(t) \/ TokenEnds(t)
           \/ \E d \in Devices, t \in Tokens \cup {NoOne} : Connect(d, t)
           \/ \E l \in leases : LeaseEnds(l)
           \/ UNCHANGED vars
  <2>1. registry' = registry /\ logged' = logged /\ revoked \subseteq revoked'
    BY <1>7 DEF Receive, StepFails, Crash, GivenUp, PackageEnds, Lands, Invite, TokenEnds,
                Connect, LeaseEnds, Calls, AdmitToken, AdmitDevice, Grant, vars
  <2> QED BY <2>1 DEF Grows
<1> QED BY <1>6, <1>7 DEF Next

(* What a request that is about to be answered has achieved: an enrollment's  *)
(* device is ready, a revocation's is in the log and denied.                  *)
Answering ==
    svc.why = "request" =>
        /\ svc.at \in {"read", "effect"} => ~svc.done
        /\ svc.at \in {"publish", "activate"} => svc.kind \in {"enroll", "register"}
        /\ svc.kind = "enroll" =>
              /\ svc.at = "deny" => ~svc.done
              /\ svc.at \in {"publish", "activate"} => svc.todo \subseteq {svc.target}
              /\ svc.at = "publish" /\ svc.todo = {} => svc.target \in registry.ready
              /\ svc.at \in {"provision", "reconcile"} => svc.target \in registry.ready
        /\ svc.kind = "revoke" =>
              /\ svc.at = "deny" /\ svc.done =>
                    svc.target \in revoked /\ svc.target \in svc.todo \cup registry.revoked
              /\ svc.at \in {"provision", "reconcile"} => svc.target \in revoked \cap registry.revoked

(* The loop stays where it is, or goes where nothing is about to be answered. *)
LEMMA StayAnswering ==
    ASSUME Answering, Grows, svc' = svc
    PROVE  Answering'
BY DEF Answering, Grows

LEMMA LeaveAnswering ==
    ASSUME svc'.at \in {"down", "idle", "read", "effect"}, ~svc'.done
    PROVE  Answering'
BY DEF Answering

LEMMA FailsAnswering ==
    ASSUME Fails
    PROVE  Answering'
<1>1. svc' \in {Down, Waiting, Loop("read", "repair", "none")}
  BY DEF Fails, AfterError
<1> QED BY <1>1, LeaveAnswering DEF Down, Waiting, Loop

LEMMA ServesAnswering ==
    ASSUME Base, Agreement, Answering, Grows, Serves
    PROVE  Answering'
<1> USE DEF Goes
<1>0. svc \in LoopState
  BY DEF Base
<1>1. CASE Start \/ RepairTick \/ Answer \/ Open
  <2>1. svc' \in {Waiting, Loop("read", "repair", "none"), Loop("read", "startup", "none")}
    BY <1>1 DEF Start, RepairTick, Answer, Open
  <2> QED BY <2>1, LeaveAnswering DEF Waiting, Loop
<1>2. CASE ReadLogs
  <2>1. /\ svc.at = "read" /\ svc'.at = "deny" /\ svc'.why = svc.why /\ svc'.done = svc.done
    BY <1>0, <1>2 DEF ReadLogs, LoopState
  <2> QED BY <2>1 DEF Answering
<1>3. ASSUME NEW d \in Devices, Deny(d) PROVE Answering'
  <2>1. /\ svc.at = "deny" /\ d \in svc.todo /\ svc' = [svc EXCEPT !.todo = @ \ {d}]
        /\ registry' = revoke(registry, d) /\ revoked' = revoked
    BY <1>3 DEF Deny
  <2>2. /\ svc'.at = "deny" /\ svc'.why = svc.why /\ svc'.kind = svc.kind
        /\ svc'.done = svc.done /\ svc'.todo = svc.todo \ {d} /\ svc'.target = svc.target
    BY <1>0, <2>1 DEF LoopState
  <2>3. d \in registry.rows
    BY <2>1 DEF Agreement, Known, Progress
  <2>4. registry'.revoked = registry.revoked \cup {d}
    BY <2>1, <2>3, RevokeSound DEF Base
  <2> QED BY <2>1, <2>2, <2>4 DEF Answering
<1>4. CASE DeniedAll
  <2>1. svc.at = "deny" /\ svc.todo = {} /\ UNCHANGED <<registry, revoked>>
    BY <1>4 DEF DeniedAll, store
  <2>2. CASE svc.why = "request" /\ ~svc.done
    <3>1. svc'.at = "effect" /\ svc'.done = svc.done
      BY <1>0, <1>4, <2>2 DEF DeniedAll, LoopState
    <3> QED BY <2>2, <3>1, LeaveAnswering
  <2>3. CASE svc.why = "request" /\ svc.done
    <3>1. svc' = [svc EXCEPT !.at = "provision"]
      BY <1>4, <2>3 DEF DeniedAll
    <3>2. svc'.at = "provision" /\ svc'.kind = svc.kind /\ svc'.target = svc.target
      BY <1>0, <3>1 DEF LoopState
    <3> QED BY <2>1, <2>3, <3>2 DEF Answering
  <2>4. CASE svc.why # "request"
    <3>1. svc' = [svc EXCEPT !.at = "publish", !.todo = enrollment(registry)]
      BY <1>4, <2>4 DEF DeniedAll
    <3>2. svc'.why = svc.why
      BY <1>0, <3>1 DEF LoopState
    <3> QED BY <2>4, <3>2 DEF Answering
  <2> QED BY <2>2, <2>3, <2>4
<1>5. ASSUME NEW t \in Tokens, NEW d \in Devices, EnrollDevice(t, d) PROVE Answering'
  <2>1. CASE d \notin expired /\ may_enroll(registry, live, t, d)
    <3>1. svc' = [svc EXCEPT !.at = "publish", !.done = TRUE, !.target = d, !.todo = {d}] /\ svc.kind = "enroll"
      BY <1>5, <2>1 DEF EnrollDevice
    <3>2. svc'.at = "publish" /\ svc'.kind = "enroll" /\ svc'.target = d /\ svc'.todo = {d}
      BY <1>0, <3>1 DEF LoopState
    <3> QED BY <3>2 DEF Answering
  <2>2. CASE ~(d \notin expired /\ may_enroll(registry, live, t, d))
    BY <1>5, <2>2, FailsAnswering DEF EnrollDevice
  <2> QED BY <2>1, <2>2
<1>6. ASSUME NEW d \in Devices, RegisterDevice(d) PROVE Answering'
  <2>1. CASE authorize(registry, d)
    <3>1. svc' = [svc EXCEPT !.at = "publish", !.done = TRUE, !.target = d, !.todo = {d}] /\ svc.kind = "register"
      BY <1>6, <2>1 DEF RegisterDevice
    <3>2. svc'.at = "publish" /\ svc'.kind = "register"
      BY <1>0, <3>1 DEF LoopState
    <3> QED BY <3>2 DEF Answering
  <2>2. CASE ~authorize(registry, d)
    BY <1>6, <2>2, FailsAnswering DEF RegisterDevice
  <2> QED BY <2>1, <2>2
<1>7. ASSUME NEW u \in PolicyUpdates, ApplyPolicy(u) PROVE Answering'
  <2>1. CASE may_apply(registry, u)
    <3>1. svc' = [svc EXCEPT !.at = "provision", !.done = TRUE, !.target = u.signer] /\ svc.kind = "policy"
      BY <1>7, <2>1 DEF ApplyPolicy
    <3>2. svc'.at = "provision" /\ svc'.kind = "policy"
      BY <1>0, <3>1 DEF LoopState
    <3> QED BY <3>2 DEF Answering
  <2>2. CASE ~may_apply(registry, u)
    BY <1>7, <2>2, FailsAnswering DEF ApplyPolicy
  <2> QED BY <2>1, <2>2
<1>8. ASSUME NEW author \in Devices \cup {Operator}, NEW d \in Devices, RevokeDevice(author, d)
      PROVE  Answering'
  <2>1. CASE MayRevoke(author, d, svc.seen, revoked)
    <3>1. /\ revoked' = revoked \cup {d} /\ svc.kind = "revoke"
          /\ svc' = [svc EXCEPT !.at = "deny", !.done = TRUE, !.target = d,
                                !.todo = revoked \cup {d}]
      BY <1>8, <2>1 DEF RevokeDevice
    <3>2. svc'.at = "deny" /\ svc'.kind = "revoke" /\ svc'.target = d /\ svc'.todo = revoked \cup {d}
      BY <1>0, <3>1 DEF LoopState
    <3> QED BY <3>1, <3>2 DEF Answering
  <2>2. CASE ~MayRevoke(author, d, svc.seen, revoked)
    BY <1>8, <2>2, FailsAnswering DEF RevokeDevice
  <2> QED BY <2>1, <2>2
<1>9. ASSUME NEW d \in Devices, Publish(d) PROVE Answering'
  <2>1. CASE d \notin expired
    <3>1. svc.at = "publish" /\ d \in svc.todo /\ svc' = [svc EXCEPT !.at = "activate", !.target = d]
      BY <1>9, <2>1 DEF Publish
    <3>2. /\ svc'.at = "activate" /\ svc'.target = d /\ svc'.todo = svc.todo /\ svc'.kind = svc.kind
          /\ svc'.why = svc.why
      BY <1>0, <3>1 DEF LoopState
    <3> QED BY <3>1, <3>2 DEF Answering
  <2>2. CASE d \in expired
    BY <1>9, <2>2, FailsAnswering DEF Publish
  <2> QED BY <2>1, <2>2
<1>10. CASE Activate
  <2>1. /\ svc.at = "activate" /\ svc' = [svc EXCEPT !.at = "publish", !.todo = @ \ {svc.target}]
        /\ svc.kind = "enroll" => registry' = activate(registry, svc.target)
    BY <1>10 DEF Activate
  <2>2. /\ svc'.at = "publish" /\ svc'.todo = svc.todo \ {svc.target} /\ svc'.kind = svc.kind
        /\ svc'.why = svc.why /\ svc'.target = svc.target
    BY <1>0, <2>1 DEF LoopState
  <2>3. svc.kind = "enroll" => svc.target \in registry'.ready
    BY <2>1 DEF activate, Base, Registry
  <2> QED BY <2>1, <2>2, <2>3 DEF Answering
<1>11. CASE PublishedAll
  <2>1. svc.at = "publish" /\ svc.todo = {} /\ svc' = [svc EXCEPT !.at = "provision"] /\ registry' = registry
    BY <1>11 DEF PublishedAll, store
  <2>2. /\ svc'.at = "provision" /\ svc'.kind = svc.kind /\ svc'.why = svc.why /\ svc'.target = svc.target
    BY <1>0, <2>1 DEF LoopState
  <2> QED BY <2>1, <2>2 DEF Answering
<1>12. CASE Provision
  <2>1. /\ svc.at = "provision" /\ UNCHANGED <<registry, revoked>>
        /\ svc' = [svc EXCEPT !.at = "reconcile", !.todo = historical_enrollment(registry)]
    BY <1>12 DEF Provision
  <2>2. /\ svc'.at = "reconcile" /\ svc'.kind = svc.kind /\ svc'.why = svc.why /\ svc'.target = svc.target
    BY <1>0, <2>1 DEF LoopState
  <2> QED BY <2>1, <2>2 DEF Answering
<1>13. ASSUME NEW d \in Devices, Reconcile(d) PROVE Answering'
  <2>1. CASE d \in registry.revoked \/ authorize(registry, d)
    <3>1. svc.at = "reconcile" /\ svc' = [svc EXCEPT !.todo = @ \ {d}] /\ UNCHANGED <<registry, revoked>>
      BY <1>13, <2>1 DEF Reconcile
    <3>2. /\ svc'.at = "reconcile" /\ svc'.kind = svc.kind /\ svc'.why = svc.why /\ svc'.target = svc.target
      BY <1>0, <3>1 DEF LoopState
    <3> QED BY <3>1, <3>2 DEF Answering
  <2>2. CASE ~(d \in registry.revoked \/ authorize(registry, d))
    BY <1>13, <2>2, FailsAnswering DEF Reconcile
  <2> QED BY <2>1, <2>2
<1> QED
  BY <1>1, <1>2, <1>3, <1>4, <1>5, <1>6, <1>7, <1>8, <1>9, <1>10, <1>11, <1>12, <1>13
  DEF Serves

LEMMA NextAnswering ==
    ASSUME Base, Agreement, Answering, Grows, [Next]_vars
    PROVE  Answering'
<1>1. CASE Serves
  BY <1>1, ServesAnswering
<1>2. ASSUME NEW kind \in Requests, Receive(kind) PROVE Answering'
  BY <1>2, LeaveAnswering DEF Receive, Loop
<1>3. CASE StepFails \/ \E d \in Devices : GivenUp(d)
  BY <1>3, FailsAnswering DEF StepFails, GivenUp
<1>4. CASE Crash
  BY <1>4, LeaveAnswering DEF Crash, Down, Loop
<1>5. CASE \/ Calls \/ UNCHANGED vars
           \/ \E d \in Devices : PackageEnds(d)
           \/ \E w \in underway : Lands(w)
           \/ \E t \in Tokens : Invite(t) \/ TokenEnds(t)
           \/ \E d \in Devices, t \in Tokens \cup {NoOne} : Connect(d, t)
           \/ \E l \in leases : LeaseEnds(l)
  <2>1. svc' = svc
    BY <1>5 DEF PackageEnds, Lands, Invite, TokenEnds, Connect, LeaseEnds, Calls, AdmitToken,
                AdmitDevice, Grant, vars
  <2> QED BY <2>1, StayAnswering
<1> QED BY <1>1, <1>2, <1>3, <1>4, <1>5 DEF Next

(* Answers stay true: a revoked device gets no consumer again.               *)
LEMMA KeepAnswers ==
    ASSUME AnswersLast, Grows, acked' = acked,
           \A d \in registry.revoked : d \notin consumers.mailbox /\ consumers.chat[d] = "none" =>
               d \notin consumers'.mailbox /\ consumers'.chat[d] = "none"
    PROVE  AnswersLast'
BY DEF AnswersLast, Grows

LEMMA NextAnswers ==
    ASSUME Base, Agreement, Answering, AnswersLast, acked \in [enrolled : SUBSET Devices, revoked : SUBSET Devices],
           Grows, [Next]_vars
    PROVE  AnswersLast' /\ acked' \in [enrolled : SUBSET Devices, revoked : SUBSET Devices]
<1> USE DEF Goes, Fails, store
<1>1. CASE Provision
  <2>1. consumers' = [consumers EXCEPT !.mailbox = @ \cup enrollment(registry)] /\ acked' = acked
    BY <1>1 DEF Provision
  <2>2. consumers'.mailbox = consumers.mailbox \cup enrollment(registry) /\ consumers'.chat = consumers.chat
    BY <2>1 DEF Agreement, Known
  <2>3. \A d \in registry.revoked : d \notin enrollment(registry)
    BY DEF enrollment
  <2> QED BY <2>1, <2>2, <2>3, KeepAnswers
<1>2. ASSUME NEW e \in Devices, Reconcile(e)
      PROVE  AnswersLast' /\ acked' \in [enrolled : SUBSET Devices, revoked : SUBSET Devices]
  <2>1. acked' = acked
    BY <1>2 DEF Reconcile
  <2>2. consumers \in [chat : [Devices -> {"none", "nothing", "group"}], mailbox : SUBSET Devices]
    BY DEF Agreement, Known
  <2>3. registry.revoked \subseteq Devices
    BY DEF Base, Registry
  <2>4. CASE e \in registry.revoked
    <3>1. consumers' = [chat |-> [consumers.chat EXCEPT ![e] = "none"], mailbox |-> consumers.mailbox \ {e}]
      BY <1>2, <2>4 DEF Reconcile
    <3> QED BY <2>1, <2>2, <2>3, <3>1, KeepAnswers
  <2>5. CASE e \notin registry.revoked /\ authorize(registry, e)
    <3>1. consumers' = [consumers EXCEPT !.chat[e] = Filter(registry, e)]
      BY <1>2, <2>5 DEF Reconcile
    <3>2. /\ consumers'.mailbox = consumers.mailbox
          /\ \A d \in Devices \ {e} : consumers'.chat[d] = consumers.chat[d]
      BY <2>2, <3>1
    <3> QED BY <2>1, <2>3, <2>5, <3>2, KeepAnswers
  <2>6. CASE e \notin registry.revoked /\ ~authorize(registry, e)
    <3>1. consumers' = consumers
      BY <1>2, <2>6 DEF Reconcile
    <3> QED BY <2>1, <3>1, KeepAnswers
  <2> QED BY <2>4, <2>5, <2>6
<1>3. CASE Open
  <2>1. svc.at = "reconcile" /\ svc.todo = {} /\ acked' = AckOf(svc) /\ UNCHANGED <<registry, logged, revoked, consumers>>
    BY <1>3 DEF Open
  <2>2. CASE svc.why = "request" /\ svc.kind = "enroll"
    <3>1. acked' = [acked EXCEPT !.enrolled = @ \cup {svc.target}]
      BY <2>1, <2>2 DEF AckOf
    <3>2. svc.target \in registry.ready /\ registry.ready \subseteq logged /\ registry.ready \subseteq Devices
      BY <2>1, <2>2 DEF Answering, Base, Registry
    <3>3. acked'.enrolled = acked.enrolled \cup {svc.target} /\ acked'.revoked = acked.revoked
      BY <3>1
    <3>4. acked' \in [enrolled : SUBSET Devices, revoked : SUBSET Devices]
      BY <3>1, <3>2
    <3> QED BY <2>1, <3>2, <3>3, <3>4 DEF AnswersLast
  <2>3. CASE svc.why = "request" /\ svc.kind = "revoke"
    <3>1. acked' = [acked EXCEPT !.revoked = @ \cup {svc.target}]
      BY <2>1, <2>3 DEF AckOf
    <3>2. svc.target \in revoked \cap registry.revoked /\ registry.revoked \subseteq Devices /\ registry.revoked \subseteq registry.rows
      BY <2>1, <2>3 DEF Answering, Base, Registry, Sound
    <3>3. consumers.chat[svc.target] = "none" /\ svc.target \notin consumers.mailbox
      <4>1. Settled(svc.target)
        BY <2>1, <3>2 DEF Agreement, Progress
      <4> QED BY <3>2, <4>1 DEF Settled
    <3>4. acked'.revoked = acked.revoked \cup {svc.target} /\ acked'.enrolled = acked.enrolled
      BY <3>1
    <3>5. acked' \in [enrolled : SUBSET Devices, revoked : SUBSET Devices]
      BY <3>1, <3>2
    <3> QED BY <2>1, <3>2, <3>3, <3>4, <3>5 DEF AnswersLast
  <2>4. CASE ~(svc.why = "request" /\ svc.kind \in {"enroll", "revoke"})
    <3>1. acked' = acked
      BY <2>1, <2>4 DEF AckOf
    <3> QED BY <2>1, <3>1, KeepAnswers
  <2> QED BY <2>2, <2>3, <2>4
<1>4. CASE \/ Start \/ RepairTick \/ ReadLogs \/ DeniedAll \/ Answer \/ PublishedAll \/ Activate
           \/ \E d \in Devices : Deny(d) \/ RegisterDevice(d) \/ Publish(d)
           \/ \E t \in Tokens, d \in Devices : EnrollDevice(t, d)
           \/ \E u \in PolicyUpdates : ApplyPolicy(u)
           \/ \E author \in Devices \cup {Operator}, d \in Devices : RevokeDevice(author, d)
  <2>1. acked' = acked /\ consumers' = consumers
    BY <1>4 DEF Start, RepairTick, ReadLogs, DeniedAll, Answer, PublishedAll, Activate, Deny,
                RegisterDevice, Publish, EnrollDevice, ApplyPolicy, RevokeDevice
  <2> QED BY <2>1, KeepAnswers
<1>5. CASE \/ \E kind \in Requests : Receive(kind)
           \/ StepFails \/ Crash \/ Calls
           \/ \E d \in Devices : GivenUp(d) \/ PackageEnds(d)
           \/ \E w \in underway : Lands(w)
           \/ \E t \in Tokens : Invite(t) \/ TokenEnds(t)
           \/ \E d \in Devices, t \in Tokens \cup {NoOne} : Connect(d, t)
           \/ \E l \in leases : LeaseEnds(l)
           \/ UNCHANGED vars
  <2>1. acked' = acked /\ consumers' = consumers
    BY <1>5 DEF Receive, StepFails, Crash, GivenUp, PackageEnds, Lands, Invite, TokenEnds,
                Connect, LeaseEnds, Calls, AdmitToken, AdmitDevice, Grant, vars
  <2> QED BY <2>1, KeepAnswers
<1>6. CASE Serves
  BY <1>1, <1>2, <1>3, <1>4, <1>6 DEF Serves
<1> QED BY <1>5, <1>6 DEF Next

(* The types of what the other invariants leave out; a callout in the making *)
(* is about a device.                                                        *)
Callout ==
    [at : {"idle", "admit", "groups"}, device : Devices \cup {NoOne}, token : Tokens \cup {NoOne},
     open : BOOLEAN, generation : Nat]

Claim == [device : Devices, kind : {"enrollment", "device"}, generation : Nat, group : BOOLEAN]

Kinds ==
    /\ IsFiniteSet(revoked) /\ underway \subseteq [device : Devices, after : Nat]
    /\ gate \in BOOLEAN
    /\ callout \in Callout /\ (callout.at # "idle" => callout.device \in Devices)
    /\ leases \subseteq Claim
    /\ live \subseteq Tokens /\ expired \subseteq Devices /\ faults \in Nat

LEMMA NoCalloutKinds ==
    NoCallout \in Callout /\ NoCallout.at = "idle"
BY DEF NoCallout, Callout

LEMMA InitKinds == Init => Kinds
<1>1. Init => gate \in BOOLEAN
  BY Zenon DEF Init
<1> QED BY <1>1, NoCalloutKinds, FS_EmptySet DEF Init, Kinds

LEMMA ServesKinds ==
    ASSUME Base, Kinds, Serves
    PROVE  Kinds'
<1> USE DEF Goes, Fails, store, clients
<1>1. UNCHANGED <<underway, leases, live, expired, faults>> /\ (callout' = callout \/ callout' = NoCallout)
  BY DEF Serves, Start, RepairTick, ReadLogs, Deny, DeniedAll, Answer, EnrollDevice,
         RegisterDevice, ApplyPolicy, RevokeDevice, Publish, Activate, PublishedAll, Provision,
         Reconcile, Open
<1>2. gate' \in BOOLEAN
  <2>1. CASE Open
    BY <2>1, Zenon DEF Open
  <2>2. CASE ~Open
    <3>1. gate' = gate
      BY <2>2 DEF Serves, Start, RepairTick, ReadLogs, Deny, DeniedAll, Answer, EnrollDevice,
             RegisterDevice, ApplyPolicy, RevokeDevice, Publish, Activate, PublishedAll, Provision,
             Reconcile
    <3> QED BY <3>1 DEF Kinds
  <2> QED BY <2>1, <2>2
<1>3. revoked' = revoked \/ \E d \in Devices : revoked' = revoked \cup {d}
  BY DEF Serves, Start, RepairTick, ReadLogs, Deny, DeniedAll, Answer, EnrollDevice,
         RegisterDevice, ApplyPolicy, RevokeDevice, Publish, Activate, PublishedAll, Provision,
         Reconcile, Open
<1>4. IsFiniteSet(revoked')
  BY <1>3, FS_AddElement DEF Kinds
<1> QED BY <1>1, <1>2, <1>4, NoCalloutKinds DEF Kinds

LEMMA CallsKinds ==
    ASSUME Base, Kinds, Calls
    PROVE  Kinds'
<1> USE DEF store
<1>0. UNCHANGED <<revoked, underway, gate, live, expired, faults>>
  BY DEF Calls, AdmitToken, AdmitDevice, Grant, clients
<1>1. CASE AdmitToken
  <2>1. callout' = NoCallout /\ callout.device \in Devices
    BY <1>1 DEF AdmitToken, Kinds
  <2>2. leases' \subseteq leases \cup {Lease(callout.device, "enrollment", 0, FALSE)}
    BY <1>1 DEF AdmitToken
  <2>3. Lease(callout.device, "enrollment", 0, FALSE) \in Claim
    BY <2>1 DEF Lease, Claim
  <2> QED BY <1>0, <2>1, <2>2, <2>3, NoCalloutKinds DEF Kinds
<1>2. CASE AdmitDevice
  <2>1. leases' = leases
    BY <1>2 DEF AdmitDevice, clients
  <2>2. CASE callout' = NoCallout
    BY <1>0, <2>1, <2>2, NoCalloutKinds DEF Kinds
  <2>3. CASE callout' # NoCallout
    <3>1. /\ callout' = [callout EXCEPT !.at = "groups",
                                        !.generation = registry.generation[callout.device]]
          /\ callout.at = "admit" /\ callout.device \in Devices /\ callout \in Callout
      BY <1>2, <2>3 DEF AdmitDevice, Kinds
    <3>2. registry.generation[callout.device] \in Nat
      BY <3>1 DEF Base, Registry
    <3>3. callout' \in Callout /\ callout'.device = callout.device
      BY <3>1, <3>2 DEF Callout
    <3> QED BY <1>0, <2>1, <3>1, <3>3 DEF Kinds
  <2> QED BY <2>2, <2>3
<1>3. CASE Grant
  <2> DEFINE claim == Lease(callout.device, "device", callout.generation,
                            authorized_group(registry, callout.device))
  <2>1. callout' = NoCallout /\ callout.device \in Devices /\ callout.generation \in Nat
    BY <1>3 DEF Grant, Kinds, Callout
  <2>2. leases' \subseteq leases \cup {claim}
    BY <1>3 DEF Grant
  <2>3. authorized_group(registry, callout.device) \in BOOLEAN
    BY DEF authorized_group
  <2>4. claim \in Claim
    BY <2>1, <2>3 DEF Lease, Claim
  <2> HIDE DEF claim
  <2> QED BY <1>0, <2>1, <2>2, <2>4, NoCalloutKinds DEF Kinds
<1> QED BY <1>1, <1>2, <1>3 DEF Calls

LEMMA NextKinds ==
    ASSUME Base, Kinds, [Next]_vars
    PROVE  Kinds'
<1> USE DEF store, clients
<1>1. CASE Serves
  BY <1>1, ServesKinds
<1>2. CASE Calls
  BY <1>2, CallsKinds
<1>3. ASSUME NEW kind \in Requests, Receive(kind) PROVE Kinds'
  <2>1. UNCHANGED <<revoked, underway, callout, leases, live, expired, faults>> /\ gate' = (gate /\ ~Mutating(kind))
    BY <1>3 DEF Receive
  <2>2. gate' \in BOOLEAN
    BY <2>1, Zenon
  <2> QED BY <2>1, <2>2 DEF Kinds
<1>4. CASE StepFails \/ Crash
  <2>1. /\ UNCHANGED <<revoked, underway, leases, live, expired>> /\ faults' = faults + 1
        /\ (callout' = callout \/ callout' = NoCallout)
    BY <1>4 DEF StepFails, Crash, Fails
  <2>2. gate' \in BOOLEAN
    <3>1. CASE StepFails
      BY <3>1 DEF StepFails, Fails, Kinds
    <3>2. CASE Crash
      BY <3>2, Zenon DEF Crash
    <3> QED BY <1>4, <3>1, <3>2
  <2> QED BY <2>1, <2>2, NoCalloutKinds DEF Kinds
<1>5. ASSUME NEW d \in Devices, GivenUp(d) PROVE Kinds'
  <2>1. /\ UNCHANGED <<revoked, leases, live, expired, gate>> /\ faults' = faults + 1
        /\ underway' = underway \cup {[device |-> d, after |-> Cardinality(revoked)]}
        /\ (callout' = callout \/ callout' = NoCallout)
    BY <1>5 DEF GivenUp, Fails
  <2>2. Cardinality(revoked) \in Nat
    BY FS_CardinalityType DEF Kinds
  <2> QED BY <2>1, <2>2, NoCalloutKinds DEF Kinds
<1>6. ASSUME NEW w \in underway, Lands(w) PROVE Kinds'
  <2>1. /\ UNCHANGED <<gate, callout, leases, live, expired, faults>> /\ underway' \subseteq underway
        /\ (revoked' = revoked \/ revoked' = revoked \cup {w.device})
    BY <1>6 DEF Lands
  <2>2. IsFiniteSet(revoked')
    BY <2>1, FS_AddElement DEF Kinds
  <2> QED BY <2>1, <2>2 DEF Kinds
<1>7. ASSUME NEW d \in Devices, NEW t \in Tokens \cup {NoOne}, Connect(d, t) PROVE Kinds'
  <2>1. /\ UNCHANGED <<revoked, underway, gate, leases, live, expired, faults>>
        /\ callout' = [at |-> "admit", device |-> d, token |-> t, open |-> gate, generation |-> 0]
    BY <1>7 DEF Connect, NoCallout
  <2>2. callout' \in Callout /\ callout'.device = d
    BY <2>1 DEF Callout, Kinds
  <2> QED BY <2>1, <2>2 DEF Kinds
<1>8. CASE \/ \E d \in Devices : PackageEnds(d)
           \/ \E t \in Tokens : Invite(t) \/ TokenEnds(t)
           \/ \E l \in leases : LeaseEnds(l)
           \/ UNCHANGED vars
  <2>1. /\ UNCHANGED <<revoked, underway, gate, callout, faults>> /\ leases' \subseteq leases
        /\ live' \subseteq Tokens /\ expired' \subseteq Devices
    BY <1>8 DEF PackageEnds, Invite, TokenEnds, LeaseEnds, vars, Kinds
  <2> QED BY <2>1 DEF Kinds
<1> QED BY <1>1, <1>2, <1>3, <1>4, <1>5, <1>6, <1>7, <1>8 DEF Next

(* What the three invariants leave to show.                                  *)
Accounts ==
    /\ Kinds /\ PaidFor(registry) /\ Answering /\ AnswersLast
    /\ acked \in [enrolled : SUBSET Devices, revoked : SUBSET Devices]

LEMMA InitAccounts == Init => Accounts
<1> SUFFICES ASSUME Init PROVE Accounts
  OBVIOUS
<1>1. PaidFor(registry)
  BY DEF Init, EmptyRegistry, PaidFor
<1>2. Answering
  BY DEF Init, Down, Loop, Answering
<1>3. AnswersLast /\ acked \in [enrolled : SUBSET Devices, revoked : SUBSET Devices]
  BY DEF Init, AnswersLast
<1> QED BY <1>1, <1>2, <1>3, InitKinds DEF Accounts

(* Every device enrolled with a token of its own and was published before it  *)
(* could connect; an enrollment that was answered stays ready and logged, a   *)
(* revocation that was answered stays logged, denied and without consumers -  *)
(* whatever was retried, lost, late or restarted in between.                  *)
THEOREM EnrollmentsAreSound == Spec => []EnrollmentIsSound
<1>1. Init => Agreement /\ Accounts
  BY InitAgreement, InitAccounts
<1>2. Base /\ Agreement /\ Accounts /\ [Next]_vars => Agreement' /\ Accounts'
  <2>1. SUFFICES ASSUME Base, Agreement, Accounts, [Next]_vars PROVE Agreement' /\ Accounts'
    OBVIOUS
  <2>2. Agreement'
    BY <2>1, NextAgreement
  <2>3. Grows
    BY <2>1, NextGrows
  <2>4. PaidFor(registry)'
    BY <2>1, <2>3 DEF Grows, Accounts
  <2>5. Kinds' /\ Answering'
    BY <2>1, <2>3, NextKinds, NextAnswering DEF Accounts
  <2>6. AnswersLast' /\ acked' \in [enrolled : SUBSET Devices, revoked : SUBSET Devices]
    BY <2>1, <2>3, NextAnswers DEF Accounts
  <2> QED BY <2>2, <2>4, <2>5, <2>6 DEF Accounts
<1>3. Base /\ Agreement /\ Accounts => EnrollmentIsSound
  <2>1. SUFFICES ASSUME Base, Agreement, Accounts PROVE EnrollmentIsSound
    OBVIOUS
  <2>2. TypeOK
    BY <2>1 DEF Base, Agreement, Known, Accounts, Kinds, Callout, Claim, TypeOK
  <2>3. TokensPayForDevices
    BY <2>1 DEF Accounts, PaidFor, TokensPayForDevices
  <2> QED BY <2>1, <2>2, <2>3 DEF EnrollmentIsSound, Base, AdmittedArePublished, Accounts
<1> QED BY <1>1, <1>2, <1>3, BaseInvariant, PTL DEF Spec

----------------------------------------------------------------------------
(***************************************************************************)
(* The governed channel: module ChannelPolicy.                              *)
(*                                                                         *)
(* Everything that names an MLS state names one that a coordinator made, and *)
(* a row takes effect only when the row before it has: the outbox keeps the  *)
(* policy, the Commit and the Welcome of a change in this order.             *)
(***************************************************************************)

AnyState == [epoch : Nat, members : Membership]
AnyGroup == [state : AnyState, pin : Devices \cup {NoOne}]
AnyRow == [kind : {"policy", "commit", "welcome"}, parent : AnyState, state : AnyState,
           whom : Devices \cup {NoOne}]
AnyEntry == [from : Devices, row : AnyRow]
AnyOp == {Idle, Flushing} \cup [at : {"claimed"}, whom : Devices] \cup [at : {"asked"}, seen : Policy]
MadeStates == {m.state : m \in made}

ChannelTyped ==
    /\ claims \in [Devices -> {"", "this", "other"}] /\ cutoff \in [Devices -> Nat]
    /\ stream \in Seq(AnyEntry)
    /\ mailbox \in [Devices -> Seq(AnyState)] /\ taken \in [Devices -> Nat]
    /\ granted \subseteq Devices
    /\ group \in [Devices -> AnyGroup] /\ done \in [Devices -> Nat]
    /\ known \in [Devices -> SUBSET Devices]
    /\ outbox \in [Devices -> Seq(AnyRow)] /\ op \in [Devices -> AnyOp]
    /\ made \subseteq [from : Devices, parent : AnyState, state : AnyState,
                       whom : Devices \cup {NoOne}]
    /\ interrupts \in 0..MaxInterrupts

\* The registry: its policy is an update's, or what revocations left of one.
PolicyRow ==
    /\ auth \in Registry /\ Sound(auth)
    /\ auth.rows = Devices /\ auth.ready = Devices /\ auth.used = [t \in Tokens |-> NoOne]
    /\ auth.revoked \subseteq Revocable
    /\ IsFiniteSet(auth.revoked) /\ Cardinality(auth.revoked) <= MaxRevoked
    /\ auth.policy.generation > 0
    /\ auth.policy.last # NoUpdate => auth.policy.epoch = auth.policy.last.epoch

\* Beyond MaxChannelEpoch an epoch has removed a revoked device.
Numbered(s) == s.epoch <= MaxChannelEpoch + Cardinality(auth.revoked \ DOMAIN s.members)

MadeSound ==
    \A m \in made :
        /\ Distinct(m.state.members) /\ Numbered(m.state)
        /\ m.whom # NoOne => claims[m.whom] = "this"

StreamSound ==
    \A n \in 1..Len(stream) :
        /\ stream[n].row.state \in MadeStates
        /\ stream[n].row.state.epoch <= auth.policy.epoch

SentStates == {stream[n].row.state : n \in 1..Len(stream)}

MailSound(d) ==
    /\ \A n \in 1..Len(mailbox[d]) : mailbox[d][n] \in SentStates
    /\ taken[d] <= Len(mailbox[d])

PlaceSound(d) ==
    /\ done[d] <= Len(stream) /\ cutoff[d] <= Len(stream)
    /\ known[d] \subseteq auth.revoked

GroupSound(d) == group[d].state \in MadeStates \cup {NoState}

\* The rows q where the states S are made, the policy's epoch is k and the Commits to
\* C are sent: the row before has been sent, and what it stands for is done, or it is
\* still there.
RowSound(q, n, S, k, C) ==
    /\ q[n].state \in S
    /\ q[n].kind = "commit" =>
          IF n = 1 THEN q[n].state.epoch <= k
          ELSE q[n - 1].kind = "policy" /\ q[n - 1].state = q[n].state
    /\ q[n].kind = "welcome" =>
          IF n = 1 THEN q[n].state \in C
          ELSE q[n - 1].kind = "commit" /\ q[n - 1].state = q[n].state

RowsSound(q, S, k, C) == \A n \in 1..Len(q) : RowSound(q, n, S, k, C)

BoxSound(d) == RowsSound(outbox[d], MadeStates, auth.policy.epoch, SentStates)

OpSound(d) ==
    /\ op[d].at \in {"flush", "asked"} => outbox[d] # <<>>
    /\ op[d].at = "claimed" => claims[op[d].whom] = "this"
    /\ op[d].at = "asked" => Row(d).kind = "policy" /\ op[d].seen.epoch <= auth.policy.epoch

ChannelSound ==
    /\ ChannelTyped /\ PolicyRow /\ MadeSound /\ StreamSound /\ PolicyIsAGroup
    /\ \A d \in Devices :
          MailSound(d) /\ PlaceSound(d) /\ GroupSound(d) /\ BoxSound(d) /\ OpSound(d)

----------------------------------------------------------------------------
(* Memberships and elections.                                               *)

(* Removing the revoked leaves the others where they are.                   *)
LEMMA RestrictedIsMembership ==
    ASSUME NEW m \in Membership, NEW S
    PROVE  /\ Restricted(m, S) \in Membership
           /\ DOMAIN Restricted(m, S) = DOMAIN m \ S
           /\ Distinct(m) => Distinct(Restricted(m, S))
           /\ DOMAIN m \cap S = {} => Restricted(m, S) = m
<1>1. PICK s \in SUBSET Devices : m \in [s -> Leaves]
  BY DEF Membership
<1>2. DOMAIN m = s /\ \A e \in s : m[e] \in Leaves
  BY <1>1
<1>3. Restricted(m, S) = [e \in s \ S |-> m[e]]
  BY <1>2 DEF Restricted
<1>4. Restricted(m, S) \in [s \ S -> Leaves]
  BY <1>2, <1>3
<1>5. Restricted(m, S) \in Membership
  BY <1>4 DEF Membership
<1>6. DOMAIN Restricted(m, S) = s \ S /\ \A e \in s \ S : Restricted(m, S)[e] = m[e]
  BY <1>3
<1>7. s \cap S = {} => Restricted(m, S) = m
  <2> SUFFICES ASSUME s \cap S = {} PROVE Restricted(m, S) = m
    OBVIOUS
  <2>1. s \ S = s
    OBVIOUS
  <2> QED BY <1>1, <1>3, <2>1
<1> QED BY <1>2, <1>5, <1>6, <1>7 DEF Distinct

(* A new member gets a leaf of its own.                                     *)
LEMMA MoreLeavesIsMembership ==
    ASSUME NEW m \in Membership, NEW x \in Devices, x \notin DOMAIN m, Distinct(m)
    PROVE  /\ MoreLeaves(m, x) \in Membership
           /\ Distinct(MoreLeaves(m, x))
<1>1. PICK s \in SUBSET Devices : m \in [s -> Leaves]
  BY DEF Membership
<1>2. DOMAIN m = s /\ \A e \in s : m[e] \in Leaves
  BY <1>1
<1> DEFINE free == Leaves \ {m[e] : e \in DOMAIN m}
           leaf == CHOOSE l \in free : \A k \in free : l <= k
           more == MoreLeaves(m, x)
<1>3. leaf \in free
  <2>1. free # {}
    BY <1>2, RoomAssumption
  <2>2. free \in SUBSET Nat
    BY LeavesAssumption
  <2>3. \E l \in free : \A k \in free : l <= k
    <3> HIDE DEF free
    <3> QED BY <2>1, <2>2, LeastNatural
  <2> HIDE DEF free
  <2> QED BY <2>3 DEF leaf
<1>4. more = [e \in s \cup {x} |-> IF e \in s THEN m[e] ELSE leaf]
  BY <1>2 DEF MoreLeaves
<1>5. leaf \in Leaves /\ \A e \in s : m[e] # leaf
  BY <1>2, <1>3
<1> HIDE DEF leaf, more
<1>6. more \in [s \cup {x} -> Leaves]
  BY <1>2, <1>4, <1>5
<1>7. more \in Membership
  BY <1>6 DEF Membership
<1>8. Distinct(more)
  BY <1>2, <1>4, <1>5 DEF Distinct
<1> QED BY <1>7, <1>8 DEF more

LEMMA ElectedIsDevice ==
    ASSUME NEW m \in Membership, NEW pin \in Devices \cup {NoOne}, NEW gone
    PROVE  Elected(m, pin, gone) \in Devices \cup {NoOne}
<1>1. DOMAIN m \subseteq Devices
  BY DEF Membership
<1>2. CASE pin \notin DOMAIN m \ gone /\ ~(DOMAIN m \subseteq gone)
  <2>1. Restricted(m, gone) \in Membership /\ DOMAIN Restricted(m, gone) = DOMAIN m \ gone
    BY RestrictedIsMembership
  <2>2. LowestLeaf(Restricted(m, gone)) \in DOMAIN m \ gone
    BY <1>2, <2>1, LowestLeafIsMember
  <2> QED BY <1>1, <1>2, <2>2 DEF Elected
<1> QED BY <1>2 DEF Elected

LEMMA NoStateIsState ==
    /\ NoState \in AnyState /\ NoState.epoch = 0 /\ DOMAIN NoState.members = {}
    /\ NoState.members = NoMembers
    /\ Distinct(NoState.members)
<1>1. NoMembers \in Membership /\ DOMAIN NoMembers = {}
  <2>1. NoMembers \in [{} -> Leaves]
    BY DEF NoMembers
  <2> QED BY <2>1 DEF Membership
<1> QED BY <1>1 DEF NoState, State, AnyState, Distinct

LEMMA MergeIsGroup ==
    ASSUME NEW g \in AnyGroup, NEW entry \in AnyEntry, NEW n, NEW gone
    PROVE  /\ Merge(g, entry, n, gone) \in AnyGroup
           /\ Merge(g, entry, n, gone).state \in {g.state, entry.row.state}
<1>1. CASE ~Accepted(g, entry, n, gone)
  BY <1>1 DEF Merge
<1>2. CASE Accepted(g, entry, n, gone)
  <2> DEFINE s == entry.row.state
             pin == IF g.pin \in DOMAIN s.members THEN g.pin ELSE Elected(s.members, g.pin, gone)
  <2>1. s \in AnyState /\ s.members \in Membership /\ g.pin \in Devices \cup {NoOne}
    BY DEF AnyEntry, AnyRow, AnyState, AnyGroup
  <2>2. pin \in Devices \cup {NoOne}
    BY <2>1, ElectedIsDevice
  <2>3. Merge(g, entry, n, gone) = [state |-> s, pin |-> pin]
    BY <1>2 DEF Merge
  <2> HIDE DEF pin, s
  <2>4. Merge(g, entry, n, gone) \in AnyGroup /\ Merge(g, entry, n, gone).state = s
    BY <2>1, <2>2, <2>3 DEF AnyGroup
  <2> QED BY <2>4 DEF s
<1> QED BY <1>1, <1>2

(* The groups a device goes through while it processes its backlog.          *)
Through(d, h) ==
    [n \in done[d]..Backlog(d) |->
        IF n = done[d] THEN group[d]
        ELSE IF d \in DOMAIN h[n - 1].state.members
             THEN Merge(h[n - 1], stream[n], n, auth.revoked) ELSE h[n - 1]]

UpTo(d, k, h) ==
    [n \in done[d]..k |->
        IF n = done[d] THEN group[d]
        ELSE IF d \in DOMAIN h[n - 1].state.members
             THEN Merge(h[n - 1], stream[n], n, auth.revoked) ELSE h[n - 1]]

(* A definition by recursion defines something: up to every entry there is    *)
(* such a run, by induction on the entry.                                     *)
LEMMA RunExists ==
    ASSUME NEW d, done[d] \in Nat, NEW k \in Nat, done[d] <= k
    PROVE  \E h : h = UpTo(d, k, h)
<1> DEFINE Bad == {j \in Nat : done[d] <= j /\ ~\E h : h = UpTo(d, j, h)}
<1>1. Bad = {}
  <2> SUFFICES ASSUME Bad # {} PROVE FALSE
    OBVIOUS
  <2>1. PICK j \in Bad : \A i \in Bad : j <= i
    <3>1. Bad \in SUBSET Nat
      OBVIOUS
    <3> HIDE DEF Bad
    <3> QED BY <3>1, LeastNatural
  <2>2. j \in Nat /\ done[d] <= j /\ ~\E h : h = UpTo(d, j, h)
    OBVIOUS
  <2>3. CASE j = done[d]
    <3> DEFINE h == [n \in done[d]..j |-> group[d]]
    <3>1. h = UpTo(d, j, h)
      BY <2>2, <2>3 DEF UpTo
    <3> QED BY <2>2, <3>1
  <2>4. CASE j # done[d]
    <3>1. j - 1 \in Nat /\ done[d] <= j - 1 /\ j - 1 \notin Bad
      BY <2>1, <2>2, <2>4
    <3>2. PICK f : f = UpTo(d, j - 1, f)
      BY <3>1
    <3> DEFINE last == IF d \in DOMAIN f[j - 1].state.members
                       THEN Merge(f[j - 1], stream[j], j, auth.revoked) ELSE f[j - 1]
               h == [n \in done[d]..j |-> IF n = j THEN last ELSE f[n]]
    <3>3. \A n \in done[d]..(j - 1) :
             f[n] = IF n = done[d] THEN group[d]
                    ELSE IF d \in DOMAIN f[n - 1].state.members
                         THEN Merge(f[n - 1], stream[n], n, auth.revoked) ELSE f[n - 1]
      BY <3>2 DEF UpTo
    <3>4. ASSUME NEW n \in done[d]..j
          PROVE  h[n] = IF n = done[d] THEN group[d]
                        ELSE IF d \in DOMAIN h[n - 1].state.members
                             THEN Merge(h[n - 1], stream[n], n, auth.revoked) ELSE h[n - 1]
      <4>1. CASE n = j
        <5>1. j - 1 \in done[d]..j /\ j - 1 # j
          BY <3>1, <2>2
        <5>2. h[j - 1] = f[j - 1]
          BY <5>1
        <5>3. h[j] = last
          BY <2>2
        <5> HIDE DEF h
        <5> QED BY <2>4, <4>1, <5>2, <5>3
      <4>2. CASE n # j
        <5>1. n \in done[d]..(j - 1)
          BY <2>2, <4>2
        <5>2. h[n] = f[n]
          BY <4>2
        <5>3. n # done[d] => h[n - 1] = f[n - 1]
          BY <2>2, <5>1
        <5> HIDE DEF h
        <5> QED BY <3>3, <5>1, <5>2, <5>3
      <4> QED BY <4>1, <4>2
    <3>5. h = UpTo(d, j, h)
      BY <3>4 DEF UpTo
    <3> QED BY <2>2, <3>5
  <2> QED BY <2>3, <2>4
<1> QED BY <1>1

LEMMA CaughtUpRun ==
    ASSUME NEW d, done[d] \in Nat, Backlog(d) \in Nat, done[d] <= Backlog(d)
    PROVE  \E h : h = Through(d, h) /\ CaughtUp(d) = h[Backlog(d)]
<1> DEFINE g == CHOOSE h : h = Through(d, h)
<1>1. \E h : h = Through(d, h)
  BY RunExists DEF UpTo, Through
<1>2. g = Through(d, g)
  <2> QED BY <1>1, Zenon
<1>3. CaughtUp(d) = g[Backlog(d)]
  BY DEF CaughtUp, Through
<1> QED BY <1>2, <1>3

LEMMA StreamTyped ==
    ASSUME ChannelTyped
    PROVE  Len(stream) \in Nat /\ \A n \in 1..Len(stream) : stream[n] \in AnyEntry
<1>1. stream \in Seq(AnyEntry)
  BY DEF ChannelTyped
<1> QED BY <1>1

(* A device that has caught up is in its own group or in one the stream led   *)
(* it to.                                                                    *)
LEMMA CaughtUpIsGroup ==
    ASSUME ChannelTyped, NEW d \in Devices, done[d] <= Len(stream)
    PROVE  /\ CaughtUp(d) \in AnyGroup
           /\ Backlog(d) \in Nat /\ done[d] <= Backlog(d) /\ Backlog(d) <= Len(stream)
           /\ CaughtUp(d).state \in {group[d].state} \cup {stream[n].row.state : n \in 1..Len(stream)}
<1>1. /\ done[d] \in Nat /\ Len(stream) \in Nat /\ group[d] \in AnyGroup
      /\ \A n \in 1..Len(stream) : stream[n] \in AnyEntry
  BY StreamTyped DEF ChannelTyped
<1>2. Backlog(d) \in Nat /\ done[d] <= Backlog(d) /\ Backlog(d) <= Len(stream)
  BY <1>1 DEF Backlog
<1>3. PICK h : h = Through(d, h) /\ CaughtUp(d) = h[Backlog(d)]
  BY <1>1, <1>2, CaughtUpRun
<1> DEFINE Fine(g) == /\ g \in AnyGroup
                      /\ g.state \in {group[d].state} \cup {stream[n].row.state : n \in 1..Len(stream)}
           Bad == {k \in Nat : done[d] <= k /\ k <= Backlog(d) /\ ~Fine(h[k])}
<1>4. \A n \in done[d]..Backlog(d) :
         h[n] = IF n = done[d] THEN group[d]
                ELSE IF d \in DOMAIN h[n - 1].state.members
                     THEN Merge(h[n - 1], stream[n], n, auth.revoked) ELSE h[n - 1]
  BY <1>3 DEF Through
<1>5. Bad = {}
  <2> SUFFICES ASSUME Bad # {} PROVE FALSE
    OBVIOUS
  <2>1. PICK k \in Bad : \A i \in Bad : k <= i
    <3>1. Bad \in SUBSET Nat
      OBVIOUS
    <3> HIDE DEF Bad
    <3> QED BY <3>1, LeastNatural
  <2>2. k \in done[d]..Backlog(d) /\ ~Fine(h[k])
    BY <1>1, <1>2
  <2>3. k # done[d]
    BY <1>1, <1>4, <2>2
  <2>4. k - 1 \in Nat /\ done[d] <= k - 1 /\ k - 1 <= Backlog(d) /\ k \in 1..Len(stream)
    BY <1>1, <1>2, <2>2, <2>3
  <2>5. Fine(h[k - 1])
    BY <2>1, <2>4
  <2>6. h[k] = h[k - 1] \/ h[k] = Merge(h[k - 1], stream[k], k, auth.revoked)
    BY <1>4, <2>2, <2>3
  <2>7. Fine(Merge(h[k - 1], stream[k], k, auth.revoked))
    <3>1. /\ Merge(h[k - 1], stream[k], k, auth.revoked) \in AnyGroup
          /\ Merge(h[k - 1], stream[k], k, auth.revoked).state \in {h[k - 1].state, stream[k].row.state}
      BY <1>1, <2>4, <2>5, MergeIsGroup
    <3> QED BY <2>4, <2>5, <3>1
  <2> HIDE DEF Fine
  <2> QED BY <2>2, <2>5, <2>6, <2>7
<1>6. Fine(h[Backlog(d)])
  BY <1>2, <1>5
<1> QED BY <1>2, <1>3, <1>6

----------------------------------------------------------------------------
(* The registry's steps.                                                    *)

LEMMA ApplyChannel ==
    ASSUME PolicyRow, NEW u \in Update, may_apply(auth, u), auth' = apply_policy(auth, u)
    PROVE  /\ PolicyRow' /\ auth'.revoked = auth.revoked
           /\ auth.policy.epoch <= auth'.policy.epoch /\ auth'.policy.epoch = u.epoch
           /\ \/ auth'.policy = auth.policy
              \/ /\ auth.policy.epoch < auth'.policy.epoch
                 /\ auth'.policy.members = u.members
                 /\ DOMAIN u.members \cap auth.revoked = {}
<1>1. auth \in Registry /\ Sound(auth) /\ auth.policy \in Policy /\ auth.policy.generation > 0
  BY DEF PolicyRow, Registry
<1>2. /\ auth' \in Registry /\ Sound(auth')
      /\ auth'.rows = auth.rows /\ auth'.revoked = auth.revoked /\ auth'.ready = auth.ready
      /\ auth'.used = auth.used
  BY <1>1, ApplySound
<1>3. u.epoch \in Nat /\ u.expected \in Nat /\ u # NoUpdate /\ auth.policy.epoch \in Nat
  BY <1>1, KeysAssumption DEF Update, NoUpdate, Policy
<1>4. CASE Repeated(auth.policy, u)
  <2>1. auth' = auth
    BY <1>4 DEF apply_policy
  <2>2. auth.policy.epoch = u.epoch
    BY <1>3, <1>4 DEF Repeated, PolicyRow
  <2>3. PolicyRow'
    BY <2>1 DEF PolicyRow
  <2> QED BY <1>3, <2>1, <2>2, <2>3
<1>5. CASE ~Repeated(auth.policy, u)
  <2>1. auth.policy.epoch < u.epoch
    BY <1>1, <1>3, <1>5 DEF may_apply, may_change, Policy
  <2> DEFINE p == [generation |-> u.expected + 1, epoch |-> u.epoch, coordinator |-> u.signer,
                   members |-> u.members, last |-> u]
  <2>2. auth'.policy = p
    <3>1. \E generation : auth' = [auth EXCEPT !.policy = p, !.generation = generation]
      BY <1>5, Zenon DEF apply_policy
    <3> HIDE DEF p
    <3> QED BY <1>1, <3>1 DEF Registry
  <2>3. /\ auth'.policy.epoch = u.epoch /\ auth'.policy.members = u.members
        /\ auth'.policy.generation > 0 /\ auth'.policy.last = u
    BY <1>3, <2>2
  <2>4. DOMAIN u.members \cap auth.revoked = {}
    BY DEF may_apply, authorize
  <2>5. PolicyRow'
    BY <1>2, <2>3 DEF PolicyRow
  <2> QED BY <1>2, <1>3, <2>1, <2>3, <2>4, <2>5
<1> QED BY <1>4, <1>5

LEMMA RevokeChannel ==
    ASSUME PolicyRow, NEW x \in Revocable \cap enrollment(auth),
           Cardinality(auth.revoked) < MaxRevoked, auth' = revoke(auth, x)
    PROVE  /\ PolicyRow' /\ auth'.revoked = auth.revoked \cup {x} /\ x \notin auth.revoked
           /\ auth'.policy.epoch = auth.policy.epoch
           /\ auth'.policy.members = Restricted(auth.policy.members, {x})
<1>1. /\ auth \in Registry /\ Sound(auth) /\ auth.policy \in Policy /\ auth.policy.generation > 0
      /\ auth.policy.members \in Membership /\ auth.policy.generation \in Nat
  BY DEF PolicyRow, Registry, Policy
<1>2. x \in Devices /\ x \in auth.rows /\ x \notin auth.revoked
  BY <1>1 DEF PolicyRow, enrollment
<1>3. /\ auth' \in Registry /\ Sound(auth')
      /\ auth'.rows = auth.rows /\ auth'.ready = auth.ready /\ auth'.used = auth.used
      /\ auth'.revoked = auth.revoked \cup {x}
  BY <1>1, <1>2, RevokeSound
<1>4. auth'.policy = policy_without(auth.policy, x)
  <2> DEFINE p == policy_without(auth.policy, x)
  <2>1. \E generation :
           auth' = [auth EXCEPT !.revoked = @ \cup {x}, !.policy = p, !.generation = generation]
    BY <1>2, Zenon DEF revoke, enrollment
  <2> HIDE DEF p
  <2>2. auth'.policy = p
    BY <1>1, <2>1 DEF Registry
  <2> QED BY <2>2 DEF p
<1>5. /\ auth'.policy.epoch = auth.policy.epoch /\ auth'.policy.generation > 0
      /\ auth'.policy.last \in {auth.policy.last, NoUpdate}
      /\ auth'.policy.members = Restricted(auth.policy.members, {x})
  <2>1. CASE x \notin DOMAIN auth.policy.members
    <3>1. DOMAIN auth.policy.members \cap {x} = {}
      BY <2>1
    <3>2. Restricted(auth.policy.members, {x}) = auth.policy.members
      BY <1>1, <3>1, RestrictedIsMembership
    <3> QED BY <1>1, <1>4, <2>1, <3>2 DEF policy_without
  <2>2. CASE x \in DOMAIN auth.policy.members
    <3> DEFINE left == Without(auth.policy.members, x)
    <3>1. \E c : auth'.policy = [auth.policy EXCEPT !.generation = @ + 1, !.last = NoUpdate,
                                                    !.members = left, !.coordinator = c]
      BY <1>4, <2>2, Zenon DEF policy_without
    <3>2. left = Restricted(auth.policy.members, {x})
      BY DEF Without, Restricted
    <3> HIDE DEF left
    <3>3. /\ auth'.policy.epoch = auth.policy.epoch /\ auth'.policy.members = left
          /\ auth'.policy.last = NoUpdate /\ auth'.policy.generation = auth.policy.generation + 1
      BY <1>1, <3>1 DEF Policy
    <3> QED BY <1>1, <3>2, <3>3
  <2> QED BY <2>1, <2>2
<1>6. IsFiniteSet(auth'.revoked) /\ Cardinality(auth'.revoked) = Cardinality(auth.revoked) + 1
  <2>1. IsFiniteSet(auth.revoked)
    BY DEF PolicyRow
  <2> QED BY <1>2, <1>3, <2>1, FS_AddElement
<1>7. Cardinality(auth.revoked) \in Nat /\ MaxRevoked \in Nat
  BY FS_CardinalityType, ChannelAssumption DEF PolicyRow
<1>8. PolicyRow'
  BY <1>3, <1>5, <1>6, <1>7 DEF PolicyRow
<1> QED BY <1>2, <1>3, <1>5, <1>8

----------------------------------------------------------------------------
(* What no step takes back, and what it therefore leaves sound.             *)

ChannelGrows ==
    /\ made \subseteq made'
    /\ Len(stream) <= Len(stream') /\ \A n \in 1..Len(stream) : stream'[n] = stream[n]
    /\ auth.policy.epoch <= auth'.policy.epoch
    /\ auth.revoked \subseteq auth'.revoked
    /\ \A x \in Devices : claims[x] = "this" => claims'[x] = "this"

LEMMA Monotone ==
    ASSUME ChannelTyped, ChannelTyped', ChannelGrows
    PROVE  /\ MadeStates \subseteq MadeStates'
           /\ SentStates \subseteq SentStates'
<1>1. stream' \in Seq(AnyEntry)
  BY DEF ChannelTyped
<1>2. Len(stream) \in Nat /\ Len(stream') \in Nat
  BY <1>1, StreamTyped
<1> QED BY <1>2 DEF ChannelGrows, MadeStates, SentStates

LEMMA NumberedStays ==
    ASSUME PolicyRow, PolicyRow', auth.revoked \subseteq auth'.revoked,
           NEW s, s.epoch \in Nat, Numbered(s)
    PROVE  Numbered(s)'
<1> DEFINE T == auth.revoked \ DOMAIN s.members
           U == auth'.revoked \ DOMAIN s.members
<1>1. IsFiniteSet(U) /\ T \subseteq U
  BY FS_Subset DEF PolicyRow
<1> HIDE DEF T, U
<1>2. /\ IsFiniteSet(T) /\ Cardinality(T) <= Cardinality(U)
      /\ Cardinality(T) \in Nat /\ Cardinality(U) \in Nat
  BY <1>1, FS_Subset, FS_CardinalityType
<1>3. MaxChannelEpoch \in Nat /\ s.epoch <= MaxChannelEpoch + Cardinality(T)
  BY ChannelAssumption DEF Numbered, T
<1>4. s.epoch <= MaxChannelEpoch + Cardinality(U)
  BY <1>2, <1>3
<1> QED BY <1>4 DEF Numbered, U

LEMMA KeepMade ==
    ASSUME ChannelTyped, PolicyRow, PolicyRow', ChannelGrows, MadeSound, made' = made
    PROVE  MadeSound'
<1> SUFFICES ASSUME NEW m \in made
             PROVE  /\ Distinct(m.state.members) /\ Numbered(m.state)'
                    /\ m.whom # NoOne => claims'[m.whom] = "this"
  BY DEF MadeSound
<1>1. m.state.epoch \in Nat /\ m.whom \in Devices \cup {NoOne}
  BY DEF ChannelTyped, AnyState
<1>2. Numbered(m.state)'
  BY <1>1, NumberedStays DEF MadeSound, ChannelGrows
<1> QED BY <1>1, <1>2 DEF MadeSound, ChannelGrows

LEMMA KeepStream ==
    ASSUME ChannelTyped, ChannelTyped', PolicyRow, PolicyRow', ChannelGrows, StreamSound,
           stream' = stream
    PROVE  StreamSound'
<1>1. auth.policy.epoch \in Nat /\ auth'.policy.epoch \in Nat
  BY DEF PolicyRow, Registry, Policy
<1>2. \A n \in 1..Len(stream) : stream[n].row.state.epoch \in Nat
  BY StreamTyped DEF AnyEntry, AnyRow, AnyState
<1> QED BY <1>1, <1>2, Monotone DEF StreamSound, ChannelGrows

LEMMA KeepMail ==
    ASSUME ChannelTyped, ChannelTyped', ChannelGrows, NEW d \in Devices, MailSound(d),
           mailbox'[d] = mailbox[d], taken'[d] = taken[d]
    PROVE  MailSound(d)'
BY Monotone DEF MailSound

LEMMA KeepPlace ==
    ASSUME ChannelTyped, ChannelTyped', ChannelGrows, NEW d \in Devices, PlaceSound(d),
           done'[d] = done[d], cutoff'[d] = cutoff[d], known'[d] = known[d]
    PROVE  PlaceSound(d)'
<1>1. stream' \in Seq(AnyEntry) /\ done[d] \in Nat /\ cutoff[d] \in Nat
  BY DEF ChannelTyped
<1>2. Len(stream) \in Nat /\ Len(stream') \in Nat
  BY <1>1, StreamTyped
<1> QED BY <1>1, <1>2 DEF PlaceSound, ChannelGrows

LEMMA KeepGroup ==
    ASSUME ChannelTyped, ChannelTyped', ChannelGrows, NEW d \in Devices, GroupSound(d),
           group'[d] = group[d]
    PROVE  GroupSound(d)'
BY Monotone DEF GroupSound

LEMMA RowsStaySound ==
    ASSUME NEW q \in Seq(AnyRow), NEW S, NEW T, S \subseteq T, NEW C, NEW D, C \subseteq D,
           NEW k \in Nat, NEW l \in Nat, k <= l, RowsSound(q, S, k, C)
    PROVE  RowsSound(q, T, l, D)
<1> SUFFICES ASSUME NEW n \in 1..Len(q) PROVE RowSound(q, n, T, l, D)
  BY DEF RowsSound
<1>1. q[n] \in AnyRow
  OBVIOUS
<1>2. q[n].state.epoch \in Nat
  BY <1>1 DEF AnyRow, AnyState
<1>3. RowSound(q, n, S, k, C)
  BY DEF RowsSound
<1>4. q[n].state.epoch <= k => q[n].state.epoch <= l
  BY <1>2
<1> QED BY <1>3, <1>4 DEF RowSound

LEMMA Epochs ==
    ASSUME PolicyRow, PolicyRow'
    PROVE  auth.policy.epoch \in Nat /\ auth'.policy.epoch \in Nat
BY DEF PolicyRow, Registry, Policy

LEMMA KeepBox ==
    ASSUME ChannelTyped, ChannelTyped', PolicyRow, PolicyRow', ChannelGrows, NEW d \in Devices,
           BoxSound(d), outbox'[d] = outbox[d]
    PROVE  BoxSound(d)'
<1>1. outbox[d] \in Seq(AnyRow)
  BY DEF ChannelTyped
<1>2. RowsSound(outbox[d], MadeStates', auth'.policy.epoch, SentStates')
  BY <1>1, Monotone, Epochs, RowsStaySound DEF BoxSound, ChannelGrows
<1> QED BY <1>2 DEF BoxSound

LEMMA KeepOp ==
    ASSUME ChannelTyped, ChannelTyped', PolicyRow, PolicyRow', ChannelGrows, NEW d \in Devices,
           OpSound(d), outbox'[d] = outbox[d], op'[d] = op[d]
    PROVE  OpSound(d)'
<1>1. auth.policy.epoch \in Nat /\ auth'.policy.epoch \in Nat
  BY DEF PolicyRow, Registry, Policy
<1>2. op[d] \in AnyOp
  BY DEF ChannelTyped
<1>3. op[d].at = "asked" => op[d].seen.epoch \in Nat
  BY <1>2 DEF AnyOp, Policy, Idle, Flushing
<1>4. op[d].at = "claimed" => op[d].whom \in Devices
  BY <1>2 DEF AnyOp, Idle, Flushing
<1>5. op[d].at = "asked" => op[d].seen.epoch <= auth'.policy.epoch
  BY <1>1, <1>3 DEF OpSound, ChannelGrows
<1>6. Row(d)' = Row(d)
  BY DEF Row
<1> QED BY <1>4, <1>5, <1>6 DEF OpSound, ChannelGrows

LEMMA SameRegistry ==
    ASSUME PolicyRow, PolicyIsAGroup, auth' = auth, made \subseteq made'
    PROVE  PolicyRow' /\ PolicyIsAGroup'
<1>1. PolicyRow'
  BY DEF PolicyRow
<1>2. PolicyIsAGroup'
  BY DEF PolicyIsAGroup
<1> QED BY <1>1, <1>2

(* A device none of whose rows change.                                      *)
LEMMA KeepDevice ==
    ASSUME ChannelSound, ChannelTyped', PolicyRow', ChannelGrows, NEW x \in Devices,
           mailbox'[x] = mailbox[x], taken'[x] = taken[x], done'[x] = done[x],
           cutoff'[x] = cutoff[x], known'[x] = known[x], group'[x] = group[x],
           outbox'[x] = outbox[x], op'[x] = op[x]
    PROVE  MailSound(x)' /\ PlaceSound(x)' /\ GroupSound(x)' /\ BoxSound(x)' /\ OpSound(x)'
BY KeepMail, KeepPlace, KeepGroup, KeepBox, KeepOp DEF ChannelSound

----------------------------------------------------------------------------
(* Rows.                                                                    *)

LEMMA RowsAppended ==
    ASSUME NEW q \in Seq(AnyRow), NEW old \in AnyState, NEW new \in AnyState,
           NEW whom \in Devices \cup {NoOne}, NEW S, NEW k, NEW C, new \in S, RowsSound(q, S, k, C)
    PROVE  /\ q \o Rows(old, new, whom) \in Seq(AnyRow)
           /\ RowsSound(q \o Rows(old, new, whom), S, k, C)
<1> DEFINE r == Rows(old, new, whom)
           b == q \o r
<1>1. NoState \in AnyState
  BY NoStateIsState
<1>2. policyRow(new) \in AnyRow /\ commitRow(old, new) \in AnyRow /\ welcomeRow(new, whom) \in AnyRow
  BY <1>1 DEF policyRow, commitRow, welcomeRow, AnyRow
<1>3. /\ r \in Seq(AnyRow) /\ Len(r) \in {2, 3}
      /\ r[1] = policyRow(new) /\ r[2] = commitRow(old, new)
      /\ Len(r) = 3 => r[3] = welcomeRow(new, whom)
  <2>1. CASE whom = NoOne
    <3>1. r = <<policyRow(new), commitRow(old, new)>>
      BY <1>2, <2>1 DEF Rows
    <3> HIDE DEF r
    <3> QED BY <1>2, <3>1
  <2>2. CASE whom # NoOne
    <3>1. r = <<policyRow(new), commitRow(old, new)>> \o <<welcomeRow(new, whom)>>
      BY <2>2 DEF Rows
    <3> DEFINE s == <<policyRow(new), commitRow(old, new)>>
               w == <<welcomeRow(new, whom)>>
    <3>2. /\ s \in Seq(AnyRow) /\ Len(s) = 2 /\ s[1] = policyRow(new) /\ s[2] = commitRow(old, new)
          /\ w \in Seq(AnyRow) /\ Len(w) = 1 /\ w[1] = welcomeRow(new, whom)
      BY <1>2
    <3>3. r = s \o w
      BY <3>1
    <3> HIDE DEF r, s, w
    <3>4. s \in Seq(AnyRow) /\ w \in Seq(AnyRow)
      BY <3>2
    <3>5. /\ r \in Seq(AnyRow) /\ Len(r) = Len(s) + Len(w)
          /\ \A n \in 1..Len(s) : r[n] = s[n]
          /\ \A n \in 1..Len(w) : r[Len(s) + n] = w[n]
      BY <3>3, <3>4
    <3>6. r[1] = s[1] /\ r[2] = s[2] /\ Len(r) = 3
      BY <3>2, <3>5
    <3>7. r[2 + 1] = w[1] /\ 2 + 1 = 3
      BY <3>2, <3>5
    <3> QED BY <3>2, <3>5, <3>6, <3>7
  <2> QED BY <2>1, <2>2
<1> HIDE DEF r
<1>4. /\ b \in Seq(AnyRow) /\ Len(b) = Len(q) + Len(r) /\ Len(q) \in Nat
      /\ \A n \in 1..Len(q) : b[n] = q[n]
      /\ \A n \in 1..Len(r) : b[Len(q) + n] = r[n]
  BY <1>3
<1> HIDE DEF b
<1>5. /\ b[Len(q) + 1] = policyRow(new) /\ b[Len(q) + 2] = commitRow(old, new)
      /\ Len(r) = 3 => b[Len(q) + 3] = welcomeRow(new, whom)
  <2>1. 1 \in 1..Len(r) /\ 2 \in 1..Len(r) /\ (Len(r) = 3 => 3 \in 1..Len(r))
    BY <1>3
  <2> QED BY <1>3, <1>4, <2>1
<1>6. ASSUME NEW n \in 1..Len(b) PROVE RowSound(b, n, S, k, C)
  <2>1. n \in Nat /\ (n <= Len(q) \/ n = Len(q) + 1 \/ n = Len(q) + 2 \/ (n = Len(q) + 3 /\ Len(r) = 3))
    <3>1. CASE Len(r) = 2
      BY <1>4, <3>1
    <3>2. CASE Len(r) = 3
      BY <1>4, <3>2
    <3> QED BY <1>3, <3>1, <3>2
  <2>2. CASE n <= Len(q)
    <3>1. b[n] = q[n] /\ (n # 1 => b[n - 1] = q[n - 1])
      BY <1>4, <2>1, <2>2
    <3>2. RowSound(q, n, S, k, C)
      BY <1>4, <2>1, <2>2 DEF RowsSound
    <3> QED BY <3>1, <3>2 DEF RowSound
  <2>3. CASE n = Len(q) + 1
    <3>1. b[n] = policyRow(new)
      BY <1>5, <2>3
    <3> QED BY <3>1 DEF RowSound, policyRow
  <2>4. CASE n = Len(q) + 2
    <3>1. n - 1 = Len(q) + 1 /\ n # 1
      BY <1>4, <2>4
    <3>2. b[n] = commitRow(old, new) /\ b[n - 1] = policyRow(new)
      BY <1>5, <2>4, <3>1
    <3> QED BY <3>1, <3>2 DEF RowSound, policyRow, commitRow
  <2>5. CASE n = Len(q) + 3 /\ Len(r) = 3
    <3>1. n - 1 = Len(q) + 2 /\ n # 1
      BY <1>4, <2>5
    <3>2. b[n] = welcomeRow(new, whom) /\ b[n - 1] = commitRow(old, new)
      BY <1>5, <2>5, <3>1
    <3> QED BY <3>1, <3>2 DEF RowSound, welcomeRow, commitRow
  <2> QED BY <2>1, <2>2, <2>3, <2>4, <2>5
<1>7. RowsSound(b, S, k, C)
  BY <1>6 DEF RowsSound
<1> QED BY <1>4, <1>7 DEF b, r

LEMMA TailSound ==
    ASSUME NEW q \in Seq(AnyRow), q # <<>>, NEW S, NEW k, NEW C, RowsSound(q, S, k, C),
           Head(q).kind = "policy" => Head(q).state.epoch <= k,
           Head(q).kind = "commit" => Head(q).state \in C
    PROVE  Tail(q) \in Seq(AnyRow) /\ RowsSound(Tail(q), S, k, C)
<1> DEFINE t == Tail(q)
<1>1. /\ t \in Seq(AnyRow) /\ Len(t) = Len(q) - 1 /\ Len(q) \in Nat /\ Head(q) = q[1]
      /\ \A n \in 1..Len(t) : t[n] = q[n + 1]
  OBVIOUS
<1> HIDE DEF t
<1>2. ASSUME NEW n \in 1..Len(t) PROVE RowSound(t, n, S, k, C)
  <2>1. n + 1 \in 1..Len(q) /\ t[n] = q[n + 1] /\ n + 1 # 1 /\ (n + 1) - 1 = n
    BY <1>1
  <2>2. RowSound(q, n + 1, S, k, C)
    BY <2>1 DEF RowsSound
  <2>3. CASE n = 1
    <3>1. q[n] = Head(q)
      BY <1>1, <2>3
    <3> QED BY <2>1, <2>2, <2>3, <3>1 DEF RowSound
  <2>4. CASE n # 1
    <3>1. t[n - 1] = q[n]
      BY <1>1, <2>4
    <3> QED BY <2>1, <2>2, <2>4, <3>1 DEF RowSound
  <2> QED BY <2>3, <2>4
<1>3. RowsSound(t, S, k, C)
  BY <1>2 DEF RowsSound
<1> QED BY <1>1, <1>3 DEF t

----------------------------------------------------------------------------
(* Steps that change no state of the group.                                 *)

LEMMA EpochIsNat ==
    ASSUME PolicyRow
    PROVE  auth.policy.epoch \in Nat /\ auth.policy.epoch <= auth.policy.epoch
<1>1. auth.policy.epoch \in Nat
  BY DEF PolicyRow, Registry, Policy
<1> QED BY <1>1

LEMMA StillGrows ==
    ASSUME ChannelTyped, PolicyRow, auth' = auth, stream' = stream, made \subseteq made',
           \A x \in Devices : claims[x] = "this" => claims'[x] = "this"
    PROVE  ChannelGrows
<1>1. Len(stream) <= Len(stream')
  <2>1. Len(stream) \in Nat
    BY StreamTyped
  <2> QED BY <2>1
<1>2. auth.policy.epoch <= auth'.policy.epoch
  BY EpochIsNat
<1> QED BY <1>1, <1>2 DEF ChannelGrows

(* Nothing but an operation's progress, audits, reservations and grants.     *)
LEMMA QuietInv ==
    ASSUME ChannelSound, NEW d \in Devices, NEW o \in AnyOp,
           op' = [op EXCEPT ![d] = o], o.at # "asked" \/ (o.seen = auth.policy /\ Row(d).kind = "policy"),
           o.at \in {"flush", "asked"} => outbox[d] # <<>>,
           o.at = "claimed" => claims'[o.whom] = "this",
           claims' \in [Devices -> {"", "this", "other"}],
           \A x \in Devices : claims[x] = "this" => claims'[x] = "this",
           known' \in {known, [known EXCEPT ![d] = auth.revoked]},
           granted' \subseteq Devices, interrupts' \in 0..MaxInterrupts,
           UNCHANGED <<auth, cutoff, stream, mailbox, taken, device, outbox, made>>
    PROVE  ChannelSound'
<1>0. ChannelTyped /\ PolicyRow /\ MadeSound /\ StreamSound /\ PolicyIsAGroup
  BY DEF ChannelSound
<1>1. auth.revoked \subseteq Devices
  BY <1>0 DEF PolicyRow, Registry
<1>2. ChannelTyped'
  <2>1. known' \in [Devices -> SUBSET Devices]
    BY <1>0, <1>1 DEF ChannelTyped
  <2>2. op' \in [Devices -> AnyOp]
    BY <1>0 DEF ChannelTyped
  <2> QED BY <1>0, <2>1, <2>2 DEF ChannelTyped, device
<1>3. PolicyRow' /\ PolicyIsAGroup'
  BY <1>0, SameRegistry
<1>4. ChannelGrows
  BY <1>0, StillGrows
<1>5. MadeSound' /\ StreamSound'
  BY <1>0, <1>2, <1>3, <1>4, KeepMade, KeepStream
<1>6. ASSUME NEW x \in Devices
      PROVE  MailSound(x)' /\ PlaceSound(x)' /\ GroupSound(x)' /\ BoxSound(x)' /\ OpSound(x)'
  <2>1. MailSound(x)' /\ GroupSound(x)' /\ BoxSound(x)'
    BY <1>0, <1>2, <1>3, <1>4, KeepMail, KeepGroup, KeepBox DEF ChannelSound, device
  <2>2. PlaceSound(x)'
    <3>1. known'[x] = known[x] \/ known'[x] = auth.revoked
      BY <1>0 DEF ChannelTyped
    <3> QED BY <3>1 DEF ChannelSound, PlaceSound, device
  <2>3. OpSound(x)'
    <3>1. CASE x # d
      <4>1. op'[x] = op[x]
        BY <1>0, <3>1 DEF ChannelTyped
      <4> QED BY <1>0, <1>2, <1>3, <1>4, <4>1, KeepOp DEF ChannelSound
    <3>2. CASE x = d
      <4>1. op'[x] = o /\ Row(d)' = Row(d)
        BY <1>0, <3>2 DEF ChannelTyped, Row
      <4>2. auth.policy.epoch <= auth.policy.epoch
        BY <1>0, EpochIsNat
      <4> QED BY <3>2, <4>1, <4>2 DEF OpSound
    <3> QED BY <3>1, <3>2
  <2> QED BY <2>1, <2>2, <2>3
<1> QED BY <1>2, <1>3, <1>5, <1>6 DEF ChannelSound

LEMMA OpsTyped ==
    /\ Idle \in AnyOp /\ Idle.at = "idle"
    /\ Flushing \in AnyOp /\ Flushing.at = "flush"
    /\ \A x \in Devices : [at |-> "claimed", whom |-> x] \in AnyOp
    /\ \A p \in Policy : [at |-> "asked", seen |-> p] \in AnyOp
BY DEF AnyOp, Idle, Flushing

(* An operation that is not touched.                                        *)
LEMMA SameOp ==
    ASSUME ChannelSound, NEW d \in Devices
    PROVE  /\ op[d] \in AnyOp /\ [op EXCEPT ![d] = op[d]] = op
           /\ op[d].at = "claimed" => op[d].whom \in Devices
<1>1. op \in [Devices -> AnyOp]
  BY DEF ChannelSound, ChannelTyped
<1>2. op[d] \in AnyOp /\ [op EXCEPT ![d] = op[d]] = op
  BY <1>1
<1> QED BY <1>2 DEF AnyOp, Idle, Flushing

LEMMA InterruptTyped ==
    ASSUME ChannelSound, Interrupt
    PROVE  interrupts' \in 0..MaxInterrupts
<1>1. interrupts \in 0..MaxInterrupts
  BY DEF ChannelSound, ChannelTyped
<1> QED BY <1>1, ChannelAssumption DEF Interrupt

LEMMA ClaimInv ==
    ASSUME ChannelSound, NEW d \in Devices, NEW x \in Devices, ClaimKeyPackage(d, x)
    PROVE  ChannelSound'
<1>1. claims \in [Devices -> {"", "this", "other"}] /\ claims' = [claims EXCEPT ![x] = "this"]
  BY DEF ChannelSound, ChannelTyped, ClaimKeyPackage
<1>2. /\ claims' \in [Devices -> {"", "this", "other"}] /\ claims'[x] = "this"
      /\ \A y \in Devices : claims[y] = "this" => claims'[y] = "this"
  BY <1>1
<1>3. /\ granted' \subseteq Devices /\ known' = [known EXCEPT ![d] = auth.revoked]
      /\ UNCHANGED <<auth, cutoff, stream, mailbox, taken, device, outbox, made>>
  BY DEF ClaimKeyPackage, ChannelSound, ChannelTyped, broker
<1>4. interrupts' \in 0..MaxInterrupts
  BY InterruptTyped DEF ClaimKeyPackage, ChannelSound, ChannelTyped
<1>5. op[d] = Idle
  BY DEF ClaimKeyPackage
<1>6. CASE op' = [op EXCEPT ![d] = [at |-> "claimed", whom |-> x]]
  <2> DEFINE o == [at |-> "claimed", whom |-> x]
  <2>1. o \in AnyOp /\ o.at = "claimed" /\ o.whom = x
    BY OpsTyped
  <2> HIDE DEF o
  <2> QED BY <1>2, <1>3, <1>4, <1>6, <2>1, QuietInv DEF o
<1>7. CASE op' = op
  <2>1. op' = [op EXCEPT ![d] = Idle]
    BY <1>5, <1>7, SameOp
  <2> QED BY <1>2, <1>3, <1>4, <2>1, OpsTyped, QuietInv
<1> QED BY <1>6, <1>7 DEF ClaimKeyPackage

LEMMA OtherClaimsInv ==
    ASSUME ChannelSound, NEW x \in Devices, OtherClaims(x)
    PROVE  ChannelSound'
<1>1. claims \in [Devices -> {"", "this", "other"}] /\ claims' = [claims EXCEPT ![x] = "other"]
  BY DEF ChannelSound, ChannelTyped, OtherClaims
<1>2. /\ claims' \in [Devices -> {"", "this", "other"}]
      /\ \A y \in Devices : claims[y] = "this" => claims'[y] = "this"
  BY <1>1 DEF OtherClaims, MayClaim
<1>3. /\ granted' \subseteq Devices /\ known' = known /\ interrupts' \in 0..MaxInterrupts
      /\ UNCHANGED <<auth, cutoff, stream, mailbox, taken, device, outbox, made>>
  BY DEF OtherClaims, ChannelSound, ChannelTyped, broker
<1>4. ChannelTyped' /\ PolicyRow' /\ PolicyIsAGroup' /\ ChannelGrows
  <2>1. op' = op
    BY DEF OtherClaims
  <2>2. ChannelTyped'
    BY <1>2, <1>3, <2>1 DEF ChannelSound, ChannelTyped, device
  <2> QED BY <1>2, <1>3, <2>2, SameRegistry, StillGrows DEF ChannelSound
<1>5. MadeSound' /\ StreamSound'
  BY <1>3, <1>4, KeepMade, KeepStream DEF ChannelSound
<1>6. ASSUME NEW y \in Devices
      PROVE  MailSound(y)' /\ PlaceSound(y)' /\ GroupSound(y)' /\ BoxSound(y)' /\ OpSound(y)'
  BY <1>3, <1>4, KeepDevice DEF OtherClaims, device
<1> QED BY <1>4, <1>5, <1>6 DEF ChannelSound

LEMMA InterruptedInv ==
    ASSUME ChannelSound, NEW d \in Devices, Interrupted(d)
    PROVE  ChannelSound'
<1>1. /\ op' = [op EXCEPT ![d] = Idle] /\ known' = known /\ claims' = claims
      /\ UNCHANGED <<auth, cutoff, stream, mailbox, taken, device, outbox, made>>
      /\ granted' = granted
  BY DEF Interrupted, Stop, service, broker
<1>2. interrupts' \in 0..MaxInterrupts
  BY InterruptTyped DEF Interrupted
<1>3. granted \subseteq Devices /\ claims \in [Devices -> {"", "this", "other"}]
  BY DEF ChannelSound, ChannelTyped
<1> QED BY <1>1, <1>2, <1>3, OpsTyped, QuietInv

LEMMA AuditInv ==
    ASSUME ChannelSound, NEW d \in Devices, Audit(d)
    PROVE  ChannelSound'
<1>1. /\ op' = [op EXCEPT ![d] = Flushing] /\ known' = [known EXCEPT ![d] = auth.revoked]
      /\ UNCHANGED <<auth, cutoff, stream, mailbox, taken, device, outbox, made>>
      /\ granted' = granted /\ claims' = claims /\ interrupts' = interrupts /\ outbox[d] # <<>>
  BY DEF Audit, service, broker
<1>2. /\ granted \subseteq Devices /\ claims \in [Devices -> {"", "this", "other"}]
      /\ interrupts \in 0..MaxInterrupts
  BY DEF ChannelSound, ChannelTyped
<1> QED BY <1>1, <1>2, OpsTyped, QuietInv

LEMMA PolicyQueryInv ==
    ASSUME ChannelSound, NEW d \in Devices, PolicyQuery(d)
    PROVE  ChannelSound'
<1> DEFINE o == [at |-> "asked", seen |-> auth.policy]
<1>1. /\ op' = [op EXCEPT ![d] = o] /\ known' = known /\ op[d] = Flushing
      /\ UNCHANGED <<auth, cutoff, stream, mailbox, taken, device, outbox, made>>
      /\ granted' = granted /\ claims' = claims /\ interrupts' = interrupts
      /\ Row(d).kind = "policy"
  BY DEF PolicyQuery, service, broker
<1>2. /\ granted \subseteq Devices /\ claims \in [Devices -> {"", "this", "other"}]
      /\ interrupts \in 0..MaxInterrupts
  BY DEF ChannelSound, ChannelTyped
<1>3. outbox[d] # <<>>
  BY <1>1, OpsTyped DEF ChannelSound, OpSound
<1>4. auth.policy \in Policy
  BY DEF ChannelSound, PolicyRow, Registry
<1>5. o \in AnyOp /\ o.at = "asked" /\ o.seen = auth.policy
  BY <1>4, OpsTyped
<1> HIDE DEF o
<1> QED BY <1>1, <1>2, <1>3, <1>5, QuietInv

LEMMA ReadmitInv ==
    ASSUME ChannelSound, NEW d \in Devices, Readmit(d)
    PROVE  ChannelSound'
<1>1. /\ op' = op /\ known' = known
      /\ UNCHANGED <<auth, cutoff, stream, mailbox, taken, device, outbox, made, claims, interrupts>>
      /\ granted' \subseteq Devices
  BY DEF Readmit, Reconnected, service, ChannelSound, ChannelTyped
<1>2. ChannelTyped' /\ PolicyRow' /\ PolicyIsAGroup' /\ ChannelGrows
  <2>1. ChannelTyped'
    BY <1>1 DEF ChannelSound, ChannelTyped, device
  <2> QED BY <1>1, <2>1, SameRegistry, StillGrows DEF ChannelSound
<1>3. MadeSound' /\ StreamSound'
  BY <1>1, <1>2, KeepMade, KeepStream DEF ChannelSound
<1>4. ASSUME NEW y \in Devices
      PROVE  MailSound(y)' /\ PlaceSound(y)' /\ GroupSound(y)' /\ BoxSound(y)' /\ OpSound(y)'
  BY <1>1, <1>2, KeepDevice DEF device
<1> QED BY <1>2, <1>3, <1>4 DEF ChannelSound

(* A joining device is where its inviter's Commit led.                       *)
LEMMA WelcomeInv ==
    ASSUME ChannelSound, NEW d \in Devices, accept_welcome(d)
    PROVE  ChannelSound'
<1> DEFINE s == mailbox[d][taken[d] + 1]
<1>1. /\ group' = [group EXCEPT ![d] = [state |-> s, pin |-> Inviter(s)]]
      /\ taken' = [taken EXCEPT ![d] = @ + 1] /\ known' = [known EXCEPT ![d] = auth.revoked]
      /\ granted' \subseteq granted \cup {d} /\ taken[d] < Len(mailbox[d])
      /\ UNCHANGED <<auth, claims, cutoff, stream, mailbox, done, outbox, op, made, interrupts>>
  BY DEF accept_welcome, Reconnected, service
<1>2. ChannelTyped /\ PolicyRow /\ MadeSound /\ StreamSound /\ PolicyIsAGroup
  BY DEF ChannelSound
<1>3. /\ taken[d] + 1 \in 1..Len(mailbox[d]) /\ taken[d] + 1 \in Nat
      /\ taken[d] + 1 <= Len(mailbox[d])
  <2>1. taken[d] \in Nat /\ mailbox[d] \in Seq(AnyState)
    BY <1>2 DEF ChannelTyped
  <2>2. Len(mailbox[d]) \in Nat
    BY <2>1
  <2> QED BY <1>1, <2>1, <2>2
<1>4. s \in MadeStates /\ s \in AnyState
  <2>1. s \in SentStates
    BY <1>3 DEF ChannelSound, MailSound
  <2>2. s \in MadeStates
    BY <1>2, <2>1 DEF StreamSound, SentStates
  <2> QED BY <1>2, <2>2 DEF ChannelTyped, MadeStates
<1> HIDE DEF s
<1>5. Inviter(s) \in Devices
  <2>1. \E m \in made : m.state = s
    BY <1>4 DEF MadeStates
  <2>2. (CHOOSE m \in made : m.state = s) \in made
    BY <2>1
  <2> QED BY <1>2, <2>2 DEF Inviter, ChannelTyped
<1>6. ChannelTyped'
  <2>1. [state |-> s, pin |-> Inviter(s)] \in AnyGroup
    BY <1>4, <1>5 DEF AnyGroup
  <2>2. group' \in [Devices -> AnyGroup] /\ taken' \in [Devices -> Nat]
    BY <1>1, <1>2, <1>3, <2>1 DEF ChannelTyped
  <2>3. known' \in [Devices -> SUBSET Devices] /\ granted' \subseteq Devices
    BY <1>1, <1>2 DEF ChannelTyped, PolicyRow, Registry
  <2> QED BY <1>1, <1>2, <2>2, <2>3 DEF ChannelTyped
<1>7. PolicyRow' /\ PolicyIsAGroup' /\ ChannelGrows
  BY <1>1, <1>2, SameRegistry, StillGrows
<1>8. MadeSound' /\ StreamSound'
  BY <1>1, <1>2, <1>6, <1>7, KeepMade, KeepStream
<1>9. ASSUME NEW x \in Devices
      PROVE  MailSound(x)' /\ PlaceSound(x)' /\ GroupSound(x)' /\ BoxSound(x)' /\ OpSound(x)'
  <2>1. CASE x # d
    <3>1. group'[x] = group[x] /\ taken'[x] = taken[x] /\ known'[x] = known[x]
      BY <1>1, <1>2, <2>1 DEF ChannelTyped
    <3> QED BY <1>1, <1>6, <1>7, <3>1, KeepDevice
  <2>2. CASE x = d
    <3>1. group'[d].state = s /\ taken'[d] = taken[d] + 1 /\ known'[d] = auth.revoked
      BY <1>1, <1>2 DEF ChannelTyped
    <3>2. BoxSound(d)' /\ OpSound(d)'
      BY <1>1, <1>2, <1>6, <1>7, KeepBox, KeepOp DEF ChannelSound
    <3>3. MailSound(d)'
      BY <1>1, <1>3, <3>1 DEF ChannelSound, MailSound, SentStates
    <3>4. PlaceSound(d)'
      BY <1>1, <3>1 DEF ChannelSound, PlaceSound
    <3>5. GroupSound(d)'
      BY <1>1, <1>4, <3>1 DEF GroupSound, MadeStates
    <3> QED BY <2>2, <3>2, <3>3, <3>4, <3>5
  <2> QED BY <2>1, <2>2
<1> QED BY <1>6, <1>7, <1>8, <1>9 DEF ChannelSound

----------------------------------------------------------------------------
(* Commits.                                                                 *)

(* A Commit to a new state, merged and queued by one device.                *)
LEMMA CommitInv ==
    ASSUME ChannelSound, NEW d \in Devices, NEW old \in AnyState, NEW new \in AnyState,
           NEW pin \in Devices \cup {NoOne}, NEW whom \in Devices \cup {NoOne},
           Distinct(new.members), Numbered(new), whom # NoOne => claims[whom] = "this",
           group' = [group EXCEPT ![d] = [state |-> new, pin |-> pin]],
           outbox' = [outbox EXCEPT ![d] = outbox[d] \o Rows(old, new, whom)],
           made' = made \cup {[from |-> d, parent |-> old, state |-> new, whom |-> whom]},
           op' = [op EXCEPT ![d] = Idle],
           done' \in [Devices -> Nat], \A x \in Devices : done'[x] <= Len(stream),
           known' \in [Devices -> SUBSET Devices], \A x \in Devices : known'[x] \subseteq auth.revoked,
           UNCHANGED <<service, broker, interrupts>>
    PROVE  ChannelSound'
<1>0. ChannelTyped /\ PolicyRow /\ MadeSound /\ StreamSound /\ PolicyIsAGroup
  BY DEF ChannelSound
<1>1. UNCHANGED <<auth, claims, cutoff, stream, mailbox, taken, granted, interrupts>>
  BY DEF service, broker
<1>2. made \subseteq made' /\ MadeStates \subseteq MadeStates' /\ new \in MadeStates'
  BY DEF MadeStates
<1>3. outbox[d] \in Seq(AnyRow) /\ BoxSound(d) /\ SentStates' = SentStates
  BY <1>0, <1>1 DEF ChannelTyped, ChannelSound, SentStates
<1>4. RowsSound(outbox[d], MadeStates', auth.policy.epoch, SentStates)
  BY <1>0, <1>2, <1>3, EpochIsNat, RowsStaySound DEF BoxSound
<1>5. /\ outbox[d] \o Rows(old, new, whom) \in Seq(AnyRow)
      /\ RowsSound(outbox[d] \o Rows(old, new, whom), MadeStates', auth.policy.epoch, SentStates)
  BY <1>2, <1>3, <1>4, RowsAppended
<1>6. /\ outbox \in [Devices -> Seq(AnyRow)] /\ group \in [Devices -> AnyGroup]
      /\ op \in [Devices -> AnyOp]
  BY <1>0 DEF ChannelTyped
<1>7. ChannelTyped'
  <2>1. [state |-> new, pin |-> pin] \in AnyGroup
    BY DEF AnyGroup
  <2>2. /\ group' \in [Devices -> AnyGroup] /\ outbox' \in [Devices -> Seq(AnyRow)]
        /\ op' \in [Devices -> AnyOp]
    BY <1>5, <1>6, <2>1, OpsTyped
  <2>3. made' \subseteq [from : Devices, parent : AnyState, state : AnyState,
                         whom : Devices \cup {NoOne}]
    <3>1. [from |-> d, parent |-> old, state |-> new, whom |-> whom]
             \in [from : Devices, parent : AnyState, state : AnyState, whom : Devices \cup {NoOne}]
      OBVIOUS
    <3>2. made \subseteq [from : Devices, parent : AnyState, state : AnyState,
                          whom : Devices \cup {NoOne}]
      BY <1>0 DEF ChannelTyped
    <3> QED BY <3>1, <3>2
  <2> QED BY <1>0, <1>1, <2>2, <2>3 DEF ChannelTyped
<1>8. PolicyRow' /\ PolicyIsAGroup' /\ ChannelGrows
  BY <1>0, <1>1, <1>2, SameRegistry, StillGrows
<1>9. MadeSound'
  <2> SUFFICES ASSUME NEW m \in made'
               PROVE  /\ Distinct(m.state.members) /\ Numbered(m.state)'
                      /\ m.whom # NoOne => claims[m.whom] = "this"
    BY <1>1 DEF MadeSound
  <2>1. CASE m \in made
    BY <1>0, <1>1, <2>1 DEF MadeSound, Numbered
  <2>2. CASE m = [from |-> d, parent |-> old, state |-> new, whom |-> whom]
    <3>1. m.state = new /\ m.whom = whom
      BY <2>2
    <3> QED BY <1>1, <3>1 DEF Numbered
  <2> QED BY <2>1, <2>2
<1>10. StreamSound'
  BY <1>0, <1>1, <1>7, <1>8, KeepStream
<1>11. ASSUME NEW x \in Devices
       PROVE  MailSound(x)' /\ PlaceSound(x)' /\ GroupSound(x)' /\ BoxSound(x)' /\ OpSound(x)'
  <2>1. MailSound(x)'
    BY <1>0, <1>1, <1>7, <1>8, KeepMail DEF ChannelSound
  <2>2. PlaceSound(x)'
    BY <1>1 DEF ChannelSound, PlaceSound
  <2>3. CASE x # d
    <3>1. group'[x] = group[x] /\ outbox'[x] = outbox[x] /\ op'[x] = op[x]
      BY <1>6, <2>3
    <3> QED BY <1>0, <1>7, <1>8, <2>1, <2>2, <3>1, KeepGroup, KeepBox, KeepOp DEF ChannelSound
  <2>4. CASE x = d
    <3>1. /\ group'[d].state = new /\ op'[d] = Idle
          /\ outbox'[d] = outbox[d] \o Rows(old, new, whom)
      BY <1>6
    <3>2. BoxSound(d)'
      BY <1>1, <1>3, <1>5, <3>1 DEF BoxSound
    <3>3. OpSound(d)' /\ GroupSound(d)'
      BY <1>2, <3>1, OpsTyped DEF OpSound, GroupSound
    <3> QED BY <2>1, <2>2, <2>4, <3>2, <3>3
  <2> QED BY <2>3, <2>4
<1> QED BY <1>7, <1>8, <1>9, <1>10, <1>11 DEF ChannelSound

LEMMA SoundStates ==
    ASSUME ChannelSound, NEW s \in MadeStates \cup {NoState}
    PROVE  s \in AnyState /\ Distinct(s.members) /\ Numbered(s)
<1>1. CASE s \in MadeStates
  BY <1>1 DEF ChannelSound, ChannelTyped, MadeSound, MadeStates
<1>2. CASE s = NoState
  <2> DEFINE T == auth.revoked \ DOMAIN NoState.members
  <2>1. IsFiniteSet(T)
    BY FS_Subset DEF ChannelSound, PolicyRow
  <2>2. Cardinality(T) \in Nat
    <3> HIDE DEF T
    <3> QED BY <2>1, FS_CardinalityType
  <2>3. NoState.epoch = 0 /\ MaxChannelEpoch \in Nat
    BY NoStateIsState, ChannelAssumption
  <2>4. Numbered(NoState)
    <3> HIDE DEF T
    <3>1. NoState.epoch <= MaxChannelEpoch + Cardinality(T)
      BY <2>2, <2>3
    <3> QED BY <3>1 DEF Numbered, T
  <2> QED BY <1>2, <2>4, NoStateIsState
<1> QED BY <1>1, <1>2

LEMMA ChangeInv ==
    ASSUME ChannelSound, NEW d \in Devices, NEW members \in Membership, Distinct(members),
           NEW whom \in Devices \cup {NoOne}, whom # NoOne => claims[whom] = "this",
           Change(d, members, whom), op' = [op EXCEPT ![d] = Idle],
           UNCHANGED <<service, broker, done, known, interrupts>>
    PROVE  ChannelSound'
<1> DEFINE old == group[d].state
           new == State(old.epoch + 1, members)
           pin == Refreshed(d, members)
<1>1. old \in AnyState /\ group[d].pin \in Devices \cup {NoOne}
  BY DEF ChannelSound, ChannelTyped, AnyGroup
<1>2. old.epoch \in Nat /\ old.epoch < MaxChannelEpoch /\ MaxChannelEpoch \in Nat
  BY <1>1, ChannelAssumption DEF AnyState, Change
<1>3. new \in AnyState /\ new.members = members /\ new.epoch = old.epoch + 1
  BY <1>2 DEF State, AnyState
<1>4. pin \in Devices \cup {NoOne}
  BY <1>1, ElectedIsDevice DEF Refreshed
<1>5. /\ group' = [group EXCEPT ![d] = [state |-> new, pin |-> pin]]
      /\ outbox' = [outbox EXCEPT ![d] = outbox[d] \o Rows(old, new, whom)]
      /\ made' = made \cup {[from |-> d, parent |-> old, state |-> new, whom |-> whom]}
  BY DEF Change
<1> HIDE DEF old, new, pin
<1>6. Numbered(new)
  <2> DEFINE T == auth.revoked \ DOMAIN new.members
  <2>1. IsFiniteSet(T)
    BY FS_Subset DEF ChannelSound, PolicyRow
  <2> HIDE DEF T
  <2>2. Cardinality(T) \in Nat
    BY <2>1, FS_CardinalityType
  <2>3. new.epoch <= MaxChannelEpoch + Cardinality(T)
    BY <1>2, <1>3, <2>2
  <2> QED BY <2>3 DEF Numbered, T
<1>7. /\ done' \in [Devices -> Nat] /\ \A x \in Devices : done'[x] <= Len(stream)
      /\ known' \in [Devices -> SUBSET Devices] /\ \A x \in Devices : known'[x] \subseteq auth.revoked
  BY DEF ChannelSound, ChannelTyped, PlaceSound
<1> QED BY <1>1, <1>3, <1>4, <1>5, <1>6, <1>7, CommitInv

LEMMA InvitationInv ==
    ASSUME ChannelSound, NEW d \in Devices, prepare_invitation(d)
    PROVE  ChannelSound'
<1>1. /\ op[d].at = "claimed" /\ op' = [op EXCEPT ![d] = Idle]
      /\ UNCHANGED <<service, broker, done, known, interrupts>>
  BY DEF prepare_invitation
<1>2. PICK x \in Devices : x = op[d].whom
  BY <1>1, SameOp
<1>3. claims[x] = "this"
  BY <1>1, <1>2 DEF ChannelSound, OpSound
<1>4. CASE x \notin Members(d) /\ Change(d, MoreLeaves(group[d].state.members, x), x)
  <2>1. group[d].state.members \in Membership /\ Distinct(group[d].state.members)
    BY SoundStates DEF ChannelSound, GroupSound, AnyState
  <2>2. /\ MoreLeaves(group[d].state.members, x) \in Membership
        /\ Distinct(MoreLeaves(group[d].state.members, x))
    BY <1>4, <2>1, MoreLeavesIsMembership DEF Members
  <2> QED BY <1>1, <1>3, <1>4, <2>2, ChangeInv
<1>5. CASE UNCHANGED <<group, outbox, made>>
  <2>1. /\ granted \subseteq Devices /\ claims \in [Devices -> {"", "this", "other"}]
        /\ interrupts \in 0..MaxInterrupts
    BY DEF ChannelSound, ChannelTyped
  <2> QED BY <1>1, <1>5, <2>1, OpsTyped, QuietInv DEF service, broker, device
<1> QED BY <1>2, <1>4, <1>5 DEF prepare_invitation

LEMMA RemoveInv ==
    ASSUME ChannelSound, NEW d \in Devices, NEW x \in Devices, remove_member(d, x)
    PROVE  ChannelSound'
<1>1. group[d].state.members \in Membership /\ Distinct(group[d].state.members)
  BY SoundStates DEF ChannelSound, GroupSound, AnyState
<1>2. /\ Without(group[d].state.members, x) \in Membership
      /\ Distinct(Without(group[d].state.members, x))
  BY <1>1, WithoutIsMembership
<1>3. op' = [op EXCEPT ![d] = Idle]
  BY SameOp DEF remove_member
<1>4. /\ Change(d, Without(group[d].state.members, x), NoOne)
      /\ UNCHANGED <<service, broker, done, known, interrupts>>
  BY DEF remove_member
<1> QED BY <1>2, <1>3, <1>4, ChangeInv

(* A sync ends in the group the stream led to, or in that group without the   *)
(* revoked.                                                                  *)
LEMMA SyncInv ==
    ASSUME ChannelSound, NEW d \in Devices, Sync(d)
    PROVE  ChannelSound'
<1>0. ChannelTyped /\ PolicyRow /\ MadeSound /\ StreamSound /\ PolicyIsAGroup
  BY DEF ChannelSound
<1> DEFINE g == CaughtUp(d)
           gone == auth.revoked
           new == State(g.state.epoch + 1, Restricted(g.state.members, gone))
           pin == IF g.pin \in DOMAIN new.members THEN g.pin ELSE Elected(new.members, g.pin, gone)
<1>1. /\ g \in AnyGroup /\ Backlog(d) \in Nat /\ Backlog(d) <= Len(stream)
      /\ g.state \in {group[d].state} \cup SentStates
  BY <1>0, CaughtUpIsGroup DEF ChannelSound, PlaceSound, SentStates
<1>2. g.state \in MadeStates \cup {NoState}
  BY <1>0, <1>1 DEF ChannelSound, GroupSound, StreamSound, SentStates
<1>3. /\ op[d] = Idle /\ outbox[d] = <<>> /\ known' = [known EXCEPT ![d] = gone]
      /\ done' = [done EXCEPT ![d] = Backlog(d)] /\ UNCHANGED <<service, broker, op, interrupts>>
  BY DEF Sync
<1>4. /\ done' \in [Devices -> Nat] /\ \A x \in Devices : done'[x] <= Len(stream)
      /\ known' \in [Devices -> SUBSET Devices] /\ \A x \in Devices : known'[x] \subseteq gone
  <2>1. /\ done \in [Devices -> Nat] /\ known \in [Devices -> SUBSET Devices] /\ gone \subseteq Devices
        /\ \A x \in Devices : done[x] <= Len(stream) /\ known[x] \subseteq gone
    BY <1>0 DEF ChannelTyped, ChannelSound, PlaceSound, PolicyRow, Registry
  <2> HIDE DEF gone
  <2> QED BY <1>1, <1>3, <2>1
<1>5. op' = [op EXCEPT ![d] = Idle]
  BY <1>3, SameOp
<1>6. CASE /\ DOMAIN g.state.members \cap gone # {}
           /\ group' = [group EXCEPT ![d] = [state |-> new, pin |-> pin]]
           /\ outbox' = [outbox EXCEPT ![d] = Rows(g.state, new, NoOne)]
           /\ made' = made \cup {[from |-> d, parent |-> g.state, state |-> new, whom |-> NoOne]}
  <2>1. /\ g.state \in AnyState /\ Distinct(g.state.members) /\ Numbered(g.state)
        /\ g.state.members \in Membership /\ g.state.epoch \in Nat
        /\ g.pin \in Devices \cup {NoOne}
    BY <1>1, <1>2, SoundStates DEF AnyState, AnyGroup
  <2> HIDE DEF g
  <2>2. /\ Restricted(g.state.members, gone) \in Membership
        /\ Distinct(Restricted(g.state.members, gone))
        /\ DOMAIN Restricted(g.state.members, gone) = DOMAIN g.state.members \ gone
    BY <2>1, RestrictedIsMembership
  <2>3. /\ new \in AnyState /\ new.epoch = g.state.epoch + 1
        /\ new.members = Restricted(g.state.members, gone)
    BY <2>1, <2>2 DEF State, AnyState
  <2> HIDE DEF new
  <2>4. pin \in Devices \cup {NoOne}
    BY <2>1, <2>2, <2>3, ElectedIsDevice
  <2>5. Numbered(new)
    <3> DEFINE T == gone \ DOMAIN g.state.members
               U == gone \ DOMAIN new.members
    <3>1. T \subseteq U /\ T # U
      BY <1>6, <2>2, <2>3
    <3>2. IsFiniteSet(U)
      BY <1>0, FS_Subset DEF PolicyRow
    <3>3. g.state.epoch <= MaxChannelEpoch + Cardinality(T)
      BY <2>1 DEF Numbered
    <3> HIDE DEF T, U
    <3>4. /\ IsFiniteSet(T) /\ Cardinality(T) \in Nat /\ Cardinality(U) \in Nat
          /\ Cardinality(T) < Cardinality(U)
      <4>1. IsFiniteSet(T) /\ Cardinality(T) <= Cardinality(U)
            /\ (Cardinality(T) = Cardinality(U) => T = U)
        BY <3>1, <3>2, FS_Subset
      <4>2. Cardinality(T) \in Nat /\ Cardinality(U) \in Nat
        BY <3>2, <4>1, FS_CardinalityType
      <4> QED BY <3>1, <4>1, <4>2
    <3>5. MaxChannelEpoch \in Nat
      BY ChannelAssumption
    <3>6. new.epoch <= MaxChannelEpoch + Cardinality(U)
      BY <2>1, <2>3, <3>3, <3>4, <3>5
    <3> QED BY <3>6 DEF Numbered, U
  <2>6. outbox' = [outbox EXCEPT ![d] = outbox[d] \o Rows(g.state, new, NoOne)]
    <3>1. PICK r \in Seq(AnyRow) : r = Rows(g.state, new, NoOne)
      <4>1. policyRow(new) \in AnyRow /\ commitRow(g.state, new) \in AnyRow
        BY <2>1, <2>3, NoStateIsState DEF policyRow, commitRow, AnyRow
      <4>2. <<policyRow(new), commitRow(g.state, new)>> \in Seq(AnyRow)
        BY <4>1
      <4>3. <<policyRow(new), commitRow(g.state, new)>> \o <<>>
              = <<policyRow(new), commitRow(g.state, new)>>
        BY <4>2
      <4> QED BY <4>2, <4>3 DEF Rows
    <3>2. <<>> \o r = r
      BY <3>1
    <3> QED BY <1>3, <1>6, <3>1, <3>2
  <2>7. Distinct(new.members)
    BY <2>2, <2>3
  <2>8. /\ group' = [group EXCEPT ![d] = [state |-> new, pin |-> pin]]
        /\ made' = made \cup {[from |-> d, parent |-> g.state, state |-> new, whom |-> NoOne]}
        /\ UNCHANGED <<service, broker, interrupts>>
        /\ \A x \in Devices : known'[x] \subseteq auth.revoked
    BY <1>3, <1>4, <1>6
  <2>9. NoOne \in Devices \cup {NoOne} /\ g.state \in AnyState /\ new \in AnyState
    BY <2>1, <2>3
  <2> HIDE DEF pin, gone
  <2> QED BY <1>4, <1>5, <2>4, <2>5, <2>6, <2>7, <2>8, <2>9, CommitInv
<1>7. CASE group' = [group EXCEPT ![d] = g] /\ UNCHANGED <<outbox, made>>
  <2>0. UNCHANGED <<auth, claims, cutoff, stream, mailbox, taken, granted, interrupts>>
    BY <1>3 DEF service, broker
  <2>1. ChannelTyped'
    <3>1. group' \in [Devices -> AnyGroup]
      BY <1>0, <1>1, <1>7 DEF ChannelTyped
    <3> QED BY <1>0, <1>3, <1>4, <1>7, <2>0, <3>1 DEF ChannelTyped
  <2>2. PolicyRow' /\ PolicyIsAGroup' /\ ChannelGrows
    BY <1>0, <1>7, <2>0, SameRegistry, StillGrows
  <2>3. MadeSound' /\ StreamSound'
    BY <1>0, <1>7, <2>0, <2>1, <2>2, KeepMade, KeepStream
  <2>4. ASSUME NEW x \in Devices
        PROVE  MailSound(x)' /\ PlaceSound(x)' /\ GroupSound(x)' /\ BoxSound(x)' /\ OpSound(x)'
    <3>1. MailSound(x)' /\ BoxSound(x)' /\ OpSound(x)'
      BY <1>0, <1>3, <1>7, <2>0, <2>1, <2>2, KeepMail, KeepBox, KeepOp DEF ChannelSound
    <3>2. PlaceSound(x)'
      BY <1>4, <2>0 DEF ChannelSound, PlaceSound
    <3>3. GroupSound(x)'
      <4>1. group'[x] = group[x] \/ group'[x] = g
        BY <1>0, <1>7 DEF ChannelTyped
      <4> HIDE DEF g
      <4> QED BY <1>2, <1>7, <4>1 DEF ChannelSound, GroupSound, MadeStates
    <3> QED BY <3>1, <3>2, <3>3
  <2> QED BY <2>1, <2>2, <2>3, <2>4 DEF ChannelSound
<1> QED BY <1>6, <1>7 DEF Sync

----------------------------------------------------------------------------
(* Rows that are sent.                                                      *)

LEMMA AdvanceTyped ==
    ASSUME ChannelSound, NEW d \in Devices, outbox[d] # <<>>,
           (Flushed(d) /\ Sent(d)) \/ (Stop(d) /\ UNCHANGED outbox)
    PROVE  /\ outbox' \in [Devices -> Seq(AnyRow)] /\ op' \in [Devices -> AnyOp]
           /\ outbox' = [outbox EXCEPT ![d] = outbox'[d]] /\ outbox'[d] \in {outbox[d], Tail(outbox[d])}
           /\ op' = [op EXCEPT ![d] = op'[d]] /\ op'[d] \in {Idle, Flushing}
           /\ op'[d] = Flushing => outbox'[d] # <<>>
<1>1. outbox \in [Devices -> Seq(AnyRow)] /\ op \in [Devices -> AnyOp]
  BY DEF ChannelSound, ChannelTyped
<1>2. outbox[d] \in Seq(AnyRow)
  BY <1>1
<1>3. /\ Tail(outbox[d]) \in Seq(AnyRow) /\ Len(Tail(outbox[d])) = Len(outbox[d]) - 1
      /\ Len(outbox[d]) \in Nat
  BY <1>2
<1>4. Len(outbox[d]) # 1 => Tail(outbox[d]) # <<>>
  <2> SUFFICES ASSUME Tail(outbox[d]) = <<>> PROVE Len(outbox[d]) = 1
    OBVIOUS
  <2>1. Len(<<>>) = 0
    OBVIOUS
  <2>2. Len(Tail(outbox[d])) = 0
    BY <2>1, Zenon
  <2> QED BY <1>3, <2>2
<1>5. Idle # Flushing
  BY OpsTyped
<1>6. CASE Stop(d) /\ UNCHANGED outbox
  <2>1. op' = [op EXCEPT ![d] = Idle] /\ outbox' = outbox
    BY <1>6 DEF Stop
  <2> QED BY <1>1, <1>5, <2>1, OpsTyped
<1>7. CASE Flushed(d) /\ Sent(d)
  <2>1. outbox' = [outbox EXCEPT ![d] = Tail(outbox[d])]
    BY <1>7 DEF Sent
  <2>2. PICK o \in {Idle, Flushing} :
           op' = [op EXCEPT ![d] = o] /\ (o = Flushing => Len(outbox[d]) # 1)
    BY <1>5, <1>7 DEF Flushed, Stop
  <2>3. outbox' \in [Devices -> Seq(AnyRow)] /\ outbox'[d] = Tail(outbox[d])
    BY <1>1, <1>3, <2>1
  <2>4. op' \in [Devices -> AnyOp] /\ op'[d] = o
    BY <1>1, <2>2, OpsTyped
  <2> QED BY <1>4, <2>1, <2>2, <2>3, <2>4
<1> QED BY <1>6, <1>7

LEMMA Advance ==
    ASSUME ChannelSound, ChannelTyped', PolicyRow', ChannelGrows, NEW d \in Devices,
           outbox[d] # <<>>, (Flushed(d) /\ Sent(d)) \/ (Stop(d) /\ UNCHANGED outbox),
           Row(d).kind = "policy" => Row(d).state.epoch <= auth'.policy.epoch,
           Row(d).kind = "commit" => Row(d).state \in SentStates',
           NEW x \in Devices
    PROVE  BoxSound(x)' /\ OpSound(x)'
<1>0. ChannelTyped /\ PolicyRow /\ BoxSound(x) /\ OpSound(x) /\ BoxSound(d)
  BY DEF ChannelSound
<1>1. outbox \in [Devices -> Seq(AnyRow)] /\ op \in [Devices -> AnyOp] /\ outbox[d] \in Seq(AnyRow)
  BY <1>0 DEF ChannelTyped
<1>2. /\ outbox' = [outbox EXCEPT ![d] = outbox'[d]] /\ outbox'[d] \in {outbox[d], Tail(outbox[d])}
      /\ op' = [op EXCEPT ![d] = op'[d]] /\ op'[d] \in {Idle, Flushing}
      /\ op'[d] = Flushing => outbox'[d] # <<>>
  BY AdvanceTyped
<1>3. CASE x # d
  <2>1. outbox'[x] = outbox[x] /\ op'[x] = op[x]
    BY <1>1, <1>2, <1>3
  <2> QED BY <1>0, <2>1, KeepBox, KeepOp
<1>4. CASE x = d
  <2>1. OpSound(d)'
    BY <1>2, OpsTyped DEF OpSound
  <2>2. RowsSound(outbox[d], MadeStates', auth'.policy.epoch, SentStates')
    <3>1. MadeStates \subseteq MadeStates' /\ SentStates \subseteq SentStates'
      BY <1>0, Monotone
    <3>2. /\ auth.policy.epoch \in Nat /\ auth'.policy.epoch \in Nat
          /\ auth.policy.epoch <= auth'.policy.epoch
      BY <1>0, Epochs DEF ChannelGrows
    <3> QED BY <1>0, <1>1, <3>1, <3>2, RowsStaySound DEF BoxSound
  <2>3. RowsSound(Tail(outbox[d]), MadeStates', auth'.policy.epoch, SentStates')
    BY <1>1, <2>2, TailSound DEF Row
  <2> QED BY <1>2, <1>4, <2>1, <2>2, <2>3 DEF BoxSound
<1> QED BY <1>3, <1>4

(* The row being sent names a state that was made.                           *)
LEMMA HeadSound ==
    ASSUME ChannelSound, NEW d \in Devices, outbox[d] # <<>>
    PROVE  /\ Row(d) \in AnyRow /\ Row(d).state \in MadeStates
           /\ Row(d).kind = "commit" => Row(d).state.epoch <= auth.policy.epoch
           /\ Row(d).kind = "welcome" => Row(d).state \in SentStates
<1>1. outbox[d] \in Seq(AnyRow) /\ BoxSound(d)
  BY DEF ChannelSound, ChannelTyped
<1>2. Row(d) = outbox[d][1] /\ 1 \in 1..Len(outbox[d]) /\ outbox[d][1] \in AnyRow
  BY <1>1 DEF Row
<1>3. RowSound(outbox[d], 1, MadeStates, auth.policy.epoch, SentStates)
  BY <1>1, <1>2 DEF BoxSound, RowsSound
<1> QED BY <1>2, <1>3 DEF RowSound

LEMMA RefusedInv ==
    ASSUME ChannelSound, NEW d \in Devices, Stop(d),
           UNCHANGED <<auth, claims, cutoff, stream, mailbox, taken, granted, device, known, outbox,
                       made, interrupts>>
    PROVE  ChannelSound'
<1>1. op' = [op EXCEPT ![d] = Idle]
  BY DEF Stop
<1>2. /\ granted \subseteq Devices /\ claims \in [Devices -> {"", "this", "other"}]
      /\ interrupts \in 0..MaxInterrupts
  BY DEF ChannelSound, ChannelTyped
<1> QED BY <1>1, <1>2, OpsTyped, QuietInv

(* The registry after an update that was not refused.                        *)
LEMMA UpdatedPolicy ==
    ASSUME ChannelSound, NEW d \in Devices, op[d].at = "asked", ~Refused(d), auth' = Applied(d),
           made' = made
    PROVE  /\ PolicyRow' /\ PolicyIsAGroup' /\ auth'.revoked = auth.revoked
           /\ auth.policy.epoch <= auth'.policy.epoch
           /\ auth'.policy = auth.policy \/ auth.policy.epoch < auth'.policy.epoch
           /\ Row(d).state.epoch <= auth'.policy.epoch
           /\ outbox[d] # <<>>
<1>1. /\ PolicyRow /\ PolicyIsAGroup /\ OpSound(d) /\ ChannelTyped /\ auth.policy.epoch \in Nat
      /\ auth.policy.epoch <= auth.policy.epoch
  BY EpochIsNat DEF ChannelSound
<1>2. outbox[d] # <<>> /\ op[d].seen.epoch <= auth.policy.epoch
  BY <1>1 DEF OpSound
<1>3. op[d].seen \in Policy
  <2>1. op[d] \in AnyOp
    BY SameOp
  <2> QED BY <2>1 DEF AnyOp, Idle, Flushing
<1>4. Row(d) \in AnyRow /\ Row(d).state \in MadeStates /\ Row(d).state \in AnyState
  BY <1>2, HeadSound DEF AnyRow
<1>5. CASE Current(op[d].seen, Row(d).state, d)
  <2>1. auth' = auth
    BY <1>5 DEF Applied
  <2>2. Row(d).state.epoch <= auth.policy.epoch
    BY <1>2, <1>5 DEF Current
  <2> QED BY <1>1, <1>2, <2>1, <2>2, SameRegistry
<1>6. CASE ~Current(op[d].seen, Row(d).state, d)
  <2> DEFINE u == Intent(d)
  <2>1. u \in Update /\ u.epoch = Row(d).state.epoch /\ u.members = Row(d).state.members
    BY <1>3, <1>4 DEF Intent, Update, Policy, AnyState
  <2>2. may_apply(auth, u) /\ auth' = apply_policy(auth, u)
    BY <1>6 DEF Applied, Refused
  <2> HIDE DEF u
  <2>3. /\ PolicyRow' /\ auth'.revoked = auth.revoked
        /\ auth.policy.epoch <= auth'.policy.epoch /\ auth'.policy.epoch = u.epoch
        /\ \/ auth'.policy = auth.policy
           \/ /\ auth.policy.epoch < auth'.policy.epoch
              /\ auth'.policy.members = u.members
              /\ DOMAIN u.members \cap auth.revoked = {}
    BY <1>1, <2>1, <2>2, ApplyChannel
  <2>4. Row(d).state.epoch <= auth'.policy.epoch
    <3>1. auth'.policy.epoch \in Nat
      BY <1>1, <2>3, Epochs
    <3> QED BY <2>1, <2>3, <3>1
  <2>5. PolicyIsAGroup'
    <3>1. CASE auth'.policy = auth.policy
      BY <1>1, <2>3, <3>1 DEF PolicyIsAGroup
    <3>2. CASE auth'.policy.members = u.members /\ DOMAIN u.members \cap auth.revoked = {}
      <4>1. Row(d).state.members \in Membership
        BY <1>4 DEF AnyState
      <4>2. Restricted(Row(d).state.members, auth.revoked) = Row(d).state.members
        BY <2>1, <3>2, <4>1, RestrictedIsMembership
      <4>3. PICK s \in MadeStates : s = Row(d).state
        BY <1>4
      <4>4. /\ s \in {m.state : m \in made'} /\ auth'.policy.epoch = s.epoch
            /\ auth'.policy.members = Restricted(s.members, auth'.revoked)
        BY <2>1, <2>3, <3>2, <4>2, <4>3 DEF MadeStates
      <4> QED BY <4>4 DEF PolicyIsAGroup
    <3> QED BY <2>3, <3>1, <3>2
  <2> QED BY <1>2, <2>3, <2>4, <2>5
<1> QED BY <1>5, <1>6

LEMMA GroupPolicyInv ==
    ASSUME ChannelSound, NEW d \in Devices, GroupPolicy(d)
    PROVE  ChannelSound'
<1>1. /\ op[d].at = "asked"
      /\ UNCHANGED <<claims, cutoff, stream, mailbox, taken, device, known, made>>
  BY DEF GroupPolicy
<1>2. CASE Refused(d)
  BY <1>1, <1>2, RefusedInv DEF GroupPolicy
<1>3. CASE ~Refused(d)
  <2>1. /\ auth' = Applied(d) /\ granted' \subseteq granted \cup {d}
        /\ (Flushed(d) /\ Sent(d)) \/ (Stop(d) /\ UNCHANGED outbox)
        /\ interrupts' = interrupts \/ Interrupt
    BY <1>3 DEF GroupPolicy, Reconnected
  <2>2. /\ PolicyRow' /\ PolicyIsAGroup' /\ auth'.revoked = auth.revoked
        /\ auth.policy.epoch <= auth'.policy.epoch
        /\ Row(d).state.epoch <= auth'.policy.epoch /\ outbox[d] # <<>>
    BY <1>1, <1>3, <2>1, UpdatedPolicy
  <2>3. Row(d).kind = "policy"
    BY <1>1 DEF ChannelSound, OpSound
  <2>4. interrupts' \in 0..MaxInterrupts
    BY <2>1, InterruptTyped DEF ChannelSound, ChannelTyped
  <2>5. ChannelTyped'
    <3>1. outbox' \in [Devices -> Seq(AnyRow)] /\ op' \in [Devices -> AnyOp]
      BY <2>1, <2>2, AdvanceTyped
    <3> QED BY <1>1, <2>1, <2>4, <3>1 DEF ChannelSound, ChannelTyped, device
  <2>6. ChannelGrows
    <3>1. Len(stream) \in Nat
      BY StreamTyped DEF ChannelSound
    <3>2. Len(stream) <= Len(stream')
      BY <1>1, <3>1
    <3> QED BY <1>1, <2>2, <3>2 DEF ChannelGrows
  <2>7. MadeSound' /\ StreamSound'
    BY <1>1, <2>2, <2>5, <2>6, KeepMade, KeepStream DEF ChannelSound
  <2>8. ASSUME NEW x \in Devices
        PROVE  MailSound(x)' /\ PlaceSound(x)' /\ GroupSound(x)' /\ BoxSound(x)' /\ OpSound(x)'
    <3>1. MailSound(x)' /\ PlaceSound(x)' /\ GroupSound(x)'
      BY <1>1, <2>5, <2>6, KeepMail, KeepPlace, KeepGroup DEF ChannelSound, device
    <3>2. BoxSound(x)' /\ OpSound(x)'
      BY <2>1, <2>2, <2>3, <2>5, <2>6, Advance
    <3> QED BY <3>1, <3>2
  <2> QED BY <2>2, <2>5, <2>7, <2>8 DEF ChannelSound
<1> QED BY <1>2, <1>3

LEMMA PublishInv ==
    ASSUME ChannelSound, NEW d \in Devices, PublishCommit(d)
    PROVE  ChannelSound'
<1>1. /\ op[d] = Flushing /\ Row(d).kind = "commit"
      /\ UNCHANGED <<auth, claims, cutoff, mailbox, taken, granted, device, known, made>>
  BY DEF PublishCommit, service
<1>2. CASE d \notin granted
  BY <1>1, <1>2, RefusedInv DEF PublishCommit
<1>3. CASE d \in granted
  <2> DEFINE r == Row(d)
             e == [from |-> d, row |-> r]
  <2>1. /\ stream' = IF InStream(r) THEN stream ELSE Append(stream, e)
        /\ (Flushed(d) /\ Sent(d)) \/ (Stop(d) /\ UNCHANGED outbox)
        /\ interrupts' = interrupts \/ Interrupt
    BY <1>3 DEF PublishCommit
  <2>2. outbox[d] # <<>>
    BY <1>1, OpsTyped DEF ChannelSound, OpSound
  <2>3. r \in AnyRow /\ r.state \in MadeStates /\ r.state.epoch <= auth.policy.epoch
    BY <1>1, <2>2, HeadSound
  <2>4. e \in AnyEntry /\ e.row = r
    BY <2>3 DEF AnyEntry
  <2>5. interrupts' \in 0..MaxInterrupts
    BY <2>1, InterruptTyped DEF ChannelSound, ChannelTyped
  <2>6. stream \in Seq(AnyEntry) /\ Len(stream) \in Nat
    BY StreamTyped DEF ChannelSound, ChannelTyped
  <2> HIDE DEF e, r
  <2>7. /\ stream' \in Seq(AnyEntry) /\ Len(stream') \in Nat /\ Len(stream) <= Len(stream')
        /\ \A n \in 1..Len(stream) : stream'[n] = stream[n]
        /\ \A n \in 1..Len(stream') : n \in 1..Len(stream) \/ stream'[n] = e
        /\ \E n \in 1..Len(stream') : stream'[n].row = r
    <3>1. CASE InStream(r)
      <4>1. \E n \in 1..Len(stream) : stream[n].row = r
        BY <3>1 DEF InStream
      <4> QED BY <2>1, <2>6, <3>1, <4>1
    <3>2. CASE ~InStream(r)
      <4>1. stream' = Append(stream, e)
        BY <2>1, <3>2
      <4>2. /\ stream' \in Seq(AnyEntry) /\ Len(stream') = Len(stream) + 1
            /\ \A n \in 1..Len(stream) : stream'[n] = stream[n]
            /\ stream'[Len(stream) + 1] = e
        BY <2>4, <2>6, <4>1
      <4>3. \A n \in 1..Len(stream') : n \in 1..Len(stream) \/ n = Len(stream) + 1
        BY <2>6, <4>2
      <4>4. Len(stream) + 1 \in 1..Len(stream')
        BY <2>6, <4>2
      <4> QED BY <2>4, <2>6, <4>2, <4>3, <4>4
    <3> QED BY <3>1, <3>2
  <2>8. ChannelTyped'
    <3>1. outbox' \in [Devices -> Seq(AnyRow)] /\ op' \in [Devices -> AnyOp]
      BY <2>1, <2>2, AdvanceTyped
    <3> QED BY <1>1, <2>5, <2>7, <3>1 DEF ChannelSound, ChannelTyped, device
  <2>9. PolicyRow' /\ PolicyIsAGroup'
    BY <1>1, SameRegistry DEF ChannelSound
  <2>10. ChannelGrows
    <3>1. auth.policy.epoch <= auth'.policy.epoch
      BY <1>1, EpochIsNat DEF ChannelSound
    <3> QED BY <1>1, <2>7, <3>1 DEF ChannelGrows
  <2>11. MadeSound'
    BY <1>1, <2>9, <2>10, KeepMade DEF ChannelSound
  <2>12. StreamSound'
    <3> SUFFICES ASSUME NEW n \in 1..Len(stream')
                 PROVE  /\ stream'[n].row.state \in MadeStates
                        /\ stream'[n].row.state.epoch <= auth.policy.epoch
      BY <1>1 DEF StreamSound, MadeStates
    <3>1. CASE n \in 1..Len(stream)
      BY <2>7, <3>1 DEF ChannelSound, StreamSound
    <3>2. CASE stream'[n] = e
      BY <2>3, <2>4, <3>2
    <3> QED BY <2>7, <3>1, <3>2
  <2>13. r.state \in SentStates'
    BY <2>7 DEF SentStates
  <2>14. ASSUME NEW x \in Devices
         PROVE  MailSound(x)' /\ PlaceSound(x)' /\ GroupSound(x)' /\ BoxSound(x)' /\ OpSound(x)'
    <3>1. MailSound(x)' /\ PlaceSound(x)' /\ GroupSound(x)'
      BY <1>1, <2>8, <2>10, KeepMail, KeepPlace, KeepGroup DEF ChannelSound, device
    <3>2. BoxSound(x)' /\ OpSound(x)'
      BY <1>1, <2>1, <2>2, <2>8, <2>9, <2>10, <2>13, Advance DEF r
    <3> QED BY <3>1, <3>2
  <2> QED BY <2>8, <2>9, <2>11, <2>12, <2>14 DEF ChannelSound
<1> QED BY <1>2, <1>3

LEMMA RelayInv ==
    ASSUME ChannelSound, NEW d \in Devices, RelayWelcome(d)
    PROVE  ChannelSound'
<1> DEFINE s == Row(d).state
           y == Row(d).whom
<1>1. /\ op[d] = Flushing /\ Row(d).kind = "welcome"
      /\ UNCHANGED <<auth, claims, cutoff, stream, taken, granted, device, known, made>>
  BY DEF RelayWelcome, service
<1>2. CASE ~MayRelay(d, s, y)
  BY <1>1, <1>2, RefusedInv DEF RelayWelcome
<1>3. CASE MayRelay(d, s, y)
  <2>1. /\ mailbox' = IF Relayed(s, y) THEN mailbox ELSE [mailbox EXCEPT ![y] = Append(@, s)]
        /\ (Flushed(d) /\ Sent(d)) \/ (Stop(d) /\ UNCHANGED outbox)
        /\ interrupts' = interrupts \/ Interrupt
    BY <1>3 DEF RelayWelcome
  <2>2. outbox[d] # <<>>
    BY <1>1, OpsTyped DEF ChannelSound, OpSound
  <2>3. s \in AnyState /\ s \in SentStates
    BY <1>1, <2>2, HeadSound DEF AnyRow
  <2>4. interrupts' \in 0..MaxInterrupts
    BY <2>1, InterruptTyped DEF ChannelSound, ChannelTyped
  <2>5. mailbox \in [Devices -> Seq(AnyState)] /\ taken \in [Devices -> Nat]
    BY DEF ChannelSound, ChannelTyped
  <2> HIDE DEF s, y
  <2>6. mailbox' \in [Devices -> Seq(AnyState)]
    <3>1. \A x \in Devices : Append(mailbox[x], s) \in Seq(AnyState)
      BY <2>3, <2>5
    <3> QED BY <2>1, <2>5, <3>1
  <2>7. ASSUME NEW x \in Devices PROVE mailbox'[x] = mailbox[x] \/ mailbox'[x] = Append(mailbox[x], s)
    BY <2>1, <2>5
  <2>8. ChannelTyped'
    <3>1. outbox' \in [Devices -> Seq(AnyRow)] /\ op' \in [Devices -> AnyOp]
      BY <2>1, <2>2, AdvanceTyped
    <3> QED BY <1>1, <2>4, <2>6, <3>1 DEF ChannelSound, ChannelTyped, device
  <2>9. PolicyRow' /\ PolicyIsAGroup' /\ ChannelGrows
    BY <1>1, SameRegistry, StillGrows DEF ChannelSound
  <2>10. MadeSound' /\ StreamSound'
    BY <1>1, <2>8, <2>9, KeepMade, KeepStream DEF ChannelSound
  <2>11. ASSUME NEW x \in Devices
         PROVE  MailSound(x)' /\ PlaceSound(x)' /\ GroupSound(x)' /\ BoxSound(x)' /\ OpSound(x)'
    <3>1. PlaceSound(x)' /\ GroupSound(x)'
      BY <1>1, <2>8, <2>9, KeepPlace, KeepGroup DEF ChannelSound, device
    <3>2. BoxSound(x)' /\ OpSound(x)'
      BY <1>1, <2>1, <2>2, <2>8, <2>9, Advance
    <3>3. MailSound(x)'
      <4>1. CASE mailbox'[x] = mailbox[x]
        BY <1>1, <2>8, <2>9, <4>1, KeepMail DEF ChannelSound
      <4>2. CASE mailbox'[x] = Append(mailbox[x], s)
        <5>1. MailSound(x) /\ mailbox[x] \in Seq(AnyState) /\ taken[x] \in Nat
          BY <2>5 DEF ChannelSound
        <5>2. /\ Len(mailbox'[x]) = Len(mailbox[x]) + 1 /\ Len(mailbox[x]) \in Nat
              /\ \A n \in 1..Len(mailbox'[x]) :
                    (n \in 1..Len(mailbox[x]) /\ mailbox'[x][n] = mailbox[x][n]) \/ mailbox'[x][n] = s
          BY <2>3, <4>2, <5>1
        <5>3. taken[x] <= Len(mailbox'[x])
          BY <5>1, <5>2 DEF MailSound
        <5>4. \A n \in 1..Len(mailbox'[x]) : mailbox'[x][n] \in SentStates
          BY <2>3, <5>1, <5>2 DEF MailSound
        <5> QED BY <1>1, <5>3, <5>4 DEF MailSound, SentStates
      <4> QED BY <2>7, <4>1, <4>2
    <3> QED BY <3>1, <3>2, <3>3
  <2> QED BY <2>8, <2>9, <2>10, <2>11 DEF ChannelSound
<1> QED BY <1>2, <1>3

----------------------------------------------------------------------------
(* Revocations, and the channel as a whole.                                 *)

LEMMA RestrictedTwice ==
    ASSUME NEW m, NEW S, NEW T
    PROVE  Restricted(Restricted(m, S), T) = Restricted(m, S \cup T)
<1>1. DOMAIN Restricted(m, S) = DOMAIN m \ S /\ \A e \in DOMAIN m \ S : Restricted(m, S)[e] = m[e]
  BY DEF Restricted
<1>2. Restricted(Restricted(m, S), T) = [e \in (DOMAIN m \ S) \ T |-> Restricted(m, S)[e]]
  BY <1>1 DEF Restricted
<1>3. (DOMAIN m \ S) \ T = DOMAIN m \ (S \cup T)
  OBVIOUS
<1> QED BY <1>1, <1>2, <1>3 DEF Restricted

LEMMA RevokeInv ==
    ASSUME ChannelSound, NEW x \in Devices, Revoke(x)
    PROVE  ChannelSound'
<1>1. /\ x \in Revocable \cap enrollment(auth) /\ Cardinality(auth.revoked) < MaxRevoked
      /\ auth' = revoke(auth, x) /\ cutoff' = [cutoff EXCEPT ![x] = Len(stream)]
      /\ UNCHANGED <<claims, broker, device, known, outbox, op, made, interrupts>>
  BY DEF Revoke
<1>2. UNCHANGED <<stream, mailbox, taken, granted, group, done>>
  BY <1>1 DEF broker, device
<1>3. PolicyRow /\ PolicyIsAGroup /\ ChannelTyped
  BY DEF ChannelSound
<1>4. /\ PolicyRow' /\ auth'.revoked = auth.revoked \cup {x}
      /\ auth'.policy.epoch = auth.policy.epoch
      /\ auth'.policy.members = Restricted(auth.policy.members, {x})
  BY <1>1, <1>3, RevokeChannel
<1>5. PolicyIsAGroup'
  <2>1. PICK s \in {m.state : m \in made} :
           auth.policy.epoch = s.epoch /\ auth.policy.members = Restricted(s.members, auth.revoked)
    BY <1>3 DEF PolicyIsAGroup
  <2>2. auth'.policy.members = Restricted(s.members, auth'.revoked)
    BY <1>4, <2>1, RestrictedTwice
  <2> QED BY <1>1, <1>4, <2>1, <2>2 DEF PolicyIsAGroup
<1>6. Len(stream) \in Nat /\ cutoff \in [Devices -> Nat]
  BY <1>3, StreamTyped DEF ChannelTyped
<1>7. ChannelTyped'
  <2>1. cutoff' \in [Devices -> Nat]
    BY <1>1, <1>6
  <2> QED BY <1>1, <1>2, <1>3, <2>1 DEF ChannelTyped
<1>8. ChannelGrows
  <2>1. auth.policy.epoch <= auth'.policy.epoch /\ Len(stream) <= Len(stream')
    BY <1>2, <1>3, <1>4, <1>6, EpochIsNat
  <2> QED BY <1>1, <1>2, <1>4, <2>1 DEF ChannelGrows
<1>9. MadeSound' /\ StreamSound'
  BY <1>1, <1>2, <1>4, <1>7, <1>8, KeepMade, KeepStream DEF ChannelSound
<1>10. ASSUME NEW y \in Devices
       PROVE  MailSound(y)' /\ PlaceSound(y)' /\ GroupSound(y)' /\ BoxSound(y)' /\ OpSound(y)'
  <2>1. MailSound(y)' /\ GroupSound(y)' /\ BoxSound(y)' /\ OpSound(y)'
    BY <1>1, <1>2, <1>4, <1>7, <1>8, KeepMail, KeepGroup, KeepBox, KeepOp DEF ChannelSound
  <2>2. PlaceSound(y)'
    <3>1. cutoff'[y] = cutoff[y] \/ cutoff'[y] = Len(stream)
      BY <1>1, <1>6
    <3>2. Len(stream) <= Len(stream)
      BY <1>6
    <3> QED BY <1>1, <1>2, <1>4, <3>1, <3>2 DEF ChannelSound, PlaceSound
  <2> QED BY <2>1, <2>2
<1> QED BY <1>4, <1>5, <1>7, <1>9, <1>10 DEF ChannelSound

LEMMA ApplyInstalls ==
    ASSUME NEW r \in Registry, NEW u \in Update, ~Repeated(r.policy, u)
    PROVE  apply_policy(r, u).policy = [generation |-> u.expected + 1, epoch |-> u.epoch,
                                        coordinator |-> u.signer, members |-> u.members, last |-> u]
<1> DEFINE q == apply_policy(r, u)
           p == [generation |-> u.expected + 1, epoch |-> u.epoch, coordinator |-> u.signer,
                 members |-> u.members, last |-> u]
<1>1. \E generation : q = [r EXCEPT !.policy = p, !.generation = generation]
  BY Zenon DEF apply_policy
<1> HIDE DEF p, q
<1>2. q.policy = p
  BY <1>1 DEF Registry
<1> QED BY <1>2 DEF p, q

LEMMA PairIsState ==
    /\ First \in AnyState /\ First.epoch = 0 /\ First.members = [d \in {Creator} |-> 0]
    /\ Pair \in AnyState /\ Pair.epoch = 1 /\ Distinct(First.members) /\ Distinct(Pair.members)
    /\ DOMAIN Pair.members = {Creator, Partner}
<1>1. Creator \in Devices /\ Partner \in Devices /\ Partner # Creator /\ 0 \in Leaves
  BY ChannelAssumption, LeavesAssumption
<1>2. First.members = [d \in {Creator} |-> 0] /\ First.epoch = 0
  BY DEF First, State
<1>3. First.members \in Membership /\ Distinct(First.members) /\ DOMAIN First.members = {Creator}
  <2>1. First.members \in [{Creator} -> Leaves]
    BY <1>1, <1>2
  <2> QED BY <1>1, <1>2, <2>1 DEF Membership, Distinct
<1>4. /\ MoreLeaves(First.members, Partner) \in Membership
      /\ Distinct(MoreLeaves(First.members, Partner))
  BY <1>1, <1>3, MoreLeavesIsMembership
<1>5. DOMAIN MoreLeaves(First.members, Partner) = {Creator, Partner}
  BY <1>3 DEF MoreLeaves
<1>6. First \in AnyState
  BY <1>2, <1>3 DEF First, State, AnyState
<1>7. /\ Pair \in AnyState /\ Pair.epoch = 1 /\ Pair.members = MoreLeaves(First.members, Partner)
  BY <1>4 DEF Pair, State, AnyState
<1> QED BY <1>2, <1>3, <1>4, <1>5, <1>6, <1>7

LEMMA FoundedSound ==
    /\ Founded \in Registry /\ Sound(Founded)
    /\ Founded.rows = Devices /\ Founded.ready = Devices /\ Founded.revoked = {}
    /\ Founded.used = [t \in Tokens |-> NoOne]
    /\ Founded.policy.generation = 2 /\ Founded.policy.epoch = 1
    /\ Founded.policy.members = Pair.members /\ Founded.policy.last.epoch = 1
<1> DEFINE created == [expected |-> 0, epoch |-> 0, signer |-> Creator, members |-> First.members]
           invited == [expected |-> 1, epoch |-> 1, signer |-> Creator, members |-> Pair.members]
           e == [EmptyRegistry EXCEPT !.rows = Devices, !.ready = Devices]
           r == apply_policy(e, created)
           q == apply_policy(r, invited)
<1>0. Founded = q
  BY DEF Founded
<1>1. /\ First \in AnyState /\ Pair \in AnyState /\ First.members = [d \in {Creator} |-> 0]
      /\ First.members \in Membership /\ Pair.members \in Membership
      /\ Distinct(First.members) /\ Distinct(Pair.members)
      /\ DOMAIN First.members = {Creator} /\ DOMAIN Pair.members = {Creator, Partner}
      /\ Creator \in Devices /\ Partner \in Devices
  BY PairIsState, ChannelAssumption DEF AnyState
<1>2. /\ e \in Registry /\ Sound(e) /\ e.rows = Devices /\ e.ready = Devices /\ e.revoked = {}
      /\ e.used = [t \in Tokens |-> NoOne] /\ e.policy.generation = 0
  <2>1. NoMembers \in Membership /\ DOMAIN NoMembers = {}
    BY NoStateIsState DEF AnyState
  <2>2. EmptyRegistry.policy \in Policy
    BY <2>1 DEF EmptyRegistry, Policy
  <2>3. /\ EmptyRegistry.rows = {} /\ EmptyRegistry.ready = {} /\ EmptyRegistry.revoked = {}
        /\ EmptyRegistry.used = [t \in Tokens |-> NoOne]
        /\ EmptyRegistry.policy.members = NoMembers /\ EmptyRegistry.policy.coordinator = NoOne
        /\ EmptyRegistry.policy.generation = 0
    BY DEF EmptyRegistry
  <2>4. EmptyRegistry \in Registry
    <3>1. [d \in Devices |-> 0] \in [Devices -> Nat]
      OBVIOUS
    <3>2. [t \in Tokens |-> NoOne] \in [Tokens -> Devices \cup {NoOne}]
      OBVIOUS
    <3> QED BY <2>2, <3>1, <3>2 DEF EmptyRegistry, Registry
  <2>5. /\ e \in Registry /\ e.rows = Devices /\ e.ready = Devices
        /\ e.revoked = EmptyRegistry.revoked /\ e.used = EmptyRegistry.used
        /\ e.policy = EmptyRegistry.policy
    BY <2>4 DEF Registry
  <2> HIDE DEF e
  <2>6. Sound(e)
    BY <2>1, <2>3, <2>5 DEF Sound, Distinct
  <2> QED BY <2>3, <2>5, <2>6
<1>3. created \in Update /\ invited \in Update
  BY <1>1 DEF Update
<1>4. /\ created.expected = 0 /\ created.epoch = 0 /\ created.signer = Creator
      /\ created.members = First.members
      /\ invited.expected = 1 /\ invited.epoch = 1 /\ invited.signer = Creator
      /\ invited.members = Pair.members
  OBVIOUS
<1> HIDE DEF e, r, created, invited, q
<1>5. may_apply(e, created) /\ ~Repeated(e.policy, created)
  BY <1>1, <1>2, <1>4 DEF may_apply, may_change, authorize, Repeated
<1>6. /\ r \in Registry /\ Sound(r) /\ r.rows = Devices /\ r.ready = Devices /\ r.revoked = {}
      /\ r.used = [t \in Tokens |-> NoOne]
  BY <1>2, <1>3, <1>5, ApplySound DEF r
<1>7. r.policy.generation = 1 /\ r.policy.epoch = 0 /\ r.policy.coordinator = Creator
  <2>1. r.policy = [generation |-> created.expected + 1, epoch |-> created.epoch,
                    coordinator |-> created.signer, members |-> created.members, last |-> created]
    BY <1>2, <1>3, <1>5, ApplyInstalls DEF r
  <2> QED BY <1>4, <2>1
<1>8. may_apply(r, invited) /\ ~Repeated(r.policy, invited)
  BY <1>1, <1>4, <1>6, <1>7 DEF may_apply, may_change, authorize, Repeated
<1>9. /\ q \in Registry /\ Sound(q) /\ q.rows = Devices /\ q.ready = Devices /\ q.revoked = {}
      /\ q.used = [t \in Tokens |-> NoOne]
  BY <1>3, <1>6, <1>8, ApplySound DEF q
<1>10. /\ q.policy.generation = 2 /\ q.policy.epoch = 1 /\ q.policy.members = Pair.members
       /\ q.policy.last = invited
  <2>1. q.policy = [generation |-> invited.expected + 1, epoch |-> invited.epoch,
                    coordinator |-> invited.signer, members |-> invited.members, last |-> invited]
    BY <1>3, <1>6, <1>8, ApplyInstalls DEF q
  <2> QED BY <1>4, <2>1
<1> QED BY <1>0, <1>4, <1>9, <1>10

LEMMA ChannelInitSound == ChannelInit => ChannelSound
<1> SUFFICES ASSUME ChannelInit PROVE ChannelSound
  OBVIOUS
<1>1. /\ First \in AnyState /\ Pair \in AnyState /\ Pair.epoch = 1 /\ Distinct(Pair.members)
      /\ Pair.members \in Membership
      /\ Creator \in Devices /\ Partner \in Devices /\ NoState \in AnyState /\ NoOne \notin Devices
      /\ Creator # Partner /\ DOMAIN Pair.members = {Creator, Partner}
  BY PairIsState, NoStateIsState, ChannelAssumption, KeysAssumption DEF AnyState
<1> DEFINE c == commitRow(First, Pair)
           e == [from |-> Creator, row |-> c]
           m == [from |-> Creator, parent |-> First, state |-> Pair, whom |-> Partner]
<1>2. /\ c \in AnyRow /\ c.state = Pair /\ e \in AnyEntry /\ e.row = c /\ m.state = Pair
      /\ m \in [from : Devices, parent : AnyState, state : AnyState, whom : Devices \cup {NoOne}]
      /\ m.whom = Partner
  BY <1>1 DEF commitRow, AnyRow, AnyEntry
<1>3. stream = <<e>> /\ made = {m} /\ auth = Founded
  BY DEF ChannelInit
<1> HIDE DEF c, e, m
<1>4. stream \in Seq(AnyEntry) /\ Len(stream) = 1 /\ stream[1] = e
  BY <1>2, <1>3
<1>5. MadeStates = {Pair} /\ SentStates = {Pair}
  <2>1. MadeStates = {Pair}
    BY <1>2, <1>3 DEF MadeStates
  <2>2. 1..Len(stream) = {1}
    BY <1>4
  <2>3. SentStates = {Pair}
    BY <1>2, <1>4, <2>2 DEF SentStates
  <2> QED BY <2>1, <2>3
<1>6. PolicyRow
  <2>1. IsFiniteSet(auth.revoked) /\ Cardinality(auth.revoked) = 0
    BY <1>3, FoundedSound, FS_EmptySet
  <2>2. MaxRevoked \in Nat
    BY ChannelAssumption
  <2> QED BY <1>3, <2>1, <2>2, FoundedSound DEF PolicyRow
<1>7. PolicyIsAGroup
  <2>1. Restricted(Pair.members, {}) = Pair.members
    BY <1>1, RestrictedIsMembership
  <2>2. Pair \in {n.state : n \in made}
    BY <1>2, <1>3
  <2> QED BY <1>1, <1>3, <2>1, <2>2, FoundedSound DEF PolicyIsAGroup
<1>8. ChannelTyped
  <2>1. mailbox \in [Devices -> Seq(AnyState)] /\ taken \in [Devices -> Nat]
    <3>1. <<Pair>> \in Seq(AnyState) /\ <<>> \in Seq(AnyState)
      BY <1>1
    <3>2. mailbox \in [Devices -> Seq(AnyState)] /\ taken = [d \in Devices |-> Len(mailbox[d])]
      BY <3>1 DEF ChannelInit
    <3>3. \A d \in Devices : Len(mailbox[d]) \in Nat
      BY <3>2
    <3> QED BY <3>2, <3>3
  <2>2. group \in [Devices -> AnyGroup] /\ done \in [Devices -> Nat]
    <3>1. [state |-> Pair, pin |-> Creator] \in AnyGroup /\ NoGroup \in AnyGroup
      BY <1>1 DEF AnyGroup, NoGroup
    <3> QED BY <3>1 DEF ChannelInit, InPair
  <2>3. outbox \in [Devices -> Seq(AnyRow)]
    <3>1. <<>> \in Seq(AnyRow)
      OBVIOUS
    <3> QED BY <3>1 DEF ChannelInit
  <2>4. op \in [Devices -> AnyOp]
    BY OpsTyped DEF ChannelInit
  <2>5. interrupts \in 0..MaxInterrupts
    <3>1. interrupts = 0 /\ MaxInterrupts \in Nat
      BY ChannelAssumption DEF ChannelInit
    <3> QED BY <3>1
  <2>6. made \subseteq [from : Devices, parent : AnyState, state : AnyState, whom : Devices \cup {NoOne}]
    BY <1>2, <1>3
  <2>7. /\ claims \in [Devices -> {"", "this", "other"}] /\ cutoff \in [Devices -> Nat]
        /\ granted \subseteq Devices /\ known \in [Devices -> SUBSET Devices]
    BY <1>1 DEF ChannelInit
  <2> QED BY <1>4, <2>1, <2>2, <2>3, <2>4, <2>5, <2>6, <2>7 DEF ChannelTyped
<1>9. MadeSound
  <2>1. claims[Partner] = "this"
    BY <1>1 DEF ChannelInit
  <2>2. Numbered(Pair)
    <3>1. auth.revoked \ DOMAIN Pair.members = {}
      BY <1>3, FoundedSound
    <3>2. Cardinality(auth.revoked \ DOMAIN Pair.members) = 0
      BY <3>1, FS_EmptySet
    <3> QED BY <1>1, <3>2, ChannelAssumption DEF Numbered
  <2> QED BY <1>1, <1>2, <1>3, <2>1, <2>2 DEF MadeSound
<1>10. StreamSound
  <2>1. auth.policy.epoch = 1
    BY <1>3, FoundedSound
  <2>2. \A n \in 1..Len(stream) : stream[n] = e
    BY <1>4
  <2> QED BY <1>1, <1>2, <1>5, <2>1, <2>2 DEF StreamSound
<1>11. ASSUME NEW d \in Devices
       PROVE  MailSound(d) /\ PlaceSound(d) /\ GroupSound(d) /\ BoxSound(d) /\ OpSound(d)
  <2>1. MailSound(d)
    <3>1. mailbox[d] \in {<<Pair>>, <<>>} /\ taken[d] = Len(mailbox[d])
      BY DEF ChannelInit
    <3>2. CASE mailbox[d] = <<Pair>>
      BY <1>5, <3>1, <3>2 DEF MailSound
    <3>3. CASE mailbox[d] = <<>>
      BY <3>1, <3>3 DEF MailSound
    <3> QED BY <3>1, <3>2, <3>3
  <2>2. PlaceSound(d)
    <3>1. done[d] \in {0, 1} /\ cutoff[d] = 0 /\ known[d] = {}
      BY DEF ChannelInit, InPair
    <3> QED BY <1>4, <3>1 DEF PlaceSound
  <2>3. GroupSound(d)
    <3>1. group[d] = [state |-> Pair, pin |-> Creator] \/ group[d] = NoGroup
      BY DEF ChannelInit, InPair
    <3> QED BY <1>5, <3>1 DEF GroupSound, NoGroup
  <2>4. BoxSound(d)
    <3>1. outbox[d] = <<>>
      BY DEF ChannelInit
    <3>2. Len(<<>>) = 0
      OBVIOUS
    <3>3. Len(outbox[d]) = 0
      BY <3>1, <3>2, Zenon
    <3>4. 1..Len(outbox[d]) = {}
      BY <3>3
    <3> QED BY <3>4 DEF BoxSound, RowsSound
  <2>5. OpSound(d)
    BY OpsTyped DEF ChannelInit, OpSound
  <2> QED BY <2>1, <2>2, <2>3, <2>4, <2>5
<1> QED BY <1>6, <1>7, <1>8, <1>9, <1>10, <1>11 DEF ChannelSound

LEMMA ChannelStepSound == ChannelSound /\ [ChannelNext]_channelVars => ChannelSound'
<1> SUFFICES ASSUME ChannelSound, [ChannelNext]_channelVars PROVE ChannelSound'
  OBVIOUS
<1>1. CASE UNCHANGED channelVars
  <2>1. UNCHANGED <<auth, claims, cutoff, stream, mailbox, taken, granted, group, done, known, outbox,
                    op, made, interrupts>>
    BY <1>1 DEF channelVars, service, broker, device
  <2>2. ChannelTyped' /\ PolicyRow' /\ PolicyIsAGroup' /\ ChannelGrows
    <3>1. ChannelTyped'
      BY <2>1 DEF ChannelSound, ChannelTyped
    <3> QED BY <2>1, <3>1, SameRegistry, StillGrows DEF ChannelSound
  <2>3. MadeSound' /\ StreamSound'
    BY <2>1, <2>2, KeepMade, KeepStream DEF ChannelSound
  <2>4. ASSUME NEW y \in Devices
        PROVE  MailSound(y)' /\ PlaceSound(y)' /\ GroupSound(y)' /\ BoxSound(y)' /\ OpSound(y)'
    BY <2>1, <2>2, KeepDevice
  <2> QED BY <2>2, <2>3, <2>4 DEF ChannelSound
<1>2. ASSUME NEW d \in Devices, Client(d) PROVE ChannelSound'
  BY <1>2, AuditInv, PolicyQueryInv, GroupPolicyInv, PublishInv, RelayInv, SyncInv, InvitationInv
     DEF Client
<1>3. ASSUME NEW d \in Devices,
             accept_welcome(d) \/ Interrupted(d) \/ Readmit(d) \/ OtherClaims(d) \/ Revoke(d)
      PROVE  ChannelSound'
  BY <1>3, WelcomeInv, InterruptedInv, ReadmitInv, OtherClaimsInv, RevokeInv
<1>4. ASSUME NEW d \in Devices, NEW x \in Devices, ClaimKeyPackage(d, x) \/ remove_member(d, x)
      PROVE  ChannelSound'
  BY <1>4, ClaimInv, RemoveInv
<1> QED BY <1>1, <1>2, <1>3, <1>4 DEF ChannelNext

LEMMA SoundIsPolicySound == ChannelSound => PolicyIsSound
<1> SUFFICES ASSUME ChannelSound PROVE PolicyIsSound
  OBVIOUS
<1>0. ChannelTyped /\ PolicyRow /\ MadeSound /\ StreamSound /\ PolicyIsAGroup
  BY DEF ChannelSound
<1>1. ASSUME NEW s \in MadeStates \cup {NoState} PROVE s \in States /\ Distinct(s.members)
  <2>1. s \in AnyState /\ Distinct(s.members) /\ Numbered(s)
    BY SoundStates
  <2> DEFINE T == auth.revoked \ DOMAIN s.members
  <2>2. T \subseteq auth.revoked /\ IsFiniteSet(auth.revoked) /\ Cardinality(auth.revoked) <= MaxRevoked
    BY <1>0 DEF PolicyRow
  <2>3. s.epoch <= MaxChannelEpoch + Cardinality(T)
    BY <2>1 DEF Numbered
  <2> HIDE DEF T
  <2>4. IsFiniteSet(T) /\ Cardinality(T) <= Cardinality(auth.revoked)
    BY <2>2, FS_Subset
  <2>5. Cardinality(T) \in Nat /\ Cardinality(auth.revoked) \in Nat
    BY <2>2, <2>4, FS_CardinalityType
  <2>6. s.epoch \in 0..(MaxChannelEpoch + MaxRevoked)
    BY <2>1, <2>2, <2>3, <2>4, <2>5, ChannelAssumption DEF AnyState
  <2> QED BY <2>1, <2>6 DEF States, AnyState
<1>2. ASSUME NEW d \in Devices
      PROVE  /\ group[d].state \in States /\ group[d].pin \in Devices \cup {NoOne}
             /\ Distinct(group[d].state.members)
             /\ done[d] \in 0..Len(stream) /\ taken[d] \in 0..Len(mailbox[d])
             /\ cutoff[d] \in 0..Len(stream) /\ known[d] \subseteq auth.revoked
             /\ \A n \in 1..Len(outbox[d]) : outbox[d][n].state \in States
  <2>1. MailSound(d) /\ PlaceSound(d) /\ GroupSound(d) /\ BoxSound(d)
    BY DEF ChannelSound
  <2>2. /\ group[d] \in AnyGroup /\ done[d] \in Nat /\ taken[d] \in Nat /\ cutoff[d] \in Nat
        /\ mailbox[d] \in Seq(AnyState) /\ Len(stream) \in Nat
    BY <1>0, StreamTyped DEF ChannelTyped
  <2>3. Len(mailbox[d]) \in Nat
    BY <2>2
  <2>4. /\ done[d] \in 0..Len(stream) /\ taken[d] \in 0..Len(mailbox[d])
        /\ cutoff[d] \in 0..Len(stream) /\ known[d] \subseteq auth.revoked
    BY <2>1, <2>2, <2>3 DEF MailSound, PlaceSound
  <2>5. group[d].state \in States /\ Distinct(group[d].state.members)
    BY <1>1, <2>1 DEF GroupSound
  <2>6. group[d].pin \in Devices \cup {NoOne}
    BY <2>2 DEF AnyGroup
  <2>7. \A n \in 1..Len(outbox[d]) : outbox[d][n].state \in States
    BY <1>1, <2>1 DEF BoxSound, RowsSound, RowSound
  <2> QED BY <2>4, <2>5, <2>6, <2>7
<1>3. auth \in [rows : {Devices}, ready : {Devices}, revoked : SUBSET Revocable,
                generation : [Devices -> Nat], used : {[t \in Tokens |-> NoOne]}, policy : Policy]
  BY <1>0 DEF PolicyRow, Registry
<1>4. ChannelTypeOK
  BY <1>0, <1>2, <1>3 DEF ChannelTypeOK, ChannelTyped, PolicyRow
<1>5. PolicyBeforeCommit
  BY <1>0 DEF StreamSound, PolicyBeforeCommit
<1>6. WelcomeAfterCommit
  BY DEF ChannelSound, MailSound, SentStates, WelcomeAfterCommit
<1>7. AddsAreClaimed
  BY <1>0 DEF MadeSound, AddsAreClaimed
<1> QED BY <1>0, <1>4, <1>5, <1>6, <1>7 DEF PolicyIsSound

(***************************************************************************)
(* Policy, Commit and Welcome of a membership change take effect in this     *)
(* order and name one MLS state, for any devices, leaves, epochs, revocations *)
(* and interruptions.                                                        *)
(***************************************************************************)
THEOREM ChannelFollowsPolicy == ChannelSpec => []PolicyIsSound
BY ChannelInitSound, ChannelStepSound, SoundIsPolicySound, PTL DEF ChannelSpec

LEMMA NextKeepsRights ==
    ASSUME ChannelSound, [ChannelNext]_channelVars
    PROVE  /\ auth.policy.epoch <= auth'.policy.epoch
           /\ \/ DOMAIN auth'.policy.members \subseteq DOMAIN auth.policy.members
              \/ auth.policy.epoch < auth'.policy.epoch
<1> DEFINE Kept == /\ auth.policy.epoch <= auth'.policy.epoch
                   /\ \/ DOMAIN auth'.policy.members \subseteq DOMAIN auth.policy.members
                      \/ auth.policy.epoch < auth'.policy.epoch
<1>0. PolicyRow /\ auth.policy.epoch <= auth.policy.epoch
  BY EpochIsNat DEF ChannelSound
<1>1. auth' = auth => Kept
  BY <1>0
<1>2. ASSUME NEW d \in Devices, GroupPolicy(d) PROVE Kept
  <2>1. CASE Refused(d)
    BY <1>1, <1>2, <2>1 DEF GroupPolicy
  <2>2. CASE ~Refused(d)
    <3>1. op[d].at = "asked" /\ auth' = Applied(d) /\ made' = made
      BY <1>2, <2>2 DEF GroupPolicy
    <3>2. /\ auth.policy.epoch <= auth'.policy.epoch
          /\ auth'.policy = auth.policy \/ auth.policy.epoch < auth'.policy.epoch
      BY <2>2, <3>1, UpdatedPolicy
    <3> QED BY <3>2
  <2> QED BY <2>1, <2>2
<1>3. ASSUME NEW x \in Devices, Revoke(x) PROVE Kept
  <2>1. /\ auth'.policy.epoch = auth.policy.epoch
        /\ auth'.policy.members = Restricted(auth.policy.members, {x})
    BY <1>0, <1>3, RevokeChannel DEF Revoke
  <2>2. DOMAIN auth'.policy.members \subseteq DOMAIN auth.policy.members
    BY <2>1 DEF Restricted
  <2> QED BY <1>0, <2>1, <2>2
<1>4. CASE \/ UNCHANGED channelVars
           \/ \E d \in Devices :
                 \/ Audit(d) \/ PolicyQuery(d) \/ PublishCommit(d) \/ RelayWelcome(d) \/ Sync(d)
                 \/ prepare_invitation(d) \/ accept_welcome(d) \/ Interrupted(d) \/ Readmit(d)
                 \/ OtherClaims(d)
           \/ \E d, x \in Devices : ClaimKeyPackage(d, x) \/ remove_member(d, x)
  <2>1. auth' = auth
    BY <1>4 DEF channelVars, service, Audit, PolicyQuery, PublishCommit, RelayWelcome, Sync,
                prepare_invitation, accept_welcome, Interrupted, Readmit, OtherClaims,
                ClaimKeyPackage, remove_member
  <2> QED BY <1>1, <2>1
<1> QED BY <1>2, <1>3, <1>4 DEF ChannelNext, Client

(***************************************************************************)
(* A device that left the policy comes back only with a newer epoch, and no  *)
(* policy is older than the one before it.                                   *)
(***************************************************************************)
THEOREM RightsAreNotRevived == ChannelSpec => NoRevival
<1>1. ChannelSound /\ [ChannelNext]_channelVars =>
         [LET old == auth.policy
              new == auth'.policy
          IN  /\ old.epoch <= new.epoch
              /\ DOMAIN new.members \subseteq DOMAIN old.members \/ old.epoch < new.epoch
                 \/ old.generation = 0]_auth
  BY NextKeepsRights
<1> QED BY <1>1, ChannelInitSound, ChannelStepSound, PTL DEF ChannelSpec, NoRevival

=============================================================================
