----------------------------- MODULE Authority ------------------------------
(***************************************************************************)
(* The dynamic identity service: one process that keeps the registry, the   *)
(* signed logs and the broker's consumers in step, and that answers the      *)
(* broker's authorization callouts for connecting devices.                   *)
(*                                                                          *)
(* The process has two tasks.  The serving loop takes one request at a time; *)
(* a request that may change anything closes the admission gate first, and   *)
(* the gate opens again once registry, logs and consumers agree - at the end *)
(* of the request or by a repair.  The callout task reads the gate, then the *)
(* registry, and issues leases; nothing but the gate orders it against the    *)
(* loop.  The logs' compare-and-swap protocol is module Journal's; here an    *)
(* append is one step, or a write still under way when its request is given   *)
(* up.                                                                       *)
(***************************************************************************)
EXTENDS AuthRegistry

CONSTANTS
    Operator,       \* the service's own key, which may sign revocations
    MaxEpoch,       \* bound on the MLS epochs that policies name
    MaxLeases,      \* bound on the leases that are valid at a time
    MaxFaults,      \* bound on failed steps, timeouts and crashes
    LateWrites,     \* whether a write may reach the log after its request is given up
    PackagesExpire  \* whether a KeyPackage's lifetime may end

ASSUME OperatorAssumption == Operator \notin Devices
ASSUME BoundsAssumption ==
    /\ MaxEpoch \in Nat /\ MaxLeases \in Nat /\ MaxFaults \in Nat
    /\ LateWrites \in BOOLEAN /\ PackagesExpire \in BOOLEAN

VARIABLES
    registry,    \* auth.sqlite
    logged,      \* devices whose registration the signed log holds
    revoked,     \* devices the signed revocation log names
    underway,    \* revocations sent to the log and given up, not yet handled by the broker
    late,        \* those the broker performed after all, until a closed gate makes the loop
                 \* read the log again
    consumers,   \* the broker's CHAT consumers (what they filter) and MAILBOX consumers
    gate,        \* devices may be admitted
    svc,         \* the serving loop
    callout,     \* the callout task
    leases,      \* claims issued to connections and not expired
    live,        \* tokens that have been issued and not expired
    expired,     \* devices whose KeyPackage has expired
    acked,       \* devices whose enrollment, whose revocation was answered with success
    faults

store == <<registry, logged, revoked, underway, late, consumers>>
clients == <<leases, live, expired>>
vars == <<registry, logged, revoked, underway, late, consumers, gate, svc, callout, leases, live,
          expired, acked, faults>>

----------------------------------------------------------------------------
(* The tasks' program points.                                              *)

Requests == {"enroll", "register", "policy", "revoke", "query"}
Mutating(kind) == kind # "query"

\* at: the next step; why: what the loop is doing; kind: the request it serves;
\* done: its effect is in place; target: the device it is about; seen: the
\* registrations it read; todo: the devices the present loop has left.
LoopState ==
    [at : {"down", "idle", "read", "deny", "effect", "publish", "activate", "provision",
           "reconcile"},
     why : {"startup", "request", "repair"}, kind : Requests \cup {"none"}, done : BOOLEAN,
     target : Devices \cup {NoOne}, seen : SUBSET Devices, todo : SUBSET Devices]
Loop(at, why, kind) == [at |-> at, why |-> why, kind |-> kind, done |-> FALSE,
                        target |-> NoOne, seen |-> {}, todo |-> {}]
Down == Loop("down", "startup", "none")
Waiting == Loop("idle", "request", "none")

NoCallout == [at |-> "idle", device |-> NoOne, token |-> NoOne, open |-> FALSE, generation |-> 0]

\* What a device's CHAT consumer filters: the group's subjects, or the reserved
\* subject no group has.
Filter(r, d) == IF d \in DOMAIN r.policy.members THEN "group" ELSE "nothing"

Init ==
    /\ registry = EmptyRegistry
    /\ logged = {} /\ revoked = {} /\ underway = {} /\ late = {}
    /\ consumers = [chat |-> [d \in Devices |-> "none"], mailbox |-> {}]
    /\ gate = FALSE
    /\ svc = Down
    /\ callout = NoCallout
    /\ leases = {} /\ live = {} /\ expired = {}
    /\ acked = [enrolled |-> {}, revoked |-> {}]
    /\ faults = 0

\* An error ends the startup with the process; it ends a request that closed the
\* gate with a repair, and a repair until the next tick.
AfterError(s) ==
    IF s.why = "startup" THEN Down
    ELSE IF s.why = "request" /\ ~gate THEN Loop("read", "repair", "none")
    ELSE Waiting

Fails ==
    /\ svc' = AfterError(svc)
    /\ callout' = IF svc.why = "startup" THEN NoCallout ELSE callout
    /\ gate' = gate
    /\ UNCHANGED acked

Goes(s) == svc' = s /\ UNCHANGED <<gate, callout, acked>>

----------------------------------------------------------------------------
(* The serving loop.                                                       *)

Start ==
    /\ svc.at = "down"
    /\ Goes(Loop("read", "startup", "none"))
    /\ UNCHANGED <<store, clients, faults>>

\* Mutant: the gate stays open while a request is served.
ReceiveOpen(kind) ==
    /\ svc.at = "idle"
    /\ Goes(Loop("read", "request", kind))
    /\ UNCHANGED <<store, clients, faults>>

Receive(kind) ==
    /\ svc.at = "idle"
    /\ svc' = Loop("read", "request", kind)
    /\ gate' = (gate /\ ~Mutating(kind))
    /\ UNCHANGED <<callout, acked, store, clients, faults>>

RepairTick ==
    /\ svc.at = "idle" /\ ~gate
    /\ Goes(Loop("read", "repair", "none"))
    /\ UNCHANGED <<store, clients, faults>>

ReadLogs ==
    /\ svc.at = "read"
    /\ Goes([svc EXCEPT !.at = "deny", !.seen = logged, !.todo = revoked])
    /\ late' = IF gate THEN late ELSE {}
    /\ UNCHANGED <<registry, logged, revoked, underway, consumers, clients, faults>>

\* Mutant: revocations found in the log are not applied.
DenyNothing(d) ==
    /\ svc.at = "deny" /\ d \in svc.todo
    /\ Goes([svc EXCEPT !.todo = @ \ {d}])
    /\ UNCHANGED <<store, clients, faults>>

Deny(d) ==
    /\ svc.at = "deny" /\ d \in svc.todo
    /\ registry' = revoke(registry, d)
    /\ Goes([svc EXCEPT !.todo = @ \ {d}])
    /\ UNCHANGED <<logged, revoked, underway, late, consumers, clients, faults>>

DeniedAll ==
    /\ svc.at = "deny" /\ svc.todo = {}
    /\ Goes(CASE svc.why = "request" /\ ~svc.done -> [svc EXCEPT !.at = "effect"]
              [] svc.why = "request" /\ svc.done -> [svc EXCEPT !.at = "provision"]
              [] OTHER -> [svc EXCEPT !.at = "publish", !.todo = enrollment(registry)])
    /\ UNCHANGED <<store, clients, faults>>

\* A read: the answer is sent; a gate an earlier failure left closed is repaired.
Answer ==
    /\ svc.at = "effect" /\ svc.kind = "query"
    /\ Goes(IF gate THEN Waiting ELSE Loop("read", "repair", "none"))
    /\ UNCHANGED <<store, clients, faults>>

EnrollDevice(t, d) ==
    /\ svc.at = "effect" /\ svc.kind = "enroll"
    /\ IF d \notin expired /\ may_enroll(registry, live, t, d)
       THEN /\ registry' = enroll(registry, t, d)
            /\ Goes([svc EXCEPT !.at = "publish", !.done = TRUE, !.target = d, !.todo = {d}])
       ELSE Fails /\ UNCHANGED registry
    /\ UNCHANGED <<logged, revoked, underway, late, consumers, clients, faults>>

RegisterDevice(d) ==
    /\ svc.at = "effect" /\ svc.kind = "register"
    /\ IF authorize(registry, d)
       THEN Goes([svc EXCEPT !.at = "publish", !.done = TRUE, !.target = d, !.todo = {d}])
       ELSE Fails
    /\ UNCHANGED <<store, clients, faults>>

ApplyPolicy(u) ==
    /\ svc.at = "effect" /\ svc.kind = "policy"
    /\ IF may_apply(registry, u)
       THEN /\ registry' = apply_policy(registry, u)
            /\ Goes([svc EXCEPT !.at = "provision", !.done = TRUE, !.target = u.signer])
       ELSE Fails /\ UNCHANGED registry
    /\ UNCHANGED <<logged, revoked, underway, late, consumers, clients, faults>>

\* RevokeRequest::validate: a registered device, revoked by an unrevoked device of
\* its user or by the operator.
MayRevoke(author, d, seen, gone) ==
    /\ d \in seen
    /\ author \notin gone
    /\ author = Operator \/ (author \in seen /\ User[author] = User[d])

\* The revocation is appended, then every key of the log it returns is denied.
RevokeDevice(author, d) ==
    /\ svc.at = "effect" /\ svc.kind = "revoke"
    /\ IF MayRevoke(author, d, svc.seen, revoked)
       THEN /\ revoked' = revoked \cup {d} /\ late' = {}
            /\ Goes([svc EXCEPT !.at = "deny", !.done = TRUE, !.target = d,
                                !.todo = revoked \cup {d}])
       ELSE Fails /\ UNCHANGED <<revoked, late>>
    /\ UNCHANGED <<registry, logged, underway, consumers, clients, faults>>

\* register: an expired KeyPackage is refused, also for a device that is logged.
Publish(d) ==
    /\ svc.at = "publish" /\ d \in svc.todo
    /\ IF d \in expired THEN Fails /\ UNCHANGED logged
       ELSE /\ logged' = logged \cup {d}
            /\ Goes([svc EXCEPT !.at = "activate", !.target = d])
    /\ UNCHANGED <<registry, revoked, underway, late, consumers, clients, faults>>

\* Mutant: a repair publishes interrupted enrollments and no more.
ActivateInRequests ==
    /\ svc.at = "activate"
    /\ registry' = IF svc.kind = "enroll" THEN activate(registry, svc.target) ELSE registry
    /\ Goes([svc EXCEPT !.at = "publish", !.todo = @ \ {svc.target}])
    /\ UNCHANGED <<logged, revoked, underway, late, consumers, clients, faults>>

\* The device may connect from now on; a repeated Register publishes and no more.
Activate ==
    /\ svc.at = "activate"
    /\ registry' = IF svc.kind = "register" THEN registry ELSE activate(registry, svc.target)
    /\ Goes([svc EXCEPT !.at = "publish", !.todo = @ \ {svc.target}])
    /\ UNCHANGED <<logged, revoked, underway, late, consumers, clients, faults>>

PublishedAll ==
    /\ svc.at = "publish" /\ svc.todo = {}
    /\ Goes([svc EXCEPT !.at = "provision"])
    /\ UNCHANGED <<store, clients, faults>>

\* reconcile_consumers: a mailbox for every enrolled device, then every CHAT consumer.
Provision ==
    /\ svc.at = "provision"
    /\ consumers' = [consumers EXCEPT !.mailbox = @ \cup enrollment(registry)]
    /\ Goes([svc EXCEPT !.at = "reconcile", !.todo = historical_enrollment(registry)])
    /\ UNCHANGED <<registry, logged, revoked, underway, late, clients, faults>>

\* Mutant: the consumers of a revoked device are left alone.
ReconcileActive(d) ==
    /\ svc.at = "reconcile" /\ d \in svc.todo
    /\ IF d \in registry.revoked \/ authorize(registry, d)
       THEN /\ consumers' = IF d \in registry.revoked THEN consumers
                            ELSE [consumers EXCEPT !.chat[d] = Filter(registry, d)]
            /\ Goes([svc EXCEPT !.todo = @ \ {d}])
       ELSE Fails /\ UNCHANGED consumers
    /\ UNCHANGED <<registry, logged, revoked, underway, late, clients, faults>>

\* A revoked device has no consumers; any other gets the filter of the policy, and
\* one that is not ready yet fails the whole reconciliation.
Reconcile(d) ==
    /\ svc.at = "reconcile" /\ d \in svc.todo
    /\ IF d \in registry.revoked \/ authorize(registry, d)
       THEN /\ consumers' =
                 IF d \in registry.revoked
                 THEN [chat |-> [consumers.chat EXCEPT ![d] = "none"],
                       mailbox |-> consumers.mailbox \ {d}]
                 ELSE [consumers EXCEPT !.chat[d] = Filter(registry, d)]
            /\ Goes([svc EXCEPT !.todo = @ \ {d}])
       ELSE Fails /\ UNCHANGED consumers
    /\ UNCHANGED <<registry, logged, revoked, underway, late, clients, faults>>

\* The answer is sent once the gate is open again.
AckOf(s) ==
    CASE s.why = "request" /\ s.kind = "enroll" ->
             [acked EXCEPT !.enrolled = @ \cup {s.target}]
      [] s.why = "request" /\ s.kind = "revoke" ->
             [acked EXCEPT !.revoked = @ \cup {s.target}]
      [] OTHER -> acked

\* Registry, logs and consumers agree: devices are admitted, the request is answered.
Open ==
    /\ svc.at = "reconcile" /\ svc.todo = {}
    /\ gate' = TRUE
    /\ svc' = Waiting
    /\ acked' = AckOf(svc)
    /\ UNCHANGED <<callout, store, clients, faults>>

----------------------------------------------------------------------------
(* What goes wrong.                                                        *)

\* A call to the broker fails, or the five seconds of the request are over.
StepFails ==
    /\ svc.at \notin {"down", "idle"}
    /\ faults < MaxFaults
    /\ faults' = faults + 1
    /\ Fails
    /\ UNCHANGED <<store, clients>>

\* The process ends, whatever it was doing; leases stay valid without it.
Crash ==
    /\ svc.at # "down"
    /\ faults < MaxFaults
    /\ faults' = faults + 1
    /\ svc' = Down /\ callout' = NoCallout /\ gate' = FALSE
    /\ UNCHANGED <<store, clients, acked>>

\* The request is given up with its append on the way: the broker decides later.
GivenUp(d) ==
    /\ LateWrites
    /\ svc.at = "effect" /\ svc.kind = "revoke"
    /\ faults < MaxFaults
    /\ faults' = faults + 1
    /\ d \notin revoked
    /\ MayRevoke(Operator, d, svc.seen, revoked)
    /\ underway' = underway \cup {[device |-> d, after |-> Cardinality(revoked)]}
    /\ Fails
    /\ UNCHANGED <<registry, logged, revoked, late, consumers, clients>>

\* The append is performed if no other came before it.
Lands(w) ==
    /\ w \in underway
    /\ underway' = underway \ {w}
    /\ IF Cardinality(revoked) = w.after
       THEN revoked' = revoked \cup {w.device} /\ late' = late \cup {w.device}
       ELSE UNCHANGED <<revoked, late>>
    /\ UNCHANGED <<registry, logged, consumers, gate, svc, callout, clients, acked, faults>>

----------------------------------------------------------------------------
(* The callout task.                                                       *)

\* A device connects, with its key alone or with a token: the gate is read.
Connect(d, t) ==
    /\ svc.at # "down" /\ callout.at = "idle"
    /\ Cardinality(leases) < MaxLeases
    /\ callout' = [NoCallout EXCEPT !.at = "admit", !.device = d, !.token = t, !.open = gate]
    /\ UNCHANGED <<store, gate, svc, clients, acked, faults>>

Lease(d, kind, generation, group) ==
    [device |-> d, kind |-> kind, generation |-> generation, group |-> group]

\* A token admits to the enrollment subject only.
AdmitToken ==
    /\ callout.at = "admit" /\ callout.token # NoOne
    /\ callout' = NoCallout
    /\ leases' = IF callout.open
                    /\ enrollment_admission(registry, live, callout.token, callout.device)
                 THEN leases \cup {Lease(callout.device, "enrollment", 0, FALSE)}
                 ELSE leases
    /\ UNCHANGED <<store, gate, svc, live, expired, acked, faults>>

\* The device's row is read for the generation the claim is named after.
AdmitDevice ==
    /\ callout.at = "admit" /\ callout.token = NoOne
    /\ callout' = IF callout.open /\ authorize(registry, callout.device)
                  THEN [callout EXCEPT !.at = "groups",
                                       !.generation = registry.generation[callout.device]]
                  ELSE NoCallout
    /\ UNCHANGED <<store, gate, svc, clients, acked, faults>>

\* The groups are read, in a transaction of its own, and the claim is issued.
\* authorized_groups reads the row again and then the member rows, one step
\* here: a revocation in between takes the member row too, and the claim's
\* generation is that of the earlier read in either case.
Grant ==
    /\ callout.at = "groups"
    /\ callout' = NoCallout
    /\ leases' = IF authorize(registry, callout.device)
                 THEN leases \cup {Lease(callout.device, "device", callout.generation,
                                         authorized_group(registry, callout.device))}
                 ELSE leases
    /\ UNCHANGED <<store, gate, svc, live, expired, acked, faults>>

----------------------------------------------------------------------------
(* Time, and the operator's invitations.                                   *)

LeaseEnds(l) ==
    /\ leases' = leases \ {l}
    /\ UNCHANGED <<store, gate, svc, callout, live, expired, acked, faults>>

\* invite, in a process of the operator's; a token is issued once.
Invite(t) ==
    /\ t \notin live /\ registry.used[t] = NoOne
    /\ live' = live \cup {t}
    /\ UNCHANGED <<store, gate, svc, callout, leases, expired, acked, faults>>

TokenEnds(t) ==
    /\ t \in live
    /\ live' = live \ {t}
    /\ UNCHANGED <<store, gate, svc, callout, leases, expired, acked, faults>>

PackageEnds(d) ==
    /\ PackagesExpire
    /\ d \in logged \ expired
    /\ expired' = expired \cup {d}
    /\ UNCHANGED <<store, gate, svc, callout, leases, live, acked, faults>>

----------------------------------------------------------------------------

\* What a device may send: any members on any leaves, for the current generation or
\* the one before, as a request that is repeated or was overtaken has it.
PolicyUpdates ==
    {u \in [expected : 0 .. registry.policy.generation, epoch : 0 .. MaxEpoch, signer : Devices,
            members : Membership] :
       u.expected + 1 >= registry.policy.generation}

\* The loop's own steps; what it is asked and what fails is not its choice.
Serves ==
    \/ Start
    \/ RepairTick
    \/ ReadLogs
    \/ \E d \in Devices : Deny(d)
    \/ DeniedAll
    \/ Answer
    \/ \E t \in Tokens, d \in Devices : EnrollDevice(t, d)
    \/ \E d \in Devices : RegisterDevice(d)
    \/ \E u \in PolicyUpdates : ApplyPolicy(u)
    \/ \E author \in Devices \cup {Operator}, d \in Devices : RevokeDevice(author, d)
    \/ \E d \in Devices : Publish(d)
    \/ Activate
    \/ PublishedAll
    \/ Provision
    \/ \E d \in Devices : Reconcile(d)
    \/ Open

Calls == AdmitToken \/ AdmitDevice \/ Grant

Next ==
    \/ Serves
    \/ \E kind \in Requests : Receive(kind)
    \/ StepFails
    \/ Crash
    \/ \E d \in Devices : GivenUp(d)
    \/ \E w \in underway : Lands(w)
    \/ \E d \in Devices, t \in Tokens \cup {NoOne} : Connect(d, t)
    \/ Calls
    \/ \E l \in leases : LeaseEnds(l)
    \/ \E t \in Tokens : Invite(t) \/ TokenEnds(t)
    \/ \E d \in Devices : PackageEnds(d)

Fairness ==
    /\ WF_vars(Serves)
    /\ WF_vars(Calls)
    /\ \A d \in Devices : WF_vars(\E l \in leases : l.device = d /\ LeaseEnds(l))

Spec == Init /\ [][Next]_vars /\ Fairness

----------------------------------------------------------------------------
(* Properties.                                                             *)

\* The variables' types.
TypeOK ==
    /\ registry \in Registry
    /\ logged \subseteq Devices /\ revoked \subseteq Devices /\ late \subseteq revoked
    /\ underway \subseteq [device : Devices, after : Nat]
    /\ consumers \in [chat : [Devices -> {"none", "nothing", "group"}],
                      mailbox : SUBSET Devices]
    /\ gate \in BOOLEAN
    /\ svc \in LoopState
    /\ callout \in [at : {"idle", "admit", "groups"}, device : Devices \cup {NoOne},
                    token : Tokens \cup {NoOne}, open : BOOLEAN, generation : Nat]
    /\ leases \subseteq [device : Devices, kind : {"enrollment", "device"}, generation : Nat,
                         group : BOOLEAN]
    /\ live \subseteq Tokens /\ expired \subseteq Devices
    /\ acked \in [enrolled : SUBSET Devices, revoked : SUBSET Devices]
    /\ faults \in Nat

\* However enrollments, revocations, policies, failures and restarts interleave, the
\* group's members are distinct admitted devices and its coordinator is one of them:
\* revoke's deletions and succession, apply_policy's checks.
RegistrySound == Sound(registry)

\* While the gate is open, the registry denies every device the revocation log names,
\* every other enrolled device is published and ready, and the broker's consumers are
\* those of the policy: auth-callout.md's "admission stays closed until durable
\* lifecycle state and filters are repaired".  The exception is a revocation that the
\* broker performed after its request was given up.
AdmissionAgrees ==
    gate => \A d \in Devices \ late :
        /\ d \in revoked => d \in registry.revoked
        /\ d \in enrollment(registry) => d \in registry.ready \cap logged
        /\ d \in consumers.mailbox <=> d \in enrollment(registry)
        /\ consumers.chat[d] = IF d \in enrollment(registry) THEN Filter(registry, d) ELSE "none"

\* A claim named after a device's present generation carries the rights the policy
\* gives it now, although its parts were read in different transactions.
LeasesNameRights ==
    \A l \in leases :
        (l.kind = "device" /\ l.generation = registry.generation[l.device]) =>
            (authorize(registry, l.device) /\ l.group = authorized_group(registry, l.device))

\* Every device enrolled with a token of its own, whatever was retried, lost or
\* restarted in between.
TokensPayForDevices ==
    /\ registry.rows = {registry.used[t] : t \in Tokens} \ {NoOne}
    /\ \A t, u \in Tokens : registry.used[t] = registry.used[u] /\ t # u
                                => registry.used[t] = NoOne

\* An answered enrollment is in the signed log and an answered revocation in its
\* own, for good; the revoked device has no consumer to read from.
AnswersLast ==
    /\ acked.enrolled \subseteq logged \cap registry.ready
    /\ \A d \in acked.revoked : /\ d \in revoked \cap registry.revoked
                                /\ consumers.chat[d] = "none" /\ d \notin consumers.mailbox

\* A device is admitted only after its registration is published.
AdmittedArePublished == registry.ready \subseteq logged

\* A device is admitted for a token and a published registration of its own, and
\* what it was answered stays true.
EnrollmentIsSound ==
    /\ TypeOK /\ TokensPayForDevices /\ AdmittedArePublished /\ AnswersLast

\* A logged revocation ends the device's access: its leases end and no other is issued.
RevocationsTakeHold ==
    \A d \in Devices : d \in revoked ~> [](\A l \in leases : l.device # d)

\* An enrollment that reached the registry is completed, whatever interrupted it.
EnrollmentsComplete ==
    \A d \in Devices : d \in registry.rows ~> d \in registry.ready \cup registry.revoked

\* Admission comes back, as long as no package of an unfinished enrollment
\* expires: a repair publishes every registration again and fails on one that
\* has expired (the run has PackagesExpire = FALSE).
AdmissionReturns == []<>gate

\* Whatever fails or restarts, the service comes back and finishes what it began.
ServiceRecovers == AdmissionReturns /\ EnrollmentsComplete

=============================================================================
