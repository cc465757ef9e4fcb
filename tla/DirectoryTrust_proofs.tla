----------------------- MODULE DirectoryTrust_proofs ------------------------
(***************************************************************************)
(* Proofs about a client's side of the directory, for any number of         *)
(* installations, endpoints, service keys, restored journals and faults:     *)
(* what a client believes of other devices holds together, and what it holds *)
(* against the service or a device is never lost.                            *)
(***************************************************************************)
EXTENDS DirectoryTrust, TLAPS

(***************************************************************************)
(* The inductive invariant.                                                *)
(***************************************************************************)

\* The journal registers an endpoint once, restored or not.
OneEach == \A i, j \in DOMAIN entries : entries[i].endpoint = entries[j].endpoint => i = j

\* An endpoint has a pin as soon as it is known, and what lookups returned or
\* revocations named agrees with what was stored before.
StoreSound(c) ==
    /\ \A e \in Endpoints : trust[c][e].state = "unknown" <=> trust[c][e].pin = None
    /\ \A r \in found[c] : trust[c][r.endpoint].pin = r.package
    /\ revoked[c] = Targets(accepted[c])
    /\ revoked[c] \subseteq Registered(checkpoint[c])

\* What an audit has established when it is at a step.
Validated == {"pin", "observe", "revocations", "audited"}
Checkpointed == {"revocations", "audited"}

AuditSound(c) ==
    /\ audit[c].at \in Validated => Targets(audit[c].revs) \subseteq Registered(audit[c].seen)
    /\ audit[c].at \in Checkpointed =>
         checkpoint[c] = audit[c].seen /\ audit[c].observed = Len(audit[c].seen)
    /\ \A i \in 1..audit[c].observed :
         LET r == audit[c].seen[i]
         IN  trust[c][r.endpoint].pin = r.package /\ trust[c][r.endpoint].state # "changed"

\* While the journals only grew, everything a client has, or is looking at, is part
\* of them.
HonestAudit(c) == IsPrefix(audit[c].seen, entries) /\ IsPrefix(audit[c].revs, revocations)

HonestStore(c) ==
    /\ IsPrefix(checkpoint[c], entries) /\ IsPrefix(accepted[c], revocations)
    /\ \A e \in Endpoints :
         /\ trust[c][e].state # "changed"
         /\ trust[c][e].state # "unknown" =>
              \E i \in DOMAIN entries : /\ entries[i].endpoint = e
                                        /\ entries[i].package = trust[c][e].pin

Honest(c) == HonestAudit(c) /\ HonestStore(c)

Inv ==
    /\ TypeOK /\ OneEach
    /\ \A c \in Clients : StoreSound(c) /\ AuditSound(c) /\ (restores = 0 => Honest(c))

----------------------------------------------------------------------------
(* Prefixes.                                                               *)

\* A prefix has the first elements of what it is a prefix of.
LEMMA PrefixElements ==
    ASSUME NEW S, NEW s \in Seq(S), NEW t \in Seq(S)
    PROVE  IsPrefix(s, t) <=> Len(s) <= Len(t) /\ \A i \in 1..Len(s) : s[i] = t[i]
<1>1. Len(s) \in Nat /\ Len(t) \in Nat
  OBVIOUS
<1>2. CASE ~(Len(s) <= Len(t))
  BY <1>2 DEF IsPrefix
<1>3. CASE Len(s) <= Len(t)
  <2>1. SubSeq(s, 1, Len(s)) = [i \in 1..Len(s) |-> s[i]]
    BY <1>1
  <2>2. SubSeq(t, 1, Len(s)) = [i \in 1..Len(s) |-> t[i]]
    BY <1>1, <1>3
  <2> QED BY <1>3, <2>1, <2>2 DEF IsPrefix
<1> QED BY <1>2, <1>3

\* Every log is a prefix of itself, and the empty one of all.
LEMMA PrefixReflexive ==
    ASSUME NEW S, NEW s \in Seq(S)
    PROVE  IsPrefix(s, s) /\ IsPrefix(<< >>, s)
<1> DEFINE none == << >>
<1>1. none \in Seq(S) /\ Len(none) = 0 /\ Len(s) \in Nat
  OBVIOUS
<1> HIDE DEF none
<1>2. IsPrefix(s, s)
  BY <1>1 DEF IsPrefix
<1>3. Len(none) <= Len(s) /\ \A i \in 1..Len(none) : none[i] = s[i]
  BY <1>1
<1>4. IsPrefix(none, s)
  BY <1>1, <1>3, PrefixElements
<1> QED BY <1>2, <1>4 DEF none

\* A prefix stays one when its log grows.
LEMMA PrefixAppend ==
    ASSUME NEW S, NEW s \in Seq(S), NEW t \in Seq(S), NEW x \in S, IsPrefix(s, t)
    PROVE  IsPrefix(s, Append(t, x))
<1>1. /\ Append(t, x) \in Seq(S) /\ Len(Append(t, x)) = Len(t) + 1
      /\ Len(s) \in Nat /\ Len(t) \in Nat
      /\ \A i \in 1..Len(t) : Append(t, x)[i] = t[i]
  OBVIOUS
<1>2. Len(s) <= Len(t) /\ \A i \in 1..Len(s) : s[i] = t[i]
  BY PrefixElements
<1>3. Len(s) <= Len(Append(t, x)) /\ \A i \in 1..Len(s) : s[i] = Append(t, x)[i]
  BY <1>1, <1>2
<1> QED BY <1>1, <1>3, PrefixElements

\* A longer log registers at least what its prefix does.
LEMMA PrefixRegistered ==
    ASSUME NEW s \in Seq(Registration), NEW t \in Seq(Registration), IsPrefix(s, t)
    PROVE  Registered(s) \subseteq Registered(t)
<1>1. /\ Len(s) <= Len(t) /\ Len(s) \in Nat /\ Len(t) \in Nat
      /\ \A i \in 1..Len(s) : s[i] = t[i]
  BY PrefixElements
<1>2. DOMAIN s = 1..Len(s) /\ DOMAIN t = 1..Len(t)
  OBVIOUS
<1>3. DOMAIN s \subseteq DOMAIN t
  BY <1>1, <1>2
<1> QED BY <1>1, <1>2, <1>3 DEF Registered

\* ... and revokes at least what its prefix does.
LEMMA PrefixTargets ==
    ASSUME NEW s \in Seq(Request), NEW t \in Seq(Request), IsPrefix(s, t)
    PROVE  Targets(s) \subseteq Targets(t)
<1>1. /\ Len(s) <= Len(t) /\ Len(s) \in Nat /\ Len(t) \in Nat
      /\ \A i \in 1..Len(s) : s[i] = t[i]
  BY PrefixElements
<1>2. DOMAIN s = 1..Len(s) /\ DOMAIN t = 1..Len(t)
  OBVIOUS
<1>3. DOMAIN s \subseteq DOMAIN t
  BY <1>1, <1>2
<1> QED BY <1>1, <1>2, <1>3 DEF Targets

\* What a validated revocation log names is registered.
LEMMA ValidTargets ==
    ASSUME NEW revs, NEW regs, ValidLog(revs, regs)
    PROVE  Targets(revs) \subseteq Registered(regs)
BY DEF ValidLog, MayRevoke, Targets

----------------------------------------------------------------------------
(* The type invariant.                                                     *)

Stages == {"idle", "registrations", "pin", "observe", "revocations", "audited"}
AuditType == [at : Stages, seen : Seq(Registration), signer : Signers \cup {None},
              revs : Seq(Request), observed : Nat]
TrustType == [pin : Packages \cup {None}, latest : Packages \cup {None},
              state : {"unknown", "unverified", "verified", "changed"}]

\* The records that stand for nothing have the types of what they stand for.
LEMMA ConstantTypes ==
    NoAudit \in AuditType /\ Unknown \in TrustType /\ NoAudit.observed <= Len(NoAudit.seen)
BY DEF NoAudit, Unknown, AuditType, TrustType, Stages

\* The initial state is typed.
LEMMA InitTyped == Init => TypeOK
BY DEF Init, TypeOK, Logs!Init, NoAudit, Unknown, Registration, Request

\* An audit keeps its type when one client's is replaced by a typed one.
LEMMA BecomesTyped ==
    ASSUME TypeOK, NEW c \in Clients, NEW a \in AuditType, a.observed <= Len(a.seen), Becomes(c, a)
    PROVE  /\ audit' \in [Clients -> AuditType] /\ audit'[c] = a
           /\ \A d \in Clients : audit'[d].observed <= Len(audit'[d].seen)
           /\ \A d \in Clients : d # c => audit'[d] = audit[d]
BY DEF TypeOK, Becomes, AuditType, Stages

\* An observed package leaves a typed binding, and never replaces a pin.
LEMMA ObservationFacts ==
    ASSUME NEW t \in TrustType, NEW p \in Packages, t.state = "unknown" <=> t.pin = None
    PROVE  /\ Observation(t, p) \in TrustType
           /\ Observation(t, p).pin # None /\ Observation(t, p).state # "unknown"
           /\ t.state # "unknown" => Observation(t, p).pin = t.pin
           /\ Observation(t, p).state # "changed" =>
                Observation(t, p).pin = p /\ t.state # "changed"
           /\ t.state = "changed" => Observation(t, p).state = "changed"
           /\ t.state # "changed" /\ (t.state # "unknown" => t.pin = p) =>
                Observation(t, p).state # "changed"
<1>1. p # None
  BY ClientsAssumption
<1>2. CASE t.state = "unknown"
  <2>1. Observation(t, p) = [pin |-> p, latest |-> p, state |-> "unverified"]
    BY <1>2 DEF Observation
  <2> QED BY <1>1, <1>2, <2>1 DEF TrustType
<1>3. CASE t.state # "unknown" /\ t.pin # p
  <2>1. Observation(t, p) = [t EXCEPT !.latest = p, !.state = "changed"]
    BY <1>3 DEF Observation
  <2> QED BY <1>1, <1>3, <2>1 DEF TrustType
<1>4. CASE t.state # "unknown" /\ t.pin = p
  <2>1. Observation(t, p) = t
    BY <1>4 DEF Observation
  <2> QED BY <1>1, <1>4, <2>1 DEF TrustType
<1> QED BY <1>2, <1>3, <1>4

----------------------------------------------------------------------------
(* A step of one client.                                                   *)

\* What is stored and looked at for a client is as it was.
SameClient(d) ==
    /\ checkpoint'[d] = checkpoint[d] /\ accepted'[d] = accepted[d] /\ revoked'[d] = revoked[d]
    /\ trust'[d] = trust[d] /\ found'[d] = found[d] /\ audit'[d] = audit[d]

SameJournals == UNCHANGED <<entries, revocations, restores>>

\* A step of client c preserves the invariant if it does so for c.
LEMMA ClientStep ==
    ASSUME Inv, NEW c \in Clients, SameJournals, TypeOK',
           \A d \in Clients : d # c => SameClient(d),
           StoreSound(c)', AuditSound(c)', restores = 0 => Honest(c)'
    PROVE  Inv'
<1>1. OneEach'
  BY DEF Inv, OneEach, SameJournals
<1>2. ASSUME NEW d \in Clients, d # c
      PROVE  StoreSound(d)' /\ AuditSound(d)' /\ (restores = 0 => Honest(d)')
  <2>1. SameClient(d) /\ StoreSound(d) /\ AuditSound(d) /\ (restores = 0 => Honest(d))
    BY <1>2 DEF Inv
  <2>2. StoreSound(d)'
    BY <2>1 DEF StoreSound, SameClient
  <2>3. AuditSound(d)'
    BY <2>1 DEF AuditSound, SameClient
  <2>4. restores = 0 => Honest(d)'
    BY <2>1 DEF Honest, HonestAudit, HonestStore, SameClient, SameJournals
  <2> QED BY <2>2, <2>3, <2>4
<1>3. restores' = restores
  BY DEF SameJournals
<1> QED BY <1>1, <1>2, <1>3 DEF Inv

\* Everything but the audit, the alert and the signer pin is as it was.
SameStore == UNCHANGED <<checkpoint, accepted, revoked, trust, found>>

\* A step that only moves the audit of c to one that is sound as well.
LEMMA AuditStep ==
    ASSUME Inv, NEW c \in Clients, SameJournals, SameStore,
           signer' = signer, pinned' \in [Clients -> Signers \cup {None}],
           alert' \in [Clients -> BOOLEAN], faults' \in Nat,
           NEW a \in AuditType, a.observed <= Len(a.seen), Becomes(c, a),
           AuditSound(c)', restores = 0 => HonestAudit(c)'
    PROVE  Inv'
<1>1. /\ audit' \in [Clients -> AuditType] /\ audit'[c] = a
      /\ \A d \in Clients : audit'[d].observed <= Len(audit'[d].seen)
      /\ \A d \in Clients : d # c => audit'[d] = audit[d]
  BY BecomesTyped DEF Inv
<1>2. TypeOK'
  BY <1>1 DEF Inv, TypeOK, SameJournals, SameStore, AuditType, Stages
<1>3. \A d \in Clients : d # c => SameClient(d)
  BY <1>1 DEF SameClient, SameStore
<1>4. StoreSound(c)'
  BY DEF Inv, StoreSound, SameStore
<1>5. restores = 0 => Honest(c)'
  BY DEF Inv, Honest, HonestStore, SameStore, SameJournals
<1> QED BY <1>2, <1>3, <1>4, <1>5, ClientStep

\* An audit that is not under way relies on nothing.
LEMMA NoAuditSound ==
    ASSUME Inv, NEW c \in Clients, Becomes(c, NoAudit), SameJournals
    PROVE  AuditSound(c)' /\ HonestAudit(c)'
<1>1. audit'[c] = NoAudit
  BY ConstantTypes, BecomesTyped DEF Inv
<1>2. /\ NoAudit.at = "idle" /\ NoAudit.observed = 0
      /\ NoAudit.seen = << >> /\ NoAudit.revs = << >>
  BY DEF NoAudit
<1>3. AuditSound(c)'
  BY <1>1, <1>2 DEF AuditSound, Validated, Checkpointed
<1>4. entries' \in Seq(Registration) /\ revocations' \in Seq(Request)
  BY DEF Inv, TypeOK, SameJournals
<1>5. IsPrefix(<< >>, entries') /\ IsPrefix(<< >>, revocations')
  BY <1>4, PrefixReflexive
<1>6. HonestAudit(c)'
  BY <1>1, <1>2, <1>5 DEF HonestAudit
<1> QED BY <1>3, <1>6

\* An audit that ends, failed or not, leaves the rest as it is.
LEMMA AuditGone ==
    ASSUME Inv, NEW c \in Clients, SameJournals, SameStore,
           signer' = signer, pinned' \in [Clients -> Signers \cup {None}],
           alert' \in [Clients -> BOOLEAN], faults' \in Nat, Becomes(c, NoAudit)
    PROVE  Inv'
BY NoAuditSound, ConstantTypes, AuditStep

----------------------------------------------------------------------------
(* The steps of an audit.                                                  *)

\* RequestFails preserves the invariant.
LEMMA RequestFailsInv ==
    ASSUME Inv, NEW c \in Clients, RequestFails(c)
    PROVE  Inv'
<1>1. /\ SameJournals /\ SameStore /\ signer' = signer /\ pinned' = pinned
      /\ faults' = faults + 1 /\ alert' = [alert EXCEPT ![c] = TRUE] /\ Becomes(c, NoAudit)
  BY DEF RequestFails, Fails, SameJournals, SameStore, journals
<1>2. /\ pinned' \in [Clients -> Signers \cup {None}] /\ alert' \in [Clients -> BOOLEAN]
      /\ faults' \in Nat
  BY <1>1 DEF Inv, TypeOK
<1> QED BY <1>1, <1>2, AuditGone

\* AuditRegistrations preserves the invariant.
LEMMA AuditRegistrationsInv ==
    ASSUME Inv, NEW c \in Clients, AuditRegistrations(c)
    PROVE  Inv'
<1> DEFINE a == [NoAudit EXCEPT !.at = "registrations", !.seen = entries, !.signer = signer]
<1>1. /\ SameJournals /\ SameStore /\ signer' = signer /\ pinned' = pinned
      /\ faults' = faults /\ alert' = alert /\ Becomes(c, a)
  BY DEF AuditRegistrations, SameJournals, SameStore, journals, store
<1>2. /\ entries \in Seq(Registration) /\ revocations \in Seq(Request) /\ signer \in Signers
      /\ pinned \in [Clients -> Signers \cup {None}] /\ alert \in [Clients -> BOOLEAN]
      /\ faults \in Nat
  BY DEF Inv, TypeOK
<1>3. /\ a \in AuditType /\ a.at = "registrations" /\ a.seen = entries /\ a.revs = << >>
      /\ a.observed = 0 /\ a.observed <= Len(a.seen)
  <2>1. NoAudit \in AuditType /\ NoAudit.revs = << >> /\ NoAudit.observed = 0
    BY ConstantTypes DEF NoAudit
  <2>2. a \in AuditType
    BY <1>2, <2>1 DEF AuditType, Stages
  <2>3. a.at = "registrations" /\ a.seen = entries /\ a.revs = << >> /\ a.observed = 0
    BY <2>1 DEF AuditType
  <2>4. Len(entries) \in Nat
    BY <1>2
  <2> HIDE DEF a
  <2> QED BY <2>2, <2>3, <2>4
<1> HIDE DEF a
<1>4. audit'[c] = a
  BY <1>1, <1>3, BecomesTyped DEF Inv
<1>5. AuditSound(c)'
  BY <1>3, <1>4 DEF AuditSound, Validated, Checkpointed
<1>6. IsPrefix(entries, entries) /\ IsPrefix(<< >>, revocations)
  BY <1>2, PrefixReflexive
<1>7. HonestAudit(c)'
  BY <1>3, <1>4, <1>6, <1>1 DEF HonestAudit, SameJournals
<1> QED BY <1>1, <1>2, <1>3, <1>5, <1>7, AuditStep

\* AuditRevocations preserves the invariant: the targets are registered in the answer
\* they were validated against.
LEMMA AuditRevocationsInv ==
    ASSUME Inv, NEW c \in Clients, AuditRevocations(c)
    PROVE  Inv'
<1> DEFINE a == [audit[c] EXCEPT !.at = "pin", !.revs = revocations]
<1>1. SameJournals /\ SameStore /\ signer' = signer /\ pinned' = pinned /\ faults' = faults
  BY DEF AuditRevocations, SameJournals, SameStore, journals
<1>2. /\ revocations \in Seq(Request) /\ audit[c] \in AuditType
      /\ audit[c].observed <= Len(audit[c].seen)
      /\ pinned \in [Clients -> Signers \cup {None}] /\ alert \in [Clients -> BOOLEAN]
      /\ faults \in Nat
  BY DEF Inv, TypeOK, AuditType, Stages
<1>3. CASE ValidLog(revocations, audit[c].seen) /\ Becomes(c, a) /\ alert' = alert
  <2>1. /\ a \in AuditType /\ a.observed <= Len(a.seen)
        /\ a.at = "pin" /\ a.revs = revocations /\ a.seen = audit[c].seen
        /\ a.observed = audit[c].observed
    BY <1>2 DEF AuditType, Stages
  <2> HIDE DEF a
  <2>2. audit'[c] = a
    BY <1>3, <2>1, BecomesTyped DEF Inv
  <2>3. Targets(revocations) \subseteq Registered(audit[c].seen)
    BY <1>3, ValidTargets
  <2>4. AuditSound(c)'
    BY <2>1, <2>2, <2>3, <1>1 DEF Inv, AuditSound, Validated, Checkpointed, SameStore
  <2>5. IsPrefix(revocations, revocations)
    BY <1>2, PrefixReflexive
  <2>6. restores = 0 => HonestAudit(c)'
    BY <2>1, <2>2, <2>5, <1>1 DEF Inv, Honest, HonestAudit, SameJournals
  <2> QED BY <1>1, <1>2, <1>3, <2>1, <2>4, <2>6, AuditStep
<1>4. CASE Fails(c)
  BY <1>1, <1>2, <1>4, AuditGone DEF Fails
<1> QED BY <1>3, <1>4 DEF AuditRevocations

\* pin_directory preserves the invariant.
LEMMA pin_directoryInv ==
    ASSUME Inv, NEW c \in Clients, pin_directory(c)
    PROVE  Inv'
<1> DEFINE a == [audit[c] EXCEPT !.at = "observe"]
<1>1. SameJournals /\ SameStore /\ signer' = signer /\ faults' = faults
  BY DEF pin_directory, SameJournals, SameStore, journals
<1>2. /\ audit[c] \in AuditType /\ audit[c].observed <= Len(audit[c].seen)
      /\ pinned \in [Clients -> Signers \cup {None}] /\ alert \in [Clients -> BOOLEAN]
      /\ faults \in Nat /\ audit[c].at = "pin"
  BY DEF Inv, TypeOK, AuditType, Stages, pin_directory
<1>3. CASE pinned' = [pinned EXCEPT ![c] = audit[c].signer] /\ Becomes(c, a) /\ alert' = alert
  <2>1. /\ a \in AuditType /\ a.observed <= Len(a.seen) /\ a.at = "observe"
        /\ a.revs = audit[c].revs /\ a.seen = audit[c].seen /\ a.observed = audit[c].observed
    BY <1>2 DEF AuditType, Stages
  <2>2. pinned' \in [Clients -> Signers \cup {None}]
    BY <1>2, <1>3 DEF AuditType
  <2> HIDE DEF a
  <2>3. audit'[c] = a
    BY <1>3, <2>1, BecomesTyped DEF Inv
  <2>4. AuditSound(c)'
    BY <2>1, <2>3, <1>1, <1>2 DEF Inv, AuditSound, Validated, Checkpointed, SameStore
  <2>5. restores = 0 => HonestAudit(c)'
    BY <2>1, <2>3, <1>1 DEF Inv, Honest, HonestAudit, SameJournals
  <2> QED BY <1>1, <1>2, <1>3, <2>1, <2>2, <2>4, <2>5, AuditStep
<1>4. CASE Fails(c) /\ pinned' = pinned
  BY <1>1, <1>2, <1>4, AuditGone DEF Fails
<1> QED BY <1>3, <1>4 DEF pin_directory

\* The binding of an observed endpoint replaces no other.
LEMMA TrustChange ==
    ASSUME Inv, NEW c \in Clients, NEW e \in Endpoints, NEW t \in TrustType,
           trust' = [trust EXCEPT ![c][e] = t]
    PROVE  /\ trust' \in [Clients -> [Endpoints -> TrustType]]
           /\ trust'[c][e] = t
           /\ \A x \in Endpoints : x # e => trust'[c][x] = trust[c][x]
           /\ \A d \in Clients : d # c => trust'[d] = trust[d]
BY DEF Inv, TypeOK, TrustType

\* observe_device preserves the invariant: pins are never replaced, and an endpoint
\* of an honest journal has one package.
LEMMA observe_deviceInv ==
    ASSUME Inv, NEW c \in Clients, observe_device(c)
    PROVE  Inv'
<1> DEFINE a == audit[c]
           n == a.observed + 1
           r == a.seen[n]
           old == trust[c][r.endpoint]
           t == Observation(old, r.package)
           b == [a EXCEPT !.observed = n]
<1>1. /\ SameJournals /\ UNCHANGED <<signer, pinned, checkpoint, accepted, revoked, found, faults>>
      /\ a.at = "observe" /\ a.observed < Len(a.seen)
      /\ trust' = [trust EXCEPT ![c][r.endpoint] = t]
      /\ IF t.state = "changed" THEN Fails(c) ELSE Becomes(c, b) /\ alert' = alert
  BY DEF observe_device, SameJournals, journals
<1>2. /\ a \in AuditType /\ alert \in [Clients -> BOOLEAN]
      /\ trust \in [Clients -> [Endpoints -> TrustType]]
      /\ StoreSound(c) /\ AuditSound(c) /\ (restores = 0 => Honest(c))
  BY DEF Inv, TypeOK, AuditType, TrustType, Stages
<1>3. n \in 1..Len(a.seen) /\ r \in Registration /\ a.observed \in Nat /\ Len(a.seen) \in Nat
  BY <1>1, <1>2 DEF AuditType
<1>4. r.endpoint \in Endpoints /\ r.package \in Packages /\ old \in TrustType
  BY <1>2, <1>3 DEF Registration
<1>5. old.state = "unknown" <=> old.pin = None
  BY <1>2, <1>4 DEF StoreSound
<1>6. /\ t \in TrustType /\ t.pin # None /\ t.state # "unknown"
      /\ old.state # "unknown" => t.pin = old.pin
      /\ t.state # "changed" => t.pin = r.package /\ old.state # "changed"
      /\ old.state # "changed" /\ (old.state # "unknown" => old.pin = r.package) =>
           t.state # "changed"
  <2> HIDE DEF t
  <2> QED BY <1>4, <1>5, ObservationFacts DEF t
<1> HIDE DEF t
<1>7. /\ trust' \in [Clients -> [Endpoints -> TrustType]]
      /\ trust'[c][r.endpoint] = t
      /\ \A x \in Endpoints : x # r.endpoint => trust'[c][x] = trust[c][x]
      /\ \A d \in Clients : d # c => trust'[d] = trust[d]
  <2> HIDE DEF r
  <2> QED BY <1>1, <1>4, <1>6, TrustChange
<1>8. \A x \in Endpoints : trust[c][x].pin # None => trust'[c][x].pin = trust[c][x].pin
  BY <1>5, <1>6, <1>7
<1>9. /\ b \in AuditType /\ b.observed = n /\ b.observed <= Len(b.seen)
      /\ b.at = a.at /\ b.seen = a.seen /\ b.revs = a.revs
  <2>1. n \in Nat /\ n <= Len(a.seen)
    BY <1>3
  <2> HIDE DEF n, a
  <2> QED BY <1>2, <2>1 DEF AuditType
<1> HIDE DEF b
<1>10. /\ alert' \in [Clients -> BOOLEAN]
       /\ \/ Becomes(c, NoAudit)
          \/ Becomes(c, b) /\ t.state # "changed"
  BY <1>1, <1>2 DEF Fails
<1>11. /\ audit' \in [Clients -> AuditType]
       /\ \A d \in Clients : audit'[d].observed <= Len(audit'[d].seen)
       /\ \A d \in Clients : d # c => audit'[d] = audit[d]
  BY <1>9, <1>10, ConstantTypes, BecomesTyped DEF Inv
<1>12. TypeOK'
  BY <1>1, <1>7, <1>10, <1>11 DEF Inv, TypeOK, SameJournals, AuditType, TrustType, Stages
<1>13. \A d \in Clients : d # c => SameClient(d)
  BY <1>1, <1>7, <1>11 DEF SameClient
<1>14. StoreSound(c)'
  <2>1. \A e \in Endpoints : trust'[c][e].state = "unknown" <=> trust'[c][e].pin = None
    BY <1>2, <1>6, <1>7 DEF StoreSound
  <2>2. ASSUME NEW q \in found'[c] PROVE trust'[c][q.endpoint].pin = q.package
    <3>1. q \in Registration /\ q.endpoint \in Endpoints /\ q.package # None
      BY <1>1, ClientsAssumption DEF Inv, TypeOK, Registration
    <3> QED BY <3>1, <1>1, <1>2, <1>8 DEF StoreSound
  <2> QED BY <2>1, <2>2, <1>1, <1>2 DEF StoreSound
<1>15. AuditSound(c)'
  <2>1. CASE Becomes(c, NoAudit)
    BY <2>1, <1>1, NoAuditSound
  <2>2. CASE Becomes(c, b) /\ t.state # "changed"
    <3>1. audit'[c] = b
      BY <2>2, <1>9, BecomesTyped DEF Inv
    <3>2. ASSUME NEW i \in 1..n
          PROVE  /\ trust'[c][a.seen[i].endpoint].pin = a.seen[i].package
                 /\ trust'[c][a.seen[i].endpoint].state # "changed"
      <4>1. CASE i = n
        BY <4>1, <2>2, <1>6, <1>7
      <4>2. CASE i # n
        <5>1. i \in 1..a.observed /\ i \in 1..Len(a.seen) /\ a.seen[i] \in Registration
          BY <4>2, <1>2, <1>3 DEF AuditType
        <5>2. /\ trust[c][a.seen[i].endpoint].pin = a.seen[i].package
              /\ trust[c][a.seen[i].endpoint].state # "changed"
          BY <5>1, <1>2 DEF AuditSound
        <5>3. a.seen[i].endpoint \in Endpoints /\ a.seen[i].package # None
          BY <5>1, ClientsAssumption DEF Registration
        <5> QED BY <5>2, <5>3, <2>2, <1>7, <1>8
      <4> QED BY <4>1, <4>2
    <3>3. a.at \notin Checkpointed
      BY <1>1 DEF Checkpointed
    <3> HIDE DEF a
    <3>4. AuditSound(c)' <=>
            /\ b.at \in Validated => Targets(b.revs) \subseteq Registered(b.seen)
            /\ b.at \in Checkpointed => checkpoint'[c] = b.seen /\ b.observed = Len(b.seen)
            /\ \A i \in 1..b.observed : /\ trust'[c][b.seen[i].endpoint].pin = b.seen[i].package
                                        /\ trust'[c][b.seen[i].endpoint].state # "changed"
      BY <3>1 DEF AuditSound
    <3>5. a.at \in Validated => Targets(a.revs) \subseteq Registered(a.seen)
      BY <1>2 DEF AuditSound, a
    <3> QED BY <3>2, <3>3, <3>4, <3>5, <1>9
  <2> QED BY <2>1, <2>2, <1>10
<1>16. ASSUME restores = 0 PROVE Honest(c)'
  <2>1. Honest(c) /\ OneEach /\ entries \in Seq(Registration) /\ revocations \in Seq(Request)
    BY <1>2, <1>16 DEF Inv, TypeOK
  <2>2. HonestAudit(c)'
    <3>1. CASE Becomes(c, NoAudit)
      BY <3>1, <1>1, NoAuditSound
    <3>2. CASE Becomes(c, b)
      <4>1. audit'[c] = b
        BY <3>2, <1>9, BecomesTyped DEF Inv
      <4> QED BY <4>1, <2>1, <1>1, <1>9 DEF Honest, HonestAudit, SameJournals
    <3> QED BY <3>1, <3>2, <1>10
  <2>3. n \in DOMAIN entries /\ entries[n] = r
    <3>1. a.seen \in Seq(Registration) /\ IsPrefix(a.seen, entries)
      BY <1>2, <2>1 DEF AuditType, Honest, HonestAudit
    <3>2. Len(a.seen) <= Len(entries) /\ \A i \in 1..Len(a.seen) : a.seen[i] = entries[i]
      BY <3>1, <2>1, PrefixElements
    <3>3. Len(entries) \in Nat /\ DOMAIN entries = 1..Len(entries)
      BY <2>1
    <3> QED BY <3>2, <3>3, <1>3
  <2>4. old.state # "unknown" => old.pin = r.package
    <3>1. SUFFICES ASSUME old.state # "unknown" PROVE old.pin = r.package
      OBVIOUS
    <3>2. PICK i \in DOMAIN entries : entries[i].endpoint = r.endpoint /\ entries[i].package = old.pin
      BY <3>1, <2>1, <1>4 DEF Honest, HonestStore
    <3>3. i = n
      BY <3>2, <2>1, <2>3 DEF OneEach
    <3> QED BY <3>2, <3>3, <2>3
  <2>5. t.state # "changed" /\ t.pin = r.package
    BY <2>1, <2>4, <1>4, <1>6 DEF Honest, HonestStore
  <2>6. ASSUME NEW e \in Endpoints
        PROVE  /\ trust'[c][e].state # "changed"
               /\ trust'[c][e].state # "unknown" =>
                    \E i \in DOMAIN entries : /\ entries[i].endpoint = e
                                              /\ entries[i].package = trust'[c][e].pin
    <3>1. CASE e = r.endpoint
      BY <3>1, <2>3, <2>5, <1>7
    <3>2. CASE e # r.endpoint
      BY <3>2, <2>1, <1>7 DEF Honest, HonestStore
    <3> QED BY <3>1, <3>2
  <2>7. HonestStore(c)'
    BY <2>1, <2>6, <1>1 DEF Honest, HonestStore, SameJournals
  <2> QED BY <2>2, <2>7 DEF Honest
<1> QED BY <1>1, <1>12, <1>13, <1>14, <1>15, <1>16, ClientStep

\* accept_checkpoint preserves the invariant: the new checkpoint extends the old.
LEMMA accept_checkpointInv ==
    ASSUME Inv, NEW c \in Clients, accept_checkpoint(c)
    PROVE  Inv'
<1> DEFINE a == audit[c]
           b == [a EXCEPT !.at = "revocations"]
<1>1. /\ SameJournals /\ UNCHANGED <<signer, pinned, accepted, revoked, trust, found, faults>>
      /\ a.at = "observe" /\ a.observed = Len(a.seen)
  BY DEF accept_checkpoint, SameJournals, journals
<1>2. /\ a \in AuditType /\ alert \in [Clients -> BOOLEAN] /\ faults \in Nat
      /\ pinned \in [Clients -> Signers \cup {None}]
      /\ checkpoint \in [Clients -> Seq(Registration)]
      /\ StoreSound(c) /\ AuditSound(c) /\ (restores = 0 => Honest(c))
  BY DEF Inv, TypeOK, AuditType, Stages
<1>3. CASE Fails(c) /\ checkpoint' = checkpoint
  BY <1>1, <1>2, <1>3, AuditGone DEF Fails, SameStore
<1>4. CASE /\ IsPrefix(checkpoint[c], a.seen) /\ Becomes(c, b) /\ alert' = alert
           /\ checkpoint' = [checkpoint EXCEPT ![c] = a.seen]
  <2>1. /\ b \in AuditType /\ b.at = "revocations" /\ b.observed = a.observed
        /\ b.seen = a.seen /\ b.revs = a.revs
    <3> HIDE DEF a
    <3> QED BY <1>2 DEF AuditType, Stages
  <2> HIDE DEF b
  <2>2. b.observed <= Len(b.seen) /\ a.seen \in Seq(Registration)
    BY <1>1, <1>2, <2>1 DEF AuditType
  <2>3. /\ audit' \in [Clients -> AuditType] /\ audit'[c] = b
        /\ \A d \in Clients : audit'[d].observed <= Len(audit'[d].seen)
        /\ \A d \in Clients : d # c => audit'[d] = audit[d]
    BY <1>4, <2>1, <2>2, BecomesTyped DEF Inv
  <2>4. /\ checkpoint' \in [Clients -> Seq(Registration)] /\ checkpoint'[c] = a.seen
        /\ \A d \in Clients : d # c => checkpoint'[d] = checkpoint[d]
    BY <1>2, <1>4, <2>2
  <2>5. TypeOK'
    BY <1>1, <1>4, <2>3, <2>4 DEF Inv, TypeOK, SameJournals, AuditType, Stages
  <2>6. \A d \in Clients : d # c => SameClient(d)
    BY <1>1, <2>3, <2>4 DEF SameClient
  <2>7. StoreSound(c)'
    <3>1. Registered(checkpoint[c]) \subseteq Registered(a.seen)
      BY <1>2, <1>4, <2>2, PrefixRegistered
    <3> QED BY <3>1, <2>4, <1>1, <1>2 DEF StoreSound
  <2>8. AuditSound(c)'
    BY <2>1, <2>3, <2>4, <1>1, <1>2 DEF AuditSound, Validated, Checkpointed
  <2>9. restores = 0 => Honest(c)'
    BY <2>1, <2>3, <2>4, <1>1, <1>2 DEF Honest, HonestAudit, HonestStore, SameJournals
  <2> QED BY <1>1, <2>5, <2>6, <2>7, <2>8, <2>9, ClientStep
<1> QED BY <1>3, <1>4 DEF accept_checkpoint, Extends

\* accept_revocations preserves the invariant: what is revoked is what the accepted
\* log names, and was validated against the checkpoint stored just before.
LEMMA accept_revocationsInv ==
    ASSUME Inv, NEW c \in Clients, accept_revocations(c)
    PROVE  Inv'
<1> DEFINE a == audit[c]
           b == [a EXCEPT !.at = "audited"]
<1>1. /\ SameJournals /\ UNCHANGED <<signer, pinned, checkpoint, trust, found, faults>>
      /\ a.at = "revocations"
  BY DEF accept_revocations, SameJournals, journals
<1>2. /\ a \in AuditType /\ alert \in [Clients -> BOOLEAN] /\ faults \in Nat
      /\ pinned \in [Clients -> Signers \cup {None}]
      /\ accepted \in [Clients -> Seq(Request)] /\ revoked \in [Clients -> SUBSET Endpoints]
      /\ StoreSound(c) /\ AuditSound(c) /\ (restores = 0 => Honest(c))
      /\ a.observed <= Len(a.seen)
  BY DEF Inv, TypeOK, AuditType, Stages
<1>3. CASE Fails(c) /\ UNCHANGED <<accepted, revoked>>
  BY <1>1, <1>2, <1>3, AuditGone DEF Fails, SameStore
<1>4. CASE /\ IsPrefix(accepted[c], a.revs) /\ Becomes(c, b)
           /\ alert' = [alert EXCEPT ![c] = FALSE]
           /\ accepted' = [accepted EXCEPT ![c] = a.revs]
           /\ revoked' = [revoked EXCEPT ![c] = @ \cup Targets(a.revs)]
  <2>1. /\ b \in AuditType /\ b.at = "audited" /\ b.observed = a.observed
        /\ b.seen = a.seen /\ b.revs = a.revs
    <3> HIDE DEF a
    <3> QED BY <1>2 DEF AuditType, Stages
  <2> HIDE DEF b
  <2>2. a.revs \in Seq(Request) /\ Targets(a.revs) \subseteq Endpoints
    <3>1. a.revs \in Seq(Request)
      BY <1>2 DEF AuditType
    <3>2. \A i \in DOMAIN a.revs : a.revs[i].target \in Endpoints
      <4>1. \A i \in DOMAIN a.revs : a.revs[i] \in Request
        BY <3>1
      <4> QED BY <4>1 DEF Request
    <3> QED BY <3>1, <3>2 DEF Targets
  <2>3. /\ audit' \in [Clients -> AuditType] /\ audit'[c] = b
        /\ \A d \in Clients : audit'[d].observed <= Len(audit'[d].seen)
        /\ \A d \in Clients : d # c => audit'[d] = audit[d]
    BY <1>2, <1>4, <2>1, BecomesTyped DEF Inv
  <2>4. /\ accepted' \in [Clients -> Seq(Request)] /\ accepted'[c] = a.revs
        /\ revoked' \in [Clients -> SUBSET Endpoints] /\ revoked'[c] = revoked[c] \cup Targets(a.revs)
        /\ alert' \in [Clients -> BOOLEAN]
        /\ \A d \in Clients : d # c => accepted'[d] = accepted[d] /\ revoked'[d] = revoked[d]
    BY <1>2, <1>4, <2>2
  <2>5. TypeOK'
    BY <1>1, <2>3, <2>4 DEF Inv, TypeOK, SameJournals, AuditType, Stages
  <2>6. \A d \in Clients : d # c => SameClient(d)
    BY <1>1, <2>3, <2>4 DEF SameClient
  <2>7. StoreSound(c)'
    <3>1. Targets(accepted[c]) \subseteq Targets(a.revs)
      BY <1>2, <1>4, <2>2, PrefixTargets
    <3>2. Targets(a.revs) \subseteq Registered(checkpoint[c])
      BY <1>1, <1>2 DEF AuditSound, Validated, Checkpointed
    <3> QED BY <3>1, <3>2, <2>4, <1>1, <1>2 DEF StoreSound
  <2>8. AuditSound(c)'
    BY <2>1, <2>3, <2>4, <1>1, <1>2 DEF AuditSound, Validated, Checkpointed
  <2>9. restores = 0 => Honest(c)'
    BY <2>1, <2>3, <2>4, <1>1, <1>2 DEF Honest, HonestAudit, HonestStore, SameJournals
  <2> QED BY <1>1, <2>5, <2>6, <2>7, <2>8, <2>9, ClientStep
<1> QED BY <1>3, <1>4 DEF accept_revocations, Extends

\* Lookup preserves the invariant: every entry of the audited log was observed.
LEMMA LookupInv ==
    ASSUME Inv, NEW c \in Clients, NEW r \in Registration, Lookup(c, r)
    PROVE  Inv'
<1> DEFINE a == audit[c]
<1>1. /\ SameJournals /\ UNCHANGED <<signer, pinned, checkpoint, accepted, revoked, trust, alert, faults>>
      /\ a.at = "audited" /\ \E i \in DOMAIN a.seen : a.seen[i] = r
      /\ found' = [found EXCEPT ![c] = @ \cup {r}] /\ Becomes(c, NoAudit)
  BY DEF Lookup, SameJournals, journals
<1>2. /\ a \in AuditType /\ found \in [Clients -> SUBSET Registration]
      /\ StoreSound(c) /\ AuditSound(c) /\ (restores = 0 => Honest(c))
  BY DEF Inv, TypeOK, AuditType, Stages
<1>3. trust[c][r.endpoint].pin = r.package
  <2>1. PICK i \in DOMAIN a.seen : a.seen[i] = r
    BY <1>1
  <2>2. i \in 1..a.observed
    BY <1>1, <1>2 DEF AuditSound, Checkpointed, AuditType
  <2> QED BY <2>1, <2>2, <1>2 DEF AuditSound
<1>4. /\ audit' \in [Clients -> AuditType]
      /\ \A d \in Clients : audit'[d].observed <= Len(audit'[d].seen)
      /\ \A d \in Clients : d # c => audit'[d] = audit[d]
  BY <1>1, ConstantTypes, BecomesTyped DEF Inv
<1>5. /\ found' \in [Clients -> SUBSET Registration] /\ found'[c] = found[c] \cup {r}
      /\ \A d \in Clients : d # c => found'[d] = found[d]
  BY <1>1, <1>2
<1>6. TypeOK'
  BY <1>1, <1>4, <1>5 DEF Inv, TypeOK, SameJournals, AuditType, Stages
<1>7. \A d \in Clients : d # c => SameClient(d)
  BY <1>1, <1>4, <1>5 DEF SameClient
<1>8. StoreSound(c)'
  BY <1>1, <1>2, <1>3, <1>5 DEF StoreSound
<1>9. AuditSound(c)' /\ HonestAudit(c)'
  BY <1>1, NoAuditSound
<1>10. restores = 0 => Honest(c)'
  BY <1>1, <1>2, <1>9 DEF Honest, HonestStore, SameJournals
<1> QED BY <1>1, <1>6, <1>7, <1>8, <1>9, <1>10, ClientStep

\* AuditEnds and Crash preserve the invariant.
LEMMA AuditEndsInv ==
    ASSUME Inv, NEW c \in Clients, AuditEnds(c) \/ Crash(c)
    PROVE  Inv'
<1>1. /\ SameJournals /\ SameStore /\ signer' = signer /\ pinned' = pinned
      /\ faults' \in {faults, faults + 1} /\ alert' = alert /\ Becomes(c, NoAudit)
  BY DEF AuditEnds, Crash, SameJournals, SameStore, journals, store
<1>2. /\ pinned' \in [Clients -> Signers \cup {None}] /\ alert' \in [Clients -> BOOLEAN]
      /\ faults' \in Nat
  BY <1>1 DEF Inv, TypeOK
<1> QED BY <1>1, <1>2, AuditGone

\* verify_device preserves the invariant: the pin stays.
LEMMA verify_deviceInv ==
    ASSUME Inv, NEW c \in Clients, NEW e \in Endpoints, NEW p \in Packages, verify_device(c, e, p)
    PROVE  Inv'
<1> DEFINE t == [trust[c][e] EXCEPT !.state = "verified"]
<1>1. /\ SameJournals
      /\ UNCHANGED <<signer, pinned, checkpoint, accepted, revoked, alert, found, audit, faults>>
      /\ trust[c][e].state \in {"unverified", "verified"}
      /\ trust' = [trust EXCEPT ![c][e] = t]
  BY DEF verify_device, SameJournals, journals
<1>2. /\ trust \in [Clients -> [Endpoints -> TrustType]]
      /\ StoreSound(c) /\ AuditSound(c) /\ (restores = 0 => Honest(c))
  BY DEF Inv, TypeOK, TrustType
<1>3. t \in TrustType /\ t.pin = trust[c][e].pin /\ t.state = "verified"
  <2>1. trust[c][e] \in TrustType
    BY <1>2
  <2> QED BY <2>1 DEF TrustType
<1> HIDE DEF t
<1>4. /\ trust' \in [Clients -> [Endpoints -> TrustType]]
      /\ trust'[c][e] = t
      /\ \A x \in Endpoints : x # e => trust'[c][x] = trust[c][x]
      /\ \A d \in Clients : d # c => trust'[d] = trust[d]
  BY <1>1, <1>3, TrustChange
<1>5. \A x \in Endpoints : /\ trust'[c][x].pin = trust[c][x].pin
                           /\ trust'[c][x].state = "changed" <=> trust[c][x].state = "changed"
                           /\ trust'[c][x].state = "unknown" <=> trust[c][x].state = "unknown"
  BY <1>1, <1>3, <1>4
<1>6. TypeOK'
  BY <1>1, <1>4 DEF Inv, TypeOK, SameJournals, TrustType
<1>7. \A d \in Clients : d # c => SameClient(d)
  BY <1>1, <1>4 DEF SameClient
<1>8. StoreSound(c)'
  <2>1. \A q \in found[c] : q.endpoint \in Endpoints
    BY DEF Inv, TypeOK, Registration
  <2> QED BY <2>1, <1>1, <1>2, <1>5 DEF StoreSound
<1>9. AuditSound(c)'
  <2>1. \A i \in 1..audit[c].observed : audit[c].seen[i].endpoint \in Endpoints
    <3>1. audit[c].seen \in Seq(Registration) /\ audit[c].observed <= Len(audit[c].seen)
          /\ audit[c].observed \in Nat
      BY DEF Inv, TypeOK
    <3>2. \A i \in 1..audit[c].observed : i \in 1..Len(audit[c].seen)
      BY <3>1
    <3>3. \A i \in 1..audit[c].observed : audit[c].seen[i] \in Registration
      BY <3>1, <3>2
    <3> QED BY <3>3 DEF Registration
  <2> QED BY <2>1, <1>1, <1>2, <1>5 DEF AuditSound
<1>10. restores = 0 => Honest(c)'
  BY <1>1, <1>2, <1>5 DEF Honest, HonestAudit, HonestStore, SameJournals
<1> QED BY <1>1, <1>6, <1>7, <1>8, <1>9, <1>10, ClientStep

----------------------------------------------------------------------------
(* The journals.                                                           *)

\* Grow preserves the invariant: a record is appended, and a prefix stays one.
LEMMA GrowInv ==
    ASSUME Inv, Grow
    PROVE  Inv'
<1>1. /\ UNCHANGED <<signer, restores, pinned, checkpoint, accepted, revoked, trust, alert, found>>
      /\ UNCHANGED <<audit, faults>> /\ Logs!Next
  BY DEF Grow, store
<1>2. entries \in Seq(Registration) /\ revocations \in Seq(Request)
  BY DEF Inv, TypeOK
<1>3. \A c \in Clients : StoreSound(c)' /\ AuditSound(c)'
  BY <1>1 DEF Inv, StoreSound, AuditSound
<1>4. CASE Logs!Register
  <2>1. PICK r \in Registration : /\ r.endpoint \notin Registered(entries)
                                  /\ entries' = Append(entries, r) /\ revocations' = revocations
    BY <1>4 DEF Logs!Register, Logs!Registration, Logs!Registered, Registration, Registered
  <2>2. /\ entries' \in Seq(Registration) /\ Len(entries) \in Nat
        /\ DOMAIN entries = 1..Len(entries) /\ DOMAIN entries' = 1..(Len(entries) + 1)
        /\ \A i \in DOMAIN entries : entries'[i] = entries[i]
        /\ entries'[Len(entries) + 1] = r
    BY <1>2, <2>1
  <2>3. TypeOK'
    BY <1>1, <2>1, <2>2 DEF Inv, TypeOK
  <2>4. OneEach'
    <3>1. SUFFICES ASSUME NEW i \in DOMAIN entries', NEW j \in DOMAIN entries',
                          entries'[i].endpoint = entries'[j].endpoint
                   PROVE  i = j
      BY DEF OneEach
    <3>2. \A k \in DOMAIN entries : entries[k].endpoint # r.endpoint
      BY <2>1 DEF Registered
    <3>3. i \in DOMAIN entries \/ i = Len(entries) + 1
      BY <2>2
    <3>4. j \in DOMAIN entries \/ j = Len(entries) + 1
      BY <2>2
    <3> QED BY <3>1, <3>2, <3>3, <3>4, <2>2 DEF Inv, OneEach
  <2>5. ASSUME NEW c \in Clients, Honest(c) PROVE Honest(c)'
    <3>1. checkpoint[c] \in Seq(Registration) /\ audit[c].seen \in Seq(Registration)
      BY DEF Inv, TypeOK
    <3>2. IsPrefix(checkpoint[c], entries') /\ IsPrefix(audit[c].seen, entries')
      BY <3>1, <2>1, <2>5, <1>2, PrefixAppend DEF Honest, HonestAudit, HonestStore
    <3>3. ASSUME NEW e \in Endpoints, trust[c][e].state # "unknown"
          PROVE  \E i \in DOMAIN entries' : /\ entries'[i].endpoint = e
                                            /\ entries'[i].package = trust[c][e].pin
      <4>1. PICK i \in DOMAIN entries : entries[i].endpoint = e /\ entries[i].package = trust[c][e].pin
        BY <3>3, <2>5 DEF Honest, HonestStore
      <4>2. i \in DOMAIN entries' /\ entries'[i] = entries[i]
        BY <4>1, <2>2
      <4> QED BY <4>1, <4>2
    <3>4. HonestStore(c)'
      BY <3>2, <3>3, <2>1, <2>5, <1>1 DEF Honest, HonestStore
    <3>5. HonestAudit(c)'
      BY <3>2, <2>1, <2>5, <1>1 DEF Honest, HonestAudit
    <3> QED BY <3>4, <3>5 DEF Honest
  <2> QED BY <1>1, <1>3, <2>3, <2>4, <2>5 DEF Inv
<1>5. CASE Logs!Revoke
  <2>1. PICK q \in Request : revocations' = Append(revocations, q) /\ entries' = entries
    BY <1>5 DEF Logs!Revoke, Logs!Request, Request
  <2>2. revocations' \in Seq(Request)
    BY <1>2, <2>1
  <2>3. TypeOK' /\ OneEach'
    BY <1>1, <2>1, <2>2 DEF Inv, TypeOK, OneEach
  <2>4. ASSUME NEW c \in Clients, Honest(c) PROVE Honest(c)'
    <3>1. accepted[c] \in Seq(Request) /\ audit[c].revs \in Seq(Request)
      BY DEF Inv, TypeOK
    <3>2. IsPrefix(accepted[c], revocations') /\ IsPrefix(audit[c].revs, revocations')
      BY <3>1, <2>1, <2>4, <1>2, PrefixAppend DEF Honest, HonestAudit, HonestStore
    <3> QED BY <3>2, <2>1, <2>4, <1>1 DEF Honest, HonestAudit, HonestStore
  <2> QED BY <1>1, <1>3, <2>3, <2>4 DEF Inv
<1> QED BY <1>1, <1>4, <1>5 DEF Logs!Next

\* Restore preserves the invariant: an older journal registers an endpoint once, and
\* nothing more is asked of it.
LEMMA RestoreInv ==
    ASSUME Inv, Restore
    PROVE  Inv'
<1>1. /\ UNCHANGED <<pinned, checkpoint, accepted, revoked, trust, alert, found, audit, faults>>
      /\ restores' = restores + 1 /\ signer' \in Signers
  BY DEF Restore, store
<1>2. PICK n \in 0..Len(entries), m \in 0..Len(revocations) :
         entries' = SubSeq(entries, 1, n) /\ revocations' = SubSeq(revocations, 1, m)
  BY DEF Restore
<1>3. entries \in Seq(Registration) /\ revocations \in Seq(Request) /\ restores \in Nat
  BY DEF Inv, TypeOK
<1>4. /\ entries' \in Seq(Registration) /\ DOMAIN entries' \subseteq DOMAIN entries
      /\ \A i \in DOMAIN entries' : entries'[i] = entries[i]
  BY <1>2, <1>3
<1>5. revocations' \in Seq(Request)
  BY <1>2, <1>3
<1>6. TypeOK'
  BY <1>1, <1>3, <1>4, <1>5 DEF Inv, TypeOK
<1>7. OneEach'
  BY <1>4 DEF Inv, OneEach
<1>8. \A c \in Clients : StoreSound(c)' /\ AuditSound(c)'
  BY <1>1 DEF Inv, StoreSound, AuditSound
<1>9. restores' # 0
  BY <1>1, <1>3
<1> QED BY <1>6, <1>7, <1>8, <1>9 DEF Inv

----------------------------------------------------------------------------
(* The theorems.                                                           *)

\* The invariant holds initially.
LEMMA InitInv == Init => Inv
<1>1. SUFFICES ASSUME Init PROVE Inv
  OBVIOUS
<1>2. TypeOK
  BY <1>1, InitTyped
<1>3. entries = << >> /\ revocations = << >>
  BY <1>1 DEF Init, Logs!Init
<1>4. OneEach
  BY <1>3 DEF OneEach
<1>5. ASSUME NEW c \in Clients PROVE StoreSound(c) /\ AuditSound(c) /\ Honest(c)
  <2>1. /\ checkpoint[c] = << >> /\ accepted[c] = << >> /\ revoked[c] = {} /\ found[c] = {}
        /\ audit[c] = NoAudit /\ \A e \in Endpoints : trust[c][e] = Unknown
    BY <1>1 DEF Init
  <2>2. /\ NoAudit.at = "idle" /\ NoAudit.observed = 0
        /\ NoAudit.seen = << >> /\ NoAudit.revs = << >>
        /\ Unknown.pin = None /\ Unknown.state = "unknown"
    BY DEF NoAudit, Unknown
  <2>3. StoreSound(c)
    BY <2>1, <2>2 DEF StoreSound, Targets
  <2>4. AuditSound(c)
    BY <2>1, <2>2 DEF AuditSound, Validated, Checkpointed
  <2>5. IsPrefix(<< >>, entries) /\ IsPrefix(<< >>, revocations)
    BY <1>2, PrefixReflexive DEF TypeOK
  <2>6. Honest(c)
    BY <2>1, <2>2, <2>5 DEF Honest, HonestAudit, HonestStore
  <2> QED BY <2>3, <2>4, <2>6
<1> QED BY <1>2, <1>4, <1>5 DEF Inv

\* A step that changes nothing preserves the invariant.
LEMMA StutterInv ==
    ASSUME Inv, UNCHANGED vars
    PROVE  Inv'
<1>1. /\ UNCHANGED <<entries, revocations, signer, restores, pinned, checkpoint, accepted>>
      /\ UNCHANGED <<revoked, trust, alert, found, audit, faults>>
  BY DEF vars, journals, store
<1>2. TypeOK' /\ OneEach'
  BY <1>1 DEF Inv, TypeOK, OneEach
<1>3. \A c \in Clients : StoreSound(c)' /\ AuditSound(c)' /\ (restores = 0 => Honest(c)')
  BY <1>1 DEF Inv, StoreSound, AuditSound, Honest, HonestAudit, HonestStore
<1> QED BY <1>1, <1>2, <1>3 DEF Inv

\* Every step preserves the invariant.
LEMMA NextInv == Inv /\ [Next]_vars => Inv'
<1>1. SUFFICES ASSUME Inv, [Next]_vars PROVE Inv'
  OBVIOUS
<1>2. CASE Grow
  BY <1>1, <1>2, GrowInv
<1>3. CASE Restore
  BY <1>1, <1>3, RestoreInv
<1>4. ASSUME NEW c \in Clients, Poll(c) PROVE Inv'
  BY <1>1, <1>4, AuditRegistrationsInv, AuditRevocationsInv, pin_directoryInv, observe_deviceInv,
     accept_checkpointInv, accept_revocationsInv, AuditEndsInv DEF Poll
<1>5. ASSUME NEW c \in Clients, RequestFails(c) \/ Crash(c) PROVE Inv'
  BY <1>1, <1>5, RequestFailsInv, AuditEndsInv
<1>6. ASSUME NEW c \in Clients, NEW r \in Registration, Lookup(c, r) PROVE Inv'
  BY <1>1, <1>6, LookupInv
<1>7. ASSUME NEW c \in Clients, NEW e \in Endpoints, NEW p \in Packages, verify_device(c, e, p)
      PROVE  Inv'
  BY <1>1, <1>7, verify_deviceInv
<1>8. CASE UNCHANGED vars
  BY <1>1, <1>8, StutterInv
<1> QED BY <1>1, <1>2, <1>3, <1>4, <1>5, <1>6, <1>7, <1>8 DEF Next

\* The invariant holds in every state.
LEMMA Invariant == Spec => []Inv
BY InitInv, NextInv, PTL DEF Spec

\* The invariant says what a client may rely on.
LEMMA InvTrustIsSound == Inv => TrustIsSound
<1>1. SUFFICES ASSUME Inv PROVE TrustIsSound
  OBVIOUS
<1>2. TypeOK
  BY <1>1 DEF Inv
<1>3. NoSilentReplacement
  BY <1>1 DEF Inv, NoSilentReplacement, StoreSound
<1>4. RevokedAreRegistered
  BY <1>1 DEF Inv, RevokedAreRegistered, StoreSound
<1>5. HonestLogAccepted
  BY <1>1 DEF Inv, HonestLogAccepted, Honest, HonestStore
<1> QED BY <1>2, <1>3, <1>4, <1>5 DEF TrustIsSound

\* What a client believes of other devices holds together in every state: it uses no
\* identity but the pinned one, knows every device it takes to be revoked, and is not
\* blocked by a service whose journals only grew.
THEOREM Soundness == Spec => []TrustIsSound
BY Invariant, InvTrustIsSound, PTL

\* A step of the journals, or one that changes nothing, leaves every client alone.
LEMMA OtherStepsKeep ==
    ASSUME Inv, Grow \/ Restore \/ UNCHANGED vars, NEW c \in Clients
    PROVE  SameClient(c)
BY DEF Grow, Restore, vars, store, SameClient

\* What a step may do to the evidence of a client.
Keeps(c) ==
    /\ IsPrefix(checkpoint[c], checkpoint'[c])
    /\ IsPrefix(accepted[c], accepted'[c])
    /\ revoked[c] \subseteq revoked'[c]
    /\ \A e \in Endpoints : trust[c][e].state = "changed" =>
         /\ trust'[c][e].state = "changed" /\ trust'[c][e].pin = trust[c][e].pin
         /\ {r \in found'[c] : r.endpoint = e} = {r \in found[c] : r.endpoint = e}

\* A client whose store is as it was keeps its evidence.
LEMMA SameKeeps ==
    ASSUME Inv, NEW c \in Clients,
           checkpoint'[c] = checkpoint[c], accepted'[c] = accepted[c], revoked'[c] = revoked[c],
           trust'[c] = trust[c], found'[c] = found[c]
    PROVE  Keeps(c)
<1>1. checkpoint[c] \in Seq(Registration) /\ accepted[c] \in Seq(Request)
  BY DEF Inv, TypeOK
<1>2. IsPrefix(checkpoint[c], checkpoint[c]) /\ IsPrefix(accepted[c], accepted[c])
  BY <1>1, PrefixReflexive
<1> QED BY <1>2 DEF Keeps

\* The steps of client c that write to its store keep its evidence.
LEMMA WritesKeep ==
    ASSUME Inv, NEW c \in Clients,
           \/ observe_device(c) \/ accept_checkpoint(c) \/ accept_revocations(c)
           \/ \E r \in Registration : Lookup(c, r)
           \/ \E e \in Endpoints, p \in Packages : verify_device(c, e, p)
    PROVE  Keeps(c)
<1>1. /\ checkpoint \in [Clients -> Seq(Registration)] /\ accepted \in [Clients -> Seq(Request)]
      /\ trust \in [Clients -> [Endpoints -> TrustType]]
      /\ revoked \in [Clients -> SUBSET Endpoints] /\ found \in [Clients -> SUBSET Registration]
      /\ audit[c] \in AuditType /\ StoreSound(c) /\ AuditSound(c)
  BY DEF Inv, TypeOK, TrustType, AuditType, Stages
<1>2. IsPrefix(checkpoint[c], checkpoint[c]) /\ IsPrefix(accepted[c], accepted[c])
  BY <1>1, PrefixReflexive
<1>3. CASE observe_device(c)
  <2> DEFINE r == audit[c].seen[audit[c].observed + 1]
             old == trust[c][r.endpoint]
             t == Observation(old, r.package)
  <2>1. /\ UNCHANGED <<checkpoint, accepted, revoked, found>>
        /\ trust' = [trust EXCEPT ![c][r.endpoint] = t]
        /\ audit[c].observed < Len(audit[c].seen)
    BY <1>3 DEF observe_device
  <2>2. r \in Registration
    <3>1. audit[c].seen \in Seq(Registration) /\ audit[c].observed \in Nat
      BY <1>1 DEF AuditType
    <3> QED BY <2>1, <3>1
  <2>3. r.endpoint \in Endpoints /\ r.package \in Packages /\ old \in TrustType
    BY <1>1, <2>2 DEF Registration
  <2>4. old.state = "unknown" <=> old.pin = None
    BY <1>1, <2>3 DEF StoreSound
  <2>5. /\ t \in TrustType
        /\ old.state = "changed" => t.state = "changed" /\ t.pin = old.pin
    <3> HIDE DEF t
    <3> QED BY <2>3, <2>4, ObservationFacts DEF t
  <2> HIDE DEF t
  <2>6. /\ trust'[c][r.endpoint] = t
        /\ \A x \in Endpoints : x # r.endpoint => trust'[c][x] = trust[c][x]
    <3> HIDE DEF r
    <3> QED BY <2>1, <2>3, <2>5, TrustChange
  <2> QED BY <1>2, <2>1, <2>5, <2>6 DEF Keeps
<1>4. CASE accept_checkpoint(c)
  <2>1. /\ UNCHANGED <<accepted, revoked, trust, found>>
        /\ \/ checkpoint' = checkpoint
           \/ /\ IsPrefix(checkpoint[c], audit[c].seen)
              /\ checkpoint' = [checkpoint EXCEPT ![c] = audit[c].seen]
    BY <1>4 DEF accept_checkpoint, Extends
  <2>2. IsPrefix(checkpoint[c], checkpoint'[c])
    BY <1>1, <1>2, <2>1
  <2> QED BY <1>2, <2>1, <2>2 DEF Keeps
<1>5. CASE accept_revocations(c)
  <2>1. /\ UNCHANGED <<checkpoint, trust, found>>
        /\ \/ UNCHANGED <<accepted, revoked>>
           \/ /\ IsPrefix(accepted[c], audit[c].revs)
              /\ accepted' = [accepted EXCEPT ![c] = audit[c].revs]
              /\ revoked' = [revoked EXCEPT ![c] = @ \cup Targets(audit[c].revs)]
    BY <1>5 DEF accept_revocations, Extends
  <2>2. IsPrefix(accepted[c], accepted'[c]) /\ revoked[c] \subseteq revoked'[c]
    BY <1>1, <1>2, <2>1
  <2> QED BY <1>2, <2>1, <2>2 DEF Keeps
<1>6. ASSUME NEW r \in Registration, Lookup(c, r) PROVE Keeps(c)
  <2>1. /\ UNCHANGED <<checkpoint, accepted, revoked, trust>>
        /\ audit[c].at = "audited" /\ \E i \in DOMAIN audit[c].seen : audit[c].seen[i] = r
        /\ found' = [found EXCEPT ![c] = @ \cup {r}]
    BY <1>6 DEF Lookup
  <2>2. trust[c][r.endpoint].state # "changed"
    <3>1. PICK i \in DOMAIN audit[c].seen : audit[c].seen[i] = r
      BY <2>1
    <3>2. i \in 1..audit[c].observed
      BY <1>1, <2>1 DEF AuditSound, Checkpointed, AuditType
    <3> QED BY <3>1, <3>2, <1>1 DEF AuditSound
  <2>3. found'[c] = found[c] \cup {r}
    BY <1>1, <2>1
  <2> QED BY <1>2, <2>1, <2>2, <2>3 DEF Keeps
<1>7. ASSUME NEW e \in Endpoints, NEW p \in Packages, verify_device(c, e, p) PROVE Keeps(c)
  <2>1. /\ UNCHANGED <<checkpoint, accepted, revoked, found>>
        /\ trust[c][e].state # "changed"
        /\ trust' = [trust EXCEPT ![c][e].state = "verified"]
    BY <1>7 DEF verify_device
  <2>2. \A x \in Endpoints : trust[c][x].state = "changed" => trust'[c][x] = trust[c][x]
    BY <1>1, <2>1
  <2> QED BY <1>2, <2>1, <2>2 DEF Keeps
<1> QED BY <1>3, <1>4, <1>5, <1>6, <1>7

\* Every step keeps the evidence of every client.
LEMMA NextKeeps ==
    ASSUME Inv, [Next]_vars, NEW c \in Clients
    PROVE  Keeps(c)
<1>1. CASE Grow \/ Restore \/ UNCHANGED vars
  BY <1>1, OtherStepsKeep, SameKeeps DEF SameClient
<1>2. ASSUME NEW d \in Clients, Poll(d) \/ RequestFails(d) \/ Crash(d) PROVE Keeps(c)
  <2>1. CASE observe_device(d) \/ accept_checkpoint(d) \/ accept_revocations(d)
    <3>1. CASE d = c
      BY <2>1, <3>1, WritesKeep
    <3>2. CASE d # c
      <4>1. /\ checkpoint'[c] = checkpoint[c] /\ accepted'[c] = accepted[c]
            /\ revoked'[c] = revoked[c] /\ trust'[c] = trust[c] /\ found'[c] = found[c]
        BY <2>1, <3>2 DEF Inv, TypeOK, observe_device, accept_checkpoint, accept_revocations
      <4> QED BY <4>1, SameKeeps
    <3> QED BY <3>1, <3>2
  <2>2. CASE ~(observe_device(d) \/ accept_checkpoint(d) \/ accept_revocations(d))
    <3>1. UNCHANGED <<checkpoint, accepted, revoked, trust, found>>
      BY <1>2, <2>2 DEF Poll, RequestFails, Crash, AuditRegistrations, AuditRevocations,
                        pin_directory, AuditEnds, store
    <3> QED BY <3>1, SameKeeps
  <2> QED BY <2>1, <2>2
<1>3. ASSUME NEW d \in Clients, NEW r \in Registration, Lookup(d, r) PROVE Keeps(c)
  <2>1. CASE d = c
    BY <1>3, <2>1, WritesKeep
  <2>2. CASE d # c
    <3>1. UNCHANGED <<checkpoint, accepted, revoked, trust>> /\ found'[c] = found[c]
      BY <1>3, <2>2 DEF Inv, TypeOK, Lookup
    <3> QED BY <3>1, SameKeeps
  <2> QED BY <2>1, <2>2
<1>4. ASSUME NEW d \in Clients, NEW e \in Endpoints, NEW p \in Packages, verify_device(d, e, p)
      PROVE  Keeps(c)
  <2>1. CASE d = c
    BY <1>4, <2>1, WritesKeep
  <2>2. CASE d # c
    <3>1. UNCHANGED <<checkpoint, accepted, revoked, found>> /\ trust'[c] = trust[c]
      BY <1>4, <2>2 DEF Inv, TypeOK, verify_device
    <3> QED BY <3>1, SameKeeps
  <2> QED BY <2>1, <2>2
<1> QED BY <1>1, <1>2, <1>3, <1>4 DEF Next

\* What a client has accepted is never taken back or rewritten, and the evidence that
\* a device changed is never cleared.
THEOREM Evidence == Spec => EvidenceIsKept
<1>1. Inv /\ [Next]_vars =>
        [\A c \in Clients : /\ IsPrefix(checkpoint[c], checkpoint'[c])
                            /\ IsPrefix(accepted[c], accepted'[c])
                            /\ revoked[c] \subseteq revoked'[c]]_vars
  BY NextKeeps DEF Keeps
<1>2. Inv /\ [Next]_vars =>
        [\A c \in Clients, e \in Endpoints : trust[c][e].state = "changed" =>
            /\ trust'[c][e].state = "changed"
            /\ trust'[c][e].pin = trust[c][e].pin
            /\ {r \in found'[c] : r.endpoint = e} = {r \in found[c] : r.endpoint = e}]_vars
  BY NextKeeps DEF Keeps
<1>3. Spec => AcceptedOnlyGrows
  BY Invariant, <1>1, PTL DEF Spec, AcceptedOnlyGrows
<1>4. Spec => ChangedStaysBlocked
  BY Invariant, <1>2, PTL DEF Spec, ChangedStaysBlocked
<1> QED BY <1>3, <1>4 DEF EvidenceIsKept
=============================================================================
