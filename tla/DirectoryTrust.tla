--------------------------- MODULE DirectoryTrust ---------------------------
(***************************************************************************)
(* A client's side of the directory: audits of the two signed journals,      *)
(* prefix checkpoints, trust-on-first-use pins and manual verification.      *)
(*                                                                          *)
(* The journals grow as SignedLogs says.  They may also be restored from an  *)
(* older copy, possibly under another service key, and grow differently     *)
(* afterwards: what the checkpoints and pins are there to notice.  A Merkle   *)
(* root stands for the entries it commits to.                               *)
(*                                                                          *)
(* An audit is two requests followed by one SQLite write after another, each *)
(* of which is an action; the process may stop between any two.             *)
(***************************************************************************)
EXTENDS LogRecords, SequencesExt

CONSTANTS
    Clients,       \* installations
    Signers,       \* service keys
    None,          \* nothing pinned yet
    MaxRevocations,\* bound on the length of the revocation journal
    MaxRestores,   \* bound on restored journals
    MaxFaults      \* bound on failed requests and stopped processes

ASSUME ClientsAssumption == None \notin Signers \cup Packages /\ Signers # {}
ASSUME BoundsAssumption == MaxRevocations \in Nat /\ MaxRestores \in Nat /\ MaxFaults \in Nat

VARIABLES
    entries,      \* the registration journal
    revocations,  \* the revocation journal
    signer,       \* the key that signs both
    restores,
    pinned,       \* transparency_state.signer
    checkpoint,   \* transparency_state.checkpoint
    accepted,     \* revocation_checkpoint
    revoked,      \* revoked_devices
    trust,        \* device_trust: [pin, latest, state] per endpoint
    alert,        \* trust_alert is set
    found,        \* registrations a lookup returned
    audit,        \* the audit in progress
    faults

journals == <<entries, revocations, signer, restores>>
store == <<pinned, checkpoint, accepted, revoked, trust, alert, found>>
vars == <<journals, store, audit, faults>>

Logs == INSTANCE SignedLogs

\* An audit: the snapshots it was answered with and the entries it has observed.
NoAudit == [at |-> "idle", seen |-> << >>, signer |-> None, revs |-> << >>, observed |-> 0]
Unknown == [pin |-> None, latest |-> None, state |-> "unknown"]

Init ==
    /\ Logs!Init
    /\ signer \in Signers
    /\ restores = 0
    /\ pinned = [c \in Clients |-> None]
    /\ checkpoint = [c \in Clients |-> << >>]
    /\ accepted = [c \in Clients |-> << >>]
    /\ revoked = [c \in Clients |-> {}]
    /\ trust = [c \in Clients |-> [e \in Endpoints |-> Unknown]]
    /\ alert = [c \in Clients |-> FALSE]
    /\ found = [c \in Clients |-> {}]
    /\ audit = [c \in Clients |-> NoAudit]
    /\ faults = 0

----------------------------------------------------------------------------
(* The journals.                                                           *)

Grow ==
    /\ Logs!Next
    /\ Len(revocations') <= MaxRevocations
    /\ UNCHANGED <<signer, restores, store, audit, faults>>

Restore ==
    /\ restores < MaxRestores
    /\ restores' = restores + 1
    /\ \E n \in 0..Len(entries), m \in 0..Len(revocations) :
         /\ entries' = SubSeq(entries, 1, n)
         /\ revocations' = SubSeq(revocations, 1, m)
         /\ ValidLog(revocations', entries')
    /\ signer' \in Signers
    /\ UNCHANGED <<store, audit, faults>>

----------------------------------------------------------------------------
(* audit.                                                                  *)

Becomes(c, a) == audit' = [audit EXCEPT ![c] = a]

\* Mutant: the error is returned and nothing is stored.
FailsSilently(c) == Becomes(c, NoAudit) /\ UNCHANGED alert

\* Every error, a failed request included, leaves a persistent warning.
Fails(c) ==
    /\ alert' = [alert EXCEPT ![c] = TRUE]
    /\ Becomes(c, NoAudit)

RequestFails(c) ==
    /\ audit[c].at \in {"idle", "registrations"}
    /\ faults < MaxFaults
    /\ faults' = faults + 1
    /\ Fails(c)
    /\ UNCHANGED <<journals, pinned, checkpoint, accepted, revoked, trust, found>>

AuditRegistrations(c) ==
    /\ audit[c].at = "idle"
    /\ Becomes(c, [NoAudit EXCEPT !.at = "registrations", !.seen = entries, !.signer = signer])
    /\ UNCHANGED <<journals, store, faults>>

\* The revocations are validated against the registrations of the first answer.
AuditRevocations(c) ==
    LET a == audit[c]
    IN
    /\ a.at = "registrations"
    /\ IF signer = a.signer /\ ValidLog(revocations, a.seen)
       THEN Becomes(c, [a EXCEPT !.at = "pin", !.revs = revocations]) /\ UNCHANGED alert
       ELSE Fails(c)
    /\ UNCHANGED <<journals, pinned, checkpoint, accepted, revoked, trust, found, faults>>

pin_directory(c) ==
    LET a == audit[c]
    IN
    /\ a.at = "pin"
    /\ IF pinned[c] \in {None, a.signer}
       THEN /\ pinned' = [pinned EXCEPT ![c] = a.signer]
            /\ Becomes(c, [a EXCEPT !.at = "observe"])
            /\ UNCHANGED alert
       ELSE Fails(c) /\ UNCHANGED pinned
    /\ UNCHANGED <<journals, checkpoint, accepted, revoked, trust, found, faults>>

\* The binding after a package is observed.
Observation(t, p) ==
    CASE t.state = "unknown" -> [pin |-> p, latest |-> p, state |-> "unverified"]
      [] t.state # "unknown" /\ t.pin # p -> [t EXCEPT !.latest = p, !.state = "changed"]
      [] OTHER -> t

\* observe_device, for the next entry of the snapshot, each in its own transaction
\* and all before the prefix is checked.
observe_device(c) ==
    LET a == audit[c]
        r == a.seen[a.observed + 1]
        t == Observation(trust[c][r.endpoint], r.package)
    IN
    /\ a.at = "observe"
    /\ a.observed < Len(a.seen)
    /\ trust' = [trust EXCEPT ![c][r.endpoint] = t]
    /\ IF t.state = "changed" THEN Fails(c)
       ELSE Becomes(c, [a EXCEPT !.observed = @ + 1]) /\ UNCHANGED alert
    /\ UNCHANGED <<journals, pinned, checkpoint, accepted, revoked, found, faults>>

\* Mutant: only the size is compared.
LongerThan(previous, log) == Len(previous) <= Len(log)

\* Snapshot::extends and the same test of accept_revocations: the retained root is
\* the root of as many first entries.
Extends(previous, log) == IsPrefix(previous, log)

accept_checkpoint(c) ==
    LET a == audit[c]
    IN
    /\ a.at = "observe"
    /\ a.observed = Len(a.seen)
    /\ IF Extends(checkpoint[c], a.seen)
       THEN /\ checkpoint' = [checkpoint EXCEPT ![c] = a.seen]
            /\ Becomes(c, [a EXCEPT !.at = "revocations"])
            /\ UNCHANGED alert
       ELSE Fails(c) /\ UNCHANGED checkpoint
    /\ UNCHANGED <<journals, pinned, accepted, revoked, trust, found, faults>>

\* Mutant: revocations are stored before the checkpoint they are validated against.
RevocationsFirst(c) ==
    LET a == audit[c]
    IN
    /\ a.at = "observe" /\ a.observed = Len(a.seen)
    /\ Extends(accepted[c], a.revs)
    /\ accepted' = [accepted EXCEPT ![c] = a.revs]
    /\ revoked' = [revoked EXCEPT ![c] = @ \cup Targets(a.revs)]
    /\ alert' = [alert EXCEPT ![c] = FALSE]
    /\ Becomes(c, [a EXCEPT !.at = "audited"])
    /\ UNCHANGED <<journals, pinned, checkpoint, trust, found, faults>>

\* Mutant: the warning is not cleared.
KeepsWarning(c) ==
    LET a == audit[c]
    IN
    /\ a.at = "revocations"
    /\ Extends(accepted[c], a.revs)
    /\ accepted' = [accepted EXCEPT ![c] = a.revs]
    /\ revoked' = [revoked EXCEPT ![c] = @ \cup Targets(a.revs)]
    /\ Becomes(c, [a EXCEPT !.at = "audited"])
    /\ UNCHANGED <<journals, pinned, checkpoint, trust, alert, found, faults>>

\* One transaction; clear_transparency_warning, which follows it at once, is part of
\* the step.
accept_revocations(c) ==
    LET a == audit[c]
    IN
    /\ a.at = "revocations"
    /\ IF Extends(accepted[c], a.revs)
       THEN /\ accepted' = [accepted EXCEPT ![c] = a.revs]
            /\ revoked' = [revoked EXCEPT ![c] = @ \cup Targets(a.revs)]
            /\ alert' = [alert EXCEPT ![c] = FALSE]
            /\ Becomes(c, [a EXCEPT !.at = "audited"])
       ELSE Fails(c) /\ UNCHANGED <<accepted, revoked>>
    /\ UNCHANGED <<journals, pinned, checkpoint, trust, found, faults>>

\* lookup returns the audited record of a device not known to be revoked.
Lookup(c, r) ==
    /\ audit[c].at = "audited"
    /\ \E i \in DOMAIN audit[c].seen : audit[c].seen[i] = r
    /\ r.endpoint \notin revoked[c]
    /\ found' = [found EXCEPT ![c] = @ \cup {r}]
    /\ Becomes(c, NoAudit)
    /\ UNCHANGED <<journals, pinned, checkpoint, accepted, revoked, trust, alert, faults>>

AuditEnds(c) ==
    /\ audit[c].at = "audited"
    /\ Becomes(c, NoAudit)
    /\ UNCHANGED <<journals, store, faults>>

Crash(c) ==
    /\ audit[c].at # "idle"
    /\ faults < MaxFaults
    /\ faults' = faults + 1
    /\ Becomes(c, NoAudit)
    /\ UNCHANGED <<journals, store>>

\* verify_device: the fingerprint obtained out of band must be the pinned one.
verify_device(c, e, p) ==
    /\ audit[c].at = "idle"
    /\ trust[c][e].state \in {"unverified", "verified"}
    /\ trust[c][e].pin = p
    /\ trust' = [trust EXCEPT ![c][e].state = "verified"]
    /\ UNCHANGED <<journals, pinned, checkpoint, accepted, revoked, alert, found, audit, faults>>

----------------------------------------------------------------------------

Poll(c) ==
    \/ AuditRegistrations(c) \/ AuditRevocations(c) \/ pin_directory(c) \/ observe_device(c)
    \/ accept_checkpoint(c) \/ accept_revocations(c) \/ AuditEnds(c)

Next ==
    \/ Grow \/ Restore
    \/ \E c \in Clients : Poll(c) \/ RequestFails(c) \/ Crash(c)
    \/ \E c \in Clients, r \in Registration : Lookup(c, r)
    \/ \E c \in Clients, e \in Endpoints, p \in Packages : verify_device(c, e, p)

Spec == Init /\ [][Next]_vars

\* A running client keeps polling.
FairSpec == Spec /\ \A c \in Clients : WF_vars(Poll(c))
----------------------------------------------------------------------------
(* Properties.                                                             *)

\* Type correctness of the journals and of what a client keeps of them.
TypeOK ==
    /\ entries \in Seq(Registration)
    /\ revocations \in Seq(Request)
    /\ signer \in Signers
    /\ restores \in Nat
    /\ pinned \in [Clients -> Signers \cup {None}]
    /\ checkpoint \in [Clients -> Seq(Registration)]
    /\ accepted \in [Clients -> Seq(Request)]
    /\ revoked \in [Clients -> SUBSET Endpoints]
    /\ trust \in [Clients -> [Endpoints -> [pin : Packages \cup {None},
                                           latest : Packages \cup {None},
                                           state : {"unknown", "unverified", "verified", "changed"}]]]
    /\ alert \in [Clients -> BOOLEAN]
    /\ found \in [Clients -> SUBSET Registration]
    /\ audit \in [Clients -> [at : {"idle", "registrations", "pin", "observe", "revocations", "audited"},
                             seen : Seq(Registration), signer : Signers \cup {None},
                             revs : Seq(Request), observed : Nat]]
    /\ \A c \in Clients : audit[c].observed <= Len(audit[c].seen)
    /\ faults \in Nat

\* What a client has accepted is never taken back or rewritten, whatever the
\* service answers afterwards, and a device once known to be revoked stays so.
AcceptedOnlyGrows ==
    [][\A c \in Clients : /\ IsPrefix(checkpoint[c], checkpoint'[c])
                          /\ IsPrefix(accepted[c], accepted'[c])
                          /\ revoked[c] \subseteq revoked'[c]]_vars

\* A client never uses two identities for one endpoint, and never one that differs
\* from its pin, across restored journals, re-registrations and interrupted audits.
NoSilentReplacement ==
    \A c \in Clients : \A r \in found[c] : trust[c][r.endpoint].pin = r.package

\* Changed-device evidence is kept: neither the old identity's return nor a manual
\* verification nor a later successful audit clears it.
ChangedStaysBlocked ==
    [][\A c \in Clients, e \in Endpoints : trust[c][e].state = "changed" =>
         /\ trust'[c][e].state = "changed"
         /\ trust'[c][e].pin = trust[c][e].pin
         /\ {r \in found'[c] : r.endpoint = e} = {r \in found[c] : r.endpoint = e}]_vars

\* Every revocation a client has accepted is of a registration in its accepted
\* checkpoint, even when it stopped between the two writes.
RevokedAreRegistered ==
    \A c \in Clients : /\ revoked[c] = Targets(accepted[c])
                       /\ revoked[c] \subseteq Registered(checkpoint[c])

\* A service whose journals only grew blocks no client: nothing looks changed and
\* every checkpoint is a prefix of the journal.
HonestLogAccepted ==
    restores = 0 => \A c \in Clients :
        /\ IsPrefix(checkpoint[c], entries)
        /\ IsPrefix(accepted[c], revocations)
        /\ \A e \in Endpoints : trust[c][e].state # "changed"

\* What a client believes of other devices holds together.
TrustIsSound ==
    /\ TypeOK /\ NoSilentReplacement /\ RevokedAreRegistered /\ HonestLogAccepted

\* What a client holds against the service or a device is never lost.
EvidenceIsKept == AcceptedOnlyGrows /\ ChangedStaysBlocked

\* While the journals only grow, a warning does not stay: an audit that raced an
\* append, or failed on the way, is followed by one that succeeds.
WarningsClear ==
    \A c \in Clients : [](restores = 0) => []<>(~alert[c])

\* A journal that stays in conflict with a client's checkpoint is noticed.
RewriteIsNoticed ==
    \A c \in Clients : []<>(alert[c] \/ IsPrefix(checkpoint[c], entries))
=============================================================================
