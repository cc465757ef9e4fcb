---------------------------- MODULE ChannelPolicy ---------------------------
(***************************************************************************)
(* A channel under the dynamic authority: the coordinator's outbox carries, *)
(* for every change of membership, the policy, the Commit and the Welcome,   *)
(* in this order; the service installs the policy in the registry, relays    *)
(* the Welcome and hands out each KeyPackage once; the broker lets a device  *)
(* publish to the channel, and read it, as the policy has it.                *)
(*                                                                          *)
(* An MLS state is its epoch and its leaves: no two Commits lead to one.     *)
(* Application messages are module Conversation's, the faults inside a sync  *)
(* module GroupEpochs's: here a sync is an audit, the rows one by one, and   *)
(* then one step that processes the stream and reconciles.                   *)
(***************************************************************************)
EXTENDS AuthRegistry, Sequences

CONSTANTS
    Creator,      \* created the channel
    Partner,      \* and has let this device in
    Revocable,    \* devices that may be revoked
    Contested,    \* devices whose KeyPackage another channel may claim
    MaxChannelEpoch,     \* bound: MLS epochs
    MaxRevoked,   \* bound: devices revoked
    MaxInterrupts     \* bound: calls interrupted or answers lost

ASSUME ChannelAssumption ==
    /\ Creator \in Devices /\ Partner \in Devices \ {Creator} /\ Revocable \subseteq Devices
    /\ Contested \subseteq Devices /\ MaxChannelEpoch \in Nat \ {0}
    /\ MaxRevoked \in Nat /\ MaxInterrupts \in Nat

\* An MLS tree grows: there is a leaf for a device that has none.
ASSUME RoomAssumption ==
    \A m \in Membership : DOMAIN m # Devices => \E l \in Leaves : \A e \in DOMAIN m : m[e] # l

VARIABLES
    auth,  \* auth.sqlite
    claims,    \* claims.*: the channel a KeyPackage is reserved for, "" for none
    cutoff,    \* the CHAT sequence a revocation recorded
    stream,    \* CHAT, the handshakes
    mailbox,   \* MAILBOX: the Welcomes stored for a device
    taken,     \* ... of which it has acknowledged
    granted,   \* devices whose connection may publish to the channel
    group,     \* each device's MLS state and coordinator pin
    done,      \* sequences a device has processed
    known,     \* revocations a device has audited
    outbox,    \* unsent rows of a device
    op,        \* what a device is in the middle of
    made,      \* every Commit made
    interrupts

service == <<auth, claims, cutoff>>
broker == <<stream, mailbox, taken, granted>>
device == <<group, done>>
channelVars == <<service, broker, device, known, outbox, op, made, interrupts>>

State(n, m) == [epoch |-> n, members |-> m]
NoState == State(0, NoMembers)
NoGroup == [state |-> NoState, pin |-> NoOne]

policyRow(s) == [kind |-> "policy", parent |-> NoState, state |-> s, whom |-> NoOne]
commitRow(p, s) == [kind |-> "commit", parent |-> p, state |-> s, whom |-> NoOne]
welcomeRow(s, x) == [kind |-> "welcome", parent |-> NoState, state |-> s, whom |-> x]

Idle == [at |-> "idle"]
Flushing == [at |-> "flush"]

Interrupt == interrupts < MaxInterrupts /\ interrupts' = interrupts + 1

\* A new connection: its claims follow the registry.
Reconnected(registry, d) ==
    IF authorized_group(registry, d) THEN granted \cup {d} ELSE granted \ {d}

----------------------------------------------------------------------------
(* The MLS side of a device.                                               *)

Members(d) == DOMAIN group[d].state.members
Active(d) == d \in Members(d)
MoreLeaves(m, x) ==
    LET free == Leaves \ {m[e] : e \in DOMAIN m}
    IN  [e \in DOMAIN m \cup {x} |-> IF e \in DOMAIN m THEN m[e]
                                    ELSE CHOOSE l \in free : \A k \in free : l <= k]
Restricted(m, S) == [e \in DOMAIN m \ S |-> m[e]]

\* The pinned coordinator while it is a live member, then the lowest live leaf.
Elected(m, pin, gone) ==
    IF pin \in DOMAIN m \ gone THEN pin
    ELSE IF DOMAIN m \subseteq gone THEN NoOne ELSE LowestLeaf(Restricted(m, gone))

coordinator(d) == Elected(group[d].state.members, group[d].pin, known[d])

\* refresh_coordinator: the pin survives until its leaf is removed.
Refreshed(d, m) == IF group[d].pin \in DOMAIN m THEN group[d].pin
                   ELSE Elected(m, group[d].pin, known[d])

ensure_can_send(d) == Active(d) /\ Members(d) \cap known[d] = {}

\* queue_policy, the Commit and queue_welcome.
Rows(p, s, whom) ==
    <<policyRow(s), commitRow(p, s)>> \o (IF whom = NoOne THEN <<>> ELSE <<welcomeRow(s, whom)>>)

\* A Commit of d, merged locally and queued in one transaction.
Change(d, members, whom) ==
    LET old == group[d].state
        new == State(old.epoch + 1, members)
    IN  /\ old.epoch < MaxChannelEpoch
        /\ group' = [group EXCEPT ![d] = [state |-> new, pin |-> Refreshed(d, members)]]
        /\ outbox' = [outbox EXCEPT ![d] = @ \o Rows(old, new, whom)]
        /\ made' = made \cup {[from |-> d, parent |-> old, state |-> new, whom |-> whom]}

----------------------------------------------------------------------------
(* Invitations and removals.                                               *)

\* claim: a KeyPackage is reserved by the first channel that asks, and handed to
\* that channel whenever it asks again.
MayClaim(x, channel) == x \in enrollment(auth) /\ claims[x] \in {"", channel}

\* invite: after a sync, the audited lookup and the claim.  An answer that is
\* lost, or a client that stops, leaves the reservation behind.
ClaimKeyPackage(d, x) ==
    /\ op[d] = Idle /\ outbox[d] = <<>>
    /\ Active(d) /\ x \notin Members(d) /\ coordinator(d) = d
    /\ Members(d) \cap auth.revoked = {} /\ group[d].state.epoch < MaxChannelEpoch
    /\ MayClaim(x, "this")
    /\ claims' = [claims EXCEPT ![x] = "this"]
    /\ known' = [known EXCEPT ![d] = auth.revoked]
    /\ \/ op' = [op EXCEPT ![d] = [at |-> "claimed", whom |-> x]] /\ UNCHANGED interrupts
       \/ Interrupt /\ UNCHANGED op
    /\ UNCHANGED <<auth, cutoff, broker, device, outbox, made>>

OtherClaims(x) ==
    /\ x \in Contested /\ MayClaim(x, "other") /\ claims[x] # "other"
    /\ claims' = [claims EXCEPT ![x] = "other"]
    /\ UNCHANGED <<auth, cutoff, broker, device, known, outbox, op, made, interrupts>>

prepare_invitation(d) ==
    LET x == op[d].whom
    IN  /\ op[d].at = "claimed"
        /\ op' = [op EXCEPT ![d] = Idle]
        /\ IF ensure_can_send(d) /\ coordinator(d) = d /\ x \notin known[d] \cup Members(d)
           THEN Change(d, MoreLeaves(group[d].state.members, x), x)
           ELSE UNCHANGED <<group, outbox, made>>
        /\ UNCHANGED <<service, broker, done, known, interrupts>>

remove_member(d, x) ==
    /\ op[d] = Idle /\ x # d
    /\ ensure_can_send(d) /\ coordinator(d) = d /\ x \in Members(d)
    /\ Change(d, Without(group[d].state.members, x), NoOne)
    /\ UNCHANGED <<service, broker, done, known, op, interrupts>>

\* The Welcome at the head of the mailbox, from an inviter that can be looked up.
\* The KeyPackage's private key is used up: one Welcome can be accepted.
Inviter(s) == (CHOOSE m \in made : m.state = s).from

accept_welcome(d) ==
    LET s == mailbox[d][taken[d] + 1]
    IN  /\ op[d] = Idle /\ taken[d] < Len(mailbox[d]) /\ d \notin auth.revoked
        /\ Inviter(s) \notin auth.revoked
        /\ group[d] = NoGroup
        /\ group' = [group EXCEPT ![d] = [state |-> s, pin |-> Inviter(s)]]
        /\ taken' = [taken EXCEPT ![d] = @ + 1]
        /\ known' = [known EXCEPT ![d] = auth.revoked]
        /\ granted' = Reconnected(auth, d)
        /\ UNCHANGED <<service, stream, mailbox, done, outbox, op, made, interrupts>>

----------------------------------------------------------------------------
(* flush_outbox: the audit, then the rows in order up to the first failure. *)

Stop(d) == op' = [op EXCEPT ![d] = Idle]
Sent(d) == outbox' = [outbox EXCEPT ![d] = Tail(@)]
Row(d) == Head(outbox[d])

\* A call fails or the client stops.
Interrupted(d) ==
    /\ op[d] # Idle /\ Interrupt /\ Stop(d)
    /\ UNCHANGED <<service, broker, device, known, outbox, made>>

Audit(d) ==
    /\ op[d] = Idle /\ outbox[d] # <<>> /\ d \notin auth.revoked
    /\ known' = [known EXCEPT ![d] = auth.revoked]
    /\ op' = [op EXCEPT ![d] = Flushing]
    /\ UNCHANGED <<service, broker, device, outbox, made, interrupts>>

Flushed(d) == IF Len(outbox[d]) = 1 THEN Stop(d) ELSE op' = [op EXCEPT ![d] = Flushing]

\* dispatch, a policy row: ask for the state ...
PolicyQuery(d) ==
    /\ op[d] = Flushing /\ Row(d).kind = "policy"
    /\ op' = [op EXCEPT ![d] = [at |-> "asked", seen |-> auth.policy]]
    /\ UNCHANGED <<service, broker, device, known, outbox, made, interrupts>>

\* Mutant of Current: an update whose answer was lost is not recognised.
NeverCurrent(p, s, d) == FALSE

\* ... whose answer may show the row's own update, from an attempt before.
Current(p, s, d) ==
    p.generation > 0 /\ p.epoch = s.epoch /\ p.members = s.members /\ p.coordinator = d

\* Mutant of Intent: the policy names the members of the device's group now.
IntentOfNow(d) ==
    [expected |-> op[d].seen.generation, epoch |-> Row(d).state.epoch, signer |-> d,
     members |-> group[d].state.members]

Intent(d) ==
    [expected |-> op[d].seen.generation, epoch |-> Row(d).state.epoch, signer |-> d,
     members |-> Row(d).state.members]

Applied(d) ==
    IF Current(op[d].seen, Row(d).state, d) THEN auth ELSE apply_policy(auth, Intent(d))

Refused(d) == ~Current(op[d].seen, Row(d).state, d) /\ ~may_apply(auth, Intent(d))

\* The update, a new connection and the row marked; the answer may be lost
\* after the update, or the mark after the new connection.
GroupPolicy(d) ==
    /\ op[d].at = "asked"
    /\ IF Refused(d)
       THEN Stop(d) /\ UNCHANGED <<auth, granted, outbox, interrupts>>
       ELSE /\ auth' = Applied(d)
            /\ \/ /\ granted' = Reconnected(auth', d)
                  /\ Flushed(d) /\ Sent(d) /\ UNCHANGED interrupts
               \/ /\ granted' \in {granted, Reconnected(auth', d)}
                  /\ Stop(d) /\ Interrupt /\ UNCHANGED outbox
    /\ UNCHANGED <<claims, cutoff, stream, mailbox, taken, device, known, made>>

\* A handshake row.  JetStream stores it once.
InStream(row) == \E n \in 1..Len(stream) : stream[n].row = row

PublishCommit(d) ==
    /\ op[d] = Flushing /\ Row(d).kind = "commit"
    /\ IF d \notin granted
       THEN Stop(d) /\ UNCHANGED <<stream, outbox, interrupts>>
       ELSE /\ stream' = IF InStream(Row(d)) THEN stream
                         ELSE Append(stream, [from |-> d, row |-> Row(d)])
            /\ \/ Flushed(d) /\ Sent(d) /\ UNCHANGED interrupts
               \/ Stop(d) /\ Interrupt /\ UNCHANGED outbox
    /\ UNCHANGED <<service, mailbox, taken, granted, device, known, made>>

\* WelcomeRelay::validate, and the relay.
MayRelay(d, s, x) ==
    /\ authorize(auth, d) /\ authorize(auth, x)
    /\ auth.policy.coordinator = d /\ auth.policy.epoch = s.epoch
    /\ x \in DOMAIN auth.policy.members

Relayed(s, x) == \E n \in 1..Len(mailbox[x]) : mailbox[x][n] = s

RelayWelcome(d) ==
    LET s == Row(d).state
        x == Row(d).whom
    IN  /\ op[d] = Flushing /\ Row(d).kind = "welcome"
        /\ IF ~MayRelay(d, s, x)
           THEN Stop(d) /\ UNCHANGED <<mailbox, outbox, interrupts>>
           ELSE /\ mailbox' = IF Relayed(s, x) THEN mailbox
                              ELSE [mailbox EXCEPT ![x] = Append(@, s)]
                /\ \/ Flushed(d) /\ Sent(d) /\ UNCHANGED interrupts
                   \/ Stop(d) /\ Interrupt /\ UNCHANGED outbox
        /\ UNCHANGED <<service, stream, taken, granted, device, known, made>>

----------------------------------------------------------------------------
(* catch_up and reconcile_revocations, after a flush that left nothing.     *)

\* validate_commit_author: the pin's Commits up to its cutoff; the elected
\* successor's if they remove exactly the revoked leaves it knows.
Accepted(g, entry, n, gone) ==
    /\ entry.row.parent = g.state
    /\ entry.from \in gone => n <= cutoff[entry.from]
    /\ \/ entry.from = g.pin
       \/ /\ entry.from = Elected(g.state.members, g.pin, gone)
          /\ DOMAIN g.state.members \cap gone # {}
          /\ entry.row.state.members = Restricted(g.state.members, gone)

Merge(g, entry, n, gone) ==
    LET s == entry.row.state
    IN  IF ~Accepted(g, entry, n, gone) THEN g
        ELSE [state |-> s, pin |-> IF g.pin \in DOMAIN s.members THEN g.pin
                                   ELSE Elected(s.members, g.pin, gone)]

Backlog(d) == IF group[d] # NoGroup /\ authorized_group(auth, d) THEN Len(stream) ELSE done[d]

\* The filtered consumer delivers the channel only to members of its policy.
CaughtUp(d) ==
    LET g[n \in done[d]..Backlog(d)] ==
            IF n = done[d] THEN group[d]
            ELSE IF d \in DOMAIN g[n - 1].state.members
                 THEN Merge(g[n - 1], stream[n], n, auth.revoked) ELSE g[n - 1]
    IN  g[Backlog(d)]

\* The coordinator removes the revoked members it knows of.
Sync(d) ==
    LET g == CaughtUp(d)
        gone == auth.revoked
        members == DOMAIN g.state.members
        new == State(g.state.epoch + 1, Restricted(g.state.members, gone))
        removes == d \in members /\ Elected(g.state.members, g.pin, gone) = d
                   /\ members \cap gone # {}
    IN  /\ op[d] = Idle /\ outbox[d] = <<>> /\ d \notin gone
        /\ known' = [known EXCEPT ![d] = gone]
        /\ done' = [done EXCEPT ![d] = Backlog(d)]
        /\ IF removes
           THEN /\ group' = [group EXCEPT ![d] =
                        [state |-> new, pin |-> IF g.pin \in DOMAIN new.members THEN g.pin
                                                ELSE Elected(new.members, g.pin, gone)]]
                /\ outbox' = [outbox EXCEPT ![d] = Rows(g.state, new, NoOne)]
                /\ made' = made \cup {[from |-> d, parent |-> g.state, state |-> new,
                                       whom |-> NoOne]}
           ELSE group' = [group EXCEPT ![d] = g] /\ UNCHANGED <<outbox, made>>
        /\ UNCHANGED <<service, broker, op, interrupts>>

----------------------------------------------------------------------------
(* The service and the broker.                                             *)

\* The revocation is in the log with its cutoff and the registry follows.  Claims
\* already issued stay valid until they expire.
Revoke(x) ==
    /\ x \in Revocable \cap enrollment(auth) /\ Cardinality(auth.revoked) < MaxRevoked
    /\ auth' = revoke(auth, x)
    /\ cutoff' = [cutoff EXCEPT ![x] = Len(stream)]
    /\ UNCHANGED <<claims, broker, device, known, outbox, op, made, interrupts>>

\* A lease ends and the client connects again: the claims follow the registry.
Readmit(d) ==
    /\ granted' = Reconnected(auth, d)
    /\ granted' # granted
    /\ UNCHANGED <<service, stream, mailbox, taken, device, known, outbox, op, made, interrupts>>

\* Every device is enrolled and active; the creator's channel has its first
\* partner, and nothing is under way.
First == State(0, [d \in {Creator} |-> 0])
Pair == State(1, MoreLeaves(First.members, Partner))
InPair(d, yes, no) == IF d \in {Creator, Partner} THEN yes ELSE no

Founded ==
    LET created == [expected |-> 0, epoch |-> 0, signer |-> Creator, members |-> First.members]
        invited == [expected |-> 1, epoch |-> 1, signer |-> Creator, members |-> Pair.members]
    IN  apply_policy(apply_policy([EmptyRegistry EXCEPT !.rows = Devices, !.ready = Devices],
                                  created), invited)

ChannelInit ==
    /\ auth = Founded
    /\ claims = [d \in Devices |-> IF d = Partner THEN "this" ELSE ""]
    /\ cutoff = [d \in Devices |-> 0]
    /\ stream = <<[from |-> Creator, row |-> commitRow(First, Pair)]>>
    /\ mailbox = [d \in Devices |-> IF d = Partner THEN <<Pair>> ELSE <<>>]
    /\ taken = [d \in Devices |-> Len(mailbox[d])]
    /\ granted = {Creator, Partner}
    /\ group = [d \in Devices |-> InPair(d, [state |-> Pair, pin |-> Creator], NoGroup)]
    /\ done = [d \in Devices |-> InPair(d, 1, 0)]
    /\ known = [d \in Devices |-> {}]
    /\ outbox = [d \in Devices |-> <<>>]
    /\ op = [d \in Devices |-> Idle]
    /\ made = {[from |-> Creator, parent |-> First, state |-> Pair, whom |-> Partner]}
    /\ interrupts = 0

\* What a running client does by itself.
Client(d) ==
    \/ Audit(d) \/ PolicyQuery(d) \/ GroupPolicy(d) \/ PublishCommit(d) \/ RelayWelcome(d)
    \/ Sync(d) \/ prepare_invitation(d)

ChannelNext ==
    \/ \E d \in Devices : \/ Client(d) \/ accept_welcome(d) \/ Interrupted(d) \/ Readmit(d)
                          \/ OtherClaims(d) \/ Revoke(d)
    \/ \E d, x \in Devices : ClaimKeyPackage(d, x) \/ remove_member(d, x)

ChannelSpec == ChannelInit /\ [][ChannelNext]_channelVars

\* Clients that are not stopped for good keep syncing, and leases end.
FairChannelSpec == ChannelSpec /\ \A d \in Devices : WF_channelVars(Client(d)) /\ WF_channelVars(Readmit(d))

----------------------------------------------------------------------------
(* Properties.                                                             *)

States == [epoch : 0..(MaxChannelEpoch + MaxRevoked), members : Membership]

\* The tables hold what they can hold, and the registry is sound.
ChannelTypeOK ==
    /\ auth \in [rows : {Devices}, ready : {Devices}, revoked : SUBSET Revocable,
                     generation : [Devices -> Nat], used : {[t \in Tokens |-> NoOne]},
                     policy : Policy]
    /\ Sound(auth)
    /\ claims \in [Devices -> {"", "this", "other"}]
    /\ granted \subseteq Devices /\ interrupts \in 0..MaxInterrupts
    /\ \A d \in Devices :
        /\ group[d].state \in States /\ group[d].pin \in Devices \cup {NoOne}
        /\ Distinct(group[d].state.members)
        /\ done[d] \in 0..Len(stream) /\ taken[d] \in 0..Len(mailbox[d])
        /\ cutoff[d] \in 0..Len(stream) /\ known[d] \subseteq auth.revoked
        /\ \A n \in 1..Len(outbox[d]) : outbox[d][n].state \in States

\* A Commit reaches the channel after the policy that lets its new members read it
\* and its old ones no longer.
PolicyBeforeCommit ==
    \A n \in 1..Len(stream) : stream[n].row.state.epoch <= auth.policy.epoch

\* A Welcome is relayed after its Commit, to a device that was allowed in by it:
\* whoever joins can follow the channel from there.
WelcomeAfterCommit ==
    \A d \in Devices : \A n \in 1..Len(mailbox[d]) :
        \E k \in 1..Len(stream) : stream[k].row.state = mailbox[d][n]

\* The registry's members are those of an MLS group some coordinator has made, less
\* the revoked: retries, restarts and lost answers never mix two epochs.
PolicyIsAGroup ==
    LET p == auth.policy
    IN  \E s \in {m.state : m \in made} :
            p.epoch = s.epoch /\ p.members = Restricted(s.members, auth.revoked)

\* A channel adds a device only with the KeyPackage reserved for it.
AddsAreClaimed == \A m \in made : m.whom # NoOne => claims[m.whom] = "this"

\* Policy, Commit and Welcome of a membership change take effect in this order,
\* each of a group that a coordinator made of claimed devices.
PolicyIsSound ==
    /\ ChannelTypeOK /\ PolicyBeforeCommit /\ WelcomeAfterCommit
    /\ PolicyIsAGroup /\ AddsAreClaimed

\* A device that left the policy, removed or revoked, comes back only with a newer
\* epoch, and no policy is older than the one before.
NoRevival ==
    [][LET old == auth.policy
           new == auth'.policy
       IN  /\ old.epoch <= new.epoch
           /\ DOMAIN new.members \subseteq DOMAIN old.members \/ old.epoch < new.epoch
              \/ old.generation = 0]_auth

Joined(d) == group[d] # NoGroup

\* The members' rows are sent, revoked members are removed, and the registry has
\* the coordinator's group.  A channel whose coordinator never joined waits for it.
AtRest ==
    /\ \A d \in DOMAIN auth.policy.members :
        /\ outbox[d] = <<>>
        /\ Active(d) /\ Joined(coordinator(d)) => Members(d) \cap auth.revoked = {}
    /\ LET c == auth.policy.coordinator
       IN  c # NoOne /\ Joined(c)
           => group[c].state = State(auth.policy.epoch, auth.policy.members)

Names(row, x) == IF row.kind = "welcome" THEN row.whom = x ELSE x \in DOMAIN row.state.members

\* A row is unsent and its device, or a device it names, is revoked; or a revoked
\* device's Commit came after the cutoff.
Crossed ==
    \/ \E d \in Devices : \E n \in 1..Len(outbox[d]) :
            d \in auth.revoked \/ \E x \in auth.revoked : Names(outbox[d][n], x)
    \/ \E n \in 1..Len(stream) :
            stream[n].from \in auth.revoked /\ n > cutoff[stream[n].from]

\* An initial KeyPackage is used for one Add.
KeyPackageOnce ==
    \A m, n \in made : m.whom # NoOne /\ m.whom = n.whom => m = n

\* A channel settles, unless a revocation crosses rows about the device or a
\* member that had left was invited with the KeyPackage it has used.
Converges == <>[](Crossed \/ ~KeyPackageOnce \/ AtRest)

\* Queued work is retained for retry until it is done.
RetriesSucceed == <>[](\A d \in enrollment(auth) : outbox[d] = <<>>)
=============================================================================
