---------------------------- MODULE GroupEpochs ----------------------------
(***************************************************************************)
(* One encrypted channel: the MLS epochs of its devices, the Commits and   *)
(* application messages they exchange through the CHAT stream, the Welcomes *)
(* they exchange through MAILBOX, and the revocation of a device by the     *)
(* identity service.                                                        *)
(*                                                                          *)
(* An MLS epoch is identified by the Commit that created it: `commits' is   *)
(* the set of epochs ever created, commits[1] being the founding one, and   *)
(* mls[d] is the epoch device d holds (0 when d has not joined).  What MLS  *)
(* itself guarantees is taken for granted: a handshake or a message is      *)
(* readable exactly in the epoch it was made in (no past epoch is kept),    *)
(* and a Commit's author and membership change are authentic.               *)
(*                                                                          *)
(* A device is one process on one SQLite store.  Every store transaction is *)
(* one action; the program point pc[d] says where in resume, send, invite   *)
(* or join_next the process is, and is lost when the process stops.         *)
(***************************************************************************)
EXTENDS Naturals, Sequences, FiniteSets

CONSTANTS
    Devices,         \* every enrolled device
    NoOne,           \* a vacated leaf; no device
    Roster,          \* the founding members in leaf order; Roster[1] created the group
    MaxCommits,      \* bound on the epochs an invitation may create
    Writers,         \* the devices whose owners write
    MaxMessages,     \* bound on application messages encrypted
    Revocable,       \* the devices somebody may ask to revoke
    MaxRevocations,  \* bound on revocations requested
    MaxFaults,       \* bound on crashes, lost acknowledgments and broken fetches
    OfflineUse       \* whether devices also read and write without a connection

ASSUME DevicesAssumption == NoOne \notin Devices /\ Revocable \subseteq Devices /\ Writers \subseteq Devices
ASSUME RosterAssumption ==
    /\ Roster \in Seq(Devices)
    /\ Roster # << >>
    /\ \A i, j \in 1..Len(Roster) : Roster[i] = Roster[j] => i = j
ASSUME BoundsAssumption ==
    /\ MaxCommits \in Nat /\ MaxMessages \in Nat
    /\ MaxRevocations \in Nat /\ MaxFaults \in Nat
    /\ OfflineUse \in BOOLEAN

VARIABLES
    commits,     \* epochs: [parent, author, leaves, epoch], identified by their index
    messages,    \* application ciphertexts: [author, state]
    chat,        \* the CHAT stream; a stream sequence is an index
    mailbox,     \* MAILBOX, per recipient: Welcomes not yet acknowledged
    revLog,      \* the revocation journal: [device, cutoff]
    revoking,    \* the revoke request being served: cutoff read, entry not yet appended
    fenced,      \* devices the broker no longer admits
    mls,         \* the epoch each device holds
    joined,      \* the epoch a device joined at (group_join_epochs, welcomes)
    pin,         \* group_coordinators: the stored coordinator
    known,       \* length of the revocation journal a device has accepted
    outbox,      \* outbox rows in id order: [kind, ref, to, state]
    staged,      \* chat_deliveries: CHAT sequences staged
    done,        \* ... of which processed or rejected
    rejected,    \* ... quarantined sequences
    pc,          \* program point of the device's process
    peer,        \* the inviter a join looked up
    faults       \* faults spent

broker == <<chat, mailbox, revLog, revoking, fenced>>
store == <<mls, joined, pin, known, outbox, staged, done, rejected>>
vars == <<commits, messages, broker, store, pc, peer, faults>>

----------------------------------------------------------------------------
(* Membership of an epoch.                                                 *)

Members(leaves) == {leaves[i] : i \in DOMAIN leaves} \ {NoOne}

\* A removal blanks the leaf; an addition takes the leftmost blank leaf.
Blank(leaves, gone) ==
    [i \in DOMAIN leaves |-> IF leaves[i] \in gone THEN NoOne ELSE leaves[i]]

AddLeaf(leaves, x) ==
    LET vacant == {i \in DOMAIN leaves : leaves[i] = NoOne}
    IN  IF vacant = {} THEN Append(leaves, x)
        ELSE [leaves EXCEPT ![CHOOSE i \in vacant : \A j \in vacant : i <= j] = x]

MembersOf(s) == Members(commits[s].leaves)

Revoked == {revLog[i].device : i \in DOMAIN revLog}
KnownRevoked(n) == {revLog[i].device : i \in 1..n}
Cutoff(x) == revLog[CHOOSE i \in DOMAIN revLog : revLog[i].device = x].cutoff

LowestLive(leaves, gone) ==
    LET live == {i \in DOMAIN leaves : leaves[i] \in Devices \ gone}
    IN  IF live = {} THEN NoOne
        ELSE leaves[CHOOSE i \in live : \A j \in live : i <= j]

\* The pinned coordinator while it is an unrevoked member, else the lowest
\* unrevoked leaf.
coordinator(leaves, p, gone) ==
    IF p \in Members(leaves) \ gone THEN p ELSE LowestLive(leaves, gone)

\* Mutant: elect again on every Commit.
RepinLowest(leaves, p, gone) == LowestLive(leaves, gone)

\* Keep the pinned coordinator until its leaf is removed.
refresh_coordinator(leaves, p, gone) ==
    IF p \in Members(leaves) \/ LowestLive(leaves, gone) = NoOne THEN p
    ELSE coordinator(leaves, p, gone)

Active(d) == mls[d] # 0 /\ d \in MembersOf(mls[d])

\* The rows flush_outbox still has to publish.  "stored" rows are in the stream,
\* but their acknowledgment was lost.
Pending(rows) == {i \in DOMAIN rows : rows[i].state \in {"unsent", "stored"}}

\* Mutant: the newest row first.
NewestRow(rows) == CHOOSE n \in Pending(rows) : \A m \in Pending(rows) : n >= m

\* Rows are published in the order they were queued.
NextRow(rows) == CHOOSE n \in Pending(rows) : \A m \in Pending(rows) : n <= m

\* Mutant: nothing is held back.
BlockNothing(d, rows, gone) == rows

\* No application ciphertext leaves a group that holds a known revoked leaf,
\* or that this device has been removed from.
block_revoked_outbox(d, rows, gone) ==
    IF Active(d) /\ MembersOf(mls[d]) \cap gone = {} THEN rows
    ELSE [i \in DOMAIN rows |->
            IF rows[i].kind = "message" /\ i \in Pending(rows)
            THEN [rows[i] EXCEPT !.state = "blocked"] ELSE rows[i]]

ensure_can_send(d, gone) ==
    /\ d \notin gone
    /\ Active(d)
    /\ MembersOf(mls[d]) \cap gone = {}

HandshakeRow(c) == [kind |-> "handshake", ref |-> c, to |-> NoOne, state |-> "unsent"]
WelcomeRow(c, x) == [kind |-> "welcome", ref |-> c, to |-> x, state |-> "unsent"]
MessageRow(m) == [kind |-> "message", ref |-> m, to |-> NoOne, state |-> "unsent"]

----------------------------------------------------------------------------
(* The founding epoch is held by every founding device with its creator    *)
(* pinned; a Roster of length one is the state create_group leaves.        *)

Founders == {Roster[i] : i \in DOMAIN Roster}
FirstState == [parent |-> 0, author |-> Roster[1], leaves |-> Roster, epoch |-> 0]

Init ==
    /\ commits = <<FirstState>>
    /\ messages = << >>
    /\ chat = << >>
    /\ mailbox = [d \in Devices |-> << >>]
    /\ revLog = << >>
    /\ revoking = [device |-> NoOne, cutoff |-> 0]
    /\ fenced = {}
    /\ mls = [d \in Devices |-> IF d \in Founders THEN 1 ELSE 0]
    /\ joined = mls
    /\ pin = [d \in Devices |-> IF d \in Founders THEN Roster[1] ELSE NoOne]
    /\ known = [d \in Devices |-> 0]
    /\ outbox = [d \in Devices |-> << >>]
    /\ staged = [d \in Devices |-> 0]
    /\ done = [d \in Devices |-> 0]
    /\ rejected = [d \in Devices |-> {}]
    /\ pc = [d \in Devices |-> "idle"]
    /\ peer = [d \in Devices |-> NoOne]
    /\ faults = 0

----------------------------------------------------------------------------
(* flush_outbox: audit both journals, stop if this device is revoked, block *)
(* what may not leave, then publish the remaining rows in order.            *)

AfterFlush(point, rows) ==
    IF Pending(rows) # {} THEN point
    ELSE CASE point = "flush1" -> "fetch"
           [] point = "flush2" -> "ready"
           [] point = "flush3" -> "idle"

FlushPoint(point) ==
    CASE point = "idle" -> "flush1" [] point = "audit2" -> "flush2" [] point = "audit3" -> "flush3"

Audit(d) ==
    /\ pc[d] \in {"idle", "audit2", "audit3"}
    /\ mls[d] # 0
    /\ d \notin fenced
    /\ known' = [known EXCEPT ![d] = Len(revLog)]
    /\ IF d \in Revoked
       THEN /\ pc' = [pc EXCEPT ![d] = "idle"]
            /\ UNCHANGED outbox
       ELSE LET rows == block_revoked_outbox(d, outbox[d], Revoked)
            IN  /\ outbox' = [outbox EXCEPT ![d] = rows]
                /\ pc' = [pc EXCEPT ![d] = AfterFlush(FlushPoint(pc[d]), rows)]
    /\ UNCHANGED <<commits, messages, broker, mls, joined, pin, staged, done,
                   rejected, peer, faults>>

\* The broker stores the row, or recognises its Nats-Msg-Id while the duplicate
\* window lasts.
Store(d, row) ==
    IF row.kind = "welcome"
    THEN /\ mailbox' = [mailbox EXCEPT ![row.to] = Append(@, row.ref)]
         /\ UNCHANGED chat
    ELSE /\ chat' = Append(chat, [kind |-> row.kind, ref |-> row.ref, author |-> d])
         /\ UNCHANGED mailbox

Publish(d) ==
    LET i == NextRow(outbox[d])
        sent == [outbox EXCEPT ![d][i].state = "sent"]
    IN
    /\ pc[d] \in {"flush1", "flush2", "flush3"}
    /\ d \notin fenced
    /\ Pending(outbox[d]) # {}
    /\ \/ Store(d, outbox[d][i])
       \/ outbox[d][i].state = "stored" /\ UNCHANGED <<chat, mailbox>>
    /\ \/ /\ outbox' = sent
          /\ pc' = [pc EXCEPT ![d] = AfterFlush(pc[d], sent[d])]
          /\ UNCHANGED faults
       \/ /\ faults < MaxFaults       \* the acknowledgment is lost
          /\ faults' = faults + 1
          /\ outbox' = [outbox EXCEPT ![d][i].state = "stored"]
          /\ pc' = [pc EXCEPT ![d] = "idle"]
    /\ UNCHANGED <<commits, messages, revLog, revoking, fenced, mls, joined, pin,
                   known, staged, done, rejected, peer>>

----------------------------------------------------------------------------
(* catch_up: stage and acknowledge the backlog visible when the call starts *)
(* (max_ack_pending is 1, so a broken fetch leaves a prefix), then process  *)
(* what is staged in stream order, one transaction per delivery.            *)

\* How far the durable consumer may get: never back before what is staged.
Backlog(d) == staged[d]..Len(chat)

StageBacklog(d) ==
    /\ pc[d] = "fetch"
    /\ d \notin fenced
    /\ \E n \in Backlog(d) :
         /\ staged' = [staged EXCEPT ![d] = n]
         /\ \/ /\ n = Len(chat)
               /\ pc' = [pc EXCEPT ![d] = IF done[d] = n THEN "reconcile" ELSE "process"]
               /\ UNCHANGED faults
            \/ /\ n < Len(chat) /\ faults < MaxFaults
               /\ faults' = faults + 1
               /\ pc' = [pc EXCEPT ![d] = "idle"]
    /\ UNCHANGED <<commits, messages, broker, mls, joined, pin, known, outbox, done,
                   rejected, peer>>

\* The epoch number the MLS framing of a delivery carries.
RowEpoch(row) ==
    IF row.kind = "handshake" THEN commits[commits[row.ref].parent].epoch
    ELSE commits[messages[row.ref].state].epoch

\* Mutant: off by one, so the Commit that admitted the device counts.
JoinOffByOne(d, row) == RowEpoch(row) + 1 < commits[joined[d]].epoch

before_join(d, row) == RowEpoch(row) < commits[joined[d]].epoch

\* The payload is in `outbox', or in `received' since an earlier delivery.
AlreadyHeld(d, row) ==
    \/ row.author = d
    \/ \E i \in 1..done[d] : chat[i] = row /\ i \notin rejected[d] /\ ~before_join(d, row)

\* The stored coordinator may commit anything; anyone else only as its elected
\* successor, removing exactly the locally known revoked leaves.
validate_commit_author(d, c, sequence) ==
    LET author == commits[c].author
        old == commits[mls[d]].leaves
        new == commits[c].leaves
        gone == KnownRevoked(known[d])
    IN  /\ author \in gone => sequence <= Cutoff(author)
        /\ \/ author = pin[d]
           \/ /\ author = coordinator(old, pin[d], gone)
              /\ Members(old) \cap gone # {}
              /\ new = Blank(old, gone)

\* What process_history does with the next staged delivery.
Verdict(d) ==
    LET sequence == done[d] + 1
        row == chat[sequence]
    IN  CASE before_join(d, row) \/ AlreadyHeld(d, row) -> "skip"
          [] OTHER ->
             IF row.kind = "handshake"
             THEN IF ~Active(d) THEN "error"
                  ELSE IF commits[row.ref].parent = mls[d]
                          /\ validate_commit_author(d, row.ref, sequence)
                       THEN "merge" ELSE "reject"
             ELSE IF Active(d) /\ messages[row.ref].state = mls[d]
                  THEN "decrypt" ELSE "reject"

\* Mutant: reconcile after the first delivery of the backlog.
NextPointEarly(d) == IF pc[d] = "process" THEN "reconcile" ELSE pc[d]

NextPoint(d) ==
    IF pc[d] = "process" /\ done[d] + 1 = staged[d] THEN "reconcile" ELSE pc[d]

MergeCommit(d, c) ==
    LET gone == KnownRevoked(known[d])
    IN  /\ outbox' = [outbox EXCEPT ![d] = block_revoked_outbox(d, @, gone)]
        /\ mls' = [mls EXCEPT ![d] = c]
        /\ pin' = [pin EXCEPT ![d] = refresh_coordinator(commits[c].leaves, @, gone)]

ProcessNext(d) ==
    /\ pc[d] = "process" \/ (OfflineUse /\ pc[d] = "idle")
    /\ mls[d] # 0
    /\ done[d] < staged[d]
    /\ LET verdict == Verdict(d)
       IN  /\ verdict # "error"
           /\ IF verdict = "merge" THEN MergeCommit(d, chat[done[d] + 1].ref)
              ELSE UNCHANGED <<outbox, mls, pin>>
           /\ rejected' = IF verdict = "reject"
                          THEN [rejected EXCEPT ![d] = @ \cup {done[d] + 1}] ELSE rejected
    /\ done' = [done EXCEPT ![d] = @ + 1]
    /\ pc' = [pc EXCEPT ![d] = NextPoint(d)]
    /\ UNCHANGED <<commits, messages, broker, joined, known, staged, peer, faults>>

\* A Commit for a group this device was removed from fails without being
\* quarantined: the delivery stays pending and the call returns the error.
ProcessFails(d) ==
    /\ pc[d] = "process"
    /\ done[d] < staged[d]
    /\ Verdict(d) = "error"
    /\ pc' = [pc EXCEPT ![d] = "idle"]
    /\ UNCHANGED <<commits, messages, broker, store, peer, faults>>

----------------------------------------------------------------------------
(* Local Commits: the new epoch, the refreshed coordinator and the exact    *)
(* bytes to publish are one transaction.                                    *)

LocalCommit(d, leaves, gone, rows) ==
    /\ commits' = Append(commits, [parent |-> mls[d], author |-> d, leaves |-> leaves,
                                   epoch |-> commits[mls[d]].epoch + 1])
    /\ mls' = [mls EXCEPT ![d] = Len(commits) + 1]
    /\ pin' = [pin EXCEPT ![d] = refresh_coordinator(leaves, @, gone)]
    /\ outbox' = [outbox EXCEPT ![d] = rows]

\* Mutant: every survivor removes, elected or not.
AnyoneRemoves(d) ==
    LET gone == KnownRevoked(known[d])
    IN  Active(d) /\ d \notin gone /\ MembersOf(mls[d]) \cap gone # {}

\* Mutant: nobody succeeds a revoked coordinator.
OnlyPinnedRemoves(d) ==
    LET gone == KnownRevoked(known[d])
    IN  Active(d) /\ d \notin gone /\ pin[d] = d /\ MembersOf(mls[d]) \cap gone # {}

MustRemove(d) ==
    LET gone == KnownRevoked(known[d])
        leaves == commits[mls[d]].leaves
    IN  /\ Active(d)
        /\ d \notin gone
        /\ coordinator(leaves, pin[d], gone) = d
        /\ Members(leaves) \cap gone # {}

reconcile_revocations(d) ==
    /\ pc[d] = "reconcile"
    /\ pc' = [pc EXCEPT ![d] = "audit2"]
    /\ LET gone == KnownRevoked(known[d])
       IN  IF MustRemove(d)
           THEN LocalCommit(d, Blank(commits[mls[d]].leaves, gone), gone,
                    Append(block_revoked_outbox(d, outbox[d], gone),
                           HandshakeRow(Len(commits) + 1)))
           ELSE UNCHANGED <<commits, mls, pin, outbox>>
    /\ UNCHANGED <<messages, broker, joined, known, staged, done, rejected, peer, faults>>

\* invite, after its resume: look the device up (an audit), then commit the
\* addition with prepare_invitation.  A refused invitation changes nothing but
\* the accepted journal.
MayInvite(d, x, gone) ==
    /\ x \notin gone
    /\ ensure_can_send(d, gone)
    /\ coordinator(commits[mls[d]].leaves, pin[d], gone) = d
    /\ x \notin MembersOf(mls[d])

Invite(d, x) ==
    /\ pc[d] = "ready"
    /\ x # d
    /\ d \notin fenced
    /\ Len(commits) < MaxCommits
    /\ coordinator(commits[mls[d]].leaves, pin[d], KnownRevoked(known[d])) = d
    /\ x \notin MembersOf(mls[d])
    /\ known' = [known EXCEPT ![d] = Len(revLog)]
    /\ IF MayInvite(d, x, Revoked)
       THEN /\ LocalCommit(d, AddLeaf(commits[mls[d]].leaves, x), Revoked,
                   Append(Append(outbox[d], HandshakeRow(Len(commits) + 1)),
                          WelcomeRow(Len(commits) + 1, x)))
            /\ pc' = [pc EXCEPT ![d] = "audit3"]
       ELSE /\ pc' = [pc EXCEPT ![d] = "idle"]
            /\ UNCHANGED <<commits, mls, pin, outbox>>
    /\ UNCHANGED <<messages, broker, joined, staged, done, rejected, peer, faults>>

\* encrypt_message, from send after its resume or from a client without a
\* connection.
Encrypt(d) ==
    /\ d \in Writers
    /\ pc[d] = "ready" \/ (OfflineUse /\ pc[d] = "idle")
    /\ Len(messages) < MaxMessages
    /\ ensure_can_send(d, KnownRevoked(known[d]))
    /\ Cardinality(MembersOf(mls[d])) >= 2
    /\ messages' = Append(messages, [author |-> d, state |-> mls[d]])
    /\ outbox' = [outbox EXCEPT ![d] = Append(@, MessageRow(Len(messages) + 1))]
    /\ pc' = [pc EXCEPT ![d] = IF @ = "ready" THEN "audit3" ELSE @]
    /\ UNCHANGED <<commits, broker, mls, joined, pin, known, staged, done, rejected,
                   peer, faults>>

\* A plain sync ends after resume.
Finish(d) ==
    /\ pc[d] = "ready"
    /\ pc' = [pc EXCEPT ![d] = "idle"]
    /\ UNCHANGED <<commits, messages, broker, store, peer, faults>>

----------------------------------------------------------------------------
(* join_next: look the named inviter up, then take the first Welcome.      *)

JoinLookup(d, inviter) ==
    /\ pc[d] = "idle"
    /\ d \notin fenced
    /\ mailbox[d] # << >>
    /\ inviter \notin Revoked
    /\ known' = [known EXCEPT ![d] = Len(revLog)]
    /\ pc' = [pc EXCEPT ![d] = "accept"]
    /\ peer' = [peer EXCEPT ![d] = inviter]
    /\ UNCHANGED <<commits, messages, broker, mls, joined, pin, outbox, staged, done,
                   rejected, faults>>

\* A Welcome already accepted is only acknowledged again.  A new one must be
\* signed by the inviter looked up, who becomes the pinned coordinator, and the
\* group must not exist yet.  The acknowledgment follows the transaction and may
\* be lost.
accept_welcome(d) ==
    LET c == Head(mailbox[d])
        again == joined[d] = c
        fresh == mls[d] = 0 /\ commits[c].author = peer[d]
    IN
    /\ pc[d] = "accept"
    /\ d \notin fenced
    /\ pc' = [pc EXCEPT ![d] = "idle"]
    /\ peer' = [peer EXCEPT ![d] = NoOne]
    /\ IF fresh
       THEN /\ mls' = [mls EXCEPT ![d] = c]
            /\ joined' = [joined EXCEPT ![d] = c]
            /\ pin' = [pin EXCEPT ![d] = commits[c].author]
       ELSE UNCHANGED <<mls, joined, pin>>
    /\ IF fresh \/ again
       THEN \/ mailbox' = [mailbox EXCEPT ![d] = Tail(@)] /\ UNCHANGED faults
            \/ faults < MaxFaults /\ faults' = faults + 1 /\ UNCHANGED mailbox
       ELSE UNCHANGED <<mailbox, faults>>
    /\ UNCHANGED <<commits, messages, chat, revLog, revoking, fenced, known, outbox, staged,
                   done, rejected>>

\* The process stops, or a network call fails: only the store survives.
Abort(d) ==
    /\ pc[d] # "idle"
    /\ \/ d \in fenced /\ UNCHANGED faults
       \/ faults < MaxFaults /\ faults' = faults + 1
    /\ pc' = [pc EXCEPT ![d] = "idle"]
    /\ peer' = [peer EXCEPT ![d] = NoOne]
    /\ UNCHANGED <<commits, messages, broker, store>>

----------------------------------------------------------------------------
(* The identity service: a revoke request reads CHAT's last sequence, then  *)
(* appends the journal entry, then has the broker drop the device.          *)

ReadCutoff(x) ==
    /\ revoking.device = NoOne
    /\ x \notin Revoked
    /\ Len(revLog) < MaxRevocations
    /\ revoking' = [device |-> x, cutoff |-> Len(chat)]
    /\ UNCHANGED <<commits, messages, chat, mailbox, revLog, fenced, store, pc, peer, faults>>

AppendRevocation ==
    /\ revoking.device # NoOne
    /\ revLog' = Append(revLog, revoking)
    /\ revoking' = [device |-> NoOne, cutoff |-> 0]
    /\ UNCHANGED <<commits, messages, chat, mailbox, fenced, store, pc, peer, faults>>

\* At once, from the two-second retry, or when the service starts again.
Enforce ==
    /\ Revoked # fenced
    /\ fenced' = Revoked
    /\ UNCHANGED <<commits, messages, chat, mailbox, revLog, revoking, store, pc, peer, faults>>

ServiceStops ==
    /\ revoking.device # NoOne
    /\ faults < MaxFaults
    /\ faults' = faults + 1
    /\ revoking' = [device |-> NoOne, cutoff |-> 0]
    /\ UNCHANGED <<commits, messages, chat, mailbox, revLog, fenced, store, pc, peer>>

----------------------------------------------------------------------------

\* What a running client does by itself: the sync loop and its continuation.
Sync(d) ==
    \/ Audit(d) \/ Publish(d) \/ StageBacklog(d)
    \/ ProcessNext(d) \/ ProcessFails(d) \/ reconcile_revocations(d) \/ Finish(d)
    \/ accept_welcome(d)

Service == AppendRevocation \/ Enforce

Next ==
    \/ \E d \in Devices : Sync(d) \/ Encrypt(d) \/ Abort(d)
    \/ \E d, x \in Devices : Invite(d, x) \/ JoinLookup(d, x)
    \/ \E x \in Revocable : ReadCutoff(x)
    \/ Service
    \/ ServiceStops

Spec == Init /\ [][Next]_vars

\* A client that is not stopped for good keeps polling, and the service retries
\* enforcement: weak fairness of each process.
FairSpec == Spec /\ WF_vars(Service) /\ \A d \in Devices : WF_vars(Sync(d))
----------------------------------------------------------------------------
(* Properties.                                                             *)

Row == [kind : {"handshake", "welcome", "message"}, ref : Nat, to : Devices \cup {NoOne},
        state : {"unsent", "stored", "sent", "blocked"}]

Leaves == Seq(Devices \cup {NoOne})
Commit == [parent : Nat, author : Devices, leaves : Leaves, epoch : Nat]
Ciphertext == [author : Devices, state : Nat]
Delivery == [kind : {"handshake", "message"}, ref : Nat, author : Devices]
Revocation == [device : Devices, cutoff : Nat]
Points == {"flush1", "fetch", "process", "reconcile", "audit2", "flush2", "ready",
           "audit3", "flush3"}

\* Type correctness of the channel's state, with every position in range.
TypeOK ==
    /\ commits \in Seq(Commit)
    /\ messages \in Seq(Ciphertext)
    /\ chat \in Seq(Delivery)
    /\ mailbox \in [Devices -> Seq(Nat)]
    /\ revLog \in Seq(Revocation)
    /\ revoking \in [device : Devices \cup {NoOne}, cutoff : Nat]
    /\ fenced \subseteq Devices
    /\ mls \in [Devices -> 0..Len(commits)]
    /\ joined \in [Devices -> 0..Len(commits)]
    /\ pin \in [Devices -> Devices \cup {NoOne}]
    /\ known \in [Devices -> 0..Len(revLog)]
    /\ outbox \in [Devices -> Seq(Row)]
    /\ staged \in [Devices -> 0..Len(chat)]
    /\ done \in [Devices -> Nat]
    /\ \A d \in Devices : done[d] <= staged[d]
    /\ rejected \in [Devices -> SUBSET Nat]
    /\ pc \in [Devices -> Points \cup {"idle", "accept"}]
    /\ peer \in [Devices -> Devices \cup {NoOne}]
    /\ faults \in Nat

\* Two devices in the same epoch pin the same coordinator, and it is a member of
\* that epoch: authority over a group never depends on what a device knows of
\* the revocation journal, and a device that reuses a vacated leaf never has it
\* (refresh_coordinator, accept_welcome, validate_commit_author).
CoordinatorAgreement ==
    \A d, e \in Devices :
        mls[d] # 0 /\ mls[d] = mls[e] => pin[d] = pin[e] /\ pin[d] \in MembersOf(mls[d])

\* A device that elects a coordinator and removes leaves has processed every
\* CHAT delivery up to the cutoff of every revocation it acts on (resume: audit,
\* then catch_up, then reconcile_revocations).
HistoryBeforeElection ==
    \A d \in Devices : pc[d] = "reconcile" =>
        \A i \in 1..known[d] : revLog[i].cutoff <= done[d]

Ancestors(s) ==
    LET anc[n \in 0..Len(commits)] == IF n = 0 THEN {} ELSE {n} \cup anc[commits[n].parent]
    IN  anc[s]

\* A Commit of a revoked device that is not in CHAT up to its cutoff.
Late(c) ==
    /\ c # 1
    /\ commits[c].author \in Revoked
    /\ \A i \in DOMAIN chat :
         chat[i].kind = "handshake" /\ chat[i].ref = c => i > Cutoff(commits[c].author)

\* The epochs of unrevoked devices form one line, whatever each knows of the
\* journal and however far it has read, unless one of them adopted a Commit past
\* its author's cutoff: the group never forks between its survivors, while its
\* creator is not revoked or nobody else is.  (After the creator and another device
\* it may: validate_commit_author judges a successor's removal by what the reader
\* knows, see the README.)
SurvivorLineage ==
    Roster[1] \notin Revoked \/ Len(revLog) <= 1 =>
        \A d, e \in Devices \ Revoked :
            LET line == Ancestors(mls[d]) \cup Ancestors(mls[e])
            IN  (\A c \in line : ~Late(c)) =>
                    mls[d] \in Ancestors(mls[e]) \/ mls[e] \in Ancestors(mls[d])
                    \/ mls[d] = 0 \/ mls[e] = 0

\* Only a revocation makes a device quarantine a Commit: joining late, losing
\* acknowledgments, duplicate deliveries and restarts never do.
QuarantineNeedsRevocation ==
    \A d \in Devices : \A i \in rejected[d] :
        chat[i].kind = "handshake" => revLog # << >> \/ revoking.device # NoOne

\* A Welcome is never in a mailbox before the Commit that admits its recipient
\* is in CHAT (prepare_invitation queues them in this order).
WelcomeAfterCommit ==
    \A d \in Devices : \A i \in DOMAIN mailbox[d] :
        \E j \in DOMAIN chat : chat[j].kind = "handshake" /\ chat[j].ref = mailbox[d][i]

\* No application ciphertext is published whose epoch holds a device the publisher
\* has accepted as revoked, as block_revoked_outbox says of itself.  Refuted for a
\* device that merged the removal before it knew of the revocation (see the README).
NeverPublishToKnownRevoked ==
    [][\A d \in Devices :
         Len(chat') > Len(chat) /\ chat'[Len(chat')].author = d
            /\ chat'[Len(chat')].kind = "message"
         => MembersOf(messages[chat'[Len(chat')].ref].state) \cap KnownRevoked(known[d]) = {}
      ]_vars

InChat(m) == \E i \in DOMAIN chat : chat[i].kind = "message" /\ chat[i].ref = m

\* The ciphertext m of d is held back: it is not in CHAT, and it is blocked, or it is
\* of the epoch d still holds and d knows that a member of that epoch is revoked.
Withheld(d, m) ==
    /\ messages[m].author = d
    /\ ~InChat(m)
    /\ \/ \E i \in DOMAIN outbox[d] :
            outbox[d][i].kind = "message" /\ outbox[d][i].ref = m /\ outbox[d][i].state = "blocked"
       \/ messages[m].state = mls[d] /\ MembersOf(mls[d]) \cap KnownRevoked(known[d]) # {}

\* Once a device knows that a member of the epoch it holds is revoked, the ciphertexts
\* it made in that epoch and has not published never leave, though the rows are judged
\* by the epoch held when they are looked at, and the device may write and merge the
\* removal without a connection, stop in between and flush only later
\* (block_revoked_outbox, called by every flush and before every merge).
WithheldForGood ==
    [][\A d \in Devices : \A m \in DOMAIN messages : Withheld(d, m) => Withheld(d, m)']_vars

\* A Commit of a revoked device past its cutoff is in no survivor's history.
LateCommitsRejected ==
    \A d \in Devices \ Revoked : \A c \in Ancestors(mls[d]) : ~Late(c)

\* A survivor that has accepted the whole journal and processed CHAT up to a
\* survivor's removal of a revoked device no longer holds that device's leaf.
RemovalsProcessed ==
    \A d \in Devices \ Revoked : \A i \in 1..done[d] :
        known[d] = Len(revLog) /\ mls[d] # 0 /\ chat[i].kind = "handshake"
            /\ chat[i].author \notin Revoked
        => MembersOf(mls[d]) \cap (MembersOf(commits[chat[i].ref].parent)
                                   \ MembersOf(chat[i].ref)) = {}

\* Once a device is revoked, some survivor ends up in an epoch without it, and
\* every other survivor too, or it has quarantined a Commit: nothing else can
\* keep a survivor behind.
SurvivorsRekeyOrQuarantine ==
    \A x \in Revocable : x \in Revoked ~>
        /\ \E d \in Devices \ Revoked : mls[d] # 0 /\ x \notin MembersOf(mls[d])
        /\ \A d \in Devices \ Revoked :
              \/ mls[d] = 0
              \/ x \notin MembersOf(mls[d])
              \/ \E i \in rejected[d] : chat[i].kind = "handshake"

============================================================================
