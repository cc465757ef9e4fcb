# EpochGrid in TLA+

EpochGrid is end-to-end encrypted group messaging over NATS JetStream: every
installation (a *device*) keeps its MLS groups, outbox and transcript in one SQLite
store, an identity service keeps a signed directory of devices, and the broker stores
and forwards ciphertext. This project models the parts whose correctness depends on
the order in which independent actors act, model-checks them with TLC and proves the
main results with TLAPS.

Paths below are relative to `src/crates/`; `core`, `client` and `service` stand for
`epochgrid-core/src`, `epochgrid-client/src` and `epochgrid-service/src`.

## Inventory

| component | state | operations | talks to | what makes it correct |
|---|---|---|---|---|
| channel epochs (`core/rekey, epochs, delivery, messaging, groups`) | MLS group, coordinator pin, join epoch, revocation knowledge | create, invite, join, send, merge, remove revoked leaves | CHAT and MAILBOX streams, journals | one lineage of epochs per group, one coordinator per epoch, a revoked leaf is removed, ciphertext held back for a known revoked leaf stays back |
| delivery and history (`core/delivery, history, messaging`) | outbox, staged deliveries, received set, transcript | queue, flush, stage, process, quarantine, display | CHAT consumer | nothing lost, nothing twice, same order everywhere |
| signed journals (`core/transparency, revocation, transport`, `service/main`) | TRANSPARENCY and IDENTITIES buckets | register, revoke, startup import and repair | NATS key-value store | append-only, valid, the directory projects the log, acknowledgments are durable |
| client trust (`core/trust, transparency`) | pinned signer, checkpoints, device pins, warning | audit, lookup, verify | identity service | nothing accepted is rewritten, no identity silently replaced |
| broker enforcement (`core/broker_control`) | admitted keys, durable consumers | enforce, retry | broker | a revoked device is eventually dropped |
| dynamic authority (`service/dynamic`, `core/identity_model, authorization, auth_callout`) | `auth.sqlite` (devices, tokens, policies), admission gate, leases | invite, enroll, register, apply policy, revoke, repair, admit | signed logs, consumers, the broker's authorization callout | a device pays with its own token, is published before it is admitted, and loses access once revoked; registry, logs and consumers agree while the gate is open |
| governed delivery (`core/authorization/delivery, delivery, participants`) | policy and Welcome rows of the outbox | query, apply, relay Welcome, publish | authority, CHAT | the policy precedes the Commit, it is that of an MLS group, the outbox drains |
| KeyPackage claims (`core/transport`) | claim record per package and group | claim | directory | reserved for one channel, idempotent retry |
| audit trail (`core/audit`, `service/audit, diagnostics`) | sequenced records, pending effects, retention policy | record, intent and result, prune, export, recover | registry database, export file | nothing missing, repeated or resolved that was not; no effect unrecorded and unmarked; a full trail never holds back a revocation |
| backend roles (`service/roles`) | role files, session, lease, request channel | bind, configure, lease, forward, answer, time out | two processes over a Unix socket, broker | an answer is to its request, a stale request never starts, readiness returns |
| relationships and participants (`core/relationships, participants, messaging`) | message events, projection, answered marks | reply, edit, react, answer | CHAT | readers of one stream show one conversation |
| receipts, ephemeral events (`core/receipts, ephemeral`, `client/tui/worker`) | receipt facts, poll cursor | request, answer, record | lossy Core NATS subjects | what is told is true and arrives in the end |
| secrets, database, recovery (`core/secrets, database, identity, recovery`, `client/recovery`) | credential slots, keyring items, metadata, encrypted file, package and secret files | provision, open, migrate, init, restore, export, inspect | Secret Service, files | a committed key is never made anew, no crash leaves a home that cannot be opened |
| attachments, capacity, deployment, validation, TLS, wire | objects, limits, configuration | I/O and checks | object store, files | mostly pure I/O |
| TUI and line client (`client/...`) | drafts, retry timers, pending join | poll, command | everything above | the poll loop retries what failed |

What is hard here: the audit, the backlog and the outbox of a device are three
independent snapshots of three streams; two survivors of a revocation act on different
knowledge of it; every network step may succeed without its acknowledgment; every
process may stop between two SQLite transactions; two service processes may overlap.
The list of hazards with their lines is in `PROJECT.json`.

## Modules

**GroupEpochs** - one channel. `commits` is the tree of MLS epochs (an epoch is
identified by the Commit that made it), `mls[d]` the epoch device `d` holds,
`pin[d]` the stored coordinator, `known[d]` how much of the revocation journal it has
accepted, `outbox`, `staged`, `done`, `rejected` its queue and history tables, and
`pc[d]` the program point of its process inside `resume`, `send`, `invite` or
`join_next`. One action is one SQLite transaction or one broker call:
`Audit` and `Publish` are `flush_outbox`, `StageBacklog` and `ProcessNext` are
`catch_up` with `process_history` (one delivery per transaction, quarantine included),
`reconcile_revocations`, `Invite` (`prepare_invitation`), `Encrypt`, `JoinLookup` with
`accept_welcome`, and `Abort` a crash or failed call. The service's revoke request is
`ReadCutoff`, `AppendRevocation`, `Enforce`. OpenMLS is external: a message or Commit
is readable exactly in the epoch it was made in, and authentic. The policy rows of
governed (dynamic-mode) groups are in ChannelPolicy.

**LogRecords** - the records of both journals and `RevokeRequest::validate`,
`RevocationLog::validate`. **SignedLogs** - the abstract specification: two logs that
grow by one valid record. **Journal** - the service processes: startup (`Start`,
`Import`, `Repair`, `TakeLock`), the two `append` loops (`ReadSnapshot`,
`ReadRevocations`, `Send`, `Retry`), updates in flight (`net`, `Deliver`) that outlive
their sender, projection (`Accept`), crash.

**DirectoryTrust** - a client's audits of journals that grow as SignedLogs says and may
be restored from an older copy, also under another service key. A Merkle root stands
for the entries it commits to. Every SQLite write of `audit` is an action. The cap of
256 bindings in `observe_device` is left out.

**AuthRegistry** - `auth.sqlite` as a record and one operator per transaction:
`enroll` with its guard `may_enroll` (exact retry, live token, free key and name),
`activate`, `revoke` (the member row goes, the group and its members get a new
generation, the lowest leaf succeeds a revoked coordinator) and `apply_policy` with
`may_apply`. One group is modelled; a signature is the `signer` of an update.

**Authority** - the process around it. `svc` is the serving loop's program point
through `read` (both logs), `deny` (every logged revocation), `effect` (the request),
`publish` and `activate` (each registration), `provision` and `reconcile` (the
consumers), after which `Open` opens the gate and answers; startup and repair run the
same steps without a request. `callout` is the other task: `Connect` reads the gate,
`AdmitToken` or `AdmitDevice` the row, `Grant` the groups in a second transaction, and
a lease is issued. `StepFails` and `Crash` end any step; `GivenUp` and `Lands` are a
revocation whose request ran out of time while its update was on the way. The logs'
compare-and-swap protocol is Journal's: here an append is one step. `late` is a history
variable: the revocations that landed that way since the loop last read the log with
the gate closed.

**ChannelPolicy** (extends AuthRegistry) - a governed channel against the registry. A
membership change (`prepare_invitation`, `remove_member`, the removal of revoked leaves)
queues a policy row, a Commit and a Welcome; `op[d]` is where a device is between them.
`PolicyQuery` and `GroupPolicy` are the two calls of a policy row (`Current` recognises
an update that was already installed, `Intent` signs the row's members for the
generation it was shown), `PublishCommit` the Commit, `RelayWelcome` the service's check
and relay. `ClaimKeyPackage` and `OtherClaims` are `claim`. `Sync` is the processing of CHAT
with the reconciliation, `Revoke` the service's, `Readmit` a device that connects again
under the present policy. A call may be interrupted before or after it took effect.
`CaughtUp`, the group after the Commits a device has been delivered, is a recursive
function over its stretch of the stream.

**Conversation** - application messages of one channel. `events` is every row ever
queued; `encrypt_event` writes the outbox row and the transcript in one transaction and
keeps a reserve for removals (`HasRoom`); `Publish`, `PublishLost` and `Sequenced` are
the publication, its lost acknowledgment and the sequence it leaves in the transcript;
`Process` is staging with decryption and quarantine; `conversation` is what `projected`
computes; `Respond` the participant's answer. The broker may have forgotten a message
identifier when a row is published again.

**Receipts** - the receipt exchange of the TUI worker: `Poll` asks from a rotating
cursor about the newest `Limit` messages (100 in the code), `process_receipt` answers or
records, `SyncFails` drops the subscription. Events in flight are a set per subscriber:
they may be lost, read twice or out of order.

**AuditTrail** - the audit tables (`rows`, `next`, `from`, `events`, `pending`,
`degraded`), revocations and rights-reducing policies that commit whatever happens to their
record (`revoke`, `Reduce`), the control loop's effects (`BeginEffect`, `Perform`, `audit_effect_result`),
the callout's two records, the observation queue (`queue_audit`, `refresh`) and the
operator's commands under the runtime lock (`set_retention`, `PruneInspect` and `prune`,
`Export*`, `recover`). `room` is the outcome of the byte and page budgets and of the
storage: it is free, refuses the append, or takes neither the record nor the degraded mark
(`audit::repair` ignores both errors, and a registry that does not open at an export's end
records nothing); a revocation lost in the last way is `excused`. `history`, `granted`, `excused`, `observed` and `stored` are history
variables.

**BackendRoles** - `role-bind` and `worker-configure` file by file, then the authority's
listener and session, its control loop with a channel of capacity one, the worker with
its heartbeat, and what `diagnostics.rs` calls ready: reconciled, a lease (`age`) that has
not run out, and no `audit_blocked`. `full` is the trail past its admission budget or
degraded (`TrailFills`, and `TrailCleared` by commands that need the authority stopped);
`refresh` caches it in `blocked`, which a late control loop also sets (`HealthStale`). Two
choices of roles may name the same worker `Key`, which is all that the permissions file
holds. Frames wait in a buffer per direction of a connection; frame sequences are kept
modulo `SeqModulus`.

**Home** - a device's home: credential slots, keyring items, database metadata and file.
`SaveSlot`, `FindItem`, `CreateItem`, `Readback`, `CommitSlot` are `Vault::ensure`;
`Record`, `OpenFile`, `Bind`, `MarkReady`, `Migrate` are `database::open` and the
migrations; then `initialize`, `restore` or `export_recovery` with its two files.
`Inspect*` runs without the lock. A keyring call that timed out may land later (`Land`),
items and files may go missing and be put back, a command may die at any step. Metadata
and database never go missing together (`LoseFile`): then `database.rs:59` finds a home
that was never opened and makes an empty database under the committed key, which no check
of a home alone can tell from a first start. An export may be refused for reasons outside
the module (a known revocation, a service's identity).

`MC*` modules give the constants small values. The `*_proofs` modules hold the theorems:
of GroupEpochs, Journal, Authority (with ChannelPolicy, which shares its registry),
DirectoryTrust, BackendRoles, Home, AuditTrail and Conversation (with Receipts). Where one
proof module extends two components, the second names its specification and its parts for
itself: `ChannelSpec`, `ReceiptSpec`.

## Runs

Every run checks for deadlock. A property whose definition is a conjunction names its
parts; `TypeOK` is one of them.

| run | instance | shows |
|---|---|---|
| `epochs_join` | 2 founders, 1 invitee, 1 revocation of anybody, 1 fault, offline processing | survivors form one lineage (`SurvivorLineage`); coordinator pins agree per epoch; election only after the cutoff is processed; a Welcome never precedes its Commit; only a revocation leads to a quarantined Commit |
| `epochs_trio` | 3 founders, revocation of the coordinator, a message by the last, offline writing and merging, 1 fault, fair polling | `WithheldForGood`: ciphertext held back because of a known revocation never leaves; a revocation leads to a rekey by some survivor, and by all that quarantined no Commit |
| `journal` | 2 processes, 2 endpoints, 2 packages, legacy record, 1 fault, fair | refinement of SignedLogs, durable acknowledgments, directory follows log, a process serves again and again |
| `trust_audits` | 1 endpoint, 2 packages, 2 service keys, 2 restores, 2 faults, fair polling | `TrustIsSound`: no silent replacement, revoked devices are registered, an honest log is accepted; `EvidenceIsKept`: what was accepted only grows and a changed device stays blocked; a rewrite is noticed, warnings about an honest log clear |
| `authority_admits` | 2 devices of a user, 2 tokens, 2 faults, late appends, expiring packages | members distinct and admitted, an open gate means agreement; `EnrollmentIsSound`: answers last, tokens pay for devices, no admission before publication |
| `authority_restores` | 1 device, 1 lease, 2 faults, fair loop and callout | a claim of the present generation carries the present rights; a revocation ends the leases for good; `ServiceRecovers`: enrollments complete, admission returns |
| `channel_policy` | 3 devices, 3 epochs, 1 revocation of a founder, 1 interrupted call, a rival claim, fair syncs | `PolicyIsSound`: policy before Commit before Welcome, each of a group some coordinator made of claimed devices; a device that left comes back only with a newer epoch; the channel settles |
| `conversation` | a person and a service participant, 3 events, 1 lost acknowledgment, outbox limit 2 with reserve 2, a third member revoked | `TranscriptsAgree`: one row at its first sequence, equal views, one answer; a removal has room; the author's last edit shows; the channel settles |
| `receipts` | author and reader, 2 messages, 3 events in flight, a rekey | receipts are true and arrive for good |
| `audit_trail` | 1 device, 3 records with 1 in reserve, 5 sequences, 2 observations, appends and marks that may fail | `TrailIsSound`: the trail is an exact suffix of what was recorded, its pending effects are the unresolved ones, exports are exact; `EffectsAreRecorded`; deletions within policy; revocations enforced |
| `backend_roles` | 2 requests, 3 choices to bind of which 2 name one worker key, 2 deaths, missed deadlines or fillings of the audit trail, 6 connections | `RolesAreSound`: answers match, ends in step, bindings complete; no stale start; readiness returns unless the audit trail stays full |
| `home` | 3 generated keys, 2 recovery packages, 2 schema versions, 2 faults, 2 exports | `HomeIsSound`: keys kept, no reset, inspections and packages right; committed keys are never remade; a home is established in the end |

Bounds. Three devices are the fewest for which two survivors can disagree about a
third. One invitation on top of the founding epoch plus one removal gives a reused leaf.
One fault of any kind at any point is enough to lose an acknowledgment, cut a fetch or
stop a process; the fault budget is shared, so each run covers every single fault.
In `epochs_trio` the writer (`Writers`) is the survivor that is not elected: it has to hold
its row back and merge the removal another made. Two service processes are the fewest that overlap, and one timed-out update may outlive both.
`MaxTries` is 2 where the code has 4: the third and fourth attempt repeat the second. The
two endpoints of `journal` have different owners, so a revocation there is the device's
own or the operator's; with one owner the same run takes about twice as long and passes.
KeyPackages do not expire there: a request with an expired one is refused and changes
nothing, but a startup that still has to import a legacy record with one fails
(`core/transparency.rs:343`), and `ServesAgain` says nothing of that.
The registry needs two devices for a succession and a token taken twice; with `MaxEpoch`
1 a group is created and changed once, and `PolicyUpdates` offers every membership for
the present and the previous generation. The liveness run of Authority has one device,
because what it asks is asked device by device; late appends and expiry are left out
there, the first because a revocation that lands late is acted upon only when the next
request makes the loop read the log, the second because it is `AuthorityExpiry.cfg`.
In `audit_trail` the limits (100,000 events, 256 pending, pruned and queued) are the
smallest for which each can be reached together with its reserve; `PendingLimit` 1 never
has two effects open at once, which the theorems of `AuditTrail_proofs` cover, being of
any limit. `MaxConns` of
`backend_roles` is never reached: it is one more than the faults can use up. In
`conversation` three events are a request, an answer and an edit or a reaction; the
stream may hold one of them twice, and the Commit. In `receipts` the batch of a poll (8
in the code) is 1, so that two messages already need the cursor; `Limit` is 2, so neither
ever leaves the list, and `ReceiptsArrive` is stated only of messages that stay on it.
CHAT, journals and `commits` are bounded by the other bounds.

Fairness. `FairSpec` of GroupEpochs assumes that a client which is not stopped for good
keeps polling (the TUI ticks and `message receive` loops) and that the service retries
enforcement every two seconds (`service/main.rs:335`): weak fairness of each process,
never of an invitation, a join or a revocation. Journal's assumes a stopped service is
started again and the broker handles updates. DirectoryTrust's, ChannelPolicy's and
Conversation's assume polling; ChannelPolicy's also that a lease ends and its device
connects again. Authority's assumes that the loop, restarted when it stops, takes its own
steps (`Serves`: not the requests it gets nor the failures), that a callout is answered
and that a device's leases end, as their expiry time makes them. AuditTrail's assumes
that the authority is started again and again and that not every life of it is too short
to apply the journal (strong fairness of `Start` and `revoke`; so not every attempt is
rolled back because the revocation itself leaves the database over its page budget,
`core/identity_model.rs:355`). BackendRoles' assumes that both services are restarted by
their supervisor, that the operator runs `worker-configure` once and that the authority's
observation tick can read the trail again and again; whether an operator clears a full
trail is left open, and `ReadinessReturns` excepts one that stays full. Home's assumes that its owner runs `init` again, puts back what
was lost and removes a duplicate item the error names. Receipts' assumes that two clients
which are online together poll, and that not every request and every receipt about one
message is lost: without it Core NATS promises nothing.

## Disagreements seen while modelling

These configurations are kept beside the runs; TLC refutes the property of each
(`tlc -config X.cfg MCModule`). They show what the code does where a document or a
comment says otherwise.

* `EpochsLateCommit.cfg` (MCGroupEpochs, `LateCommitsRejected`). The cutoff is read
  before the revocation is appended and enforced (`service/main.rs:372`-374), so a Commit
  can lie past it, and a peer that has not accepted the revocation merges it
  (`core/rekey.rs:134`). `docs/device-revocation.md:108`: "Historical authenticated
  Commits from that revoked signer may be merged up to this cutoff; later Commits are
  rejected."
* `EpochsUnawareSurvivor.cfg` (MCGroupEpochs, `RemovalsProcessed`). A survivor that reads
  a successor's removal before it accepts the revocation quarantines the removal for good
  (`core/rekey.rs:147`, `core/history.rs:73`). `docs/device-revocation.md:56`: "TUI and
  line-chat polling audit revocations and process removals automatically."
* `EpochsOfflineOutbox.cfg` (MCGroupEpochs, `NeverPublishToKnownRevoked`). Blocking looks
  at the group's present epoch, so ciphertext queued offline before an offline merge of
  the removal is published later (`core/rekey.rs:99`). The comment at `core/rekey.rs:97`:
  "Never publish queued application ciphertext under a known revoked epoch".
* `AuthorityExpiry.cfg` (MCAuthority, `AdmissionReturns`). Startup and repair publish
  every enrolled registration again, and publishing refuses an expired KeyPackage
  (`core/transparency.rs:343`, `service/dynamic.rs:231`): one expired package keeps
  admission closed. `core/transport.rs:145`: "Historical package expiry must not prevent
  service restart."
* `RetriesSucceed.cfg` (MCChannelPolicy, `RetriesSucceed`). A policy or Welcome row that
  names a device revoked since is refused at every attempt (`core/authorization.rs:112`,
  `core/authorization/delivery.rs:55`), and `flush_outbox` stops there.
  `docs/operator/auth-callout.md:272`: "Interrupted network operations retain queued work
  for retry." `Converges` states what does hold.
* `KeyPackageOnce.cfg` (MCChannelPolicy, `KeyPackageOnce`). Inviting, removing and
  inviting a device again uses its claimed KeyPackage a second time.
  `core/transport.rs:280`: "Initial KeyPackages are single-use. Retrying the same group's
  claim is idempotent."
* `ResendAfterRekey.cfg` (MCConversation, `ResendAfterRekey`). Blocked rows count as
  unsent for ever (`core/delivery.rs:26`), so a device whose outbox was full of them
  cannot write again. `core/trust.rs:228`: "queued messages blocked after revocation;
  retained locally, resend after rekey".
* `AuditExhausted.cfg` (MCAuditTrail, `OperatorCanPrune`). Changing the retention policy
  needs a record of its own (`core/audit.rs:477`), so once repairs have used up the
  reserve nothing can be made eligible for pruning. `docs/operator/audit.md:127`: "Of
  this, 1,024 events and 2 MiB are reserved for repair and administration".
* `RecoveredKey.cfg` (MCHome, `RecoveredKeyCannotChat`). A restore that stops after the
  device slot was bound to the archived key leaves a home in which a later
  `identity init` adopts that key (`core/recovery.rs:224`, `core/identity.rs:190`).
  `docs/encrypted-recovery.md:18`: "A restored installation is marked **recovery-only** ...
  It cannot chat, create groups or consume Welcomes."

Seen without a configuration of their own:

* `SurvivorLineage` is stated while the creator is not revoked or nobody else is. With the
  creator and another of four members revoked (`MaxRevocations = 2`, no fault) it would
  fail: a first successor's removal is rejected by a peer that knows both revocations and
  commits a rival one (`core/rekey.rs:151`).
* Without the exception for `late`, `AdmissionAgrees` fails: a revocation request is
  given up, the repair opens the gate, and then the append lands; the device is admitted
  until the next request (`service/dynamic.rs:289`, `:352`).
* A callout that read the gate before a policy request closed it may issue a claim for
  the new policy before the device's consumer is replaced (`service/dynamic.rs:166`),
  although `core/authorization/delivery.rs:257` wants consumers reconciled "before
  issuing new device claims"; `LeasesNameRights` still holds of that claim.

## Proofs

Each theorem below is `Spec => []P` or `Spec => [][A]_vars` for a property some run
checks (types and `AdmittedAreInTheLog` apart), proved for every value of the constants
that the modules' named assumptions allow. None of the properties is inductive; each
bullet says what the invariant adds and why. Every invariant was checked by TLC on the
run's instance before it was proved.

`GroupEpochs_proofs`, for any finite or infinite set of devices, any roster without
repetition and any bounds:

* `TypeCorrect`: `TypeOK`.
* `CoordinatorsAgree`: `CoordinatorAgreement`. Two devices agree because each derived its
  pin from the *commit* it merged. `Inv` adds that authors are members of the parent
  epoch, references in outboxes, CHAT and mailboxes exist, program points fit the state,
  and that a device's pin is a function of its epoch (`PinIsAuthor`).
* `BarrierHolds`: `HistoryBeforeElection`. At each program point between the audit and
  the reconciliation, the accepted cutoffs are within CHAT, then within what is staged,
  then within what is done.
* `WelcomesFollowCommits`: `WelcomeAfterCommit`. `Ordered` says it of the outbox, where
  the order is made: a Welcome's row stands behind its Commit's row, and a Commit's row
  is never blocked and is in CHAT once it was published. The published row is the
  *first* pending one, so the Commit's row before it is published already.
* `WithheldCiphertexts`: `WithheldForGood`, online and offline. The blocking of an outbox
  looks at the epoch the device holds, not at the epoch of the row, so a row must be
  blocked before its epoch is left: `Clean` says that a device which flushes
  ciphertexts holds an epoch without members it knows revoked, `Ledger` that a ciphertext
  not in CHAT has exactly one row, in its author's queue. The stronger `NeverPublishToKnownRevoked`, about
  every ciphertext, is false (`EpochsOfflineOutbox.cfg`).
* `OnlyRevocationsQuarantine`: `QuarantineNeedsRevocation`. While the revocation journal
  is empty the channel is `Orderly`: the creator makes every Commit on top of the one
  before, queues them in order, CHAT has each one after all its ancestors whatever is
  repeated, and a device holds the epoch it joined at or the newest it has read. So
  every Commit a reader meets is the next one or one it has.
* `SurvivorsStayTogether`: `SurvivorLineage`. `Lineage` adds to the invariants above what a
  revocation changes. While the creator is not revoked it remains the only author and its
  Commits are one line, whatever is known of other revocations. Once it is the one revoked
  device there is a `Succession`: the creator's Commits are a line of their own
  (`CreatorLine`), and every other author (`Heirs`) continues its own Commit or has taken
  over from an epoch of the creator that no Commit up to the cutoff is newer than, as that
  epoch's lowest leaf. Two such epochs on lines without a late Commit are the same one,
  and so are their successors. It is inductive because of the barrier: whoever elects a
  successor has processed CHAT up to the cutoff, and a device in an epoch of the creator
  holds the newest it has read there (`Reads`).

`Journal_proofs`, for any endpoints, packages, processes and limits:

* `JournalTyped`, `JournalRefinesSignedLogs` (`Spec => Logs!Spec`): the key fact
  (`InFlight`) is that an update on its way whose base revision is still the key's
  appends exactly one valid record to the log that is there.
* `AcknowledgmentsAreDurable`, `DirectoryIsProjection`: with the same invariant and
  what each program point of a process knows of the log (`DirInv`).

`Authority_proofs`, for any devices, tokens, leaves, users and bounds, with failures,
restarts and late appends:

* `RegistryIsSound`, `AdmittedAreInTheLog`: from `Base`, which adds what the loop relies
  on (`Ahead`: a device it will publish has a row, one it will activate is published)
  and that consumed tokens name enrolled devices. The lemmas `RevokeSound`,
  `EnrollSound`, `ActivateSound`, `ApplySound` say what each transaction preserves;
  succession rests on the least leaf existing.
* `AdmissionFollowsRepair`: `AdmissionAgrees`. The gate opens in one step, so agreement
  must have been collected before: `Progress` says at each program point which
  revocations are denied and which consumers are settled, and `GateOpen` that the loop
  changes nothing but late revocations while the gate is open.
* `ClaimsAreCurrent`: `LeasesNameRights`. Every transaction that changes what a device
  may do gives it a generation it never had (`Keeps`), so a claim, or one in the making,
  is either outdated by its generation or right (`Claims`).
* `EnrollmentsAreSound`: `EnrollmentIsSound`. `Answering` says what the loop has done by
  the step at which it answers, `PaidFor` that a device's token is spent on that device
  alone, `Grows` that neither the log nor a denial is ever taken back.

and of ChannelPolicy, for any devices, leaves, epochs, revocations and interruptions, when
there is a leaf for every device that a group may add (`RoomAssumption`: an MLS tree
grows):

* `ChannelFollowsPolicy`: `PolicyIsSound`. `ChannelSound` says that everything that names an
  MLS state (a row, a Commit in the stream, a Welcome, a device's group) names one that a
  coordinator made, and, in `BoxSound`, why the three rows of a change take effect in order:
  each stands directly behind the one it depends on, or that one is gone because what it
  stands for has happened. `OpSound` carries this and the claim of a KeyPackage over the
  calls in between, `PolicyRow` that the registry is sound and its epoch that of its last
  update, `Numbered` that epochs beyond the bound have removed a revoked device. What
  `CaughtUp` leads to for every stream (`CaughtUpIsGroup`) needs no induction scheme: if
  some place of the recursive function were wrong there would be a first (`LeastNatural`),
  and the place before it is right.
* `RightsAreNotRevived`: `NoRevival`, from `ChannelSound` and the registry's lemmas: a
  revocation only takes members away, an update has a newer epoch or changes nothing.

`DirectoryTrust_proofs`, for any clients, endpoints, packages and signing keys:

* `Soundness`: `TrustIsSound`. `StoreSound` relates pins, revocations and the accepted
  checkpoint; `AuditSound` says what an audit has established at each of its writes, which
  is what makes a crash between two of them harmless; `Honest` that, while the journals
  only grew, everything a client has or is looking at is a prefix of them, so the checks
  that raise an alert cannot fail.
* `Evidence`: `EvidenceIsKept`, from the same invariant.
* The first attempt failed on `Observation`: its cases overlapped, and a CASE that
  overlaps has no definite value. The model now has the order of the code's branches
  (`core/trust.rs`, `observe_device`).

`BackendRoles_proofs`, for any requests, leases, connections and deaths:

* `Soundness`: `RolesAreSound`. `InTouch` is the four states the two ends of one
  connection can be in together (idle, request on its way, being worked on, answer on its
  way); `SessionSound` and `WorkerSound` say what each end finds in its buffer when the
  other has died; `ControlSound` that the one place in the channel belongs to the present
  session, `BacklogSound` and `FreshConns` that a connection nobody accepted holds only
  its hello.
* `NoStaleStart`: `StaleNeverStarts`, from `ControlSound`.

`Home_proofs`, for any keys, roles' items, schemas, exports and faults, when more keys can
be generated than faults happen:

* `Soundness`: `HomeIsSound`. `KeyringSound` counts: every item of a role but one took a
  fault, so a fresh key exists; `StateSound`, `FileSound` and `FilesSound` bind metadata
  and database, present or put aside, to the committed keys; `ProcSound` says what a
  command knows at each stage, `ExportSound` how far the two files of an export are.
* `NeverRemade`: `CommittedIsNeverRemade`.

`AuditTrail_proofs`, for any limits:

* `Soundness`, `Accountability`: `TrailIsSound`, `EffectsAreRecorded`. `LogSound` (rows
  and counters against the history), `PendingSound` (a pending effect is the one its
  intent names), `TaskSound`, `GrantSound`, `CommandSound` (the operation number each
  party has in hand is that of an intent on record; the lock keeps the operator's
  boundary as it was read), and the counts of observations.
* `PrunePolicy`: `PruneWithinPolicy`, from `CommandSound`.

`Conversation_proofs`, for any devices and limits with a reserve of two rows or more (a
removal queues a policy and a Commit):

* `Agreement`: `TranscriptsAgree`. `StreamSound`, `InboxSound` and `Located`: what a device
  has processed it holds or has rejected, at the first place the stream has it; a device
  is in the new epoch exactly if it made the removal or has processed it.
* `Room`: `RemovalHasRoom`. `Roomy` counts the unsent rows: the reserve is untouched while
  the epoch is the old one.
* `LastEditWins`: `EditsTakeEffect`, from `LastVersions`: the version shown is the last
  written of those held, since one author's counters grow with its events.

and of Receipts, for any clients, authors, limits, batches and numbers in flight:

* `ReceiptsTellTheTruth`: `ReceiptsAreTrue`. `Vouched` says it of every event on the wire, in
  whatever order and however often it arrives: what its sender claims was true when it was
  sealed and stays true, because a device never forgets that it held or showed a message.

The proofs rest on the named assumptions of the modules only (constants are distinct, the
roster does not repeat a device, limits are naturals, and the three conditions named
above: keys against faults, the reserve, the free leaf).
Only model-checked is every liveness property, since they need fairness, which is out of
the proof system's reach: `SurvivorsRekeyOrQuarantine`, `ServesAgain`, `WarningsClear`,
`RewriteIsNoticed`, `RevocationsTakeHold`, `ServiceRecovers`, `RevocationIsEnforced`,
`ReadinessReturns`, `ChannelSettles`, `Converges`, `HomeIsEstablished`, `ReceiptsArrive`.
Every invariant and every action property of the runs is proved.

## State of the project

The order of work followed what a failure would cost: the channel, the journals and the
trust in them, the authority, the governed channel, then the stores around them. The
components that hold protocol state are modelled, their safety properties are checked and
proved, their liveness is checked. What would extend it is more of the code (the section
below), not more about the code that is here.

## Not modelled

Cryptography and encodings (`wire`, fingerprints, sealing, the contents of a recovery
archive, SQLCipher) are taken to be sound. Typing activity (`core/ephemeral.rs`,
`TypingState`) is a display hint that depends on two clocks; its one rule, that a
tombstone outlives the event it answers, is a bound on clock skew and not an order of
steps. Attachments are chunks bound to a manifest by hashes, put and fetched within one
call. Deployment rendering, validation, TLS, diagnostics other than readiness,
command-line parsing, drafts and terminal drawing hold no protocol state. Capacity and
rate limits appear as the bounds of the queues and tables they guard, not as counters of
requests per second. The files and the reload acknowledgment inside broker enforcement
are one step.
