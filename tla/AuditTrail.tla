----------------------------- MODULE AuditTrail -----------------------------
(***************************************************************************)
(* The authority's durable audit trail: the audit tables inside the        *)
(* encrypted registry, the recording points of the running authority (one  *)
(* control loop, one Auth Callout task), and the operator's commands,      *)
(* which run only while the authority is stopped.  Ordinary records may    *)
(* use the trail up to a reserve; repair and administration may use the    *)
(* reserve too.  Privilege-expanding mutations commit with their record or *)
(* not at all; revocations commit whatever happens to their record.        *)
(*                                                                         *)
(* A record is its sequence, what it is about and the operation it belongs *)
(* to.  opaque() draws a fresh operation id: here the sequence number of   *)
(* the operation's first record.  The byte budget of the trail, the page   *)
(* budget of the database and a lost race for the SQLite write lock may    *)
(* refuse any append, and storage that takes no metadata at all loses the  *)
(* mark of the loss as well: the parameter room of an action.              *)
(***************************************************************************)
EXTENDS Naturals, FiniteSets, FiniteSetsExt

CONSTANTS Devices,          \* keys of enrolled devices
          MaxEvents,        \* MAX_EVENTS
          ReserveEvents,    \* RESERVE_EVENTS
          MaxSequence,      \* the last sequence the store can hold (i64::MAX - 1)
          PendingLimit,     \* unresolved effects the store holds (256)
          PruneLimit,       \* rows one prune deletes at most (256)
          QueueLimit,       \* observations waiting in memory (256)
          DrainLimit,       \* observations one refresh stores (16)
          ExportLimit,      \* --max-records
          Cursors,          \* the <<after, upper>> an operator exports
          Rooms,            \* what room may be, of Storage
          MaxObservations   \* bound: observations in one life of the authority

\* What the storage does with an append and the mark of a refused one.
Storage == {"free", "refused", "unwritable"}

ASSUME LimitsAssumption ==
    /\ MaxEvents \in Nat /\ ReserveEvents \in Nat /\ ReserveEvents < MaxEvents
    /\ MaxSequence \in Nat /\ MaxObservations \in Nat
    /\ {PendingLimit, PruneLimit, QueueLimit, DrainLimit, ExportLimit} \subseteq Nat \ {0}
    /\ Cursors \subseteq (0..MaxSequence) \X (0..MaxSequence)
    /\ Rooms \subseteq Storage

VARIABLES
    rows,       \* audit_events: the retained records
    next,       \* audit_state.next_sequence
    from,       \* audit_state.retained_from
    events,     \* audit_state.events
    through,    \* audit_state.prune_through
    degraded,   \* audit_state.degraded
    pending,    \* audit_pending: [label, op]
    revoked,    \* devices.revoked
    journal,    \* keys the broker's revocation journal names
    holder,     \* who has the runtime lock: "none", "authority", "operator"
    task,       \* the control loop: Idle, or the effect it is performing
    grant,      \* the callout task: Idle, or the admission it is answering
    queue,      \* Runtime.audit_queue: how many observations wait
    loss,       \* Runtime.audit_loss
    command,    \* the operator's command: Idle, or its progress
    partial,    \* OUTPUT.partial exists
    output,     \* OUTPUT: Absent, or the records it holds
    \* history variables
    history,    \* every record ever appended
    granted,    \* operations of the grants handed to devices
    excused,    \* devices revoked before the operator last cleared degraded, or
                \* while the storage took neither the record nor the mark
    observed, stored   \* observations made, and recorded, in this life

store == <<rows, next, events, history>>
bounds == <<from, through, pending>>
marks == <<bounds, degraded>>
world == <<revoked, journal, holder>>
callers == <<task, grant>>
counts == <<queue, loss, observed, stored>>
runtime == <<grant, counts>>
volatile == <<task, runtime>>
files == <<partial, output>>
ghosts == <<granted, excused>>
offline == <<command, files, ghosts>>
vars == <<store, marks, world, volatile, offline>>

Idle == [stage |-> "idle"]
Absent == [absent |-> TRUE]
Nobody == "nobody"
NoOp == 0
Stages == {"Committed", "Intent", "Succeeded", "Failed"}
Effects == {"Reconciliation", "Registration", "Revocation"}
\* The kinds the properties tell apart; every other kind is "Other".
Kinds == Effects \cup {"DeviceRevoked", "Admission", "Response", "Export", "Other"}
Record == [seq : 1..MaxSequence, kind : Kinds, stage : Stages, op : 1..MaxSequence,
           target : Devices \cup {Nobody}]

-----------------------------------------------------------------------------
\* Recording

Upper == next - 1

Fits(reserve, room) ==
    /\ reserve \/ ~degraded
    /\ next <= MaxSequence
    /\ events < MaxEvents - (IF reserve THEN 0 ELSE ReserveEvents)
    /\ room = "free"

\* The mark of a refused record, when the storage takes it.
Degrade(room) == degraded' = (degraded \/ room # "unwritable")

append_operation(kind, stage, op, target) ==
    LET record == [seq |-> next, kind |-> kind, stage |-> stage, op |-> op, target |-> target]
    IN  /\ rows' = rows \cup {record}
        /\ history' = history \cup {record}
        /\ next' = next + 1
        /\ events' = events + 1

\* append draws a new operation.
append(kind, stage, target) == append_operation(kind, stage, next, target)

\* Mutant: a refused record leaves no mark.
RepairQuietly(kind, target, room) ==
    IF Fits(TRUE, room)
    THEN append(kind, "Committed", target) /\ UNCHANGED degraded
    ELSE UNCHANGED <<store, degraded>>

\* repair: a savepoint around the record; a failed record leaves the mutation
\* standing and the trail degraded, if that much can be written.
repair(kind, target, room) ==
    IF Fits(TRUE, room)
    THEN append(kind, "Committed", target) /\ UNCHANGED degraded
    ELSE Degrade(room) /\ UNCHANGED store

\* audit_event and audit_batch whose failure the caller drops or counts.
CanBatch(n, room) ==
    /\ ~degraded /\ room = "free"
    /\ next + n <= MaxSequence + 1
    /\ events + n <= MaxEvents - ReserveEvents

audit_batch(n) ==
    LET batch == {[seq |-> s, kind |-> "Other", stage |-> "Committed", op |-> s,
                   target |-> Nobody] : s \in next..(next + n - 1)}
    IN  /\ rows' = rows \cup batch
        /\ history' = history \cup batch
        /\ next' = next + n
        /\ events' = events + n

-----------------------------------------------------------------------------
\* migrate leaves an empty trail; the registry starts with every device live.
Init ==
    /\ rows = {} /\ history = {} /\ next = 1 /\ from = 1 /\ events = 0
    /\ through = 0 /\ degraded = FALSE /\ pending = {}
    /\ revoked = {} /\ journal = {} /\ holder = "none"
    /\ task = Idle /\ grant = Idle /\ queue = 0 /\ loss = 0
    /\ command = Idle /\ partial = FALSE /\ output = Absent
    /\ granted = {} /\ excused = {}
    /\ observed = 0 /\ stored = 0

\* The authority takes the runtime lock and records its start.
Start(room) ==
    /\ holder = "none"
    /\ holder' = "authority"
    /\ repair("Other", Nobody, room)
    /\ UNCHANGED <<bounds, revoked, journal, volatile, offline>>

\* A stop or a crash: the lock and everything in memory is gone.
Stop ==
    /\ holder = "authority"
    /\ holder' = "none"
    /\ task' = Idle /\ grant' = Idle /\ queue' = 0 /\ loss' = 0
    /\ observed' = 0 /\ stored' = 0
    /\ UNCHANGED <<store, marks, revoked, journal, offline>>

\* Token issuance, enrollment, activation and an expanding policy: the record
\* and the mutation commit together.  Issuance takes no runtime lock, so this
\* step also interleaves with the operator's commands.
Expand ==
    /\ Fits(FALSE, "free")
    /\ append("Other", "Committed", Nobody)
    /\ UNCHANGED <<marks, world, volatile, offline>>

-----------------------------------------------------------------------------
\* The control loop.  Every request and every repair first applies the
\* journal's revocations, one transaction per key.

Applied == journal \subseteq revoked
Ready == holder = "authority" /\ task = Idle /\ Applied

\* Mutant: the revocation commits only with an ordinary record.
RevokeWithRecord(d, room) ==
    /\ holder = "authority" /\ task = Idle
    /\ d \in journal \ revoked
    /\ revoked' = revoked \cup {d}
    /\ Fits(FALSE, room)
    /\ append("DeviceRevoked", "Committed", d) /\ UNCHANGED degraded
    /\ UNCHANGED <<bounds, journal, holder, volatile, offline>>

\* A revocation that itself leaves the database over its page budget is rolled back
\* whole and changes nothing; the next request or repair tries again.
revoke(d, room) ==
    /\ holder = "authority" /\ task = Idle
    /\ d \in journal \ revoked
    /\ revoked' = revoked \cup {d}
    /\ repair("DeviceRevoked", d, room)
    /\ excused' = IF room = "unwritable" THEN excused \cup {d} ELSE excused
    /\ UNCHANGED <<bounds, journal, holder, volatile, command, files, granted>>

\* A policy that takes rights away commits whatever happens to its record.
Reduce(room) ==
    /\ Ready
    /\ repair("Other", Nobody, room)
    /\ UNCHANGED <<bounds, world, volatile, offline>>

Label(kind, target) == <<kind, target>>

Waiting(kind, target) == {p \in pending : p.label = Label(kind, target)}

\* audit_effect_inner: reuse the retained intent of the same effect, or record
\* a new one.  Without an intent a required effect is refused.
audit_effect(kind, target, required, room) ==
    LET doing(op) == [stage |-> "effect", kind |-> kind, target |-> target, op |-> op]
        known == Waiting(kind, target)
    IN  \/ /\ known # {}
           /\ \E p \in known : task' = doing(p.op)
           /\ UNCHANGED <<store, pending, degraded>>
        \/ /\ known = {} /\ Cardinality(pending) < PendingLimit /\ Fits(~required, room)
           /\ append(kind, "Intent", target)
           /\ pending' = pending \cup {[label |-> Label(kind, target), op |-> next]}
           /\ task' = doing(next)
           /\ UNCHANGED degraded
        \/ /\ known = {} /\ ~(Cardinality(pending) < PendingLimit /\ Fits(~required, room))
           /\ Degrade(room)
           /\ task' = IF required THEN Idle ELSE doing(NoOp)
           /\ UNCHANGED <<store, pending>>

\* A registration of a request requires its intent; one of a repair does not,
\* nor does a revocation or the reconciliation of consumers.
BeginEffect(kind, target, required, room) ==
    /\ Ready
    /\ (kind = "Reconciliation") <=> (target = Nobody)
    /\ required => kind = "Registration"
    /\ audit_effect(kind, target, required, room)
    /\ UNCHANGED <<from, through, world, runtime, offline>>

\* The broker call: a reported failure does not say that nothing happened.
\* outcome "lost" is the five-second timeout that drops the rest of the request.
Perform(outcome, reached) ==
    /\ task.stage = "effect"
    /\ outcome = "Succeeded" => reached
    /\ journal' = IF reached /\ task.kind = "Revocation"
                  THEN journal \cup {task.target} ELSE journal
    /\ task' = IF outcome = "lost" THEN Idle
               ELSE [stage |-> "result", kind |-> task.kind, target |-> task.target,
                     op |-> task.op, outcome |-> outcome]
    /\ UNCHANGED <<store, marks, revoked, holder, runtime, offline>>

\* Mutant: any result closes the effect.
ResultCloses(kind, op, outcome, room) ==
    IF Fits(TRUE, room)
    THEN /\ append_operation(kind, outcome, op, Nobody)
         /\ pending' = {p \in pending : p.op # op}
         /\ UNCHANGED degraded
    ELSE Degrade(room) /\ UNCHANGED <<store, pending>>

\* The result closes the effect only when it succeeded and was recorded.
RecordResult(kind, op, outcome, room) ==
    IF Fits(TRUE, room)
    THEN /\ append_operation(kind, outcome, op, Nobody)
         /\ pending' = IF outcome = "Succeeded" \/ kind = "Export"
                       THEN {p \in pending : p.op # op} ELSE pending
         /\ UNCHANGED degraded
    ELSE Degrade(room) /\ UNCHANGED <<store, pending>>

audit_effect_result(room) ==
    /\ task.stage = "result"
    /\ IF task.op = NoOp
       THEN UNCHANGED <<store, pending, degraded>>
       ELSE RecordResult(task.kind, task.op, task.outcome, room)
    /\ task' = Idle
    /\ UNCHANGED <<from, through, world, runtime, offline>>

-----------------------------------------------------------------------------
\* The callout task: a device is granted only after its decision and its
\* response are recorded under one operation.

Admit(room) ==
    /\ holder = "authority" /\ grant = Idle
    /\ Fits(FALSE, room)
    /\ append("Admission", "Succeeded", Nobody)
    /\ grant' = [stage |-> "respond", op |-> next]
    /\ UNCHANGED <<marks, world, task, counts, offline>>

Respond(room) ==
    /\ grant.stage = "respond"
    /\ IF Fits(FALSE, room)
       THEN /\ append_operation("Response", "Succeeded", grant.op, Nobody)
            /\ granted' = granted \cup {grant.op}
       ELSE UNCHANGED <<store, granted>>
    /\ grant' = Idle
    /\ UNCHANGED <<marks, world, task, counts, command, files, excused>>

\* Records whose failure nobody acts on: the summary of a window of denials,
\* a rejected policy, the lease of a backend role.  The ordinary budget only.
BestEffort ==
    /\ holder = "authority"
    /\ Fits(FALSE, "free")
    /\ append("Other", "Committed", Nobody)
    /\ UNCHANGED <<marks, world, volatile, offline>>

-----------------------------------------------------------------------------
\* Runtime observations: a bounded queue in memory, drained in batches.

queue_audit ==
    /\ holder = "authority" /\ observed < MaxObservations
    /\ observed' = observed + 1
    /\ IF queue < QueueLimit
       THEN queue' = queue + 1 /\ UNCHANGED loss
       ELSE loss' = loss + 1 /\ UNCHANGED queue
    /\ UNCHANGED <<store, marks, world, callers, stored, offline>>

refresh(room) ==
    LET n == IF queue < DrainLimit THEN queue ELSE DrainLimit
        fits == CanBatch(n, room)
    IN  /\ holder = "authority"
        /\ queue' = queue - n
        /\ IF n > 0 /\ fits
           THEN audit_batch(n) /\ stored' = stored + n /\ UNCHANGED loss
           ELSE loss' = loss + n /\ UNCHANGED <<store, stored>>
        /\ UNCHANGED <<marks, world, callers, observed, offline>>

-----------------------------------------------------------------------------
\* The operator's commands hold the runtime lock from start to end.

set_retention(boundary, room) ==
    /\ holder = "none"
    /\ boundary <= Upper
    /\ Fits(TRUE, room)
    /\ append("Other", "Committed", Nobody)
    /\ through' = boundary
    /\ UNCHANGED <<from, degraded, pending, world, volatile, offline>>

\* Mutant: the retention policy is not consulted.
PruneUnasked(boundary) ==
    /\ holder = "none"
    /\ \E r \in rows : r.seq <= boundary
    /\ holder' = "operator"
    /\ command' = [stage |-> "prune", boundary |-> boundary]
    /\ UNCHANGED <<store, marks, revoked, journal, volatile, files, ghosts>>

\* prune checks the policy on a read-only snapshot and then reopens the store.
PruneInspect(boundary) ==
    /\ holder = "none"
    /\ boundary <= through
    /\ \E r \in rows : r.seq <= boundary
    /\ holder' = "operator"
    /\ command' = [stage |-> "prune", boundary |-> boundary]
    /\ UNCHANGED <<store, marks, revoked, journal, volatile, files, ghosts>>

Sequences == {r.seq : r \in rows}
LastPruned(boundary) ==
    LET eligible == {s \in Sequences : s <= boundary}
    IN  Max({s \in eligible : Cardinality({e \in eligible : e <= s}) <= PruneLimit})

\* One bounded deletion, the new boundary and its marker, in one transaction.
prune(room) ==
    LET last == LastPruned(command.boundary)
        left == events - Cardinality({s \in Sequences : s <= last})
        mark == [seq |-> next, kind |-> "Other", stage |-> "Committed", op |-> next,
                 target |-> Nobody]
    IN  /\ command.stage = "prune"
        /\ IF next <= MaxSequence /\ left < MaxEvents /\ room = "free"
           THEN /\ rows' = {r \in rows : r.seq > last} \cup {mark}
                /\ history' = history \cup {mark}
                /\ next' = next + 1
                /\ events' = left + 1
                /\ from' = last + 1
           ELSE UNCHANGED <<store, from>>
        /\ command' = Idle /\ holder' = "none"
        /\ UNCHANGED <<through, degraded, pending, revoked, journal, volatile, files, ghosts>>

recover(room) ==
    /\ holder = "none"
    /\ events + 1 < MaxEvents - ReserveEvents
    /\ Fits(TRUE, room)
    /\ append("Other", "Committed", Nobody)
    /\ degraded' = FALSE
    /\ excused' = revoked
    /\ UNCHANGED <<bounds, world, volatile, command, files, granted>>

\* An export is attempted whether or not its intent can be recorded; a lost
\* intent is itself reported through the repair path, unless the registry does
\* not open: then there is neither record nor mark.
ExportStart(after, upper, room, again) ==
    LET begin(op) == [stage |-> "snapshot", after |-> after, upper |-> upper, op |-> op]
    IN  /\ holder = "none"
        /\ holder' = "operator"
        /\ IF Fits(TRUE, room)
           THEN /\ append("Export", "Intent", Nobody)
                /\ command' = begin(next)
                /\ UNCHANGED degraded
           ELSE /\ IF Fits(TRUE, again)
                   THEN append("Export", "Intent", Nobody) /\ UNCHANGED degraded
                   ELSE Degrade(again) /\ UNCHANGED store
                /\ command' = begin(NoOp)
        /\ UNCHANGED <<bounds, revoked, journal, volatile, files, ghosts>>

ExportEnd(outcome) ==
    command' = [stage |-> "result", op |-> command.op, outcome |-> outcome]
\* The cursor must lie in the retained snapshot, and neither file may exist.
ExportCreate ==
    /\ command.stage = "snapshot"
    /\ IF /\ command.after + 1 >= from
          /\ command.after <= command.upper /\ command.upper <= Upper
          /\ output = Absent /\ ~partial
       THEN /\ partial' = TRUE
            /\ command' = [command EXCEPT !.stage = "write"]
       ELSE ExportEnd("Failed") /\ UNCHANGED partial
    /\ UNCHANGED <<store, marks, world, volatile, output, ghosts>>

\* The rows are written in sequence; a gap or a failed write ends the export and
\* leaves the partial file behind.  The finished file is linked under its final name.
Cursor == IF command.upper < command.after + ExportLimit
          THEN command.upper ELSE command.after + ExportLimit
Selected == {r \in rows : r.seq > command.after /\ r.seq <= Cursor}

ExportPublish(written) ==
    /\ command.stage = "write"
    /\ IF /\ written /\ output = Absent
          /\ {r.seq : r \in Selected} = (command.after + 1)..Cursor
       THEN /\ output' = [after |-> command.after, cursor |-> Cursor, records |-> Selected]
            /\ command' = [command EXCEPT !.stage = "unlink"]
       ELSE ExportEnd("Failed") /\ UNCHANGED output
    /\ UNCHANGED <<store, marks, world, volatile, partial, ghosts>>

\* The partial name is removed last; an export that cannot has failed, its output
\* published.
ExportUnlink(removed) ==
    /\ command.stage = "unlink"
    /\ partial' = ~removed
    /\ ExportEnd(IF removed THEN "Succeeded" ELSE "Failed")
    /\ UNCHANGED <<store, marks, world, volatile, output, ghosts>>

ExportResult(room) ==
    /\ command.stage = "result"
    /\ IF command.op = NoOp
       THEN UNCHANGED <<store, pending, degraded>>
       ELSE RecordResult("Export", command.op, command.outcome, room)
    /\ command' = Idle /\ holder' = "none"
    /\ UNCHANGED <<from, through, revoked, journal, volatile, files, ghosts>>

\* The operator's process dies: its lock is free and its files stay.
CommandDies ==
    /\ holder = "operator"
    /\ holder' = "none" /\ command' = Idle
    /\ UNCHANGED <<store, marks, revoked, journal, volatile, files, ghosts>>

-----------------------------------------------------------------------------
Control ==
    \/ \E d \in Devices, room \in Rooms : revoke(d, room)
    \/ \E kind \in Effects, target \in Devices \cup {Nobody}, required \in BOOLEAN, room \in Rooms :
          BeginEffect(kind, target, required, room)
    \/ \E outcome \in {"Succeeded", "Failed", "lost"}, reached \in BOOLEAN :
          Perform(outcome, reached)
    \/ \E room \in Rooms : audit_effect_result(room) \/ Reduce(room)

CommandStep ==
    \/ \E room \in Rooms : prune(room) \/ ExportResult(room)
    \/ ExportCreate
    \/ \E written \in BOOLEAN : ExportPublish(written) \/ ExportUnlink(written)

Operator ==
    \/ \E boundary \in 0..MaxSequence, room \in Rooms : set_retention(boundary, room)
    \/ \E boundary \in 0..MaxSequence : PruneInspect(boundary)
    \/ \E room \in Rooms : recover(room)
    \/ \E cursor \in Cursors, room, again \in Rooms :
          ExportStart(cursor[1], cursor[2], room, again)
    \/ CommandStep \/ CommandDies

Next ==
    \/ \E room \in Rooms : Start(room) \/ Admit(room) \/ Respond(room) \/ refresh(room)
    \/ Stop \/ Expand \/ BestEffort \/ queue_audit
    \/ Control \/ Operator

\* The control loop keeps taking steps and a command ends.  The authority may be
\* killed any number of times, but not every life of it is too short to reach
\* the journal, which it applies before anything else, nor every revocation over
\* the page budget, and an operator does not run commands for ever without
\* starting it again.
Fairness ==
    /\ SF_vars(\E room \in Rooms : Start(room))
    /\ SF_vars(\E d \in Devices, room \in Rooms : revoke(d, room))
    /\ WF_vars(\E outcome \in {"Succeeded", "Failed", "lost"}, reached \in BOOLEAN :
                   Perform(outcome, reached))
    /\ WF_vars(\E room \in Rooms : audit_effect_result(room))
    /\ WF_vars(CommandStep)

Spec == Init /\ [][Next]_vars
FairSpec == Spec /\ Fairness
-----------------------------------------------------------------------------
\* Properties

TaskType ==
    \/ task = Idle
    \/ /\ task \in [stage : {"effect"}, kind : Effects, target : Devices \cup {Nobody},
                    op : 0..MaxSequence]
    \/ /\ task \in [stage : {"result"}, kind : Effects, target : Devices \cup {Nobody},
                    op : 0..MaxSequence, outcome : {"Succeeded", "Failed"}]

CommandType ==
    \/ command = Idle
    \/ command \in [stage : {"prune"}, boundary : 1..MaxSequence]
    \/ command \in [stage : {"snapshot", "write", "unlink"}, after : 0..MaxSequence,
                    upper : 0..MaxSequence, op : 0..MaxSequence]
    \/ command \in [stage : {"result"}, op : 0..MaxSequence, outcome : {"Succeeded", "Failed"}]

\* The audit tables, the files and the memory of both processes hold what the
\* code stores in them, and only a holder of the runtime lock has work in hand.
TypeOK ==
    /\ rows \subseteq Record /\ history \subseteq Record
    /\ next \in 1..(MaxSequence + 1) /\ from \in 1..(MaxSequence + 1)
    /\ events \in 0..MaxEvents /\ through \in 0..MaxSequence /\ degraded \in BOOLEAN
    /\ pending \subseteq [label : Effects \X (Devices \cup {Nobody}), op : 1..MaxSequence]
    /\ revoked \subseteq Devices /\ journal \subseteq Devices /\ excused \subseteq Devices
    /\ holder \in {"none", "authority", "operator"}
    /\ TaskType /\ CommandType
    /\ grant = Idle \/ grant \in [stage : {"respond"}, op : 1..MaxSequence]
    /\ task # Idle \/ grant # Idle => holder = "authority"
    /\ command # Idle <=> holder = "operator"
    /\ queue \in 0..QueueLimit /\ loss \in Nat
    /\ partial \in BOOLEAN
    /\ output = Absent \/ output \in [after : 0..MaxSequence, cursor : 0..MaxSequence,
                                      records : SUBSET Record]
    /\ granted \subseteq 1..MaxSequence
    /\ observed \in 0..MaxObservations /\ stored \in Nat

\* What the trail retains is exactly the part of everything ever recorded from
\* retained_from on: prunes and rolled-back appends leave no hole, no sequence
\* is used twice, and the event counter agrees with the rows.
RetainedIsSuffix ==
    /\ rows = {r \in history : r.seq >= from}
    /\ {r.seq : r \in history} = 1..Upper
    /\ \A r, q \in history : r.seq = q.seq => r = q
    /\ events = next - from

\* info(), which every append and every command calls first, never refuses the
\* metadata the trail itself has written, so the trail cannot lock itself.
MetadataIsValid ==
    /\ from <= next /\ through <= Upper
    /\ events <= MaxEvents
    /\ Cardinality(pending) <= PendingLimit

Attempts == {r \in history : r.stage = "Intent" /\ r.kind \in Effects}
Resolved(op) == \E r \in history : r.op = op /\ r.kind \in Effects /\ r.stage = "Succeeded"

\* audit_pending lists exactly the broker effects whose intent was recorded and
\* whose success was not, through crashes, timeouts and refused results, and
\* never two of them for one effect.
PendingIsUnresolved ==
    /\ {p.op : p \in pending} = {r.op : r \in {a \in Attempts : ~Resolved(a.op)}}
    /\ \A p, q \in pending : p.label = q.label => p = q

\* Every result names an operation whose intent was recorded before it, for the
\* same kind of effect.
ResultsFollowIntents ==
    \A r \in history :
        r.kind \in Effects \cup {"Export"} /\ r.stage \in {"Succeeded", "Failed"} =>
            \E i \in history : /\ i.stage = "Intent" /\ i.kind = r.kind
                              /\ i.op = r.op /\ i.seq < r.seq

\* A device was handed a grant only after its decision and its response were
\* both recorded, under one operation, whatever else was recorded meanwhile.
GrantsAreRecorded ==
    \A op \in granted :
        /\ \E r \in history : r.kind = "Admission" /\ r.op = op /\ r.seq = op
        /\ \E r \in history : r.kind = "Response" /\ r.op = op /\ r.seq > op

\* A revocation without a record leaves the trail degraded until an operator
\* clears the mark, whenever the storage takes the mark.
RevocationsAreEvidenced ==
    \A d \in revoked \ excused :
        degraded \/ \E r \in history : r.kind = "DeviceRevoked" /\ r.target = d

\* In one life of the authority every runtime observation is recorded, waiting
\* or counted as lost.
ObservationsAreAccounted == observed = stored + queue + loss

\* A published export holds every record from its cursor to its continuation
\* cursor, exactly as it was recorded.
ExportIsExact ==
    output # Absent =>
        output.records = {r \in history : r.seq > output.after /\ r.seq <= output.cursor}

\* The trail is the exact account it is exported as: nothing missing, repeated or
\* resolved that was not.
TrailIsSound ==
    /\ TypeOK /\ RetainedIsSuffix /\ MetadataIsValid
    /\ PendingIsUnresolved /\ ResultsFollowIntents /\ ExportIsExact

\* Nothing the authority did for a device or observed escapes the trail unmarked,
\* except a revocation whose record and mark the storage both refused (repair).
EffectsAreRecorded ==
    GrantsAreRecorded /\ RevocationsAreEvidenced /\ ObservationsAreAccounted

\* A record disappears only below the boundary the operator had authorised.
PruneWithinPolicy == [][\A r \in rows \ rows' : r.seq <= through]_rows

\* Audit exhaustion never holds back enforcement: a revocation in the journal
\* reaches the registry, whatever the trail has room for.
RevocationIsEnforced == \A d \in Devices : d \in journal ~> d \in revoked

\* docs/operator/audit.md keeps 1,024 events "reserved for repair and
\* administration" and tells the operator of an exhausted trail to "explicitly
\* prune eligible evidence if needed": some evidence can always be pruned, or
\* made eligible.
OperatorCanPrune == events < MaxEvents \/ through >= from
=============================================================================
