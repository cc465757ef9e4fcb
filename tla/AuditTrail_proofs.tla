-------------------------- MODULE AuditTrail_proofs --------------------------
(***************************************************************************)
(* Proofs about the audit trail, for any number of devices and any limits:   *)
(* the trail is the exact account of what was recorded, nothing the authority*)
(* did escapes it unmarked, and a prune stays within the operator's policy.  *)
(***************************************************************************)
EXTENDS AuditTrail, FiniteSetTheorems, TLAPS

(***************************************************************************)
(* The inductive invariant: the log, the effects that wait for a result, and *)
(* what each of the three parties at work holds in hand.                     *)
(***************************************************************************)

LogSound ==
    /\ rows \subseteq Record /\ history \subseteq Record
    /\ next \in 1..(MaxSequence + 1) /\ from \in 1..(MaxSequence + 1) /\ from <= next
    /\ events \in 0..MaxEvents
    /\ RetainedIsSuffix
    /\ \A r \in history : r.op <= r.seq /\ (r.stage = "Intent" => r.op = r.seq)
    /\ ResultsFollowIntents

\* The intent of an operation is on record.
Began(kind, op) ==
    \E i \in history : i.stage = "Intent" /\ i.kind = kind /\ i.op = op /\ i.seq = op

Targets == Devices \cup {Nobody}
PendingType == [label : Effects \X Targets, op : 1..MaxSequence]

\* A pending effect is the one its intent names.
PendingSound ==
    /\ pending \subseteq PendingType
    /\ IsFiniteSet(pending) /\ Cardinality(pending) <= PendingLimit
    /\ PendingIsUnresolved
    /\ \A p \in pending : \E i \in history : /\ i.stage = "Intent" /\ i.op = p.op /\ i.seq = p.op
                                             /\ Label(i.kind, i.target) = p.label

TaskSound ==
    /\ TaskType
    /\ task # Idle => holder = "authority" /\ (task.kind = "Reconciliation" <=> task.target = Nobody)
    /\ task # Idle /\ task.op # NoOp => Began(task.kind, task.op)

GrantSound ==
    /\ grant = Idle \/ grant \in [stage : {"respond"}, op : 1..MaxSequence]
    /\ grant # Idle => /\ holder = "authority"
                       /\ \E r \in history : r.kind = "Admission" /\ r.op = grant.op /\ r.seq = grant.op

\* The operator's command: the lock keeps the policy and the boundary as they were
\* read, and what is issued meanwhile only adds records.
CommandSound ==
    /\ CommandType
    /\ command # Idle <=> holder = "operator"
    /\ command.stage = "prune" => from <= command.boundary /\ command.boundary <= through
    /\ command.stage \in {"write", "unlink"} => command.after <= command.upper /\ command.upper <= Upper
    /\ command.stage \in {"snapshot", "write", "unlink", "result"} /\ command.op # NoOp =>
          Began("Export", command.op)

OutputSound ==
    /\ output = Absent \/ output \in [after : 0..MaxSequence, cursor : 0..MaxSequence,
                                      records : SUBSET Record]
    /\ output # Absent => output.cursor <= Upper
    /\ ExportIsExact

WorldSound ==
    /\ degraded \in BOOLEAN /\ partial \in BOOLEAN
    /\ through \in 0..MaxSequence /\ through <= Upper
    /\ revoked \subseteq Devices /\ journal \subseteq Devices /\ excused \subseteq Devices
    /\ holder \in {"none", "authority", "operator"}
    /\ RevocationsAreEvidenced

GrantedSound == granted \subseteq 1..MaxSequence /\ GrantsAreRecorded

CountsSound ==
    /\ queue \in 0..QueueLimit /\ loss \in Nat
    /\ observed \in 0..MaxObservations /\ stored \in Nat
    /\ ObservationsAreAccounted

Inv ==
    /\ LogSound /\ PendingSound /\ TaskSound /\ GrantSound /\ CommandSound /\ OutputSound
    /\ WorldSound /\ GrantedSound /\ CountsSound

----------------------------------------------------------------------------
(* The log.                                                                *)

\* The limits are natural numbers.
LEMMA Limits ==
    /\ MaxEvents \in Nat /\ ReserveEvents \in Nat /\ MaxSequence \in Nat /\ MaxObservations \in Nat
    /\ ReserveEvents < MaxEvents
    /\ PendingLimit \in Nat /\ PruneLimit \in Nat /\ QueueLimit \in Nat /\ DrainLimit \in Nat
    /\ ExportLimit \in Nat
    /\ PendingLimit > 0 /\ PruneLimit > 0 /\ QueueLimit > 0 /\ DrainLimit > 0 /\ ExportLimit > 0
BY LimitsAssumption

\* Records are only added, above what is there.
Grows ==
    /\ history \subseteq history' /\ next <= next' /\ next' \in Nat
    /\ \A r \in history' \ history : r.seq >= next

\* A result that may be recorded has its intent before it.
Justified(r) ==
    /\ r.op <= r.seq /\ (r.stage = "Intent" => r.op = r.seq)
    /\ r.kind \in Effects \cup {"Export"} /\ r.stage \in {"Succeeded", "Failed"} =>
          \E i \in history : i.stage = "Intent" /\ i.kind = r.kind /\ i.op = r.op /\ i.seq < r.seq

\* Adding the next records, one or many, keeps the log.
LEMMA LogGrows ==
    ASSUME LogSound, NEW B, B \subseteq Record, NEW n \in Nat,
           rows' = rows \cup B, history' = history \cup B,
           next' = next + n, events' = events + n, from' = from,
           next' <= MaxSequence + 1, events' <= MaxEvents,
           \A r \in B : r.seq \in next..(next + n - 1),
           \A k \in next..(next + n - 1) : \E r \in B : r.seq = k,
           \A r, q \in B : r.seq = q.seq => r = q,
           \A r \in B : Justified(r)
    PROVE  LogSound' /\ Grows
<1> USE Limits
<1>1. next \in Nat /\ from \in Nat /\ events \in Nat /\ from <= next /\ next >= 1
  BY DEF LogSound
<1>2. ASSUME NEW r \in history PROVE r.seq \in 1..(next - 1)
  BY <1>2 DEF LogSound, RetainedIsSuffix, Upper
<1>3. ASSUME NEW r \in B PROVE r.seq \in next..(next + n - 1)
  OBVIOUS
<1>4. Grows
  BY <1>1, <1>3 DEF Grows
<1>5. RetainedIsSuffix'
  <2>1. rows' = {r \in history' : r.seq >= from'}
    <3>1. \A r \in B : r.seq >= from
      BY <1>1, <1>3
    <3> QED BY <3>1 DEF LogSound, RetainedIsSuffix
  <2>2. {r.seq : r \in history'} = 1..Upper'
    <3>1. {r.seq : r \in history'} = {r.seq : r \in history} \cup {r.seq : r \in B}
      OBVIOUS
    <3>2. {r.seq : r \in history} = 1..(next - 1)
      BY DEF LogSound, RetainedIsSuffix, Upper
    <3>3. 1..(next + n - 1) = (1..(next - 1)) \cup (next..(next + n - 1))
      BY <1>1
    <3>4. Upper' = next + n - 1
      BY <1>1 DEF Upper
    <3>5. {r.seq : r \in B} = next..(next + n - 1)
      OBVIOUS
    <3> QED BY <3>1, <3>2, <3>3, <3>4, <3>5
  <2>3. ASSUME NEW r \in history', NEW q \in history', r.seq = q.seq PROVE r = q
    <3>1. CASE r \in history /\ q \in history
      BY <2>3, <3>1 DEF LogSound, RetainedIsSuffix
    <3>2. CASE r \in B /\ q \in B
      BY <2>3, <3>2
    <3>3. CASE \/ r \in history /\ q \in B
               \/ r \in B /\ q \in history
      BY <1>1, <1>2, <1>3, <2>3, <3>3
    <3> QED BY <3>1, <3>2, <3>3
  <2>4. events' = next' - from'
    BY <1>1 DEF LogSound, RetainedIsSuffix
  <2> QED BY <2>1, <2>2, <2>3, <2>4 DEF RetainedIsSuffix
<1>6. \A r \in history' : r.op <= r.seq /\ (r.stage = "Intent" => r.op = r.seq)
  BY DEF LogSound, Justified
<1>7. ResultsFollowIntents'
  BY DEF LogSound, Justified, ResultsFollowIntents
<1>8. next' \in 1..(MaxSequence + 1) /\ events' \in 0..MaxEvents /\ from' <= next'
  BY <1>1
<1>9. rows' \subseteq Record /\ history' \subseteq Record /\ from' \in 1..(MaxSequence + 1)
  BY DEF LogSound
<1> QED BY <1>4, <1>5, <1>6, <1>7, <1>8, <1>9 DEF LogSound

\* One record.
RecordOf(kind, stage, op, target) ==
    [seq |-> next, kind |-> kind, stage |-> stage, op |-> op, target |-> target]

LEMMA AppendGrows ==
    ASSUME LogSound, NEW kind \in Kinds, NEW stage \in Stages, NEW op \in 1..MaxSequence,
           NEW target \in Targets, append_operation(kind, stage, op, target), UNCHANGED from,
           next <= MaxSequence, events < MaxEvents, op <= next, stage = "Intent" => op = next,
           kind \in Effects \cup {"Export"} /\ stage \in {"Succeeded", "Failed"} => Began(kind, op) /\ op # next
    PROVE  LogSound' /\ Grows /\ history' = history \cup {RecordOf(kind, stage, op, target)}
<1> USE Limits
<1> DEFINE r == RecordOf(kind, stage, op, target)
<1>1. /\ rows' = rows \cup {r} /\ history' = history \cup {r} /\ next' = next + 1 /\ events' = events + 1
  BY DEF append_operation, RecordOf
<1>2. next \in Nat /\ events \in Nat /\ next >= 1
  BY DEF LogSound
<1>3. /\ r \in Record /\ r.seq = next /\ r.kind = kind /\ r.stage = stage /\ r.op = op
  BY <1>2 DEF RecordOf, Record, Targets
<1> HIDE DEF r
<1>4. Justified(r)
  <2>1. kind \in Effects \cup {"Export"} /\ stage \in {"Succeeded", "Failed"} => op < next
    BY <1>2
  <2> QED BY <1>3, <2>1 DEF Justified, Began
<1>5. /\ \A q \in {r} : q.seq \in next..(next + 1 - 1)
      /\ \A k \in next..(next + 1 - 1) : \E q \in {r} : q.seq = k
  BY <1>2, <1>3
<1>6. next' <= MaxSequence + 1 /\ events' <= MaxEvents /\ {r} \subseteq Record
  BY <1>1, <1>2, <1>3
<1>7. /\ \A p, q \in {r} : p.seq = q.seq => p = q
      /\ \A q \in {r} : Justified(q)
      /\ 1 \in Nat
  BY <1>4
<1>8. LogSound' /\ Grows
  BY <1>1, <1>5, <1>6, <1>7, LogGrows
<1> QED BY <1>1, <1>8 DEF r

\* An admitted append has room.
LEMMA FitsRoom ==
    ASSUME LogSound, NEW reserve, NEW room, Fits(reserve, room)
    PROVE  next <= MaxSequence /\ events < MaxEvents /\ next \in 1..MaxSequence
BY Limits DEF LogSound, Fits

\* A step that leaves the store alone.
LEMMA StoreSame ==
    ASSUME LogSound, UNCHANGED <<store, from>>
    PROVE  LogSound' /\ Grows
<1>1. LogSound'
  BY DEF LogSound, store, RetainedIsSuffix, ResultsFollowIntents, Upper
<1>2. Grows
  BY Limits DEF LogSound, Grows, store
<1> QED BY <1>1, <1>2

----------------------------------------------------------------------------
(* What stays true while the log grows.                                    *)

LEMMA Predecessors ==
    ASSUME NEW a \in Nat, NEW b \in Nat, a <= b
    PROVE  a - 1 <= b - 1 /\ a - 1 \in Int /\ b - 1 \in Int
OBVIOUS

LEMMA BeganGrows ==
    ASSUME Grows, NEW kind, NEW op, Began(kind, op)
    PROVE  Began(kind, op)'
BY DEF Grows, Began

\* The parties at work, the published export and the evidence are not disturbed by
\* records added meanwhile.
LEMMA Frame ==
    ASSUME Inv, LogSound', Grows
    PROVE  /\ UNCHANGED <<task, holder>> => TaskSound'
           /\ UNCHANGED <<grant, holder>> => GrantSound'
           /\ UNCHANGED <<command, holder, from, through>> => CommandSound'
           /\ UNCHANGED output => OutputSound'
           /\ UNCHANGED granted => GrantedSound'
           /\ UNCHANGED <<revoked, excused>> /\ (degraded => degraded') => RevocationsAreEvidenced'
           /\ through \in 0..MaxSequence /\ through <= Upper'
<1> USE DEF Inv
<1>1. /\ next \in Nat /\ next' \in Nat /\ next <= next' /\ Upper <= Upper' /\ Upper \in Int /\ Upper' \in Int
      /\ history \subseteq history' /\ \A r \in history' : r.seq \in Nat
  <2>1. next \in Nat /\ next' \in Nat /\ next <= next' /\ history \subseteq history'
    BY Limits DEF LogSound, Grows
  <2>2. next - 1 <= next' - 1 /\ next - 1 \in Int /\ next' - 1 \in Int
    BY <2>1, Predecessors
  <2>3. \A r \in history' : r.seq \in Nat
    BY Limits DEF LogSound, Record
  <2>4. Upper <= Upper' /\ Upper \in Int /\ Upper' \in Int
    BY <2>2 DEF Upper
  <2> QED BY <2>1, <2>3, <2>4
<1>2. UNCHANGED <<task, holder>> => TaskSound'
  BY BeganGrows DEF TaskSound, TaskType
<1>3. UNCHANGED <<grant, holder>> => GrantSound'
  BY <1>1 DEF GrantSound
<1>4. UNCHANGED <<command, holder, from, through>> => CommandSound'
  <2>1. SUFFICES ASSUME UNCHANGED <<command, holder, from, through>> PROVE CommandSound'
    OBVIOUS
  <2>2. CommandType' /\ (command' # Idle <=> holder' = "operator")
    BY <2>1 DEF CommandSound, CommandType
  <2>3. command.stage \in {"write", "unlink"} => command.after <= command.upper /\ command.upper <= Upper'
    <3>1. SUFFICES ASSUME command.stage \in {"write", "unlink"}
                   PROVE  command.after <= command.upper /\ command.upper <= Upper'
      OBVIOUS
    <3>2. command.upper \in 0..MaxSequence
      BY <3>1 DEF CommandSound, CommandType, Idle
    <3> QED BY <1>1, <3>1, <3>2, Limits DEF CommandSound
  <2>4. command.stage \in {"snapshot", "write", "unlink", "result"} /\ command.op # NoOp =>
          Began("Export", command.op)'
    BY <2>1, BeganGrows DEF CommandSound
  <2> QED BY <2>1, <2>2, <2>3, <2>4 DEF CommandSound
<1>5. UNCHANGED output => OutputSound'
  <2>1. SUFFICES ASSUME UNCHANGED output, output # Absent
                 PROVE  /\ output.cursor <= Upper'
                        /\ output.records = {r \in history' : r.seq > output.after /\ r.seq <= output.cursor}
    BY DEF OutputSound, ExportIsExact
  <2>2. /\ output.cursor \in Nat /\ output.cursor <= next - 1 /\ output.cursor <= Upper'
    BY <1>1, <2>1, Limits DEF OutputSound, Upper
  <2>3. output.records = {r \in history : r.seq > output.after /\ r.seq <= output.cursor}
    BY <2>1 DEF OutputSound, ExportIsExact
  <2>4. ASSUME NEW r \in history', r.seq > output.after, r.seq <= output.cursor PROVE r \in history
    BY <1>1, <2>2, <2>4 DEF Grows
  <2> QED BY <1>1, <2>2, <2>3, <2>4
<1>6. UNCHANGED granted => GrantedSound'
  BY <1>1 DEF GrantedSound, GrantsAreRecorded
<1>7. UNCHANGED <<revoked, excused>> /\ (degraded => degraded') => RevocationsAreEvidenced'
  BY <1>1 DEF WorldSound, RevocationsAreEvidenced
<1>8. through \in 0..MaxSequence /\ through <= Upper'
  BY <1>1, Limits DEF WorldSound
<1> QED BY <1>2, <1>3, <1>4, <1>5, <1>6, <1>7, <1>8

\* What waits for a result stays what it is when no effect begins or succeeds.
LEMMA PendingFrame ==
    ASSUME Inv, Grows, UNCHANGED pending,
           \A r \in history' \ history : ~(r.kind \in Effects /\ r.stage \in {"Intent", "Succeeded"})
    PROVE  PendingSound'
<1> USE DEF Inv
<1>1. history \subseteq history'
  BY DEF Grows
<1>2. Attempts' = Attempts
  BY <1>1 DEF Attempts
<1>3. \A op : Resolved(op)' <=> Resolved(op)
  BY <1>1 DEF Resolved
<1>4. {r.op : r \in {a \in Attempts : ~Resolved(a.op)}}' = {r.op : r \in {a \in Attempts : ~Resolved(a.op)}}
  BY <1>2, <1>3
<1>5. PendingIsUnresolved'
  BY <1>4 DEF PendingSound, PendingIsUnresolved
<1> QED BY <1>1, <1>5 DEF PendingSound

\* A record of something else than a broker effect, under a new operation.
LEMMA PlainAppend ==
    ASSUME Inv, NEW kind \in Kinds \ Effects, NEW stage \in Stages, NEW target \in Targets,
           append(kind, stage, target), kind = "Export" => stage = "Intent",
           next <= MaxSequence, events < MaxEvents, UNCHANGED from
    PROVE  /\ LogSound' /\ Grows /\ (UNCHANGED pending => PendingSound')
           /\ \E r \in history' : /\ r.seq = next /\ r.op = next /\ r.kind = kind /\ r.stage = stage
                                  /\ r.target = target
<1> DEFINE r == RecordOf(kind, stage, next, target)
<1>1. next \in 1..MaxSequence
  BY Limits DEF Inv, LogSound
<1>2. append_operation(kind, stage, next, target)
  BY DEF append
<1>3. kind \notin Effects \cup {"Export"} \/ stage = "Intent"
  OBVIOUS
<1>4. LogSound' /\ Grows /\ history' = history \cup {r}
  <2>1. next <= next
    BY <1>1
  <2> QED BY <1>1, <1>2, <1>3, <2>1, AppendGrows DEF Inv
<1>5. r.seq = next /\ r.op = next /\ r.kind = kind /\ r.stage = stage /\ r.target = target
  BY DEF RecordOf
<1> HIDE DEF r
<1>6. UNCHANGED pending => PendingSound'
  BY <1>4, <1>5, PendingFrame
<1> QED BY <1>4, <1>5, <1>6

\* The mark of a refused record stays, and is set if the storage takes it.
LEMMA DegradeStep ==
    ASSUME degraded \in BOOLEAN, NEW room, Degrade(room)
    PROVE  /\ degraded' \in BOOLEAN /\ (degraded => degraded')
           /\ room # "unwritable" => degraded'
BY Zenon DEF Degrade

\* repair: the record, or the mark, or storage that takes neither.
LEMMA RepairStep ==
    ASSUME Inv, NEW kind \in {"Other", "DeviceRevoked"}, NEW target \in Targets, NEW room,
           repair(kind, target, room), UNCHANGED <<from, pending>>
    PROVE  /\ LogSound' /\ Grows /\ PendingSound' /\ degraded' \in BOOLEAN /\ (degraded => degraded')
           /\ \/ degraded' \/ room = "unwritable"
              \/ \E r \in history' : r.kind = kind /\ r.target = target
<1>1. kind \in Kinds \ Effects /\ "Committed" \in Stages /\ kind # "Export"
  BY DEF Kinds, Effects, Stages
<1>2. CASE Fits(TRUE, room)
  <2>1. append(kind, "Committed", target) /\ degraded' = degraded
    BY <1>2 DEF repair
  <2>2. next <= MaxSequence /\ events < MaxEvents
    BY <1>2, FitsRoom DEF Inv
  <2> QED BY <1>1, <2>1, <2>2, PlainAppend DEF Inv, WorldSound
<1>3. CASE ~Fits(TRUE, room)
  <2>1. Degrade(room) /\ UNCHANGED store
    BY <1>3 DEF repair
  <2>2. LogSound' /\ Grows /\ history' = history
    BY <2>1, StoreSame DEF Inv, store
  <2>3. degraded' \in BOOLEAN /\ (degraded => degraded') /\ (room # "unwritable" => degraded')
    BY <2>1, DegradeStep DEF Inv, WorldSound
  <2> QED BY <2>2, <2>3, PendingFrame
<1> QED BY <1>2, <1>3

\* Steps that record at most, or do nothing.
LEMMA QuietInv ==
    ASSUME Inv, LogSound', Grows, PendingSound', degraded' \in BOOLEAN, degraded => degraded',
           UNCHANGED <<task, grant, command, holder, from, through, output, partial, granted>>,
           UNCHANGED <<revoked, journal, excused, queue, loss, observed, stored>>
    PROVE  Inv'
<1>1. TaskSound' /\ GrantSound' /\ CommandSound' /\ OutputSound' /\ GrantedSound'
  BY Frame
<1>2. WorldSound'
  BY Frame DEF Inv, WorldSound
<1>3. CountsSound'
  BY DEF Inv, CountsSound, ObservationsAreAccounted
<1> QED BY <1>1, <1>2, <1>3 DEF Inv

\* Expand, BestEffort and stuttering preserve the invariant.
LEMMA RecordsInv ==
    ASSUME Inv, Expand \/ BestEffort \/ UNCHANGED vars
    PROVE  Inv'
<1>1. /\ UNCHANGED <<task, grant, command, holder, from, through, output, partial, granted>>
      /\ UNCHANGED <<revoked, journal, excused, queue, loss, observed, stored, degraded, pending>>
  BY DEF Expand, BestEffort, vars, marks, bounds, world, volatile, runtime, counts, offline, files, ghosts
<1>2. degraded' \in BOOLEAN /\ (degraded => degraded')
  BY <1>1 DEF Inv, WorldSound
<1>3. CASE Fits(FALSE, "free") /\ append("Other", "Committed", Nobody)
  <2>1. "Other" \in Kinds \ Effects /\ "Committed" \in Stages /\ Nobody \in Targets
    BY DEF Kinds, Effects, Stages, Targets
  <2>2. next <= MaxSequence /\ events < MaxEvents
    BY <1>3, FitsRoom DEF Inv
  <2>3. LogSound' /\ Grows /\ PendingSound'
    BY <1>1, <1>3, <2>1, <2>2, PlainAppend
  <2> QED BY <1>1, <1>2, <2>3, QuietInv
<1>4. CASE UNCHANGED store
  <2>1. LogSound' /\ Grows /\ history' = history
    BY <1>1, <1>4, StoreSame DEF Inv, store
  <2>2. PendingSound'
    BY <1>1, <2>1, PendingFrame
  <2> QED BY <1>1, <1>2, <2>1, <2>2, QuietInv
<1> QED BY <1>3, <1>4 DEF Expand, BestEffort, vars

----------------------------------------------------------------------------
(* The authority.                                                          *)

\* Start and Stop preserve the invariant: the lock is free or goes with the process.
LEMMA StartInv ==
    ASSUME Inv, NEW room \in Rooms, Start(room)
    PROVE  Inv'
<1>1. /\ holder = "none" /\ holder' = "authority" /\ repair("Other", Nobody, room)
      /\ UNCHANGED <<task, grant, command, from, through, output, partial, granted>>
      /\ UNCHANGED <<revoked, journal, excused, queue, loss, observed, stored, pending>>
  BY DEF Start, bounds, volatile, runtime, counts, offline, files, ghosts
<1>2. LogSound' /\ Grows /\ PendingSound' /\ degraded' \in BOOLEAN /\ (degraded => degraded')
  BY <1>1, RepairStep DEF Targets
<1>3. task = Idle /\ grant = Idle /\ command = Idle
  BY <1>1 DEF Inv, TaskSound, GrantSound, CommandSound
<1>4. TaskSound' /\ GrantSound'
  BY <1>1, <1>3 DEF TaskSound, TaskType, GrantSound
<1>5. CommandSound'
  BY <1>1, <1>3 DEF CommandSound, CommandType, Idle
<1>6. OutputSound' /\ GrantedSound'
  BY <1>1, <1>2, Frame
<1>7. WorldSound'
  BY <1>1, <1>2, Frame DEF Inv, WorldSound
<1>8. CountsSound'
  BY <1>1 DEF Inv, CountsSound, ObservationsAreAccounted
<1> QED BY <1>2, <1>4, <1>5, <1>6, <1>7, <1>8 DEF Inv

\* Reduce preserves the invariant.
LEMMA ReduceInv ==
    ASSUME Inv, NEW room \in Rooms, Reduce(room)
    PROVE  Inv'
<1>1. /\ repair("Other", Nobody, room)
      /\ UNCHANGED <<task, grant, command, holder, from, through, output, partial, granted>>
      /\ UNCHANGED <<revoked, journal, excused, queue, loss, observed, stored, pending>>
  BY DEF Reduce, bounds, world, volatile, runtime, counts, offline, files, ghosts
<1>2. LogSound' /\ Grows /\ PendingSound' /\ degraded' \in BOOLEAN /\ (degraded => degraded')
  BY <1>1, RepairStep DEF Targets
<1> QED BY <1>1, <1>2, QuietInv

LEMMA StopInv ==
    ASSUME Inv, Stop
    PROVE  Inv'
<1>1. /\ holder = "authority" /\ holder' = "none" /\ task' = Idle /\ grant' = Idle
      /\ queue' = 0 /\ loss' = 0 /\ observed' = 0 /\ stored' = 0
      /\ UNCHANGED store /\ UNCHANGED <<command, from, through, output, partial, granted>>
      /\ UNCHANGED <<revoked, journal, excused, degraded, pending>>
  BY DEF Stop, marks, bounds, offline, files, ghosts
<1>2. LogSound' /\ Grows /\ history' = history
  BY <1>1, StoreSame DEF Inv, store
<1>3. PendingSound'
  BY <1>1, <1>2, PendingFrame
<1>4. command = Idle
  BY <1>1 DEF Inv, CommandSound
<1>5. TaskSound' /\ GrantSound'
  BY <1>1 DEF TaskSound, TaskType, GrantSound
<1>6. CommandSound'
  BY <1>1, <1>4 DEF CommandSound, CommandType, Idle
<1>7. OutputSound' /\ GrantedSound'
  BY <1>1, <1>2, Frame
<1>8. WorldSound'
  BY <1>1, <1>2, Frame DEF Inv, WorldSound
<1>9. CountsSound'
  BY <1>1, Limits DEF CountsSound, ObservationsAreAccounted
<1> QED BY <1>2, <1>3, <1>5, <1>6, <1>7, <1>8, <1>9 DEF Inv

\* revoke preserves the invariant: the revocation stands, with its record or the mark,
\* if the storage takes one of them.
LEMMA RevokeInv ==
    ASSUME Inv, NEW d \in Devices, NEW room \in Rooms, revoke(d, room)
    PROVE  Inv'
<1>1. /\ revoked' = revoked \cup {d} /\ repair("DeviceRevoked", d, room)
      /\ UNCHANGED <<task, grant, command, holder, from, through, output, partial, granted>>
      /\ excused' = IF room = "unwritable" THEN excused \cup {d} ELSE excused
      /\ UNCHANGED <<journal, queue, loss, observed, stored, pending>>
  BY DEF revoke, bounds, volatile, runtime, counts, offline, files, ghosts
<1>2. /\ LogSound' /\ Grows /\ PendingSound' /\ degraded' \in BOOLEAN /\ (degraded => degraded')
      /\ \/ degraded' \/ room = "unwritable"
         \/ \E r \in history' : r.kind = "DeviceRevoked" /\ r.target = d
  BY <1>1, RepairStep DEF Targets
<1>3. TaskSound' /\ GrantSound' /\ CommandSound' /\ OutputSound' /\ GrantedSound'
  BY <1>1, <1>2, Frame
<1>4. WorldSound'
  <2>1. RevocationsAreEvidenced'
    BY <1>1, <1>2 DEF Inv, WorldSound, RevocationsAreEvidenced, Grows
  <2> QED BY <1>1, <1>2, <2>1, Frame DEF Inv, WorldSound
<1>5. CountsSound'
  BY <1>1 DEF Inv, CountsSound, ObservationsAreAccounted
<1> QED BY <1>2, <1>3, <1>4, <1>5 DEF Inv

\* Admit and Respond preserve the invariant: the decision is on record when the response
\* is, and both when the device has its grant.
LEMMA AdmitInv ==
    ASSUME Inv, NEW room \in Rooms, Admit(room)
    PROVE  Inv'
<1>1. /\ holder = "authority" /\ Fits(FALSE, room) /\ append("Admission", "Succeeded", Nobody)
      /\ grant' = [stage |-> "respond", op |-> next]
      /\ UNCHANGED <<task, command, holder, from, through, output, partial, granted>>
      /\ UNCHANGED <<revoked, journal, excused, queue, loss, observed, stored, pending, degraded>>
  BY DEF Admit, marks, bounds, world, counts, offline, files, ghosts
<1>2. /\ "Admission" \in Kinds \ Effects /\ "Succeeded" \in Stages /\ Nobody \in Targets
      /\ next <= MaxSequence /\ events < MaxEvents /\ next \in 1..MaxSequence
  BY <1>1, FitsRoom DEF Inv, Kinds, Effects, Stages, Targets
<1>3. /\ LogSound' /\ Grows /\ PendingSound'
      /\ \E r \in history' : r.kind = "Admission" /\ r.op = next /\ r.seq = next
  BY <1>1, <1>2, PlainAppend
<1>4. TaskSound' /\ CommandSound' /\ OutputSound' /\ GrantedSound'
  BY <1>1, <1>3, Frame
<1>5. GrantSound'
  <2>1. grant' \in [stage : {"respond"}, op : 1..MaxSequence] /\ grant'.op = next
    BY <1>1, <1>2
  <2> QED BY <1>1, <1>3, <2>1 DEF GrantSound
<1>6. WorldSound'
  BY <1>1, <1>3, Frame DEF Inv, WorldSound
<1>7. CountsSound'
  BY <1>1 DEF Inv, CountsSound, ObservationsAreAccounted
<1> QED BY <1>3, <1>4, <1>5, <1>6, <1>7 DEF Inv

LEMMA RespondInv ==
    ASSUME Inv, NEW room \in Rooms, Respond(room)
    PROVE  Inv'
<1>1. /\ grant.stage = "respond" /\ grant' = Idle
      /\ UNCHANGED <<task, command, holder, from, through, output, partial>>
      /\ UNCHANGED <<revoked, journal, excused, queue, loss, observed, stored, pending, degraded>>
  BY DEF Respond, marks, bounds, world, counts, files
<1>2. PICK op \in 1..MaxSequence : /\ op = grant.op
                                   /\ \E r \in history : r.kind = "Admission" /\ r.op = op /\ r.seq = op
  BY <1>1 DEF Inv, GrantSound, Idle
<1>3. LogSound' /\ Grows /\ PendingSound' /\ GrantedSound'
  <2>1. CASE Fits(FALSE, room)
    <3>1. append_operation("Response", "Succeeded", op, Nobody) /\ granted' = granted \cup {op}
      BY <1>2, <2>1 DEF Respond
    <3>2. next <= MaxSequence /\ events < MaxEvents /\ next \in 1..MaxSequence
      BY <2>1, FitsRoom DEF Inv
    <3>3. op < next
      <4>1. op \in 1..Upper
        BY <1>2 DEF Inv, LogSound, RetainedIsSuffix
      <4> QED BY <3>2, <4>1 DEF Upper
    <3>4. /\ "Response" \in Kinds /\ "Succeeded" \in Stages /\ Nobody \in Targets
          /\ "Response" \notin Effects \cup {"Export"} /\ op <= next
      BY <3>2, <3>3 DEF Kinds, Effects, Stages, Targets
    <3> DEFINE q == RecordOf("Response", "Succeeded", op, Nobody)
    <3>5. LogSound' /\ Grows /\ history' = history \cup {q}
      BY <1>1, <3>1, <3>2, <3>4, AppendGrows DEF Inv
    <3>6. q.kind = "Response" /\ q.op = op /\ q.seq = next
      BY DEF RecordOf
    <3> HIDE DEF q
    <3>7. PendingSound'
      BY <1>1, <3>4, <3>5, <3>6, PendingFrame
    <3>8. GrantedSound'
      <4>1. next > op /\ granted' \subseteq 1..MaxSequence
        BY <3>1, <3>2, <3>3 DEF Inv, GrantedSound
      <4>2. \E r \in history' : r.kind = "Admission" /\ r.op = op /\ r.seq = op
        BY <1>2, <3>5
      <4>3. \E r \in history' : r.kind = "Response" /\ r.op = op /\ r.seq > op
        BY <3>5, <3>6, <4>1
      <4>4. ASSUME NEW o \in granted
            PROVE  /\ \E r \in history' : r.kind = "Admission" /\ r.op = o /\ r.seq = o
                   /\ \E r \in history' : r.kind = "Response" /\ r.op = o /\ r.seq > o
        BY <3>5 DEF Inv, GrantedSound, GrantsAreRecorded
      <4> QED BY <3>1, <4>1, <4>2, <4>3, <4>4 DEF GrantedSound, GrantsAreRecorded
    <3> QED BY <3>5, <3>7, <3>8
  <2>2. CASE ~Fits(FALSE, room)
    <3>1. UNCHANGED store /\ UNCHANGED granted
      BY <2>2 DEF Respond
    <3>2. LogSound' /\ Grows /\ history' = history
      BY <1>1, <3>1, StoreSame DEF Inv, store
    <3> QED BY <1>1, <3>1, <3>2, PendingFrame, Frame
  <2> QED BY <2>1, <2>2
<1>4. TaskSound' /\ CommandSound' /\ OutputSound'
  BY <1>1, <1>3, Frame
<1>5. GrantSound'
  BY <1>1 DEF GrantSound
<1>6. WorldSound'
  BY <1>1, <1>3, Frame DEF Inv, WorldSound
<1>7. CountsSound'
  BY <1>1 DEF Inv, CountsSound, ObservationsAreAccounted
<1> QED BY <1>3, <1>4, <1>5, <1>6, <1>7 DEF Inv

----------------------------------------------------------------------------
(* Effects on the broker.                                                  *)

\* Operations on record are older than the next record.
LEMMA OlderThanNext ==
    ASSUME LogSound
    PROVE  /\ next \in Nat /\ \A r \in history : r.seq \in 1..MaxSequence /\ r.seq < next /\ r.op < next
           /\ \A kind, op : Began(kind, op) => op < next
<1>1. next \in Nat /\ next >= 1 /\ next <= MaxSequence + 1
  BY Limits DEF LogSound
<1>2. ASSUME NEW r \in history PROVE r.seq \in 1..MaxSequence /\ r.seq < next /\ r.op < next
  <2>1. r.seq \in 1..(next - 1)
    BY DEF LogSound, RetainedIsSuffix, Upper
  <2>2. r.op <= r.seq /\ r.op \in 1..MaxSequence
    BY DEF LogSound, Record
  <2> QED BY <1>1, <2>1, <2>2, Limits
<1> QED BY <1>1, <1>2 DEF Began

\* A new intent is the only record of its operation.
LEMMA NewIntent ==
    ASSUME Inv, NEW kind \in Effects, NEW target \in Targets, NEW n \in 1..MaxSequence, n = next,
           Waiting(kind, target) = {}, Cardinality(pending) < PendingLimit,
           history' = history \cup {RecordOf(kind, "Intent", next, target)},
           pending' = pending \cup {[label |-> Label(kind, target), op |-> next]}
    PROVE  PendingSound' /\ Began(kind, n)'
<1> DEFINE r == RecordOf(kind, "Intent", next, target)
           p == [label |-> Label(kind, target), op |-> next]
<1>1. /\ r.seq = next /\ r.kind = kind /\ r.stage = "Intent" /\ r.op = next /\ r.target = target
      /\ p.label = Label(kind, target) /\ p.op = next /\ p \in PendingType
      /\ history' = history \cup {r} /\ pending' = pending \cup {p}
  BY DEF RecordOf, Label, PendingType
<1> HIDE DEF r, p
<1>2. \A q \in history : q.op # next
  BY OlderThanNext DEF Inv
<1>3. Attempts' = Attempts \cup {r}
  BY <1>1 DEF Attempts
<1>4. \A op : Resolved(op)' <=> Resolved(op)
  BY <1>1 DEF Resolved
<1>5. ~Resolved(next)
  BY <1>2 DEF Resolved
<1>6. \A o : o \in {a.op : a \in {b \in Attempts' : ~Resolved(b.op)'}}
              <=> o \in {a.op : a \in {b \in Attempts : ~Resolved(b.op)}} \/ o = next
  BY <1>1, <1>3, <1>4, <1>5
<1>7. {q.op : q \in pending} = {a.op : a \in {b \in Attempts : ~Resolved(b.op)}}
  BY DEF Inv, PendingSound, PendingIsUnresolved
<1>8. {q.op : q \in pending'} = {a.op : a \in {b \in Attempts' : ~Resolved(b.op)'}}
  <2>1. \A o : o \in {q.op : q \in pending'} <=> o \in {q.op : q \in pending} \/ o = next
    BY <1>1
  <2> QED BY <1>6, <1>7, <2>1
<1>9. \A q \in pending : q.label # p.label
  BY <1>1 DEF Waiting
<1>10. PendingIsUnresolved'
  <2>1. \A q, o \in pending' : q.label = o.label => q = o
    BY <1>1, <1>9 DEF Inv, PendingSound, PendingIsUnresolved
  <2> QED BY <1>8, <2>1 DEF PendingIsUnresolved
<1>11. IsFiniteSet(pending') /\ Cardinality(pending') <= PendingLimit
  <2>1. IsFiniteSet(pending) /\ Cardinality(pending) \in Nat /\ PendingLimit \in Nat
    BY FS_CardinalityType, Limits DEF Inv, PendingSound
  <2>2. /\ IsFiniteSet(pending \cup {p})
        /\ Cardinality(pending \cup {p}) = IF p \in pending THEN Cardinality(pending)
                                                           ELSE Cardinality(pending) + 1
    BY <2>1, FS_AddElement
  <2>3. Cardinality(pending \cup {p}) <= PendingLimit
    BY <2>1, <2>2
  <2> QED BY <1>1, <2>2, <2>3
<1>12. \A q \in pending' : \E i \in history' : /\ i.stage = "Intent" /\ i.op = q.op /\ i.seq = q.op
                                               /\ Label(i.kind, i.target) = q.label
  BY <1>1 DEF Inv, PendingSound
<1>13. pending' \subseteq PendingType
  BY <1>1 DEF Inv, PendingSound
<1>14. PendingSound'
  BY <1>10, <1>11, <1>12, <1>13 DEF PendingSound
<1> QED BY <1>1, <1>14 DEF Began

\* A pending effect of this label began under its operation.
LEMMA PendingBegan ==
    ASSUME Inv, NEW p \in pending
    PROVE  /\ p.op \in 1..MaxSequence /\ \E kind \in Effects : Began(kind, p.op)
           /\ \A kind, target : p.label = Label(kind, target) => Began(kind, p.op)
<1>1. PICK i \in history : i.stage = "Intent" /\ i.op = p.op /\ i.seq = p.op /\ Label(i.kind, i.target) = p.label
  BY DEF Inv, PendingSound
<1>2. p.op \in 1..MaxSequence /\ p.label \in Effects \X Targets
  BY DEF Inv, PendingSound, PendingType
<1>3. i.kind \in Effects
  BY <1>1, <1>2 DEF Label
<1>4. \A kind, target : p.label = Label(kind, target) => kind = i.kind
  BY <1>1 DEF Label
<1> QED BY <1>1, <1>2, <1>3, <1>4 DEF Began

\* BeginEffect preserves the invariant: a retained intent is taken up, a new one is
\* recorded, or the effect goes without and the trail is marked.
LEMMA BeginEffectInv ==
    ASSUME Inv, NEW kind \in Effects, NEW target \in Targets, NEW required \in BOOLEAN,
           NEW room \in Rooms, BeginEffect(kind, target, required, room)
    PROVE  Inv'
<1> DEFINE doing(o) == [stage |-> "effect", kind |-> kind, target |-> target, op |-> o]
<1>1. /\ holder = "authority" /\ audit_effect(kind, target, required, room)
      /\ kind = "Reconciliation" <=> target = Nobody
      /\ UNCHANGED <<grant, command, holder, from, through, output, partial, granted>>
      /\ UNCHANGED <<revoked, journal, excused, queue, loss, observed, stored>>
  BY DEF BeginEffect, Ready, world, runtime, counts, offline, files, ghosts
<1>2. ASSUME NEW o \in 0..MaxSequence, task' = doing(o), o # NoOp => Began(kind, o)'
      PROVE  TaskSound'
  <2>1. /\ task' \in [stage : {"effect"}, kind : Effects, target : Devices \cup {Nobody}, op : 0..MaxSequence]
        /\ task'.kind = kind /\ task'.op = o /\ task'.target = target
    BY <1>2 DEF Targets
  <2>2. TaskType'
    BY <2>1 DEF TaskType
  <2> QED BY <1>1, <1>2, <2>1, <2>2 DEF TaskSound
<1>3. /\ LogSound' /\ Grows /\ PendingSound' /\ TaskSound'
      /\ degraded' \in BOOLEAN /\ (degraded => degraded')
  <2>0. degraded \in BOOLEAN
    BY DEF Inv, WorldSound
  <2>1. CASE /\ \E p \in Waiting(kind, target) : task' = doing(p.op)
             /\ UNCHANGED <<store, pending, degraded>>
    <3>1. PICK p \in pending : p.label = Label(kind, target) /\ task' = doing(p.op)
      BY <2>1 DEF Waiting
    <3>2. LogSound' /\ Grows /\ history' = history
      BY <1>1, <2>1, StoreSame DEF Inv, store
    <3>3. p.op \in 0..MaxSequence /\ Began(kind, p.op)'
      BY <3>1, <3>2, PendingBegan, BeganGrows, Limits
    <3>4. TaskSound'
      BY <1>2, <3>1, <3>3
    <3>5. PendingSound'
      BY <2>1, <3>2, PendingFrame
    <3> QED BY <2>0, <2>1, <3>2, <3>4, <3>5
  <2>2. CASE /\ Waiting(kind, target) = {} /\ Cardinality(pending) < PendingLimit /\ Fits(~required, room)
             /\ append(kind, "Intent", target)
             /\ pending' = pending \cup {[label |-> Label(kind, target), op |-> next]}
             /\ task' = doing(next)
             /\ UNCHANGED degraded
    <3>1. next <= MaxSequence /\ events < MaxEvents /\ next \in 1..MaxSequence /\ next <= next
      BY <2>2, FitsRoom, Limits DEF Inv
    <3>2. append_operation(kind, "Intent", next, target) /\ kind \in Kinds /\ "Intent" \in Stages
      BY <2>2 DEF append, Kinds, Stages
    <3>3. LogSound' /\ Grows /\ history' = history \cup {RecordOf(kind, "Intent", next, target)}
      BY <1>1, <3>1, <3>2, AppendGrows DEF Inv
    <3>4. PICK n \in 1..MaxSequence : n = next
      BY <3>1
    <3>5. PendingSound' /\ Began(kind, n)'
      BY <2>2, <3>3, <3>4, NewIntent
    <3>6. TaskSound'
      <4>1. n \in 0..MaxSequence /\ task' = doing(n)
        BY <2>2, <3>4, Limits
      <4> QED BY <1>2, <3>5, <4>1
    <3> QED BY <2>0, <2>2, <3>3, <3>5, <3>6
  <2>3. CASE /\ Degrade(room)
             /\ task' = IF required THEN Idle ELSE doing(NoOp)
             /\ UNCHANGED <<store, pending>>
    <3>1. LogSound' /\ Grows /\ history' = history
      BY <1>1, <2>3, StoreSame DEF Inv, store
    <3>2. PendingSound' /\ degraded' \in BOOLEAN /\ (degraded => degraded')
      BY <2>0, <2>3, <3>1, PendingFrame, DegradeStep
    <3>3. CASE task' = Idle
      BY <2>3, <3>1, <3>2, <3>3 DEF TaskSound, TaskType
    <3>4. CASE task' = doing(NoOp)
      <4>1. NoOp \in 0..MaxSequence
        BY Limits DEF NoOp
      <4> QED BY <1>2, <2>3, <3>1, <3>2, <3>4, <4>1
    <3> QED BY <2>3, <3>3, <3>4
  <2> QED BY <1>1, <2>1, <2>2, <2>3 DEF audit_effect
<1>4. GrantSound' /\ CommandSound' /\ OutputSound' /\ GrantedSound'
  BY <1>1, <1>3, Frame
<1>5. WorldSound'
  BY <1>1, <1>3, Frame DEF Inv, WorldSound
<1>6. CountsSound'
  BY <1>1 DEF Inv, CountsSound, ObservationsAreAccounted
<1> QED BY <1>3, <1>4, <1>5, <1>6 DEF Inv

\* Perform preserves the invariant: the effect in hand keeps its operation.
LEMMA PerformInv ==
    ASSUME Inv, NEW outcome \in {"Succeeded", "Failed", "lost"}, NEW reached \in BOOLEAN,
           Perform(outcome, reached)
    PROVE  Inv'
<1>1. /\ task.stage = "effect"
      /\ journal' = IF reached /\ task.kind = "Revocation" THEN journal \cup {task.target} ELSE journal
      /\ task' = IF outcome = "lost" THEN Idle
                 ELSE [stage |-> "result", kind |-> task.kind, target |-> task.target,
                       op |-> task.op, outcome |-> outcome]
      /\ UNCHANGED store /\ UNCHANGED <<grant, command, holder, from, through, output, partial, granted>>
      /\ UNCHANGED <<revoked, excused, queue, loss, observed, stored, pending, degraded>>
  BY DEF Perform, marks, bounds, runtime, counts, offline, files, ghosts
<1>2. LogSound' /\ Grows /\ history' = history
  BY <1>1, StoreSame DEF Inv, store
<1>3. PendingSound'
  BY <1>1, <1>2, PendingFrame
<1>4. /\ task \in [stage : {"effect"}, kind : Effects, target : Devices \cup {Nobody}, op : 0..MaxSequence]
      /\ task # Idle /\ holder = "authority"
  BY <1>1 DEF Inv, TaskSound, TaskType, Idle
<1>5. TaskSound'
  <2>1. CASE outcome = "lost"
    BY <1>1, <2>1 DEF TaskSound, TaskType
  <2>2. CASE outcome # "lost"
    <3>1. PICK k \in Effects, o \in 0..MaxSequence, d \in Targets :
               k = task.kind /\ o = task.op /\ d = task.target
      BY <1>4 DEF Targets
    <3>2. /\ task' \in [stage : {"result"}, kind : Effects, target : Devices \cup {Nobody},
                        op : 0..MaxSequence, outcome : {"Succeeded", "Failed"}]
          /\ task'.op = o /\ task'.kind = k /\ task'.target = d
      BY <1>1, <2>2, <3>1 DEF Targets
    <3>3. TaskType'
      BY <3>2 DEF TaskType
    <3>4. (k = "Reconciliation" <=> d = Nobody) /\ (o # NoOp => Began(k, o))
      BY <1>4, <3>1 DEF Inv, TaskSound
    <3>5. o # NoOp => Began(k, o)'
      BY <1>2, <3>4, BeganGrows
    <3> QED BY <1>1, <1>4, <3>2, <3>3, <3>4, <3>5 DEF TaskSound
  <2> QED BY <2>1, <2>2
<1>6. GrantSound' /\ CommandSound' /\ OutputSound' /\ GrantedSound'
  BY <1>1, <1>2, Frame
<1>7. WorldSound'
  <2>1. task.kind = "Revocation" => task.target \in Devices
    BY <1>4 DEF Inv, TaskSound
  <2>2. journal' \subseteq Devices
    BY <1>1, <2>1 DEF Inv, WorldSound
  <2> QED BY <1>1, <1>2, <2>2, Frame DEF Inv, WorldSound
<1>8. CountsSound'
  BY <1>1 DEF Inv, CountsSound, ObservationsAreAccounted
<1> QED BY <1>2, <1>3, <1>5, <1>6, <1>7, <1>8 DEF Inv

\* RecordResult closes the effect that succeeded, and only that one.  The intent of an
\* export is never a pending effect, so the result of an export closes nothing.
LEMMA ResultStep ==
    ASSUME Inv, NEW kind \in Effects \cup {"Export"}, NEW op \in 1..MaxSequence,
           NEW outcome \in {"Succeeded", "Failed"}, NEW room, Began(kind, op),
           RecordResult(kind, op, outcome, room), UNCHANGED from
    PROVE  LogSound' /\ Grows /\ PendingSound' /\ degraded' \in BOOLEAN /\ (degraded => degraded')
<1>0. degraded \in BOOLEAN /\ LogSound
  BY DEF Inv, WorldSound
<1>1. CASE ~Fits(TRUE, room)
  <2>1. Degrade(room) /\ UNCHANGED <<store, pending>>
    BY <1>1 DEF RecordResult
  <2>2. LogSound' /\ Grows /\ history' = history
    BY <1>0, <2>1, StoreSame DEF store
  <2>3. degraded' \in BOOLEAN /\ (degraded => degraded')
    BY <1>0, <2>1, DegradeStep
  <2> QED BY <2>1, <2>2, <2>3, PendingFrame
<1>2. CASE Fits(TRUE, room)
  <2> DEFINE q == RecordOf(kind, outcome, op, Nobody)
  <2>1. /\ append_operation(kind, outcome, op, Nobody) /\ degraded' = degraded
        /\ pending' = IF outcome = "Succeeded" \/ kind = "Export"
                      THEN {p \in pending : p.op # op} ELSE pending
    BY <1>2 DEF RecordResult
  <2>2. next <= MaxSequence /\ events < MaxEvents /\ next \in 1..MaxSequence
    BY <1>0, <1>2, FitsRoom
  <2>3. op < next
    BY <1>0, OlderThanNext
  <2>4. op <= next /\ op # next
    BY <2>2, <2>3
  <2>5. kind \in Kinds /\ outcome \in Stages /\ Nobody \in Targets /\ outcome # "Intent"
    BY DEF Kinds, Stages, Targets
  <2>6. LogSound' /\ Grows /\ history' = history \cup {q}
    BY <1>0, <2>1, <2>2, <2>4, <2>5, AppendGrows
  <2>7. q.kind = kind /\ q.stage = outcome /\ q.op = op
    BY DEF RecordOf
  <2> HIDE DEF q
  <2>8. CASE kind = "Export"
    <3>1. kind \notin Effects
      BY <2>8 DEF Effects
    <3>2. ASSUME NEW p \in pending PROVE p.op # op
      <4>1. PICK k \in Effects : Began(k, p.op)
        BY PendingBegan
      <4> QED BY <1>0, <3>1, <4>1 DEF Began, LogSound, RetainedIsSuffix
    <3>3. pending' = pending
      BY <2>1, <3>2
    <3>4. PendingSound'
      BY <2>6, <2>7, <3>1, <3>3, PendingFrame
    <3> QED BY <1>0, <2>1, <2>6, <3>4
  <2>9. CASE kind # "Export" /\ outcome = "Failed"
    <3>1. PendingSound'
      BY <2>1, <2>6, <2>7, <2>9, PendingFrame
    <3> QED BY <1>0, <2>1, <2>6, <3>1
  <2>10. CASE kind \in Effects /\ outcome = "Succeeded"
    <3>1. pending' = {p \in pending : p.op # op}
      BY <2>1, <2>10
    <3>2. Attempts' = Attempts
      BY <2>5, <2>6, <2>7 DEF Attempts
    <3>3. \A o : Resolved(o)' <=> Resolved(o) \/ o = op
      BY <2>6, <2>7, <2>10 DEF Resolved
    <3>4. {p.op : p \in pending} = {a.op : a \in {b \in Attempts : ~Resolved(b.op)}}
      BY DEF Inv, PendingSound, PendingIsUnresolved
    <3>5. \A o : o \in {a.op : a \in {b \in Attempts' : ~Resolved(b.op)'}}
                  <=> o \in {a.op : a \in {b \in Attempts : ~Resolved(b.op)}} /\ o # op
      BY <3>2, <3>3
    <3>6. \A o : o \in {p.op : p \in pending'} <=> o \in {p.op : p \in pending} /\ o # op
      BY <3>1
    <3>7. {p.op : p \in pending'} = {a.op : a \in {b \in Attempts' : ~Resolved(b.op)'}}
      BY <3>4, <3>5, <3>6
    <3>8. PendingIsUnresolved'
      BY <3>1, <3>7 DEF Inv, PendingSound, PendingIsUnresolved
    <3>9. IsFiniteSet(pending') /\ Cardinality(pending') <= PendingLimit
      <4>1. IsFiniteSet(pending) /\ Cardinality(pending) <= PendingLimit /\ pending' \in SUBSET pending
        BY <3>1 DEF Inv, PendingSound
      <4>2. IsFiniteSet(pending') /\ Cardinality(pending') <= Cardinality(pending)
        BY <4>1, FS_Subset
      <4>3. Cardinality(pending) \in Nat /\ Cardinality(pending') \in Nat /\ PendingLimit \in Nat
        BY <4>1, <4>2, FS_CardinalityType, Limits
      <4> QED BY <4>1, <4>2, <4>3
    <3>10. PendingSound'
      BY <2>6, <3>1, <3>8, <3>9 DEF Inv, PendingSound
    <3> QED BY <1>0, <2>1, <2>6, <3>10
  <2> QED BY <2>8, <2>9, <2>10
<1> QED BY <1>1, <1>2

\* audit_effect_result preserves the invariant.
LEMMA EffectResultInv ==
    ASSUME Inv, NEW room \in Rooms, audit_effect_result(room)
    PROVE  Inv'
<1>1. /\ task.stage = "result" /\ task' = Idle
      /\ UNCHANGED <<grant, command, holder, from, through, output, partial, granted>>
      /\ UNCHANGED <<revoked, journal, excused, queue, loss, observed, stored>>
      /\ IF task.op = NoOp THEN UNCHANGED <<store, pending, degraded>>
         ELSE RecordResult(task.kind, task.op, task.outcome, room)
  BY DEF audit_effect_result, world, runtime, counts, offline, files, ghosts
<1>2. PICK k \in Effects, o \in 0..MaxSequence, out \in {"Succeeded", "Failed"} :
           /\ k = task.kind /\ o = task.op /\ out = task.outcome
           /\ o # NoOp => Began(k, o)
  BY <1>1 DEF Inv, TaskSound, TaskType, Idle
<1>3. LogSound' /\ Grows /\ PendingSound' /\ degraded' \in BOOLEAN /\ (degraded => degraded')
  <2>1. CASE o = NoOp
    <3>1. UNCHANGED <<store, pending, degraded>>
      BY <1>1, <1>2, <2>1
    <3>2. LogSound' /\ Grows /\ history' = history
      BY <1>1, <3>1, StoreSame DEF Inv, store
    <3>3. PendingSound' /\ degraded \in BOOLEAN
      BY <3>1, <3>2, PendingFrame DEF Inv, WorldSound
    <3> QED BY <3>1, <3>2, <3>3
  <2>2. CASE o # NoOp
    <3>1. RecordResult(k, o, out, room) /\ Began(k, o)
      BY <1>1, <1>2, <2>2
    <3>2. o \in 1..MaxSequence /\ UNCHANGED from
      BY <1>1, <2>2, Limits DEF NoOp
    <3> QED BY <3>1, <3>2, ResultStep
  <2> QED BY <2>1, <2>2
<1>4. TaskSound'
  BY <1>1 DEF TaskSound, TaskType
<1>5. GrantSound' /\ CommandSound' /\ OutputSound' /\ GrantedSound'
  BY <1>1, <1>3, Frame
<1>6. WorldSound'
  BY <1>1, <1>3, Frame DEF Inv, WorldSound
<1>7. CountsSound'
  BY <1>1 DEF Inv, CountsSound, ObservationsAreAccounted
<1> QED BY <1>3, <1>4, <1>5, <1>6, <1>7 DEF Inv

----------------------------------------------------------------------------
(* Observations.                                                           *)

\* queue_audit preserves the invariant: what the queue has no room for is counted.
LEMMA QueueInv ==
    ASSUME Inv, queue_audit
    PROVE  Inv'
<1>1. /\ observed < MaxObservations /\ observed' = observed + 1 /\ stored' = stored
      /\ IF queue < QueueLimit THEN queue' = queue + 1 /\ UNCHANGED loss
         ELSE loss' = loss + 1 /\ UNCHANGED queue
      /\ UNCHANGED store
      /\ UNCHANGED <<task, grant, command, holder, from, through, output, partial, granted>>
      /\ UNCHANGED <<revoked, journal, excused, degraded, pending>>
  BY DEF queue_audit, marks, bounds, world, callers, offline, files, ghosts
<1>2. LogSound' /\ Grows /\ history' = history
  BY <1>1, StoreSame DEF Inv, store
<1>3. PendingSound'
  BY <1>1, <1>2, PendingFrame
<1>4. TaskSound' /\ GrantSound' /\ CommandSound' /\ OutputSound' /\ GrantedSound'
  BY <1>1, <1>2, Frame
<1>5. WorldSound'
  BY <1>1, <1>2, Frame DEF Inv, WorldSound
<1>6. CountsSound'
  BY <1>1, Limits DEF Inv, CountsSound, ObservationsAreAccounted
<1> QED BY <1>2, <1>3, <1>4, <1>5, <1>6 DEF Inv

\* A batch is so many plain records.
LEMMA BatchStep ==
    ASSUME Inv, NEW n \in Nat, audit_batch(n), UNCHANGED <<from, pending>>,
           next + n <= MaxSequence + 1, events + n <= MaxEvents - ReserveEvents
    PROVE  LogSound' /\ Grows /\ PendingSound'
<1> DEFINE entry(k) == [seq |-> k, kind |-> "Other", stage |-> "Committed", op |-> k, target |-> Nobody]
           B == {entry(k) : k \in next..(next + n - 1)}
<1>1. /\ rows' = rows \cup B /\ history' = history \cup B /\ next' = next + n /\ events' = events + n
  BY DEF audit_batch
<1>2. next \in Nat /\ next >= 1 /\ events \in Nat
  BY Limits DEF Inv, LogSound
<1>3. ASSUME NEW k \in next..(next + n - 1) PROVE k \in 1..MaxSequence /\ k <= k
  BY <1>2, Limits
<1>4. \A k \in next..(next + n - 1) :
          /\ entry(k) \in Record /\ entry(k).seq = k /\ entry(k).op = k
          /\ entry(k).kind = "Other" /\ entry(k).stage = "Committed"
  BY <1>3 DEF Record, Kinds, Stages
<1>5. \A k \in next..(next + n - 1) : Justified(entry(k))
  BY <1>3, <1>4 DEF Justified, Effects
<1> HIDE DEF entry
<1>6. /\ B \subseteq Record
      /\ \A r \in B : r.seq \in next..(next + n - 1)
      /\ \A k \in next..(next + n - 1) : \E r \in B : r.seq = k
      /\ \A r, q \in B : r.seq = q.seq => r = q
      /\ \A r \in B : Justified(r)
      /\ \A r \in B : r.kind = "Other"
  BY <1>4, <1>5
<1> HIDE DEF B
<1>7. next' <= MaxSequence + 1 /\ events' <= MaxEvents
  BY <1>1, <1>2, Limits
<1>8. LogSound' /\ Grows
  BY <1>1, <1>6, <1>7, LogGrows DEF Inv
<1>9. PendingSound'
  BY <1>1, <1>6, <1>8, PendingFrame DEF Effects
<1> QED BY <1>8, <1>9

\* refresh preserves the invariant: what it takes off the queue is stored or counted.
LEMMA RefreshInv ==
    ASSUME Inv, NEW room \in Rooms, refresh(room)
    PROVE  Inv'
<1> DEFINE n == IF queue < DrainLimit THEN queue ELSE DrainLimit
<1>1. /\ queue' = queue - n /\ observed' = observed
      /\ \/ /\ CanBatch(n, room) /\ audit_batch(n) /\ stored' = stored + n /\ UNCHANGED loss
         \/ loss' = loss + n /\ UNCHANGED store /\ UNCHANGED stored
      /\ UNCHANGED <<task, grant, command, holder, from, through, output, partial, granted>>
      /\ UNCHANGED <<revoked, journal, excused, degraded, pending>>
  BY DEF refresh, marks, bounds, world, callers, offline, files, ghosts
<1>2. n \in Nat /\ n <= queue /\ queue \in 0..QueueLimit
  BY Limits DEF Inv, CountsSound
<1> HIDE DEF n
<1>3. LogSound' /\ Grows /\ PendingSound'
  <2>1. CASE CanBatch(n, room) /\ audit_batch(n)
    BY <1>1, <1>2, <2>1, BatchStep DEF CanBatch
  <2>2. CASE UNCHANGED store
    <3>1. LogSound' /\ Grows /\ history' = history
      BY <1>1, <2>2, StoreSame DEF Inv, store
    <3> QED BY <1>1, <3>1, PendingFrame
  <2> QED BY <1>1, <2>1, <2>2
<1>4. TaskSound' /\ GrantSound' /\ CommandSound' /\ OutputSound' /\ GrantedSound'
  BY <1>1, <1>3, Frame
<1>5. WorldSound'
  BY <1>1, <1>3, Frame DEF Inv, WorldSound
<1>6. CountsSound'
  BY <1>1, <1>2, Limits DEF Inv, CountsSound, ObservationsAreAccounted
<1> QED BY <1>3, <1>4, <1>5, <1>6 DEF Inv

----------------------------------------------------------------------------
(* The operator's commands.                                                *)

\* set_retention and recover preserve the invariant; with the lock free nobody is at work.
LEMMA RetentionInv ==
    ASSUME Inv, NEW boundary \in 0..MaxSequence, NEW room \in Rooms, set_retention(boundary, room)
    PROVE  Inv'
<1>1. /\ holder = "none" /\ boundary <= Upper /\ Fits(TRUE, room) /\ append("Other", "Committed", Nobody)
      /\ through' = boundary
      /\ UNCHANGED <<task, grant, command, holder, from, output, partial, granted>>
      /\ UNCHANGED <<revoked, journal, excused, queue, loss, observed, stored, degraded, pending>>
  BY DEF set_retention, world, volatile, runtime, counts, offline, files, ghosts
<1>2. /\ "Other" \in Kinds \ Effects /\ "Committed" \in Stages /\ Nobody \in Targets
      /\ next <= MaxSequence /\ events < MaxEvents
  BY <1>1, FitsRoom DEF Inv, Kinds, Effects, Stages, Targets
<1>3. LogSound' /\ Grows /\ PendingSound'
  BY <1>1, <1>2, PlainAppend
<1>4. command = Idle
  BY <1>1 DEF Inv, CommandSound
<1>5. CommandSound'
  BY <1>1, <1>4 DEF CommandSound, CommandType, Idle
<1>6. TaskSound' /\ GrantSound' /\ OutputSound' /\ GrantedSound'
  BY <1>1, <1>3, Frame
<1>7. through' <= Upper'
  <2>1. next \in Nat /\ next' \in Nat /\ next <= next'
    BY <1>3, Limits DEF Inv, LogSound, Grows
  <2>2. next - 1 <= next' - 1 /\ next - 1 \in Int /\ next' - 1 \in Int
    BY <2>1, Predecessors
  <2> QED BY <1>1, <2>2 DEF Upper
<1>8. WorldSound'
  BY <1>1, <1>3, <1>7, Frame DEF Inv, WorldSound
<1>9. CountsSound'
  BY <1>1 DEF Inv, CountsSound, ObservationsAreAccounted
<1> QED BY <1>3, <1>5, <1>6, <1>8, <1>9 DEF Inv

LEMMA RecoverInv ==
    ASSUME Inv, NEW room \in Rooms, recover(room)
    PROVE  Inv'
<1>1. /\ Fits(TRUE, room) /\ append("Other", "Committed", Nobody)
      /\ degraded' = FALSE /\ excused' = revoked
      /\ UNCHANGED <<task, grant, command, holder, from, through, output, partial, granted>>
      /\ UNCHANGED <<revoked, journal, queue, loss, observed, stored, pending>>
  BY DEF recover, bounds, world, volatile, runtime, counts, files
<1>2. /\ "Other" \in Kinds \ Effects /\ "Committed" \in Stages /\ Nobody \in Targets
      /\ next <= MaxSequence /\ events < MaxEvents
  BY <1>1, FitsRoom DEF Inv, Kinds, Effects, Stages, Targets
<1>3. LogSound' /\ Grows /\ PendingSound'
  BY <1>1, <1>2, PlainAppend
<1>4. TaskSound' /\ GrantSound' /\ CommandSound' /\ OutputSound' /\ GrantedSound'
  BY <1>1, <1>3, Frame
<1>5. RevocationsAreEvidenced'
  BY <1>1 DEF RevocationsAreEvidenced
<1>6. WorldSound'
  BY <1>1, <1>3, <1>5, Frame DEF Inv, WorldSound
<1>7. CountsSound'
  BY <1>1 DEF Inv, CountsSound, ObservationsAreAccounted
<1> QED BY <1>3, <1>4, <1>6, <1>7 DEF Inv

\* A step of a command that leaves the store and the policy alone.
LEMMA CommandOnly ==
    ASSUME Inv, UNCHANGED <<store, from, through, degraded, pending, revoked, journal, excused>>,
           UNCHANGED <<task, grant, granted, queue, loss, observed, stored>>,
           holder' \in {"none", "authority", "operator"}, holder # "authority", holder' # "authority",
           partial' \in BOOLEAN, CommandSound', OutputSound'
    PROVE  Inv'
<1>1. LogSound' /\ Grows /\ history' = history
  BY StoreSame DEF Inv, store
<1>2. PendingSound'
  BY <1>1, PendingFrame
<1>3. TaskSound' /\ GrantSound'
  BY DEF Inv, TaskSound, TaskType, GrantSound
<1>4. GrantedSound'
  BY <1>1, Frame
<1>5. WorldSound'
  BY <1>1, Frame DEF Inv, WorldSound
<1>6. CountsSound'
  BY DEF Inv, CountsSound, ObservationsAreAccounted
<1> QED BY <1>1, <1>2, <1>3, <1>4, <1>5, <1>6 DEF Inv

\* PruneInspect preserves the invariant: there is a retained row up to the boundary.
LEMMA PruneInspectInv ==
    ASSUME Inv, NEW boundary \in 0..MaxSequence, PruneInspect(boundary)
    PROVE  Inv'
<1>1. /\ holder = "none" /\ holder' = "operator" /\ boundary <= through
      /\ command' = [stage |-> "prune", boundary |-> boundary]
      /\ UNCHANGED <<store, from, through, degraded, pending, revoked, journal, excused>>
      /\ UNCHANGED <<task, grant, granted, queue, loss, observed, stored, partial, output>>
  BY DEF PruneInspect, marks, bounds, volatile, runtime, counts, files, ghosts
<1>2. from <= boundary /\ boundary \in 1..MaxSequence
  <2>1. PICK r \in rows : r.seq <= boundary
    BY DEF PruneInspect
  <2>2. r.seq \in 1..MaxSequence /\ r.seq >= from /\ from \in Nat /\ from >= 1
    BY Limits DEF Inv, LogSound, RetainedIsSuffix, Record
  <2> QED BY <2>1, <2>2, Limits
<1>3. /\ command' \in [stage : {"prune"}, boundary : 1..MaxSequence]
      /\ command'.stage = "prune" /\ command'.boundary = boundary /\ command' # Idle
  BY <1>1, <1>2 DEF Idle
<1>4. CommandSound'
  BY <1>1, <1>2, <1>3 DEF CommandSound, CommandType
<1>5. OutputSound' /\ partial' \in BOOLEAN
  <2>1. LogSound' /\ Grows
    BY <1>1, StoreSame DEF Inv
  <2> QED BY <1>1, <2>1, Frame DEF Inv, WorldSound
<1> QED BY <1>1, <1>4, <1>5, CommandOnly

\* What one prune deletes: at least one row, from the oldest on, up to the boundary.
LEMMA PruneReach ==
    ASSUME Inv, NEW b \in 1..MaxSequence, from <= b, b <= Upper
    PROVE  /\ LastPruned(b) \in from..b
           /\ Cardinality({s \in Sequences : s <= LastPruned(b)}) = LastPruned(b) - from + 1
<1> USE Limits
<1>1. from \in Nat /\ from >= 1 /\ next \in Nat /\ from <= next /\ Upper = next - 1
  BY DEF Inv, LogSound, Upper
<1>2. Sequences = from..Upper
  <2>1. ASSUME NEW k \in from..Upper PROVE k \in Sequences
    <3>1. k \in 1..Upper
      BY <1>1
    <3>2. PICK r \in history : r.seq = k
      BY <3>1 DEF Inv, LogSound, RetainedIsSuffix
    <3>3. r \in rows
      BY <1>1, <3>2 DEF Inv, LogSound, RetainedIsSuffix
    <3> QED BY <3>2, <3>3 DEF Sequences
  <2>2. ASSUME NEW r \in rows PROVE r.seq \in from..Upper
    <3>1. r \in history /\ r.seq >= from
      BY DEF Inv, LogSound, RetainedIsSuffix
    <3>2. r.seq \in 1..Upper
      BY <3>1 DEF Inv, LogSound, RetainedIsSuffix
    <3> QED BY <1>1, <3>1, <3>2
  <2> QED BY <2>1, <2>2 DEF Sequences
<1> DEFINE eligible == {s \in Sequences : s <= b}
           fitting == {s \in eligible : Cardinality({e \in eligible : e <= s}) <= PruneLimit}
           most == IF b < from + PruneLimit - 1 THEN b ELSE from + PruneLimit - 1
<1>3. eligible = from..b
  BY <1>1, <1>2
<1>4. ASSUME NEW s \in from..b PROVE Cardinality({e \in eligible : e <= s}) = s - from + 1
  <2>1. {e \in eligible : e <= s} = from..s
    BY <1>1, <1>3
  <2>2. Cardinality(from..s) = s - from + 1
    BY <1>1, FS_Interval
  <2> QED BY <2>1, <2>2
<1>5. fitting = from..most
  <2>1. \A s \in from..b : s - from + 1 <= PruneLimit <=> s <= most
    BY <1>1
  <2>2. \A s : s \in fitting <=> s \in from..b /\ s - from + 1 <= PruneLimit
    BY <1>3, <1>4
  <2>3. most <= b /\ most \in Int
    BY <1>1
  <2> QED BY <1>1, <2>1, <2>2, <2>3
<1>6. most \in from..most /\ most <= b /\ most \in Nat /\ (\A s \in from..most : most >= s)
  BY <1>1
<1>7. LastPruned(b) = Max(fitting)
  BY DEF LastPruned
<1> HIDE DEF eligible, fitting, most
<1>8. LastPruned(b) \in fitting
  BY <1>5, <1>6, <1>7 DEF Max
<1>9. LastPruned(b) \in from..b
  BY <1>1, <1>5, <1>6, <1>8
<1>10. ASSUME NEW l \in from..b PROVE Cardinality({s \in Sequences : s <= l}) = l - from + 1
  <2>1. {s \in Sequences : s <= l} = from..l
    BY <1>1, <1>2
  <2>2. Cardinality(from..l) = l - from + 1
    BY <1>1, FS_Interval
  <2> QED BY <2>1, <2>2
<1> QED BY <1>9, <1>10

\* prune, as the deletion it is: the rows up to last go, the boundary follows.
LEMMA PruneStep ==
    ASSUME Inv, NEW room \in Rooms, prune(room)
    PROVE  /\ command.stage = "prune"
           /\ \/ UNCHANGED <<store, from>>
              \/ \E last \in from..Upper :
                    /\ last <= command.boundary /\ next <= MaxSequence /\ next - last <= MaxEvents
                    /\ rows' = {r \in rows : r.seq > last} \cup {RecordOf("Other", "Committed", next, Nobody)}
                    /\ history' = history \cup {RecordOf("Other", "Committed", next, Nobody)}
                    /\ next' = next + 1 /\ events' = next - last /\ from' = last + 1
<1> USE Limits
<1>1. command.stage = "prune"
  BY DEF prune
<1>2. PICK b \in 1..MaxSequence : b = command.boundary /\ from <= b /\ b <= through
  BY <1>1 DEF Inv, CommandSound, CommandType, Idle
<1>3. b <= Upper /\ from \in Nat /\ from >= 1 /\ next \in Nat /\ events \in Nat /\ Upper = next - 1
      /\ events = next - from
  BY <1>2 DEF Inv, WorldSound, LogSound, RetainedIsSuffix, Upper
<1>4. PICK l \in from..b : l = LastPruned(b) /\ Cardinality({s \in Sequences : s <= l}) = l - from + 1
  BY <1>2, <1>3, PruneReach
<1> DEFINE left == events - (l - from + 1)
<1>5. \/ UNCHANGED <<store, from>>
      \/ /\ next <= MaxSequence /\ left < MaxEvents
         /\ rows' = {r \in rows : r.seq > l} \cup {RecordOf("Other", "Committed", next, Nobody)}
         /\ history' = history \cup {RecordOf("Other", "Committed", next, Nobody)}
         /\ next' = next + 1 /\ events' = left + 1 /\ from' = l + 1
  BY <1>2, <1>4 DEF prune, RecordOf
<1>6. l \in from..Upper /\ l <= b /\ left + 1 = next - l /\ (left < MaxEvents => next - l <= MaxEvents)
  BY <1>3
<1> HIDE DEF left
<1> QED BY <1>1, <1>2, <1>5, <1>6

\* prune preserves the invariant: the log loses a prefix and gains the marker.
LEMMA PruneInv ==
    ASSUME Inv, NEW room \in Rooms, prune(room)
    PROVE  Inv'
<1> USE Limits
<1>1. /\ command' = Idle /\ holder' = "none"
      /\ UNCHANGED <<through, degraded, pending, revoked, journal, excused>>
      /\ UNCHANGED <<task, grant, granted, queue, loss, observed, stored, partial, output>>
  BY DEF prune, volatile, runtime, counts, files, ghosts
<1>2. holder = "operator" /\ task = Idle /\ grant = Idle
  <2>1. command # Idle
    BY PruneStep DEF Idle
  <2> QED BY <2>1 DEF Inv, CommandSound, TaskSound, GrantSound
<1>3. LogSound' /\ Grows /\ PendingSound'
  <2>1. CASE UNCHANGED <<store, from>>
    <3>1. LogSound' /\ Grows /\ history' = history
      BY <2>1, StoreSame DEF Inv, store
    <3> QED BY <1>1, <3>1, PendingFrame
  <2>2. ASSUME NEW last \in from..Upper, next <= MaxSequence, next - last <= MaxEvents,
               rows' = {r \in rows : r.seq > last} \cup {RecordOf("Other", "Committed", next, Nobody)},
               history' = history \cup {RecordOf("Other", "Committed", next, Nobody)},
               next' = next + 1, events' = next - last, from' = last + 1
        PROVE  LogSound' /\ Grows /\ PendingSound'
    <3> DEFINE mark == RecordOf("Other", "Committed", next, Nobody)
    <3>1. next \in Nat /\ next >= 1 /\ from \in Nat /\ from >= 1 /\ Upper = next - 1 /\ last \in Nat /\ last < next
          /\ last >= from
      BY DEF Inv, LogSound, Upper
    <3>2. /\ mark \in Record /\ mark.seq = next /\ mark.op = next /\ mark.kind = "Other"
          /\ mark.stage = "Committed"
      BY <2>2, <3>1 DEF RecordOf, Record, Kinds, Stages
    <3>3. /\ rows' = {r \in rows : r.seq > last} \cup {mark} /\ history' = history \cup {mark}
      BY <2>2
    <3> HIDE DEF mark
    <3>4. ASSUME NEW r \in history PROVE r.seq \in Nat /\ r.seq < next
      BY OlderThanNext DEF Inv
    <3>5. Grows
      BY <2>2, <3>1, <3>2, <3>3 DEF Grows
    <3>6. RetainedIsSuffix'
      <4>1. rows' = {r \in history' : r.seq >= from'}
        <5>1. \A r \in history : r.seq > last <=> r.seq >= last + 1
          BY <3>1, <3>4
        <5>2. \A r \in history : r.seq > last => r \in rows
          BY <3>1, <3>4 DEF Inv, LogSound, RetainedIsSuffix
        <5>3. rows \subseteq history
          BY DEF Inv, LogSound, RetainedIsSuffix
        <5>4. mark.seq >= last + 1
          BY <3>1, <3>2
        <5> QED BY <2>2, <3>3, <5>1, <5>2, <5>3, <5>4
      <4>2. {r.seq : r \in history'} = 1..Upper'
        <5>1. {r.seq : r \in history'} = {r.seq : r \in history} \cup {next}
          BY <3>2, <3>3
        <5>2. {r.seq : r \in history} = 1..(next - 1)
          BY DEF Inv, LogSound, RetainedIsSuffix, Upper
        <5>3. 1..next = (1..(next - 1)) \cup {next}
          BY <3>1
        <5>4. Upper' = next
          BY <2>2, <3>1 DEF Upper
        <5> QED BY <5>1, <5>2, <5>3, <5>4
      <4>3. ASSUME NEW r \in history', NEW q \in history', r.seq = q.seq PROVE r = q
        <5>1. CASE r \in history /\ q \in history
          BY <4>3, <5>1 DEF Inv, LogSound, RetainedIsSuffix
        <5>2. CASE r = mark \/ q = mark
          BY <3>1, <3>2, <3>3, <3>4, <4>3, <5>2
        <5> QED BY <3>3, <5>1, <5>2
      <4>4. events' = next' - from'
        BY <2>2, <3>1
      <4> QED BY <4>1, <4>2, <4>3, <4>4 DEF RetainedIsSuffix
    <3>7. \A r \in history' : r.op <= r.seq /\ (r.stage = "Intent" => r.op = r.seq)
      BY <3>1, <3>2, <3>3 DEF Inv, LogSound
    <3>8. ResultsFollowIntents'
      BY <3>2, <3>3 DEF Inv, LogSound, ResultsFollowIntents, Effects
    <3>9. /\ rows' \subseteq Record /\ history' \subseteq Record
      BY <3>2, <3>3 DEF Inv, LogSound
    <3>10. /\ next' \in 1..(MaxSequence + 1) /\ from' \in 1..(MaxSequence + 1) /\ from' <= next'
           /\ events' \in 0..MaxEvents
      BY <2>2, <3>1
    <3>11. LogSound'
      BY <3>6, <3>7, <3>8, <3>9, <3>10 DEF LogSound
    <3>12. PendingSound'
      BY <1>1, <3>2, <3>3, <3>5, PendingFrame DEF Effects
    <3> QED BY <3>5, <3>11, <3>12
  <2> QED BY <2>1, <2>2, PruneStep
<1>4. CommandSound'
  BY <1>1 DEF CommandSound, CommandType, Idle
<1>5. TaskSound' /\ GrantSound'
  BY <1>1, <1>2 DEF TaskSound, TaskType, GrantSound
<1>6. OutputSound' /\ GrantedSound'
  BY <1>1, <1>3, Frame
<1>7. WorldSound'
  BY <1>1, <1>3, Frame DEF Inv, WorldSound
<1>8. CountsSound'
  BY <1>1 DEF Inv, CountsSound, ObservationsAreAccounted
<1> QED BY <1>3, <1>4, <1>5, <1>6, <1>7, <1>8 DEF Inv

\* ExportStart preserves the invariant: with an operation there is an intent on record.
LEMMA ExportStartInv ==
    ASSUME Inv, NEW after \in 0..MaxSequence, NEW upper \in 0..MaxSequence,
           NEW room \in Rooms, NEW again \in Rooms, ExportStart(after, upper, room, again)
    PROVE  Inv'
<1> DEFINE begin(op) == [stage |-> "snapshot", after |-> after, upper |-> upper, op |-> op]
<1>1. /\ holder = "none" /\ holder' = "operator"
      /\ \/ /\ Fits(TRUE, room) /\ append("Export", "Intent", Nobody)
            /\ command' = begin(next) /\ UNCHANGED degraded
         \/ /\ \/ /\ Fits(TRUE, again) /\ append("Export", "Intent", Nobody) /\ UNCHANGED degraded
               \/ Degrade(again) /\ UNCHANGED store
            /\ command' = begin(NoOp)
      /\ UNCHANGED <<task, grant, from, through, output, partial, granted>>
      /\ UNCHANGED <<revoked, journal, excused, queue, loss, observed, stored, pending>>
  BY DEF ExportStart, bounds, volatile, runtime, counts, files, ghosts
<1>2. degraded \in BOOLEAN
  BY DEF Inv, WorldSound
<1>3. ASSUME NEW op \in 0..MaxSequence, command' = begin(op), op # NoOp => Began("Export", op)'
      PROVE  CommandSound'
  <2>1. /\ command' \in [stage : {"snapshot", "write", "unlink"}, after : 0..MaxSequence,
                         upper : 0..MaxSequence, op : 0..MaxSequence]
        /\ command'.stage = "snapshot" /\ command'.op = op /\ command' # Idle
    BY <1>3 DEF Idle
  <2>2. CommandType'
    BY <2>1 DEF CommandType
  <2> QED BY <1>1, <1>3, <2>1, <2>2 DEF CommandSound
<1>4. ASSUME NEW any, Fits(TRUE, any), append("Export", "Intent", Nobody)
      PROVE  /\ LogSound' /\ Grows /\ PendingSound' /\ next \in 1..MaxSequence
             /\ \E r \in history' : r.seq = next /\ r.op = next /\ r.kind = "Export" /\ r.stage = "Intent"
  <2>1. /\ "Export" \in Kinds \ Effects /\ "Intent" \in Stages /\ Nobody \in Targets
        /\ next <= MaxSequence /\ events < MaxEvents /\ next \in 1..MaxSequence
    BY <1>4, FitsRoom DEF Inv, Kinds, Effects, Stages, Targets
  <2> QED BY <1>1, <1>4, <2>1, PlainAppend
<1>5. LogSound' /\ Grows /\ PendingSound' /\ CommandSound' /\ degraded' \in BOOLEAN /\ (degraded => degraded')
  <2>1. CASE Fits(TRUE, room) /\ append("Export", "Intent", Nobody) /\ command' = begin(next) /\ UNCHANGED degraded
    <3>1. PICK n \in 1..MaxSequence : n = next
      BY <1>4, <2>1
    <3>2. LogSound' /\ Grows /\ PendingSound' /\ Began("Export", n)'
      BY <1>4, <2>1, <3>1 DEF Began
    <3>3. n \in 0..MaxSequence /\ command' = begin(n)
      BY <2>1, <3>1, Limits
    <3>4. CommandSound'
      BY <1>3, <3>2, <3>3
    <3> QED BY <1>2, <2>1, <3>2, <3>4
  <2>2. CASE command' = begin(NoOp)
    <3>1. NoOp \in 0..MaxSequence
      BY Limits DEF NoOp
    <3>2. CommandSound'
      BY <1>3, <2>2, <3>1
    <3>3. CASE Fits(TRUE, again) /\ append("Export", "Intent", Nobody) /\ UNCHANGED degraded
      BY <1>2, <1>4, <3>2, <3>3
    <3>4. CASE Degrade(again) /\ UNCHANGED store
      <4>1. LogSound' /\ Grows /\ history' = history
        BY <1>1, <3>4, StoreSame DEF Inv, store
      <4>2. PendingSound'
        BY <1>1, <4>1, PendingFrame
      <4>3. degraded' \in BOOLEAN /\ (degraded => degraded')
        BY <1>2, <3>4, DegradeStep
      <4> QED BY <3>2, <4>1, <4>2, <4>3
    <3>5. CASE Fits(TRUE, room) /\ append("Export", "Intent", Nobody) /\ UNCHANGED degraded
      BY <1>2, <1>4, <3>2, <3>5
    <3> QED BY <1>1, <3>3, <3>4, <3>5
  <2> QED BY <1>1, <2>1, <2>2
<1>6. task = Idle /\ grant = Idle
  BY <1>1 DEF Inv, TaskSound, GrantSound
<1>7. TaskSound' /\ GrantSound'
  BY <1>1, <1>6 DEF TaskSound, TaskType, GrantSound
<1>8. OutputSound' /\ GrantedSound'
  BY <1>1, <1>5, Frame
<1>9. WorldSound'
  BY <1>1, <1>5, Frame DEF Inv, WorldSound
<1>10. CountsSound'
  BY <1>1 DEF Inv, CountsSound, ObservationsAreAccounted
<1> QED BY <1>5, <1>7, <1>8, <1>9, <1>10 DEF Inv

\* An export in progress: its cursors, its operation, and the lock it holds.
LEMMA Exporting ==
    ASSUME Inv, command.stage \in {"snapshot", "write", "unlink"}
    PROVE  /\ command \in [stage : {"snapshot", "write", "unlink"}, after : 0..MaxSequence,
                           upper : 0..MaxSequence, op : 0..MaxSequence]
           /\ holder = "operator"
           /\ command.op # NoOp => Began("Export", command.op)
<1>1. /\ command \in [stage : {"snapshot", "write", "unlink"}, after : 0..MaxSequence,
                      upper : 0..MaxSequence, op : 0..MaxSequence]
      /\ command # Idle
  BY DEF Inv, CommandSound, CommandType, Idle
<1> QED BY <1>1 DEF Inv, CommandSound

\* The next stage of an export keeps its operation.
LEMMA ExportMoves ==
    ASSUME Inv, command.stage \in {"snapshot", "write", "unlink"}, UNCHANGED store, holder' = holder,
           \/ \E outcome \in {"Succeeded", "Failed"} : ExportEnd(outcome)
           \/ \E st \in {"write", "unlink"} :
                 /\ command' = [command EXCEPT !.stage = st]
                 /\ command.after <= command.upper /\ command.upper <= Upper
    PROVE  CommandSound'
<1>1. PICK o \in 0..MaxSequence : o = command.op /\ (o # NoOp => Began("Export", o)) /\ holder' = "operator"
  BY Exporting
<1>2. o # NoOp => Began("Export", o)'
  BY <1>1 DEF Began, store
<1>3. ASSUME NEW outcome \in {"Succeeded", "Failed"}, ExportEnd(outcome) PROVE CommandSound'
  <2>1. /\ command' \in [stage : {"result"}, op : 0..MaxSequence, outcome : {"Succeeded", "Failed"}]
        /\ command'.stage = "result" /\ command'.op = o /\ command' # Idle
    BY <1>1, <1>3 DEF ExportEnd, Idle
  <2>2. CommandType'
    BY <2>1 DEF CommandType
  <2> QED BY <1>1, <1>2, <2>1, <2>2 DEF CommandSound
<1>4. ASSUME NEW st \in {"write", "unlink"}, command' = [command EXCEPT !.stage = st],
             command.after <= command.upper, command.upper <= Upper
      PROVE  CommandSound'
  <2>1. /\ command' \in [stage : {"snapshot", "write", "unlink"}, after : 0..MaxSequence,
                         upper : 0..MaxSequence, op : 0..MaxSequence]
        /\ command'.stage = st /\ command'.op = o /\ command' # Idle
        /\ command'.after = command.after /\ command'.upper = command.upper
    BY <1>1, <1>4, Exporting DEF Idle
  <2>2. CommandType'
    BY <2>1 DEF CommandType
  <2>3. Upper' = Upper
    BY DEF Upper, store
  <2> QED BY <1>1, <1>2, <1>4, <2>1, <2>2, <2>3 DEF CommandSound
<1> QED BY <1>3, <1>4

\* ExportCreate, ExportPublish and ExportUnlink preserve the invariant.
LEMMA ExportCreateInv ==
    ASSUME Inv, ExportCreate
    PROVE  Inv'
<1>1. /\ command.stage = "snapshot"
      /\ UNCHANGED <<store, from, through, degraded, pending, revoked, journal, excused>>
      /\ UNCHANGED <<task, grant, granted, queue, loss, observed, stored, holder, output>>
  BY DEF ExportCreate, marks, bounds, world, volatile, runtime, counts, ghosts
<1>2. partial' \in BOOLEAN
  BY DEF ExportCreate, Inv, WorldSound
<1>3. CommandSound'
  <2>1. \/ ExportEnd("Failed")
        \/ /\ command.after <= command.upper /\ command.upper <= Upper
           /\ command' = [command EXCEPT !.stage = "write"]
    BY DEF ExportCreate
  <2> QED BY <1>1, <2>1, ExportMoves
<1>4. OutputSound' /\ holder = "operator"
  <2>1. LogSound' /\ Grows
    BY <1>1, StoreSame DEF Inv
  <2> QED BY <1>1, <2>1, Frame, Exporting
<1> QED BY <1>1, <1>2, <1>3, <1>4, CommandOnly

LEMMA ExportUnlinkInv ==
    ASSUME Inv, NEW removed \in BOOLEAN, ExportUnlink(removed)
    PROVE  Inv'
<1>0. partial' \in BOOLEAN
  BY Zenon DEF ExportUnlink
<1>1. /\ command.stage = "unlink" /\ (ExportEnd("Succeeded") \/ ExportEnd("Failed"))
      /\ UNCHANGED <<store, from, through, degraded, pending, revoked, journal, excused>>
      /\ UNCHANGED <<task, grant, granted, queue, loss, observed, stored, holder, output>>
  BY DEF ExportUnlink, ExportEnd, marks, bounds, world, volatile, runtime, counts, ghosts
<1>2. CommandSound'
  BY <1>1, ExportMoves
<1>3. OutputSound' /\ holder = "operator"
  <2>1. LogSound' /\ Grows
    BY <1>1, StoreSame DEF Inv
  <2> QED BY <1>1, <2>1, Frame, Exporting
<1> QED BY <1>0, <1>1, <1>2, <1>3, CommandOnly

\* What is selected without a gap is all there ever was in the range: a sequence is
\* used once.
LEMMA SelectedIsAll ==
    ASSUME Inv, command.stage = "write", {r.seq : r \in Selected} = (command.after + 1)..Cursor
    PROVE  /\ Selected = {r \in history : r.seq > command.after /\ r.seq <= Cursor}
           /\ Selected \subseteq Record /\ Cursor \in 0..MaxSequence /\ Cursor <= Upper
<1>1. /\ command.after \in 0..MaxSequence /\ command.upper \in 0..MaxSequence
      /\ command.after <= command.upper /\ command.upper <= Upper
  BY Exporting DEF Inv, CommandSound
<1>2. Upper \in Int
  BY Limits DEF Upper, Inv, LogSound
<1>3. Cursor \in 0..MaxSequence /\ Cursor <= Upper
  BY <1>1, <1>2, Limits DEF Cursor
<1>4. rows \subseteq history /\ rows \subseteq Record
  BY DEF Inv, LogSound, RetainedIsSuffix
<1>5. ASSUME NEW r \in history, r.seq > command.after, r.seq <= Cursor PROVE r \in Selected
  <2>1. r.seq \in Nat
    BY OlderThanNext, Limits DEF Inv
  <2>2. r.seq \in (command.after + 1)..Cursor
    BY <1>1, <1>3, <1>5, <2>1
  <2>3. PICK q \in Selected : q.seq = r.seq
    BY <2>2
  <2>4. q \in history
    BY <1>4 DEF Selected
  <2> QED BY <2>3, <2>4 DEF Inv, LogSound, RetainedIsSuffix
<1> QED BY <1>3, <1>4, <1>5 DEF Selected

LEMMA ExportPublishInv ==
    ASSUME Inv, NEW written \in BOOLEAN, ExportPublish(written)
    PROVE  Inv'
<1>1. /\ command.stage = "write"
      /\ UNCHANGED <<store, from, through, degraded, pending, revoked, journal, excused>>
      /\ UNCHANGED <<task, grant, granted, queue, loss, observed, stored, holder, partial>>
  BY DEF ExportPublish, marks, bounds, world, volatile, runtime, counts, ghosts
<1>2. \/ ExportEnd("Failed") /\ UNCHANGED output
      \/ /\ {r.seq : r \in Selected} = (command.after + 1)..Cursor
         /\ output' = [after |-> command.after, cursor |-> Cursor, records |-> Selected]
         /\ command' = [command EXCEPT !.stage = "unlink"]
  BY DEF ExportPublish
<1>3. command.after <= command.upper /\ command.upper <= Upper /\ command.after \in 0..MaxSequence
      /\ holder = "operator"
  BY <1>1, Exporting DEF Inv, CommandSound
<1>4. CommandSound'
  BY <1>1, <1>2, <1>3, ExportMoves
<1>5. OutputSound'
  <2>1. CASE UNCHANGED output
    <3>1. LogSound' /\ Grows
      BY <1>1, StoreSame DEF Inv
    <3> QED BY <2>1, <3>1, Frame
  <2>2. CASE /\ {r.seq : r \in Selected} = (command.after + 1)..Cursor
             /\ output' = [after |-> command.after, cursor |-> Cursor, records |-> Selected]
    <3>1. /\ Selected = {r \in history : r.seq > command.after /\ r.seq <= Cursor}
          /\ Selected \subseteq Record /\ Cursor \in 0..MaxSequence /\ Cursor <= Upper
      BY <1>1, <2>2, SelectedIsAll
    <3>2. PICK a \in 0..MaxSequence, c \in 0..MaxSequence, R \in SUBSET Record :
               /\ a = command.after /\ c = Cursor /\ R = Selected
      BY <1>3, <3>1
    <3>3. /\ output' = [after |-> a, cursor |-> c, records |-> R]
          /\ output'.after = a /\ output'.cursor = c /\ output'.records = R
      BY <2>2, <3>2
    <3>4. output' \in [after : 0..MaxSequence, cursor : 0..MaxSequence, records : SUBSET Record]
      BY <3>3
    <3>5. history' = history /\ Upper' = Upper
      BY <1>1 DEF store, Upper
    <3> QED BY <3>1, <3>2, <3>3, <3>4, <3>5 DEF OutputSound, ExportIsExact
  <2> QED BY <1>2, <2>1, <2>2
<1>6. partial' \in BOOLEAN
  BY <1>1 DEF Inv, WorldSound
<1> QED BY <1>1, <1>3, <1>4, <1>5, <1>6, CommandOnly

\* ExportResult and a dying command preserve the invariant.
LEMMA ExportResultInv ==
    ASSUME Inv, NEW room \in Rooms, ExportResult(room)
    PROVE  Inv'
<1>1. /\ command.stage = "result" /\ command' = Idle /\ holder' = "none"
      /\ UNCHANGED <<task, grant, from, through, output, partial, granted>>
      /\ UNCHANGED <<revoked, journal, excused, queue, loss, observed, stored>>
      /\ IF command.op = NoOp THEN UNCHANGED <<store, pending, degraded>>
         ELSE RecordResult("Export", command.op, command.outcome, room)
  BY DEF ExportResult, volatile, runtime, counts, files, ghosts
<1>2. PICK o \in 0..MaxSequence, out \in {"Succeeded", "Failed"} :
           /\ o = command.op /\ out = command.outcome
           /\ o # NoOp => Began("Export", o)
  BY <1>1 DEF Inv, CommandSound, CommandType, Idle
<1>3. LogSound' /\ Grows /\ PendingSound' /\ degraded' \in BOOLEAN /\ (degraded => degraded')
  <2>1. CASE o = NoOp
    <3>1. UNCHANGED <<store, pending, degraded>>
      BY <1>1, <1>2, <2>1
    <3>2. LogSound' /\ Grows /\ history' = history
      BY <1>1, <3>1, StoreSame DEF Inv, store
    <3>3. PendingSound' /\ degraded \in BOOLEAN
      BY <3>1, <3>2, PendingFrame DEF Inv, WorldSound
    <3> QED BY <3>1, <3>2, <3>3
  <2>2. CASE o # NoOp
    <3>1. RecordResult("Export", o, out, room) /\ Began("Export", o)
      BY <1>1, <1>2, <2>2
    <3>2. o \in 1..MaxSequence /\ UNCHANGED from /\ "Export" \in Effects \cup {"Export"}
      BY <1>1, <2>2, Limits DEF NoOp
    <3> QED BY <3>1, <3>2, ResultStep
  <2> QED BY <2>1, <2>2
<1>4. task = Idle /\ grant = Idle
  <2>1. command # Idle
    BY <1>1 DEF Idle
  <2> QED BY <2>1 DEF Inv, CommandSound, TaskSound, GrantSound
<1>5. TaskSound' /\ GrantSound'
  BY <1>1, <1>4 DEF TaskSound, TaskType, GrantSound
<1>6. CommandSound'
  BY <1>1 DEF CommandSound, CommandType, Idle
<1>7. OutputSound' /\ GrantedSound'
  BY <1>1, <1>3, Frame
<1>8. WorldSound'
  BY <1>1, <1>3, Frame DEF Inv, WorldSound
<1>9. CountsSound'
  BY <1>1 DEF Inv, CountsSound, ObservationsAreAccounted
<1> QED BY <1>3, <1>5, <1>6, <1>7, <1>8, <1>9 DEF Inv

LEMMA CommandDiesInv ==
    ASSUME Inv, CommandDies
    PROVE  Inv'
<1>1. /\ holder = "operator" /\ holder' = "none" /\ command' = Idle
      /\ UNCHANGED <<store, from, through, degraded, pending, revoked, journal, excused>>
      /\ UNCHANGED <<task, grant, granted, queue, loss, observed, stored, partial, output>>
  BY DEF CommandDies, marks, bounds, volatile, runtime, counts, files, ghosts
<1>2. CommandSound'
  BY <1>1 DEF CommandSound, CommandType, Idle
<1>3. OutputSound' /\ partial' \in BOOLEAN
  <2>1. LogSound' /\ Grows
    BY <1>1, StoreSame DEF Inv
  <2> QED BY <1>1, <2>1, Frame DEF Inv, WorldSound
<1> QED BY <1>1, <1>2, <1>3, CommandOnly

----------------------------------------------------------------------------
(* The theorems.                                                           *)

LEMMA InitInv == Init => Inv
<1> SUFFICES ASSUME Init PROVE Inv
  OBVIOUS
<1> USE Limits
<1>1. LogSound
  <2>1. RetainedIsSuffix
    BY DEF Init, RetainedIsSuffix, Upper
  <2> QED BY <2>1 DEF Init, LogSound, ResultsFollowIntents
<1>2. PendingSound
  <2>1. IsFiniteSet(pending) /\ Cardinality(pending) = 0
    BY FS_EmptySet DEF Init
  <2> QED BY <2>1 DEF Init, PendingSound, PendingIsUnresolved, Attempts
<1>3. TaskSound /\ GrantSound /\ CommandSound
  BY DEF Init, TaskSound, TaskType, GrantSound, CommandSound, CommandType, Idle
<1>4. OutputSound /\ GrantedSound
  BY DEF Init, OutputSound, ExportIsExact, GrantedSound, GrantsAreRecorded
<1>5. WorldSound
  <2>1. degraded \in BOOLEAN /\ partial \in BOOLEAN
    BY Zenon DEF Init
  <2>2. through \in 0..MaxSequence /\ through <= Upper
    BY DEF Init, Upper
  <2> QED BY <2>1, <2>2 DEF Init, WorldSound, RevocationsAreEvidenced
<1>6. CountsSound
  BY DEF Init, CountsSound, ObservationsAreAccounted
<1> QED BY <1>1, <1>2, <1>3, <1>4, <1>5, <1>6 DEF Inv

LEMMA NextInv == Inv /\ [Next]_vars => Inv'
<1> SUFFICES ASSUME Inv, [Next]_vars PROVE Inv'
  OBVIOUS
<1>1. ASSUME NEW room \in Rooms, Start(room) \/ Admit(room) \/ Respond(room) \/ refresh(room) PROVE Inv'
  BY <1>1, StartInv, AdmitInv, RespondInv, RefreshInv
<1>2. CASE Stop \/ Expand \/ BestEffort \/ queue_audit \/ UNCHANGED vars
  BY <1>2, StopInv, RecordsInv, QueueInv
<1>3. CASE Control
  <2>1. ASSUME NEW d \in Devices, NEW room \in Rooms, revoke(d, room) PROVE Inv'
    BY <2>1, RevokeInv
  <2>2. ASSUME NEW kind \in Effects, NEW target \in Devices \cup {Nobody}, NEW required \in BOOLEAN,
               NEW room \in Rooms, BeginEffect(kind, target, required, room)
        PROVE  Inv'
    BY <2>2, BeginEffectInv DEF Targets
  <2>3. ASSUME NEW outcome \in {"Succeeded", "Failed", "lost"}, NEW reached \in BOOLEAN,
               Perform(outcome, reached)
        PROVE  Inv'
    BY <2>3, PerformInv
  <2>4. ASSUME NEW room \in Rooms, audit_effect_result(room) \/ Reduce(room) PROVE Inv'
    BY <2>4, EffectResultInv, ReduceInv
  <2> QED BY <1>3, <2>1, <2>2, <2>3, <2>4 DEF Control
<1>4. CASE Operator
  <2>1. ASSUME NEW boundary \in 0..MaxSequence, NEW room \in Rooms, set_retention(boundary, room) PROVE Inv'
    BY <2>1, RetentionInv
  <2>2. ASSUME NEW boundary \in 0..MaxSequence, PruneInspect(boundary) PROVE Inv'
    BY <2>2, PruneInspectInv
  <2>3. ASSUME NEW room \in Rooms, recover(room) PROVE Inv'
    BY <2>3, RecoverInv
  <2>4. ASSUME NEW cursor \in Cursors, NEW room \in Rooms, NEW again \in Rooms,
               ExportStart(cursor[1], cursor[2], room, again)
        PROVE  Inv'
    <3>1. cursor[1] \in 0..MaxSequence /\ cursor[2] \in 0..MaxSequence
      BY LimitsAssumption
    <3> QED BY <2>4, <3>1, ExportStartInv
  <2>5. ASSUME NEW room \in Rooms, prune(room) \/ ExportResult(room) PROVE Inv'
    BY <2>5, PruneInv, ExportResultInv
  <2>6. ASSUME NEW written \in BOOLEAN, ExportPublish(written) \/ ExportUnlink(written) PROVE Inv'
    BY <2>6, ExportPublishInv, ExportUnlinkInv
  <2>7. CASE ExportCreate \/ CommandDies
    BY <2>7, ExportCreateInv, CommandDiesInv
  <2> QED BY <1>4, <2>1, <2>2, <2>3, <2>4, <2>5, <2>6, <2>7 DEF Operator, CommandStep
<1> QED BY <1>1, <1>2, <1>3, <1>4 DEF Next

LEMMA Invariant == Spec => []Inv
BY InitInv, NextInv, PTL DEF Spec

LEMMA InvIsSound == Inv => TrailIsSound /\ EffectsAreRecorded
<1> SUFFICES ASSUME Inv PROVE TrailIsSound /\ EffectsAreRecorded
  OBVIOUS
<1>1. TypeOK
  <2>1. /\ rows \subseteq Record /\ history \subseteq Record
        /\ next \in 1..(MaxSequence + 1) /\ from \in 1..(MaxSequence + 1) /\ events \in 0..MaxEvents
    BY DEF Inv, LogSound
  <2>2. pending \subseteq [label : Effects \X (Devices \cup {Nobody}), op : 1..MaxSequence]
    BY DEF Inv, PendingSound, PendingType, Targets
  <2>3. /\ TaskType /\ CommandType /\ (command # Idle <=> holder = "operator")
        /\ task # Idle \/ grant # Idle => holder = "authority"
        /\ grant = Idle \/ grant \in [stage : {"respond"}, op : 1..MaxSequence]
    BY DEF Inv, TaskSound, CommandSound, GrantSound
  <2>4. /\ through \in 0..MaxSequence /\ degraded \in BOOLEAN /\ partial \in BOOLEAN
        /\ revoked \subseteq Devices /\ journal \subseteq Devices /\ excused \subseteq Devices
        /\ holder \in {"none", "authority", "operator"}
    BY DEF Inv, WorldSound
  <2>5. /\ queue \in 0..QueueLimit /\ loss \in Nat /\ observed \in 0..MaxObservations /\ stored \in Nat
        /\ granted \subseteq 1..MaxSequence
    BY DEF Inv, CountsSound, GrantedSound
  <2>6. output = Absent \/ output \in [after : 0..MaxSequence, cursor : 0..MaxSequence, records : SUBSET Record]
    BY DEF Inv, OutputSound
  <2> QED BY <2>1, <2>2, <2>3, <2>4, <2>5, <2>6 DEF TypeOK
<1>2. RetainedIsSuffix /\ ResultsFollowIntents /\ PendingIsUnresolved /\ ExportIsExact
  BY DEF Inv, LogSound, PendingSound, OutputSound
<1>3. MetadataIsValid
  BY Limits DEF Inv, LogSound, WorldSound, PendingSound, MetadataIsValid
<1>4. EffectsAreRecorded
  BY DEF Inv, GrantedSound, WorldSound, CountsSound, EffectsAreRecorded
<1> QED BY <1>1, <1>2, <1>3, <1>4 DEF TrailIsSound

\* The trail is the exact account it is exported as: the rows are the suffix of all
\* that was recorded, the counters agree with them, audit_pending lists the effects
\* without a recorded success, and an export holds every record of its range.
THEOREM Soundness == Spec => []TrailIsSound
BY Invariant, InvIsSound, PTL

\* Nothing the authority did escapes the trail unmarked: grants have both their records,
\* a revocation its record or the degraded mark, an observation its place in the count.
THEOREM Accountability == Spec => []EffectsAreRecorded
BY Invariant, InvIsSound, PTL

\* Every action but prune keeps the rows.
LEMMA OnlyPruneDeletes ==
    ASSUME Inv, [Next]_vars, ~(\E room \in Rooms : prune(room))
    PROVE  rows \subseteq rows'
<1>1. CASE UNCHANGED store
  BY <1>1 DEF store
<1>2. ASSUME NEW kind, NEW stage, NEW op, NEW target, append_operation(kind, stage, op, target)
      PROVE  rows \subseteq rows'
  BY <1>2 DEF append_operation
<1>3. ASSUME NEW kind, NEW target, NEW room, repair(kind, target, room) PROVE rows \subseteq rows'
  BY <1>3, <1>2 DEF repair, append, store
<1>4. ASSUME NEW kind, NEW op, NEW outcome, NEW room, RecordResult(kind, op, outcome, room)
      PROVE  rows \subseteq rows'
  BY <1>4, <1>2 DEF RecordResult, store
<1>5. ASSUME NEW room \in Rooms, Start(room) \/ Admit(room) \/ Respond(room)
      PROVE  rows \subseteq rows'
  BY <1>5, <1>2, <1>3 DEF Start, Admit, Respond, append, store
<1>6. ASSUME NEW room \in Rooms, refresh(room) PROVE rows \subseteq rows'
  BY <1>6 DEF refresh, audit_batch, store
<1>7. CASE Stop \/ queue_audit \/ UNCHANGED vars
  BY <1>7 DEF Stop, queue_audit, vars, store
<1>8. CASE Expand \/ BestEffort
  BY <1>8, <1>2 DEF Expand, BestEffort, append
<1>9. CASE Control
  <2>1. ASSUME NEW d \in Devices, NEW room \in Rooms, revoke(d, room) PROVE rows \subseteq rows'
    BY <2>1, <1>3 DEF revoke
  <2>2. ASSUME NEW kind \in Effects, NEW target \in Devices \cup {Nobody}, NEW required \in BOOLEAN,
               NEW room \in Rooms, BeginEffect(kind, target, required, room)
        PROVE  rows \subseteq rows'
    BY <2>2, <1>2 DEF BeginEffect, audit_effect, append, store
  <2>3. ASSUME NEW outcome \in {"Succeeded", "Failed", "lost"}, NEW reached \in BOOLEAN,
               Perform(outcome, reached)
        PROVE  rows \subseteq rows'
    BY <2>3 DEF Perform, store
  <2>4. ASSUME NEW room \in Rooms, audit_effect_result(room) \/ Reduce(room) PROVE rows \subseteq rows'
    BY <2>4, <1>3, <1>4 DEF audit_effect_result, Reduce, store
  <2> QED BY <1>9, <2>1, <2>2, <2>3, <2>4 DEF Control
<1>10. CASE Operator
  <2>1. ASSUME NEW boundary \in 0..MaxSequence, NEW room \in Rooms, set_retention(boundary, room)
        PROVE  rows \subseteq rows'
    BY <2>1, <1>2 DEF set_retention, append
  <2>2. ASSUME NEW boundary \in 0..MaxSequence, PruneInspect(boundary) PROVE rows \subseteq rows'
    BY <2>2 DEF PruneInspect, store
  <2>3. ASSUME NEW room \in Rooms, recover(room) PROVE rows \subseteq rows'
    BY <2>3, <1>2 DEF recover, append
  <2>4. ASSUME NEW a, NEW b, NEW room \in Rooms, NEW again \in Rooms, ExportStart(a, b, room, again)
        PROVE  rows \subseteq rows'
    BY <2>4, <1>2 DEF ExportStart, append, store
  <2>5. ASSUME NEW room \in Rooms, ExportResult(room) PROVE rows \subseteq rows'
    BY <2>5, <1>4 DEF ExportResult, store
  <2>6. ASSUME NEW written \in BOOLEAN, ExportPublish(written) \/ ExportUnlink(written)
        PROVE  rows \subseteq rows'
    BY <2>6 DEF ExportPublish, ExportUnlink, store
  <2>7. CASE ExportCreate \/ CommandDies
    BY <2>7 DEF ExportCreate, CommandDies, store
  <2> QED BY <1>10, <2>1, <2>2, <2>3, <2>4, <2>5, <2>6, <2>7 DEF Operator, CommandStep
<1> QED BY <1>5, <1>6, <1>7, <1>8, <1>9, <1>10 DEF Next

LEMMA PruneBelowPolicy ==
    ASSUME Inv, [Next]_vars
    PROVE  \A r \in rows \ rows' : r.seq <= through
<1>1. CASE ~(\E room \in Rooms : prune(room))
  BY <1>1, OnlyPruneDeletes
<1>2. ASSUME NEW room \in Rooms, prune(room) PROVE \A r \in rows \ rows' : r.seq <= through
  <2>1. SUFFICES ASSUME NEW r \in rows, r \notin rows' PROVE r.seq <= through
    OBVIOUS
  <2>2. PICK last \in from..Upper : last <= command.boundary /\ ~(r.seq > last)
    BY <1>2, <2>1, PruneStep DEF store
  <2>3. command.boundary \in 1..MaxSequence /\ command.boundary <= through
    BY <1>2, PruneStep DEF Inv, CommandSound, CommandType, Idle
  <2>4. r.seq \in Nat /\ through \in Nat /\ from \in Nat /\ last \in Int
    BY Limits DEF Inv, LogSound, WorldSound, Record
  <2> QED BY <2>2, <2>3, <2>4, Limits
<1> QED BY <1>1, <1>2

\* A record disappears only by a prune, and only below the boundary the operator had
\* authorised: the lock keeps the policy as it was when the prune looked at it.
THEOREM PrunePolicy == Spec => PruneWithinPolicy
<1>1. Inv /\ [Next]_vars => [\A r \in rows \ rows' : r.seq <= through]_rows
  BY PruneBelowPolicy
<1> QED BY <1>1, Invariant, PTL DEF Spec, PruneWithinPolicy
=============================================================================
