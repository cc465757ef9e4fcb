--------------------------- MODULE Journal_proofs ---------------------------
(***************************************************************************)
(* Proofs about the service's journals, for any number of processes,         *)
(* devices, attempts and faults: the journals implement SignedLogs, and an   *)
(* acknowledgment is never undone.                                           *)
(***************************************************************************)
EXTENDS Journal, TLAPS

(***************************************************************************)
(* The inductive invariant.  An update in flight may only be written when    *)
(* the key still has the revision it was computed from; whenever it has, the *)
(* update appends one valid record to what is there now.                     *)
(***************************************************************************)

\* What a process at this point relies on, given the registration log.
Sound(p, log) ==
    /\ p.at \in {"append", "await_append", "accept"} => p.job \in Registration
    /\ p.at \in {"revoke", "await_revoke"} => p.job \in Request /\ p.resume = "ready"
    /\ p.at = "await_append" =>
         p.sent \in Change /\ p.sent.key = "snapshot" /\ Logged(p.job, p.sent.log)
    /\ p.at = "await_revoke" =>
         p.sent \in Change /\ p.sent.key = "revocations" /\ p.job.target \in Targets(p.sent.log)
    /\ p.at = "accept" => Logged(p.job, log)
    /\ p.at = "repair" => p.todo \subseteq Registered(p.view)
    /\ \A r \in Registration : Logged(r, p.view) => Logged(r, log)

ProcessesSound == \A s \in Services : Sound(proc[s], Snapshot)

Extension(u) ==
    /\ u.base <= kv[u.key].rev
    /\ u.base = kv[u.key].rev /\ u.key = "snapshot" =>
         \E r \in Registration : /\ r.endpoint \notin Registered(Snapshot)
                                 /\ u.log = Append(Snapshot, r)
    /\ u.base = kv[u.key].rev /\ u.key = "revocations" =>
         \E q \in Request : /\ q.target \notin Targets(Revocations)
                            /\ MayRevoke(q, Snapshot, Revocations)
                            /\ u.log = Append(Revocations, q)

InFlight == \A u \in net : Extension(u)

Inv == TypeOK /\ ProcessesSound /\ InFlight

----------------------------------------------------------------------------
(* Appending to a log.                                                     *)

\* Registered after an append.
LEMMA RegisteredAppend ==
    ASSUME NEW log \in Seq(Registration), NEW r \in Registration
    PROVE  Registered(Append(log, r)) = Registered(log) \cup {r.endpoint}
<1> DEFINE new == Append(log, r)
<1>1. /\ DOMAIN log = 1..Len(log) /\ Len(log) \in Nat
      /\ DOMAIN new = 1..(Len(log) + 1)
      /\ \A i \in DOMAIN log : new[i] = log[i]
      /\ new[Len(log) + 1] = r
  OBVIOUS
<1>2. ASSUME NEW e PROVE e \in Registered(new) <=> e \in Registered(log) \cup {r.endpoint}
  <2>1. CASE \E i \in DOMAIN new : e = new[i].endpoint
    BY <2>1, <1>1 DEF Registered
  <2>2. CASE ~\E i \in DOMAIN new : e = new[i].endpoint
    <3>1. Len(log) + 1 \in DOMAIN new /\ DOMAIN log \subseteq DOMAIN new
      BY <1>1
    <3> HIDE DEF new
    <3> QED BY <2>2, <1>1, <3>1 DEF Registered
  <2> QED BY <2>1, <2>2
<1> QED BY <1>2

\* Targets after an append.
LEMMA TargetsAppend ==
    ASSUME NEW log \in Seq(Request), NEW q \in Request
    PROVE  Targets(Append(log, q)) = Targets(log) \cup {q.target}
<1> DEFINE new == Append(log, q)
<1>1. /\ DOMAIN log = 1..Len(log) /\ Len(log) \in Nat
      /\ DOMAIN new = 1..(Len(log) + 1)
      /\ \A i \in DOMAIN log : new[i] = log[i]
      /\ new[Len(log) + 1] = q
  OBVIOUS
<1>2. ASSUME NEW e PROVE e \in Targets(new) <=> e \in Targets(log) \cup {q.target}
  <2>1. CASE \E i \in DOMAIN new : e = new[i].target
    BY <2>1, <1>1 DEF Targets
  <2>2. CASE ~\E i \in DOMAIN new : e = new[i].target
    <3>1. Len(log) + 1 \in DOMAIN new /\ DOMAIN log \subseteq DOMAIN new
      BY <1>1
    <3> HIDE DEF new
    <3> QED BY <2>2, <1>1, <3>1 DEF Targets
  <2> QED BY <2>1, <2>2
<1> QED BY <1>2

\* Logged after an append.
LEMMA LoggedAppend ==
    ASSUME NEW log \in Seq(Registration), NEW r \in Registration
    PROVE  /\ Logged(r, Append(log, r))
           /\ \A x : Logged(x, log) => Logged(x, Append(log, r))
<1> DEFINE new == Append(log, r)
<1>1. /\ DOMAIN log = 1..Len(log) /\ Len(log) \in Nat
      /\ DOMAIN new = 1..(Len(log) + 1)
      /\ \A i \in DOMAIN log : new[i] = log[i]
      /\ new[Len(log) + 1] = r
  OBVIOUS
<1>2. Len(log) + 1 \in DOMAIN new /\ DOMAIN log \subseteq DOMAIN new
  BY <1>1
<1> HIDE DEF new
<1>3. Logged(r, new)
  BY <1>1, <1>2 DEF Logged
<1>4. \A x : Logged(x, log) => Logged(x, new)
  BY <1>1, <1>2 DEF Logged
<1> QED BY <1>3, <1>4 DEF new

\* A record that is logged has its endpoint registered.
LEMMA LoggedRegistered ==
    ASSUME NEW log \in Seq(Registration), NEW r \in Registration, Logged(r, log)
    PROVE  r.endpoint \in Registered(log)
BY DEF Logged, Registered

\* A request stays authorised while registrations are added.
LEMMA MayRevokeGrows ==
    ASSUME NEW log, NEW new, NEW previous, NEW q \in Request,
           Registered(log) \subseteq Registered(new),
           MayRevoke(q, log, previous)
    PROVE  MayRevoke(q, new, previous)
BY DEF MayRevoke

\* The registrations of a log are those of its records.
LEMMA ViewRegistered ==
    ASSUME NEW view \in Seq(Registration), NEW log \in Seq(Registration),
           \A r \in Registration : Logged(r, view) => Logged(r, log)
    PROVE  Registered(view) \subseteq Registered(log)
<1>1. SUFFICES ASSUME NEW e \in Registered(view) PROVE e \in Registered(log)
  OBVIOUS
<1>2. PICK i \in DOMAIN view : e = view[i].endpoint
  BY <1>1 DEF Registered
<1>3. view[i] \in Registration /\ Logged(view[i], view)
  BY <1>2 DEF Logged
<1>4. Logged(view[i], log)
  BY <1>3
<1> QED BY <1>2, <1>3, <1>4, LoggedRegistered

\* A process stays sound while registrations are added.
LEMMA SoundGrows ==
    ASSUME NEW p, NEW log, NEW new, \A r : Logged(r, log) => Logged(r, new), Sound(p, log)
    PROVE  Sound(p, new)
BY DEF Sound

----------------------------------------------------------------------------
(* How the invariant survives a step, by what the step does to the logs.    *)

\* The journals as they are, perhaps with a key created.
SameLogs ==
    \/ kv' = kv
    \/ kv' = Created("snapshot")
    \/ kv' = Created("revocations")

Parts ==
    /\ directory \in [Endpoints -> Packages \cup {None}]
    /\ lock \in Services \cup {None}
    /\ acked \in [registered : SUBSET Registration, revoked : SUBSET Endpoints]
    /\ faults \in Nat

\* What SameLogs means for the two keys.
LEMMA SameLogsFacts ==
    ASSUME TypeOK, SameLogs
    PROVE  /\ kv' \in [Keys -> [rev : Nat, log : Seq(Registration) \cup Seq(Request)]]
           /\ Snapshot' = Snapshot /\ Revocations' = Revocations
           /\ \A k \in Keys : kv[k].rev \in Nat /\ kv'[k].rev \in Nat /\ kv[k].rev <= kv'[k].rev
BY DEF TypeOK, SameLogs, Created, Snapshot, Revocations, Keys

\* A step of a process that leaves the logs alone and sends nothing.
LEMMA QuietStep ==
    ASSUME Inv, NEW s \in Services, NEW p \in ProcessType, Sound(p, Snapshot),
           proc' = [proc EXCEPT ![s] = p], SameLogs, net' \subseteq net, Parts'
    PROVE  Inv'
<1>1. /\ kv' \in [Keys -> [rev : Nat, log : Seq(Registration) \cup Seq(Request)]]
      /\ Snapshot' = Snapshot /\ Revocations' = Revocations
      /\ \A k \in Keys : kv[k].rev \in Nat /\ kv'[k].rev \in Nat /\ kv[k].rev <= kv'[k].rev
  BY SameLogsFacts DEF Inv
<1>2. net \subseteq Change /\ proc \in [Services -> ProcessType]
      /\ Snapshot \in Seq(Registration) /\ Revocations \in Seq(Request)
  BY DEF Inv, TypeOK
<1>3. TypeOK'
  BY <1>1, <1>2 DEF TypeOK, Parts
<1>4. ProcessesSound'
  <2>1. SUFFICES ASSUME NEW t \in Services PROVE Sound(proc'[t], Snapshot)
    BY <1>1 DEF ProcessesSound
  <2>2. CASE t = s
    BY <2>2, <1>2
  <2>3. CASE t # s
    BY <2>3, <1>2 DEF Inv, ProcessesSound
  <2> QED BY <2>2, <2>3
<1>5. InFlight'
  <2>1. SUFFICES ASSUME NEW u \in net PROVE Extension(u)'
    BY DEF InFlight
  <2>2. Extension(u) /\ u.key \in Keys /\ u.base \in Nat
    BY <1>2 DEF Inv, InFlight, Change
  <2>3. /\ u.base <= kv'[u.key].rev
        /\ u.base = kv'[u.key].rev => u.base = kv[u.key].rev
    BY <2>2, <1>1 DEF Extension
  <2> QED BY <2>2, <2>3, <1>1 DEF Extension
<1> QED BY <1>3, <1>4, <1>5 DEF Inv

\* A step that sends an update computed from the key's present value.
LEMMA SendStep ==
    ASSUME Inv, NEW s \in Services, NEW p \in ProcessType, Sound(p, Snapshot),
           proc' = [proc EXCEPT ![s] = p], kv' = kv, Parts',
           NEW u \in Change, net' = net \cup {u}, Extension(u)
    PROVE  Inv'
<1>1. net \subseteq Change /\ proc \in [Services -> ProcessType]
  BY DEF Inv, TypeOK
<1>2. Snapshot' = Snapshot /\ Revocations' = Revocations
  BY DEF Snapshot, Revocations
<1>3. TypeOK'
  BY <1>1, <1>2 DEF Inv, TypeOK, Parts
<1>4. ProcessesSound'
  <2>1. SUFFICES ASSUME NEW t \in Services PROVE Sound(proc'[t], Snapshot)
    BY <1>2 DEF ProcessesSound
  <2>2. CASE t = s
    BY <2>2, <1>1
  <2>3. CASE t # s
    BY <2>3, <1>1 DEF Inv, ProcessesSound
  <2> QED BY <2>2, <2>3
<1>5. InFlight'
  <2>1. SUFFICES ASSUME NEW v \in net \cup {u} PROVE Extension(v)'
    BY DEF InFlight
  <2>2. Extension(v)
    BY DEF Inv, InFlight
  <2> QED BY <2>2, <1>2 DEF Extension
<1> QED BY <1>3, <1>4, <1>5 DEF Inv

\* Writing an update whose base is the key's revision appends a valid record.
Written(u) ==
    /\ u \in net
    /\ Matches(u)
    /\ kv' = [kv EXCEPT ![u.key] = [rev |-> @.rev + 1, log |-> u.log]]

\* The record it appends.
LEMMA WrittenFacts ==
    ASSUME Inv, NEW u, Written(u)
    PROVE  /\ u \in Change
           /\ kv' \in [Keys -> [rev : Nat, log : Seq(Registration) \cup Seq(Request)]]
           /\ u.key = "snapshot" =>
                /\ Revocations' = Revocations
                /\ Snapshot' = u.log
                /\ \E r \in Registration : /\ r.endpoint \notin Registered(Snapshot)
                                           /\ Snapshot' = Append(Snapshot, r)
           /\ u.key = "revocations" =>
                /\ Snapshot' = Snapshot
                /\ Revocations' = u.log
                /\ \E q \in Request : /\ q.target \notin Targets(Revocations)
                                      /\ MayRevoke(q, Snapshot, Revocations)
                                      /\ Revocations' = Append(Revocations, q)
<1>1. u \in Change /\ Extension(u) /\ u.base = kv[u.key].rev
  BY DEF Inv, TypeOK, InFlight, Written, Matches
<1>2. kv \in [Keys -> [rev : Nat, log : Seq(Registration) \cup Seq(Request)]] /\ u.key \in Keys
      /\ u.log \in Seq(Registration) \cup Seq(Request)
  BY <1>1 DEF Inv, TypeOK, Change
<1>3. kv' \in [Keys -> [rev : Nat, log : Seq(Registration) \cup Seq(Request)]]
  BY <1>2 DEF Written
<1>4. CASE u.key = "snapshot"
  <2>1. Revocations' = Revocations /\ Snapshot' = u.log
    BY <1>2, <1>4 DEF Written, Keys, Snapshot, Revocations
  <2> QED BY <2>1, <1>1, <1>3, <1>4 DEF Extension
<1>5. CASE u.key = "revocations"
  <2>1. Snapshot' = Snapshot /\ Revocations' = u.log
    BY <1>2, <1>5 DEF Written, Keys, Snapshot, Revocations
  <2> QED BY <2>1, <1>1, <1>3, <1>5 DEF Extension
<1> QED BY <1>1, <1>2, <1>3, <1>4, <1>5 DEF Keys

\* Nothing leaves the logs when an update is written.
LEMMA WrittenGrows ==
    ASSUME Inv, NEW u, Written(u)
    PROVE  /\ Snapshot' \in Seq(Registration) /\ Revocations' \in Seq(Request)
           /\ \A r : Logged(r, Snapshot) => Logged(r, Snapshot')
           /\ Registered(Snapshot) \subseteq Registered(Snapshot')
           /\ Targets(Revocations) \subseteq Targets(Revocations')
<1>1. Snapshot \in Seq(Registration) /\ Revocations \in Seq(Request) /\ u \in Change
  BY WrittenFacts DEF Inv, TypeOK
<1>2. CASE u.key = "snapshot"
  <2>1. PICK r \in Registration : Snapshot' = Append(Snapshot, r)
    BY <1>2, WrittenFacts
  <2>2. Revocations' = Revocations
    BY <1>2, WrittenFacts
  <2>3. Snapshot' \in Seq(Registration)
    BY <2>1, <1>1
  <2> QED BY <2>1, <2>2, <2>3, <1>1, LoggedAppend, RegisteredAppend
<1>3. CASE u.key = "revocations"
  <2>1. PICK q \in Request : Revocations' = Append(Revocations, q)
    BY <1>3, WrittenFacts
  <2>2. Snapshot' = Snapshot
    BY <1>3, WrittenFacts
  <2>3. Revocations' \in Seq(Request)
    BY <2>1, <1>1
  <2> QED BY <2>1, <2>2, <2>3, <1>1, TargetsAppend
<1> QED BY <1>1, <1>2, <1>3 DEF Change, Keys

\* A step in which the broker writes an update.
LEMMA WriteStep ==
    ASSUME Inv, NEW u, Written(u), net' = net \ {u}, Parts',
           proc' \in [Services -> ProcessType],
           \A t \in Services : Sound(proc'[t], Snapshot')
    PROVE  Inv'
<1>1. /\ u \in Change
      /\ kv' \in [Keys -> [rev : Nat, log : Seq(Registration) \cup Seq(Request)]]
  BY WrittenFacts
<1>2. /\ Snapshot' \in Seq(Registration) /\ Revocations' \in Seq(Request)
      /\ Registered(Snapshot) \subseteq Registered(Snapshot')
  BY WrittenGrows
<1>3. net \subseteq Change /\ kv \in [Keys -> [rev : Nat, log : Seq(Registration) \cup Seq(Request)]]
  BY DEF Inv, TypeOK
<1>4. TypeOK'
  BY <1>1, <1>2, <1>3 DEF TypeOK, Parts
<1>5. ProcessesSound'
  BY DEF ProcessesSound
<1>6. InFlight'
  <2>1. SUFFICES ASSUME NEW v \in net, v # u PROVE Extension(v)'
    BY DEF InFlight
  <2>2. Extension(v) /\ v \in Change
    BY <1>3 DEF Inv, InFlight
  <2>3. CASE v.key = u.key
    <3>1. kv'[v.key].rev = kv[v.key].rev + 1 /\ kv[v.key].rev \in Nat /\ v.base \in Nat
      BY <2>2, <2>3, <1>1, <1>3 DEF Written, Change
    <3>2. v.base <= kv'[v.key].rev /\ v.base # kv'[v.key].rev
      BY <3>1, <2>2 DEF Extension
    <3> QED BY <3>2 DEF Extension
  <2>4. CASE v.key # u.key
    <3>1. kv'[v.key] = kv[v.key]
      BY <2>2, <2>4, <1>3 DEF Written, Change
    <3>2. CASE v.key = "snapshot"
      <4>1. Snapshot' = Snapshot
        BY <3>1, <3>2 DEF Snapshot
      <4> QED BY <4>1, <3>1, <3>2, <2>2 DEF Extension
    <3>3. CASE v.key = "revocations"
      <4>1. Revocations' = Revocations
        BY <3>1, <3>3 DEF Revocations
      <4>2. \A q \in Request : MayRevoke(q, Snapshot, Revocations) => MayRevoke(q, Snapshot', Revocations')
        BY <4>1, <1>2, MayRevokeGrows
      <4> QED BY <4>1, <4>2, <3>1, <3>3, <2>2 DEF Extension
    <3> QED BY <3>2, <3>3, <2>2 DEF Change, Keys
  <2> QED BY <2>3, <2>4
<1> QED BY <1>4, <1>5, <1>6 DEF Inv

----------------------------------------------------------------------------
(* The processes a step may leave behind.                                  *)

\* A process with no append under way, whatever it read of the log before.
LEMMA FreshProcess ==
    ASSUME NEW at \in {"down", "import", "repair", "ready"},
           NEW log \in Seq(Registration), NEW todo \in SUBSET Endpoints,
           at = "repair" => todo \subseteq Registered(log)
    PROVE  /\ Process(at) \in ProcessType /\ Sound(Process(at), log)
           /\ [Process(at) EXCEPT !.view = log, !.todo = todo] \in ProcessType
           /\ Sound([Process(at) EXCEPT !.view = log, !.todo = todo], log)
<1>1. 0 \in 0..(MaxTries - 1)
  BY LimitsAssumption
<1>2. Process(at) \in ProcessType
  BY <1>1 DEF Process, ProcessType, Points
<1>3. [Process(at) EXCEPT !.view = log, !.todo = todo] \in ProcessType
  BY <1>2 DEF ProcessType
<1>4. Sound(Process(at), log)
  BY DEF Process, Sound, Logged
<1>5. Sound([Process(at) EXCEPT !.view = log, !.todo = todo], log)
  BY DEF Process, Sound
<1> QED BY <1>2, <1>3, <1>4, <1>5

\* An append that gives up.
LEMMA GiveUpSound ==
    ASSUME NEW p, NEW log \in Seq(Registration)
    PROVE  GiveUp(p) \in ProcessType /\ Sound(GiveUp(p), log)
BY FreshProcess DEF GiveUp

\* An append that succeeded.
LEMMA ReturnSound ==
    ASSUME NEW p \in ProcessType, NEW log \in Seq(Registration), Sound(p, log)
    PROVE  Return(p) \in ProcessType /\ Sound(Return(p), log)
<1>1. CASE p.resume = "ready"
  BY <1>1, FreshProcess DEF Return
<1>2. CASE p.resume = "import"
  <2>1. Return(p) = [p EXCEPT !.at = "import"]
    BY <1>2 DEF Return
  <2>2. Return(p) \in ProcessType
    BY <2>1 DEF ProcessType, Points
  <2>3. Sound(Return(p), log)
    BY <2>1 DEF Sound, ProcessType
  <2> QED BY <2>2, <2>3
<1> QED BY <1>1, <1>2 DEF ProcessType

\* An append that is called.
LEMMA AppendingSound ==
    ASSUME NEW p \in ProcessType, NEW log \in Seq(Registration), Sound(p, log),
           p.at \in {"import", "ready"}
    PROVE  /\ \A r \in Registration : /\ Appending(p, "append", r) \in ProcessType
                                      /\ Sound(Appending(p, "append", r), log)
           /\ p.at = "ready" =>
                \A q \in Request : /\ Appending(p, "revoke", q) \in ProcessType
                                   /\ Sound(Appending(p, "revoke", q), log)
<1>1. 0 \in 0..(MaxTries - 1)
  BY LimitsAssumption
<1>2. ASSUME NEW r \in Registration
      PROVE  Appending(p, "append", r) \in ProcessType /\ Sound(Appending(p, "append", r), log)
  <2>1. Appending(p, "append", r) \in ProcessType
    BY <1>1 DEF Appending, ProcessType, Points
  <2>2. Sound(Appending(p, "append", r), log)
    BY DEF Appending, Sound, ProcessType
  <2> QED BY <2>1, <2>2
<1>3. ASSUME p.at = "ready", NEW q \in Request
      PROVE  Appending(p, "revoke", q) \in ProcessType /\ Sound(Appending(p, "revoke", q), log)
  <2>1. Appending(p, "revoke", q) \in ProcessType
    BY <1>1, <1>3 DEF Appending, ProcessType, Points
  <2>2. Sound(Appending(p, "revoke", q), log)
    BY <1>3 DEF Appending, Sound, ProcessType
  <2> QED BY <2>1, <2>2
<1> QED BY <1>2, <1>3

\* The process after Retry.
Retried(p) ==
    IF p.tries + 1 = MaxTries THEN GiveUp(p)
    ELSE [p EXCEPT !.at = IF @ = "await_append" THEN "append" ELSE "revoke",
                   !.tries = @ + 1, !.sent = None]

\* An attempt that failed.
LEMMA RetrySound ==
    ASSUME NEW p \in ProcessType, NEW log \in Seq(Registration), Sound(p, log),
           p.at \in {"await_append", "await_revoke"}
    PROVE  Retried(p) \in ProcessType /\ Sound(Retried(p), log)
<1>1. CASE p.tries + 1 = MaxTries
  BY <1>1, GiveUpSound DEF Retried
<1>2. CASE p.tries + 1 # MaxTries
  <2>1. p.tries + 1 \in 0..(MaxTries - 1)
    BY <1>2, LimitsAssumption DEF ProcessType
  <2> DEFINE next == [p EXCEPT !.at = IF @ = "await_append" THEN "append" ELSE "revoke",
                               !.tries = @ + 1, !.sent = None]
  <2>2. Retried(p) = next
    BY <1>2 DEF Retried
  <2>3. next \in ProcessType
    BY <2>1 DEF ProcessType, Points
  <2>4. Sound(next, log)
    BY DEF Sound, ProcessType
  <2> QED BY <2>2, <2>3, <2>4
<1> QED BY <1>1, <1>2

\* The reply to an update that was written.
Answered(p) == IF p.at = "await_append" THEN [p EXCEPT !.at = "accept", !.sent = None] ELSE Return(p)

\* A confirmed update; its record is in the log when it was a registration.
LEMMA AnsweredSound ==
    ASSUME NEW p \in ProcessType, NEW log \in Seq(Registration), Sound(p, log),
           p.at \in {"await_append", "await_revoke"},
           p.at = "await_append" => Logged(p.job, log)
    PROVE  Answered(p) \in ProcessType /\ Sound(Answered(p), log)
<1>1. CASE p.at = "await_append"
  <2> DEFINE next == [p EXCEPT !.at = "accept", !.sent = None]
  <2>1. Answered(p) = next
    BY <1>1 DEF Answered
  <2>2. next \in ProcessType
    BY DEF ProcessType, Points
  <2>3. Sound(next, log)
    BY <1>1 DEF Sound, ProcessType
  <2> QED BY <2>1, <2>2, <2>3
<1>2. CASE p.at # "await_append"
  BY <1>2, ReturnSound DEF Answered
<1> QED BY <1>1, <1>2

----------------------------------------------------------------------------
(* The actions.                                                            *)

\* What every action may assume of a process.
LEMMA ProcessFacts ==
    ASSUME Inv, NEW s \in Services
    PROVE  /\ proc[s] \in ProcessType /\ Sound(proc[s], Snapshot)
           /\ Snapshot \in Seq(Registration) /\ Revocations \in Seq(Request)
           /\ directory \in [Endpoints -> Packages \cup {None}]
           /\ lock \in Services \cup {None}
           /\ acked \in [registered : SUBSET Registration, revoked : SUBSET Endpoints]
           /\ faults \in Nat /\ net \subseteq Change
BY DEF Inv, TypeOK, ProcessesSound

\* The projection keeps the directory's type.
LEMMA ProjectTyped ==
    ASSUME directory \in [Endpoints -> Packages \cup {None}], NEW r \in Registration
    PROVE  Project(r) \in [Endpoints -> Packages \cup {None}]
BY DEF Project, Registration

\* Startup keeps the invariant.
LEMMA StartupKeeps ==
    ASSUME Inv, NEW s \in Services,
           \/ Start(s) \/ ImportDone(s) \/ TakeLock(s)
           \/ \E e \in Endpoints : Import(s, e) \/ Repair(s, e)
    PROVE  Inv'
<1> USE ProcessFacts
<1>1. CASE Start(s)
  <2> DEFINE p == [Process("import") EXCEPT !.view = Snapshot, !.todo = Endpoints]
  <2>1. p \in ProcessType /\ Sound(p, Snapshot)
    BY FreshProcess
  <2>2. SameLogs /\ Parts' /\ net' \subseteq net /\ proc' = [proc EXCEPT ![s] = p]
    BY <1>1 DEF Start, SameLogs, Parts, Becomes
  <2> QED BY <2>1, <2>2, QuietStep
<1>2. CASE ImportDone(s)
  <2> DEFINE p == [Process("repair") EXCEPT !.view = Snapshot, !.todo = Registered(Snapshot)]
  <2>1. Registered(Snapshot) \in SUBSET Endpoints
    <3>1. Snapshot \in Seq(Registration)
      OBVIOUS
    <3>2. \A i \in DOMAIN Snapshot : Snapshot[i] \in Registration
      BY <3>1
    <3>3. \A r \in Registration : r.endpoint \in Endpoints
      BY DEF Registration
    <3> QED BY <3>2, <3>3 DEF Registered
  <2>2. p \in ProcessType /\ Sound(p, Snapshot)
    BY <2>1, FreshProcess
  <2>3. SameLogs /\ Parts' /\ net' \subseteq net /\ proc' = [proc EXCEPT ![s] = p]
    BY <1>2 DEF ImportDone, SameLogs, Parts, Becomes
  <2> QED BY <2>2, <2>3, QuietStep
<1>3. CASE TakeLock(s)
  <2>1. PICK at \in {"down", "ready"} : proc' = [proc EXCEPT ![s] = Process(at)]
    BY <1>3 DEF TakeLock, Becomes
  <2>2. Process(at) \in ProcessType /\ Sound(Process(at), Snapshot)
    BY FreshProcess
  <2>3. SameLogs /\ Parts' /\ net' \subseteq net
    BY <1>3 DEF TakeLock, SameLogs, Parts
  <2> QED BY <2>1, <2>2, <2>3, QuietStep
<1>4. ASSUME NEW e \in Endpoints, Import(s, e) PROVE Inv'
  <2> DEFINE p == proc[s]
             r == Record(e, directory[e])
             rest == [p EXCEPT !.todo = @ \ {e}]
  <2>1. p.at = "import" /\ rest \in ProcessType /\ Sound(rest, Snapshot) /\ rest.at = "import"
    BY <1>4 DEF Import, ProcessType, Sound
  <2>2. SameLogs /\ Parts' /\ net' \subseteq net
    BY <1>4 DEF Import, SameLogs, Parts
  <2>3. CASE directory[e] = None \/ Logged(r, p.view)
    <3>1. proc' = [proc EXCEPT ![s] = rest]
      BY <1>4, <2>3 DEF Import, Becomes
    <3> QED BY <2>1, <2>2, <3>1, QuietStep
  <2>4. CASE ~(directory[e] = None \/ Logged(r, p.view)) /\ e \notin Registered(p.view)
    <3>1. r \in Registration
      BY <2>4 DEF Record, Registration
    <3>2. proc' = [proc EXCEPT ![s] = Appending(rest, "append", r)]
      BY <1>4, <2>4 DEF Import, Becomes
    <3>3. /\ Appending(rest, "append", r) \in ProcessType
          /\ Sound(Appending(rest, "append", r), Snapshot)
      <4> HIDE DEF r, rest
      <4> QED BY <3>1, <2>1, AppendingSound
    <3> QED BY <2>2, <3>2, <3>3, QuietStep
  <2>5. CASE ~(directory[e] = None \/ Logged(r, p.view)) /\ e \in Registered(p.view)
    <3>1. proc' = [proc EXCEPT ![s] = Process("down")]
      BY <1>4, <2>5 DEF Import, Becomes
    <3> QED BY <2>2, <3>1, FreshProcess, QuietStep
  <2> QED BY <2>3, <2>4, <2>5
<1>5. ASSUME NEW e \in Endpoints, Repair(s, e) PROVE Inv'
  <2> DEFINE p == proc[s]
             r == CHOOSE x \in Registration : x.endpoint = e /\ Logged(x, p.view)
  <2>1. p.at = "repair" /\ e \in Registered(p.view) /\ p.view \in Seq(Registration)
    BY <1>5 DEF Repair, Sound, ProcessType
  <2>2. \E x \in Registration : x.endpoint = e /\ Logged(x, p.view)
    <3>1. PICK i \in DOMAIN p.view : e = p.view[i].endpoint
      BY <2>1 DEF Registered
    <3>2. p.view[i] \in Registration
      BY <3>1, <2>1
    <3> QED BY <3>1, <3>2 DEF Logged
  <2>3. r \in Registration
    BY <2>2
  <2>4. SameLogs /\ Parts' /\ net' \subseteq net
    BY <1>5, <2>3, ProjectTyped DEF Repair, SameLogs, Parts
  <2>5. CASE Conflicts(r)
    <3>1. proc' = [proc EXCEPT ![s] = Process("down")]
      BY <1>5, <2>5 DEF Repair, Becomes
    <3> QED BY <2>4, <3>1, FreshProcess, QuietStep
  <2>6. CASE ~Conflicts(r)
    <3> DEFINE next == [p EXCEPT !.todo = @ \ {e}]
    <3>1. proc' = [proc EXCEPT ![s] = next]
      BY <1>5, <2>6 DEF Repair, Becomes
    <3>2. next \in ProcessType
      BY DEF ProcessType
    <3>3. Sound(next, Snapshot)
      BY <2>1 DEF Sound, ProcessType
    <3> QED BY <2>4, <3>1, <3>2, <3>3, QuietStep
  <2> QED BY <2>5, <2>6
<1> QED BY <1>1, <1>2, <1>3, <1>4, <1>5

\* Requests keep the invariant.
LEMMA RequestKeeps ==
    ASSUME Inv, NEW s \in Services,
           \/ \E r \in Registration : RegisterRequest(s, r)
           \/ \E q \in Request : RevokeRequest(s, q)
    PROVE  Inv'
<1> USE ProcessFacts
<1>1. ASSUME NEW r \in Registration, RegisterRequest(s, r) PROVE Inv'
  <2>1. SameLogs /\ Parts' /\ net' \subseteq net /\ proc[s].at = "ready"
        /\ proc' = [proc EXCEPT ![s] = Appending(proc[s], "append", r)]
    BY <1>1 DEF RegisterRequest, SameLogs, Parts, Becomes
  <2>2. /\ Appending(proc[s], "append", r) \in ProcessType
        /\ Sound(Appending(proc[s], "append", r), Snapshot)
    BY <2>1, AppendingSound
  <2> QED BY <2>1, <2>2, QuietStep
<1>2. ASSUME NEW q \in Request, RevokeRequest(s, q) PROVE Inv'
  <2> DEFINE p == [proc[s] EXCEPT !.view = Snapshot]
  <2>1. SameLogs /\ Parts' /\ net' \subseteq net /\ proc[s].at = "ready"
        /\ proc' = [proc EXCEPT ![s] = Appending(p, "revoke", q)]
    BY <1>2 DEF RevokeRequest, SameLogs, Parts, Becomes
  <2>2. p \in ProcessType /\ Sound(p, Snapshot) /\ p.at = "ready"
    BY <2>1 DEF ProcessType, Sound
  <2> HIDE DEF p
  <2>3. /\ Appending(p, "revoke", q) \in ProcessType
        /\ Sound(Appending(p, "revoke", q), Snapshot)
    BY <2>2, AppendingSound
  <2> QED BY <2>1, <2>3, QuietStep
<1> QED BY <1>1, <1>2

\* Reading the registration log keeps the invariant.
LEMMA ReadSnapshotKeeps ==
    ASSUME Inv, NEW s \in Services, ReadSnapshot(s)
    PROVE  Inv'
<1> USE ProcessFacts
<1> DEFINE p == proc[s]
<1>1. p.at = "append" /\ p.job \in Registration
  BY DEF ReadSnapshot, Sound
<1>2. kv' = kv /\ SameLogs /\ Parts'
  BY DEF ReadSnapshot, SameLogs, Parts
<1>3. CASE Logged(p.job, Snapshot) /\ Becomes(s, [p EXCEPT !.at = "accept"]) /\ UNCHANGED net
  <2> DEFINE next == [p EXCEPT !.at = "accept"]
  <2>1. next \in ProcessType
    BY DEF ProcessType, Points
  <2>2. Sound(next, Snapshot)
    BY <1>1, <1>3 DEF Sound, ProcessType
  <2>3. proc' = [proc EXCEPT ![s] = next] /\ net' \subseteq net
    BY <1>3 DEF Becomes
  <2> QED BY <1>2, <2>1, <2>2, <2>3, QuietStep
<1>4. CASE Becomes(s, GiveUp(p)) /\ UNCHANGED net
  <2>1. proc' = [proc EXCEPT ![s] = GiveUp(p)] /\ net' \subseteq net
    BY <1>4 DEF Becomes
  <2> QED BY <1>2, <2>1, GiveUpSound, QuietStep
<1>5. CASE p.job.endpoint \notin Registered(Snapshot) /\ Send(s, "snapshot", "await_append")
  <2> DEFINE u == [by |-> s, key |-> "snapshot", base |-> kv["snapshot"].rev,
                   log |-> Append(Snapshot, p.job)]
             next == [p EXCEPT !.at = "await_append", !.sent = u]
  <2>1. net' = net \cup {u} /\ proc' = [proc EXCEPT ![s] = next]
    BY <1>5 DEF Send, Becomes, Snapshot
  <2>2. kv["snapshot"].rev \in Nat
    BY DEF Inv, TypeOK, Keys
  <2>3. Append(Snapshot, p.job) \in Seq(Registration)
    BY <1>1
  <2>4. u \in Change
    BY <2>2, <2>3 DEF Change, Keys
  <2>5. Extension(u)
    BY <1>1, <1>5, <2>2 DEF Extension
  <2>6. Logged(p.job, u.log)
    BY <1>1, LoggedAppend
  <2> HIDE DEF u
  <2>7. u.key = "snapshot"
    BY DEF u
  <2>8. next \in ProcessType
    BY <2>4 DEF ProcessType, Points
  <2>9. Sound(next, Snapshot)
    BY <1>1, <2>4, <2>6, <2>7 DEF Sound, ProcessType
  <2> QED BY <1>2, <2>1, <2>4, <2>5, <2>8, <2>9, SendStep
<1> QED BY <1>3, <1>4, <1>5 DEF ReadSnapshot

\* Reading the revocation log keeps the invariant.
LEMMA ReadRevocationsKeeps ==
    ASSUME Inv, NEW s \in Services, ReadRevocations(s)
    PROVE  Inv'
<1> USE ProcessFacts
<1> DEFINE p == proc[s]
<1>1. p.at = "revoke" /\ p.job \in Request /\ p.resume = "ready" /\ p.view \in Seq(Registration)
  BY DEF ReadRevocations, Sound, ProcessType
<1>2. kv' = kv /\ SameLogs
  BY DEF ReadRevocations, SameLogs
<1>3. Parts'
  <2>1. p.job.target \in Endpoints
    BY <1>1 DEF Request
  <2>2. acked' = acked \/ acked' = [acked EXCEPT !.revoked = @ \cup {p.job.target}]
    BY DEF ReadRevocations
  <2>3. acked' \in [registered : SUBSET Registration, revoked : SUBSET Endpoints]
    BY <2>1, <2>2
  <2> QED BY <2>3 DEF ReadRevocations, Parts
<1>4. CASE Becomes(s, GiveUp(p)) /\ UNCHANGED net
  <2>1. proc' = [proc EXCEPT ![s] = GiveUp(p)] /\ net' \subseteq net
    BY <1>4 DEF Becomes
  <2> QED BY <1>2, <1>3, <2>1, GiveUpSound, QuietStep
<1>5. CASE Becomes(s, Return(p)) /\ UNCHANGED net
  <2>1. proc' = [proc EXCEPT ![s] = Return(p)] /\ net' \subseteq net
    BY <1>5 DEF Becomes
  <2>2. Return(p) \in ProcessType /\ Sound(Return(p), Snapshot)
    BY ReturnSound
  <2> QED BY <1>2, <1>3, <2>1, <2>2, QuietStep
<1>6. CASE /\ MayRevoke(p.job, p.view, Revocations)
           /\ p.job.target \notin Targets(Revocations)
           /\ Send(s, "revocations", "await_revoke")
  <2> DEFINE u == [by |-> s, key |-> "revocations", base |-> kv["revocations"].rev,
                   log |-> Append(Revocations, p.job)]
             next == [p EXCEPT !.at = "await_revoke", !.sent = u]
  <2>1. net' = net \cup {u} /\ proc' = [proc EXCEPT ![s] = next]
    BY <1>6 DEF Send, Becomes, Revocations
  <2>2. kv["revocations"].rev \in Nat
    BY DEF Inv, TypeOK, Keys
  <2>3. Append(Revocations, p.job) \in Seq(Request)
    BY <1>1
  <2>4. u \in Change
    BY <2>2, <2>3 DEF Change, Keys
  <2>5. MayRevoke(p.job, Snapshot, Revocations)
    <3>1. Registered(p.view) \subseteq Registered(Snapshot)
      BY <1>1, ViewRegistered DEF Sound
    <3> QED BY <3>1, <1>1, <1>6, MayRevokeGrows
  <2>6. Extension(u)
    BY <1>1, <1>6, <2>2, <2>5 DEF Extension
  <2>7. p.job.target \in Targets(u.log)
    BY <1>1, TargetsAppend
  <2> HIDE DEF u
  <2>8. u.key = "revocations"
    BY DEF u
  <2>9. next \in ProcessType
    BY <2>4 DEF ProcessType, Points
  <2>10. Sound(next, Snapshot)
    BY <1>1, <2>4, <2>7, <2>8 DEF Sound, ProcessType
  <2> QED BY <1>2, <1>3, <2>1, <2>4, <2>6, <2>9, <2>10, SendStep
<1> QED BY <1>4, <1>5, <1>6 DEF ReadRevocations

\* The broker handling an update keeps the invariant.
LEMMA DeliverKeeps ==
    ASSUME Inv, NEW u \in net, Deliver(u)
    PROVE  Inv'
<1> DEFINE s == u.by
           p == proc[u.by]
<1>1. u \in Change /\ s \in Services
  BY DEF Inv, TypeOK, Change
<1>2. /\ p \in ProcessType /\ Sound(p, Snapshot)
      /\ Snapshot \in Seq(Registration) /\ Revocations \in Seq(Request)
      /\ acked \in [registered : SUBSET Registration, revoked : SUBSET Endpoints]
      /\ proc \in [Services -> ProcessType]
      /\ \A t \in Services : Sound(proc[t], Snapshot)
  BY <1>1, ProcessFacts DEF Inv, TypeOK, ProcessesSound
<1>3. net' = net \ {u}
  BY DEF Deliver
<1>4. \/ Waiting(s) /\ p.sent = u /\ Matches(u) /\ Confirmed(s) /\ UNCHANGED faults
      \/ Waiting(s) /\ p.sent = u /\ Retry(s) /\ faults' \in Nat /\ UNCHANGED acked
      \/ UNCHANGED <<proc, acked, faults>>
  BY DEF Deliver, Inv, TypeOK
<1>5. Parts'
  <2>1. CASE Waiting(s) /\ p.sent = u /\ Confirmed(s) /\ UNCHANGED faults
    <3>1. CASE p.at = "await_append"
      BY <2>1, <3>1 DEF Confirmed, Deliver, Parts, Inv, TypeOK
    <3>2. CASE p.at = "await_revoke"
      <4>1. p.job.target \in Endpoints
        BY <1>2, <3>2 DEF Sound, Request
      <4>2. acked' = [acked EXCEPT !.revoked = @ \cup {p.job.target}]
        BY <2>1, <3>2 DEF Confirmed
      <4>3. acked' \in [registered : SUBSET Registration, revoked : SUBSET Endpoints]
        BY <1>2, <4>1, <4>2
      <4> QED BY <2>1, <4>3 DEF Deliver, Parts, Inv, TypeOK
    <3> QED BY <2>1, <3>1, <3>2 DEF Waiting
  <2>2. CASE UNCHANGED acked /\ faults' \in Nat
    BY <2>2 DEF Deliver, Parts, Inv, TypeOK
  <2> QED BY <1>4, <2>1, <2>2 DEF Inv, TypeOK
<1>6. CASE Matches(u)
  <2>1. Written(u)
    BY <1>6 DEF Written, Deliver
  <2>2. /\ Snapshot' \in Seq(Registration)
        /\ \A r : Logged(r, Snapshot) => Logged(r, Snapshot')
    BY <2>1, WrittenGrows
  <2>3. \A t \in Services : Sound(proc[t], Snapshot')
    BY <1>2, <2>2, SoundGrows
  <2>4. ASSUME Waiting(s), p.sent = u, Confirmed(s)
        PROVE  /\ proc' \in [Services -> ProcessType]
               /\ \A t \in Services : Sound(proc'[t], Snapshot')
    <3>1. p.at = "await_append" => Logged(p.job, Snapshot')
      <4>1. ASSUME p.at = "await_append" PROVE Logged(p.job, Snapshot')
        <5>1. u.key = "snapshot" /\ Logged(p.job, u.log)
          BY <4>1, <2>4, <1>2 DEF Sound
        <5>2. Snapshot' = u.log
          BY <5>1, <2>1, WrittenFacts
        <5> QED BY <5>1, <5>2
      <4> QED BY <4>1
    <3>2. p.at \in {"await_append", "await_revoke"}
      BY <2>4 DEF Waiting
    <3>3. Answered(p) \in ProcessType /\ Sound(Answered(p), Snapshot')
      BY <3>1, <3>2, <1>1, <1>2, <2>2, <2>3, AnsweredSound
    <3>4. proc' = [proc EXCEPT ![s] = Answered(p)]
      BY <2>4 DEF Confirmed, Answered, Becomes
    <3> QED BY <3>3, <3>4, <1>1, <1>2, <2>3
  <2>5. ASSUME Waiting(s), Retry(s)
        PROVE  /\ proc' \in [Services -> ProcessType]
               /\ \A t \in Services : Sound(proc'[t], Snapshot')
    <3>1. p.at \in {"await_append", "await_revoke"}
      BY <2>5 DEF Waiting
    <3>2. Retried(p) \in ProcessType /\ Sound(Retried(p), Snapshot')
      BY <3>1, <1>1, <1>2, <2>2, <2>3, RetrySound
    <3>3. proc' = [proc EXCEPT ![s] = Retried(p)]
      BY <2>5 DEF Retry, Retried, Becomes
    <3> QED BY <3>2, <3>3, <1>1, <1>2, <2>3
  <2>6. /\ proc' \in [Services -> ProcessType]
        /\ \A t \in Services : Sound(proc'[t], Snapshot')
    BY <1>4, <2>4, <2>5, <2>3, <1>2
  <2> QED BY <2>1, <2>6, <1>3, <1>5, WriteStep
<1>7. CASE ~Matches(u)
  <2>1. kv' = kv /\ SameLogs /\ net' \subseteq net
    BY <1>7, <1>3 DEF Deliver, SameLogs
  <2>2. PICK np \in ProcessType : Sound(np, Snapshot) /\ proc' = [proc EXCEPT ![s] = np]
    <3>1. CASE Waiting(s) /\ Retry(s)
      <4>1. Retried(p) \in ProcessType /\ Sound(Retried(p), Snapshot)
        BY <3>1, <1>2, RetrySound DEF Waiting
      <4>2. proc' = [proc EXCEPT ![s] = Retried(p)]
        BY <3>1 DEF Retry, Retried, Becomes
      <4> QED BY <4>1, <4>2
    <3>2. CASE UNCHANGED proc
      <4>1. proc' = [proc EXCEPT ![s] = p]
        BY <3>2, <1>1, <1>2
      <4> QED BY <4>1, <1>2
    <3> QED BY <3>1, <3>2, <1>4, <1>7
  <2> QED BY <2>1, <2>2, <1>1, <1>5, QuietStep
<1> QED BY <1>6, <1>7

\* Timeouts, projections and crashes keep the invariant.
LEMMA OtherKeeps ==
    ASSUME Inv, NEW s \in Services, TimeOut(s) \/ Accept(s) \/ Crash(s)
    PROVE  Inv'
<1> USE ProcessFacts
<1> DEFINE p == proc[s]
<1>1. CASE TimeOut(s)
  <2>1. Retried(p) \in ProcessType /\ Sound(Retried(p), Snapshot)
    BY <1>1, RetrySound DEF TimeOut, Waiting
  <2>2. SameLogs /\ Parts' /\ net' \subseteq net /\ proc' = [proc EXCEPT ![s] = Retried(p)]
    BY <1>1 DEF TimeOut, Retry, Retried, Becomes, SameLogs, Parts
  <2> QED BY <2>1, <2>2, QuietStep
<1>2. CASE Accept(s)
  <2>1. p.job \in Registration
    BY <1>2 DEF Accept, Sound
  <2>2. SameLogs /\ net' \subseteq net /\ directory' = Project(p.job) /\ UNCHANGED <<lock, faults>>
    BY <1>2 DEF Accept, SameLogs
  <2>3. CASE Becomes(s, GiveUp(p)) /\ UNCHANGED acked
    <3>1. Parts'
      BY <2>1, <2>2, <2>3, ProjectTyped DEF Parts
    <3>2. proc' = [proc EXCEPT ![s] = GiveUp(p)]
      BY <2>3 DEF Becomes
    <3> QED BY <2>2, <3>1, <3>2, GiveUpSound, QuietStep
  <2>4. CASE /\ Becomes(s, Return(p))
             /\ acked' \in {acked, [acked EXCEPT !.registered = @ \cup {p.job}]}
    <3>1. acked' \in [registered : SUBSET Registration, revoked : SUBSET Endpoints]
      BY <2>1, <2>4
    <3>2. Parts'
      BY <2>1, <2>2, <3>1, ProjectTyped DEF Parts
    <3>3. proc' = [proc EXCEPT ![s] = Return(p)]
      BY <2>4 DEF Becomes
    <3>4. Return(p) \in ProcessType /\ Sound(Return(p), Snapshot)
      BY ReturnSound
    <3> QED BY <2>2, <3>2, <3>3, <3>4, QuietStep
  <2> QED BY <1>2, <2>3, <2>4 DEF Accept
<1>3. CASE Crash(s)
  <2>1. proc' = [proc EXCEPT ![s] = Process("down")]
    BY <1>3 DEF Crash, Becomes
  <2>2. SameLogs /\ Parts' /\ net' \subseteq net
    BY <1>3 DEF Crash, SameLogs, Parts
  <2> QED BY <2>1, <2>2, FreshProcess, QuietStep
<1> QED BY <1>1, <1>2, <1>3

\* The invariant holds initially.
LEMMA InitInv == Init => Inv
<1> SUFFICES ASSUME Init PROVE Inv
  OBVIOUS
<1>1. << >> \in Seq(Registration) /\ << >> \in Seq(Request)
  OBVIOUS
<1>2. Snapshot = << >> /\ Revocations = << >> /\ net = {}
  BY DEF Init, Snapshot, Revocations
<1>3. Process("down") \in ProcessType /\ Sound(Process("down"), << >>)
  BY <1>1, FreshProcess
<1>4. TypeOK
  BY <1>1, <1>2, <1>3, LegacyAssumption DEF Init, TypeOK, Keys
<1>5. ProcessesSound
  BY <1>2, <1>3 DEF Init, ProcessesSound
<1>6. InFlight
  BY <1>2 DEF InFlight
<1> QED BY <1>4, <1>5, <1>6 DEF Inv

\* Every step keeps the invariant.
LEMMA NextInv == Inv /\ [Next]_vars => Inv'
<1> SUFFICES ASSUME Inv, [Next]_vars PROVE Inv'
  OBVIOUS
<1>1. CASE UNCHANGED vars
  BY <1>1 DEF vars, Inv, TypeOK, ProcessesSound, InFlight, Extension, Snapshot, Revocations
<1>2. ASSUME NEW s \in Services, Step(s) PROVE Inv'
  BY <1>2, StartupKeeps, ReadSnapshotKeeps, ReadRevocationsKeeps, OtherKeeps DEF Step
<1>3. ASSUME NEW s \in Services, TimeOut(s) \/ Crash(s) PROVE Inv'
  BY <1>3, OtherKeeps
<1>4. ASSUME NEW s \in Services, NEW r \in Registration, RegisterRequest(s, r) PROVE Inv'
  BY <1>4, RequestKeeps
<1>5. ASSUME NEW s \in Services, NEW q \in Request, RevokeRequest(s, q) PROVE Inv'
  BY <1>5, RequestKeeps
<1>6. ASSUME NEW u \in net, Deliver(u) PROVE Inv'
  BY <1>6, DeliverKeeps
<1> QED BY <1>1, <1>2, <1>3, <1>4, <1>5, <1>6 DEF Next

\* TypeOK holds in every reachable state of the service, for any constants.
THEOREM JournalTyped == Spec => []TypeOK
<1>1. Inv => TypeOK
  BY DEF Inv
<1> QED BY <1>1, InitInv, NextInv, PTL DEF Spec

----------------------------------------------------------------------------
(* Refinement.                                                             *)

\* A step that changes neither log is a stutter of the abstract specification.
LEMMA SameLogsStutter ==
    ASSUME Inv, SameLogs
    PROVE  UNCHANGED <<Snapshot, Revocations>>
BY SameLogsFacts DEF Inv

\* Every step of the service is a step of SignedLogs or a stutter.
LEMMA StepRefines == Inv /\ [Next]_vars => [Logs!Next]_<<Snapshot, Revocations>>
<1> SUFFICES ASSUME Inv, [Next]_vars PROVE [Logs!Next]_<<Snapshot, Revocations>>
  OBVIOUS
<1>1. CASE SameLogs
  BY <1>1, SameLogsStutter
<1>2. ASSUME NEW u \in net, Deliver(u), Matches(u)
      PROVE  [Logs!Next]_<<Snapshot, Revocations>>
  <2>1. Written(u)
    BY <1>2 DEF Written, Deliver
  <2>2. CASE u.key = "snapshot"
    <3>1. Logs!Register
      BY <2>1, <2>2, WrittenFacts
         DEF Logs!Register, Logs!Registration, Registration, Logs!Registered, Registered
    <3> QED BY <3>1 DEF Logs!Next
  <2>3. CASE u.key = "revocations"
    <3>1. Logs!Revoke
      BY <2>1, <2>3, WrittenFacts
         DEF Logs!Revoke, Logs!Request, Request, Logs!MayRevoke, MayRevoke,
             Logs!Registered, Registered, Logs!Targets, Targets
    <3> QED BY <3>1 DEF Logs!Next
  <2> QED BY <2>1, <2>2, <2>3, WrittenFacts DEF Change, Keys
<1>3. ASSUME NEW u \in net, Deliver(u), ~Matches(u) PROVE SameLogs
  BY <1>3 DEF Deliver, SameLogs
<1>4. ASSUME NEW s \in Services, Step(s) \/ TimeOut(s) \/ Crash(s) PROVE SameLogs
  BY <1>4 DEF Step, Start, ImportDone, TakeLock, Import, Repair, ReadSnapshot, ReadRevocations,
              Accept, TimeOut, Crash, SameLogs
<1>5. ASSUME NEW s \in Services, \/ \E r \in Registration : RegisterRequest(s, r)
                                 \/ \E q \in Request : RevokeRequest(s, q)
      PROVE  SameLogs
  BY <1>5 DEF RegisterRequest, RevokeRequest, SameLogs
<1>6. CASE UNCHANGED vars
  BY <1>6 DEF vars, SameLogs, Snapshot, Revocations
<1> QED BY <1>1, <1>2, <1>3, <1>4, <1>5, <1>6 DEF Next

\* However many service processes overlap, die and retry, the journals are
\* append-only, each record is valid when it is written, and no endpoint is
\* registered or revoked twice: append's read-decide-update implements SignedLogs.
THEOREM JournalRefinesSignedLogs == Spec => ImplementsSignedLogs
<1>1. Init => Logs!Init
  BY DEF Init, Logs!Init, Snapshot, Revocations
<1> QED BY <1>1, InitInv, NextInv, StepRefines, PTL DEF Spec, ImplementsSignedLogs, Logs!Spec

----------------------------------------------------------------------------
(* Acknowledgments and the directory.                                       *)

\* The record an older directory had for the endpoint is in the log.
Covered(e, log) == Legacy[e] # None => Logged(Record(e, Legacy[e]), log)

\* How far the import of a starting process has come.
Imports(p, log) ==
    /\ p.at = "import" => \A e \in Endpoints \ p.todo : Covered(e, log)
    /\ p.at \in {"append", "await_append", "accept"} /\ p.resume = "import" =>
         /\ \A e \in Endpoints \ p.todo : e = p.job.endpoint \/ Covered(e, log)
         /\ Legacy[p.job.endpoint] \in {None, p.job.package}
    /\ p.at = "repair" => \A e \in Endpoints : Covered(e, log)

LegacyKept == \A e \in Endpoints : Legacy[e] # None => directory[e] = Legacy[e]

DirectoryLogged ==
    \A e \in Endpoints : directory[e] # None =>
        Logged(Record(e, directory[e]), Snapshot) \/ directory[e] = Legacy[e]

ServesImported == lock # None => \A e \in Endpoints : Covered(e, Snapshot)

ImportsProceed == \A s \in Services : Imports(proc[s], Snapshot)

DirInv ==
    LegacyKept /\ DirectoryLogged /\ ServesImported /\ ImportsProceed /\ AcknowledgedIsDurable

\* What a step may do to the logs and to the directory.
Grows ==
    /\ \A r : Logged(r, Snapshot) => Logged(r, Snapshot')
    /\ Targets(Revocations) \subseteq Targets(Revocations')
    /\ \A e \in Endpoints :
         \/ directory'[e] = directory[e]
         \/ directory[e] = None /\ Logged(Record(e, directory'[e]), Snapshot')

Answers ==
    /\ \A r \in acked'.registered \ acked.registered :
         Logged(r, Snapshot') /\ directory'[r.endpoint] = r.package
    /\ acked'.revoked \subseteq acked.revoked \cup Targets(Revocations')

\* A step that only lets things grow, answers what is there and leaves its process
\* in order keeps DirInv.
LEMMA DirStep ==
    ASSUME Inv, DirInv, Grows, Answers, NEW s \in Services, NEW p, Imports(p, Snapshot'),
           proc' = [proc EXCEPT ![s] = p],
           lock' # None => lock # None \/ \A e \in Endpoints : Covered(e, Snapshot')
    PROVE  DirInv'
<1>1. /\ proc \in [Services -> ProcessType]
      /\ directory \in [Endpoints -> Packages \cup {None}]
      /\ acked \in [registered : SUBSET Registration, revoked : SUBSET Endpoints]
  BY DEF Inv, TypeOK
<1>2. \A e \in Endpoints : Covered(e, Snapshot) => Covered(e, Snapshot')
  BY DEF Covered, Grows
<1>3. LegacyKept'
  BY DEF DirInv, LegacyKept, Grows
<1>4. DirectoryLogged'
  BY DEF DirInv, DirectoryLogged, Grows
<1>5. ServesImported'
  BY <1>2 DEF DirInv, ServesImported
<1>6. ImportsProceed'
  <2>1. SUFFICES ASSUME NEW t \in Services PROVE Imports(proc'[t], Snapshot')
    BY DEF ImportsProceed
  <2>2. CASE t = s
    BY <2>2, <1>1
  <2>3. CASE t # s
    <3>1. Imports(proc[t], Snapshot) /\ proc'[t] = proc[t]
      BY <2>3, <1>1 DEF DirInv, ImportsProceed
    <3> QED BY <3>1, <1>2 DEF Imports
  <2> QED BY <2>2, <2>3
<1>7. AcknowledgedIsDurable'
  <2>1. ASSUME NEW r \in acked'.registered
        PROVE  Logged(r, Snapshot') /\ directory'[r.endpoint] = r.package
    <3>1. CASE r \in acked.registered
      <4>1. Logged(r, Snapshot) /\ directory[r.endpoint] = r.package /\ r \in Registration
        BY <3>1, <1>1 DEF DirInv, AcknowledgedIsDurable, Logged
      <4>2. r.endpoint \in Endpoints /\ r.package # None
        BY <4>1, LegacyAssumption DEF Registration
      <4> QED BY <4>1, <4>2 DEF Grows
    <3>2. CASE r \notin acked.registered
      BY <3>2 DEF Answers
    <3> QED BY <3>1, <3>2
  <2>2. acked'.revoked \subseteq Targets(Revocations')
    BY DEF Answers, Grows, DirInv, AcknowledgedIsDurable
  <2> QED BY <2>1, <2>2 DEF AcknowledgedIsDurable, Logged
<1> QED BY <1>3, <1>4, <1>5, <1>6, <1>7 DEF DirInv

\* Projecting a logged record only adds to the directory; unless it conflicts, the
\* directory then has it.
LEMMA ProjectGrows ==
    ASSUME directory \in [Endpoints -> Packages \cup {None}], NEW r \in Registration,
           directory' = Project(r), Logged(r, Snapshot')
    PROVE  /\ \A e \in Endpoints : \/ directory'[e] = directory[e]
                                   \/ directory[e] = None /\ Logged(Record(e, directory'[e]), Snapshot')
           /\ ~Conflicts(r) => directory'[r.endpoint] = r.package
<1>1. r = Record(r.endpoint, r.package) /\ r.endpoint \in Endpoints /\ r.package \in Packages
  BY DEF Registration, Record
<1>2. CASE directory[r.endpoint] = None
  BY <1>1, <1>2 DEF Project
<1>3. CASE directory[r.endpoint] # None
  BY <1>1, <1>3 DEF Project, Conflicts
<1> QED BY <1>2, <1>3

\* The logs grow in every step.
LEMMA LogsGrow ==
    ASSUME Inv, SameLogs \/ \E u \in net : Written(u)
    PROVE  /\ \A r : Logged(r, Snapshot) => Logged(r, Snapshot')
           /\ Targets(Revocations) \subseteq Targets(Revocations')
<1>1. CASE SameLogs
  BY <1>1, SameLogsFacts DEF Inv
<1>2. CASE \E u \in net : Written(u)
  BY <1>2, WrittenGrows
<1> QED BY <1>1, <1>2

\* A process that is not importing needs nothing.
LEMMA NotImporting ==
    ASSUME NEW p, NEW log, p.at \notin {"import", "repair"},
           p.at \in {"append", "await_append", "accept"} => p.resume = "ready"
    PROVE  Imports(p, log)
BY DEF Imports

\* The next process, when an append gives up, tries again or is confirmed.
LEMMA ImportsNext ==
    ASSUME NEW p \in ProcessType, NEW log, Imports(p, log),
           p.at \in {"append", "await_append", "accept", "revoke", "await_revoke"},
           p.at \in {"revoke", "await_revoke"} => p.resume = "ready"
    PROVE  /\ Imports(GiveUp(p), log)
           /\ p.at \in {"await_append", "await_revoke"} => Imports(Retried(p), log)
           /\ p.at \in {"await_append", "await_revoke"} => Imports(Answered(p), log)
<1>1. Imports(GiveUp(p), log)
  BY DEF GiveUp, Process, Imports
<1>2. ASSUME p.at \in {"await_append", "await_revoke"} PROVE Imports(Retried(p), log)
  <2>1. CASE p.tries + 1 = MaxTries
    BY <1>1, <2>1 DEF Retried
  <2>2. CASE p.tries + 1 # MaxTries
    <3> DEFINE next == [p EXCEPT !.at = IF @ = "await_append" THEN "append" ELSE "revoke",
                                 !.tries = @ + 1, !.sent = None]
    <3>1. Retried(p) = next
      BY <2>2 DEF Retried
    <3>2. Imports(next, log)
      BY <1>2 DEF Imports, ProcessType
    <3> QED BY <3>1, <3>2
  <2> QED BY <2>1, <2>2
<1>3. ASSUME p.at \in {"await_append", "await_revoke"} PROVE Imports(Answered(p), log)
  <2>1. CASE p.at = "await_append"
    <3> DEFINE next == [p EXCEPT !.at = "accept", !.sent = None]
    <3>1. Answered(p) = next
      BY <2>1 DEF Answered
    <3>2. Imports(next, log)
      BY <2>1 DEF Imports, ProcessType
    <3> QED BY <3>1, <3>2
  <2>2. CASE p.at = "await_revoke"
    BY <2>2 DEF Answered, Return, Process, Imports
  <2> QED BY <1>3, <2>1, <2>2
<1> QED BY <1>1, <1>2, <1>3

\* Startup keeps DirInv: this is where the records of an older directory enter the
\* log.
LEMMA StartupDir ==
    ASSUME Inv, DirInv, NEW s \in Services,
           \/ Start(s) \/ ImportDone(s) \/ TakeLock(s)
           \/ \E e \in Endpoints : Import(s, e) \/ Repair(s, e)
    PROVE  DirInv'
<1> USE ProcessFacts
<1>1. SameLogs
  BY DEF Start, ImportDone, TakeLock, Import, Repair, SameLogs
<1>2. Snapshot' = Snapshot /\ Revocations' = Revocations
  BY <1>1, SameLogsFacts DEF Inv
<1>3. Imports(proc[s], Snapshot)
  BY DEF DirInv, ImportsProceed
<1>4. Answers
  BY DEF Start, ImportDone, TakeLock, Import, Repair, Answers
<1>5. UNCHANGED directory => Grows
  BY <1>2 DEF Grows
<1>6. CASE Start(s)
  <2> DEFINE p == [Process("import") EXCEPT !.view = Snapshot, !.todo = Endpoints]
  <2>1. Imports(p, Snapshot')
    BY DEF Imports, Process
  <2>2. proc' = [proc EXCEPT ![s] = p] /\ lock' = lock /\ UNCHANGED directory
    BY <1>6 DEF Start, Becomes
  <2> QED BY <2>1, <2>2, <1>4, <1>5, DirStep
<1>7. CASE ImportDone(s)
  <2> DEFINE p == [Process("repair") EXCEPT !.view = Snapshot, !.todo = Registered(Snapshot)]
  <2>1. Imports(p, Snapshot')
    BY <1>2, <1>3, <1>7 DEF Imports, Process, ImportDone
  <2>2. proc' = [proc EXCEPT ![s] = p] /\ lock' = lock /\ UNCHANGED directory
    BY <1>7 DEF ImportDone, Becomes
  <2> QED BY <2>1, <2>2, <1>4, <1>5, DirStep
<1>8. CASE TakeLock(s)
  <2>1. PICK at \in {"down", "ready"} : proc' = [proc EXCEPT ![s] = Process(at)]
    BY <1>8 DEF TakeLock, Becomes
  <2>2. Imports(Process(at), Snapshot')
    BY DEF Imports, Process
  <2>3. \A e \in Endpoints : Covered(e, Snapshot')
    BY <1>2, <1>3, <1>8 DEF TakeLock, Imports
  <2>4. UNCHANGED directory
    BY <1>8 DEF TakeLock
  <2> QED BY <2>1, <2>2, <2>3, <2>4, <1>4, <1>5, DirStep
<1>9. ASSUME NEW e \in Endpoints, Import(s, e) PROVE DirInv'
  <2> DEFINE p == proc[s]
             r == Record(e, directory[e])
             rest == [p EXCEPT !.todo = @ \ {e}]
  <2>1. p.at = "import" /\ UNCHANGED directory /\ lock' = lock
    BY <1>9 DEF Import
  <2>2. Legacy[e] \in {None, directory[e]}
    BY DEF DirInv, LegacyKept
  <2>3. CASE directory[e] = None \/ Logged(r, p.view)
    <3>1. proc' = [proc EXCEPT ![s] = rest]
      BY <1>9, <2>3 DEF Import, Becomes
    <3>2. Covered(e, Snapshot)
      <4>1. CASE directory[e] = None
        BY <4>1, <2>2 DEF Covered
      <4>2. CASE directory[e] # None
        <5>1. r \in Registration
          BY <4>2 DEF Record, Registration
        <5>2. Logged(r, Snapshot)
          BY <5>1, <4>2, <2>3 DEF Sound
        <5> QED BY <5>2, <2>2 DEF Covered
      <4> QED BY <4>1, <4>2
    <3>3. Imports(rest, Snapshot')
      BY <1>2, <1>3, <2>1, <3>2 DEF Imports, ProcessType
    <3> QED BY <3>1, <3>3, <2>1, <1>4, <1>5, DirStep
  <2>4. CASE ~(directory[e] = None \/ Logged(r, p.view)) /\ e \notin Registered(p.view)
    <3>1. proc' = [proc EXCEPT ![s] = Appending(rest, "append", r)]
      BY <1>9, <2>4 DEF Import, Becomes
    <3>2. Imports(Appending(rest, "append", r), Snapshot')
      BY <1>2, <1>3, <2>1, <2>2 DEF Imports, ProcessType, Appending, Record
    <3> QED BY <3>1, <3>2, <2>1, <1>4, <1>5, DirStep
  <2>5. CASE ~(directory[e] = None \/ Logged(r, p.view)) /\ e \in Registered(p.view)
    <3>1. proc' = [proc EXCEPT ![s] = Process("down")]
      BY <1>9, <2>5 DEF Import, Becomes
    <3>2. Imports(Process("down"), Snapshot')
      BY DEF Imports, Process
    <3> QED BY <3>1, <3>2, <2>1, <1>4, <1>5, DirStep
  <2> QED BY <2>3, <2>4, <2>5
<1>10. ASSUME NEW e \in Endpoints, Repair(s, e) PROVE DirInv'
  <2> DEFINE p == proc[s]
             r == CHOOSE x \in Registration : x.endpoint = e /\ Logged(x, p.view)
  <2>1. p.at = "repair" /\ e \in Registered(p.view) /\ p.view \in Seq(Registration)
        /\ directory' = Project(r) /\ lock' = lock
    BY <1>10 DEF Repair, Sound, ProcessType
  <2>2. \E x \in Registration : x.endpoint = e /\ Logged(x, p.view)
    <3>1. PICK i \in DOMAIN p.view : e = p.view[i].endpoint
      BY <2>1 DEF Registered
    <3>2. p.view[i] \in Registration
      BY <3>1, <2>1
    <3> QED BY <3>1, <3>2 DEF Logged
  <2>3. r \in Registration /\ Logged(r, p.view)
    BY <2>2
  <2>4. Logged(r, Snapshot')
    BY <1>2, <2>3 DEF Sound
  <2> HIDE DEF r
  <2>5. Grows
    BY <1>2, <2>1, <2>3, <2>4, ProjectGrows DEF Grows
  <2>6. PICK np : proc' = [proc EXCEPT ![s] = np] /\ Imports(np, Snapshot')
    <3>1. CASE Conflicts(r)
      <4>1. proc' = [proc EXCEPT ![s] = Process("down")]
        BY <1>10, <3>1 DEF Repair, Becomes, r
      <4>2. Imports(Process("down"), Snapshot')
        BY DEF Imports, Process
      <4> QED BY <4>1, <4>2
    <3>2. CASE ~Conflicts(r)
      <4>1. proc' = [proc EXCEPT ![s] = [p EXCEPT !.todo = @ \ {e}]]
        BY <1>10, <3>2 DEF Repair, Becomes, r
      <4>2. Imports([p EXCEPT !.todo = @ \ {e}], Snapshot')
        BY <1>2, <1>3, <2>1 DEF Imports, ProcessType
      <4> QED BY <4>1, <4>2
    <3> QED BY <3>1, <3>2
  <2> QED BY <2>1, <2>5, <2>6, <1>4, DirStep
<1> QED BY <1>6, <1>7, <1>8, <1>9, <1>10

\* Requests and reads keep DirInv.
LEMMA RequestDir ==
    ASSUME Inv, DirInv, NEW s \in Services,
           \/ \E r \in Registration : RegisterRequest(s, r)
           \/ \E q \in Request : RevokeRequest(s, q)
           \/ ReadSnapshot(s)
           \/ ReadRevocations(s)
    PROVE  DirInv'
<1> USE ProcessFacts
<1> DEFINE p == proc[s]
<1>1. kv' = kv /\ SameLogs /\ UNCHANGED <<directory, lock>>
  BY DEF RegisterRequest, RevokeRequest, ReadSnapshot, ReadRevocations, SameLogs
<1>2. Snapshot' = Snapshot /\ Revocations' = Revocations
  BY <1>1 DEF Snapshot, Revocations
<1>3. Grows
  BY <1>1, <1>2 DEF Grows
<1>4. Imports(p, Snapshot')
  BY <1>2 DEF DirInv, ImportsProceed
<1>5. SUFFICES Answers /\ \E np : proc' = [proc EXCEPT ![s] = np] /\ Imports(np, Snapshot')
  BY <1>1, <1>3, DirStep
<1>6. ASSUME NEW r \in Registration, RegisterRequest(s, r)
      PROVE  Answers /\ \E np : proc' = [proc EXCEPT ![s] = np] /\ Imports(np, Snapshot')
  <2>1. proc' = [proc EXCEPT ![s] = Appending(p, "append", r)] /\ UNCHANGED acked /\ p.at = "ready"
    BY <1>6 DEF RegisterRequest, Becomes
  <2>2. Imports(Appending(p, "append", r), Snapshot')
    BY <2>1 DEF Imports, Appending, ProcessType
  <2>3. Answers
    BY <2>1 DEF Answers
  <2> QED BY <2>1, <2>2, <2>3
<1>7. ASSUME NEW q \in Request, RevokeRequest(s, q)
      PROVE  Answers /\ \E np : proc' = [proc EXCEPT ![s] = np] /\ Imports(np, Snapshot')
  <2> DEFINE np == Appending([p EXCEPT !.view = Snapshot], "revoke", q)
  <2>1. proc' = [proc EXCEPT ![s] = np] /\ UNCHANGED acked
    BY <1>7 DEF RevokeRequest, Becomes
  <2>2. Imports(np, Snapshot')
    BY DEF Imports, Appending, ProcessType
  <2>3. Answers
    BY <2>1 DEF Answers
  <2> QED BY <2>1, <2>2, <2>3
<1>8. ASSUME ReadSnapshot(s)
      PROVE  Answers /\ \E np : proc' = [proc EXCEPT ![s] = np] /\ Imports(np, Snapshot')
  <2>1. p.at = "append" /\ UNCHANGED acked
    BY <1>8 DEF ReadSnapshot
  <2>2. Answers
    BY <2>1 DEF Answers
  <2>3. CASE Becomes(s, [p EXCEPT !.at = "accept"])
    <3>1. Imports([p EXCEPT !.at = "accept"], Snapshot')
      BY <1>4, <2>1 DEF Imports, ProcessType
    <3> QED BY <3>1, <2>2, <2>3 DEF Becomes
  <2>4. CASE Becomes(s, GiveUp(p))
    <3>1. Imports(GiveUp(p), Snapshot')
      BY <1>4, <2>1, ImportsNext
    <3> QED BY <3>1, <2>2, <2>4 DEF Becomes
  <2>5. CASE Send(s, "snapshot", "await_append")
    <3>1. PICK u : proc' = [proc EXCEPT ![s] = [p EXCEPT !.at = "await_append", !.sent = u]]
      BY <2>5 DEF Send, Becomes
    <3>2. Imports([p EXCEPT !.at = "await_append", !.sent = u], Snapshot')
      BY <1>4, <2>1 DEF Imports, ProcessType
    <3> QED BY <3>1, <3>2, <2>2
  <2> QED BY <1>8, <2>3, <2>4, <2>5 DEF ReadSnapshot
<1>9. ASSUME ReadRevocations(s)
      PROVE  Answers /\ \E np : proc' = [proc EXCEPT ![s] = np] /\ Imports(np, Snapshot')
  <2>1. p.at = "revoke" /\ p.resume = "ready"
    BY <1>9 DEF ReadRevocations, Sound
  <2>2. Answers
    <3>1. \/ UNCHANGED acked
          \/ /\ p.job.target \in Targets(Revocations)
             /\ acked' = [acked EXCEPT !.revoked = @ \cup {p.job.target}]
      BY <1>9 DEF ReadRevocations
    <3> QED BY <3>1, <1>2 DEF Answers
  <2>3. CASE Becomes(s, GiveUp(p))
    <3>1. Imports(GiveUp(p), Snapshot')
      BY <1>4, <2>1, ImportsNext
    <3> QED BY <3>1, <2>2, <2>3 DEF Becomes
  <2>4. CASE Becomes(s, Return(p))
    <3>1. Imports(Return(p), Snapshot')
      BY <2>1 DEF Return, Process, Imports
    <3> QED BY <3>1, <2>2, <2>4 DEF Becomes
  <2>5. CASE Send(s, "revocations", "await_revoke")
    <3>1. PICK u : proc' = [proc EXCEPT ![s] = [p EXCEPT !.at = "await_revoke", !.sent = u]]
      BY <2>5 DEF Send, Becomes
    <3>2. Imports([p EXCEPT !.at = "await_revoke", !.sent = u], Snapshot')
      BY DEF Imports, ProcessType
    <3> QED BY <3>1, <3>2, <2>2
  <2> QED BY <1>9, <2>3, <2>4, <2>5 DEF ReadRevocations
<1> QED BY <1>5, <1>6, <1>7, <1>8, <1>9

\* The broker handling an update keeps DirInv; Revoked is answered for what was
\* just written.
LEMMA DeliverDir ==
    ASSUME Inv, DirInv, NEW u \in net, Deliver(u)
    PROVE  DirInv'
<1> DEFINE s == u.by
           p == proc[u.by]
<1>1. s \in Services
  BY DEF Inv, TypeOK, Change
<1>2. p \in ProcessType /\ Sound(p, Snapshot) /\ proc \in [Services -> ProcessType]
      /\ acked \in [registered : SUBSET Registration, revoked : SUBSET Endpoints]
  BY <1>1, ProcessFacts DEF Inv, TypeOK
<1>3. SameLogs \/ Written(u)
  BY DEF Deliver, SameLogs, Written
<1>4. UNCHANGED <<directory, lock>>
  BY DEF Deliver
<1>5. Grows
  BY <1>3, <1>4, LogsGrow DEF Grows
<1>6. Imports(p, Snapshot')
  <2>1. Imports(p, Snapshot)
    BY <1>1 DEF DirInv, ImportsProceed
  <2>2. \A e \in Endpoints : Covered(e, Snapshot) => Covered(e, Snapshot')
    BY <1>5 DEF Covered, Grows
  <2> QED BY <2>1, <2>2 DEF Imports
<1>7. CASE Waiting(s) /\ p.sent = u /\ Matches(u) /\ Confirmed(s)
  <2>1. p.at \in {"await_append", "await_revoke"}
    BY <1>7 DEF Waiting
  <2>2. Imports(Answered(p), Snapshot')
    BY <1>2, <1>6, <2>1, ImportsNext DEF Sound
  <2>3. proc' = [proc EXCEPT ![s] = Answered(p)]
    BY <1>7 DEF Confirmed, Answered, Becomes
  <2>4. Answers
    <3>1. CASE p.at = "await_append"
      BY <1>7, <3>1 DEF Confirmed, Answers
    <3>2. CASE p.at = "await_revoke"
      <4>1. u.key = "revocations" /\ p.job.target \in Targets(u.log)
        BY <1>2, <1>7, <3>2 DEF Sound
      <4>2. Written(u)
        BY <1>7 DEF Deliver, Written
      <4>3. Revocations' = u.log
        BY <4>1, <4>2, WrittenFacts
      <4>4. acked' = [acked EXCEPT !.revoked = @ \cup {p.job.target}]
        BY <1>7, <3>2 DEF Confirmed
      <4> QED BY <4>1, <4>3, <4>4, <1>2 DEF Answers
    <3> QED BY <2>1, <3>1, <3>2
  <2> QED BY <1>1, <1>4, <1>5, <2>2, <2>3, <2>4, DirStep
<1>8. CASE Waiting(s) /\ Retry(s) /\ UNCHANGED acked
  <2>1. Imports(Retried(p), Snapshot')
    BY <1>2, <1>6, <1>8, ImportsNext DEF Sound, Waiting
  <2>2. proc' = [proc EXCEPT ![s] = Retried(p)]
    BY <1>8 DEF Retry, Retried, Becomes
  <2>3. Answers
    BY <1>8 DEF Answers
  <2> QED BY <1>1, <1>4, <1>5, <2>1, <2>2, <2>3, DirStep
<1>9. CASE UNCHANGED <<proc, acked>>
  <2>1. proc' = [proc EXCEPT ![s] = p]
    BY <1>1, <1>2, <1>9
  <2>2. Answers
    BY <1>9 DEF Answers
  <2> QED BY <1>1, <1>4, <1>5, <1>6, <2>1, <2>2, DirStep
<1> QED BY <1>7, <1>8, <1>9 DEF Deliver

\* Timeouts, projections and crashes keep DirInv; Registered is answered for what
\* is in the log and was just projected.
LEMMA OtherDir ==
    ASSUME Inv, DirInv, NEW s \in Services, TimeOut(s) \/ Accept(s) \/ Crash(s)
    PROVE  DirInv'
<1> USE ProcessFacts
<1> DEFINE p == proc[s]
<1>1. kv' = kv
  BY DEF TimeOut, Accept, Crash
<1>2. Snapshot' = Snapshot /\ Revocations' = Revocations
  BY <1>1 DEF Snapshot, Revocations
<1>3. Imports(p, Snapshot')
  BY <1>2 DEF DirInv, ImportsProceed
<1>4. CASE TimeOut(s)
  <2>1. Imports(Retried(p), Snapshot')
    BY <1>3, <1>4, ImportsNext DEF TimeOut, Waiting, Sound
  <2>2. proc' = [proc EXCEPT ![s] = Retried(p)] /\ UNCHANGED <<directory, lock, acked>>
    BY <1>4 DEF TimeOut, Retry, Retried, Becomes
  <2>3. Grows /\ Answers
    BY <1>2, <2>2 DEF Grows, Answers
  <2> QED BY <2>1, <2>2, <2>3, DirStep
<1>5. CASE Accept(s)
  <2>1. p.at = "accept" /\ p.job \in Registration /\ Logged(p.job, Snapshot')
        /\ directory' = Project(p.job) /\ lock' = lock
    BY <1>2, <1>5 DEF Accept, Sound
  <2>2. Grows
    BY <1>2, <2>1, ProjectGrows DEF Grows
  <2>3. CASE Conflicts(p.job)
    <3>1. proc' = [proc EXCEPT ![s] = GiveUp(p)] /\ UNCHANGED acked
      BY <1>5, <2>3 DEF Accept, Becomes
    <3>2. Imports(GiveUp(p), Snapshot')
      BY <1>3, <2>1, ImportsNext
    <3>3. Answers
      BY <3>1 DEF Answers
    <3> QED BY <2>1, <2>2, <3>1, <3>2, <3>3, DirStep
  <2>4. CASE ~Conflicts(p.job)
    <3>1. proc' = [proc EXCEPT ![s] = Return(p)]
          /\ acked' \in {acked, [acked EXCEPT !.registered = @ \cup {p.job}]}
      BY <1>5, <2>4 DEF Accept, Becomes
    <3>2. directory'[p.job.endpoint] = p.job.package
      BY <2>1, <2>4, ProjectGrows
    <3>3. Answers
      BY <2>1, <3>1, <3>2 DEF Answers
    <3>4. Imports(Return(p), Snapshot')
      <4>1. CASE p.resume = "ready"
        BY <4>1 DEF Return, Process, Imports
      <4>2. CASE p.resume = "import"
        <5>1. Covered(p.job.endpoint, Snapshot')
          <6>1. p.job = Record(p.job.endpoint, p.job.package)
            BY <2>1 DEF Registration, Record
          <6>2. Legacy[p.job.endpoint] \in {None, p.job.package}
            BY <1>3, <2>1, <4>2 DEF Imports
          <6> QED BY <6>1, <6>2, <2>1 DEF Covered
        <5>2. Return(p) = [p EXCEPT !.at = "import"]
          BY <4>2 DEF Return
        <5> QED BY <1>3, <2>1, <4>2, <5>1, <5>2 DEF Imports, ProcessType
      <4> QED BY <4>1, <4>2 DEF ProcessType
    <3> QED BY <2>1, <2>2, <3>1, <3>3, <3>4, DirStep
  <2> QED BY <2>3, <2>4
<1>6. CASE Crash(s)
  <2>1. proc' = [proc EXCEPT ![s] = Process("down")] /\ UNCHANGED <<directory, acked>>
        /\ lock' \in {lock, None}
    BY <1>6 DEF Crash, Becomes
  <2>2. Imports(Process("down"), Snapshot')
    BY DEF Imports, Process
  <2>3. Grows /\ Answers
    BY <1>2, <2>1 DEF Grows, Answers
  <2> QED BY <2>1, <2>2, <2>3, DirStep
<1> QED BY <1>4, <1>5, <1>6

\* DirInv holds initially.
LEMMA InitDir == Init => DirInv
<1> SUFFICES ASSUME Init PROVE DirInv
  OBVIOUS
<1>1. LegacyKept /\ DirectoryLogged /\ ServesImported
  BY DEF Init, LegacyKept, DirectoryLogged, ServesImported
<1>2. ImportsProceed
  BY DEF Init, ImportsProceed, Imports, Process
<1>3. AcknowledgedIsDurable
  BY DEF Init, AcknowledgedIsDurable
<1> QED BY <1>1, <1>2, <1>3 DEF DirInv

\* Every step keeps DirInv.
LEMMA NextDir == Inv /\ DirInv /\ [Next]_vars => DirInv'
<1> SUFFICES ASSUME Inv, DirInv, [Next]_vars PROVE DirInv'
  OBVIOUS
<1>1. CASE UNCHANGED vars
  BY <1>1 DEF vars, DirInv, LegacyKept, DirectoryLogged, ServesImported, ImportsProceed,
              AcknowledgedIsDurable, Snapshot, Revocations
<1>2. ASSUME NEW s \in Services, Step(s) PROVE DirInv'
  BY <1>2, StartupDir, RequestDir, OtherDir DEF Step
<1>3. ASSUME NEW s \in Services, TimeOut(s) \/ Crash(s) PROVE DirInv'
  BY <1>3, OtherDir
<1>4. ASSUME NEW s \in Services, NEW r \in Registration, RegisterRequest(s, r) PROVE DirInv'
  BY <1>4, RequestDir
<1>5. ASSUME NEW s \in Services, NEW q \in Request, RevokeRequest(s, q) PROVE DirInv'
  BY <1>5, RequestDir
<1>6. ASSUME NEW u \in net, Deliver(u) PROVE DirInv'
  BY <1>6, DeliverDir
<1> QED BY <1>1, <1>2, <1>3, <1>4, <1>5, <1>6 DEF Next

\* Registered and Revoked are answered only for what is durably in the journals and,
\* for a registration, in the directory; no crash, lost reply or competing process
\* ever takes it back.
THEOREM AcknowledgmentsAreDurable == Spec => []AcknowledgedIsDurable
<1>1. DirInv => AcknowledgedIsDurable
  BY DEF DirInv
<1> QED BY <1>1, InitInv, NextInv, InitDir, NextDir, PTL DEF Spec

\* While a process serves, the directory is a projection of the log: the records of
\* an older directory were imported before.
THEOREM DirectoryIsProjection == Spec => []DirectoryFollowsLog
<1>1. Inv /\ DirInv => DirectoryFollowsLog
  <2> SUFFICES ASSUME Inv, DirInv, NEW e \in Endpoints, directory[e] # None
               PROVE  \/ Logged(Record(e, directory[e]), Snapshot)
                      \/ lock = None /\ directory[e] = Legacy[e]
    BY DEF DirectoryFollowsLog, Logged
  <2>1. Logged(Record(e, directory[e]), Snapshot) \/ directory[e] = Legacy[e]
    BY DEF DirInv, DirectoryLogged
  <2>2. lock # None => Covered(e, Snapshot)
    BY DEF DirInv, ServesImported
  <2> QED BY <2>1, <2>2 DEF Covered
<1> QED BY <1>1, InitInv, NextInv, InitDir, NextDir, PTL DEF Spec
=============================================================================
