------------------------------ MODULE Journal ------------------------------
(***************************************************************************)
(* The identity service's side of the directory: the two journals in the    *)
(* TRANSPARENCY bucket, written by compare-and-swap on the key's revision,   *)
(* and the IDENTITIES bucket that projects them.                             *)
(*                                                                          *)
(* A service process starts by importing the records of an older directory  *)
(* into the log and repairing the projection of what is logged; then it     *)
(* takes the actuator lock and serves one request at a time.  Two processes  *)
(* overlap when one starts while another serves, or while an update of one   *)
(* that died is still on its way to the broker.                              *)
(***************************************************************************)
EXTENDS LogRecords

CONSTANTS
    Services,     \* service processes
    None,         \* no package, no process, no job
    Legacy,       \* the directory as an older service left it: endpoint -> package or None
    MaxEntries,   \* the most registrations a snapshot may hold
    MaxTries,     \* attempts of one append before it gives up
    MaxFaults     \* bound on crashes, lost replies and timeouts

ASSUME LegacyAssumption == None \notin Packages /\ Legacy \in [Endpoints -> Packages \cup {None}]
ASSUME ServicesAssumption == None \notin Services
ASSUME LimitsAssumption == MaxEntries \in Nat /\ MaxTries \in Nat \ {0} /\ MaxFaults \in Nat

VARIABLES
    kv,          \* the two keys of TRANSPARENCY: [rev, log]; revision 0 is an absent key
    directory,   \* IDENTITIES: endpoint -> package
    net,         \* updates sent and not yet handled by the broker
    lock,        \* the process that holds revocation.lock
    proc,        \* the service processes
    acked,       \* the records answered with Registered, the endpoints with Revoked
    faults

vars == <<kv, directory, net, lock, proc, acked, faults>>

Snapshot == kv["snapshot"].log
Revocations == kv["revocations"].log
Record(e, p) == [endpoint |-> e, package |-> p]

Logged(r, log) == \E i \in DOMAIN log : log[i] = r

\* create: only an absent key is written.
Created(key) == IF kv[key].rev = 0 THEN [kv EXCEPT ![key].rev = 1] ELSE kv

\* A process: where it is; the record it appends and where it goes on afterwards;
\* the registrations it read (`existing', or the handler's `registrations'); the
\* endpoints left to import or repair; the failed attempts of this append and the
\* update whose reply it waits for.
Process(at) ==
    [at |-> at, job |-> None, resume |-> "ready", view |-> << >>, todo |-> {}, tries |-> 0,
     sent |-> None]

Becomes(s, p) == proc' = [proc EXCEPT ![s] = p]
Appending(p, at, record) == [p EXCEPT !.at = at, !.job = record, !.resume = p.at, !.tries = 0]

Init ==
    /\ kv = [k \in {"snapshot", "revocations"} |-> [rev |-> 0, log |-> << >>]]
    /\ directory = Legacy
    /\ net = {}
    /\ lock = None
    /\ proc = [s \in Services |-> Process("down")]
    /\ acked = [registered |-> {}, revoked |-> {}]
    /\ faults = 0

----------------------------------------------------------------------------
(* Startup: initialize, then reconcile.                                    *)

Start(s) ==
    /\ proc[s].at = "down"
    /\ kv' = Created("snapshot")
    /\ Becomes(s, [Process("import") EXCEPT !.view = Snapshot, !.todo = Endpoints])
    /\ UNCHANGED <<directory, net, lock, acked, faults>>

\* The next enrolled endpoint: nothing to import, already logged as it is, logged
\* differently (startup fails), or register it.
Import(s, e) ==
    LET p == proc[s]
        r == Record(e, directory[e])
        rest == [p EXCEPT !.todo = @ \ {e}]
    IN
    /\ p.at = "import"
    /\ e \in p.todo
    /\ Becomes(s, IF directory[e] = None \/ Logged(r, p.view) THEN rest
                  ELSE IF e \notin Registered(p.view) THEN Appending(rest, "append", r)
                  ELSE Process("down"))
    /\ UNCHANGED <<kv, directory, net, lock, acked, faults>>

\* Mutant: the import stops at the first record it had to register.
ImportCutShort(s) ==
    /\ proc[s].at = "import"
    /\ Becomes(s, [Process("repair") EXCEPT !.view = Snapshot, !.todo = Registered(Snapshot)])
    /\ UNCHANGED <<kv, directory, net, lock, acked, faults>>

ImportDone(s) ==
    /\ proc[s].at = "import"
    /\ proc[s].todo = {}
    /\ Becomes(s, [Process("repair") EXCEPT !.view = Snapshot, !.todo = Registered(Snapshot)])
    /\ UNCHANGED <<kv, directory, net, lock, acked, faults>>

\* Mutant: the projection is forgotten.
ProjectNothing(r) == directory

\* project_registration: create the record; an exact copy is fine, any other is
\* a conflict and stays.
Project(r) ==
    IF directory[r.endpoint] = None THEN [directory EXCEPT ![r.endpoint] = r.package]
    ELSE directory

\* Mutant: an exact copy is a conflict too.
CopyConflicts(r) == directory[r.endpoint] # None

Conflicts(r) == directory[r.endpoint] \notin {None, r.package}

Repair(s, e) ==
    LET p == proc[s]
        r == CHOOSE x \in Registration : x.endpoint = e /\ Logged(x, p.view)
    IN
    /\ p.at = "repair"
    /\ e \in p.todo
    /\ directory' = Project(r)
    /\ Becomes(s, IF Conflicts(r) THEN Process("down") ELSE [p EXCEPT !.todo = @ \ {e}])
    /\ UNCHANGED <<kv, net, lock, acked, faults>>

\* revocation::initialize, then the lock; a process that does not get it exits.
TakeLock(s) ==
    /\ proc[s].at = "repair"
    /\ proc[s].todo = {}
    /\ kv' = Created("revocations")
    /\ IF lock = None THEN lock' = s /\ Becomes(s, Process("ready"))
       ELSE Becomes(s, Process("down")) /\ UNCHANGED lock
    /\ UNCHANGED <<directory, net, acked, faults>>

----------------------------------------------------------------------------
(* Requests.  A refused request leaves everything as it is.                *)

\* register: the endpoint is enrolled and active, the directory has no other
\* record of it, and its KeyPackage is valid.  Here packages do not expire: an
\* expired one is refused in a request, and at startup fails the import of a
\* legacy record (what that does to the dynamic authority is in Authority).
RegisterRequest(s, r) ==
    /\ proc[s].at = "ready"
    /\ r.endpoint \notin Targets(Revocations)
    /\ ~Conflicts(r)
    /\ Becomes(s, Appending(proc[s], "append", r))
    /\ UNCHANGED <<kv, directory, net, lock, acked, faults>>

RevokeRequest(s, q) ==
    /\ proc[s].at = "ready"
    /\ Becomes(s, Appending([proc[s] EXCEPT !.view = Snapshot], "revoke", q))
    /\ UNCHANGED <<kv, directory, net, lock, acked, faults>>

----------------------------------------------------------------------------
(* append, of either journal: read, decide, update at the revision read.   *)

\* An error ends the request, or the startup.
GiveUp(p) == Process(IF p.resume = "ready" THEN "ready" ELSE "down")

\* Success goes on where the append was called.
Return(p) == IF p.resume = "ready" THEN Process("ready") ELSE [p EXCEPT !.at = p.resume]

Send(s, key, at) ==
    LET u == [by |-> s, key |-> key, base |-> kv[key].rev,
              log |-> Append(kv[key].log, proc[s].job)]
    IN  /\ net' = net \cup {u}
        /\ Becomes(s, [proc[s] EXCEPT !.at = at, !.sent = u])

ReadSnapshot(s) ==
    LET p == proc[s]
        known == p.job.endpoint \in Registered(Snapshot)
    IN
    /\ p.at = "append"
    /\ \/ /\ Logged(p.job, Snapshot)
          /\ Becomes(s, [p EXCEPT !.at = "accept"])
          /\ UNCHANGED net
       \/ /\ ~Logged(p.job, Snapshot)
          /\ known \/ Len(Snapshot) >= MaxEntries
          /\ Becomes(s, GiveUp(p))
          /\ UNCHANGED net
       \/ /\ ~known /\ Len(Snapshot) < MaxEntries
          /\ Send(s, "snapshot", "await_append")
    /\ UNCHANGED <<kv, directory, lock, acked, faults>>

ReadRevocations(s) ==
    LET p == proc[s]
        valid == ValidLog(Revocations, p.view) /\ MayRevoke(p.job, p.view, Revocations)
        known == p.job.target \in Targets(Revocations)
    IN
    /\ p.at = "revoke"
    /\ \/ /\ ~valid
          /\ Becomes(s, GiveUp(p))
          /\ UNCHANGED <<net, acked>>
       \/ /\ valid /\ known
          /\ Becomes(s, Return(p))
          /\ acked' = [acked EXCEPT !.revoked = @ \cup {p.job.target}]
          /\ UNCHANGED net
       \/ /\ valid /\ ~known
          /\ Send(s, "revocations", "await_revoke")
          /\ UNCHANGED acked
    /\ UNCHANGED <<kv, directory, lock, faults>>

Waiting(s) == proc[s].at \in {"await_append", "await_revoke"}

\* Any failure, a reply that never comes included, means: read again, up to the
\* limit of attempts.
Retry(s) ==
    LET p == proc[s]
    IN  Becomes(s, IF p.tries + 1 = MaxTries THEN GiveUp(p)
                   ELSE [p EXCEPT !.at = IF @ = "await_append" THEN "append" ELSE "revoke",
                                  !.tries = @ + 1, !.sent = None])

\* The reply to an update that was written.
Confirmed(s) ==
    LET p == proc[s]
    IN  IF p.at = "await_append"
        THEN Becomes(s, [p EXCEPT !.at = "accept", !.sent = None]) /\ UNCHANGED acked
        ELSE Becomes(s, Return(p)) /\ acked' = [acked EXCEPT !.revoked = @ \cup {p.job.target}]

\* Mutant: a plain put.
PutAlways(u) == TRUE

\* The broker compares the key's revision.
Matches(u) == u.base = kv[u.key].rev

\* The broker handles an update; its sender may have died, timed out or moved on,
\* and the reply may be lost.
Deliver(u) ==
    LET awaited == Waiting(u.by) /\ proc[u.by].sent = u
    IN
    /\ net' = net \ {u}
    /\ kv' = IF Matches(u) THEN [kv EXCEPT ![u.key] = [rev |-> @.rev + 1, log |-> u.log]] ELSE kv
    /\ \/ awaited /\ Matches(u) /\ Confirmed(u.by) /\ UNCHANGED faults
       \/ awaited /\ ~Matches(u) /\ Retry(u.by) /\ UNCHANGED <<acked, faults>>
       \/ /\ awaited /\ faults < MaxFaults
          /\ faults' = faults + 1
          /\ Retry(u.by)
          /\ UNCHANGED acked
       \/ ~awaited /\ UNCHANGED <<proc, acked, faults>>
    /\ UNCHANGED <<directory, lock>>

\* The request times out while the update is still on its way.
TimeOut(s) ==
    /\ Waiting(s)
    /\ faults < MaxFaults
    /\ faults' = faults + 1
    /\ Retry(s)
    /\ UNCHANGED <<kv, directory, net, lock, acked>>

\* transport::accept after a successful append.
Accept(s) ==
    LET p == proc[s]
    IN
    /\ p.at = "accept"
    /\ directory' = Project(p.job)
    /\ IF Conflicts(p.job) THEN Becomes(s, GiveUp(p)) /\ UNCHANGED acked
       ELSE /\ Becomes(s, Return(p))
            /\ acked' = IF p.resume = "ready" THEN [acked EXCEPT !.registered = @ \cup {p.job}] ELSE acked
    /\ UNCHANGED <<kv, net, lock, faults>>

Crash(s) ==
    /\ proc[s].at # "down"
    /\ faults < MaxFaults
    /\ faults' = faults + 1
    /\ Becomes(s, Process("down"))
    /\ lock' = IF lock = s THEN None ELSE lock
    /\ UNCHANGED <<kv, directory, net, acked>>

----------------------------------------------------------------------------

Step(s) ==
    \/ Start(s) \/ ImportDone(s) \/ TakeLock(s)
    \/ \E e \in Endpoints : Import(s, e) \/ Repair(s, e)
    \/ ReadSnapshot(s) \/ ReadRevocations(s) \/ Accept(s)

Next ==
    \/ \E s \in Services : Step(s) \/ TimeOut(s) \/ Crash(s)
    \/ \E s \in Services, r \in Registration : RegisterRequest(s, r)
    \/ \E s \in Services, q \in Request : RevokeRequest(s, q)
    \/ \E u \in net : Deliver(u)

Spec == Init /\ [][Next]_vars

\* A service that stops is started again, runs on, and its broker answers.
FairSpec ==
    /\ Spec
    /\ \A s \in Services : WF_vars(Step(s))
    /\ WF_vars(\E u \in net : Deliver(u))
----------------------------------------------------------------------------
(* Properties.                                                             *)

Keys == {"snapshot", "revocations"}
Change == [by : Services, key : Keys, base : Nat, log : Seq(Registration) \cup Seq(Request)]
Points == {"down", "import", "repair", "ready", "append", "accept", "revoke",
           "await_append", "await_revoke"}
ProcessType ==
    [at : Points, job : Registration \cup Request \cup {None}, resume : {"import", "ready"},
     view : Seq(Registration), todo : SUBSET Endpoints, tries : 0..(MaxTries - 1),
     sent : Change \cup {None}]

\* Type correctness of the buckets, the updates in flight and the processes.
TypeOK ==
    /\ kv \in [Keys -> [rev : Nat, log : Seq(Registration) \cup Seq(Request)]]
    /\ Snapshot \in Seq(Registration)
    /\ Revocations \in Seq(Request)
    /\ directory \in [Endpoints -> Packages \cup {None}]
    /\ net \subseteq Change
    /\ lock \in Services \cup {None}
    /\ proc \in [Services -> ProcessType]
    /\ acked \in [registered : SUBSET Registration, revoked : SUBSET Endpoints]
    /\ faults \in Nat

Logs == INSTANCE SignedLogs WITH entries <- Snapshot, revocations <- Revocations

\* The journals only grow, by one valid record at a time, whatever processes
\* overlap and whichever replies are lost: what append and its compare-and-swap
\* are for.
ImplementsSignedLogs == Logs!Spec

\* Registered was answered only for a registration that is in the log and in the
\* directory, and Revoked only for a device in the revocation journal: neither a
\* crash nor a competing process undoes an acknowledgment.
AcknowledgedIsDurable ==
    /\ \A r \in acked.registered :
         (\E i \in DOMAIN Snapshot : Snapshot[i] = r) /\ directory[r.endpoint] = r.package
    /\ acked.revoked \subseteq Targets(Revocations)

\* The directory shows nothing the log does not hold; records of an older
\* directory are in the log from the first time a process serves.
DirectoryFollowsLog ==
    \A e \in Endpoints : directory[e] # None =>
        \/ \E i \in DOMAIN Snapshot : Snapshot[i] = Record(e, directory[e])
        \/ lock = None /\ directory[e] = Legacy[e]

\* However processes overlap, crash and lose replies while starting, one of them
\* serves again: neither journal nor directory can reach a state that startup
\* rejects for good.
ServesAgain == []<>(\E s \in Services : proc[s].at = "ready")
=============================================================================
