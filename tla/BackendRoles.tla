---------------------------- MODULE BackendRoles ----------------------------
(***************************************************************************)
(* The two backend roles and the local socket between them.  The authority *)
(* accepts one worker session at a time; the worker forwards control       *)
(* requests from the broker over the session, strictly one frame at a      *)
(* time, and publishes the answers.  The control loop of the authority     *)
(* takes requests from a channel of capacity one and executes them in      *)
(* order.  A session keeps the readiness lease alive; devices are admitted *)
(* only while the lease is fresh and the registry reconciled.  Before all  *)
(* that, role-bind and worker-configure write the files both roles need.   *)
(*                                                                         *)
(* Either process may die at any point, and every wait has a deadline; a   *)
(* connection is a number, its frames wait in two buffers until the other  *)
(* end reads them or is gone.                                              *)
(***************************************************************************)
EXTENDS Naturals, Sequences, FiniteSets

CONSTANTS Requests,     \* control requests clients publish
          Mutating,     \* those that close admission while they execute
          Choices,      \* what an operator may bind: worker account, key, socket
          Key,          \* the worker's key in each choice
          None,         \* no file, request, process or connection
          Lease,        \* the lease in ticks (five seconds; a heartbeat every one)
          SeqModulus,   \* bound: frame sequences are kept modulo this
          MaxFaults,    \* bound: deaths and missed deadlines
          MaxConns      \* bound: connections, never reached

ASSUME RolesAssumption ==
    /\ Mutating \subseteq Requests /\ None \notin Requests \cup Choices
    /\ None \notin {Key[choice] : choice \in Choices}
    /\ Lease \in Nat \ {0} /\ SeqModulus \in Nat \ {0, 1, 2}
    /\ MaxFaults \in Nat /\ MaxConns \in Nat \ {0}

VARIABLES
    capabilities, \* runtime-permissions.json
    bindings,     \* the role binding, written last
    workerConfig, \* worker.json in the worker's home
    binder,       \* role-bind in progress: its choice and stage
    up,           \* the authority process runs
    reconciled,   \* Runtime.reconciled, the admission gate
    live,         \* Runtime.live
    age,          \* ticks since Runtime.last_seen
    blocked,      \* audit_blocked: the cached health lacks room or is too old
    full,         \* the audit trail is degraded or past its admission budget
    backlog,      \* connections the listener has not accepted yet
    session,      \* the connection served and how far it is
    active,       \* sessions whose requests may still start
    queue,        \* the channel of capacity one
    executing,    \* the request the control loop executes
    worker,       \* the worker process
    due,          \* the worker's heartbeat interval has elapsed
    toAuthority, toWorker,  \* frames in flight on each connection
    fresh,        \* requests not yet delivered to a worker
    executed,     \* requests the control loop has executed
    replies,      \* <<request, payload>> published to the requester's inbox
    conns, faults

setup == <<capabilities, bindings, workerConfig, binder>>
gate == <<reconciled, live, age>>
trail == <<blocked, full>>
loop == <<active, queue, executing>>
buffers == <<toAuthority, toWorker>>
outcome == <<fresh, executed, replies>>
vars == <<setup, up, gate, backlog, session, loop, worker, due, buffers, outcome,
          trail, conns, faults>>

Conns == 1..MaxConns
Down == [stage |-> "down", conn |-> 0, seq |-> 0, req |-> None]
NoSession == [stage |-> "none", conn |-> 0, seq |-> 0, req |-> None]
NoBinder == [stage |-> "none", choice |-> None]
Idle == [conn |-> 0, req |-> None]
Frame(seq, op, body) == [seq |-> seq, op |-> op, body |-> body]
Following(seq) == (seq + 1) % SeqModulus
MayFail == faults < MaxFaults /\ faults' = faults + 1

\* Runtime::state: what the callout and the status socket call ready.
Ready == reconciled /\ live /\ age < Lease /\ ~blocked

-----------------------------------------------------------------------------
\* Role setup.  The runtime lock keeps role-bind and the authority apart.

Unlocked == binder = NoBinder /\ ~up

BindStart(choice) ==
    /\ Unlocked
    /\ bindings \in {None, choice}
    /\ binder' = [choice |-> choice, stage |-> "capabilities"]
    /\ UNCHANGED <<capabilities, bindings, workerConfig, up, gate, backlog, session, loop,
                   worker, due, buffers, outcome, trail, conns, faults>>

\* The public artifact first: it names the worker by its key alone, and an artifact
\* of another key is never replaced.
BindCapabilities ==
    /\ binder.stage = "capabilities"
    /\ capabilities' = IF capabilities = None THEN Key[binder.choice] ELSE capabilities
    /\ binder' = IF capabilities \in {None, Key[binder.choice]}
                 THEN [binder EXCEPT !.stage = "marker"] ELSE NoBinder
    /\ UNCHANGED <<bindings, workerConfig, up, gate, backlog, session, loop, worker, due,
                   buffers, outcome, trail, conns, faults>>

\* The completion marker, unless an earlier run wrote the same one.
BindMarker ==
    /\ binder.stage = "marker"
    /\ bindings' = binder.choice
    /\ binder' = NoBinder
    /\ UNCHANGED <<capabilities, workerConfig, up, gate, backlog, session, loop, worker, due,
                   buffers, outcome, trail, conns, faults>>

BindDies ==
    /\ binder # NoBinder /\ MayFail
    /\ binder' = NoBinder
    /\ UNCHANGED <<capabilities, bindings, workerConfig, up, gate, backlog, session, loop,
                   worker, due, buffers, outcome, trail, conns>>

\* The worker's account copies the public binding; worker.json is never replaced.
worker_configure ==
    /\ bindings # None /\ workerConfig = None
    /\ workerConfig' = bindings
    /\ UNCHANGED <<capabilities, bindings, binder, up, gate, backlog, session, loop, worker,
                   due, buffers, outcome, trail, conns, faults>>

-----------------------------------------------------------------------------
\* The authority process.

AuthorityStart ==
    /\ Unlocked /\ bindings # None
    /\ up' = TRUE
    /\ UNCHANGED <<setup, gate, backlog, session, loop, worker, due, buffers, outcome,
                   trail, conns, faults>>

\* Its sockets, its channel and its memory go with the process.  Frames it had
\* written stay readable.
AuthorityDies ==
    /\ up /\ MayFail
    /\ up' = FALSE /\ reconciled' = FALSE /\ live' = FALSE /\ blocked' = FALSE
    /\ backlog' = <<>> /\ session' = NoSession
    /\ active' = {} /\ queue' = <<>> /\ executing' = Idle
    /\ toAuthority' = [c \in Conns |-> <<>>]
    /\ UNCHANGED <<setup, age, worker, due, toWorker, outcome, full, conns>>

\* The startup pass and the repair tick reopen the gate between two requests.
Repair ==
    /\ up /\ executing = Idle /\ ~reconciled
    /\ reconciled' = TRUE
    /\ UNCHANGED <<setup, up, live, age, backlog, session, loop, worker, due, buffers,
                   outcome, trail, conns, faults>>

\* The observation tick caches the health of the audit trail, which blocks when it
\* has no room; when the trail cannot be read nothing is cached and nothing blocks.
refresh(answered) ==
    /\ up /\ executing = Idle
    /\ blocked' = (answered /\ full)
    /\ IF answered THEN UNCHANGED faults ELSE MayFail
    /\ UNCHANGED <<setup, up, gate, backlog, session, loop, worker, due, buffers, outcome,
                   full, conns>>

\* The control loop is held up for longer than a cached health counts; that one is
\* cached is not asked.
HealthStale ==
    /\ up /\ ~blocked /\ MayFail
    /\ blocked' = TRUE
    /\ UNCHANGED <<setup, up, gate, backlog, session, loop, worker, due, buffers, outcome,
                   full, conns>>

\* Records fill the trail or mark it degraded while the authority runs; only the
\* commands that need the authority stopped make room again.
TrailFills ==
    /\ up /\ ~full /\ MayFail
    /\ full' = TRUE
    /\ UNCHANGED <<setup, up, gate, backlog, session, loop, worker, due, buffers, outcome,
                   blocked, conns>>

TrailCleared ==
    /\ Unlocked /\ full
    /\ full' = FALSE
    /\ UNCHANGED <<setup, up, gate, backlog, session, loop, worker, due, buffers, outcome,
                   blocked, conns, faults>>

\* Mutant of next_request: the flag of the session is not looked at.
NextAnyway ==
    /\ up /\ executing = Idle /\ queue # <<>>
    /\ queue' = Tail(queue)
    /\ executing' = Head(queue)
    /\ reconciled' = (reconciled /\ Head(queue).req \notin Mutating)
    /\ UNCHANGED <<setup, up, live, age, backlog, session, active, worker, due, buffers,
                   outcome, trail, conns, faults>>

\* next_request: a request whose session has ended is discarded.
next_request ==
    /\ up /\ executing = Idle /\ queue # <<>>
    /\ queue' = Tail(queue)
    /\ IF Head(queue).conn \in active
       THEN /\ executing' = Head(queue)
            /\ reconciled' = (reconciled /\ Head(queue).req \notin Mutating)
       ELSE UNCHANGED <<executing, reconciled>>
    /\ UNCHANGED <<setup, up, live, age, backlog, session, active, worker, due, buffers,
                   outcome, trail, conns, faults>>

\* Mutant of AnswersTo: one response slot for all requests.
AnswersAny(done) == session.stage = "wait"

\* The response goes into the request's own oneshot channel: nobody listens
\* there when the session gave up meanwhile.
AnswersTo(done) == session.stage = "wait" /\ session.conn = done.conn

Execute(repaired) ==
    /\ executing # Idle
    /\ executed' = executed \cup {executing.req}
    /\ reconciled' = (reconciled \/ repaired)
    /\ executing' = Idle
    /\ session' = IF AnswersTo(executing)
                  THEN [session EXCEPT !.stage = "reply", !.req = executing.req] ELSE session
    /\ UNCHANGED <<setup, up, live, age, backlog, active, queue, worker, due, buffers,
                   fresh, replies, trail, conns, faults>>

-----------------------------------------------------------------------------
\* The listener and one session.

\* Mutant of Accept: the accept loop ends with its first session.
AcceptOnce ==
    /\ up /\ session = NoSession /\ backlog # <<>> /\ Head(backlog) = 1
    /\ session' = [conn |-> Head(backlog), stage |-> "handshake", seq |-> 0, req |-> None]
    /\ active' = active \cup {Head(backlog)}
    /\ backlog' = Tail(backlog)
    /\ UNCHANGED <<setup, up, gate, queue, executing, worker, due, buffers, outcome, trail,
                   conns, faults>>

Accept ==
    /\ up /\ session = NoSession /\ backlog # <<>>
    /\ session' = [conn |-> Head(backlog), stage |-> "handshake", seq |-> 0, req |-> None]
    /\ active' = active \cup {Head(backlog)}
    /\ backlog' = Tail(backlog)
    /\ UNCHANGED <<setup, up, gate, queue, executing, worker, due, buffers, outcome, trail,
                   conns, faults>>

Reading == session.stage \in {"handshake", "serve"}
Readable == Reading /\ toAuthority[session.conn] # <<>>
Closed(c) == worker.conn # c

\* Dropping the guards: the session's requests may no longer start and the
\* lease is gone.
EndSession ==
    /\ session' = NoSession
    /\ live' = FALSE
    /\ active' = active \ {session.conn}

\* Writing to a peer that is gone ends the session.
Send(op, body) ==
    IF Closed(session.conn)
    THEN EndSession /\ UNCHANGED toWorker
    ELSE /\ toWorker' = [toWorker EXCEPT ![session.conn] =
                              Append(@, Frame(session.seq, op, body))]
         /\ session' = [session EXCEPT !.stage = "serve", !.seq = Following(@), !.req = None]
         /\ live' = TRUE
         /\ UNCHANGED active

\* The first frame opens the lease; later ones renew it.  A frame out of
\* sequence ends the session.
SessionRead ==
    /\ Readable
    /\ LET frame == Head(toAuthority[session.conn])
           first == session.stage = "handshake"
       IN  IF frame.seq # session.seq \/ (first # (frame.op = "Ready"))
           THEN EndSession /\ UNCHANGED <<age, toWorker, toAuthority>>
           ELSE /\ age' = 0
                /\ toAuthority' = [toAuthority EXCEPT ![session.conn] = Tail(@)]
                /\ IF frame.op = "Request"
                   THEN /\ session' = [session EXCEPT !.stage = "send", !.req = frame.body]
                        /\ UNCHANGED <<toWorker, active, live>>
                   ELSE Send("Heartbeat", None)
    /\ UNCHANGED <<setup, up, reconciled, backlog, queue, executing, worker, due, outcome,
                   trail, conns, faults>>

SessionSubmit ==
    /\ session.stage = "send" /\ queue = <<>>
    /\ queue' = <<[conn |-> session.conn, req |-> session.req]>>
    /\ session' = [session EXCEPT !.stage = "wait"]
    /\ UNCHANGED <<setup, up, gate, backlog, active, executing, worker, due, buffers,
                   outcome, trail, conns, faults>>

SessionReply ==
    /\ session.stage = "reply"
    /\ Send("Response", session.req)
    /\ UNCHANGED <<setup, up, reconciled, age, backlog, queue, executing, worker, due,
                   toAuthority, outcome, trail, conns, faults>>

\* The peer is gone and everything it sent has been read.
SessionEof ==
    /\ Reading /\ ~Readable /\ Closed(session.conn)
    /\ EndSession
    /\ UNCHANGED <<setup, up, reconciled, age, backlog, queue, executing, worker, due,
                   buffers, outcome, trail, conns, faults>>

\* The peer is there and nothing arrives within the read deadline.
SessionSilent ==
    /\ Reading /\ ~Readable /\ ~Closed(session.conn) /\ MayFail
    /\ EndSession
    /\ UNCHANGED <<setup, up, reconciled, age, backlog, queue, executing, worker, due,
                   buffers, outcome, trail, conns>>

\* The authority did not answer within the operation deadline.
SessionDeadline ==
    /\ session.stage \in {"send", "wait"}
    /\ EndSession
    /\ UNCHANGED <<setup, up, reconciled, age, backlog, queue, executing, worker, due,
                   buffers, outcome, trail, conns, faults>>

-----------------------------------------------------------------------------
\* The worker process.

WorkerStart ==
    /\ worker.stage = "down" /\ workerConfig # None /\ workerConfig = bindings
    /\ up /\ conns < MaxConns
    /\ conns' = conns + 1
    /\ worker' = [stage |-> "hello", conn |-> conns', seq |-> 0, req |-> None]
    /\ backlog' = Append(backlog, conns')
    /\ toAuthority' = [toAuthority EXCEPT ![conns'] = <<Frame(0, "Ready", None)>>]
    /\ due' = FALSE
    /\ UNCHANGED <<setup, up, gate, session, loop, toWorker, outcome, trail, faults>>

\* The heartbeat is due first; only then a message is forwarded (biased select).
WorkerSend(op, req) ==
    /\ worker.stage = "idle"
    /\ toAuthority' = [toAuthority EXCEPT ![worker.conn] =
                           Append(@, Frame(worker.seq, op, req))]
    /\ worker' = [worker EXCEPT !.stage = "await", !.req = req]
    /\ UNCHANGED <<setup, up, gate, backlog, session, loop, toWorker, executed, replies,
                   trail, conns, faults>>

WorkerHeartbeat == due /\ WorkerSend("Heartbeat", None) /\ due' = FALSE /\ UNCHANGED fresh

WorkerForward(r) ==
    /\ ~due /\ r \in fresh
    /\ WorkerSend("Request", r)
    /\ fresh' = fresh \ {r}
    /\ UNCHANGED due

WorkerStops ==
    /\ worker' = Down
    /\ toWorker' = IF worker.conn = 0 THEN toWorker
                   ELSE [toWorker EXCEPT ![worker.conn] = <<>>]
    /\ due' = FALSE

Waits == worker.stage \in {"hello", "await"}
Received == Waits /\ toWorker[worker.conn] # <<>>

\* The answer must carry the sequence and the kind of what was sent; anything
\* else ends the process.
WorkerRead ==
    /\ Received
    /\ LET frame == Head(toWorker[worker.conn])
           fits == frame.op = IF worker.req = None THEN "Heartbeat" ELSE "Response"
       IN  IF frame.seq # worker.seq \/ ~fits
           THEN WorkerStops /\ UNCHANGED replies
           ELSE /\ replies' = IF worker.req = None THEN replies
                              ELSE replies \cup {<<worker.req, frame.body>>}
                /\ toWorker' = [toWorker EXCEPT ![worker.conn] = Tail(@)]
                /\ worker' = [worker EXCEPT !.stage = "idle", !.seq = Following(@),
                                            !.req = None]
                /\ UNCHANGED due
    /\ UNCHANGED <<setup, up, gate, backlog, session, loop, toAuthority, fresh, executed,
                   trail, conns, faults>>

Gone(c) == session.conn # c /\ c \notin {backlog[i] : i \in 1..Len(backlog)}

\* The authority closed the connection.
WorkerEof ==
    /\ worker.stage # "down" /\ ~Received /\ Gone(worker.conn)
    /\ WorkerStops
    /\ UNCHANGED <<setup, up, gate, backlog, session, loop, toAuthority, outcome, trail,
                   conns, faults>>

\* A read deadline, a signal or a crash.  What it had sent stays readable.
WorkerDies ==
    /\ worker.stage # "down" /\ MayFail
    /\ WorkerStops
    /\ UNCHANGED <<setup, up, gate, backlog, session, loop, toAuthority, outcome, trail,
                   conns>>

\* One second passes; a local exchange takes less, an operation may take more.
Settled ==
    /\ ~Readable /\ ~Received
    /\ ~(worker.stage = "idle" /\ due)
    /\ ~(Reading /\ Closed(session.conn))
    /\ ~(session = NoSession /\ backlog # <<>>)

Tick ==
    /\ up /\ Settled /\ (age < Lease \/ (worker.stage # "down" /\ ~due))
    /\ age' = IF age < Lease THEN age + 1 ELSE age
    /\ due' = (worker.stage # "down")
    /\ UNCHANGED <<setup, up, reconciled, live, backlog, session, loop, worker, buffers,
                   outcome, trail, conns, faults>>

-----------------------------------------------------------------------------
Init ==
    /\ capabilities = None /\ bindings = None /\ workerConfig = None /\ binder = NoBinder
    /\ up = FALSE /\ reconciled = FALSE /\ live = FALSE /\ age = Lease
    /\ backlog = <<>> /\ session = NoSession /\ active = {} /\ queue = <<>> /\ executing = Idle
    /\ worker = Down /\ due = FALSE
    /\ toAuthority = [c \in Conns |-> <<>>] /\ toWorker = [c \in Conns |-> <<>>]
    /\ fresh = Requests /\ executed = {} /\ replies = {} /\ conns = 0 /\ faults = 0
    /\ blocked = FALSE /\ full = FALSE

Setup ==
    \/ \E choice \in Choices : BindStart(choice)
    \/ BindCapabilities \/ BindMarker \/ BindDies \/ worker_configure

Authority ==
    \/ AuthorityStart \/ AuthorityDies \/ Repair \/ next_request
    \/ \E repaired \in BOOLEAN : Execute(repaired)
    \/ (\E answered \in BOOLEAN : refresh(answered))
    \/ HealthStale \/ TrailFills \/ TrailCleared

Serve ==
    \/ Accept \/ SessionRead \/ SessionSubmit \/ SessionReply \/ SessionEof
    \/ SessionSilent \/ SessionDeadline

Worker ==
    \/ WorkerStart \/ WorkerHeartbeat \/ WorkerRead \/ WorkerEof \/ WorkerDies
    \/ \E r \in Requests : WorkerForward(r)

Next == Setup \/ Authority \/ Serve \/ Worker \/ Tick

\* Tasks and processes keep running and both services are restarted; the
\* operator runs worker-configure once the roles are bound, and does not repeat
\* role-bind for ever while the authority is down.
Fairness ==
    /\ SF_vars(AuthorityStart) /\ WF_vars(worker_configure)
    /\ WF_vars(BindCapabilities) /\ WF_vars(BindMarker)
    /\ WF_vars(Repair) /\ WF_vars(refresh(TRUE)) /\ WF_vars(next_request)
    /\ WF_vars(\E repaired \in BOOLEAN : Execute(repaired))
    /\ WF_vars(Accept) /\ WF_vars(SessionRead) /\ WF_vars(SessionSubmit)
    /\ WF_vars(SessionReply) /\ WF_vars(SessionEof) /\ WF_vars(SessionDeadline)
    /\ WF_vars(WorkerStart) /\ WF_vars(WorkerHeartbeat) /\ WF_vars(WorkerRead)
    /\ WF_vars(WorkerEof) /\ WF_vars(Tick)

Spec == Init /\ [][Next]_vars
FairSpec == Spec /\ Fairness

-----------------------------------------------------------------------------
\* Properties

Frames == [seq : 0..(SeqModulus - 1), op : {"Ready", "Heartbeat", "Request", "Response"},
           body : Requests \cup {None}]
Submission == [conn : Conns, req : Requests]

\* Both processes, the files, the lease and the buffers hold what the code keeps
\* in them; the channel holds one request and a buffer one frame.
TypeOK ==
    /\ capabilities \in {Key[choice] : choice \in Choices} \cup {None}
    /\ {bindings, workerConfig} \subseteq Choices \cup {None}
    /\ binder = NoBinder \/ binder \in [choice : Choices, stage : {"capabilities", "marker"}]
    /\ {up, reconciled, live, due, blocked, full} \subseteq BOOLEAN /\ age \in 0..Lease
    /\ session = NoSession \/ session \in [conn : Conns, seq : 0..(SeqModulus - 1),
            stage : {"handshake", "serve", "send", "wait", "reply"},
            req : Requests \cup {None}]
    /\ active \subseteq Conns /\ Len(queue) <= 1
    /\ \A i \in 1..Len(queue) : queue[i] \in Submission
    /\ executing = Idle \/ executing \in Submission
    /\ worker \in [conn : 0..MaxConns, seq : 0..(SeqModulus - 1),
                   stage : {"down", "hello", "idle", "await"}, req : Requests \cup {None}]
    /\ \A c \in Conns : \A b \in {toAuthority[c], toWorker[c]} :
            Len(b) <= 1 /\ (b # <<>> => Head(b) \in Frames)
    /\ fresh \subseteq Requests /\ executed \subseteq Requests
    /\ replies \subseteq Requests \X Requests
    /\ conns \in 0..MaxConns /\ faults \in 0..MaxFaults

\* What reaches a requester is the outcome of executing that requester's own
\* request, across deadlines, reconnects and restarts of either process.
RepliesMatch ==
    \A reply \in replies : reply[2] = reply[1] /\ reply[1] \in executed

\* A request never starts once the session it came through has ended.
StaleNeverStarts ==
    [][executing' # Idle /\ executing' # executing =>
           session # NoSession /\ session.conn = executing'.conn]_executing

\* The lease is only ever held by a session that completed its handshake.
LiveMeansSession == live => session # NoSession /\ session.stage # "handshake"

\* The sequence checks of both ends never meet a stale frame: an honest pair
\* stays in step, so a session ends only with a peer or at a deadline.
InStep ==
    session # NoSession =>
        LET c == session.conn
        IN  /\ toAuthority[c] # <<>> => Head(toAuthority[c]).seq = session.seq
            /\ worker.conn = c /\ toWorker[c] # <<>> => Head(toWorker[c]).seq = worker.seq
            /\ worker.conn = c /\ worker.stage = "idle" => worker.seq = session.seq

\* The binding is the completion marker: whatever interrupted role-bind, a bound
\* home has the permissions of the same worker, which runs on the same choices.
BindingIsComplete ==
    /\ bindings # None => capabilities = Key[bindings]
    /\ workerConfig # None => workerConfig = bindings

\* Both roles run on one binding, in step, and every answer is to its request.
RolesAreSound ==
    TypeOK /\ RepliesMatch /\ LiveMeansSession /\ InStep /\ BindingIsComplete

\* Once both roles are configured, deaths, missed deadlines and a health that could
\* not be read or went stale are survived: readiness returns and stays, unless the
\* audit trail stays full, which the operator alone can change.
ReadinessReturns == <>[](workerConfig = None) \/ <>[]full \/ <>[]Ready
=============================================================================
