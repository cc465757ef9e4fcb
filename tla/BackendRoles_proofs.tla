------------------------ MODULE BackendRoles_proofs -------------------------
(***************************************************************************)
(* Proofs about the two backend roles, for any number of requests, ticks,    *)
(* faults and connections: both ends of the local socket stay in step, every *)
(* answer is to its request, and no request outlives its session.            *)
(***************************************************************************)
EXTENDS BackendRoles, TLAPS

(***************************************************************************)
(* The inductive invariant: what each process may assume of the other, by    *)
(* the stage it is at.                                                     *)
(***************************************************************************)

Seqs == 0..(SeqModulus - 1)
Bodies == Requests \cup {None}
SessionType == [conn : Conns, seq : Seqs, stage : {"handshake", "serve", "send", "wait", "reply"},
                req : Bodies]
WorkerType == [conn : 0..MaxConns, seq : Seqs, stage : {"down", "hello", "idle", "await"},
               req : Bodies]
Keys == {Key[choice] : choice \in Choices}
Hello == Frame(0, "Ready", None)

Types ==
    /\ capabilities \in Keys \cup {None} /\ bindings \in Choices \cup {None}
    /\ workerConfig \in Choices \cup {None}
    /\ binder = NoBinder \/ binder \in [choice : Choices, stage : {"capabilities", "marker"}]
    /\ up \in BOOLEAN /\ reconciled \in BOOLEAN /\ live \in BOOLEAN /\ due \in BOOLEAN
    /\ age \in 0..Lease /\ backlog \in Seq(Conns)
    /\ session = NoSession \/ session \in SessionType
    /\ queue \in Seq(Submission) /\ Len(queue) <= 1
    /\ executing = Idle \/ executing \in Submission
    /\ worker \in WorkerType
    /\ toAuthority \in [Conns -> Seq(Frames)] /\ toWorker \in [Conns -> Seq(Frames)]
    /\ \A c \in Conns : Len(toAuthority[c]) <= 1 /\ Len(toWorker[c]) <= 1
    /\ fresh \subseteq Requests /\ executed \subseteq Requests
    /\ replies \subseteq Requests \X Requests
    /\ conns \in 0..MaxConns /\ faults \in 0..MaxFaults

\* An unfinished role-bind never contradicts a finished one, and writes the marker
\* last.
SetupSound ==
    /\ BindingIsComplete
    /\ binder # NoBinder => bindings \in {None, binder.choice}
    /\ binder.stage = "marker" => capabilities = Key[binder.choice]

\* A connection that waits to be accepted has only its first frame under way.
Waiting == {backlog[i] : i \in 1..Len(backlog)}

BacklogSound ==
    /\ \A i, j \in 1..Len(backlog) : backlog[i] = backlog[j] => i = j
    /\ \A c \in Waiting : /\ c <= conns /\ c # session.conn
                          /\ toAuthority[c] = <<Hello>> /\ toWorker[c] = <<>>
                          /\ c = worker.conn => worker.stage = "hello"

\* A number that no connection has had yet is unused everywhere.
FreshConns ==
    /\ session.conn <= conns /\ worker.conn <= conns /\ executing.conn <= conns
    /\ \A i \in 1..Len(queue) : queue[i].conn <= conns
    /\ \A c \in Conns : c > conns => toWorker[c] = <<>>

\* The only requests that may start are those of the present session, which waits
\* for one at most.
ControlSound ==
    /\ active = IF session = NoSession THEN {} ELSE {session.conn}
    /\ \A i \in 1..Len(queue) :
         /\ queue[i].conn \notin Waiting
         /\ queue[i].conn = session.conn => /\ session.stage = "wait" /\ queue[i].req = session.req
                                            /\ executing.conn # session.conn
    /\ executing.conn \notin Waiting
    /\ session # NoSession /\ executing.conn = session.conn =>
         session.stage = "wait" /\ executing.req = session.req
    /\ session.stage = "reply" => session.req \in executed

\* What a session finds in its buffer, whether its peer is there or not.
SessionSound ==
    LET c == session.conn
    IN  session # NoSession =>
        /\ session.stage = "handshake" => session.seq = 0 /\ toAuthority[c] = <<Hello>>
        /\ session.stage = "serve" /\ toAuthority[c] # <<>> =>
             \E r \in Bodies : toAuthority[c] = <<Frame(session.seq,
                                     IF r = None THEN "Heartbeat" ELSE "Request", r)>>
        /\ session.stage \in {"send", "wait", "reply"} =>
             toAuthority[c] = <<>> /\ session.req \in Requests

\* What a worker finds in its buffer, whether its peer is there or not.
AnswerTo(w, frame) ==
    \/ w.req = None /\ frame = Frame(w.seq, "Heartbeat", None)
    \/ w.req \in executed /\ frame = Frame(w.seq, "Response", w.req)

WorkerSound ==
    LET c == worker.conn
    IN  IF worker.stage = "down" THEN worker = Down
        ELSE /\ c # 0
             /\ worker.stage = "hello" => worker.seq = 0 /\ worker.req = None
             /\ worker.stage = "idle" =>
                  worker.req = None /\ toAuthority[c] = <<>> /\ toWorker[c] = <<>>
             /\ toWorker[c] # <<>> =>
                  toAuthority[c] = <<>> /\ \E f \in Frames : AnswerTo(worker, f) /\ toWorker[c] = <<f>>

\* The two ends of one connection: the worker is idle, its frame is on the way, the
\* session works on its request, or the answer is on the way.
InTouch ==
    LET c == session.conn
        a == toAuthority[c]
        w == toWorker[c]
    IN  session # NoSession /\ worker.conn = c =>
        \/ worker.stage = "idle" /\ session.stage = "serve" /\ session.seq = worker.seq
        \/ /\ worker.stage = "hello" /\ session.stage = "handshake"
           /\ w = <<>> /\ session.seq = worker.seq
        \/ /\ worker.stage = "await" /\ session.stage = "serve" /\ w = <<>>
           /\ a = <<Frame(worker.seq, IF worker.req = None THEN "Heartbeat" ELSE "Request", worker.req)>>
           /\ session.seq = worker.seq
        \/ /\ worker.stage = "await" /\ session.stage \in {"send", "wait", "reply"}
           /\ w = <<>> /\ session.req = worker.req /\ session.seq = worker.seq
        \/ /\ worker.stage \in {"hello", "await"} /\ session.stage = "serve"
           /\ a = <<>> /\ w # <<>> /\ session.seq = Following(worker.seq)

Inv ==
    /\ Types /\ SetupSound /\ BacklogSound /\ FreshConns /\ ControlSound
    /\ SessionSound /\ WorkerSound /\ InTouch
    /\ LiveMeansSession /\ RepliesMatch

----------------------------------------------------------------------------
(* The constants.                                                          *)

\* A sequence number is followed by a sequence number.
LEMMA FollowingSeq ==
    ASSUME NEW n \in Seqs
    PROVE  Following(n) \in Seqs
BY RolesAssumption DEF Following, Seqs

\* The records for nothing are told apart from the others.
LEMMA Nothing ==
    /\ Down \in WorkerType /\ Down.conn = 0 /\ Down.stage = "down" /\ Down.req = None
    /\ NoSession.conn = 0 /\ NoSession.stage = "none" /\ NoSession \notin SessionType
    /\ Idle.conn = 0 /\ Idle \notin Submission
    /\ NoBinder.stage = "none" /\ None \notin Requests /\ None \notin Choices
    /\ None \notin Keys /\ 0 \in Seqs /\ Hello \in Frames
<1>1. /\ 0 \in Seqs /\ None \notin Requests /\ None \notin Choices /\ MaxConns \in Nat
      /\ None \notin Keys
  BY RolesAssumption DEF Seqs, Keys
<1>2. Hello \in Frames
  BY <1>1 DEF Hello, Frame, Frames, Seqs
<1>3. Down \in WorkerType /\ Down.conn = 0 /\ Down.stage = "down" /\ Down.req = None
  BY <1>1 DEF Down, WorkerType, Bodies
<1>4. NoSession.conn = 0 /\ NoSession.stage = "none" /\ NoSession \notin SessionType
  BY <1>1 DEF NoSession, SessionType, Conns
<1>5. Idle.conn = 0 /\ Idle \notin Submission
  BY <1>1 DEF Idle, Submission, Conns
<1>6. NoBinder.stage = "none"
  BY DEF NoBinder
<1> QED BY <1>1, <1>2, <1>3, <1>4, <1>5, <1>6

\* A session that is one has a connection and a stage.
LEMMA SessionFields ==
    ASSUME Types
    PROVE  /\ session # NoSession => session \in SessionType /\ session.conn \in Conns
                                     /\ session.conn # 0
           /\ session = NoSession <=> session.stage = "none"
           /\ session = NoSession => session.conn = 0
<1>1. CASE session = NoSession
  BY <1>1, Nothing
<1>2. CASE session \in SessionType
  BY <1>2, Nothing DEF SessionType, Conns
<1> QED BY <1>1, <1>2 DEF Types

----------------------------------------------------------------------------
(* Role setup, and what else leaves both ends alone.                       *)

\* The state the two processes share.
shared == <<live, backlog, session, active, queue, executing, worker, toAuthority, toWorker,
            executed, replies, conns>>

\* A step that leaves both ends and the control loop alone.
LEMMA SharedSame ==
    ASSUME Inv, UNCHANGED shared, Types', SetupSound'
    PROVE  Inv'
<1>1. BacklogSound' /\ FreshConns'
  BY DEF Inv, shared, BacklogSound, FreshConns, Waiting
<1>2. ControlSound' /\ SessionSound'
  BY DEF Inv, shared, ControlSound, SessionSound, Waiting
<1>3. WorkerSound' /\ InTouch'
  BY DEF Inv, shared, WorkerSound, InTouch, AnswerTo
<1>4. LiveMeansSession' /\ RepliesMatch'
  BY DEF Inv, shared, LiveMeansSession, RepliesMatch
<1> QED BY <1>1, <1>2, <1>3, <1>4 DEF Inv

\* Role setup preserves the invariant: the marker is written last, and never over
\* another choice.
LEMMA SetupInv ==
    ASSUME Inv, Setup
    PROVE  Inv'
<1> USE DEF Inv
<1>1. ASSUME NEW choice \in Choices, BindStart(choice) PROVE Inv'
  <2>1. /\ UNCHANGED shared /\ binder' = [choice |-> choice, stage |-> "capabilities"]
        /\ UNCHANGED <<capabilities, bindings, workerConfig, up, reconciled, due, age, fresh, faults>>
        /\ bindings \in {None, choice}
    BY <1>1 DEF BindStart, shared, gate, loop, buffers, outcome
  <2>2. binder' \in [choice : Choices, stage : {"capabilities", "marker"}] /\ binder'.choice = choice
        /\ binder'.stage = "capabilities"
    BY <2>1
  <2>3. Types'
    BY <2>1, <2>2 DEF Types, shared
  <2>4. SetupSound'
    BY <2>1, <2>2 DEF SetupSound, BindingIsComplete
  <2> QED BY <2>1, <2>3, <2>4, SharedSame
<1>2. CASE BindCapabilities
  <2>1. /\ UNCHANGED shared /\ binder.stage = "capabilities"
        /\ UNCHANGED <<bindings, workerConfig, up, reconciled, due, age, fresh, faults>>
        /\ capabilities' = IF capabilities = None THEN Key[binder.choice] ELSE capabilities
        /\ binder' = IF capabilities \in {None, Key[binder.choice]}
                     THEN [binder EXCEPT !.stage = "marker"] ELSE NoBinder
    BY <1>2 DEF BindCapabilities, shared, gate, loop, buffers, outcome
  <2>2. binder # NoBinder /\ binder \in [choice : Choices, stage : {"capabilities", "marker"}]
    BY <2>1, Nothing DEF Types
  <2>3. capabilities' \in Keys \cup {None} /\ binder.choice \in Choices
    BY <2>1, <2>2 DEF Types, Keys
  <2>4. Types'
    BY <2>1, <2>2, <2>3 DEF Types, shared
  <2>5. SetupSound'
    <3>1. CASE capabilities \in {None, Key[binder.choice]}
      <4>1. binder'.choice = binder.choice /\ capabilities' = Key[binder.choice]
        BY <2>1, <2>2, <3>1
      <4>2. bindings # None => capabilities # None
        BY Nothing DEF SetupSound, BindingIsComplete, Types, Keys
      <4> QED BY <2>1, <2>2, <3>1, <4>1, <4>2, Nothing DEF SetupSound, BindingIsComplete
    <3>2. CASE capabilities \notin {None, Key[binder.choice]}
      BY <2>1, <2>2, <3>2, Nothing DEF SetupSound, BindingIsComplete
    <3> QED BY <3>1, <3>2
  <2> QED BY <2>1, <2>4, <2>5, SharedSame
<1>3. CASE BindMarker
  <2>1. /\ UNCHANGED shared /\ binder.stage = "marker" /\ binder' = NoBinder
        /\ UNCHANGED <<capabilities, workerConfig, up, reconciled, due, age, fresh, faults>>
        /\ bindings' = binder.choice
    BY <1>3 DEF BindMarker, shared, gate, loop, buffers, outcome
  <2>2. binder # NoBinder /\ binder \in [choice : Choices, stage : {"capabilities", "marker"}]
    BY <2>1, Nothing DEF Types
  <2>3. Types'
    BY <2>1, <2>2 DEF Types, shared
  <2>4. SetupSound'
    BY <2>1, <2>2, Nothing DEF SetupSound, BindingIsComplete
  <2> QED BY <2>1, <2>3, <2>4, SharedSame
<1>4. CASE BindDies
  <2>1. /\ UNCHANGED shared /\ binder' = NoBinder /\ faults < MaxFaults /\ faults' = faults + 1
        /\ UNCHANGED <<capabilities, bindings, workerConfig, up, reconciled, due, age, fresh>>
    BY <1>4 DEF BindDies, MayFail, shared, gate, loop, buffers, outcome
  <2>2. Types'
    BY <2>1, RolesAssumption DEF Types, shared
  <2>3. SetupSound'
    BY <2>1, Nothing DEF SetupSound, BindingIsComplete
  <2> QED BY <2>1, <2>2, <2>3, SharedSame
<1>5. CASE worker_configure
  <2>1. /\ UNCHANGED shared /\ bindings # None /\ workerConfig' = bindings
        /\ UNCHANGED <<capabilities, bindings, binder, up, reconciled, due, age, fresh, faults>>
    BY <1>5 DEF worker_configure, shared, gate, loop, buffers, outcome
  <2>2. Types'
    BY <2>1 DEF Types, shared
  <2>3. SetupSound'
    BY <2>1 DEF SetupSound, BindingIsComplete
  <2> QED BY <2>1, <2>2, <2>3, SharedSame
<1> QED BY <1>1, <1>2, <1>3, <1>4, <1>5 DEF Setup

\* What becomes of the audit trail and of its cached health preserves the invariant.
LEMMA TrailInv ==
    ASSUME Inv, (\E answered \in BOOLEAN : refresh(answered))
                \/ HealthStale \/ TrailFills \/ TrailCleared
    PROVE  Inv'
<1> USE DEF Inv
<1>1. /\ UNCHANGED shared /\ UNCHANGED setup
      /\ UNCHANGED <<up, reconciled, due, age, fresh>>
      /\ faults' = faults \/ (faults < MaxFaults /\ faults' = faults + 1)
  BY DEF refresh, HealthStale, TrailFills, TrailCleared, MayFail, shared, setup, gate, loop,
         buffers, outcome
<1>2. Types'
  <2>1. faults' \in 0..MaxFaults
    BY <1>1, RolesAssumption DEF Types
  <2> QED BY <1>1, <2>1 DEF Types, shared, setup
<1>3. SetupSound'
  BY <1>1 DEF SetupSound, BindingIsComplete, setup
<1> QED BY <1>1, <1>2, <1>3, SharedSame

\* Starting the authority, reopening the gate and the passing of time preserve the
\* invariant.
LEMMA QuietInv ==
    ASSUME Inv, AuthorityStart \/ Repair \/ Tick \/ UNCHANGED vars
    PROVE  Inv'
<1> USE DEF Inv
<1>1. /\ UNCHANGED shared /\ UNCHANGED setup /\ UNCHANGED <<fresh, faults>>
  BY DEF AuthorityStart, Repair, Tick, vars, shared, setup, gate, loop, buffers, outcome
<1>2. /\ up' \in {up, TRUE} /\ reconciled' \in {reconciled, TRUE}
      /\ age' = age \/ (age < Lease /\ age' = age + 1)
      /\ due' = due \/ due' = (worker.stage # "down")
  BY DEF AuthorityStart, Repair, Tick, vars, shared, setup, gate, loop, buffers, outcome
<1>3. Types'
  <2>1. up' \in BOOLEAN /\ reconciled' \in BOOLEAN /\ due' \in BOOLEAN
    BY <1>2, Zenon DEF Types
  <2>2. age' \in 0..Lease
    BY <1>2, RolesAssumption DEF Types
  <2> QED BY <1>1, <2>1, <2>2 DEF Types, shared, setup
<1>4. SetupSound'
  BY <1>1 DEF SetupSound, BindingIsComplete, setup
<1> QED BY <1>1, <1>3, <1>4, SharedSame

----------------------------------------------------------------------------
(* The authority and its control loop.                                     *)

\* A buffer or channel that holds one element at most.
LEMMA AtMostOne ==
    ASSUME NEW S, NEW s \in Seq(S), Len(s) <= 1, s # <<>>
    PROVE  /\ Head(s) \in S /\ s = <<Head(s)>> /\ Len(s) = 1 /\ s[1] = Head(s)
           /\ Tail(s) = <<>>
<1>1. Len(s) \in Nat /\ Len(s) # 0
  OBVIOUS
<1>2. Len(s) = 1
  BY <1>1
<1>3. s[1] \in S /\ s[1] = Head(s)
  BY <1>2
<1>4. s = <<Head(s)>>
  BY <1>2, <1>3
<1>5. Tail(s) = <<>>
  <2>1. Tail(s) \in Seq(S) /\ Len(Tail(s)) = 0
    BY <1>2
  <2> QED BY <2>1
<1> QED BY <1>2, <1>3, <1>4, <1>5

\* AuthorityDies preserves the invariant: what it had written may still be read.
LEMMA AuthorityDiesInv ==
    ASSUME Inv, AuthorityDies
    PROVE  Inv'
<1> USE DEF Inv
<1>1. /\ up' = FALSE /\ reconciled' = FALSE /\ live' = FALSE /\ backlog' = <<>>
      /\ session' = NoSession /\ active' = {} /\ queue' = <<>> /\ executing' = Idle
      /\ toAuthority' = [c \in Conns |-> <<>>] /\ faults < MaxFaults /\ faults' = faults + 1
      /\ UNCHANGED <<age, worker, due, toWorker, fresh, executed, replies, conns>>
      /\ UNCHANGED <<capabilities, bindings, workerConfig, binder>>
  BY DEF AuthorityDies, MayFail, setup, outcome
<1>2. Types'
  <2>1. faults' \in 0..MaxFaults
    BY <1>1, RolesAssumption DEF Types
  <2>2. /\ toAuthority' \in [Conns -> Seq(Frames)]
        /\ \A c \in Conns : Len(toAuthority'[c]) <= 1
    BY <1>1
  <2>3. backlog' \in Seq(Conns) /\ queue' \in Seq(Submission) /\ Len(queue') <= 1
    BY <1>1
  <2> QED BY <1>1, <2>1, <2>2, <2>3 DEF Types
<1>3. SetupSound'
  BY <1>1 DEF SetupSound, BindingIsComplete
<1>4. BacklogSound' /\ FreshConns'
  BY <1>1, Nothing DEF BacklogSound, FreshConns, Waiting, Types
<1>5. ControlSound' /\ SessionSound' /\ InTouch'
  BY <1>1, Nothing DEF ControlSound, Waiting, SessionSound, InTouch
<1>6. WorkerSound'
  <2>1. worker.stage # "down" => worker.conn \in Conns
    BY DEF WorkerSound, Types, WorkerType, Conns
  <2> QED BY <1>1, <2>1 DEF WorkerSound, AnswerTo
<1>7. LiveMeansSession' /\ RepliesMatch'
  BY <1>1 DEF LiveMeansSession, RepliesMatch
<1> QED BY <1>2, <1>3, <1>4, <1>5, <1>6, <1>7

\* next_request preserves the invariant.
LEMMA next_requestInv ==
    ASSUME Inv, next_request
    PROVE  Inv'
<1> USE DEF Inv
<1> DEFINE h == Head(queue)
<1>1. /\ executing = Idle /\ queue # <<>> /\ queue' = Tail(queue)
      /\ executing' = h \/ executing' = executing
      /\ reconciled' = reconciled \/ reconciled' = (reconciled /\ h.req \notin Mutating)
      /\ UNCHANGED <<capabilities, bindings, workerConfig, binder, up, live, age, backlog, session>>
      /\ UNCHANGED <<active, worker, due, toAuthority, toWorker, fresh, executed, replies>>
      /\ UNCHANGED <<conns, faults>>
  BY DEF next_request, setup, buffers, outcome
<1>2. h \in Submission /\ queue = <<h>> /\ Len(queue) = 1 /\ queue[1] = h /\ Tail(queue) = <<>>
  BY <1>1, AtMostOne DEF Types
<1> HIDE DEF h
<1>3. Types'
  <2>1. reconciled' \in BOOLEAN
    BY <1>1, Zenon DEF Types
  <2> QED BY <1>1, <1>2, <2>1 DEF Types
<1>4. SetupSound'
  BY <1>1 DEF SetupSound, BindingIsComplete
<1>5. /\ h.conn <= conns /\ h.conn \notin Waiting
      /\ h.conn = session.conn => session.stage = "wait" /\ h.req = session.req
  BY <1>2 DEF FreshConns, ControlSound
<1>6. BacklogSound' /\ FreshConns'
  BY <1>1, <1>2, <1>5 DEF BacklogSound, FreshConns, Waiting
<1>7. ControlSound'
  BY <1>1, <1>2, <1>5 DEF ControlSound, Waiting
<1>8. SessionSound' /\ InTouch' /\ WorkerSound'
  BY <1>1 DEF SessionSound, InTouch, WorkerSound, AnswerTo
<1>9. LiveMeansSession' /\ RepliesMatch'
  BY <1>1 DEF LiveMeansSession, RepliesMatch
<1> QED BY <1>3, <1>4, <1>6, <1>7, <1>8, <1>9

\* Execute preserves the invariant: the session that waits is told the outcome of its
\* own request.
LEMMA ExecuteInv ==
    ASSUME Inv, NEW repaired \in BOOLEAN, Execute(repaired)
    PROVE  Inv'
<1> USE DEF Inv
<1>1. /\ executing # Idle /\ executing' = Idle /\ executed' = executed \cup {executing.req}
      /\ reconciled' = (reconciled \/ repaired)
      /\ session' = IF AnswersTo(executing)
                    THEN [session EXCEPT !.stage = "reply", !.req = executing.req] ELSE session
      /\ UNCHANGED <<capabilities, bindings, workerConfig, binder, up, live, age, backlog, active>>
      /\ UNCHANGED <<queue, worker, due, toAuthority, toWorker, fresh, replies, conns, faults>>
  BY DEF Execute, setup, buffers
<1>2. /\ executing \in Submission /\ executing.req \in Requests
      /\ executing.conn \in Conns /\ executing.conn # 0
  BY <1>1 DEF Types, Submission, Conns
<1>3. \A i \in 1..Len(queue) : queue[i] \in Submission /\ queue[i].conn # 0
  <2>1. \A i \in 1..Len(queue) : queue[i] \in Submission
    BY DEF Types
  <2> QED BY <2>1 DEF Submission, Conns
<1>4. reconciled' \in BOOLEAN
  BY <1>1, Zenon DEF Types
<1>5. /\ session'.conn = session.conn /\ session'.seq = session.seq
      /\ session' = NoSession <=> session = NoSession
      /\ session' = NoSession \/ session' \in SessionType
      /\ session'.stage = "handshake" <=> session.stage = "handshake"
      /\ \/ session' = session /\ ~AnswersTo(executing)
         \/ /\ session'.stage = "reply" /\ session.stage = "wait" /\ session.conn = executing.conn
            /\ session'.req = executing.req
  <2>1. CASE ~AnswersTo(executing)
    BY <1>1, <2>1, SessionFields, Nothing
  <2>2. CASE AnswersTo(executing)
    <3>1. session.stage = "wait" /\ session.conn = executing.conn
      BY <2>2 DEF AnswersTo
    <3>2. session \in SessionType /\ session # NoSession
      BY <3>1, SessionFields, Nothing
    <3>3. session' \in SessionType
      BY <1>1, <1>2, <2>2, <3>2 DEF SessionType, Bodies
    <3>4. session'.conn = session.conn /\ session'.seq = session.seq
          /\ session'.stage = "reply" /\ session'.req = executing.req
      BY <1>1, <2>2, <3>2 DEF SessionType
    <3> QED BY <3>1, <3>2, <3>3, <3>4, Nothing
  <2> QED BY <2>1, <2>2
<1>6. Types'
  BY <1>1, <1>2, <1>4, <1>5 DEF Types
<1>7. SetupSound'
  BY <1>1 DEF SetupSound, BindingIsComplete
<1>8. BacklogSound'
  BY <1>1, <1>5 DEF BacklogSound, Waiting
<1>9. FreshConns'
  BY <1>1, <1>5, Nothing DEF FreshConns, Types
<1>10. session'.stage = "reply" /\ session' # session => executing.req = session.req
  BY <1>1, <1>2, <1>5, Nothing DEF ControlSound
<1>11. ControlSound'
  <2>1. Waiting' = Waiting
    BY <1>1 DEF Waiting
  <2>2. active' = IF session' = NoSession THEN {} ELSE {session'.conn}
    BY <1>1, <1>5 DEF ControlSound
  <2>3. ASSUME NEW i \in 1..Len(queue), queue[i].conn = session.conn
        PROVE  /\ session'.stage = "wait" /\ queue[i].req = session'.req
               /\ executing'.conn # session'.conn
    <3>1. /\ session.stage = "wait" /\ queue[i].req = session.req
          /\ executing.conn # session.conn
      BY <2>3 DEF ControlSound
    <3>2. session' = session
      BY <3>1, <1>5
    <3> QED BY <3>1, <3>2, <2>3, <1>1, <1>3, Nothing
  <2>4. executing'.conn = 0 /\ 0 \notin Waiting
    <3>1. \A i \in 1..Len(backlog) : backlog[i] # 0
      <4>1. \A i \in 1..Len(backlog) : backlog[i] \in Conns
        BY DEF Types
      <4> QED BY <4>1 DEF Conns
    <3> QED BY <1>1, <3>1, Nothing DEF Waiting
  <2>5. session' # NoSession => session'.conn # 0
    BY <1>5, SessionFields
  <2>6. session'.stage = "reply" => session'.req \in executed'
    BY <1>1, <1>5 DEF ControlSound
  <2> QED BY <1>1, <1>5, <2>1, <2>2, <2>3, <2>4, <2>5, <2>6 DEF ControlSound
<1>12. SessionSound'
  BY <1>1, <1>2, <1>5 DEF SessionSound
<1>13. InTouch'
  BY <1>1, <1>5, <1>10 DEF InTouch
<1>14. WorkerSound'
  BY <1>1 DEF WorkerSound, AnswerTo
<1>15. LiveMeansSession' /\ RepliesMatch'
  BY <1>1, <1>5 DEF LiveMeansSession, RepliesMatch
<1> QED BY <1>6, <1>7, <1>8, <1>9, <1>11, <1>12, <1>13, <1>14, <1>15

----------------------------------------------------------------------------
(* The listener and a session.                                             *)

\* Accept preserves the invariant: the next connection has its first frame waiting.
LEMMA AcceptInv ==
    ASSUME Inv, Accept
    PROVE  Inv'
<1> USE DEF Inv
<1> DEFINE h == Head(backlog)
<1>1. /\ session = NoSession /\ backlog # <<>> /\ backlog' = Tail(backlog)
      /\ session' = [conn |-> h, stage |-> "handshake", seq |-> 0, req |-> None]
      /\ active' = active \cup {h}
      /\ UNCHANGED <<capabilities, bindings, workerConfig, binder, up, reconciled, live, age>>
      /\ UNCHANGED <<queue, executing, worker, due, toAuthority, toWorker, fresh, executed, replies>>
      /\ UNCHANGED <<conns, faults>>
  BY DEF Accept, setup, gate, buffers, outcome
<1>2. /\ backlog \in Seq(Conns) /\ Len(backlog) \in Nat /\ Len(backlog) >= 1
      /\ h = backlog[1] /\ h \in Conns /\ Tail(backlog) \in Seq(Conns)
      /\ Len(Tail(backlog)) = Len(backlog) - 1
      /\ \A i \in 1..(Len(backlog) - 1) : Tail(backlog)[i] = backlog[i + 1]
  BY <1>1 DEF Types
<1>3. h \in Waiting /\ Waiting' \subseteq Waiting /\ h \notin Waiting'
  <2>1. h \in Waiting
    BY <1>2 DEF Waiting
  <2>2. ASSUME NEW c \in Waiting' PROVE c \in Waiting /\ c # h
    <3>1. PICK i \in 1..Len(backlog') : c = backlog'[i]
      BY DEF Waiting
    <3>2. i + 1 \in 1..Len(backlog) /\ c = backlog[i + 1] /\ i + 1 # 1 /\ 1 \in 1..Len(backlog)
      BY <1>1, <1>2, <3>1
    <3> QED BY <1>2, <3>2 DEF Waiting, BacklogSound
  <2> QED BY <2>1, <2>2
<1> HIDE DEF h
<1>4. /\ session' \in SessionType /\ session'.conn = h /\ session'.stage = "handshake"
      /\ session'.seq = 0 /\ session'.req = None /\ session' # NoSession
  <2>1. session' \in SessionType
    BY <1>1, <1>2, Nothing DEF SessionType, Bodies
  <2> QED BY <1>1, <2>1, Nothing
<1>5. Types'
  BY <1>1, <1>2, <1>4 DEF Types
<1>6. SetupSound'
  BY <1>1 DEF SetupSound, BindingIsComplete
<1>7. BacklogSound'
  <2>1. ASSUME NEW i \in 1..Len(backlog'), NEW j \in 1..Len(backlog'), backlog'[i] = backlog'[j]
        PROVE  i = j
    <3>1. /\ i + 1 \in 1..Len(backlog) /\ j + 1 \in 1..Len(backlog)
          /\ backlog'[i] = backlog[i + 1] /\ backlog'[j] = backlog[j + 1]
      BY <1>1, <1>2
    <3>2. i + 1 = j + 1
      BY <2>1, <3>1 DEF BacklogSound
    <3> QED BY <3>2
  <2> QED BY <1>1, <1>3, <1>4, <2>1 DEF BacklogSound
<1>8. FreshConns'
  BY <1>1, <1>3, <1>4 DEF FreshConns, BacklogSound
<1>9. ControlSound'
  BY <1>1, <1>3, <1>4 DEF ControlSound
<1>10. SessionSound'
  BY <1>1, <1>3, <1>4 DEF SessionSound, BacklogSound
<1>11. WorkerSound'
  BY <1>1 DEF WorkerSound, AnswerTo
<1>12. InTouch'
  BY <1>1, <1>3, <1>4 DEF InTouch, BacklogSound, WorkerSound
<1>13. LiveMeansSession' /\ RepliesMatch'
  BY <1>1 DEF LiveMeansSession, RepliesMatch
<1> QED BY <1>5, <1>6, <1>7, <1>8, <1>9, <1>10, <1>11, <1>12, <1>13

\* A session that ends: its request may not start, the lease is gone, and whatever
\* its worker still does is on a connection nobody reads.
LEMMA EndSessionInv ==
    ASSUME Inv, session # NoSession, EndSession, UNCHANGED setup, age' \in 0..Lease,
           UNCHANGED <<up, reconciled, backlog, queue, executing, worker, due, toWorker>>,
           UNCHANGED <<fresh, executed, replies, conns>>, faults' \in 0..MaxFaults,
           toAuthority' \in [Conns -> Seq(Frames)],
           \A c \in Conns : Len(toAuthority'[c]) <= 1,
           \A c \in Conns : toAuthority'[c] = toAuthority[c] \/ (c = session.conn /\ c # worker.conn)
    PROVE  Inv'
<1> USE DEF Inv
<1>1. session' = NoSession /\ live' = FALSE /\ active' = active \ {session.conn}
  BY DEF EndSession
<1>2. active' = {}
  BY <1>1 DEF ControlSound
<1>3. Types'
  BY <1>1 DEF Types, setup
<1>4. SetupSound'
  BY DEF SetupSound, BindingIsComplete, setup
<1>5. Waiting' = Waiting /\ Waiting \subseteq Conns /\ session.conn \notin Waiting /\ 0 \notin Waiting
  <2>1. \A i \in 1..Len(backlog) : backlog[i] \in Conns
    BY DEF Types
  <2>2. Waiting \subseteq Conns
    BY <2>1 DEF Waiting
  <2>3. session.conn \notin Waiting
    BY DEF BacklogSound
  <2>4. 0 \notin Waiting
    BY <2>2, RolesAssumption DEF Conns
  <2>5. Waiting' = Waiting
    BY DEF Waiting
  <2> QED BY <2>2, <2>3, <2>4, <2>5
<1>6. BacklogSound'
  BY <1>1, <1>5, Nothing DEF BacklogSound
<1>7. FreshConns'
  BY <1>1, Nothing DEF FreshConns, Types
<1>8. ControlSound'
  <2>1. \A i \in 1..Len(queue) : queue[i].conn # 0
    <3>1. \A i \in 1..Len(queue) : queue[i] \in Submission
      BY DEF Types
    <3> QED BY <3>1 DEF Submission, Conns
  <2> QED BY <1>1, <1>2, <1>5, <2>1, Nothing DEF ControlSound
<1>9. SessionSound' /\ InTouch'
  BY <1>1 DEF SessionSound, InTouch
<1>10. WorkerSound'
  <2>1. worker.stage # "down" => worker.conn \in Conns /\ toAuthority'[worker.conn] = toAuthority[worker.conn]
    BY DEF WorkerSound, Types, WorkerType, Conns
  <2> QED BY <2>1 DEF WorkerSound, AnswerTo
<1>11. LiveMeansSession' /\ RepliesMatch'
  BY <1>1 DEF LiveMeansSession, RepliesMatch
<1> QED BY <1>3, <1>4, <1>6, <1>7, <1>8, <1>9, <1>10, <1>11

\* SessionEof and SessionDeadline preserve the invariant.
LEMMA SessionEndsInv ==
    ASSUME Inv, SessionEof \/ SessionSilent \/ SessionDeadline
    PROVE  Inv'
<1>1. /\ EndSession /\ UNCHANGED setup /\ session.stage # "none"
      /\ UNCHANGED <<up, reconciled, age, backlog, queue, executing, worker, due, toAuthority, toWorker>>
      /\ UNCHANGED <<fresh, executed, replies, conns>>
      /\ faults' = faults \/ (faults < MaxFaults /\ faults' = faults + 1)
  BY DEF SessionEof, SessionSilent, SessionDeadline, MayFail, Reading, setup, buffers, outcome
<1>2. session # NoSession /\ faults' \in 0..MaxFaults
  BY <1>1, Nothing, RolesAssumption DEF Inv, Types
<1> QED BY <1>1, <1>2, EndSessionInv DEF Inv, Types

\* SessionSubmit preserves the invariant: the control loop has nothing of this session.
LEMMA SessionSubmitInv ==
    ASSUME Inv, SessionSubmit
    PROVE  Inv'
<1> USE DEF Inv
<1> DEFINE q == [conn |-> session.conn, req |-> session.req]
<1>1. /\ session.stage = "send" /\ queue = <<>> /\ queue' = <<q>>
      /\ session' = [session EXCEPT !.stage = "wait"]
      /\ UNCHANGED <<capabilities, bindings, workerConfig, binder, up, reconciled, live, age>>
      /\ UNCHANGED <<backlog, active, executing, worker, due, toAuthority, toWorker>>
      /\ UNCHANGED <<fresh, executed, replies, conns, faults>>
  BY DEF SessionSubmit, setup, gate, buffers, outcome
<1>2. session # NoSession /\ session \in SessionType
  BY <1>1, SessionFields, Nothing
<1>3. /\ session' \in SessionType /\ session'.conn = session.conn /\ session'.seq = session.seq
      /\ session'.stage = "wait" /\ session'.req = session.req /\ session' # NoSession
  <2>1. session' \in SessionType
    BY <1>1, <1>2 DEF SessionType
  <2> QED BY <1>1, <1>2, <2>1, Nothing DEF SessionType
<1>4. session.req \in Requests /\ toAuthority[session.conn] = <<>>
  BY <1>1, <1>2 DEF SessionSound
<1>5. q \in Submission /\ q.conn = session.conn /\ q.req = session.req
  BY <1>2, <1>4 DEF Submission, SessionType
<1> HIDE DEF q
<1>6. /\ queue' \in Seq(Submission) /\ Len(queue') = 1 /\ queue'[1] = q
  BY <1>1, <1>5
<1>7. Types'
  BY <1>1, <1>3, <1>6 DEF Types
<1>8. SetupSound'
  BY <1>1 DEF SetupSound, BindingIsComplete
<1>9. BacklogSound' /\ FreshConns'
  BY <1>1, <1>3, <1>5, <1>6 DEF BacklogSound, FreshConns, Waiting
<1>10. ControlSound'
  <2>1. executing.conn # session.conn
    BY <1>1, <1>2 DEF ControlSound
  <2>2. Waiting' = Waiting /\ session.conn \notin Waiting
    BY <1>1 DEF Waiting, BacklogSound
  <2>3. \A i \in 1..Len(queue') : queue'[i] = q
    BY <1>6
  <2> QED BY <1>1, <1>2, <1>3, <1>5, <2>1, <2>2, <2>3 DEF ControlSound
<1>11. SessionSound'
  BY <1>1, <1>3, <1>4 DEF SessionSound
<1>12. InTouch'
  BY <1>1, <1>2, <1>3 DEF InTouch
<1>13. WorkerSound'
  BY <1>1 DEF WorkerSound, AnswerTo
<1>14. LiveMeansSession' /\ RepliesMatch'
  BY <1>1, <1>3 DEF LiveMeansSession, RepliesMatch
<1> QED BY <1>7, <1>8, <1>9, <1>10, <1>11, <1>12, <1>13, <1>14

\* An answer is sent to a worker that is there and waits for it.
LEMMA AnswerInv ==
    ASSUME Inv, session # NoSession, worker.conn = session.conn,
           worker.stage \in {"hello", "await"}, toWorker[session.conn] = <<>>,
           session.seq = worker.seq,
           session.stage \in {"handshake", "serve", "reply"},
           NEW f \in Frames, AnswerTo(worker, f),
           toWorker' = [toWorker EXCEPT ![session.conn] = Append(@, f)],
           toAuthority' \in [Conns -> Seq(Frames)], toAuthority'[session.conn] = <<>>,
           \A c \in Conns : c # session.conn => toAuthority'[c] = toAuthority[c],
           session' = [session EXCEPT !.stage = "serve", !.seq = Following(@), !.req = None],
           live' = TRUE, age' \in 0..Lease, UNCHANGED setup,
           UNCHANGED <<up, reconciled, backlog, active, queue, executing, worker, due>>,
           UNCHANGED <<fresh, executed, replies, conns, faults>>
    PROVE  Inv'
<1> USE DEF Inv
<1> DEFINE k == session.conn
<1>1. session \in SessionType /\ k \in Conns /\ k # 0
  BY SessionFields
<1>2. /\ session' \in SessionType /\ session'.conn = k /\ session'.stage = "serve"
      /\ session'.seq = Following(worker.seq) /\ session'.req = None /\ session' # NoSession
  <2>1. session.seq \in Seqs
    BY <1>1 DEF SessionType
  <2>2. Following(session.seq) \in Seqs
    BY <2>1, FollowingSeq
  <2>3. session' \in SessionType
    BY <1>1, <2>2 DEF SessionType, Bodies
  <2>4. /\ session'.conn = k /\ session'.stage = "serve" /\ session'.seq = Following(session.seq)
        /\ session'.req = None
    BY <1>1 DEF SessionType
  <2> QED BY <2>3, <2>4, Nothing
<1>3. /\ toWorker' \in [Conns -> Seq(Frames)] /\ toWorker'[k] = <<f>>
      /\ \A c \in Conns : c # k => toWorker'[c] = toWorker[c]
  <2>1. Append(toWorker[k], f) = <<f>>
    OBVIOUS
  <2> QED BY <1>1, <2>1 DEF Types
<1> HIDE DEF k
<1>4. \A c \in Conns : Len(toAuthority'[c]) <= 1 /\ Len(toWorker'[c]) <= 1
  <2>1. Len(<<f>>) = 1 /\ Len(<<>>) = 0
    OBVIOUS
  <2> QED BY <1>3, <2>1 DEF Types, k
<1>5. Types'
  BY <1>2, <1>3, <1>4 DEF Types, setup
<1>6. SetupSound'
  BY DEF SetupSound, BindingIsComplete, setup
<1>7. Waiting' = Waiting /\ Waiting \subseteq Conns /\ k \notin Waiting
  <2>1. \A i \in 1..Len(backlog) : backlog[i] \in Conns
    BY DEF Types
  <2> QED BY <2>1 DEF Waiting, BacklogSound, k
<1>8. BacklogSound'
  <2>1. \A c \in Waiting : toAuthority'[c] = toAuthority[c] /\ toWorker'[c] = toWorker[c]
    BY <1>3, <1>7 DEF k
  <2> QED BY <1>2, <1>7, <2>1 DEF BacklogSound
<1>9. FreshConns'
  BY <1>1, <1>2, <1>3 DEF FreshConns, k, Conns, Types
<1>10. ControlSound'
  <2>1. executing.conn # k /\ \A i \in 1..Len(queue) : queue[i].conn # k
    BY DEF ControlSound, k
  <2> QED BY <1>2, <1>7, <2>1 DEF ControlSound, k
<1>11. SessionSound'
  BY <1>2 DEF SessionSound, k
<1>12. <<f>> # <<>>
  OBVIOUS
<1>13. InTouch'
  BY <1>2, <1>3, <1>12 DEF InTouch, k
<1>14. WorkerSound'
  <2>1. AnswerTo(worker, f)'
    BY DEF AnswerTo
  <2> QED BY <1>1, <1>3, <2>1 DEF WorkerSound, k
<1>15. LiveMeansSession' /\ RepliesMatch'
  BY <1>2 DEF LiveMeansSession, RepliesMatch
<1> QED BY <1>5, <1>6, <1>8, <1>9, <1>10, <1>11, <1>13, <1>14, <1>15

\* SessionReply preserves the invariant.
LEMMA SessionReplyInv ==
    ASSUME Inv, SessionReply
    PROVE  Inv'
<1> USE DEF Inv
<1>1. /\ session.stage = "reply" /\ Send("Response", session.req) /\ UNCHANGED setup
      /\ UNCHANGED <<up, reconciled, age, backlog, queue, executing, worker, due, toAuthority>>
      /\ UNCHANGED <<fresh, executed, replies, conns, faults>>
  BY DEF SessionReply, setup, outcome
<1>2. session # NoSession /\ session \in SessionType /\ session.conn \in Conns
  BY <1>1, SessionFields, Nothing
<1>3. CASE Closed(session.conn)
  <2>1. EndSession /\ UNCHANGED toWorker
    BY <1>1, <1>3 DEF Send
  <2> QED BY <1>1, <1>2, <2>1, EndSessionInv DEF Types
<1>4. CASE ~Closed(session.conn)
  <2> DEFINE f == Frame(session.seq, "Response", session.req)
  <2>1. /\ worker.conn = session.conn /\ live' = TRUE /\ active' = active
        /\ toWorker' = [toWorker EXCEPT ![session.conn] = Append(@, f)]
        /\ session' = [session EXCEPT !.stage = "serve", !.seq = Following(@), !.req = None]
    BY <1>1, <1>4 DEF Send, Closed
  <2>2. /\ worker.stage = "await" /\ toWorker[session.conn] = <<>> /\ session.seq = worker.seq
        /\ session.req = worker.req
    BY <1>1, <1>2, <2>1 DEF InTouch
  <2>3. session.req \in executed /\ session.req \in Requests /\ toAuthority[session.conn] = <<>>
    BY <1>1, <1>2 DEF ControlSound, SessionSound
  <2>4. f \in Frames
    BY <1>2, <2>3 DEF Frame, Frames, SessionType, Seqs
  <2>5. AnswerTo(worker, f)
    BY <2>2, <2>3 DEF AnswerTo
  <2> HIDE DEF f
  <2> QED BY <1>1, <1>2, <2>1, <2>2, <2>3, <2>4, <2>5, AnswerInv DEF Types
<1> QED BY <1>3, <1>4

\* SessionRead preserves the invariant: no frame is out of sequence, a request is
\* taken up and anything else answered.
LEMMA SessionReadInv ==
    ASSUME Inv, SessionRead
    PROVE  Inv'
<1> USE DEF Inv
<1> DEFINE k == session.conn
           f == Head(toAuthority[k])
           answer == Frame(session.seq, "Heartbeat", None)
<1>1. /\ session.stage \in {"handshake", "serve"} /\ toAuthority[k] # <<>>
      /\ UNCHANGED setup /\ UNCHANGED <<up, reconciled, backlog, queue, executing, worker, due>>
      /\ UNCHANGED <<fresh, executed, replies, conns, faults>>
  BY DEF SessionRead, Readable, Reading, setup, outcome
<1>2. session # NoSession /\ session \in SessionType /\ k \in Conns /\ k # 0
  BY <1>1, SessionFields, Nothing
<1>3. /\ f \in Frames /\ toAuthority[k] = <<f>> /\ Tail(toAuthority[k]) = <<>>
  <2>1. toAuthority[k] \in Seq(Frames) /\ Len(toAuthority[k]) <= 1
    BY <1>2 DEF Types
  <2> HIDE DEF k
  <2> QED BY <1>1, <2>1, AtMostOne DEF f
<1>4. \/ session.stage = "handshake" /\ f = Hello /\ session.seq = 0
      \/ /\ session.stage = "serve"
         /\ \E r \in Bodies : f = Frame(session.seq, IF r = None THEN "Heartbeat" ELSE "Request", r)
  BY <1>1, <1>2, <1>3 DEF SessionSound
<1>5. /\ f.seq = session.seq /\ (session.stage = "handshake") = (f.op = "Ready")
      /\ f.op = "Request" => session.stage = "serve" /\ f.body \in Requests
  <2>1. CASE session.stage = "handshake" /\ f = Hello /\ session.seq = 0
    <3> HIDE DEF f
    <3> QED BY <2>1 DEF Hello, Frame
  <2>2. CASE /\ session.stage = "serve"
             /\ \E r \in Bodies : f = Frame(session.seq, IF r = None THEN "Heartbeat" ELSE "Request", r)
    <3>1. PICK r \in Bodies : f = Frame(session.seq, IF r = None THEN "Heartbeat" ELSE "Request", r)
      BY <2>2
    <3>2. f.seq = session.seq /\ f.body = r /\ f.op = IF r = None THEN "Heartbeat" ELSE "Request"
      <4> HIDE DEF f
      <4> QED BY <3>1 DEF Frame
    <3> HIDE DEF f
    <3> QED BY <2>2, <3>2 DEF Bodies
  <2> QED BY <1>4, <2>1, <2>2
<1>6. /\ age' = 0 /\ toAuthority' = [toAuthority EXCEPT ![k] = <<>>]
      /\ IF f.op = "Request"
         THEN /\ session' = [session EXCEPT !.stage = "send", !.req = f.body]
              /\ UNCHANGED <<toWorker, active, live>>
         ELSE Send("Heartbeat", None)
  BY <1>3, <1>5 DEF SessionRead
<1>7. /\ toAuthority' \in [Conns -> Seq(Frames)] /\ toAuthority'[k] = <<>>
      /\ \A c \in Conns : c # k => toAuthority'[c] = toAuthority[c]
      /\ \A c \in Conns : Len(toAuthority'[c]) <= 1
      /\ age' \in 0..Lease
  BY <1>2, <1>6, RolesAssumption DEF Types
<1>8. worker.conn = k =>
        /\ toWorker[k] = <<>> /\ session.seq = worker.seq
        /\ \/ worker.stage = "hello" /\ f.op # "Request" /\ worker.req = None
           \/ /\ worker.stage = "await" /\ f = Frame(worker.seq,
                      IF worker.req = None THEN "Heartbeat" ELSE "Request", worker.req)
  <2>1. SUFFICES ASSUME worker.conn = k
                 PROVE  /\ toWorker[k] = <<>> /\ session.seq = worker.seq
                        /\ \/ worker.stage = "hello" /\ f.op # "Request" /\ worker.req = None
                           \/ /\ worker.stage = "await" /\ f = Frame(worker.seq,
                                     IF worker.req = None THEN "Heartbeat" ELSE "Request", worker.req)
    OBVIOUS
  <2>2. worker.stage # "idle"
    BY <1>1, <1>2, <2>1 DEF WorkerSound
  <2>3. worker.stage = "hello" => worker.req = None
    BY DEF WorkerSound
  <2>4. session.stage = "handshake" => f.op # "Request"
    BY <1>5
  <2> QED BY <1>1, <1>2, <1>3, <2>1, <2>2, <2>3, <2>4 DEF InTouch
<1>9. CASE f.op = "Request"
  <2>1. session' = [session EXCEPT !.stage = "send", !.req = f.body] /\ UNCHANGED <<toWorker, active, live>>
    BY <1>6, <1>9
  <2>2. f.body \in Requests /\ session.stage = "serve"
    BY <1>5, <1>9
  <2>3. /\ session' \in SessionType /\ session'.conn = k /\ session'.seq = session.seq
        /\ session'.stage = "send" /\ session'.req = f.body /\ session' # NoSession
    <3>1. session' \in SessionType
      BY <1>2, <2>1, <2>2 DEF SessionType, Bodies
    <3> QED BY <1>2, <2>1, <3>1, Nothing DEF SessionType
  <2> HIDE DEF f
  <2>4. Types'
    BY <1>1, <1>7, <2>1, <2>3 DEF Types, setup
  <2>5. SetupSound'
    BY <1>1 DEF SetupSound, BindingIsComplete, setup
  <2>6. Waiting' = Waiting /\ Waiting \subseteq Conns /\ k \notin Waiting
    <3>1. \A i \in 1..Len(backlog) : backlog[i] \in Conns
      BY DEF Types
    <3> QED BY <1>1, <3>1 DEF Waiting, BacklogSound
  <2>7. BacklogSound'
    BY <1>1, <1>7, <2>1, <2>3, <2>6 DEF BacklogSound
  <2>8. FreshConns'
    BY <1>1, <2>1, <2>3 DEF FreshConns
  <2>9. ControlSound'
    BY <1>1, <1>2, <2>1, <2>2, <2>3, <2>6 DEF ControlSound
  <2>10. SessionSound'
    BY <1>7, <2>2, <2>3 DEF SessionSound
  <2>11. InTouch'
    <3>1. worker.conn = k => worker.stage = "await" /\ worker.req = f.body
      BY <1>8, <1>9 DEF Frame
    <3> QED BY <1>1, <1>8, <2>1, <2>3, <3>1 DEF InTouch
  <2>12. WorkerSound'
    <3>1. worker.stage # "down" => worker.conn \in Conns
      BY DEF WorkerSound, Types, WorkerType, Conns
    <3> QED BY <1>1, <1>7, <1>8, <2>1, <3>1 DEF WorkerSound, AnswerTo
  <2>13. LiveMeansSession' /\ RepliesMatch'
    BY <1>1, <2>1, <2>3 DEF LiveMeansSession, RepliesMatch
  <2> QED BY <2>4, <2>5, <2>7, <2>8, <2>9, <2>10, <2>11, <2>12, <2>13
<1>10. CASE f.op # "Request" /\ Closed(k)
  <2>1. EndSession /\ UNCHANGED toWorker /\ worker.conn # k
    BY <1>6, <1>10 DEF Send, Closed
  <2>2. faults' \in 0..MaxFaults
    BY <1>1 DEF Types
  <2> HIDE DEF f
  <2> QED BY <1>1, <1>2, <1>7, <2>1, <2>2, EndSessionInv
<1>11. CASE f.op # "Request" /\ ~Closed(k)
  <2>1. /\ worker.conn = k /\ live' = TRUE /\ active' = active
        /\ toWorker' = [toWorker EXCEPT ![k] = Append(@, answer)]
        /\ session' = [session EXCEPT !.stage = "serve", !.seq = Following(@), !.req = None]
    BY <1>6, <1>11 DEF Send, Closed
  <2>2. worker.req = None /\ worker.stage \in {"hello", "await"}
    BY <1>8, <1>11, <2>1 DEF Frame
  <2>3. answer \in Frames
    BY <1>2 DEF Frame, Frames, SessionType, Seqs
  <2>4. AnswerTo(worker, answer)
    BY <1>8, <2>1, <2>2 DEF AnswerTo
  <2> HIDE DEF f, answer
  <2> QED BY <1>1, <1>2, <1>7, <1>8, <2>1, <2>2, <2>3, <2>4, AnswerInv
<1> QED BY <1>9, <1>10, <1>11

----------------------------------------------------------------------------
(* The worker.                                                             *)

\* A worker that stops leaves what it sent, and takes nothing more in.
LEMMA WorkerStopsInv ==
    ASSUME Inv, WorkerStops, UNCHANGED setup, faults' \in 0..MaxFaults,
           UNCHANGED <<up, reconciled, live, age, backlog, session, active, queue, executing>>,
           UNCHANGED <<toAuthority, fresh, executed, replies, conns>>
    PROVE  Inv'
<1> USE DEF Inv
<1> DEFINE k == worker.conn
<1>1. /\ worker' = Down /\ due' = FALSE
      /\ toWorker' = IF k = 0 THEN toWorker ELSE [toWorker EXCEPT ![k] = <<>>]
  BY DEF WorkerStops
<1>2. /\ toWorker' \in [Conns -> Seq(Frames)]
      /\ \A c \in Conns : toWorker'[c] = toWorker[c] \/ toWorker'[c] = <<>>
      /\ \A c \in Conns : Len(toWorker'[c]) <= 1
  <2>1. CASE k = 0
    BY <1>1, <2>1 DEF Types
  <2>2. CASE k # 0
    <3>1. toWorker' = [toWorker EXCEPT ![k] = <<>>] /\ toWorker \in [Conns -> Seq(Frames)]
      BY <1>1, <2>2 DEF Types
    <3>2. \A c \in Conns : toWorker'[c] = toWorker[c] \/ toWorker'[c] = <<>>
      BY <3>1
    <3>3. toWorker' \in [Conns -> Seq(Frames)]
      <4>1. <<>> \in Seq(Frames)
        OBVIOUS
      <4> HIDE DEF k
      <4> QED BY <3>1, <4>1
    <3>4. ASSUME NEW c \in Conns PROVE Len(toWorker'[c]) <= 1
      <4>1. Len(toWorker[c]) <= 1
        BY DEF Types
      <4>2. CASE toWorker'[c] = toWorker[c]
        BY <4>1, <4>2
      <4>3. CASE toWorker'[c] = <<>>
        BY <4>3
      <4> QED BY <3>2, <4>2, <4>3
    <3> QED BY <3>2, <3>3, <3>4
  <2> QED BY <2>1, <2>2
<1>3. Types'
  BY <1>1, <1>2, Nothing DEF Types, setup
<1>4. SetupSound'
  BY DEF SetupSound, BindingIsComplete, setup
<1>5. Waiting' = Waiting /\ Waiting \subseteq Conns /\ 0 \notin Waiting
  <2>1. \A i \in 1..Len(backlog) : backlog[i] \in Conns
    BY DEF Types
  <2> QED BY <2>1 DEF Waiting, Conns
<1>6. BacklogSound'
  BY <1>1, <1>2, <1>5, Nothing DEF BacklogSound
<1>7. FreshConns'
  BY <1>1, <1>2, Nothing DEF FreshConns, Types
<1>8. ControlSound' /\ SessionSound'
  BY <1>5 DEF ControlSound, SessionSound
<1>9. InTouch'
  BY <1>1, Nothing, SessionFields DEF InTouch
<1>10. WorkerSound'
  BY <1>1, Nothing DEF WorkerSound
<1>11. LiveMeansSession' /\ RepliesMatch'
  BY DEF LiveMeansSession, RepliesMatch
<1> QED BY <1>3, <1>4, <1>6, <1>7, <1>8, <1>9, <1>10, <1>11

\* WorkerEof and WorkerDies preserve the invariant.
LEMMA WorkerEndsInv ==
    ASSUME Inv, WorkerEof \/ WorkerDies
    PROVE  Inv'
<1>1. /\ WorkerStops /\ UNCHANGED setup
      /\ faults' = faults \/ (faults < MaxFaults /\ faults' = faults + 1)
      /\ UNCHANGED <<up, reconciled, live, age, backlog, session, active, queue, executing>>
      /\ UNCHANGED <<toAuthority, fresh, executed, replies, conns>>
  BY DEF WorkerEof, WorkerDies, MayFail, setup, gate, loop, outcome
<1>2. faults' \in 0..MaxFaults
  BY <1>1, RolesAssumption DEF Inv, Types
<1> QED BY <1>1, <1>2, WorkerStopsInv

\* WorkerStart preserves the invariant: the connection is new.
LEMMA WorkerStartInv ==
    ASSUME Inv, WorkerStart
    PROVE  Inv'
<1> USE DEF Inv
<1> DEFINE k == conns + 1
<1>1. /\ conns < MaxConns /\ conns' = k
      /\ worker' = [stage |-> "hello", conn |-> k, seq |-> 0, req |-> None]
      /\ backlog' = Append(backlog, k) /\ due' = FALSE
      /\ toAuthority' = [toAuthority EXCEPT ![k] = <<Hello>>]
      /\ UNCHANGED <<up, reconciled, live, age, session, active, queue, executing, toWorker>>
      /\ UNCHANGED <<fresh, executed, replies, faults>> /\ UNCHANGED setup
  BY DEF WorkerStart, Hello, setup, gate, loop, outcome
<1>2. k \in Conns /\ k \in 0..MaxConns /\ conns \in Nat /\ k # 0 /\ k > conns
  BY <1>1, RolesAssumption DEF Types, Conns
<1>3. /\ worker' \in WorkerType /\ worker'.stage = "hello" /\ worker'.conn = k
      /\ worker'.seq = 0 /\ worker'.req = None
  BY <1>1, <1>2, Nothing DEF WorkerType, Bodies
<1>4. /\ backlog' \in Seq(Conns) /\ Len(backlog') = Len(backlog) + 1 /\ Len(backlog) \in Nat
      /\ backlog'[Len(backlog) + 1] = k
      /\ \A i \in 1..Len(backlog) : backlog'[i] = backlog[i]
  BY <1>1, <1>2 DEF Types
<1>5. /\ toAuthority' \in [Conns -> Seq(Frames)] /\ toAuthority'[k] = <<Hello>>
      /\ \A c \in Conns : c # k => toAuthority'[c] = toAuthority[c]
  BY <1>1, <1>2, Nothing DEF Types
<1>6. \A c \in Conns : Len(toAuthority'[c]) <= 1
  <2>1. Len(<<Hello>>) = 1
    OBVIOUS
  <2> HIDE DEF k
  <2>2. SUFFICES ASSUME NEW c \in Conns PROVE Len(toAuthority'[c]) <= 1
    OBVIOUS
  <2>3. CASE c = k
    <3>1. toAuthority'[c] = <<Hello>>
      BY <1>5, <2>3
    <3>2. Len(toAuthority'[c]) = Len(<<Hello>>)
      BY <3>1
    <3> QED BY <2>1, <3>2
  <2>4. CASE c # k
    BY <1>5, <2>4 DEF Types
  <2> QED BY <2>3, <2>4
<1> HIDE DEF k
<1>7. Types'
  BY <1>1, <1>2, <1>3, <1>4, <1>5, <1>6 DEF Types, setup
<1>8. SetupSound'
  BY <1>1 DEF SetupSound, BindingIsComplete, setup
<1>9. /\ Waiting' = Waiting \cup {k} /\ Waiting \subseteq Conns
      /\ \A c \in Waiting : c <= conns /\ c # k
  <2>1. \A i \in 1..Len(backlog) : backlog[i] \in Conns
    BY DEF Types
  <2>2. Waiting \subseteq Conns
    BY <2>1 DEF Waiting
  <2>3. \A c \in Waiting : c <= conns /\ c # k
    BY <1>2, <2>2 DEF BacklogSound, Conns
  <2>4. ASSUME NEW c \in Waiting' PROVE c \in Waiting \cup {k}
    <3>1. PICK i \in 1..Len(backlog') : c = backlog'[i]
      BY DEF Waiting
    <3>2. i \in 1..Len(backlog) \/ i = Len(backlog) + 1
      BY <1>4
    <3> QED BY <1>4, <3>1, <3>2 DEF Waiting
  <2>5. ASSUME NEW c \in Waiting \cup {k} PROVE c \in Waiting'
    <3>1. CASE c = k
      <4>1. Len(backlog) + 1 \in 1..Len(backlog')
        BY <1>4
      <4> QED BY <3>1, <4>1, <1>4 DEF Waiting
    <3>2. CASE c \in Waiting
      <4>1. PICK i \in 1..Len(backlog) : c = backlog[i]
        BY <3>2 DEF Waiting
      <4>2. i \in 1..Len(backlog') /\ backlog'[i] = c
        BY <1>4, <4>1
      <4> QED BY <4>2 DEF Waiting
    <3> QED BY <3>1, <3>2, <2>5
  <2> QED BY <2>2, <2>3, <2>4, <2>5
<1>10. session.conn # k /\ executing.conn # k /\ \A i \in 1..Len(queue) : queue[i].conn # k
  <2>1. session.conn \in Nat /\ executing.conn \in Nat
    <3>1. session.conn \in Nat
      BY SessionFields DEF Conns
    <3>2. executing.conn \in Nat
      BY Nothing DEF Types, Submission, Conns
    <3> QED BY <3>1, <3>2
  <2>2. \A i \in 1..Len(queue) : queue[i].conn \in Nat
    <3>1. \A i \in 1..Len(queue) : queue[i] \in Submission
      BY DEF Types
    <3> QED BY <3>1 DEF Submission, Conns
  <2> QED BY <1>2, <2>1, <2>2 DEF FreshConns
<1>11. BacklogSound'
  <2>1. ASSUME NEW i \in 1..Len(backlog'), NEW j \in 1..Len(backlog'), backlog'[i] = backlog'[j]
        PROVE  i = j
    <3>1. i \in 1..Len(backlog) \/ i = Len(backlog) + 1
      BY <1>4
    <3>2. j \in 1..Len(backlog) \/ j = Len(backlog) + 1
      BY <1>4
    <3>3. \A n \in 1..Len(backlog) : backlog[n] # k
      BY <1>9 DEF Waiting
    <3> QED BY <1>4, <2>1, <3>1, <3>2, <3>3 DEF BacklogSound
  <2>2. ASSUME NEW c \in Waiting PROVE toAuthority'[c] = toAuthority[c] /\ c # k /\ c <= k
    <3>1. c \in Conns /\ c # k /\ c <= conns
      BY <1>9
    <3>2. toAuthority'[c] = toAuthority[c]
      BY <1>5, <3>1
    <3> QED BY <1>2, <3>1, <3>2 DEF Conns
  <2>3. toWorker[k] = <<>>
    BY <1>2 DEF FreshConns
  <2> QED BY <1>1, <1>2, <1>3, <1>5, <1>9, <1>10, <2>1, <2>2, <2>3 DEF BacklogSound, Conns
<1>12. FreshConns'
  <2>1. session.conn <= k /\ executing.conn <= k /\ \A i \in 1..Len(queue) : queue[i].conn <= k
    <3>1. session.conn \in Nat
      BY SessionFields DEF Conns
    <3>2. executing.conn \in Nat
      BY Nothing DEF Types, Submission, Conns
    <3>3. \A i \in 1..Len(queue) : queue[i] \in Submission
      BY DEF Types
    <3> QED BY <1>2, <3>1, <3>2, <3>3 DEF FreshConns, Submission, Conns
  <2>2. \A c \in Conns : c > k => c > conns
    BY <1>2 DEF Conns
  <2> QED BY <1>1, <1>2, <1>3, <2>1, <2>2 DEF FreshConns, Conns
<1>13. ControlSound'
  BY <1>1, <1>9, <1>10 DEF ControlSound
<1>14. SessionSound'
  <2>1. session # NoSession => toAuthority'[session.conn] = toAuthority[session.conn]
    BY <1>5, <1>10, SessionFields
  <2> QED BY <1>1, <2>1 DEF SessionSound
<1>15. InTouch'
  BY <1>1, <1>3, <1>10 DEF InTouch
<1>16. WorkerSound'
  <2>1. toWorker[k] = <<>>
    BY <1>2 DEF FreshConns
  <2> QED BY <1>1, <1>2, <1>3, <2>1 DEF WorkerSound
<1>17. LiveMeansSession' /\ RepliesMatch'
  BY <1>1 DEF LiveMeansSession, RepliesMatch
<1> QED BY <1>7, <1>8, <1>11, <1>12, <1>13, <1>14, <1>15, <1>16, <1>17

\* A frame from an idle worker: the session, if there is one, reads it next.
LEMMA WorkerSendInv ==
    ASSUME Inv, NEW r \in Bodies, due' \in BOOLEAN, fresh' \subseteq Requests,
           WorkerSend(IF r = None THEN "Heartbeat" ELSE "Request", r)
    PROVE  Inv'
<1> USE DEF Inv
<1> DEFINE k == worker.conn
           f == Frame(worker.seq, IF r = None THEN "Heartbeat" ELSE "Request", r)
<1>1. /\ worker.stage = "idle" /\ toAuthority' = [toAuthority EXCEPT ![k] = Append(@, f)]
      /\ worker' = [worker EXCEPT !.stage = "await", !.req = r] /\ UNCHANGED setup
      /\ UNCHANGED <<up, reconciled, live, age, backlog, session, active, queue, executing>>
      /\ UNCHANGED <<toWorker, executed, replies, conns, faults>>
  BY DEF WorkerSend, setup, gate, loop
<1>2. worker \in WorkerType /\ k \in Conns /\ toAuthority[k] = <<>> /\ toWorker[k] = <<>>
  BY <1>1 DEF WorkerSound, Types, WorkerType, Conns
<1>3. /\ worker' \in WorkerType /\ worker'.conn = k /\ worker'.stage = "await"
      /\ worker'.seq = worker.seq /\ worker'.req = r
  BY <1>1, <1>2 DEF WorkerType
<1>4. f \in Frames
  BY <1>2 DEF Frame, Frames, WorkerType, Seqs, Bodies
<1>5. /\ toAuthority' \in [Conns -> Seq(Frames)] /\ toAuthority'[k] = <<f>>
      /\ \A c \in Conns : c # k => toAuthority'[c] = toAuthority[c]
  <2> HIDE DEF f, k
  <2>1. Append(<<>>, f) = <<f>> /\ <<f>> \in Seq(Frames)
    BY <1>4
  <2> QED BY <1>1, <1>2, <2>1 DEF Types
<1>6. ASSUME NEW c \in Conns PROVE Len(toAuthority'[c]) <= 1
  <2> HIDE DEF f, k
  <2>1. CASE c = k
    <3>1. Len(toAuthority'[c]) = Len(<<f>>)
      BY <1>5, <2>1
    <3> QED BY <3>1
  <2>2. CASE c # k
    BY <1>5, <2>2 DEF Types
  <2> QED BY <2>1, <2>2
<1>7. Types'
  <2> HIDE DEF f, k
  <2> QED BY <1>1, <1>3, <1>5, <1>6 DEF Types, setup
<1>8. SetupSound'
  BY <1>1 DEF SetupSound, BindingIsComplete, setup
<1>9. Waiting' = Waiting /\ Waiting \subseteq Conns /\ k \notin Waiting
  <2>1. \A i \in 1..Len(backlog) : backlog[i] \in Conns
    BY DEF Types
  <2>2. k \notin Waiting
    BY <1>1 DEF BacklogSound
  <2> QED BY <1>1, <2>1, <2>2 DEF Waiting
<1>10. BacklogSound'
  <2> HIDE DEF f, k
  <2> QED BY <1>1, <1>3, <1>5, <1>9 DEF BacklogSound
<1>11. FreshConns'
  BY <1>1, <1>3 DEF FreshConns
<1>12. ControlSound'
  BY <1>1, <1>9 DEF ControlSound
<1>13. session # NoSession /\ session.conn = k => session.stage = "serve" /\ session.seq = worker.seq
  BY <1>1 DEF InTouch
<1>14. SessionSound'
  <2>1. SUFFICES ASSUME session # NoSession PROVE SessionSound'
    BY <1>1 DEF SessionSound
  <2>2. CASE session.conn = k
    <3>1. session.stage = "serve" /\ toAuthority'[session.conn] = <<Frame(session.seq,
                                     IF r = None THEN "Heartbeat" ELSE "Request", r)>>
      BY <1>5, <1>13, <2>1, <2>2
    <3> QED BY <1>1, <3>1 DEF SessionSound
  <2>3. CASE session.conn # k
    <3>1. toAuthority'[session.conn] = toAuthority[session.conn]
      BY <1>5, <2>1, <2>3, SessionFields
    <3> QED BY <1>1, <3>1 DEF SessionSound
  <2> QED BY <2>2, <2>3
<1>15. InTouch'
  <2>1. SUFFICES ASSUME session # NoSession, session.conn = k PROVE InTouch'
    BY <1>1, <1>3 DEF InTouch
  <2>2. /\ toAuthority'[session.conn] = <<Frame(worker'.seq,
                  IF worker'.req = None THEN "Heartbeat" ELSE "Request", worker'.req)>>
        /\ worker'.stage = "await" /\ session'.stage = "serve" /\ session'.seq = worker'.seq
        /\ toWorker'[session.conn] = <<>> /\ session' = session
    BY <1>1, <1>2, <1>3, <1>5, <1>13, <2>1
  <2> QED BY <2>2 DEF InTouch
<1>16. WorkerSound'
  <2>1. worker.conn # 0
    BY <1>2 DEF Conns
  <2> QED BY <1>1, <1>2, <1>3, <2>1 DEF WorkerSound
<1>17. LiveMeansSession' /\ RepliesMatch'
  BY <1>1 DEF LiveMeansSession, RepliesMatch
<1> QED BY <1>7, <1>8, <1>10, <1>11, <1>12, <1>14, <1>15, <1>16, <1>17

\* WorkerHeartbeat and WorkerForward preserve the invariant.
LEMMA WorkerSendsInv ==
    ASSUME Inv, WorkerHeartbeat \/ \E r \in Requests : WorkerForward(r)
    PROVE  Inv'
<1>1. CASE WorkerHeartbeat
  <2>1. WorkerSend("Heartbeat", None) /\ due' = FALSE /\ fresh' = fresh
    BY <1>1 DEF WorkerHeartbeat
  <2> QED BY <2>1, WorkerSendInv DEF Bodies, Inv, Types
<1>2. ASSUME NEW r \in Requests, WorkerForward(r) PROVE Inv'
  <2>1. WorkerSend("Request", r) /\ due' = due /\ fresh' = fresh \ {r}
    BY <1>2 DEF WorkerForward
  <2>2. r # None /\ r \in Bodies
    BY Nothing DEF Bodies
  <2>3. due' \in BOOLEAN /\ fresh' \subseteq Requests
    BY <2>1 DEF Inv, Types
  <2> QED BY <2>1, <2>2, <2>3, WorkerSendInv
<1> QED BY <1>1, <1>2

\* WorkerRead preserves the invariant: the answer is the one it waits for, and it is
\* to its request.
LEMMA WorkerReadInv ==
    ASSUME Inv, WorkerRead
    PROVE  Inv'
<1> USE DEF Inv
<1> DEFINE k == worker.conn
           f == Head(toWorker[k])
<1>1. /\ worker.stage \in {"hello", "await"} /\ toWorker[k] # <<>> /\ UNCHANGED setup
      /\ UNCHANGED <<up, reconciled, live, age, backlog, session, active, queue, executing>>
      /\ UNCHANGED <<toAuthority, fresh, executed, conns, faults>>
  BY DEF WorkerRead, Received, Waits, setup, gate, loop
<1>2. worker \in WorkerType /\ k \in Conns /\ k # 0
  BY <1>1 DEF WorkerSound, Types, WorkerType, Conns
<1>3. f \in Frames /\ AnswerTo(worker, f) /\ toWorker[k] = <<f>> /\ Tail(toWorker[k]) = <<>>
  <2>1. PICK g \in Frames : AnswerTo(worker, g) /\ toWorker[k] = <<g>>
    BY <1>1, <1>2 DEF WorkerSound
  <2>2. toWorker[k] \in Seq(Frames) /\ Len(toWorker[k]) <= 1
    BY <1>2 DEF Types
  <2> HIDE DEF k
  <2>3. Head(<<g>>) = g /\ Tail(<<g>>) = <<>>
    OBVIOUS
  <2> QED BY <2>1, <2>3
<1>4. /\ f.seq = worker.seq /\ f.op = IF worker.req = None THEN "Heartbeat" ELSE "Response"
      /\ worker.req # None => worker.req \in executed /\ f.body = worker.req
      /\ worker.req # None => worker.req \in Requests
  <2>1. executed \subseteq Requests
    BY DEF Types
  <2> HIDE DEF f
  <2> QED BY <1>3, <2>1, Nothing DEF AnswerTo, Frame
<1>5. /\ replies' = IF worker.req = None THEN replies ELSE replies \cup {<<worker.req, worker.req>>}
      /\ toWorker' = [toWorker EXCEPT ![k] = <<>>]
      /\ worker' = [worker EXCEPT !.stage = "idle", !.seq = Following(@), !.req = None]
      /\ due' = due
  BY <1>3, <1>4 DEF WorkerRead
<1> HIDE DEF f
<1>6. /\ worker' \in WorkerType /\ worker'.conn = k /\ worker'.stage = "idle"
      /\ worker'.seq = Following(worker.seq) /\ worker'.req = None
  <2>1. worker.seq \in Seqs
    BY <1>2 DEF WorkerType
  <2>2. Following(worker.seq) \in Seqs
    BY <2>1, FollowingSeq
  <2> QED BY <1>2, <1>5, <2>2 DEF WorkerType, Bodies
<1>7. /\ toWorker' \in [Conns -> Seq(Frames)] /\ toWorker'[k] = <<>>
      /\ \A c \in Conns : c # k => toWorker'[c] = toWorker[c]
      /\ \A c \in Conns : Len(toWorker'[c]) <= 1
  BY <1>2, <1>5 DEF Types
<1>8. Types'
  <2>1. replies' \subseteq Requests \X Requests
    BY <1>4, <1>5 DEF Types
  <2> HIDE DEF k
  <2> QED BY <1>1, <1>5, <1>6, <1>7, <2>1 DEF Types, setup
<1>9. SetupSound'
  BY <1>1 DEF SetupSound, BindingIsComplete, setup
<1>10. Waiting' = Waiting /\ Waiting \subseteq Conns /\ k \notin Waiting
  <2>1. \A i \in 1..Len(backlog) : backlog[i] \in Conns
    BY DEF Types
  <2>2. k \notin Waiting
    BY <1>1 DEF BacklogSound
  <2> QED BY <1>1, <2>1, <2>2 DEF Waiting
<1>11. BacklogSound'
  <2> HIDE DEF k
  <2> QED BY <1>1, <1>6, <1>7, <1>10 DEF BacklogSound
<1>12. FreshConns'
  <2>1. \A c \in Conns : toWorker[c] = <<>> => toWorker'[c] = <<>>
    BY <1>7
  <2> QED BY <1>1, <1>6, <2>1 DEF FreshConns
<1>13. ControlSound' /\ SessionSound'
  BY <1>1, <1>10 DEF ControlSound, SessionSound
<1>14. InTouch'
  <2>1. SUFFICES ASSUME session # NoSession, session.conn = k PROVE InTouch'
    BY <1>1, <1>6 DEF InTouch
  <2>2. session.stage = "serve" /\ session.seq = Following(worker.seq)
    BY <1>1, <2>1 DEF InTouch
  <2> QED BY <1>1, <1>6, <2>1, <2>2 DEF InTouch
<1>15. WorkerSound'
  <2>1. toAuthority[k] = <<>>
    BY <1>1 DEF WorkerSound
  <2> QED BY <1>1, <1>2, <1>6, <1>7, <2>1 DEF WorkerSound
<1>16. LiveMeansSession' /\ RepliesMatch'
  BY <1>1, <1>4, <1>5 DEF LiveMeansSession, RepliesMatch
<1> QED BY <1>8, <1>9, <1>11, <1>12, <1>13, <1>14, <1>15, <1>16

----------------------------------------------------------------------------
(* The theorems.                                                           *)

\* The invariant holds before anything is configured.
LEMMA InitInv == Init => Inv
<1> SUFFICES ASSUME Init PROVE Inv
  OBVIOUS
<1>1. Types
  <2>1. age \in 0..Lease /\ conns \in 0..MaxConns /\ faults \in 0..MaxFaults
    BY RolesAssumption DEF Init
  <2>2. /\ toAuthority \in [Conns -> Seq(Frames)] /\ toWorker \in [Conns -> Seq(Frames)]
        /\ \A c \in Conns : Len(toAuthority[c]) <= 1 /\ Len(toWorker[c]) <= 1
    BY DEF Init
  <2>3. backlog \in Seq(Conns) /\ queue \in Seq(Submission) /\ Len(queue) <= 1
    BY DEF Init
  <2> QED BY <2>1, <2>2, <2>3, Nothing DEF Init, Types
<1>2. SetupSound /\ BacklogSound
  BY Nothing DEF Init, SetupSound, BindingIsComplete, BacklogSound, Waiting
<1>3. FreshConns /\ ControlSound
  BY Nothing DEF Init, FreshConns, ControlSound, Waiting
<1>4. SessionSound /\ WorkerSound /\ InTouch
  BY Nothing DEF Init, SessionSound, WorkerSound, InTouch
<1>5. LiveMeansSession /\ RepliesMatch
  BY DEF Init, LiveMeansSession, RepliesMatch
<1> QED BY <1>1, <1>2, <1>3, <1>4, <1>5 DEF Inv

\* Every step of either process preserves the invariant.
LEMMA NextInv == Inv /\ [Next]_vars => Inv'
<1> SUFFICES ASSUME Inv, [Next]_vars PROVE Inv'
  OBVIOUS
<1>1. CASE Setup
  BY <1>1, SetupInv
<1>2. CASE Authority
  BY <1>2, QuietInv, TrailInv, AuthorityDiesInv, next_requestInv, ExecuteInv DEF Authority
<1>3. CASE Serve
  BY <1>3, AcceptInv, SessionReadInv, SessionSubmitInv, SessionReplyInv, SessionEndsInv DEF Serve
<1>4. CASE Worker
  BY <1>4, WorkerStartInv, WorkerSendsInv, WorkerReadInv, WorkerEndsInv DEF Worker
<1>5. CASE Tick \/ UNCHANGED vars
  BY <1>5, QuietInv
<1> QED BY <1>1, <1>2, <1>3, <1>4, <1>5 DEF Next

\* The invariant holds of every state either process reaches.
LEMMA Invariant == Spec => []Inv
BY InitInv, NextInv, PTL DEF Spec

\* The trail has room or not, and its cached health blocks or not.
TrailTyped == blocked \in BOOLEAN /\ full \in BOOLEAN

\* Only the control loop's refresh and the trail itself change that.
LEMMA TrailTypes == Spec => []TrailTyped
<1>1. Init => TrailTyped
  BY DEF Init, TrailTyped
<1>2. TrailTyped /\ [Next]_vars => TrailTyped'
  <2> SUFFICES ASSUME TrailTyped, [Next]_vars PROVE TrailTyped'
    OBVIOUS
  <2>1. CASE UNCHANGED trail
    BY <2>1 DEF trail, TrailTyped
  <2>2. CASE AuthorityDies \/ HealthStale \/ TrailFills \/ TrailCleared
    BY <2>2, Zenon DEF AuthorityDies, HealthStale, TrailFills, TrailCleared, TrailTyped
  <2>3. ASSUME NEW answered \in BOOLEAN, refresh(answered) PROVE TrailTyped'
    BY <2>3, Zenon DEF refresh, TrailTyped
  <2>4. CASE Setup \/ Serve
    <3>1. UNCHANGED trail
      BY <2>4 DEF Setup, BindStart, BindCapabilities, BindMarker, BindDies, worker_configure, Serve,
                  Accept, SessionRead, SessionSubmit, SessionReply, SessionEof, SessionSilent,
                  SessionDeadline
    <3> QED BY <2>1, <3>1
  <2>5. CASE Worker \/ Tick \/ UNCHANGED vars
    <3>1. UNCHANGED trail
      BY <2>5 DEF Worker, WorkerStart, WorkerHeartbeat, WorkerForward, WorkerSend, WorkerRead,
                  WorkerEof, WorkerDies, Tick, vars
    <3> QED BY <2>1, <3>1
  <2>6. CASE AuthorityStart \/ Repair \/ next_request \/ \E repaired \in BOOLEAN : Execute(repaired)
    <3>1. UNCHANGED trail
      BY <2>6 DEF AuthorityStart, Repair, next_request, Execute
    <3> QED BY <2>1, <3>1
  <2> QED BY <2>2, <2>3, <2>4, <2>5, <2>6 DEF Next, Authority
<1> QED BY <1>1, <1>2, PTL DEF Spec

\* What the invariant says of the buffers, the stages and the files.
LEMMA InvRolesAreSound == Inv /\ TrailTyped => RolesAreSound
<1> SUFFICES ASSUME Inv, TrailTyped PROVE RolesAreSound
  OBVIOUS
<1> USE DEF Inv
<1>1. TypeOK
  <2>1. active \subseteq Conns
    BY SessionFields DEF ControlSound
  <2>2. \A i \in 1..Len(queue) : queue[i] \in Submission
    BY DEF Types
  <2>3. ASSUME NEW c \in Conns, NEW b \in {toAuthority[c], toWorker[c]}
        PROVE  Len(b) <= 1 /\ (b # <<>> => Head(b) \in Frames)
    <3>1. b \in Seq(Frames) /\ Len(b) <= 1
      BY DEF Types
    <3> QED BY <3>1, AtMostOne
  <2>4. {up, reconciled, live, due, blocked, full} \subseteq BOOLEAN
    BY Zenon DEF Types, TrailTyped
  <2>5. /\ capabilities \in {Key[choice] : choice \in Choices} \cup {None}
        /\ {bindings, workerConfig} \subseteq Choices \cup {None}
    BY DEF Types, Keys
  <2> QED BY <2>1, <2>2, <2>3, <2>4, <2>5 DEF Types, TypeOK, SessionType, WorkerType, Seqs, Bodies
<1>2. InStep
  <2>1. SUFFICES ASSUME session # NoSession PROVE InStep
    BY DEF InStep
  <2> DEFINE c == session.conn
  <2>2. c # 0 /\ c \in Conns
    BY <2>1, SessionFields
  <2>3. ASSUME toAuthority[c] # <<>> PROVE Head(toAuthority[c]).seq = session.seq
    <3>1. CASE session.stage = "handshake"
      <4>1. toAuthority[c] = <<Hello>> /\ session.seq = 0
        BY <2>1, <3>1 DEF SessionSound
      <4>2. Head(<<Hello>>) = Hello /\ Hello.seq = 0
        BY DEF Hello, Frame
      <4> QED BY <4>1, <4>2
    <3>2. CASE session.stage = "serve"
      <4>1. PICK r \in Bodies : toAuthority[c] = <<Frame(session.seq,
                                     IF r = None THEN "Heartbeat" ELSE "Request", r)>>
        BY <2>1, <2>3, <3>2 DEF SessionSound
      <4> HIDE DEF c
      <4> QED BY <4>1 DEF Frame
    <3> QED BY <2>1, <2>3, <3>1, <3>2, SessionFields DEF SessionSound, SessionType
  <2>4. ASSUME worker.conn = c, toWorker[c] # <<>> PROVE Head(toWorker[c]).seq = worker.seq
    <3>1. PICK f \in Frames : AnswerTo(worker, f) /\ toWorker[c] = <<f>>
      BY <2>2, <2>4, Nothing DEF WorkerSound
    <3>2. f.seq = worker.seq
      BY <3>1 DEF AnswerTo, Frame
    <3> HIDE DEF c
    <3> QED BY <3>1, <3>2
  <2>5. worker.conn = c /\ worker.stage = "idle" => worker.seq = session.seq
    BY <2>1 DEF InTouch
  <2> QED BY <2>1, <2>3, <2>4, <2>5 DEF InStep
<1> QED BY <1>1, <1>2 DEF RolesAreSound, SetupSound

\* RolesAreSound of every reachable state, for any number of requests, connections,
\* deaths and missed deadlines: the sequence checks of the local socket never meet a
\* stale frame, the lease belongs to a session past its handshake, a requester hears of
\* its own request only, and a bound home is completely bound.
THEOREM Soundness == Spec => []RolesAreSound
BY Invariant, TrailTypes, InvRolesAreSound, PTL

\* StaleNeverStarts of every behaviour: next_request starts nothing on behalf of a
\* session that has ended, also when its connection's request is still in the channel.
THEOREM NoStaleStart == Spec => StaleNeverStarts
<1> DEFINE Starts == executing' # Idle /\ executing' # executing =>
                       session # NoSession /\ session.conn = executing'.conn
<1>1. Inv /\ [Next]_vars => [Starts]_executing
  <2>1. SUFFICES ASSUME Inv, [Next]_vars, executing' # executing, executing' # Idle
                 PROVE  session # NoSession /\ session.conn = executing'.conn
    OBVIOUS
  <2>2. next_request
    <3>1. ~Setup /\ ~Serve
      BY <2>1 DEF Setup, BindStart, BindCapabilities, BindMarker, BindDies, worker_configure, loop,
                  Serve, Accept, SessionRead, SessionSubmit, SessionReply, SessionEof, SessionSilent,
                  SessionDeadline
    <3>2. ~Worker /\ ~Tick /\ ~UNCHANGED vars
      BY <2>1 DEF Worker, WorkerStart, WorkerHeartbeat, WorkerForward, WorkerSend, WorkerRead,
                  WorkerEof, WorkerDies, Tick, vars, loop
    <3>3. ~AuthorityStart /\ ~AuthorityDies /\ ~Repair /\ \A repaired \in BOOLEAN : ~Execute(repaired)
      BY <2>1 DEF AuthorityStart, AuthorityDies, Repair, Execute, loop
    <3>4. /\ \A answered \in BOOLEAN : ~refresh(answered)
          /\ ~HealthStale /\ ~TrailFills /\ ~TrailCleared
      BY <2>1 DEF refresh, HealthStale, TrailFills, TrailCleared, loop
    <3> QED BY <2>1, <3>1, <3>2, <3>3, <3>4 DEF Next, Authority
  <2>3. executing' = Head(queue) /\ Head(queue).conn \in active
    BY <2>1, <2>2 DEF next_request
  <2> QED BY <2>1, <2>3 DEF Inv, ControlSound
<1> QED BY <1>1, Invariant, PTL DEF Spec, StaleNeverStarts
=============================================================================
