------------------------ MODULE Conversation_proofs -------------------------
(***************************************************************************)
(* Proofs about a conversation, for any devices and limits: what is repeated, *)
(* late or lost leaves no trace in the transcripts, a removal always has room *)
(* in the outbox, nothing undoes an edit, and no receipt claims more than its *)
(* reader has done.                                                           *)
(***************************************************************************)
EXTENDS Conversation, Receipts, FiniteSetTheorems, WellFoundedInduction, TLAPS

(***************************************************************************)
(* The inductive invariant.                                                  *)
(***************************************************************************)

Row == [from : Devices, kind : Application \cup {"policy", "commit"}, target : Nat,
        counter : Nat, epoch : {0, 1}]

Commits == {i \in Ids : events[i].kind = "commit"}
Messages == {i \in Ids : events[i].kind # "policy"}

Typed ==
    /\ events \in Seq(Row) /\ stream \in Seq(Nat)
    /\ \A n \in 1..Len(stream) : stream[n] \in Messages
    /\ revoked \in BOOLEAN /\ knows \subseteq Devices /\ flushing \subseteq Devices
    /\ epoch \in [Devices -> {0, 1}] /\ done \in [Devices -> Nat] /\ lost \in 0..MaxLost
    /\ DOMAIN rejected = Devices /\ DOMAIN handled = Devices /\ DOMAIN transcript = Devices
    /\ transcript = [d \in Devices |-> transcript[d]]
    /\ rejected = [d \in Devices |-> rejected[d]] /\ handled = [d \in Devices |-> handled[d]]

\* A relation names an earlier event, an edit one of its own author, an answer a request
\* its participant has marked; a removal is the coordinator's, in the epoch it leaves.
RowSound(i) ==
    /\ events[i].target \in 0..(i - 1)
    /\ events[i].kind = "edit" => /\ events[i].target \in Ids
                                  /\ events[events[i].target].from = events[i].from
    /\ events[i].kind \in {"policy", "commit"} =>
          events[i].from = Coordinator /\ epoch[Coordinator] = 1 /\ events[i].counter = 0
    /\ events[i].kind = "answer" => events[i].target \in handled[events[i].from]

\* The removal is before every event of the epoch it opens.
Rekeyed(i) ==
    events[i].epoch = 1 =>
        IF events[i].from = Coordinator THEN \E c \in Commits : c < i
        ELSE \E n \in 1..Len(stream) : stream[n] \in Commits

\* The counters of one author grow with its events, and there is one removal.
CountersSound ==
    /\ IsFiniteSet(Written) /\ Cardinality(Written) <= MaxEvents
    /\ \A i \in Written : events[i].counter <= Cardinality(Written)
    /\ \A i, j \in Written :
          events[i].from = events[j].from /\ i < j => events[i].counter < events[j].counter
    /\ \A i, j \in Commits : i = j
    /\ AnswersOnce

EventsSound ==
    /\ \A i \in Ids : RowSound(i) /\ Rekeyed(i)
    /\ CountersSound

\* Rows not sent: who flushes has one to send, and the reserve is for the removal.
Waits(d) == d \in flushing => Flushable(d) # {}

Roomy(d) ==
    /\ IsFiniteSet(Unsent(d))
    /\ Cardinality(Unsent(d)) <= PendingLimit + Reserve
    /\ epoch[d] = 0 => Cardinality(Unsent(d)) <= PendingLimit

OutboxSound ==
    /\ sent \subseteq Ids /\ blocked \subseteq Written /\ sent \cap blocked = {}
    /\ \A d \in Devices : Waits(d) /\ Roomy(d)

\* What is sent is in the stream, which holds nothing else but repetitions; an event of
\* the new epoch comes after the removal.
StreamSound ==
    /\ \A i \in sent \cap Messages : \E n \in 1..Len(stream) : stream[n] = i
    /\ \A n \in 1..Len(stream) :
          events[stream[n]].epoch = 1 => \E m \in 1..(n - 1) : stream[m] \in Commits
    /\ Len(stream) <= Cardinality(sent \cap Messages) + lost

\* What a device has processed it holds or has rejected; it is in the new epoch exactly
\* if it made the removal or has processed it.
InboxSound(d) ==
    /\ done[d] <= Len(stream) /\ rejected[d] \subseteq 1..done[d]
    /\ \A n \in 1..done[d] :
          stream[n] \in Commits \/ stream[n] \in Held(d) \/ n \in rejected[d]
    /\ \A n \in 1..done[d] : stream[n] \in Commits => epoch[d] = 1
    /\ epoch[d] = 1 /\ d # Coordinator => \E n \in 1..done[d] : stream[n] \in Commits
    /\ epoch[d] = 1 /\ d = Coordinator => Commits # {}
    /\ \A n \in rejected[d] :
          events[stream[n]].epoch = 0 /\ epoch[d] = 1 /\ stream[n] \notin Held(d)

\* A device holds its own events, and of every event it holds an occurrence in the
\* stream or none, the first once it has processed one.
Located(d, i) ==
    /\ transcript[d][i] # 0 =>
          /\ transcript[d][i] \in 1..Len(stream) /\ stream[transcript[d][i]] = i
    /\ \A n \in 1..done[d] : stream[n] = i =>
          transcript[d][i] # 0 /\ transcript[d][i] <= n

TranscriptSound(d) ==
    /\ transcript[d] \in [Held(d) -> Nat]
    /\ Held(d) \subseteq Written /\ Written \cap Rows(d) \subseteq Held(d)
    /\ handled[d] \subseteq Held(d)
    /\ \A i \in Held(d) : Located(d, i)

Inv ==
    /\ Typed /\ EventsSound /\ OutboxSound /\ StreamSound
    /\ \A d \in Devices : InboxSound(d) /\ TranscriptSound(d)

----------------------------------------------------------------------------
(* Numbers and sequences.                                                  *)

LEMMA Limits ==
    /\ Coordinator \in Devices /\ Services \subseteq Devices /\ "answer" \notin Composed
    /\ Composed \subseteq Application
    /\ PendingLimit \in Nat /\ Reserve \in Nat /\ Reserve >= 2 /\ MaxEvents \in Nat /\ MaxLost \in Nat
BY ConversationAssumption DEF Application

\* A non-empty set of naturals has a least element, and a greatest one if it is bounded.
LEMMA LeastOne ==
    ASSUME NEW T, T \subseteq Nat, T # {}
    PROVE  \E x \in T : \A y \in T : x <= y
<1> DEFINE below == {pair \in Nat \X Nat : pair[1] < pair[2]}
<1>1. IsWellFoundedOn(below, Nat)
  BY NatLessThanWellFounded, Zenon DEF OpToRel
<1>2. PICK x \in T : \A y \in T : ~(<<y, x>> \in below)
  <2> HIDE DEF below
  <2>1. T \in SUBSET Nat
    OBVIOUS
  <2> QED BY <1>1, <2>1, WFMin
<1>3. ASSUME NEW y \in T PROVE x <= y
  <2>1. y < x => <<y, x>> \in below
    OBVIOUS
  <2> QED BY <1>2, <2>1
<1> QED BY <1>3

LEMMA GreatestOne ==
    ASSUME NEW T, T \subseteq Nat, T # {}, NEW n \in Nat, \A x \in T : x <= n
    PROVE  \E x \in T : \A y \in T : y <= x
<1> DEFINE R == {n - x : x \in T}
<1>1. R \subseteq Nat /\ R # {}
  OBVIOUS
<1>2. PICK r \in R : \A y \in R : r <= y
  <2> HIDE DEF R
  <2> QED BY <1>1, LeastOne
<1>3. PICK x \in T : r = n - x
  OBVIOUS
<1>4. ASSUME NEW y \in T PROVE y <= x
  BY <1>2, <1>3
<1> QED BY <1>4

LEMMA Appended ==
    ASSUME NEW S, NEW s \in Seq(S), NEW e \in S
    PROVE  /\ Append(s, e) \in Seq(S) /\ Len(Append(s, e)) = Len(s) + 1 /\ Len(s) \in Nat
           /\ \A i \in 1..Len(s) : Append(s, e)[i] = s[i]
           /\ Append(s, e)[Len(s) + 1] = e
OBVIOUS

\* The first and the last occurrence.
LEMMA FirstOccurrence ==
    ASSUME NEW s \in Seq(Nat), NEW i, NEW k \in 1..Len(s), s[k] = i
    PROVE  /\ FirstIn(s, i) \in 1..Len(s) /\ s[FirstIn(s, i)] = i
           /\ \A m \in 1..Len(s) : s[m] = i => FirstIn(s, i) <= m
<1> DEFINE T == {n \in 1..Len(s) : s[n] = i}
<1>1. T \subseteq Nat /\ T # {}
  OBVIOUS
<1>2. PICK x \in T : \A y \in T : x <= y
  <2> HIDE DEF T
  <2> QED BY <1>1, LeastOne
<1>3. \E n \in 1..Len(s) : s[n] = i /\ \A m \in 1..(n - 1) : s[m] # i
  BY <1>2
<1>4. /\ FirstIn(s, i) \in 1..Len(s) /\ s[FirstIn(s, i)] = i
      /\ \A m \in 1..(FirstIn(s, i) - 1) : s[m] # i
  BY <1>3 DEF FirstIn
<1> QED BY <1>4

LEMMA LastOccurrence ==
    ASSUME NEW s \in Seq(Nat), NEW i, NEW k \in 1..Len(s), s[k] = i
    PROVE  /\ LastIn(s, i) \in 1..Len(s) /\ s[LastIn(s, i)] = i
           /\ \A m \in 1..Len(s) : s[m] = i => m <= LastIn(s, i)
<1> DEFINE T == {n \in 1..Len(s) : s[n] = i}
<1>1. T \subseteq Nat /\ T # {} /\ Len(s) \in Nat /\ \A x \in T : x <= Len(s)
  OBVIOUS
<1>2. PICK x \in T : \A y \in T : y <= x
  <2> HIDE DEF T
  <2> QED BY <1>1, GreatestOne
<1>3. \E n \in 1..Len(s) : s[n] = i /\ \A m \in (n + 1)..Len(s) : s[m] # i
  BY <1>2
<1>4. /\ LastIn(s, i) \in 1..Len(s) /\ s[LastIn(s, i)] = i
      /\ \A m \in (LastIn(s, i) + 1)..Len(s) : s[m] # i
  BY <1>3 DEF LastIn
<1> QED BY <1>4

----------------------------------------------------------------------------
(* Steps that add no event.                                                *)

\* The rows and their kinds depend on the events alone.
LEMMA SameRows ==
    ASSUME UNCHANGED events
    PROVE  /\ Ids' = Ids /\ Written' = Written /\ Commits' = Commits /\ Messages' = Messages
           /\ \A d : Rows(d)' = Rows(d)
BY DEF Ids, Written, Commits, Messages, Rows

LEMMA RowTypes ==
    ASSUME Typed
    PROVE  /\ Len(events) \in Nat /\ Len(stream) \in Nat /\ Ids \subseteq Nat /\ IsFiniteSet(Ids)
           /\ \A i \in Ids : /\ events[i] \in Row /\ events[i].from \in Devices /\ events[i].counter \in Nat
                              /\ events[i].epoch \in {0, 1} /\ i \in 1..Len(events) /\ events[i].target \in Nat
                              /\ events[i].kind \in Application \cup {"policy", "commit"}
           /\ \A n \in 1..Len(stream) : stream[n] \in Ids /\ events[stream[n]].kind # "policy"
<1>1. Len(events) \in Nat /\ Len(stream) \in Nat /\ \A i \in Ids : events[i] \in Row
  BY DEF Typed, Ids
<1>2. IsFiniteSet(Ids)
  BY <1>1, FS_Interval DEF Ids
<1> QED BY <1>1, <1>2 DEF Row, Ids, Typed, Messages

StreamGrows ==
    /\ stream' \in Seq(Nat) /\ Len(stream) <= Len(stream')
    /\ \A n \in 1..Len(stream) : stream'[n] = stream[n]

LEMMA SameStream ==
    ASSUME Typed, UNCHANGED stream
    PROVE  StreamGrows
BY DEF Typed, StreamGrows

\* The events stay sound while devices move on.
LEMMA EventsKeep ==
    ASSUME Inv, UNCHANGED events, StreamGrows, epoch[Coordinator] = 1 => epoch'[Coordinator] = 1,
           \A d \in Devices : handled[d] \subseteq handled'[d]
    PROVE  EventsSound'
<1>1. /\ Ids' = Ids /\ Written' = Written /\ Commits' = Commits
  BY SameRows
<1>2. ASSUME NEW i \in Ids PROVE RowSound(i)'
  <2>1. RowSound(i) /\ events[i].from \in Devices
    BY RowTypes DEF Inv, EventsSound
  <2> QED BY <1>1, <2>1 DEF RowSound
<1>3. ASSUME NEW i \in Ids PROVE Rekeyed(i)'
  <2>1. Rekeyed(i)
    BY DEF Inv, EventsSound
  <2>2. \A n \in 1..Len(stream) : n \in 1..Len(stream') /\ stream'[n] = stream[n]
    BY DEF StreamGrows, Inv, Typed
  <2> QED BY <1>1, <2>1, <2>2 DEF Rekeyed
<1>4. CountersSound'
  BY <1>1 DEF Inv, EventsSound, CountersSound, AnswersOnce
<1> QED BY <1>1, <1>2, <1>3, <1>4 DEF EventsSound

\* The outbox of a device that is left alone.
LEMMA OutboxKeep ==
    ASSUME Inv, UNCHANGED events, NEW d \in Devices, sent' \cap Rows(d) = sent \cap Rows(d),
           blocked' \cap Rows(d) = blocked \cap Rows(d), epoch'[d] = epoch[d], d \in flushing' => d \in flushing
    PROVE  Waits(d)' /\ Roomy(d)'
<1>1. Rows(d)' = Rows(d) /\ Unsent(d)' = Unsent(d)
  BY SameRows DEF Unsent
<1>2. Flushable(d)' = Flushable(d)
  BY <1>1 DEF Flushable, Unsent
<1> QED BY <1>1, <1>2 DEF Inv, OutboxSound, Waits, Roomy

\* The stream stays sound while nothing is published.
LEMMA StreamKeep ==
    ASSUME Inv, UNCHANGED <<events, stream, sent, lost>>
    PROVE  StreamSound'
<1>1. Commits' = Commits /\ Messages' = Messages
  BY SameRows
<1> QED BY <1>1 DEF Inv, StreamSound

\* A device that is left alone, while others publish.
LEMMA InboxKeep ==
    ASSUME Inv, UNCHANGED events, StreamGrows, NEW d \in Devices, done'[d] = done[d],
           rejected'[d] = rejected[d], epoch'[d] = epoch[d], Held(d)' = Held(d)
    PROVE  InboxSound(d)'
<1>1. Commits' = Commits /\ Held(d)' = Held(d)
  BY SameRows
<1>2. InboxSound(d) /\ done[d] \in Nat /\ Len(stream) \in Nat
  BY DEF Inv, Typed
<1>3. \A n \in 1..done[d] : stream'[n] = stream[n]
  BY <1>2 DEF StreamGrows, InboxSound
<1>4. done[d] <= Len(stream')
  BY <1>2 DEF StreamGrows, InboxSound
<1>5. \A n \in rejected[d] : stream'[n] = stream[n]
  BY <1>2, <1>3 DEF InboxSound
<1> QED BY <1>1, <1>2, <1>3, <1>4, <1>5 DEF InboxSound

LEMMA TranscriptKeep ==
    ASSUME Inv, UNCHANGED events, StreamGrows, NEW d \in Devices, done'[d] = done[d],
           handled'[d] = handled[d], transcript'[d] = transcript[d]
    PROVE  TranscriptSound(d)'
<1>1. Written' = Written /\ Held(d)' = Held(d) /\ Rows(d)' = Rows(d)
  BY SameRows DEF Held
<1>2. TranscriptSound(d) /\ done[d] \in Nat /\ Len(stream) \in Nat /\ done[d] <= Len(stream)
  BY DEF Inv, Typed, InboxSound
<1>3. ASSUME NEW i \in Held(d) PROVE Located(d, i)'
  <2>1. Located(d, i) /\ transcript[d][i] \in Nat
    BY <1>2 DEF TranscriptSound
  <2>2. \A n \in 1..Len(stream) : n \in 1..Len(stream') /\ stream'[n] = stream[n]
    BY <1>2 DEF StreamGrows
  <2>3. \A n \in 1..done[d] : n \in 1..Len(stream)
    BY <1>2
  <2> QED BY <2>1, <2>2, <2>3 DEF Located
<1> QED BY <1>1, <1>2, <1>3 DEF TranscriptSound

\* Revoke and Audit preserve the invariant: rows are held back before the rest is taken up.
LEMMA RevokeInv ==
    ASSUME Inv, Revoke \/ UNCHANGED vars
    PROVE  Inv'
<1>1. /\ UNCHANGED <<events, sent, blocked, stream, knows, epoch, done, rejected, transcript>>
      /\ UNCHANGED <<handled, flushing, lost>>
      /\ revoked' \in BOOLEAN
  <2>1. revoked' \in BOOLEAN
    <3>1. CASE Revoke
      BY <3>1, Zenon DEF Revoke
    <3>2. CASE UNCHANGED vars
      BY <3>2 DEF vars, membership, Inv, Typed
    <3> QED BY <3>1, <3>2
  <2> QED BY <2>1 DEF Revoke, vars, outbox, membership, inbox
<1>2. Typed' /\ StreamGrows
  BY <1>1, SameStream DEF Inv, Typed, Messages, Ids
<1>3. EventsSound' /\ StreamSound'
  BY <1>1, <1>2, EventsKeep, StreamKeep
<1>4. ASSUME NEW d \in Devices PROVE InboxSound(d)' /\ TranscriptSound(d)' /\ Waits(d)' /\ Roomy(d)'
  BY <1>1, <1>2, InboxKeep, TranscriptKeep, OutboxKeep DEF Held
<1>5. OutboxSound'
  BY <1>1, <1>4, SameRows DEF Inv, OutboxSound
<1> QED BY <1>2, <1>3, <1>4, <1>5 DEF Inv

\* The rows held back for a device are its own.
LEMMA BlockableRows ==
    ASSUME NEW d
    PROVE  /\ Blockable(d) \subseteq Written /\ Blockable(d) \cap sent = {} /\ Blockable(d) \subseteq Rows(d)
           /\ \A x : x # d => Blockable(d) \cap Rows(x) = {}
BY DEF Blockable, Unsent, Rows, Written

LEMMA AuditInv ==
    ASSUME Inv, NEW d \in Devices, Audit(d)
    PROVE  Inv'
<1>1. /\ d \notin flushing /\ knows' \in {knows, knows \cup {d}}
      /\ blocked' \in {blocked, blocked \cup Blockable(d)}
      /\ flushing' = IF Unsent(d) \ blocked' = {} THEN flushing ELSE flushing \cup {d}
      /\ UNCHANGED <<events, sent, stream, revoked, epoch, done, rejected, transcript, handled, lost>>
  BY DEF Audit, inbox
<1>2. Typed' /\ StreamGrows
  <2>1. StreamGrows
    BY <1>1, SameStream DEF Inv
  <2>2. Messages' = Messages
    BY <1>1, SameRows
  <2>3. knows' \subseteq Devices /\ flushing' \subseteq Devices
    BY <1>1 DEF Inv, Typed
  <2> QED BY <1>1, <2>1, <2>2, <2>3 DEF Inv, Typed
<1>3. EventsSound' /\ StreamSound'
  BY <1>1, <1>2, EventsKeep, StreamKeep
<1>4. ASSUME NEW x \in Devices PROVE InboxSound(x)' /\ TranscriptSound(x)'
  BY <1>1, <1>2, InboxKeep, TranscriptKeep DEF Held
<1>5. ASSUME NEW x \in Devices PROVE Waits(x)' /\ Roomy(x)'
  <2>1. CASE x # d
    BY <1>1, <2>1, OutboxKeep, BlockableRows
  <2>2. CASE x = d
    <3>1. Unsent(d)' = Unsent(d)
      BY <1>1, SameRows DEF Unsent
    <3>2. Waits(d)'
      BY <1>1, <3>1 DEF Waits, Flushable
    <3>3. Roomy(d)'
      BY <1>1, <3>1 DEF Inv, OutboxSound, Roomy
    <3> QED BY <2>2, <3>2, <3>3
  <2> QED BY <2>1, <2>2
<1>6. OutboxSound'
  <2>1. Ids' = Ids /\ Written' = Written
    BY <1>1, SameRows
  <2>2. blocked' \subseteq Written /\ sent \cap blocked' = {}
    BY <1>1, BlockableRows DEF Inv, OutboxSound
  <2> QED BY <1>1, <1>5, <2>1, <2>2 DEF Inv, OutboxSound
<1> QED BY <1>2, <1>3, <1>4, <1>6 DEF Inv

----------------------------------------------------------------------------
(* Publishing.                                                             *)

\* The row a flushing device publishes is the first it may publish.
LEMMA FirstRow ==
    ASSUME Inv, NEW d \in Devices, d \in flushing
    PROVE  /\ NextRow(d) \in Flushable(d) /\ \A j \in Flushable(d) : NextRow(d) <= j
           /\ NextRow(d) \in Ids /\ events[NextRow(d)].from = d /\ NextRow(d) \notin sent
<1>1. Flushable(d) # {} /\ Flushable(d) \subseteq Ids /\ Flushable(d) \subseteq Nat
  BY RowTypes DEF Inv, OutboxSound, Waits, Flushable, Unsent, Rows
<1>2. \E x \in Flushable(d) : \A y \in Flushable(d) : x <= y
  BY <1>1, LeastOne
<1>3. NextRow(d) \in Flushable(d) /\ \A j \in Flushable(d) : NextRow(d) <= j
  BY <1>2 DEF NextRow
<1> QED BY <1>3 DEF Flushable, Unsent, Rows

\* A stored message extends the stream by at most one, after the removal if it is of the
\* epoch that one opened: rows leave in order.
LEMMA StoreStep ==
    ASSUME Inv, NEW d \in Devices, d \in flushing, NEW i, i = NextRow(d), NEW again, Store(i, again),
           UNCHANGED events
    PROVE  /\ StreamGrows /\ Len(stream') \in {Len(stream), Len(stream) + 1}
           /\ (i \notin Messages => stream' = stream)
           /\ (i \in Messages => \E n \in 1..Len(stream') : stream'[n] = i)
           /\ \A n \in 1..Len(stream') : stream'[n] \in Messages
           /\ \A n \in 1..Len(stream') :
                 events[stream'[n]].epoch = 1 => \E m \in 1..(n - 1) : stream'[m] \in Commits
<1>1. /\ i \in Flushable(d) /\ \A j \in Flushable(d) : i <= j
      /\ i \in Ids /\ events[i].from = d
  BY FirstRow
<1>2. stream \in Seq(Nat) /\ Len(stream) \in Nat /\ i \in Nat /\ Ids \subseteq Nat
  BY <1>1, RowTypes DEF Inv, Typed
<1>3. \A n \in 1..Len(stream) : stream[n] \in Messages
  BY DEF Inv, Typed
<1>4. \A n \in 1..Len(stream) : events[stream[n]].epoch = 1 => \E m \in 1..(n - 1) : stream[m] \in Commits
  BY DEF Inv, StreamSound
<1>5. CASE stream' = stream /\ (i \notin Messages \/ \E n \in 1..Len(stream) : stream[n] = i)
  <2>1. StreamGrows
    BY <1>2, <1>5 DEF StreamGrows
  <2> QED BY <1>2, <1>3, <1>4, <1>5, <2>1
<1>6. CASE stream' = Append(stream, i) /\ i \in Messages
  <2>1. /\ stream' \in Seq(Nat) /\ Len(stream') = Len(stream) + 1
        /\ \A n \in 1..Len(stream) : stream'[n] = stream[n]
        /\ stream'[Len(stream) + 1] = i
    BY <1>2, <1>6, Appended
  <2>2. StreamGrows
    BY <1>2, <2>1 DEF StreamGrows
  <2>3. events[i].epoch = 1 => \E m \in 1..Len(stream) : stream[m] \in Commits
    <3>1. SUFFICES ASSUME events[i].epoch = 1, d = Coordinator
                   PROVE  \E m \in 1..Len(stream) : stream[m] \in Commits
      BY <1>1 DEF Inv, EventsSound, Rekeyed
    <3>2. PICK c \in Commits : c < i
      BY <1>1, <3>1 DEF Inv, EventsSound, Rekeyed
    <3>3. /\ c \in Ids /\ c \in Messages /\ events[c].kind = "commit" /\ events[c].from = d /\ c \in Nat
      BY <1>2, <3>1, <3>2 DEF Commits, Messages, Inv, EventsSound, RowSound
    <3>4. c \notin blocked
      BY <3>3 DEF Inv, OutboxSound, Written, Application
    <3>5. c \in sent
      <4>1. c \notin Flushable(d)
        BY <1>1, <1>2, <3>2, <3>3
      <4> QED BY <3>3, <3>4, <4>1 DEF Flushable, Unsent, Rows
    <3> QED BY <3>2, <3>3, <3>5 DEF Inv, StreamSound
  <2>4. ASSUME NEW n \in 1..Len(stream'), events[stream'[n]].epoch = 1
        PROVE  \E m \in 1..(n - 1) : stream'[m] \in Commits
    <3>1. CASE n \in 1..Len(stream)
      <4>1. PICK m \in 1..(n - 1) : stream[m] \in Commits
        BY <1>4, <2>1, <2>4, <3>1
      <4>2. m \in 1..Len(stream)
        BY <1>2, <3>1
      <4> QED BY <2>1, <4>1, <4>2
    <3>2. CASE n = Len(stream) + 1
      <4>1. PICK m \in 1..Len(stream) : stream[m] \in Commits
        BY <2>1, <2>3, <2>4, <3>2
      <4>2. m \in 1..(n - 1)
        BY <1>2, <3>2
      <4> QED BY <2>1, <4>1, <4>2
    <3> QED BY <1>2, <2>1, <3>1, <3>2
  <2>5. \A n \in 1..Len(stream') : stream'[n] \in Messages
    BY <1>2, <1>3, <1>6, <2>1
  <2>6. \E n \in 1..Len(stream') : stream'[n] = i
    BY <1>2, <2>1
  <2> QED BY <1>6, <2>1, <2>2, <2>4, <2>5, <2>6
<1> QED BY <1>1, <1>5, <1>6 DEF Store, Messages

\* How many messages were sent.
LEMMA OneMoreSent ==
    ASSUME Inv, NEW i \in Ids, i \notin sent
    PROVE  /\ IsFiniteSet(sent \cap Messages) /\ Cardinality(sent \cap Messages) \in Nat
           /\ Cardinality((sent \cup {i}) \cap Messages) =
                 Cardinality(sent \cap Messages) + (IF i \in Messages THEN 1 ELSE 0)
<1>1. IsFiniteSet(sent \cap Messages) /\ Cardinality(sent \cap Messages) \in Nat
  BY RowTypes, FS_Subset, FS_CardinalityType DEF Inv, Messages
<1>2. CASE i \in Messages
  <2>1. (sent \cup {i}) \cap Messages = (sent \cap Messages) \cup {i} /\ i \notin sent \cap Messages
    BY <1>2
  <2> QED BY <1>1, <1>2, <2>1, FS_AddElement
<1>3. CASE i \notin Messages
  <2>1. (sent \cup {i}) \cap Messages = sent \cap Messages
    BY <1>3
  <2> QED BY <1>1, <1>3, <2>1
<1> QED BY <1>2, <1>3

\* Publish preserves the invariant.
LEMMA PublishInv ==
    ASSUME Inv, NEW d \in Devices, NEW again \in BOOLEAN, Publish(d, again)
    PROVE  Inv'
<1>1. PICK i : i = NextRow(d)
  OBVIOUS
<1>2. /\ d \in flushing /\ Store(i, again) /\ sent' = sent \cup {i}
      /\ transcript' = IF i \notin Held(d) THEN transcript
                       ELSE [transcript EXCEPT ![d][i] = Sequenced(@, LastIn(stream', i))]
      /\ flushing' = IF Flushable(d) = {i} THEN flushing \ {d} ELSE flushing
      /\ UNCHANGED <<events, blocked, revoked, knows, epoch, done, rejected, handled, lost>>
  BY <1>1 DEF Publish, membership, inbox
<1>3. /\ i \in Flushable(d) /\ i \in Ids /\ events[i].from = d /\ i \notin sent
  BY <1>1, <1>2, FirstRow
<1>4. /\ StreamGrows /\ Len(stream') \in {Len(stream), Len(stream) + 1}
      /\ (i \notin Messages => stream' = stream)
      /\ (i \in Messages => \E n \in 1..Len(stream') : stream'[n] = i)
      /\ \A n \in 1..Len(stream') : stream'[n] \in Messages
      /\ \A n \in 1..Len(stream') :
            events[stream'[n]].epoch = 1 => \E m \in 1..(n - 1) : stream'[m] \in Commits
  BY <1>1, <1>2, StoreStep
<1>5. /\ Ids' = Ids /\ Written' = Written /\ Commits' = Commits /\ Messages' = Messages
      /\ \A x : Rows(x)' = Rows(x)
  BY <1>2, SameRows
<1>6. /\ \A x \in Devices \ {d} : transcript'[x] = transcript[x]
      /\ DOMAIN transcript' = Devices /\ transcript' = [x \in Devices |-> transcript'[x]]
      /\ transcript'[d] = IF i \notin Held(d) THEN transcript[d]
                          ELSE [transcript[d] EXCEPT ![i] = Sequenced(@, LastIn(stream', i))]
  BY <1>2 DEF Inv, Typed
<1>7. Typed'
  <2>1. flushing' \subseteq Devices /\ stream' \in Seq(Nat)
    BY <1>2, <1>4 DEF Inv, Typed, StreamGrows
  <2>2. \A n \in 1..Len(stream') : stream'[n] \in Messages'
    BY <1>4, <1>5
  <2> QED BY <1>2, <1>6, <2>1, <2>2 DEF Inv, Typed
<1>8. EventsSound'
  BY <1>2, <1>4, EventsKeep
<1>9. StreamSound'
  <2>1. ASSUME NEW j \in sent \cap Messages PROVE \E n \in 1..Len(stream') : stream'[n] = j
    <3>1. PICK n \in 1..Len(stream) : stream[n] = j
      BY DEF Inv, StreamSound
    <3>2. n \in 1..Len(stream') /\ stream'[n] = j
      BY <1>4, <3>1, RowTypes DEF StreamGrows, Inv
    <3> QED BY <3>2
  <2>2. \A j \in sent' \cap Messages : \E n \in 1..Len(stream') : stream'[n] = j
    BY <1>2, <1>4, <2>1
  <2>3. Len(stream') <= Cardinality(sent' \cap Messages) + lost
    <3>1. /\ Cardinality(sent \cap Messages) \in Nat /\ lost \in Nat /\ Len(stream) \in Nat
          /\ Cardinality(sent' \cap Messages) =
                Cardinality(sent \cap Messages) + (IF i \in Messages THEN 1 ELSE 0)
          /\ Len(stream) <= Cardinality(sent \cap Messages) + lost
      <4>1. lost \in Nat /\ Len(stream) \in Nat /\ Len(stream) <= Cardinality(sent \cap Messages) + lost
        BY RowTypes, Limits DEF Inv, Typed, StreamSound
      <4> QED BY <1>2, <1>3, <4>1, OneMoreSent
    <3>2. Len(stream') <= Len(stream) + (IF i \in Messages THEN 1 ELSE 0)
      BY <1>4, <3>1
    <3>3. Len(stream') \in Nat
      BY <1>4, <3>1
    <3> QED BY <3>1, <3>2, <3>3
  <2> QED BY <1>2, <1>4, <1>5, <2>2, <2>3 DEF StreamSound
<1>10. ASSUME NEW x \in Devices PROVE InboxSound(x)'
  <2>1. Held(x)' = Held(x)
    BY <1>6 DEF Held
  <2> QED BY <1>2, <1>4, <2>1, InboxKeep
<1>11. ASSUME NEW x \in Devices PROVE TranscriptSound(x)'
  <2>1. CASE transcript'[x] = transcript[x]
    BY <1>2, <1>4, <2>1, TranscriptKeep
  <2>2. CASE x = d /\ i \in Held(d)
    <3> DEFINE l == LastIn(stream', i)
               old == transcript[d][i]
               v == Sequenced(old, l)
    <3>1. /\ transcript[d] \in [Held(d) -> Nat] /\ Held(d) \subseteq Written /\ Written \cap Rows(d) \subseteq Held(d)
          /\ handled[d] \subseteq Held(d) /\ \A j \in Held(d) : Located(d, j)
          /\ done[d] \in Nat /\ done[d] <= Len(stream) /\ Len(stream) \in Nat
      BY RowTypes DEF Inv, TranscriptSound, Typed, InboxSound
    <3>2. i \in Messages
      BY <1>3, <2>2, <3>1 DEF Written, Messages, Application
    <3>3. PICK k \in 1..Len(stream') : stream'[k] = i
      BY <1>4, <3>2
    <3>4. l \in 1..Len(stream') /\ stream'[l] = i
      BY <1>4, <3>3, LastOccurrence DEF StreamGrows
    <3>5. old \in Nat /\ l \in Nat /\ Located(d, i)
      BY <2>2, <3>1, <3>4
    <3>6. v \in Nat /\ transcript'[d] = [transcript[d] EXCEPT ![i] = v]
      BY <1>6, <2>2, <3>5 DEF Sequenced
    <3>7. /\ transcript'[d] \in [Held(d) -> Nat] /\ transcript'[d][i] = v
          /\ \A j \in Held(d) \ {i} : transcript'[d][j] = transcript[d][j]
      BY <2>2, <3>1, <3>6
    <3>8. Held(d)' = Held(d)
      BY <3>1, <3>7 DEF Held
    <3>9. \A n \in 1..Len(stream) : n \in 1..Len(stream') /\ stream'[n] = stream[n]
      BY <1>4, <3>1 DEF StreamGrows
    <3>10. \A n \in 1..done[d] : n \in 1..Len(stream)
      BY <3>1
    <3>11. v # 0 /\ v \in 1..Len(stream') /\ stream'[v] = i
      BY <3>4, <3>5, <3>9 DEF Sequenced, Located
    <3>12. \A n \in 1..done[d] : stream'[n] = i => v <= n
      BY <3>5, <3>9, <3>10 DEF Sequenced, Located
    <3> HIDE DEF v, l, old
    <3>13. Located(d, i)'
      BY <1>2, <3>7, <3>11, <3>12 DEF Located
    <3>14. ASSUME NEW j \in Held(d) \ {i} PROVE Located(d, j)'
      BY <1>2, <3>1, <3>7, <3>9, <3>10 DEF Located
    <3> QED BY <1>2, <1>5, <2>2, <3>1, <3>7, <3>8, <3>13, <3>14 DEF TranscriptSound
  <2> QED BY <1>6, <2>1, <2>2
<1>12. ASSUME NEW x \in Devices PROVE Waits(x)' /\ Roomy(x)'
  <2>1. CASE x # d
    <3>1. sent' \cap Rows(x) = sent \cap Rows(x)
      BY <1>2, <1>3, <2>1 DEF Rows
    <3> QED BY <1>2, <2>1, <3>1, OutboxKeep
  <2>2. CASE x = d
    <3>1. Unsent(d)' = Unsent(d) \ {i} /\ Flushable(d)' = Flushable(d) \ {i}
      BY <1>2, <1>5 DEF Unsent, Flushable
    <3>2. Waits(d)'
      BY <1>2, <1>3, <3>1 DEF Waits
    <3>3. IsFiniteSet(Unsent(d)) /\ Unsent(d)' \in SUBSET Unsent(d)
      BY <3>1 DEF Inv, OutboxSound, Roomy
    <3>4. /\ IsFiniteSet(Unsent(d)') /\ Cardinality(Unsent(d)') <= Cardinality(Unsent(d))
          /\ Cardinality(Unsent(d)') \in Nat /\ Cardinality(Unsent(d)) \in Nat
      BY <3>3, FS_Subset, FS_CardinalityType
    <3>5. Roomy(d)'
      BY <1>2, <3>4, Limits DEF Inv, OutboxSound, Roomy
    <3> QED BY <2>2, <3>2, <3>5
  <2> QED BY <2>1, <2>2
<1>13. OutboxSound'
  <2>1. sent' \subseteq Ids /\ sent' \cap blocked = {}
    BY <1>2, <1>3 DEF Inv, OutboxSound, Flushable
  <2> QED BY <1>2, <1>5, <1>12, <2>1 DEF Inv, OutboxSound
<1> QED BY <1>7, <1>8, <1>9, <1>10, <1>11, <1>13 DEF Inv

\* PublishLost preserves the invariant: the row will be published again.
LEMMA PublishLostInv ==
    ASSUME Inv, NEW d \in Devices, NEW again \in BOOLEAN, PublishLost(d, again)
    PROVE  Inv'
<1>1. PICK i : i = NextRow(d)
  OBVIOUS
<1>2. /\ d \in flushing /\ Store(i, again) /\ lost < MaxLost /\ lost' = lost + 1
      /\ flushing' = flushing \ {d}
      /\ UNCHANGED <<events, sent, blocked, revoked, knows, epoch, done, rejected, transcript, handled>>
  BY <1>1 DEF PublishLost, outbox, membership, inbox
<1>3. /\ StreamGrows /\ Len(stream') \in {Len(stream), Len(stream) + 1}
      /\ \A n \in 1..Len(stream') : stream'[n] \in Messages
      /\ \A n \in 1..Len(stream') :
            events[stream'[n]].epoch = 1 => \E m \in 1..(n - 1) : stream'[m] \in Commits
  BY <1>1, <1>2, StoreStep
<1>4. /\ Ids' = Ids /\ Written' = Written /\ Commits' = Commits /\ Messages' = Messages
  BY <1>2, SameRows
<1>5. Typed'
  <2>1. flushing' \subseteq Devices /\ stream' \in Seq(Nat) /\ lost' \in 0..MaxLost
    BY <1>2, <1>3, Limits DEF Inv, Typed, StreamGrows
  <2>2. \A n \in 1..Len(stream') : stream'[n] \in Messages'
    BY <1>3, <1>4
  <2> QED BY <1>2, <2>1, <2>2 DEF Inv, Typed
<1>6. EventsSound'
  BY <1>2, <1>3, EventsKeep
<1>7. StreamSound'
  <2>1. ASSUME NEW j \in sent \cap Messages PROVE \E n \in 1..Len(stream') : stream'[n] = j
    <3>1. PICK n \in 1..Len(stream) : stream[n] = j
      BY DEF Inv, StreamSound
    <3>2. n \in 1..Len(stream') /\ stream'[n] = j
      BY <1>3, <3>1, RowTypes DEF StreamGrows, Inv
    <3> QED BY <3>2
  <2>2. Len(stream') <= Cardinality(sent \cap Messages) + lost'
    <3>1. IsFiniteSet(sent \cap Messages) /\ Cardinality(sent \cap Messages) \in Nat
      BY RowTypes, FS_Subset, FS_CardinalityType DEF Inv, Messages
    <3>2. lost \in Nat /\ Len(stream) \in Nat /\ Len(stream) <= Cardinality(sent \cap Messages) + lost
      BY RowTypes, Limits DEF Inv, Typed, StreamSound
    <3> QED BY <1>2, <1>3, <3>1, <3>2
  <2> QED BY <1>2, <1>3, <1>4, <2>1, <2>2 DEF StreamSound
<1>8. ASSUME NEW x \in Devices PROVE InboxSound(x)' /\ TranscriptSound(x)' /\ Waits(x)' /\ Roomy(x)'
  BY <1>2, <1>3, InboxKeep, TranscriptKeep, OutboxKeep DEF Held
<1>9. OutboxSound'
  BY <1>2, <1>4, <1>8 DEF Inv, OutboxSound
<1> QED BY <1>5, <1>6, <1>7, <1>8, <1>9 DEF Inv

----------------------------------------------------------------------------
(* Receiving.                                                              *)

\* What the next delivery of a device can be.
LEMMA NextDelivery ==
    ASSUME Inv, NEW d \in Devices, done[d] < Len(stream), NEW s, s = done[d] + 1, NEW i, i = stream[s]
    PROVE  /\ s \in 1..Len(stream) /\ s \in Nat /\ done[d] \in Nat /\ Len(stream) \in Nat
           /\ \A n \in 1..s : n = s \/ n \in 1..done[d]
           /\ \A n \in 1..done[d] : n \in 1..s /\ n \in 1..Len(stream)
           /\ i \in Ids /\ (events[i].kind = "commit" => i \in Commits) /\ (events[i].kind # "commit" => i \in Written)
           /\ events[i].epoch \in {0, 1}
           /\ epoch[d] \in {0, 1}
<1>1. done[d] \in Nat /\ Len(stream) \in Nat
  BY RowTypes DEF Inv, Typed
<1>2. s \in 1..Len(stream)
  BY <1>1
<1>3. i \in Ids /\ events[i].kind # "policy" /\ events[i].kind \in Application \cup {"policy", "commit"}
      /\ events[i].epoch \in {0, 1}
  BY <1>2, RowTypes DEF Inv
<1>4. epoch[d] \in {0, 1}
  BY DEF Inv, Typed
<1> QED BY <1>1, <1>2, <1>3, <1>4 DEF Commits, Written

\* A removal is not an application event.
LEMMA CommitsApart ==
    \A i \in Commits : i \notin Written
BY DEF Commits, Written, Application

\* Process, when the delivery is a removal: the coordinator knows its own and is in the
\* new epoch already, any other device enters it.
LEMMA ProcessCommit ==
    ASSUME Inv, NEW d \in Devices, NEW s, s = done[d] + 1, NEW i, i = stream[s],
           done[d] < Len(stream), i \in Commits, done'[d] = s, epoch'[d] = 1,
           UNCHANGED <<events, stream, rejected, transcript, handled>>
    PROVE  InboxSound(d)' /\ TranscriptSound(d)'
<1>1. /\ s \in 1..Len(stream) /\ s \in Nat /\ done[d] \in Nat /\ Len(stream) \in Nat
      /\ \A n \in 1..s : n = s \/ n \in 1..done[d]
      /\ \A n \in 1..done[d] : n \in 1..s /\ n \in 1..Len(stream)
  BY NextDelivery
<1>2. /\ Written' = Written /\ Commits' = Commits /\ Rows(d)' = Rows(d) /\ Held(d)' = Held(d)
  BY SameRows DEF Held
<1>3. InboxSound(d) /\ TranscriptSound(d)
  BY DEF Inv
<1>4. InboxSound(d)'
  <2>1. s <= Len(stream) /\ rejected[d] \subseteq 1..s
    BY <1>1, <1>3 DEF InboxSound
  <2>2. \A n \in 1..s : stream[n] \in Commits \/ stream[n] \in Held(d) \/ n \in rejected[d]
    BY <1>1, <1>3 DEF InboxSound
  <2>3. \E n \in 1..s : stream[n] \in Commits
    BY <1>1
  <2> QED BY <1>2, <1>3, <2>1, <2>2, <2>3 DEF InboxSound
<1>5. TranscriptSound(d)'
  <2>1. ASSUME NEW j \in Held(d) PROVE Located(d, j)'
    <3>1. i # j /\ Located(d, j)
      BY <1>3, CommitsApart DEF TranscriptSound
    <3> QED BY <1>1, <3>1 DEF Located
  <2> QED BY <1>2, <1>3, <2>1 DEF TranscriptSound
<1> QED BY <1>4, <1>5

\* Process, when the delivery is an event the device holds or can read.
LEMMA ProcessAccepted ==
    ASSUME Inv, NEW d \in Devices, NEW s, s = done[d] + 1, NEW i, i = stream[s],
           done[d] < Len(stream), i \in Written, Known(d, i) \/ Readable(d, i), done'[d] = s,
           transcript'[d] = With(transcript[d], i, Sequenced(IF i \in Held(d) THEN transcript[d][i] ELSE 0, s)),
           UNCHANGED <<events, stream, epoch, rejected, handled>>
    PROVE  InboxSound(d)' /\ TranscriptSound(d)' /\ Held(d)' = Held(d) \cup {i}
<1>1. /\ s \in 1..Len(stream) /\ s \in Nat /\ done[d] \in Nat /\ Len(stream) \in Nat
      /\ \A n \in 1..s : n = s \/ n \in 1..done[d]
      /\ \A n \in 1..done[d] : n \in 1..s /\ n \in 1..Len(stream)
      /\ i \in Ids
  BY NextDelivery
<1>2. /\ Written' = Written /\ Commits' = Commits /\ Rows(d)' = Rows(d)
  BY SameRows
<1>3. InboxSound(d) /\ TranscriptSound(d) /\ transcript[d] \in [Held(d) -> Nat]
  BY DEF Inv, TranscriptSound
<1> DEFINE old == IF i \in Held(d) THEN transcript[d][i] ELSE 0
           v == Sequenced(old, s)
<1>4. old \in Nat /\ v \in Nat /\ v # 0 /\ v <= s /\ (old # 0 => v <= old) /\ v \in {old, s}
  BY <1>1, <1>3 DEF Sequenced
<1>5. i \notin Held(d) => Readable(d, i)
  BY <1>3 DEF Known, TranscriptSound
<1>6. \A n \in rejected[d] : stream[n] # i
  BY <1>3, <1>5 DEF InboxSound, Readable
<1>7. ASSUME NEW n \in 1..done[d], stream[n] = i PROVE i \in Held(d)
  BY <1>3, <1>6, <1>7, CommitsApart DEF InboxSound
<1>8. \A n \in 1..s : stream[n] = i => v <= n
  <2>1. ASSUME NEW n \in 1..done[d], stream[n] = i PROVE v <= n
    <3>1. i \in Held(d) /\ Located(d, i)
      BY <1>3, <1>7, <2>1 DEF TranscriptSound
    <3>2. old # 0 /\ old <= n
      BY <2>1, <3>1 DEF Located
    <3> QED BY <1>4, <3>2
  <2> QED BY <1>1, <1>4, <2>1
<1>9. v \in 1..Len(stream) /\ stream[v] = i
  <2>1. CASE v = s
    BY <1>1, <2>1
  <2>2. CASE v = old
    <3>1. i \in Held(d) /\ Located(d, i) /\ v = transcript[d][i]
      BY <1>3, <1>4, <2>2 DEF TranscriptSound
    <3> QED BY <1>4, <3>1 DEF Located
  <2> QED BY <1>4, <2>1, <2>2
<1>10. transcript'[d] = With(transcript[d], i, v)
  OBVIOUS
<1> HIDE DEF v, old
<1>11. /\ transcript'[d] \in [Held(d) \cup {i} -> Nat] /\ transcript'[d][i] = v
       /\ \A j \in Held(d) \ {i} : transcript'[d][j] = transcript[d][j]
  <2>1. /\ With(transcript[d], i, v) \in [Held(d) \cup {i} -> Nat] /\ With(transcript[d], i, v)[i] = v
        /\ \A j \in Held(d) \ {i} : With(transcript[d], i, v)[j] = transcript[d][j]
    BY <1>3, <1>4 DEF With
  <2> QED BY <1>10, <2>1
<1>12. Held(d)' = Held(d) \cup {i}
  BY <1>11 DEF Held
<1>13. InboxSound(d)'
  <2>1. s <= Len(stream) /\ rejected[d] \subseteq 1..s
    BY <1>1, <1>3 DEF InboxSound
  <2>2. \A n \in 1..s : stream[n] \in Commits \/ stream[n] \in Held(d) \cup {i} \/ n \in rejected[d]
    BY <1>1, <1>3 DEF InboxSound
  <2>3. \A n \in 1..s : stream[n] \in Commits => epoch[d] = 1
    BY <1>1, <1>3, CommitsApart DEF InboxSound
  <2>4. epoch[d] = 1 /\ d # Coordinator => \E n \in 1..s : stream[n] \in Commits
    BY <1>1, <1>3 DEF InboxSound
  <2>5. \A n \in rejected[d] : events[stream[n]].epoch = 0 /\ epoch[d] = 1 /\ stream[n] \notin Held(d) \cup {i}
    BY <1>3, <1>6 DEF InboxSound
  <2> QED BY <1>2, <1>3, <1>12, <2>1, <2>2, <2>3, <2>4, <2>5 DEF InboxSound
<1>14. TranscriptSound(d)'
  <2>1. ASSUME NEW j \in Held(d) \ {i} PROVE Located(d, j)'
    <3>1. Located(d, j) /\ i # j
      BY <1>3 DEF TranscriptSound
    <3> QED BY <1>1, <1>11, <3>1 DEF Located
  <2>2. Located(d, i)'
    BY <1>4, <1>8, <1>9, <1>11 DEF Located
  <2>3. \A j \in Held(d) \cup {i} : Located(d, j)'
    BY <2>1, <2>2
  <2>4. Held(d) \cup {i} \subseteq Written /\ Written \cap Rows(d) \subseteq Held(d) \cup {i} /\ handled[d] \subseteq Held(d) \cup {i}
    BY <1>3 DEF TranscriptSound
  <2> QED BY <1>2, <1>11, <1>12, <2>3, <2>4 DEF TranscriptSound
<1> QED BY <1>12, <1>13, <1>14

\* Process, when the delivery cannot be read: it is of the epoch the device has left, since
\* an event of the other comes after the removal.
LEMMA ProcessRejected ==
    ASSUME Inv, NEW d \in Devices, NEW s, s = done[d] + 1, NEW i, i = stream[s],
           done[d] < Len(stream), i \in Written, ~(Known(d, i) \/ Readable(d, i)), done'[d] = s,
           rejected'[d] = rejected[d] \cup {s},
           UNCHANGED <<events, stream, epoch, transcript, handled>>
    PROVE  InboxSound(d)' /\ TranscriptSound(d)'
<1>1. /\ s \in 1..Len(stream) /\ s \in Nat /\ done[d] \in Nat /\ Len(stream) \in Nat
      /\ \A n \in 1..s : n = s \/ n \in 1..done[d]
      /\ \A n \in 1..done[d] : n \in 1..s /\ n \in 1..Len(stream)
      /\ events[i].epoch \in {0, 1} /\ epoch[d] \in {0, 1}
  BY NextDelivery
<1>2. /\ Written' = Written /\ Commits' = Commits /\ Rows(d)' = Rows(d) /\ Held(d)' = Held(d)
  BY SameRows DEF Held
<1>3. InboxSound(d) /\ TranscriptSound(d)
  BY DEF Inv
<1>4. i \notin Held(d) /\ events[i].epoch # epoch[d]
  BY DEF Known, Readable
<1>5. events[i].epoch = 1 => epoch[d] = 1
  <2>1. SUFFICES ASSUME events[i].epoch = 1 PROVE epoch[d] = 1
    OBVIOUS
  <2>2. PICK m \in 1..(s - 1) : stream[m] \in Commits
    BY <1>1, <2>1 DEF Inv, StreamSound
  <2>3. m \in 1..done[d]
    BY <1>1
  <2> QED BY <1>3, <2>2, <2>3 DEF InboxSound
<1>6. events[i].epoch = 0 /\ epoch[d] = 1
  BY <1>1, <1>4, <1>5
<1>7. InboxSound(d)'
  <2>1. s <= Len(stream) /\ rejected[d] \cup {s} \subseteq 1..s
    BY <1>1, <1>3 DEF InboxSound
  <2>2. \A n \in 1..s : stream[n] \in Commits \/ stream[n] \in Held(d) \/ n \in rejected[d] \cup {s}
    BY <1>1, <1>3 DEF InboxSound
  <2>3. d # Coordinator => \E n \in 1..s : stream[n] \in Commits
    BY <1>1, <1>3, <1>6 DEF InboxSound
  <2>4. \A n \in rejected[d] \cup {s} : events[stream[n]].epoch = 0 /\ epoch[d] = 1 /\ stream[n] \notin Held(d)
    BY <1>3, <1>4, <1>6 DEF InboxSound
  <2> QED BY <1>2, <1>3, <1>6, <2>1, <2>2, <2>3, <2>4 DEF InboxSound
<1>8. TranscriptSound(d)'
  <2>1. ASSUME NEW j \in Held(d) PROVE Located(d, j)'
    <3>1. i # j /\ Located(d, j)
      BY <1>3, <1>4 DEF TranscriptSound
    <3> QED BY <1>1, <3>1 DEF Located
  <2> QED BY <1>2, <1>3, <2>1 DEF TranscriptSound
<1> QED BY <1>7, <1>8

\* A device that processes leaves the others alone.
LEMMA ProcessInv ==
    ASSUME Inv, NEW d \in Devices, Process(d)
    PROVE  Inv'
<1>1. PICK s : s = done[d] + 1
  OBVIOUS
<1>2. PICK i : i = stream[s]
  OBVIOUS
<1>3. /\ d \notin flushing /\ done[d] < Len(stream) /\ done' = [done EXCEPT ![d] = s]
      /\ \/ /\ events[i].kind = "commit" /\ process_handshake(d, i)
            /\ UNCHANGED <<transcript, rejected>>
         \/ /\ events[i].kind # "commit" /\ (Known(d, i) \/ Readable(d, i))
            /\ transcript' = [transcript EXCEPT ![d] =
                     With(@, i, Sequenced(IF i \in Held(d) THEN @[i] ELSE 0, s))]
            /\ UNCHANGED <<rejected, epoch, blocked>>
         \/ /\ events[i].kind # "commit" /\ ~(Known(d, i) \/ Readable(d, i))
            /\ rejected' = [rejected EXCEPT ![d] = @ \cup {s}]
            /\ UNCHANGED <<transcript, epoch, blocked>>
      /\ UNCHANGED <<events, sent, stream, revoked, knows, handled, flushing, lost>>
  BY <1>1, <1>2 DEF Process
<1>4. /\ s \in Nat /\ i \in Ids /\ (events[i].kind = "commit" => i \in Commits)
      /\ (events[i].kind # "commit" => i \in Written)
  BY <1>1, <1>2, <1>3, NextDelivery
<1>5. /\ Ids' = Ids /\ Written' = Written /\ Commits' = Commits /\ Messages' = Messages
      /\ \A x : Rows(x)' = Rows(x)
  BY <1>3, SameRows
<1>6. /\ done' \in [Devices -> Nat] /\ done'[d] = s /\ \A x \in Devices \ {d} : done'[x] = done[x]
  BY <1>3, <1>4 DEF Inv, Typed
<1>7. StreamGrows
  BY <1>3, SameStream DEF Inv
<1>8. /\ DOMAIN transcript' = Devices /\ transcript' = [x \in Devices |-> transcript'[x]]
      /\ DOMAIN rejected' = Devices /\ rejected' = [x \in Devices |-> rejected'[x]]
      /\ \A x \in Devices \ {d} : transcript'[x] = transcript[x] /\ rejected'[x] = rejected[x]
  <2>1. CASE UNCHANGED <<transcript, rejected>>
    BY <2>1 DEF Inv, Typed
  <2>2. CASE UNCHANGED rejected /\ transcript' = [transcript EXCEPT ![d] =
                     With(@, i, Sequenced(IF i \in Held(d) THEN @[i] ELSE 0, s))]
    BY <2>2 DEF Inv, Typed
  <2>3. CASE UNCHANGED transcript /\ rejected' = [rejected EXCEPT ![d] = @ \cup {s}]
    BY <2>3 DEF Inv, Typed
  <2> QED BY <1>3, <2>1, <2>2, <2>3
<1>9. /\ epoch' \in [Devices -> {0, 1}] /\ \A x \in Devices \ {d} : epoch'[x] = epoch[x]
      /\ events[i].kind = "commit" => epoch'[d] = 1
      /\ epoch'[d] \in {epoch[d], 1}
      /\ blocked' \in {blocked, blocked \cup Blockable(d)}
  <2>1. CASE events[i].kind # "commit"
    BY <1>3, <2>1 DEF Inv, Typed
  <2>2. CASE events[i].kind = "commit"
    <3>1. /\ epoch' = [epoch EXCEPT ![d] = IF Known(d, i) THEN @ ELSE 1]
          /\ blocked' \in {blocked, blocked \cup Blockable(d)}
      <4>1. process_handshake(d, i)
        BY <1>3, <2>2
      <4> QED BY <4>1 DEF process_handshake
    <3>2. Known(d, i) => epoch[d] = 1
      <4>1. i \notin Held(d)
        BY <1>4, <2>2, CommitsApart DEF Inv, TranscriptSound
      <4>2. RowSound(i)
        BY <1>4 DEF Inv, EventsSound
      <4> QED BY <2>2, <4>1, <4>2 DEF Known, Rows, RowSound
    <3>3. epoch \in [Devices -> {0, 1}]
      BY DEF Inv, Typed
    <3> QED BY <3>1, <3>2, <3>3
  <2> QED BY <2>1, <2>2
<1>10. Typed'
  BY <1>3, <1>5, <1>6, <1>8, <1>9 DEF Inv, Typed
<1>11. EventsSound' /\ StreamSound'
  <2>1. epoch[Coordinator] = 1 => epoch'[Coordinator] = 1
    BY <1>9, Limits
  <2> QED BY <1>3, <1>7, <2>1, EventsKeep, StreamKeep
<1>12. ASSUME NEW x \in Devices PROVE InboxSound(x)' /\ TranscriptSound(x)'
  <2>1. CASE x # d
    <3>1. done'[x] = done[x] /\ rejected'[x] = rejected[x] /\ epoch'[x] = epoch[x] /\ transcript'[x] = transcript[x]
      BY <1>6, <1>8, <1>9, <2>1
    <3> QED BY <1>3, <1>7, <3>1, InboxKeep, TranscriptKeep DEF Held
  <2>2. CASE x = d /\ events[i].kind = "commit"
    <3>1. UNCHANGED <<events, stream, rejected, transcript, handled>> /\ done[d] < Len(stream)
      BY <1>3, <2>2
    <3>2. i \in Commits /\ done'[d] = s /\ epoch'[d] = 1
      BY <1>4, <1>6, <1>9, <2>2
    <3> QED BY <1>1, <1>2, <2>2, <3>1, <3>2, ProcessCommit
  <2>3. CASE x = d /\ events[i].kind # "commit" /\ (Known(d, i) \/ Readable(d, i))
    <3>1. transcript'[d] = With(transcript[d], i, Sequenced(IF i \in Held(d) THEN transcript[d][i] ELSE 0, s))
      BY <1>3, <2>3 DEF Inv, Typed
    <3>2. UNCHANGED <<events, stream, epoch, rejected, handled>>
      BY <1>3, <2>3
    <3> QED BY <1>1, <1>2, <1>3, <1>4, <1>6, <2>3, <3>1, <3>2, ProcessAccepted
  <2>4. CASE x = d /\ events[i].kind # "commit" /\ ~(Known(d, i) \/ Readable(d, i))
    <3>1. rejected'[d] = rejected[d] \cup {s} /\ UNCHANGED <<events, stream, epoch, transcript, handled>>
      BY <1>3, <2>4 DEF Inv, Typed
    <3> QED BY <1>1, <1>2, <1>3, <1>4, <1>6, <2>4, <3>1, ProcessRejected
  <2> QED BY <2>1, <2>2, <2>3, <2>4
<1>13. ASSUME NEW x \in Devices PROVE Waits(x)' /\ Roomy(x)'
  <2>1. CASE x # d
    BY <1>3, <1>9, <2>1, OutboxKeep, BlockableRows
  <2>2. CASE x = d
    <3>1. Unsent(d)' = Unsent(d)
      BY <1>3, <1>5 DEF Unsent
    <3>2. Waits(d)'
      BY <1>3 DEF Waits
    <3>3. Roomy(d)'
      BY <1>9, <3>1 DEF Inv, OutboxSound, Roomy
    <3> QED BY <2>2, <3>2, <3>3
  <2> QED BY <2>1, <2>2
<1>14. OutboxSound'
  <2>1. blocked' \subseteq Written /\ sent \cap blocked' = {}
    BY <1>9, BlockableRows DEF Inv, OutboxSound
  <2> QED BY <1>3, <1>5, <1>13, <2>1 DEF Inv, OutboxSound
<1> QED BY <1>10, <1>11, <1>12, <1>14 DEF Inv

----------------------------------------------------------------------------
(* Steps that add events: the earlier ones are left alone.                 *)

EventsGrow ==
    /\ events' \in Seq(Row) /\ Len(events) <= Len(events')
    /\ \A i \in Ids : events'[i] = events[i]

LEMMA OldRows ==
    ASSUME Typed, EventsGrow
    PROVE  /\ Ids \subseteq Ids' /\ Written \subseteq Written' /\ Commits \subseteq Commits' /\ Messages \subseteq Messages'
           /\ \A i \in Ids : /\ i \in Written' <=> i \in Written
                             /\ i \in Commits' <=> i \in Commits
                             /\ i \in Messages' <=> i \in Messages
           /\ \A x : \A i \in Ids : i \in Rows(x)' <=> i \in Rows(x)
<1>1. Len(events) \in Nat /\ Len(events') \in Nat
  BY DEF Typed, EventsGrow
<1>2. Ids \subseteq Ids' /\ \A i \in Ids : events'[i] = events[i]
  BY <1>1 DEF EventsGrow, Ids
<1> QED BY <1>2 DEF Written, Commits, Messages, Rows

\* The earlier rows stay sound.
LEMMA OldRowsSound ==
    ASSUME Inv, EventsGrow, UNCHANGED stream, epoch[Coordinator] = 1 => epoch'[Coordinator] = 1,
           \A d \in Devices : handled[d] \subseteq handled'[d], NEW i \in Ids
    PROVE  RowSound(i)' /\ Rekeyed(i)'
<1>1. /\ Ids \subseteq Ids' /\ Commits \subseteq Commits' /\ events'[i] = events[i]
  BY OldRows DEF Inv, EventsGrow
<1>2. RowSound(i) /\ Rekeyed(i) /\ events[i].from \in Devices
  BY RowTypes DEF Inv, EventsSound
<1>3. events[i].kind = "edit" => /\ events[i].target \in Ids'
                                 /\ events'[events[i].target].from = events[i].from
  BY <1>1, <1>2 DEF RowSound, EventsGrow
<1>4. RowSound(i)'
  BY <1>1, <1>2, <1>3 DEF RowSound
<1>5. Rekeyed(i)'
  BY <1>1, <1>2 DEF Rekeyed
<1> QED BY <1>4, <1>5

LEMMA StreamStays ==
    ASSUME Inv, EventsGrow, UNCHANGED <<stream, sent, lost>>
    PROVE  StreamSound' /\ \A n \in 1..Len(stream) : stream[n] \in Messages'
<1>1. \A n \in 1..Len(stream) : stream[n] \in Ids
  BY RowTypes DEF Inv
<1>2. \A n \in 1..Len(stream) : events'[stream[n]] = events[stream[n]] /\ stream[n] \in Messages'
  BY <1>1, OldRows DEF Inv, EventsGrow, Typed
<1>3. sent \cap Messages' = sent \cap Messages
  BY OldRows DEF Inv, OutboxSound, Messages
<1>4. Commits \subseteq Commits'
  BY OldRows DEF Inv
<1>5. ASSUME NEW n \in 1..Len(stream), events[stream[n]].epoch = 1 PROVE \E m \in 1..(n - 1) : stream[m] \in Commits'
  BY <1>4, <1>5 DEF Inv, StreamSound
<1>6. Len(stream) <= Cardinality(sent \cap Messages) + lost
  BY DEF Inv, StreamSound
<1>7. \A i \in sent \cap Messages : \E n \in 1..Len(stream) : stream[n] = i
  BY DEF Inv, StreamSound
<1> QED BY <1>2, <1>3, <1>5, <1>6, <1>7 DEF StreamSound

\* A device that is left alone, or the coordinator when it makes the removal.
LEMMA InboxStays ==
    ASSUME Inv, EventsGrow, UNCHANGED <<stream, done, rejected>>, NEW d \in Devices,
           epoch'[d] = epoch[d] \/ (d = Coordinator /\ epoch'[d] = 1 /\ Commits' # {}),
           Held(d) \subseteq Held(d)', Held(d)' \cap Ids = Held(d) \cap Ids
    PROVE  InboxSound(d)'
<1>1. InboxSound(d) /\ done[d] \in Nat /\ Len(stream) \in Nat /\ done[d] <= Len(stream)
  BY DEF Inv, Typed, InboxSound
<1>2. \A n \in 1..done[d] : n \in 1..Len(stream) /\ stream[n] \in Ids
  BY <1>1, RowTypes DEF Inv
<1>3. \A n \in 1..done[d] : (stream[n] \in Commits' <=> stream[n] \in Commits) /\ events'[stream[n]] = events[stream[n]]
  BY <1>2, OldRows DEF Inv, EventsGrow
<1>4. \A n \in 1..done[d] : stream[n] \in Held(d)' <=> stream[n] \in Held(d)
  BY <1>2
<1>5. Commits # {} => Commits' # {}
  BY OldRows DEF Inv
<1>6. \A n \in rejected[d] : n \in 1..done[d]
  BY <1>1 DEF InboxSound
<1>7. \A n \in rejected[d] : events'[stream[n]].epoch = 0 /\ epoch'[d] = 1 /\ stream[n] \notin Held(d)'
  BY <1>1, <1>3, <1>4, <1>6 DEF InboxSound
<1> QED BY <1>1, <1>3, <1>4, <1>5, <1>7 DEF InboxSound

LEMMA TranscriptStays ==
    ASSUME Inv, EventsGrow, UNCHANGED <<stream, done>>, NEW d \in Devices, transcript'[d] = transcript[d],
           handled'[d] = handled[d], Written' \cap Rows(d)' \subseteq Ids
    PROVE  TranscriptSound(d)'
<1>1. TranscriptSound(d) /\ Held(d)' = Held(d)
  BY DEF Inv, Held
<1>2. Held(d) \subseteq Written' /\ Written' \cap Rows(d)' \subseteq Held(d)
  BY <1>1, OldRows DEF Inv, TranscriptSound
<1>3. \A i \in Held(d) : Located(d, i)'
  BY <1>1 DEF TranscriptSound, Located
<1> QED BY <1>1, <1>2, <1>3 DEF TranscriptSound

LEMMA OutboxStays ==
    ASSUME Inv, EventsGrow, UNCHANGED <<sent, flushing>>, NEW d \in Devices, Rows(d)' \subseteq Ids,
           blocked' \cap Rows(d) = blocked \cap Rows(d), epoch'[d] = epoch[d]
    PROVE  Waits(d)' /\ Roomy(d)'
<1>1. Rows(d)' = Rows(d)
  BY OldRows DEF Inv, Rows
<1>2. Unsent(d)' = Unsent(d) /\ Flushable(d)' = Flushable(d)
  BY <1>1 DEF Unsent, Flushable
<1> QED BY <1>2 DEF Inv, OutboxSound, Waits, Roomy

----------------------------------------------------------------------------
(* Writing.                                                                *)

\* The next counter of a device is above those of its events, by one at most.
LEMMA FreshCounter ==
    ASSUME Inv, NEW d \in Devices
    PROVE  /\ NextCounter(d) \in Nat /\ NextCounter(d) <= Cardinality(Written) + 1
           /\ \A i \in Written : events[i].from = d => events[i].counter < NextCounter(d)
<1> DEFINE S == {0} \cup {events[i].counter : i \in Held(d) \cap Rows(d)}
           n == Cardinality(Written)
<1>1. Held(d) \subseteq Written /\ Written \cap Rows(d) \subseteq Held(d) /\ Written \subseteq Ids
  BY DEF Inv, TranscriptSound, Written
<1>2. n \in Nat /\ \A i \in Written : events[i].counter \in Nat /\ events[i].counter <= n
  <2>1. IsFiniteSet(Written) /\ \A i \in Written : events[i].counter <= Cardinality(Written)
    BY DEF Inv, EventsSound, CountersSound
  <2>2. \A i \in Written : events[i].counter \in Nat
    BY <1>1, RowTypes DEF Inv
  <2> QED BY <2>1, <2>2, FS_CardinalityType
<1>3. S \subseteq Nat /\ S # {} /\ \A x \in S : x <= n
  BY <1>1, <1>2
<1>4. \A i \in Written : events[i].from = d => events[i].counter \in S
  BY <1>1 DEF Rows
<1>5. NextCounter(d) = 1 + Max(S)
  BY DEF NextCounter
<1> HIDE DEF S, n
<1>6. \E x \in S : \A y \in S : x >= y
  BY <1>2, <1>3, GreatestOne
<1>7. Max(S) \in S /\ \A y \in S : Max(S) >= y
  BY <1>6 DEF Max
<1>8. Max(S) \in Nat /\ Max(S) <= n
  BY <1>3, <1>7
<1>9. NextCounter(d) \in Nat /\ NextCounter(d) <= n + 1
  BY <1>2, <1>5, <1>8
<1>10. \A i \in Written : events[i].from = d => events[i].counter < NextCounter(d)
  BY <1>2, <1>4, <1>5, <1>7, <1>8
<1> QED BY <1>9, <1>10 DEF n

\* One event more: what the rows are then.
LEMMA OneEventMore ==
    ASSUME Typed, NEW e \in Row, e.kind \in Application, NEW k, k = Len(events) + 1, events' = Append(events, e)
    PROVE  /\ EventsGrow /\ events'[k] = e /\ k \notin Ids /\ k \in Nat /\ Ids' = Ids \cup {k}
           /\ Written' = Written \cup {k} /\ Commits' = Commits
           /\ Rows(e.from)' = Rows(e.from) \cup {k} /\ \A x : x # e.from => Rows(x)' = Rows(x)
           /\ \A i \in Ids : i < k
<1>1. /\ events' \in Seq(Row) /\ Len(events') = Len(events) + 1 /\ Len(events) \in Nat
      /\ \A i \in 1..Len(events) : events'[i] = events[i]
      /\ events'[Len(events) + 1] = e
  BY Appended DEF Typed
<1>2. EventsGrow /\ events'[k] = e /\ k \notin Ids /\ k \in Nat /\ \A i \in Ids : i < k
  BY <1>1 DEF EventsGrow, Ids
<1>3. Ids' = Ids \cup {k}
  BY <1>1 DEF Ids
<1>4. \A i \in Ids : events'[i] = events[i]
  BY <1>1 DEF Ids
<1>5. Written' = Written \cup {k}
  BY <1>2, <1>3, <1>4 DEF Written
<1>6. Commits' = Commits
  <2>1. e.kind # "commit"
    BY DEF Application
  <2> QED BY <1>2, <1>3, <1>4, <2>1 DEF Commits
<1>7. Rows(e.from)' = Rows(e.from) \cup {k} /\ \A x : x # e.from => Rows(x)' = Rows(x)
  BY <1>2, <1>3, <1>4 DEF Rows
<1> QED BY <1>2, <1>3, <1>5, <1>6, <1>7

\* encrypt_event preserves the invariant, whoever writes what.
LEMMA EncryptInv ==
    ASSUME Inv, NEW d \in Devices, NEW kind \in Application, NEW target \in Nat, target <= Len(events),
           kind = "edit" => target \in Ids /\ events[target].from = d,
           kind = "answer" => target \in handled'[d] /\ target \notin handled[d],
           encrypt_event(d, kind, target),
           \A x \in Devices \ {d} : handled'[x] = handled[x],
           handled[d] \subseteq handled'[d], handled'[d] \subseteq Held(d),
           DOMAIN handled' = Devices, handled' = [x \in Devices |-> handled'[x]],
           UNCHANGED <<sent, blocked, stream, revoked, knows, epoch, done, rejected, flushing, lost>>
    PROVE  Inv'
<1>1. PICK k : k = Len(events) + 1
  OBVIOUS
<1>2. PICK e : e = Event(d, kind, target)
  OBVIOUS
<1>3. /\ Cardinality(Written) < MaxEvents /\ d \notin flushing /\ HasRoom(d, 1, 0)
      /\ events' = Append(events, e)
      /\ transcript' = [transcript EXCEPT ![d] = With(@, k, 0)]
  BY <1>1, <1>2 DEF encrypt_event
<1>4. /\ e \in Row /\ e.from = d /\ e.kind = kind /\ e.target = target /\ e.counter = NextCounter(d)
      /\ e.epoch = epoch[d]
  <2>1. epoch[d] \in {0, 1} /\ NextCounter(d) \in Nat
    BY FreshCounter DEF Inv, Typed
  <2> QED BY <1>2, <2>1 DEF Event, Row
<1>5. /\ EventsGrow /\ events'[k] = e /\ k \notin Ids /\ k \in Nat /\ Ids' = Ids \cup {k}
      /\ Written' = Written \cup {k} /\ Commits' = Commits
      /\ Rows(d)' = Rows(d) \cup {k} /\ \A x : x # d => Rows(x)' = Rows(x)
      /\ \A i \in Ids : i < k
  BY <1>1, <1>3, <1>4, OneEventMore DEF Inv
<1>6. \A i \in Ids : events'[i] = events[i]
  BY <1>5 DEF EventsGrow
<1>7. /\ DOMAIN transcript' = Devices /\ transcript' = [x \in Devices |-> transcript'[x]]
      /\ transcript'[d] = With(transcript[d], k, 0) /\ \A x \in Devices \ {d} : transcript'[x] = transcript[x]
  BY <1>3 DEF Inv, Typed
<1>8. StreamSound' /\ \A n \in 1..Len(stream) : stream[n] \in Messages'
  BY <1>5, StreamStays
<1>9. Typed'
  <2>1. events' \in Seq(Row)
    BY <1>5 DEF EventsGrow
  <2> QED BY <1>7, <1>8, <2>1 DEF Inv, Typed
<1>10. /\ transcript'[d] \in [Held(d) \cup {k} -> Nat] /\ transcript'[d][k] = 0
       /\ \A j \in Held(d) : transcript'[d][j] = transcript[d][j]
       /\ Held(d)' = Held(d) \cup {k} /\ Held(d) \subseteq Ids
  <2>1. transcript[d] \in [Held(d) -> Nat] /\ Held(d) \subseteq Ids
    BY DEF Inv, TranscriptSound, Written
  <2>2. transcript'[d] \in [Held(d) \cup {k} -> Nat] /\ transcript'[d][k] = 0
        /\ \A j \in Held(d) \ {k} : transcript'[d][j] = transcript[d][j]
    BY <1>7, <2>1 DEF With
  <2>3. Held(d)' = Held(d) \cup {k}
    BY <2>2 DEF Held
  <2> QED BY <1>5, <2>1, <2>2, <2>3
<1>11. ASSUME NEW x \in Devices PROVE InboxSound(x)'
  <2>1. Held(x) \subseteq Held(x)' /\ Held(x)' \cap Ids = Held(x) \cap Ids
    <3>1. CASE x = d
      BY <1>5, <1>10, <3>1
    <3>2. CASE x # d
      BY <1>7, <3>2 DEF Held
    <3> QED BY <3>1, <3>2
  <2> QED BY <1>5, <2>1, InboxStays
<1>12. ASSUME NEW x \in Devices PROVE TranscriptSound(x)'
  <2>1. CASE x # d
    <3>1. Rows(x)' \subseteq Ids
      BY <1>5, <2>1 DEF Rows
    <3> QED BY <1>5, <1>7, <2>1, <3>1, TranscriptStays
  <2>2. CASE x = d
    <3>1. TranscriptSound(d) /\ done[d] \in Nat /\ done[d] <= Len(stream) /\ Len(stream) \in Nat
      BY RowTypes DEF Inv, Typed, InboxSound
    <3>2. \A n \in 1..done[d] : stream[n] # k
      <4>1. \A n \in 1..Len(stream) : stream[n] \in Ids
        BY RowTypes DEF Inv
      <4> QED BY <1>5, <3>1, <4>1
    <3>3. Located(d, k)'
      BY <1>10, <3>2 DEF Located
    <3>4. ASSUME NEW j \in Held(d) PROVE Located(d, j)'
      BY <1>10, <3>1 DEF TranscriptSound, Located
    <3>5. \A j \in Held(d) \cup {k} : Located(d, j)'
      BY <3>3, <3>4
    <3>6. Held(d) \cup {k} \subseteq Written' /\ Written' \cap Rows(d)' \subseteq Held(d) \cup {k}
      BY <1>5, <3>1 DEF TranscriptSound
    <3> QED BY <1>10, <2>2, <3>5, <3>6 DEF TranscriptSound
  <2> QED BY <2>1, <2>2
<1>13. ASSUME NEW x \in Devices PROVE Waits(x)' /\ Roomy(x)'
  <2>1. CASE x # d
    <3>1. Rows(x)' \subseteq Ids
      BY <1>5, <2>1 DEF Rows
    <3> QED BY <1>5, <2>1, <3>1, OutboxStays
  <2>2. CASE x = d
    <3>1. k \notin sent
      BY <1>5 DEF Inv, OutboxSound
    <3>2. Unsent(d)' = Unsent(d) \cup {k} /\ k \notin Unsent(d)
      BY <1>5, <3>1 DEF Unsent, Rows
    <3>3. IsFiniteSet(Unsent(d)) /\ Cardinality(Unsent(d)) \in Nat /\ Cardinality(Unsent(d)) + 1 <= PendingLimit
      BY <1>3, Limits, FS_CardinalityType DEF Inv, OutboxSound, Roomy, HasRoom
    <3>4. /\ IsFiniteSet(Unsent(d) \cup {k})
          /\ Cardinality(Unsent(d) \cup {k}) = Cardinality(Unsent(d)) + 1
      BY <3>2, <3>3, FS_AddElement
    <3>5. Roomy(d)'
      BY <3>2, <3>3, <3>4, Limits DEF Roomy
    <3>6. Waits(d)'
      BY <1>3 DEF Waits
    <3> QED BY <2>2, <3>5, <3>6
  <2> QED BY <2>1, <2>2
<1>14. OutboxSound'
  BY <1>5, <1>13 DEF Inv, OutboxSound
<1>15. RowSound(k)' /\ Rekeyed(k)'
  <2>1. target \in 0..(k - 1)
    BY <1>1, RowTypes DEF Inv
  <2>2. RowSound(k)'
    BY <1>4, <1>5, <1>6, <2>1 DEF RowSound, Application
  <2>3. CASE epoch[d] = 1 /\ d = Coordinator
    <3>1. PICK c : c \in Commits
      BY <2>3 DEF Inv, InboxSound
    <3>2. c < k
      BY <1>5, <3>1 DEF Commits
    <3> QED BY <1>4, <1>5, <2>2, <2>3, <3>1, <3>2 DEF Rekeyed
  <2>4. CASE epoch[d] = 1 /\ d # Coordinator
    <3>1. done[d] \in Nat /\ Len(stream) \in Nat /\ done[d] <= Len(stream)
      BY RowTypes DEF Inv, Typed, InboxSound
    <3>2. PICK n \in 1..done[d] : stream[n] \in Commits
      BY <2>4 DEF Inv, InboxSound
    <3>3. n \in 1..Len(stream)
      BY <3>1
    <3> QED BY <1>4, <1>5, <2>2, <2>4, <3>2, <3>3 DEF Rekeyed
  <2>5. CASE epoch[d] # 1
    BY <1>4, <1>5, <2>2, <2>5 DEF Rekeyed
  <2> QED BY <2>3, <2>4, <2>5
<1>16. CountersSound'
  <2>1. /\ IsFiniteSet(Written) /\ k \notin Written /\ Written \subseteq Ids /\ Cardinality(Written) \in Nat
    BY <1>5, FS_CardinalityType DEF Inv, EventsSound, CountersSound, Written
  <2>2. /\ IsFiniteSet(Written \cup {k}) /\ Cardinality(Written \cup {k}) = Cardinality(Written) + 1
    BY <2>1, FS_AddElement
  <2>3. IsFiniteSet(Written') /\ Cardinality(Written') = Cardinality(Written) + 1 /\ Cardinality(Written') <= MaxEvents
    BY <1>3, <1>5, <2>1, <2>2, Limits
  <2>4. /\ e.counter \in Nat /\ e.counter <= Cardinality(Written) + 1
        /\ \A i \in Written : events[i].from = d => events[i].counter < e.counter
    BY <1>4, FreshCounter
  <2>5. /\ \A i \in Written : events[i].counter \in Nat /\ events[i].counter <= Cardinality(Written)
        /\ \A i, j \in Written :
              events[i].from = events[j].from /\ i < j => events[i].counter < events[j].counter
    BY <2>1, RowTypes DEF Inv, EventsSound, CountersSound
  <2>6. \A i \in Written' : events'[i].counter <= Cardinality(Written')
    <3>1. ASSUME NEW i \in Written PROVE events'[i].counter <= Cardinality(Written) + 1
      BY <1>6, <2>1, <2>5
    <3> QED BY <1>5, <2>3, <2>4, <3>1
  <2>7. ASSUME NEW i \in Written', NEW j \in Written', events'[i].from = events'[j].from, i < j
        PROVE  events'[i].counter < events'[j].counter
    <3>1. i \in Written
      <4>1. Ids \subseteq Nat
        BY RowTypes DEF Inv
      <4> QED BY <1>5, <2>1, <2>7, <4>1
    <3>2. events'[i] = events[i]
      BY <1>6, <2>1, <3>1
    <3>3. CASE j \in Written
      BY <1>6, <2>1, <2>5, <2>7, <3>1, <3>2, <3>3
    <3>4. CASE j = k
      BY <1>4, <1>5, <2>4, <2>7, <3>1, <3>2, <3>4
    <3> QED BY <1>5, <3>3, <3>4
  <2>8. \A i, j \in Commits' : i = j
    BY <1>5 DEF Inv, EventsSound, CountersSound
  <2>9. AnswersOnce'
    <3>1. AnswersOnce /\ \A i \in Ids : events[i].kind = "answer" => events[i].target \in handled[events[i].from]
      BY DEF Inv, EventsSound, CountersSound, RowSound
    <3>2. ASSUME NEW i \in Ids, events[i].kind = "answer", kind = "answer", events[i].from = d,
                 events[i].target = target
          PROVE  FALSE
      BY <3>1, <3>2
    <3> QED BY <1>4, <1>5, <1>6, <3>1, <3>2 DEF AnswersOnce
  <2> QED BY <2>3, <2>6, <2>7, <2>8, <2>9 DEF CountersSound
<1>17. EventsSound'
  <2>1. \A x \in Devices : handled[x] \subseteq handled'[x]
    OBVIOUS
  <2>2. \A i \in Ids : RowSound(i)' /\ Rekeyed(i)'
    BY <1>5, <2>1, OldRowsSound
  <2> QED BY <1>5, <1>15, <1>16, <2>2 DEF EventsSound
<1> QED BY <1>8, <1>9, <1>11, <1>12, <1>14, <1>17 DEF Inv

\* Send and Respond preserve the invariant: a participant marks the request it answers.
LEMMA SendInv ==
    ASSUME Inv, NEW d \in Devices, NEW kind \in Composed, NEW target \in 0..Len(events), Send(d, kind, target)
    PROVE  Inv'
<1>1. /\ validate_relation(d, kind, target) /\ encrypt_event(d, kind, target)
      /\ UNCHANGED <<sent, blocked, stream, revoked, knows, epoch, done, rejected, flushing, lost>>
      /\ UNCHANGED handled
  BY DEF Send, membership, inbox
<1>2. kind \in Application /\ kind # "answer"
  BY Limits
<1>3. Held(d) \subseteq Ids /\ handled[d] \subseteq Held(d)
  BY DEF Inv, TranscriptSound, Written
<1>4. kind = "edit" => target \in Ids /\ events[target].from = d
  BY <1>1, <1>3 DEF validate_relation
<1>5. target \in Nat /\ target <= Len(events)
  BY RowTypes DEF Inv
<1>6. DOMAIN handled' = Devices /\ handled' = [x \in Devices |-> handled'[x]]
  BY <1>1 DEF Inv, Typed
<1> QED BY <1>1, <1>2, <1>3, <1>4, <1>5, <1>6, EncryptInv

LEMMA RespondInv ==
    ASSUME Inv, NEW d \in Devices, Respond(d)
    PROVE  Inv'
<1>1. PICK i \in Asked(d) : /\ handled' = [handled EXCEPT ![d] = @ \cup {i}]
                            /\ encrypt_event(d, "answer", i)
  BY DEF Respond
<1>2. UNCHANGED <<sent, blocked, stream, revoked, knows, epoch, done, rejected, flushing, lost>>
  BY DEF Respond, membership, inbox
<1>3. Held(d) \subseteq Ids /\ handled[d] \subseteq Held(d) /\ Asked(d) \subseteq Held(d) \ handled[d]
  BY DEF Inv, TranscriptSound, Written, Asked
<1>4. i \in Held(d) /\ i \notin handled[d] /\ i \in Nat /\ i <= Len(events)
  <2>1. i \in Ids
    BY <1>1, <1>3
  <2> QED BY <1>1, <1>3, <2>1, RowTypes DEF Inv
<1>5. /\ DOMAIN handled' = Devices /\ handled' = [x \in Devices |-> handled'[x]]
      /\ handled'[d] = handled[d] \cup {i} /\ \A x \in Devices \ {d} : handled'[x] = handled[x]
  BY <1>1 DEF Inv, Typed
<1>6. "answer" \in Application /\ "answer" # "edit"
  BY DEF Application
<1>7. /\ handled[d] \subseteq handled'[d] /\ handled'[d] \subseteq Held(d)
      /\ i \in handled'[d]
  BY <1>3, <1>4, <1>5
<1> QED BY <1>1, <1>2, <1>4, <1>5, <1>6, <1>7, EncryptInv

\* reconcile_revocations preserves the invariant: nothing was removed before, and the
\* reserve takes both rows.
LEMMA ReconcileInv ==
    ASSUME Inv, reconcile_revocations
    PROVE  Inv'
<1>1. PICK d : d = Coordinator
  OBVIOUS
<1>2. PICK k : k = Len(events) + 1
  OBVIOUS
<1>3. PICK p : p = Event(d, "policy", 0)
  OBVIOUS
<1>4. PICK c : c = Event(d, "commit", 0)
  OBVIOUS
<1>5. /\ d \notin flushing /\ epoch[d] = 0 /\ HasRoom(d, 2, Reserve)
      /\ events' = events \o <<p, c>> /\ blocked' = blocked \cup Blockable(d)
      /\ epoch' = [epoch EXCEPT ![d] = 1]
      /\ UNCHANGED <<sent, stream, revoked, knows, done, rejected, transcript, handled, flushing, lost>>
  BY <1>1, <1>3, <1>4 DEF reconcile_revocations, RekeyPending, inbox
<1>6. d \in Devices
  BY <1>1, Limits
<1>7. /\ p \in Row /\ p.from = d /\ p.kind = "policy" /\ p.target = 0 /\ p.counter = 0 /\ p.epoch = 0
      /\ c \in Row /\ c.from = d /\ c.kind = "commit" /\ c.target = 0 /\ c.counter = 0 /\ c.epoch = 0
  BY <1>3, <1>4, <1>5, <1>6 DEF Event, Row, Application
<1>8. /\ EventsGrow /\ events'[k] = p /\ events'[k + 1] = c /\ k \in Nat /\ k \notin Ids /\ k + 1 \notin Ids
      /\ Ids' = Ids \cup {k, k + 1} /\ Written' = Written /\ Commits' = Commits \cup {k + 1}
      /\ Rows(d)' = Rows(d) \cup {k, k + 1} /\ \A x : x # d => Rows(x)' = Rows(x)
  <2>1. events \in Seq(Row) /\ Len(events) \in Nat
    BY DEF Inv, Typed
  <2>2. <<p, c>> \in Seq(Row) /\ Len(<<p, c>>) = 2 /\ <<p, c>>[1] = p /\ <<p, c>>[2] = c
    BY <1>7
  <2>3. /\ events' \in Seq(Row) /\ Len(events') = Len(events) + 2
        /\ \A i \in 1..Len(events) : events'[i] = events[i]
        /\ events'[Len(events) + 1] = p /\ events'[Len(events) + 2] = c
    BY <1>5, <2>1, <2>2
  <2>4. EventsGrow /\ events'[k] = p /\ events'[k + 1] = c /\ k \in Nat /\ k \notin Ids /\ k + 1 \notin Ids
    BY <1>2, <2>1, <2>3 DEF EventsGrow, Ids
  <2>5. Ids' = Ids \cup {k, k + 1}
    <3>1. \A n \in Nat : 1..(n + 2) = (1..n) \cup {n + 1, n + 2}
      OBVIOUS
    <3>2. k + 1 = Len(events) + 2
      BY <1>2, <2>1
    <3> QED BY <1>2, <2>1, <2>3, <3>1, <3>2 DEF Ids
  <2>6. \A i \in Ids : events'[i] = events[i]
    BY <2>3 DEF Ids
  <2>7. Written' = Written
    <3>1. p.kind \notin Application /\ c.kind \notin Application
      BY <1>7 DEF Application
    <3> QED BY <2>4, <2>5, <2>6, <3>1 DEF Written
  <2>8. Commits' = Commits \cup {k + 1}
    BY <1>7, <2>4, <2>5, <2>6 DEF Commits
  <2>9. Rows(d)' = Rows(d) \cup {k, k + 1} /\ \A x : x # d => Rows(x)' = Rows(x)
    BY <1>7, <2>4, <2>5, <2>6 DEF Rows
  <2> QED BY <2>4, <2>5, <2>7, <2>8, <2>9
<1>9. \A i \in Ids : events'[i] = events[i]
  BY <1>8 DEF EventsGrow
<1>10. Commits = {}
  BY <1>1, <1>5 DEF Commits, Inv, EventsSound, RowSound
<1>11. epoch' \in [Devices -> {0, 1}] /\ epoch'[d] = 1 /\ \A x \in Devices \ {d} : epoch'[x] = epoch[x]
  BY <1>5, <1>6 DEF Inv, Typed
<1>12. StreamSound' /\ \A n \in 1..Len(stream) : stream[n] \in Messages'
  BY <1>5, <1>8, StreamStays
<1>13. Typed'
  <2>1. events' \in Seq(Row)
    BY <1>8 DEF EventsGrow
  <2> QED BY <1>5, <1>11, <1>12, <2>1 DEF Inv, Typed
<1>14. ASSUME NEW x \in Devices PROVE InboxSound(x)' /\ TranscriptSound(x)'
  <2>1. Held(x)' = Held(x)
    BY <1>5 DEF Held
  <2>2. epoch'[x] = epoch[x] \/ (x = Coordinator /\ epoch'[x] = 1 /\ Commits' # {})
    BY <1>1, <1>8, <1>11
  <2>3. Written' \cap Rows(x)' \subseteq Ids
    BY <1>8 DEF Written
  <2>4. UNCHANGED <<stream, done, rejected>> /\ transcript'[x] = transcript[x] /\ handled'[x] = handled[x]
    BY <1>5
  <2>5. Held(x) \subseteq Held(x)' /\ Held(x)' \cap Ids = Held(x) \cap Ids
    BY <2>1
  <2> QED BY <1>8, <2>2, <2>3, <2>4, <2>5, InboxStays, TranscriptStays
<1>15. ASSUME NEW x \in Devices PROVE Waits(x)' /\ Roomy(x)'
  <2>1. CASE x # d
    <3>1. Rows(x)' \subseteq Ids
      BY <1>8, <2>1 DEF Rows
    <3>2. blocked' \cap Rows(x) = blocked \cap Rows(x)
      BY <1>5, <2>1, BlockableRows
    <3> QED BY <1>5, <1>8, <1>11, <2>1, <3>1, <3>2, OutboxStays
  <2>2. CASE x = d
    <3>1. k \notin sent /\ k + 1 \notin sent
      BY <1>8 DEF Inv, OutboxSound
    <3>2. Unsent(d)' = (Unsent(d) \cup {k}) \cup {k + 1} /\ k \notin Unsent(d) /\ k + 1 \notin Unsent(d) \cup {k}
      <4>1. Rows(d)' \ sent = ((Rows(d) \ sent) \cup {k}) \cup {k + 1}
        BY <1>8, <3>1
      <4>2. k \notin Rows(d) /\ k + 1 \notin Rows(d) /\ k # k + 1
        BY <1>8 DEF Rows
      <4> QED BY <1>5, <4>1, <4>2 DEF Unsent
    <3>3. /\ IsFiniteSet(Unsent(d)) /\ Cardinality(Unsent(d)) \in Nat
          /\ Cardinality(Unsent(d)) + 2 <= PendingLimit + Reserve
      BY <1>5, <1>6, FS_CardinalityType DEF Inv, OutboxSound, Roomy, HasRoom
    <3>4. /\ IsFiniteSet(Unsent(d) \cup {k})
          /\ Cardinality(Unsent(d) \cup {k}) = Cardinality(Unsent(d)) + 1
      BY <3>2, <3>3, FS_AddElement
    <3>5. /\ IsFiniteSet((Unsent(d) \cup {k}) \cup {k + 1})
          /\ Cardinality((Unsent(d) \cup {k}) \cup {k + 1}) = Cardinality(Unsent(d) \cup {k}) + 1
      BY <3>2, <3>4, FS_AddElement
    <3>6. Cardinality((Unsent(d) \cup {k}) \cup {k + 1}) <= PendingLimit + Reserve
      BY <3>3, <3>4, <3>5, Limits
    <3>7. Roomy(d)'
      BY <1>11, <3>2, <3>5, <3>6 DEF Roomy
    <3>8. Waits(d)'
      BY <1>5 DEF Waits
    <3> QED BY <2>2, <3>7, <3>8
  <2> QED BY <2>1, <2>2
<1>16. OutboxSound'
  <2>1. blocked' \subseteq Written /\ sent \cap blocked' = {}
    BY <1>5, BlockableRows DEF Inv, OutboxSound
  <2> QED BY <1>5, <1>8, <1>15, <2>1 DEF Inv, OutboxSound
<1>17. /\ RowSound(k)' /\ Rekeyed(k)' /\ RowSound(k + 1)' /\ Rekeyed(k + 1)'
  <2>1. 0 \in 0..(k - 1) /\ 0 \in 0..k /\ k + 1 - 1 = k
    BY <1>2, RowTypes DEF Inv
  <2>2. RowSound(k)' /\ Rekeyed(k)'
    BY <1>1, <1>7, <1>8, <1>11, <2>1 DEF RowSound, Rekeyed
  <2>3. RowSound(k + 1)' /\ Rekeyed(k + 1)'
    BY <1>1, <1>7, <1>8, <1>11, <2>1 DEF RowSound, Rekeyed
  <2> QED BY <2>2, <2>3
<1>18. CountersSound'
  <2>1. Written \subseteq Ids
    BY DEF Written
  <2>2. AnswersOnce'
    <3>1. AnswersOnce
      BY DEF Inv, EventsSound, CountersSound
    <3>2. \A i \in Ids' : events'[i].kind = "answer" => i \in Ids
      BY <1>7, <1>8
    <3> QED BY <1>9, <3>1, <3>2 DEF AnswersOnce
  <2>3. \A i, j \in Commits' : i = j
    BY <1>8, <1>10
  <2> QED BY <1>8, <1>9, <2>1, <2>2, <2>3 DEF Inv, EventsSound, CountersSound
<1>19. EventsSound'
  <2>1. \A x \in Devices : handled[x] \subseteq handled'[x]
    BY <1>5
  <2>2. epoch[Coordinator] = 1 => epoch'[Coordinator] = 1
    BY <1>1, <1>5
  <2>3. UNCHANGED stream
    BY <1>5
  <2>4. \A i \in Ids : RowSound(i)' /\ Rekeyed(i)'
    BY <1>8, <2>1, <2>2, <2>3, OldRowsSound
  <2> QED BY <1>8, <1>17, <1>18, <2>4 DEF EventsSound
<1> QED BY <1>12, <1>13, <1>14, <1>16, <1>19 DEF Inv

----------------------------------------------------------------------------
(* The invariant holds.                                                    *)

LEMMA InitInv ==
    ASSUME Init
    PROVE  Inv
<1>1. /\ events = <<>> /\ sent = {} /\ blocked = {} /\ stream = <<>> /\ knows = {} /\ flushing = {} /\ lost = 0
      /\ epoch = [d \in Devices |-> 0] /\ done = [d \in Devices |-> 0] /\ rejected = [d \in Devices |-> {}]
      /\ transcript = [d \in Devices |-> <<>>] /\ handled = [d \in Devices |-> {}]
  BY DEF Init
<1>2. revoked \in BOOLEAN
  BY Zenon DEF Init
<1>3. Len(events) = 0 /\ Len(stream) = 0 /\ 1..0 = {}
  BY <1>1
<1>4. Ids = {} /\ Written = {} /\ Commits = {} /\ Messages = {} /\ \A d : Rows(d) = {} /\ Unsent(d) = {} /\ Flushable(d) = {}
  BY <1>3 DEF Ids, Written, Commits, Messages, Rows, Unsent, Flushable
<1>5. Typed
  <2>1. events \in Seq(Row) /\ stream \in Seq(Nat)
    BY <1>1
  <2>2. \A n \in 1..Len(stream) : stream[n] \in Messages
    BY <1>3
  <2>3. lost \in 0..MaxLost
    BY <1>1, Limits
  <2>4. DOMAIN rejected = Devices /\ DOMAIN handled = Devices /\ DOMAIN transcript = Devices
    BY <1>1
  <2>5. /\ transcript = [d \in Devices |-> transcript[d]] /\ rejected = [d \in Devices |-> rejected[d]]
        /\ handled = [d \in Devices |-> handled[d]]
    BY <1>1
  <2>6. epoch \in [Devices -> {0, 1}] /\ done \in [Devices -> Nat] /\ knows \subseteq Devices /\ flushing \subseteq Devices
    BY <1>1
  <2> QED BY <1>2, <2>1, <2>2, <2>3, <2>4, <2>5, <2>6 DEF Typed
<1>6. IsFiniteSet({}) /\ Cardinality({}) = 0
  BY FS_EmptySet
<1>7. EventsSound
  BY <1>4, <1>6, Limits DEF EventsSound, CountersSound, AnswersOnce
<1>8. OutboxSound
  <2>1. ASSUME NEW d \in Devices PROVE Waits(d) /\ Roomy(d)
    <3>1. Unsent(d) = {} /\ 0 <= PendingLimit /\ 0 <= PendingLimit + Reserve
      BY <1>4, Limits
    <3> QED BY <1>1, <1>6, <3>1 DEF Waits, Roomy
  <2> QED BY <1>1, <2>1 DEF OutboxSound
<1>9. StreamSound
  <2>1. sent \cap Messages = {}
    BY <1>1
  <2> QED BY <1>1, <1>3, <1>6, <2>1 DEF StreamSound
<1>10. ASSUME NEW d \in Devices PROVE InboxSound(d) /\ TranscriptSound(d)
  <2>1. done[d] = 0 /\ rejected[d] = {} /\ epoch[d] = 0 /\ handled[d] = {} /\ transcript[d] = <<>>
    BY <1>1
  <2>2. transcript[d] \in [{} -> Nat] /\ Held(d) = {}
    BY <2>1 DEF Held
  <2>3. InboxSound(d)
    BY <1>3, <2>1 DEF InboxSound
  <2>4. TranscriptSound(d)
    BY <1>4, <2>1, <2>2 DEF TranscriptSound
  <2> QED BY <2>3, <2>4
<1> QED BY <1>5, <1>7, <1>8, <1>9, <1>10 DEF Inv

LEMMA NextInv ==
    ASSUME Inv, [Next]_vars
    PROVE  Inv'
<1>1. ASSUME NEW d \in Devices, NEW kind \in Composed, NEW target \in 0..Len(events), Send(d, kind, target)
      PROVE  Inv'
  BY <1>1, SendInv
<1>2. ASSUME NEW d \in Devices, NEW again \in BOOLEAN, Publish(d, again) \/ PublishLost(d, again)
      PROVE  Inv'
  BY <1>2, PublishInv, PublishLostInv
<1>3. ASSUME NEW d \in Devices, Respond(d) \/ Audit(d) \/ Process(d)
      PROVE  Inv'
  BY <1>3, RespondInv, AuditInv, ProcessInv
<1>4. CASE Revoke \/ UNCHANGED vars
  BY <1>4, RevokeInv
<1>5. CASE reconcile_revocations
  BY <1>5, ReconcileInv
<1> QED BY <1>1, <1>2, <1>3, <1>4, <1>5 DEF Next

LEMMA Invariant == Spec => []Inv
<1>1. Init => Inv
  BY InitInv
<1>2. Inv /\ [Next]_vars => Inv'
  BY NextInv
<1> QED BY <1>1, <1>2, PTL DEF Spec

----------------------------------------------------------------------------
(* What the invariant says.                                                *)

\* However much is repeated, the stream is bounded.
LEMMA StreamBound ==
    ASSUME Inv
    PROVE  Len(stream) <= MaxEvents + MaxLost + 1
<1>1. IsFiniteSet(Written) /\ Cardinality(Written) \in Nat /\ Cardinality(Written) <= MaxEvents
  BY FS_CardinalityType DEF Inv, EventsSound, CountersSound
<1>2. Messages = Written \cup Commits /\ \A i, j \in Commits : i = j
  BY RowTypes DEF Inv, EventsSound, CountersSound, Messages, Written, Commits, Application
<1>3. IsFiniteSet(Messages) /\ Cardinality(Messages) \in Nat /\ Cardinality(Messages) <= MaxEvents + 1
  <2>1. CASE Commits = {}
    BY <1>1, <1>2, <2>1, Limits
  <2>2. CASE Commits # {}
    <3>1. PICK c : Commits = {c}
      BY <1>2, <2>2
    <3>2. c \notin Written
      BY <3>1, CommitsApart
    <3>3. IsFiniteSet(Written \cup {c}) /\ Cardinality(Written \cup {c}) = Cardinality(Written) + 1
      BY <1>1, <3>2, FS_AddElement
    <3> QED BY <1>1, <1>2, <3>1, <3>3, Limits
  <2> QED BY <2>1, <2>2
<1>4. Cardinality(sent \cap Messages) <= Cardinality(Messages) /\ Cardinality(sent \cap Messages) \in Nat
  <2>1. sent \cap Messages \in SUBSET Messages
    OBVIOUS
  <2> QED BY <1>3, <2>1, FS_Subset, FS_CardinalityType
<1>5. Len(stream) \in Nat /\ lost \in Nat /\ lost <= MaxLost /\ Len(stream) <= Cardinality(sent \cap Messages) + lost
  BY RowTypes, Limits DEF Inv, Typed, StreamSound
<1> QED BY <1>3, <1>4, <1>5, Limits

\* Once processed, an event carries its first sequence.
LEMMA Earliest ==
    ASSUME Inv, NEW d \in Devices, NEW i \in Held(d), NEW n \in 1..done[d], stream[n] = i
    PROVE  transcript[d][i] = FirstIn(stream, i)
<1> DEFINE at == transcript[d][i]
           f == FirstIn(stream, i)
<1>1. done[d] \in Nat /\ Len(stream) \in Nat /\ done[d] <= Len(stream) /\ stream \in Seq(Nat)
  BY RowTypes DEF Inv, Typed, InboxSound
<1>2. Located(d, i)
  BY DEF Inv, TranscriptSound
<1>3. at # 0 /\ at <= n /\ at \in 1..Len(stream) /\ stream[at] = i
  BY <1>2 DEF Located
<1>4. f \in 1..Len(stream) /\ stream[f] = i /\ f <= at
  BY <1>1, <1>3, FirstOccurrence
<1> HIDE DEF f
<1>5. f \in 1..done[d]
  BY <1>1, <1>3, <1>4
<1>6. at <= f
  BY <1>2, <1>4, <1>5 DEF Located
<1>7. at = f
  BY <1>3, <1>4, <1>6
<1> QED BY <1>7 DEF f

\* When everybody is settled, everybody holds every event at its first sequence.
LEMMA SettledTranscript ==
    ASSUME Inv, \A x \in Devices : done[x] = Len(stream) /\ Unsent(x) = {} /\ rejected[x] = {}, NEW d \in Devices
    PROVE  transcript[d] = [i \in Written |-> FirstIn(stream, i)]
<1>1. ASSUME NEW i \in Written PROVE i \in Held(d) /\ transcript[d][i] = FirstIn(stream, i)
  <2>1. i \in Ids /\ events[i].from \in Devices /\ i \in Messages
    BY RowTypes DEF Written, Inv, Messages, Application
  <2>2. i \in sent
    BY <2>1 DEF Unsent, Rows
  <2>3. PICK n \in 1..Len(stream) : stream[n] = i
    BY <2>1, <2>2 DEF Inv, StreamSound
  <2>4. n \in 1..done[d]
    BY <2>3
  <2>5. i \in Held(d)
    BY <2>3, <2>4, CommitsApart DEF Inv, InboxSound
  <2> QED BY <2>3, <2>4, <2>5, Earliest
<1>2. transcript[d] \in [Held(d) -> Nat] /\ Held(d) \subseteq Written
  BY DEF Inv, TranscriptSound
<1>3. transcript[d] \in [Written -> Nat]
  BY <1>1, <1>2
<1> QED BY <1>1, <1>3

LEMMA SameConversation ==
    ASSUME NEW c, NEW d, transcript[c] = transcript[d]
    PROVE  conversation(c) = conversation(d)
<1>1. Held(c) = Held(d)
  BY DEF Held
<1>2. ASSUME NEW r, NEW kinds, NEW from PROVE Updates(c, r, kinds, from) = Updates(d, r, kinds, from)
  BY <1>1 DEF Updates
<1>3. ASSUME NEW r PROVE Shown(c, r) = Shown(d, r) /\ Reacts(c, r) = Reacts(d, r)
  BY <1>2 DEF Shown, Reacts
<1> QED BY <1>1, <1>3 DEF conversation

LEMMA InvTypeOK ==
    ASSUME Inv
    PROVE  TypeOK
<1>1. ASSUME NEW i \in Ids
      PROVE  events[i] \in [from : Devices, kind : Application \cup {"policy", "commit"}, target : 0..Len(events),
                            counter : 0..MaxEvents, epoch : {0, 1}]
  <2>1. events[i] \in Row /\ RowSound(i) /\ i \in 1..Len(events) /\ Len(events) \in Nat
    BY RowTypes DEF Inv, EventsSound
  <2>2. events[i].target \in 0..Len(events)
    BY <2>1 DEF RowSound
  <2>3. events[i].counter \in 0..MaxEvents
    <3>1. CASE i \in Written
      <4>1. IsFiniteSet(Written) /\ events[i].counter <= Cardinality(Written) /\ Cardinality(Written) <= MaxEvents
        BY <3>1 DEF Inv, EventsSound, CountersSound
      <4>2. events[i].counter \in Nat /\ Cardinality(Written) \in Nat
        BY <2>1, <4>1, FS_CardinalityType DEF Row
      <4> QED BY <4>1, <4>2, Limits
    <3>2. CASE i \notin Written
      BY <2>1, <3>2, Limits DEF Row, Written, RowSound
    <3> QED BY <3>1, <3>2
  <2> QED BY <2>1, <2>2, <2>3 DEF Row
<1>2. /\ sent \subseteq Ids /\ blocked \subseteq Ids /\ sent \cap blocked = {}
      /\ \A n \in 1..Len(stream) : stream[n] \in Ids
  BY RowTypes DEF Inv, OutboxSound, Written
<1>3. /\ revoked \in BOOLEAN /\ knows \subseteq Devices
      /\ epoch \in [Devices -> {0, 1}] /\ flushing \subseteq Devices /\ lost \in 0..MaxLost
  BY DEF Inv, Typed
<1>4. ASSUME NEW d \in Devices
      PROVE  /\ done[d] <= Len(stream) /\ rejected[d] \subseteq 1..done[d]
             /\ Held(d) \subseteq Written /\ handled[d] \subseteq Held(d)
             /\ \A i \in Held(d) : transcript[d][i] \in Positions
             /\ HasRoom(d, 0, Reserve)
  <2>1. done[d] <= Len(stream) /\ rejected[d] \subseteq 1..done[d] /\ Held(d) \subseteq Written /\ handled[d] \subseteq Held(d)
    BY DEF Inv, InboxSound, TranscriptSound
  <2>2. ASSUME NEW i \in Held(d) PROVE transcript[d][i] \in Positions
    <3>1. Located(d, i) /\ transcript[d][i] \in Nat
      BY DEF Inv, TranscriptSound
    <3>2. Len(stream) \in Nat /\ Len(stream) <= MaxEvents + MaxLost + 1
      BY RowTypes, StreamBound DEF Inv
    <3> QED BY <3>1, <3>2, Limits DEF Located, Positions
  <2>3. HasRoom(d, 0, Reserve)
    <3>1. IsFiniteSet(Unsent(d)) /\ Cardinality(Unsent(d)) <= PendingLimit + Reserve
      BY DEF Inv, OutboxSound, Roomy
    <3>2. Cardinality(Unsent(d)) \in Nat
      BY <3>1, FS_CardinalityType
    <3> QED BY <3>1, <3>2, Limits DEF HasRoom
  <2> QED BY <2>1, <2>2, <2>3
<1> QED BY <1>1, <1>2, <1>3, <1>4 DEF TypeOK

LEMMA InvTranscriptsAgree ==
    ASSUME Inv
    PROVE  TranscriptsAgree
<1>1. FirstSequenceWins
  <2>1. ASSUME NEW d \in Devices, NEW i \in Held(d)
        PROVE  /\ transcript[d][i] # 0 => transcript[d][i] <= Len(stream) /\ stream[transcript[d][i]] = i
               /\ {n \in 1..done[d] : stream[n] = i} # {} => transcript[d][i] = FirstIn(stream, i)
    <3>1. Located(d, i) /\ Len(stream) \in Nat
      BY RowTypes DEF Inv, TranscriptSound
    <3>2. ASSUME {n \in 1..done[d] : stream[n] = i} # {} PROVE transcript[d][i] = FirstIn(stream, i)
      <4>1. PICK n \in 1..done[d] : stream[n] = i
        BY <3>2
      <4> QED BY <4>1, Earliest
    <3> QED BY <3>1, <3>2 DEF Located
  <2> QED BY <2>1 DEF FirstSequenceWins
<1>2. ViewsAgree
  <2> DEFINE settled == {d \in Devices : done[d] = Len(stream) /\ Unsent(d) = {} /\ rejected[d] = {}}
  <2>1. ASSUME NEW c \in settled, NEW d \in settled, Devices = settled PROVE conversation(c) = conversation(d)
    <3>1. \A x \in Devices : done[x] = Len(stream) /\ Unsent(x) = {} /\ rejected[x] = {}
      BY <2>1
    <3>2. transcript[c] = transcript[d]
      BY <3>1, SettledTranscript
    <3> QED BY <3>2, SameConversation
  <2> QED BY <2>1 DEF ViewsAgree
<1>3. OnlyOldEpochsRejected /\ AnswersOnce
  BY DEF Inv, InboxSound, EventsSound, CountersSound, OnlyOldEpochsRejected
<1> QED BY <1>1, <1>2, <1>3, InvTypeOK DEF TranscriptsAgree

\* In every behaviour of the channel, what is repeated, late or lost leaves no trace: a row
\* keeps the first sequence of its message, settled devices show one conversation, only
\* messages of the epoch left are quarantined, and a request is answered once.
THEOREM Agreement == Spec => []TranscriptsAgree
<1>1. Inv => TranscriptsAgree
  BY InvTranscriptsAgree
<1> QED BY <1>1, Invariant, PTL

\* However full its outbox, a coordinator that knows of a revoked member can queue the
\* policy and the Commit of its removal.
THEOREM Room == Spec => []RemovalHasRoom
<1>1. ASSUME Inv PROVE RemovalHasRoom
  <2>1. SUFFICES ASSUME epoch[Coordinator] = 0 PROVE HasRoom(Coordinator, 2, Reserve)
    BY DEF RemovalHasRoom, RekeyPending
  <2>2. IsFiniteSet(Unsent(Coordinator)) /\ Cardinality(Unsent(Coordinator)) <= PendingLimit
    BY <1>1, <2>1, Limits DEF Inv, OutboxSound, Roomy
  <2>3. Cardinality(Unsent(Coordinator)) \in Nat
    BY <2>2, FS_CardinalityType
  <2> QED BY <2>2, <2>3, Limits DEF HasRoom
<1> QED BY <1>1, Invariant, PTL

----------------------------------------------------------------------------
(* Edits.                                                                  *)

\* The version shown is the last written of those held: the counters of one author grow
\* with its events, and an edit comes after what it edits.
LastVersion(d, r) ==
    /\ r \in Nat /\ Shown(d, r) \in Nat /\ r <= Shown(d, r)
    /\ \A j \in Updates(d, r, {"edit"}, events[r].from) : j \in Nat /\ j <= Shown(d, r)
    /\ Shown(d, r) = r \/ Shown(d, r) \in Updates(d, r, {"edit"}, events[r].from)

LastVersions == \A d \in Devices : \A r \in Held(d) : LastVersion(d, r)

LEMMA LastIsShown ==
    ASSUME Inv, NEW d \in Devices, NEW r \in Held(d)
    PROVE  LastVersion(d, r)
<1>0. PICK U : U = Updates(d, r, {"edit"}, events[r].from)
  OBVIOUS
<1>1. Held(d) \subseteq Written /\ Written \subseteq Ids /\ Ids \subseteq Nat /\ Len(events) \in Nat
  BY RowTypes DEF Inv, TranscriptSound, Written
<1>2. U \subseteq Written /\ \A j \in U : events[j].from = events[r].from /\ events[j].target = r
  BY <1>0, <1>1 DEF Updates
<1>3. U \subseteq Nat /\ \A j \in U : j <= Len(events) /\ events[j].counter \in Nat
  <2>1. U \subseteq Ids
    BY <1>1, <1>2
  <2>2. \A j \in Ids : j \in Nat /\ j <= Len(events) /\ events[j].counter \in Nat
    BY <1>1, RowTypes DEF Inv
  <2> QED BY <2>1, <2>2
<1>4. \A j \in U : r < j
  BY <1>1, <1>2 DEF Inv, EventsSound, RowSound
<1>5. \A i, j \in U : i < j => events[i].counter < events[j].counter
  BY <1>2 DEF Inv, EventsSound, CountersSound
<1>6. CASE U = {}
  <2>1. Shown(d, r) = r /\ r \in Nat
    BY <1>0, <1>1, <1>6 DEF Shown, Latest
  <2> QED BY <1>0, <1>6, <2>1 DEF LastVersion
<1>7. CASE U # {}
  <2>1. PICK g \in U : \A j \in U : j <= g
    BY <1>1, <1>3, <1>7, GreatestOne
  <2>2. ASSUME NEW j \in U PROVE events[j].counter <= events[g].counter
    <3>1. j = g \/ j < g
      BY <1>3, <2>1
    <3> QED BY <1>3, <1>5, <3>1
  <2>3. Shown(d, r) = CHOOSE i \in U : \A j \in U : events[j].counter <= events[i].counter
    BY <1>0, <1>7 DEF Shown, Latest
  <2>4. PICK v : v = Shown(d, r)
    OBVIOUS
  <2>5. v \in U /\ \A j \in U : events[j].counter <= events[v].counter
    BY <2>2, <2>3, <2>4
  <2>6. ASSUME NEW j \in U PROVE j <= v
    <3>1. v \in Nat /\ j \in Nat /\ events[v].counter \in Nat /\ events[j].counter \in Nat
      BY <1>3, <2>5
    <3>2. events[j].counter <= events[v].counter
      BY <2>5
    <3>3. v < j => events[v].counter < events[j].counter
      BY <1>5, <2>5
    <3> QED BY <3>1, <3>2, <3>3
  <2>7. v \in Nat /\ r \in Nat /\ r <= v
    <3>1. v \in Nat /\ r \in Nat
      BY <1>1, <1>3, <2>5
    <3>2. r < v
      BY <1>4, <2>5
    <3> QED BY <3>1, <3>2
  <2> QED BY <1>0, <1>3, <2>4, <2>5, <2>6, <2>7 DEF LastVersion
<1> QED BY <1>6, <1>7

\* No step changes or forgets an event.
LEMMA NothingForgotten ==
    ASSUME Inv, [Next]_vars
    PROVE  /\ \A i \in Ids : i \in Ids' /\ events'[i] = events[i]
           /\ \A d \in Devices : Held(d) \subseteq Held(d)'
<1>1. events \in Seq(Row) /\ Len(events) \in Nat
  BY DEF Inv, Typed
<1>2. ASSUME NEW d \in Devices, NEW kind \in Application, NEW target \in Nat, encrypt_event(d, kind, target)
      PROVE  /\ \A i \in Ids : i \in Ids' /\ events'[i] = events[i]
             /\ \A x \in Devices : Held(x) \subseteq Held(x)'
  <2>1. Event(d, kind, target) \in Row
    BY FreshCounter DEF Event, Row, Inv, Typed
  <2>2. /\ Len(events') = Len(events) + 1 /\ \A i \in 1..Len(events) : events'[i] = events[i]
    BY <1>1, <1>2, <2>1, Appended DEF encrypt_event
  <2>3. \A x \in Devices \ {d} : transcript'[x] = transcript[x]
    BY <1>2 DEF encrypt_event, Inv, Typed
  <2>4. transcript'[d] = With(transcript[d], Len(events) + 1, 0)
    BY <1>2 DEF encrypt_event, Inv, Typed
  <2>5. DOMAIN transcript[d] \subseteq DOMAIN transcript'[d]
    BY <2>4 DEF With
  <2> QED BY <1>1, <2>2, <2>3, <2>5 DEF Ids, Held
<1>3. ASSUME NEW d \in Devices, NEW kind \in Composed, NEW target \in 0..Len(events), Send(d, kind, target)
      PROVE  /\ \A i \in Ids : i \in Ids' /\ events'[i] = events[i]
             /\ \A x \in Devices : Held(x) \subseteq Held(x)'
  <2>1. kind \in Application /\ target \in Nat /\ encrypt_event(d, kind, target)
    BY <1>1, <1>3, Limits DEF Send
  <2> QED BY <1>2, <2>1
<1>4. ASSUME NEW d \in Devices, Respond(d)
      PROVE  /\ \A i \in Ids : i \in Ids' /\ events'[i] = events[i]
             /\ \A x \in Devices : Held(x) \subseteq Held(x)'
  <2>1. PICK i \in Asked(d) : encrypt_event(d, "answer", i)
    BY <1>4 DEF Respond
  <2>2. Asked(d) \subseteq Nat
    BY RowTypes DEF Asked, Inv, TranscriptSound, Written
  <2>3. i \in Nat /\ "answer" \in Application
    BY <2>1, <2>2 DEF Application
  <2> QED BY <1>2, <2>1, <2>3
<1>5. ASSUME NEW d \in Devices, NEW again \in BOOLEAN, Publish(d, again)
      PROVE  UNCHANGED events /\ \A x \in Devices : Held(x) \subseteq Held(x)'
  <2>1. PICK i : i = NextRow(d)
    OBVIOUS
  <2>2. /\ UNCHANGED events
        /\ transcript' = IF i \notin Held(d) THEN transcript
                         ELSE [transcript EXCEPT ![d][i] = Sequenced(@, LastIn(stream', i))]
    BY <1>5, <2>1 DEF Publish
  <2> QED BY <2>2 DEF Held, Inv, Typed
<1>6. ASSUME NEW d \in Devices, Process(d)
      PROVE  UNCHANGED events /\ \A x \in Devices : Held(x) \subseteq Held(x)'
  <2>1. PICK s : s = done[d] + 1
    OBVIOUS
  <2>2. PICK i : i = stream[s]
    OBVIOUS
  <2>3. /\ UNCHANGED events
        /\ \/ UNCHANGED transcript
           \/ transcript' = [transcript EXCEPT ![d] =
                    With(@, i, Sequenced(IF i \in Held(d) THEN @[i] ELSE 0, s))]
    BY <1>6, <2>1, <2>2 DEF Process
  <2>4. CASE UNCHANGED transcript
    BY <2>3, <2>4 DEF Held
  <2>5. CASE transcript' = [transcript EXCEPT ![d] =
                    With(@, i, Sequenced(IF i \in Held(d) THEN @[i] ELSE 0, s))]
    <3>1. \A x \in Devices \ {d} : transcript'[x] = transcript[x]
      BY <2>5 DEF Inv, Typed
    <3>2. \E v : transcript'[d] = With(transcript[d], i, v)
      BY <2>5 DEF Inv, Typed
    <3>3. DOMAIN transcript[d] \subseteq DOMAIN transcript'[d]
      BY <3>2 DEF With
    <3> QED BY <2>3, <3>1, <3>3 DEF Held
  <2> QED BY <2>3, <2>4, <2>5
<1>7. ASSUME reconcile_revocations
      PROVE  /\ \A i \in Ids : i \in Ids' /\ events'[i] = events[i]
             /\ \A x \in Devices : Held(x) \subseteq Held(x)'
  <2>1. PICK p : p = Event(Coordinator, "policy", 0)
    OBVIOUS
  <2>2. PICK c : c = Event(Coordinator, "commit", 0)
    OBVIOUS
  <2>3. events' = events \o <<p, c>> /\ UNCHANGED transcript
    BY <1>7, <2>1, <2>2 DEF reconcile_revocations
  <2>4. p \in Row /\ c \in Row
    BY <2>1, <2>2, Limits DEF Event, Row, Application, Inv, Typed
  <2>5. <<p, c>> \in Seq(Row) /\ Len(<<p, c>>) = 2
    BY <2>4
  <2>6. Len(events') = Len(events) + 2 /\ \A i \in 1..Len(events) : events'[i] = events[i]
    BY <1>1, <2>3, <2>5
  <2> QED BY <1>1, <2>3, <2>6 DEF Ids, Held
<1>8. CASE UNCHANGED <<events, transcript>>
  BY <1>8 DEF Ids, Held
<1>9. ASSUME NEW d \in Devices, NEW again \in BOOLEAN, PublishLost(d, again)
      PROVE  UNCHANGED <<events, transcript>>
  BY <1>9 DEF PublishLost, outbox
<1>10. (\E d \in Devices : Audit(d)) \/ Revoke \/ UNCHANGED vars => UNCHANGED <<events, transcript>>
  BY DEF Audit, Revoke, vars, outbox
<1>11. UNCHANGED events => \A i \in Ids : i \in Ids' /\ events'[i] = events[i]
  BY DEF Ids
<1> QED BY <1>3, <1>4, <1>5, <1>6, <1>7, <1>8, <1>9, <1>10, <1>11 DEF Next

\* In every behaviour of the channel, an edit takes effect when it is written or
\* decrypted, and no step brings back an earlier version, on any device.
THEOREM LastEditWins == Spec => EditsTakeEffect
<1>1. ASSUME Inv, Inv', LastVersions', [Next]_vars, NEW d \in Devices, NEW r \in Held(d)
      PROVE  /\ Shown(d, r) <= Shown(d, r)'
             /\ \A i \in Held(d)' \ Held(d) :
                     events'[i].kind = "edit" /\ events'[i].target = r
                     => i <= Shown(d, r)'
  <2>1. /\ \A i \in Ids : i \in Ids' /\ events'[i] = events[i]
        /\ Held(d) \subseteq Held(d)'
    BY <1>1, NothingForgotten
  <2>2. Held(d) \subseteq Ids /\ Held(d)' \subseteq Ids'
    BY <1>1 DEF Inv, TranscriptSound, Written
  <2>3. PICK U : U = Updates(d, r, {"edit"}, events[r].from)
    OBVIOUS
  <2>4. PICK V : V = Updates(d, r, {"edit"}, events[r].from)'
    OBVIOUS
  <2>5. U \subseteq V
    BY <2>1, <2>2, <2>3, <2>4 DEF Updates
  <2>6. /\ r \in Nat /\ Shown(d, r) \in Nat /\ \A j \in U : j \in Nat /\ j <= Shown(d, r)
        /\ Shown(d, r) = r \/ Shown(d, r) \in U
    BY <1>1, <2>3, LastIsShown DEF LastVersion
  <2>7. /\ Shown(d, r)' \in Nat /\ r <= Shown(d, r)'
        /\ \A j \in V : j \in Nat /\ j <= Shown(d, r)'
    <3>1. LastVersion(d, r)'
      BY <1>1, <2>1 DEF LastVersions
    <3> QED BY <2>4, <3>1 DEF LastVersion
  <2>8. Shown(d, r) <= Shown(d, r)'
    BY <2>5, <2>6, <2>7
  <2>9. ASSUME NEW i \in Held(d)', events'[i].kind = "edit", events'[i].target = r
        PROVE  i <= Shown(d, r)'
    <3>1. RowSound(i)'
      BY <1>1, <2>2 DEF Inv, EventsSound
    <3>2. events'[r].from = events'[i].from
      BY <2>9, <3>1 DEF RowSound
    <3>3. i \in V
      BY <2>4, <2>9, <3>2 DEF Updates
    <3> QED BY <2>7, <3>3
  <2> QED BY <2>8, <2>9
<1>2. Inv /\ Inv' /\ LastVersions' /\ [Next]_vars =>
        [\A d \in Devices : \A r \in Held(d) :
           events[r].kind \in Roots =>
               /\ Shown(d, r) <= Shown(d, r)'
               /\ \A i \in Held(d)' \ Held(d) :
                       events'[i].kind = "edit" /\ events'[i].target = r
                       => i <= Shown(d, r)']_transcript
  BY <1>1
<1>3. Inv => LastVersions
  BY LastIsShown DEF LastVersions
<1> QED BY <1>2, <1>3, Invariant, PTL DEF Spec, EditsTakeEffect

(***************************************************************************)
(* Receipts.                                                                 *)
(*                                                                           *)
(* A receipt is true when it is stored because it was true when it was sent, *)
(* and what a reader's row says never goes back: what is on its way, however *)
(* old, repeated or late, is true of the reader it comes from.               *)
(***************************************************************************)

ReceiptEvent == [from : Clients, epoch : {0, 1}, kind : Kinds, message : Numbers]

\* What an event on its way claims holds of its sender.
Claims(e) ==
    /\ e.kind = "delivered" => shelf[e.from][e.message] # "none"
    /\ e.kind = "read" => shelf[e.from][e.message] = "displayed"

Vouched == \A d \in Clients : \A e \in wire[d] : Claims(e)

ReceiptInv == ReceiptsAreTrue /\ Vouched

\* What d puts on its way is its own, of its epoch and true.
Honest(d, evs) ==
    evs \subseteq {e \in ReceiptEvent : e.from = d /\ e.epoch = clientEpoch[d] /\ Claims(e)}

LEMMA RequestsFinite ==
    ASSUME ReceiptTypeOK, NEW d \in Clients
    PROVE  /\ receipt_requests(d) \subseteq Numbers
           /\ IsFiniteSet(receipt_requests(d))
           /\ Cardinality(receipt_requests(d)) \in Nat
           /\ receipt_requests(d) # {} => Cardinality(receipt_requests(d)) # 0
<1>1. accepted \in Nat /\ accepted <= Len(Authors) /\ Len(Authors) \in Nat
  BY ReceiptsAssumption DEF ReceiptTypeOK
<1>2. Numbers = 1..Len(Authors)
  BY ReceiptsAssumption DEF Numbers
<1>3. receipt_requests(d) \subseteq 1..accepted
  BY DEF receipt_requests, Outgoing
<1>4. IsFiniteSet(1..accepted)
  BY <1>1, FS_Interval
<1>5. IsFiniteSet(receipt_requests(d))
  BY <1>3, <1>4, FS_Subset
<1> QED
  BY <1>1, <1>2, <1>3, <1>5, FS_CardinalityType, FS_EmptySet

LEMMA SentIsHonest ==
    ASSUME ReceiptTypeOK, Vouched, NEW d \in Clients, NEW evs, Honest(d, evs),
           wire' = Sent(d, evs), UNCHANGED <<shelf, clientEpoch>>
    PROVE  /\ wire' \in [Clients -> SUBSET ReceiptEvent]
           /\ \A x \in Clients : \A e \in wire'[x] :
                 e.from # x /\ e.epoch <= clientEpoch[e.from] /\ Claims(e)
<1> DEFINE w == [x \in Clients |-> IF x # d THEN wire[x] \cup evs ELSE wire[x]]
           v == [x \in Clients |-> IF x # d THEN evs ELSE wire[x]]
<1>1. wire' = w \/ wire' = v
  BY DEF Sent
<1>2. wire \in [Clients -> SUBSET ReceiptEvent] /\ clientEpoch \in [Clients -> {0, 1}]
  BY DEF ReceiptTypeOK, ReceiptEvent
<1>3. evs \subseteq ReceiptEvent
  BY DEF Honest
<1>4. wire' \in [Clients -> SUBSET ReceiptEvent]
  BY <1>1, <1>2, <1>3
<1>5. ASSUME NEW x \in Clients, NEW e \in wire'[x]
      PROVE  e.from # x /\ e.epoch <= clientEpoch[e.from] /\ Claims(e)
  <2>1. e \in wire[x] \/ (x # d /\ e \in evs)
    BY <1>1
  <2>2. CASE e \in wire[x]
    BY <2>2 DEF ReceiptTypeOK, Vouched
  <2>3. CASE x # d /\ e \in evs
    BY <1>2, <2>3 DEF Honest
  <2> QED
    BY <2>1, <2>2, <2>3
<1> QED
  BY <1>4, <1>5

LEMMA ReceiptInitInv == ReceiptInit => ReceiptInv
<1> SUFFICES ASSUME ReceiptInit PROVE ReceiptInv
  OBVIOUS
<1>1. ReceiptTypeOK
  BY ReceiptsAssumption DEF ReceiptInit, ReceiptTypeOK, Numbers
<1>2. ReceiptsAreTrue
  BY <1>1 DEF ReceiptInit, ReceiptsAreTrue
<1> QED
  BY <1>2 DEF ReceiptInit, ReceiptInv, Vouched

\* Rows that only grow keep what was said of them true.
LEMMA ShelfGrows ==
    ASSUME ReceiptInv, UNCHANGED <<receipts, group, wire, cursor>>,
           accepted' \in 0 .. Len(Authors),
           shelf' \in [Clients -> [Numbers -> {"none", "stored", "displayed"}]],
           \A x \in Clients, n \in Numbers :
              /\ shelf[x][n] # "none" => shelf'[x][n] # "none"
              /\ shelf[x][n] = "displayed" => shelf'[x][n] = "displayed"
    PROVE  ReceiptInv'
<1>1. ReceiptTypeOK'
  BY DEF ReceiptInv, ReceiptsAreTrue, ReceiptTypeOK, group
<1>2. ReceiptsAreTrue'
  BY <1>1 DEF ReceiptInv, ReceiptsAreTrue
<1>3. Vouched'
  <2> SUFFICES ASSUME NEW d \in Clients, NEW e \in wire[d] PROVE Claims(e)'
    BY DEF Vouched
  <2>1. e.from \in Clients /\ e.message \in Numbers /\ Claims(e)
    BY DEF ReceiptInv, ReceiptsAreTrue, ReceiptTypeOK, Vouched
  <2> QED
    BY <2>1 DEF Claims
<1> QED
  BY <1>2, <1>3 DEF ReceiptInv

LEMMA AcceptInv == ReceiptInv /\ Accept => ReceiptInv'
<1> SUFFICES ASSUME ReceiptInv, Accept PROVE ReceiptInv'
  OBVIOUS
<1>1. accepted' \in 0 .. Len(Authors)
  BY ReceiptsAssumption DEF ReceiptInv, ReceiptsAreTrue, ReceiptTypeOK, Accept
<1> QED
  BY <1>1, ShelfGrows DEF Accept, ReceiptInv, ReceiptsAreTrue, ReceiptTypeOK

LEMMA RowInv ==
    ASSUME ReceiptInv, NEW d \in Clients, NEW m \in Numbers, Receive(d, m) \/ mark_displayed(d, m)
    PROVE  ReceiptInv'
<1>1. shelf \in [Clients -> [Numbers -> {"none", "stored", "displayed"}]] /\ accepted \in 0 .. Len(Authors)
  BY DEF ReceiptInv, ReceiptsAreTrue, ReceiptTypeOK
<1>2. PICK s \in {"stored", "displayed"} :
         /\ shelf' = [shelf EXCEPT ![d][m] = s]
         /\ s = "displayed" \/ shelf[d][m] = "none"
         /\ UNCHANGED <<accepted, receipts, group, wire, cursor>>
  BY DEF Receive, mark_displayed
<1>3. shelf' \in [Clients -> [Numbers -> {"none", "stored", "displayed"}]]
  BY <1>1, <1>2
<1>4. \A x \in Clients, n \in Numbers :
         /\ shelf[x][n] # "none" => shelf'[x][n] # "none"
         /\ shelf[x][n] = "displayed" => shelf'[x][n] = "displayed"
  BY <1>1, <1>2
<1> QED
  BY <1>1, <1>2, <1>3, <1>4, ShelfGrows

LEMMA MembershipInv ==
    ASSUME ReceiptInv, NEW d \in Clients, Learn(d) \/ Merge(d)
    PROVE  ReceiptInv'
<1> USE DEF ReceiptInv, ReceiptsAreTrue, ReceiptTypeOK
<1>1. CASE Learn(d)
  BY <1>1 DEF Learn, kept, Vouched, Claims
<1>2. CASE Merge(d)
  <2>1. clientEpoch' \in [Clients -> {0, 1}] /\ pending' \in [Clients -> BOOLEAN]
    BY <1>2 DEF Merge
  <2>2. \A x \in Clients : clientEpoch[x] <= clientEpoch'[x]
    BY <1>2 DEF Merge
  <2>3. ReceiptTypeOK'
    <3> SUFFICES ASSUME NEW x \in Clients, NEW e \in wire[x]
                 PROVE  e.epoch <= clientEpoch'[e.from]
      BY <1>2, <2>1 DEF Merge, kept
    <3>1. e.from \in Clients /\ e.epoch \in {0, 1} /\ e.epoch <= clientEpoch[e.from]
      OBVIOUS
    <3>2. clientEpoch[e.from] \in {0, 1} /\ clientEpoch'[e.from] \in {0, 1}
      BY <2>1, <3>1
    <3> QED
      BY <2>2, <3>1, <3>2
  <2> QED
    BY <1>2, <2>3 DEF Merge, kept, Vouched, Claims
<1> QED
  BY <1>1, <1>2

\* Losing events is harmless, one of them or all that go to a client.
LEMMA LossInv ==
    ASSUME ReceiptInv, NEW d \in Clients, NEW s, s \subseteq wire[d],
           wire' = [wire EXCEPT ![d] = s], UNCHANGED <<kept, group, cursor>>
    PROVE  ReceiptInv'
<1> USE DEF ReceiptInv, ReceiptsAreTrue, ReceiptTypeOK
<1>1. wire' \in [Clients -> SUBSET ReceiptEvent] /\ \A x \in Clients : wire'[x] \subseteq wire[x]
  BY DEF ReceiptEvent
<1>2. ReceiptTypeOK'
  BY <1>1 DEF kept, group, ReceiptEvent
<1> QED
  BY <1>1, <1>2 DEF kept, group, Vouched, Claims

LEMMA ResetInv ==
    ASSUME ReceiptInv, NEW d \in Clients, Reset(d), UNCHANGED <<kept, group, cursor>>
    PROVE  ReceiptInv'
<1>1. PICK s \in SUBSET wire[d] : s = {}
  OBVIOUS
<1> QED
  BY <1>1, LossInv DEF Reset

LEMMA SealInv ==
    ASSUME ReceiptInv, NEW d \in Clients, NEW evs, Honest(d, evs), wire' = Sent(d, evs),
           UNCHANGED <<kept, group>>, cursor' \in [Clients -> Nat]
    PROVE  ReceiptInv'
<1>1. /\ wire' \in [Clients -> SUBSET ReceiptEvent]
      /\ \A x \in Clients : \A e \in wire'[x] :
            e.from # x /\ e.epoch <= clientEpoch[e.from] /\ Claims(e)
  BY SentIsHonest DEF ReceiptInv, ReceiptsAreTrue, kept, group
<1>2. ReceiptTypeOK'
  BY <1>1 DEF ReceiptInv, ReceiptsAreTrue, ReceiptTypeOK, kept, group, ReceiptEvent
<1>3. Vouched'
  BY <1>1 DEF Vouched, Claims, kept
<1> QED
  BY <1>2, <1>3 DEF ReceiptInv, ReceiptsAreTrue, kept

LEMMA PollInv ==
    ASSUME ReceiptInv, NEW d \in Clients, Poll(d)
    PROVE  ReceiptInv'
<1>0. ReceiptTypeOK
  BY DEF ReceiptInv, ReceiptsAreTrue
<1>1. CASE ~CanSend(d) /\ Reset(d) /\ UNCHANGED cursor
  BY <1>1, ResetInv DEF Poll
<1>2. CASE /\ wire' = Sent(d, {seal_ephemeral(d, "request", m) : m \in Polled(d)})
           /\ cursor' = [cursor EXCEPT ![d] = (@ + Batch) % Cardinality(receipt_requests(d))]
  <2> DEFINE evs == {seal_ephemeral(d, "request", m) : m \in Polled(d)}
  <2>1. Polled(d) \subseteq Numbers
    BY <1>0, RequestsFinite DEF Polled
  <2>2. clientEpoch[d] \in {0, 1}
    BY <1>0 DEF ReceiptTypeOK
  <2>3. Honest(d, evs)
    BY <2>1, <2>2 DEF Honest, seal_ephemeral, ReceiptEvent, Claims, Kinds
  <2>4. cursor' \in [Clients -> Nat]
    <3>1. PICK n \in Nat \ {0} : n = Cardinality(receipt_requests(d))
      BY <1>0, RequestsFinite DEF Poll
    <3>2. cursor \in [Clients -> Nat] /\ Batch \in Nat
      BY <1>0, ReceiptsAssumption DEF ReceiptTypeOK
    <3>3. (cursor[d] + Batch) % n \in Nat
      BY <3>1, <3>2
    <3> QED
      BY <1>2, <3>1, <3>2, <3>3
  <2> QED
    BY <1>2, <2>3, <2>4, SealInv DEF Poll
<1> QED
  BY <1>1, <1>2 DEF Poll

LEMMA ProcessReceiptInv ==
    ASSUME ReceiptInv, NEW d \in Clients, NEW e \in wire[d], process_receipt(d, e)
    PROVE  ReceiptInv'
<1>0. ReceiptTypeOK /\ Vouched
  BY DEF ReceiptInv, ReceiptsAreTrue
<1>1. /\ e.from \in Clients /\ e.message \in Numbers /\ e.kind \in Kinds
      /\ clientEpoch[d] \in {0, 1} /\ cursor \in [Clients -> Nat] /\ Claims(e)
      /\ shelf[d][e.message] \in {"none", "stored", "displayed"}
  BY <1>0 DEF ReceiptTypeOK, Vouched
<1>2. CASE /\ wire' = Sent(d, {seal_ephemeral(d, k, e.message) : k \in Answer(d, e.message)})
           /\ UNCHANGED receipts
  <2> DEFINE evs == {seal_ephemeral(d, k, e.message) : k \in Answer(d, e.message)}
  <2>1. \A k \in Answer(d, e.message) :
           /\ k \in {"delivered", "read"}
           /\ k = "delivered" => shelf[d][e.message] # "none"
           /\ k = "read" => shelf[d][e.message] = "displayed"
    BY <1>1 DEF Answer
  <2>2. Honest(d, evs)
    BY <1>1, <2>1 DEF Honest, seal_ephemeral, ReceiptEvent, Claims, Kinds
  <2> QED
    BY <1>1, <1>2, <2>2, SealInv DEF process_receipt, kept, group
<1>3. CASE /\ e.kind # "request"
           /\ receipts' = [receipts EXCEPT ![e.message][e.from] =
                              Upsert(@, IF e.kind = "read" THEN 2 ELSE 1)]
           /\ UNCHANGED wire
  <2> DEFINE claim == IF e.kind = "read" THEN 2 ELSE 1
             was == receipts[e.message][e.from]
  <2>1. receipts \in [Numbers -> [Clients -> 0..2]]
    BY <1>0 DEF ReceiptTypeOK
  <2>2. Upsert(was, claim) \in 0..2 /\ Upsert(was, claim) \in {was, claim}
    BY <1>1, <2>1 DEF Upsert
  <2>3. receipts' \in [Numbers -> [Clients -> 0..2]]
    BY <1>1, <1>3, <2>1, <2>2
  <2>4. /\ claim > 0 => shelf[e.from][e.message] # "none"
        /\ claim = 2 => shelf[e.from][e.message] = "displayed"
    BY <1>1, <1>3 DEF Claims, Kinds
  <2>5. ASSUME NEW m \in Numbers, NEW x \in Clients
        PROVE  /\ receipts'[m][x] > 0 => shelf[x][m] # "none"
               /\ receipts'[m][x] = 2 => shelf[x][m] = "displayed"
    <3>1. CASE m = e.message /\ x = e.from
      <4>1. receipts'[m][x] = was \/ receipts'[m][x] = claim
        BY <1>1, <1>3, <2>1, <2>2, <3>1
      <4> QED
        BY <1>1, <2>4, <3>1, <4>1 DEF ReceiptInv, ReceiptsAreTrue
    <3>2. CASE m # e.message \/ x # e.from
      <4>1. receipts'[m][x] = receipts[m][x]
        BY <1>1, <1>3, <2>1, <3>2
      <4> QED
        BY <4>1 DEF ReceiptInv, ReceiptsAreTrue
    <3> QED
      BY <3>1, <3>2
  <2>6. ReceiptTypeOK'
    BY <1>0, <1>3, <2>3 DEF ReceiptTypeOK, process_receipt, group
  <2> QED
    BY <1>0, <1>3, <2>5, <2>6 DEF ReceiptInv, ReceiptsAreTrue, Vouched, Claims, process_receipt
<1> QED
  BY <1>2, <1>3 DEF process_receipt

LEMMA ReceiptStepInv == ReceiptInv /\ [ReceiptNext]_receiptVars => ReceiptInv'
<1> SUFFICES ASSUME ReceiptInv, [ReceiptNext]_receiptVars PROVE ReceiptInv'
  OBVIOUS
<1>1. CASE UNCHANGED receiptVars
  BY <1>1 DEF receiptVars, kept, group, ReceiptInv, ReceiptsAreTrue, ReceiptTypeOK, Vouched, Claims
<1>2. CASE Accept
  BY <1>2, AcceptInv
<1>3. ASSUME NEW d \in Clients, NEW m \in Numbers, Receive(d, m) \/ mark_displayed(d, m)
      PROVE  ReceiptInv'
  BY <1>3, RowInv
<1>4. ASSUME NEW d \in Clients, Learn(d) \/ Merge(d) \/ SyncFails(d) \/ Poll(d)
      PROVE  ReceiptInv'
  <2>1. CASE SyncFails(d)
    BY <2>1, ResetInv DEF SyncFails
  <2> QED
    BY <1>4, <2>1, MembershipInv, PollInv
<1>5. ASSUME NEW d \in Clients, NEW e \in wire[d], process_receipt(d, e) \/ Lose(d, e)
      PROVE  ReceiptInv'
  <2>1. CASE Lose(d, e)
    BY <2>1, LossInv DEF Lose
  <2> QED
    BY <1>5, <2>1, ProcessReceiptInv
<1> QED
  BY <1>1, <1>2, <1>3, <1>4, <1>5 DEF ReceiptNext

(***************************************************************************)
(* What an author is told of its readers is true, for any clients, messages  *)
(* and limits, although receipts are lost, repeated, late and out of order,  *)
(* and although those that ask and those that answer change epochs.          *)
(***************************************************************************)
THEOREM ReceiptsTellTheTruth == ReceiptSpec => []ReceiptsAreTrue
<1>1. ReceiptInv => ReceiptsAreTrue
  BY DEF ReceiptInv
<1> QED
  BY <1>1, ReceiptInitInv, ReceiptStepInv, PTL DEF ReceiptSpec
=============================================================================
