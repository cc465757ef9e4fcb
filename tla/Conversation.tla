---------------------------- MODULE Conversation ----------------------------
(***************************************************************************)
(* One channel as its members see it: application events are encrypted     *)
(* into the outbox and the transcript in one transaction, published in row *)
(* order, staged, decrypted and projected into a conversation with         *)
(* replies, edits and reactions; a service participant answers /status.    *)
(*                                                                         *)
(* A ciphertext is its index in `events'; an application event is          *)
(* encrypted once, so its message ID is the same index.  The outbox of a   *)
(* device is its events in index order.  The broker recognises a repeated  *)
(* message ID only within its deduplication window, so a publish whose     *)
(* acknowledgment was lost may enter the stream twice.  One member outside *)
(* Devices may be revoked: the coordinator then removes it with a Commit,  *)
(* and a ciphertext is readable only in the epoch it was made in.          *)
(***************************************************************************)
EXTENDS Naturals, Sequences, FiniteSetsExt

CONSTANTS Devices,
          Coordinator,   \* the device that removes a revoked member
          Services,      \* devices named "service"
          Composed,      \* what people write, of the kinds in Application
          PendingLimit,  \* unsent rows a device may hold
          Reserve,       \* further rows for a removal, which takes two (32)
          MaxEvents,     \* bound: application events encrypted
          MaxLost        \* bound: acknowledgments lost

ASSUME ConversationAssumption ==
    /\ Coordinator \in Devices /\ Services \subseteq Devices
    /\ Composed \subseteq {"message", "status", "reply", "edit", "react", "unreact"}
    /\ PendingLimit \in Nat \ {0} /\ Reserve \in Nat /\ Reserve >= 2
    /\ MaxEvents \in Nat /\ MaxLost \in Nat

VARIABLES
    events,      \* every row queued: [from, kind, target, counter, epoch]
    sent,        \* rows marked sent
    blocked,     \* rows held back for good
    stream,      \* the CHAT stream: a sequence of events
    revoked,     \* the outside member is revoked
    knows,       \* devices whose audit has found that
    epoch,       \* 0, or 1 after the removal
    done,        \* chat_deliveries: sequences staged and processed or rejected
    rejected,    \* ... of which quarantined
    transcript,  \* transcript: event to the stream sequence of its row, 0 for none
    handled,     \* participant_events
    flushing,    \* devices in the middle of flush_outbox
    lost

outbox == <<events, sent, blocked>>
membership == <<revoked, knows, epoch>>
inbox == <<done, rejected>>
vars == <<outbox, stream, membership, inbox, transcript, handled, flushing, lost>>

Ids == 1..Len(events)
\* Written by a person, or by a participant in answer to a /status.
Application == {"message", "status", "reply", "edit", "react", "unreact", "answer"}
Roots == {"message", "status", "reply", "answer"}
Rows(d) == {i \in Ids : events[i].from = d}
Unsent(d) == Rows(d) \ sent
Held(d) == DOMAIN transcript[d]
Written == {i \in Ids : events[i].kind \in Application}

\* A transcript with the row of event i inserted or replaced.
With(rows, i, at) == [j \in DOMAIN rows \cup {i} |-> IF j = i THEN at ELSE rows[j]]

-----------------------------------------------------------------------------
\* The outbox and its limit.  Rows held back still count.

HasRoom(d, rows, extra) == Cardinality(Unsent(d)) + rows <= PendingLimit + extra

RekeyPending(d) == d \in knows /\ epoch[d] = 0

\* Mutant of NextCounter: only the events already published are looked at.
CounterOfSent(d) == 1 + Max({0} \cup {events[i].counter : i \in Held(d) \cap Rows(d) \cap sent})

\* One more than the largest counter among the device's own events.
NextCounter(d) == 1 + Max({0} \cup {events[i].counter : i \in Held(d) \cap Rows(d)})

Event(d, kind, target) ==
    [from |-> d, kind |-> kind, target |-> target,
     counter |-> IF kind \in Application THEN NextCounter(d) ELSE 0, epoch |-> epoch[d]]

\* A relation targets a message or reply the device holds; only its author edits it.
validate_relation(d, kind, target) ==
    IF kind \in {"message", "status"} THEN target = 0
    ELSE /\ target \in Held(d) /\ events[target].kind \in Roots
         /\ kind = "edit" => events[target].from = d

\* Mutant of encrypt_event: applications may use the reserve.
EncryptOnReserve(d, kind, target) ==
    /\ Cardinality(Written) < MaxEvents
    /\ d \notin flushing /\ ~RekeyPending(d)
    /\ HasRoom(d, 1, Reserve)
    /\ events' = Append(events, Event(d, kind, target))
    /\ transcript' = [transcript EXCEPT ![d] = With(@, Len(events) + 1, 0)]

\* Ratchet, outbox row and transcript row in one transaction: a full outbox
\* leaves nothing behind.
encrypt_event(d, kind, target) ==
    /\ Cardinality(Written) < MaxEvents
    /\ d \notin flushing /\ ~RekeyPending(d)
    /\ HasRoom(d, 1, 0)
    /\ events' = Append(events, Event(d, kind, target))
    /\ transcript' = [transcript EXCEPT ![d] = With(@, Len(events) + 1, 0)]

\* Sending from the line client or the TUI; the participant process of a service
\* holds the device lock.
Send(d, kind, target) ==
    /\ d \notin Services
    /\ validate_relation(d, kind, target)
    /\ encrypt_event(d, kind, target)
    /\ UNCHANGED <<sent, blocked, stream, membership, inbox, handled, flushing, lost>>

\* respond_status: the first row with a /status of a person, not looked at yet, is
\* marked and answered in one transaction.  Other rows are marked to no effect.  Rows
\* of others are inserted in stream order.
Asked(d) == {i \in Held(d) \ handled[d] : events[i].kind = "status"
                                          /\ events[i].from \notin Services}

Respond(d) ==
    /\ d \in Services
    /\ \E i \in Asked(d) :
         /\ \A k \in Asked(d) : transcript[d][i] <= transcript[d][k]
         /\ handled' = [handled EXCEPT ![d] = @ \cup {i}]
         /\ encrypt_event(d, "answer", i)
    /\ UNCHANGED <<sent, blocked, stream, membership, inbox, flushing, lost>>

-----------------------------------------------------------------------------
\* Revocation of the outside member.

Revoke ==
    /\ ~revoked /\ revoked' = TRUE
    /\ UNCHANGED <<outbox, stream, knows, epoch, inbox, transcript, handled, flushing,
                   lost>>

\* block_revoked_outbox for a device in an epoch with a known revoked member.
Blockable(d) == {i \in Unsent(d) : events[i].kind \in Application}

\* flush_outbox starts with the audit, holds rows back and takes up the rest.
Audit(d) ==
    /\ d \notin flushing
    /\ knows' = IF revoked THEN knows \cup {d} ELSE knows
    /\ blocked' = IF revoked /\ epoch[d] = 0 THEN blocked \cup Blockable(d) ELSE blocked
    /\ flushing' = IF Unsent(d) \ blocked' = {} THEN flushing ELSE flushing \cup {d}
    /\ UNCHANGED <<events, sent, stream, revoked, epoch, inbox, transcript, handled, lost>>

\* reconcile_revocations: the policy and the Commit are queued, on the reserve
\* if need be, with the change of epoch.
reconcile_revocations ==
    LET d == Coordinator
    IN  /\ d \notin flushing /\ RekeyPending(d)
        /\ HasRoom(d, 2, Reserve)
        /\ events' = events \o <<Event(d, "policy", 0), Event(d, "commit", 0)>>
        /\ blocked' = blocked \cup Blockable(d)
        /\ epoch' = [epoch EXCEPT ![d] = 1]
        /\ UNCHANGED <<sent, stream, revoked, knows, inbox, transcript, handled, flushing,
                       lost>>

-----------------------------------------------------------------------------
\* Publishing.  flush_outbox stops at the first row that fails, so rows leave in
\* order; a policy row goes to the service and not to the stream.

Flushable(d) == Unsent(d) \ blocked
NextRow(d) == CHOOSE i \in Flushable(d) : \A j \in Flushable(d) : i <= j
FirstIn(s, i) == CHOOSE n \in 1..Len(s) : s[n] = i /\ \A m \in 1..(n - 1) : s[m] # i
LastIn(s, i) == CHOOSE n \in 1..Len(s) : s[n] = i /\ \A m \in (n + 1)..Len(s) : s[m] # i

\* JetStream stores a message ID once per window; after it, `again'.
Store(i, again) ==
    stream' = IF events[i].kind = "policy" \/ (~again /\ \E n \in 1..Len(stream) : stream[n] = i)
              THEN stream ELSE Append(stream, i)

\* Mutant of Sequenced: the latest sequence wins.
SequencedLast(old, seq) == seq

\* The earliest sequence seen for a row wins.
Sequenced(old, seq) == IF old = 0 \/ seq < old THEN seq ELSE old

Publish(d, again) ==
    LET i == NextRow(d)
    IN  /\ d \in flushing
        /\ Store(i, again)
        /\ sent' = sent \cup {i}
        /\ transcript' = IF i \notin Held(d) THEN transcript
                         ELSE [transcript EXCEPT ![d][i] = Sequenced(@, LastIn(stream', i))]
        /\ flushing' = IF Flushable(d) = {i} THEN flushing \ {d} ELSE flushing
        /\ UNCHANGED <<events, blocked, membership, inbox, handled, lost>>

\* The message is stored, its acknowledgment does not arrive or is not recorded.
PublishLost(d, again) ==
    /\ d \in flushing /\ lost < MaxLost /\ lost' = lost + 1
    /\ Store(NextRow(d), again)
    /\ flushing' = flushing \ {d}
    /\ UNCHANGED <<outbox, membership, inbox, transcript, handled>>

-----------------------------------------------------------------------------
\* Receiving.  The deliveries of a device are staged and acknowledged one by one
\* and processed in stream order (module GroupEpochs has the faults between).

\* Own ciphertexts are recognised from the outbox, others from `received'.
Known(d, i) == i \in Held(d) \cup Rows(d)

Readable(d, i) == events[i].epoch = epoch[d]

process_handshake(d, i) ==
    /\ epoch' = [epoch EXCEPT ![d] = IF Known(d, i) THEN @ ELSE 1]
    /\ blocked' = IF RekeyPending(d) /\ ~Known(d, i) THEN blocked \cup Blockable(d) ELSE blocked

\* Mutant of Process: an unreadable ciphertext ends every batch.
ProcessStops(d) ==
    LET s == done[d] + 1
        i == stream[s]
    IN  /\ d \notin flushing /\ done[d] < Len(stream)
        /\ events[i].kind # "commit" => Known(d, i) \/ Readable(d, i)
        /\ done' = [done EXCEPT ![d] = s]
        /\ IF events[i].kind = "commit"
           THEN process_handshake(d, i) /\ UNCHANGED transcript
           ELSE /\ transcript' = [transcript EXCEPT ![d] =
                        With(@, i, Sequenced(IF i \in Held(d) THEN @[i] ELSE 0, s))]
                /\ UNCHANGED <<epoch, blocked>>
        /\ UNCHANGED <<events, sent, stream, revoked, knows, rejected, handled, flushing, lost>>

\* process_history for the next sequence; an unreadable ciphertext is
\* quarantined and the next one processed.
Process(d) ==
    LET s == done[d] + 1
        i == stream[s]
    IN  /\ d \notin flushing /\ done[d] < Len(stream)
        /\ done' = [done EXCEPT ![d] = s]
        /\ IF events[i].kind = "commit"
           THEN process_handshake(d, i) /\ UNCHANGED <<transcript, rejected>>
           ELSE /\ IF Known(d, i) \/ Readable(d, i)
                   THEN /\ transcript' = [transcript EXCEPT ![d] =
                                With(@, i, Sequenced(IF i \in Held(d) THEN @[i] ELSE 0, s))]
                        /\ UNCHANGED rejected
                   ELSE /\ rejected' = [rejected EXCEPT ![d] = @ \cup {s}]
                        /\ UNCHANGED transcript
                /\ UNCHANGED <<epoch, blocked>>
        /\ UNCHANGED <<events, sent, stream, revoked, knows, handled, flushing, lost>>

-----------------------------------------------------------------------------
\* The projection of a root message: its author's latest edit, and each
\* device's latest reaction.

Latest(S, default) ==
    IF S = {} THEN default
    ELSE CHOOSE i \in S : \A j \in S : events[j].counter <= events[i].counter

Updates(d, r, kinds, from) ==
    {i \in Held(d) : events[i].kind \in kinds /\ events[i].target = r /\ events[i].from = from}


Shown(d, r) == Latest(Updates(d, r, {"edit"}, events[r].from), r)

Reacts(d, r) ==
    {x \in Devices : events[Latest(Updates(d, r, {"react", "unreact"}, x), r)].kind = "react"}

conversation(d) ==
    [r \in {i \in Held(d) : events[i].kind \in Roots} |->
        [text |-> Shown(d, r), reactions |-> Reacts(d, r), at |-> transcript[d][r]]]

-----------------------------------------------------------------------------
Init ==
    /\ events = <<>> /\ sent = {} /\ blocked = {}
    /\ stream = <<>>
    /\ revoked = FALSE /\ knows = {} /\ epoch = [d \in Devices |-> 0]
    /\ done = [d \in Devices |-> 0] /\ rejected = [d \in Devices |-> {}]
    /\ transcript = [d \in Devices |-> <<>>]
    /\ handled = [d \in Devices |-> {}] /\ flushing = {} /\ lost = 0

Next ==
    \/ \E d \in Devices :
        \/ \E kind \in Composed, target \in 0..Len(events) :
                Send(d, kind, target)
        \/ \E again \in BOOLEAN : Publish(d, again) \/ PublishLost(d, again)
        \/ Respond(d) \/ Audit(d)  \/ Process(d)
    \/ Revoke \/ reconcile_revocations

\* Clients keep polling: every sync audits, flushes, fetches, processes and
\* reconciles, and a participant answers after each.
Fairness ==
    /\ \A d \in Devices : /\ WF_vars(Audit(d)) /\ WF_vars(\E again \in BOOLEAN : Publish(d, again))
                          /\ WF_vars(Process(d)) /\ WF_vars(Respond(d))
    /\ WF_vars(reconcile_revocations)

Spec == Init /\ [][Next]_vars
FairSpec == Spec /\ Fairness

-----------------------------------------------------------------------------
\* Properties

Positions == 0..(MaxEvents + MaxLost + 1)

\* The store of every device holds what its tables can hold, and the unsent rows
\* stay within the limit and its reserve.
TypeOK ==
    /\ \A i \in Ids : events[i] \in
            [from : Devices, kind : Application \cup {"policy", "commit"}, target : 0..Len(events),
             counter : 0..MaxEvents, epoch : {0, 1}]
    /\ sent \subseteq Ids /\ blocked \subseteq Ids /\ sent \cap blocked = {}
    /\ \A n \in 1..Len(stream) : stream[n] \in Ids
    /\ revoked \in BOOLEAN /\ knows \subseteq Devices
    /\ epoch \in [Devices -> {0, 1}] /\ flushing \subseteq Devices /\ lost \in 0..MaxLost
    /\ \A d \in Devices :
            /\ done[d] <= Len(stream) /\ rejected[d] \subseteq 1..done[d]
            /\ Held(d) \subseteq Written /\ handled[d] \subseteq Held(d)
            /\ \A i \in Held(d) : transcript[d][i] \in Positions
            /\ HasRoom(d, 0, Reserve)

\* A row carries the first sequence of its message that the device has processed,
\* or an acknowledged one before that: duplicates and late acknowledgments never
\* move a message down.
FirstSequenceWins ==
    \A d \in Devices : \A i \in Held(d) :
        LET at == transcript[d][i]
            processed == {n \in 1..done[d] : stream[n] = i}
        IN  /\ at # 0 => at <= Len(stream) /\ stream[at] = i
            /\ processed # {} => at = FirstIn(stream, i)

\* Devices that have processed the whole stream, with nothing left to publish or
\* quarantined, show the same conversation.
ViewsAgree ==
    LET settled == {d \in Devices : done[d] = Len(stream) /\ Unsent(d) = {} /\ rejected[d] = {}}
    IN  \A c, d \in settled : Devices = settled => conversation(c) = conversation(d)

\* A quarantined delivery is a message of the other epoch: neither duplicates nor
\* a device's own messages are ever counted as invalid.
OnlyOldEpochsRejected ==
    \A d \in Devices : \A s \in rejected[d] :
        events[stream[s]].epoch = 0 /\ epoch[d] = 1 /\ stream[s] \notin Held(d)

\* Whatever an application has queued, the coordinator can queue the removal of a
\* revoked member.
RemovalHasRoom == RekeyPending(Coordinator) => HasRoom(Coordinator, 2, Reserve)

\* A participant answers a request once, whatever is repeated or lost.
AnswersOnce ==
    \A i, j \in Ids :
        /\ events[i].kind = "answer" /\ events[j].kind = "answer"
        /\ events[i].from = events[j].from /\ events[i].target = events[j].target
        => i = j

\* What is repeated, late or lost on the way leaves no trace in the transcripts.
TranscriptsAgree ==
    /\ TypeOK /\ FirstSequenceWins /\ ViewsAgree
    /\ OnlyOldEpochsRejected /\ AnswersOnce

\* Every device shows the author's last version of those it holds: an edit takes
\* effect when it is written or decrypted, and nothing that follows undoes it.
EditsTakeEffect ==
    [][\A d \in Devices : \A r \in Held(d) :
           events[r].kind \in Roots =>
               /\ Shown(d, r) <= Shown(d, r)'
               /\ \A i \in Held(d)' \ Held(d) :
                       events'[i].kind = "edit" /\ events'[i].target = r
                       => i <= Shown(d, r)']_transcript

\* Syncing settles the channel: every row is sent or held back, everybody has
\* processed the stream and left the old epoch.
ChannelSettles ==
    <>[](\A d \in Devices : /\ Flushable(d) = {} /\ done[d] = Len(stream)
                            /\ revoked => epoch[d] = 1)

\* Once a member is revoked and the channel rekeyed, a device whose other rows are
\* all sent can send again.
ResendAfterRekey ==
    \A d \in Devices : epoch[d] = 1 /\ Flushable(d) = {} => HasRoom(d, 1, 0)
=============================================================================
