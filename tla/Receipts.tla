------------------------------ MODULE Receipts ------------------------------
(***************************************************************************)
(* Delivery and read receipts of one channel: clients ask over Core NATS   *)
(* which devices hold their messages and which have shown them.            *)
(*                                                                         *)
(* Core NATS keeps nothing: an event may be lost, repeated or read out of  *)
(* order, and one that has grown too old to open is as good as lost.  The  *)
(* durable transcript is reduced to what receipts ask of it; GroupEpochs   *)
(* and Conversation model how it comes about.  A member outside Clients    *)
(* may be revoked and removed, which opens a new epoch.                    *)
(***************************************************************************)
EXTENDS Naturals, FiniteSets, Sequences

CONSTANTS Clients,
          Authors,    \* message number to its author, in the order written
          Limit,      \* messages a client asks about at most (100)
          Batch,      \* requests of one poll (8)
          MaxFlight   \* bound: events on their way before older ones are lost

ASSUME ReceiptsAssumption ==
    Authors \in Seq(Clients) /\ {Limit, Batch} \subseteq Nat \ {0} /\ MaxFlight \in Nat

Numbers == DOMAIN Authors

VARIABLES
    accepted,     \* how many messages have a stream sequence at their author
    shelf,        \* a reader's row: none, stored or displayed
    receipts,     \* device_receipts: message to device to 0, 1 delivered, 2 read
    clientEpoch,  \* the epoch of each device
    pending,      \* devices that know the revocation and have not rekeyed
    wire,         \* events on their way to a device
    cursor        \* receipt_cursor

kept == <<accepted, shelf, receipts>>
group == <<clientEpoch, pending>>
receiptVars == <<kept, group, wire, cursor>>

Kinds == {"request", "delivered", "read"}

\* ensure_can_send, before anything is sealed or opened.
CanSend(d) == ~pending[d]

\* An event carries its sender and the sender's epoch.
seal_ephemeral(d, kind, m) == [from |-> d, epoch |-> clientEpoch[d], kind |-> kind, message |-> m]

\* The broker hands events to the other subscribers.  Where more are on their
\* way than the bound allows, the older ones are lost.
Flight(w) == Cardinality(UNION {{x} \X w[x] : x \in Clients})
Sent(d, evs) ==
    LET w == [x \in Clients |-> IF x # d THEN wire[x] \cup evs ELSE wire[x]]
    IN IF Flight(w) <= MaxFlight THEN w
       ELSE [x \in Clients |-> IF x # d THEN evs ELSE wire[x]]
-----------------------------------------------------------------------------
\* flush_outbox sequences the messages in order; a reader may be first.
Accept ==
    /\ accepted < Len(Authors)
    /\ accepted' = accepted + 1
    /\ UNCHANGED <<shelf, receipts, group, wire, cursor>>

Receive(d, m) ==
    /\ m <= accepted + 1 /\ Authors[m] # d /\ shelf[d][m] = "none"
    /\ shelf' = [shelf EXCEPT ![d][m] = "stored"]
    /\ UNCHANGED <<accepted, receipts, group, wire, cursor>>

mark_displayed(d, m) ==
    /\ shelf[d][m] = "stored"
    /\ shelf' = [shelf EXCEPT ![d][m] = "displayed"]
    /\ UNCHANGED <<accepted, receipts, group, wire, cursor>>

\* The audit finds the revocation; the removal Commit is merged.
Learn(d) ==
    /\ clientEpoch[d] = 0 /\ ~pending[d]
    /\ pending' = [pending EXCEPT ![d] = TRUE]
    /\ UNCHANGED <<kept, clientEpoch, wire, cursor>>

Merge(d) ==
    /\ pending[d]
    /\ pending' = [pending EXCEPT ![d] = FALSE]
    /\ clientEpoch' = [clientEpoch EXCEPT ![d] = 1]
    /\ UNCHANGED <<kept, wire, cursor>>
-----------------------------------------------------------------------------
\* The accepted messages of a client, and how many of them are newer than m.
Outgoing(d) == {m \in 1..accepted : Authors[m] = d}
Newer(d, m) == Cardinality({x \in Outgoing(d) : x > m})

\* receipt_requests: the newest of them, which Newer numbers from 0.
receipt_requests(d) == {m \in Outgoing(d) : Newer(d, m) < Limit}

\* Mutant of Polled: every poll asks for the newest messages.
PolledNewest(d) == {m \in receipt_requests(d) : Newer(d, m) < Batch}

\* The messages one poll asks about, from the cursor on.
Polled(d) ==
    LET n == Cardinality(receipt_requests(d)) IN
    {m \in receipt_requests(d) :
        \E i \in 0 .. Batch - 1 : i < n /\ Newer(d, m) = (cursor[d] + i) % n}

\* A failed sync drops the connection, and with it what was on its way.
Reset(d) == wire' = [wire EXCEPT ![d] = {}]

SyncFails(d) == Reset(d) /\ UNCHANGED <<kept, group, cursor>>

\* Sealing fails while a revoked member is in the group, and with it the sync.
Poll(d) ==
    /\ receipt_requests(d) # {}
    /\ \/ /\ CanSend(d)
          /\ wire' = Sent(d, {seal_ephemeral(d, "request", m) : m \in Polled(d)})
          /\ cursor' = [cursor EXCEPT ![d] = (@ + Batch) % Cardinality(receipt_requests(d))]
       \/ ~CanSend(d) /\ Reset(d) /\ UNCHANGED cursor
    /\ UNCHANGED <<kept, group>>

\* open_ephemeral: a fresh event of the present epoch.
open_ephemeral(d, e) == CanSend(d) /\ e.epoch = clientEpoch[d]

\* Mutant of Answer: holding a message is having shown it.
AnswerRead(d, m) == IF shelf[d][m] = "none" THEN {} ELSE {"read"}

\* process_receipt of a request: what the transcript says now.
Answer(d, m) ==
    CASE shelf[d][m] = "none" -> {}
      [] shelf[d][m] = "stored" -> {"delivered"}
      [] shelf[d][m] = "displayed" -> {"read"}

\* A receipt replaces a lesser one.
Upsert(was, claim) == IF claim > was THEN claim ELSE was

\* The sync reads one event; the broker may have another copy on its way.
\* A request is answered to its author only, and a receipt is not answered.
process_receipt(d, e) ==
    /\ open_ephemeral(d, e)
    /\ \/ /\ e.kind = "request" /\ Authors[e.message] = e.from
          /\ wire' = Sent(d, {seal_ephemeral(d, k, e.message) : k \in Answer(d, e.message)})
          /\ UNCHANGED receipts
       \/ /\ e.kind # "request" /\ Authors[e.message] = d
          /\ receipts' = [receipts EXCEPT ![e.message][e.from] =
                             Upsert(@, IF e.kind = "read" THEN 2 ELSE 1)]
          /\ UNCHANGED wire
    /\ UNCHANGED <<accepted, shelf, group, cursor>>

\* An event is lost, or read and ignored: too old, or of another epoch.
Lose(d, e) ==
    /\ wire' = [wire EXCEPT ![d] = @ \ {e}]
    /\ UNCHANGED <<kept, group, cursor>>
-----------------------------------------------------------------------------
ReceiptInit ==
    /\ accepted = 0
    /\ shelf = [d \in Clients |-> [m \in Numbers |-> "none"]]
    /\ receipts = [m \in Numbers |-> [d \in Clients |-> 0]]
    /\ clientEpoch = [d \in Clients |-> 0] /\ pending = [d \in Clients |-> FALSE]
    /\ wire = [d \in Clients |-> {}]
    /\ cursor = [d \in Clients |-> 0]

ReceiptNext ==
    \/ Accept
    \/ \E d \in Clients, m \in Numbers : Receive(d, m) \/ mark_displayed(d, m)
    \/ \E d \in Clients : Learn(d) \/ Merge(d) \/ SyncFails(d) \/ Poll(d)
    \/ \E d \in Clients : \E e \in wire[d] : process_receipt(d, e) \/ Lose(d, e)

ReceiptSpec == ReceiptInit /\ [][ReceiptNext]_receiptVars

\* Clients that are connected at the same time poll every five seconds and
\* sync, and neither every request nor every receipt for a message is lost.
FairReceiptSpec ==
    /\ ReceiptSpec
    /\ WF_receiptVars(Accept)
    /\ \A d \in Clients :
          /\ WF_receiptVars(Poll(d)) /\ WF_receiptVars(Merge(d))
          /\ WF_receiptVars(Learn(d) /\ \E x \in Clients : pending[x] \/ clientEpoch[x] = 1)
    /\ \A m \in Numbers : \A d \in Clients \ {Authors[m]} :
          /\ SF_receiptVars(\E e \in wire[d] :
                e.kind = "request" /\ e.message = m /\ process_receipt(d, e))
          /\ SF_receiptVars(\E e \in wire[Authors[m]] :
                e.kind = "read" /\ e.message = m /\ process_receipt(Authors[m], e))
-----------------------------------------------------------------------------
\* The variables' types; what is on its way was sent in an epoch its sender
\* has reached.
ReceiptTypeOK ==
    /\ accepted \in 0 .. Len(Authors)
    /\ shelf \in [Clients -> [Numbers -> {"none", "stored", "displayed"}]]
    /\ receipts \in [Numbers -> [Clients -> 0..2]]
    /\ clientEpoch \in [Clients -> {0, 1}] /\ pending \in [Clients -> BOOLEAN]
    /\ wire \in [Clients -> SUBSET [from : Clients, epoch : {0, 1}, kind : Kinds, message : Numbers]]
    /\ \A d \in Clients : \A e \in wire[d] : e.from # d /\ e.epoch <= clientEpoch[e.from]
    /\ cursor \in [Clients -> Nat]

\* What an author is told is true, however late it is told: a device that is
\* said to have read a message has shown it, one that is said to have it holds it.
ReceiptsAreTrue ==
    /\ ReceiptTypeOK
    /\ \A m \in Numbers, d \in Clients :
          /\ receipts[m][d] > 0 => shelf[d][m] # "none"
          /\ receipts[m][d] = 2 => shelf[d][m] = "displayed"

\* The author of a message learns of every device that showed it, although a
\* poll asks for a few messages only and the list of messages grows, as long as
\* the message stays on that list; and a receipt that arrives late or twice does
\* not take that back.
ReceiptsArrive ==
    \A m \in Numbers : \A d \in Clients \ {Authors[m]} :
        Cardinality({x \in Numbers : x > m /\ Authors[x] = Authors[m]}) < Limit =>
        shelf[d][m] = "displayed" ~> [](receipts[m][d] = 2)
=============================================================================
