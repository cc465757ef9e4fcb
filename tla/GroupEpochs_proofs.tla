------------------------ MODULE GroupEpochs_proofs ------------------------
(* Proofs about GroupEpochs, for every number of devices, every roster and  *)
(* every bound.                                                             *)
EXTENDS GroupEpochs, SequenceTheorems, WellFoundedInduction, TLAPS

(* Every non-empty set of naturals has a least element.                     *)
LEMMA LeastElement ==
    ASSUME NEW T \in SUBSET Nat, T # {}
    PROVE  \E x \in T : \A y \in T : x <= y
<1> DEFINE less == {ss \in Nat \X Nat : ss[1] < ss[2]}
<1>1. IsWellFoundedOn(less, Nat)
  BY NatLessThanWellFounded, Zenon DEF OpToRel
<1>2. \E x \in T : \A y \in T : ~(<<y, x>> \in less)
  <2> HIDE DEF less
  <2> QED BY <1>1, WFMin
<1>3. PICK x \in T : \A y \in T : ~(<<y, x>> \in less)
  BY <1>2
<1>4. ASSUME NEW y \in T PROVE x <= y
  <2>1. x \in Nat /\ y \in Nat
    OBVIOUS
  <2>2. y < x => <<y, x>> \in less
    BY <2>1
  <2> QED BY <1>3, <2>1, <2>2
<1> QED BY <1>4

(* Blanking leaves keeps the tree's shape and removes exactly those members. *)
LEMMA BlankMembers ==
    ASSUME NEW leaves \in Leaves, NEW gone
    PROVE  /\ Blank(leaves, gone) \in Leaves
           /\ DOMAIN Blank(leaves, gone) = DOMAIN leaves
           /\ Members(Blank(leaves, gone)) = Members(leaves) \ gone
<1> DEFINE new == Blank(leaves, gone)
<1>1. DOMAIN leaves = 1..Len(leaves) /\ Len(leaves) \in Nat
  BY DEF Leaves
<1>2. /\ new = [i \in 1..Len(leaves) |-> IF leaves[i] \in gone THEN NoOne ELSE leaves[i]]
      /\ \A i \in 1..Len(leaves) : leaves[i] \in Devices \cup {NoOne}
  BY <1>1 DEF Blank, Leaves
<1>3. new \in Leaves
  BY <1>1, <1>2, IsASeq DEF Leaves
<1>4. Members(new) = Members(leaves) \ gone
  BY <1>1, <1>2 DEF Members
<1> QED BY <1>1, <1>2, <1>3, <1>4

(* Adding a leaf keeps every member.                                        *)
LEMMA AddLeafMembers ==
    ASSUME NEW leaves \in Leaves, NEW x \in Devices
    PROVE  /\ AddLeaf(leaves, x) \in Leaves
           /\ Members(leaves) \subseteq Members(AddLeaf(leaves, x))
<1> DEFINE vacant == {i \in DOMAIN leaves : leaves[i] = NoOne}
           k == CHOOSE i \in vacant : \A j \in vacant : i <= j
<1>1. DOMAIN leaves = 1..Len(leaves) /\ Len(leaves) \in Nat
  BY DEF Leaves
<1>2. CASE vacant = {}
  <2>1. AddLeaf(leaves, x) = Append(leaves, x)
    BY <1>2 DEF AddLeaf
  <2>2. /\ Append(leaves, x) \in Leaves
        /\ DOMAIN Append(leaves, x) = 1..(Len(leaves) + 1)
        /\ \A i \in 1..Len(leaves) : Append(leaves, x)[i] = leaves[i]
    BY <1>1 DEF Leaves
  <2>3. DOMAIN leaves \subseteq DOMAIN Append(leaves, x)
    BY <1>1, <2>2
  <2> QED BY <1>1, <2>1, <2>2, <2>3 DEF Members
<1>3. CASE vacant # {}
  <2>1. k \in vacant
    <3>1. vacant \in SUBSET Nat
      BY <1>1
    <3> QED BY <1>3, <3>1, LeastElement
  <2>2. AddLeaf(leaves, x) = [leaves EXCEPT ![k] = x]
    BY <1>3 DEF AddLeaf
  <2>3. AddLeaf(leaves, x) \in Leaves
    BY <2>1, <2>2 DEF Leaves
  <2>4. \A i \in DOMAIN leaves : leaves[i] # NoOne => AddLeaf(leaves, x)[i] = leaves[i]
    BY <2>1, <2>2
  <2>5. DOMAIN AddLeaf(leaves, x) = DOMAIN leaves
    BY <2>2
  <2> QED BY <2>3, <2>4, <2>5 DEF Members
<1> QED BY <1>2, <1>3

(* Removing revoked leaves does not change who is the lowest live leaf.     *)
LEMMA LowestAfterBlank ==
    ASSUME NEW leaves \in Leaves, NEW gone
    PROVE  LowestLive(Blank(leaves, gone), gone) = LowestLive(leaves, gone)
<1> DEFINE new == Blank(leaves, gone)
           live(l) == {i \in DOMAIN l : l[i] \in Devices \ gone}
<1>1. DOMAIN leaves = 1..Len(leaves) /\ Len(leaves) \in Nat
  BY DEF Leaves
<1>2. /\ DOMAIN new = DOMAIN leaves
      /\ \A i \in DOMAIN leaves : new[i] = IF leaves[i] \in gone THEN NoOne ELSE leaves[i]
  BY DEF Blank
<1>3. live(new) = live(leaves)
  BY <1>2, DevicesAssumption
<1>4. \A i \in live(leaves) : new[i] = leaves[i]
  BY <1>2
<1>5. CASE live(leaves) = {}
  BY <1>3, <1>5 DEF LowestLive
<1>6. CASE live(leaves) # {}
  <2>1. live(leaves) \in SUBSET Nat
    BY <1>1
  <2>2. (CHOOSE i \in live(leaves) : \A j \in live(leaves) : i <= j) \in live(leaves)
    BY <1>6, <2>1, LeastElement
  <2>3. new[CHOOSE i \in live(new) : \A j \in live(new) : i <= j]
        = leaves[CHOOSE i \in live(leaves) : \A j \in live(leaves) : i <= j]
    BY <1>3, <1>4, <2>2
  <2> QED BY <1>3, <1>6, <2>3 DEF LowestLive
<1> QED BY <1>5, <1>6

-----------------------------------------------------------------------------
(* The inductive invariant.                                                 *)

\* Every epoch's author is one of its members.
AuthorsAreMembers ==
    /\ Len(commits) >= 1
    /\ \A c \in 1..Len(commits) : commits[c].author \in MembersOf(c)

\* What is queued, stored or delivered refers to something that exists.
ReferencesExist ==
    /\ \A i \in DOMAIN chat : chat[i].kind = "handshake" => chat[i].ref \in 1..Len(commits)
    /\ \A d \in Devices : \A i \in DOMAIN mailbox[d] : mailbox[d][i] \in 1..Len(commits)
    /\ \A d \in Devices : \A i \in DOMAIN outbox[d] :
         /\ outbox[d][i].kind # "message" => outbox[d][i].ref \in 1..Len(commits)
         /\ outbox[d][i].kind = "welcome" => outbox[d][i].to \in Devices

\* Where a process can be.
ProgramPoints ==
    \A d \in Devices :
        /\ pc[d] = "accept" => mailbox[d] # << >>
        /\ pc[d] \in Points => mls[d] # 0

\* The stored coordinator of a joined device is the author of the epoch it holds.
PinIsAuthor == \A d \in Devices : mls[d] # 0 => pin[d] = commits[mls[d]].author

Inv == TypeOK /\ AuthorsAreMembers /\ ReferencesExist /\ ProgramPoints /\ PinIsAuthor

(* Blocking rows changes neither what they are nor where they go.           *)
LEMMA BlockedRows ==
    ASSUME NEW d \in Devices, NEW rows \in Seq(Row), NEW gone
    PROVE  LET new == block_revoked_outbox(d, rows, gone)
           IN  /\ new \in Seq(Row)
               /\ DOMAIN new = DOMAIN rows
               /\ \A i \in DOMAIN rows : /\ new[i].kind = rows[i].kind
                                         /\ new[i].ref = rows[i].ref
                                         /\ new[i].to = rows[i].to
<1> DEFINE new == block_revoked_outbox(d, rows, gone)
           held == [i \in DOMAIN rows |->
                      IF rows[i].kind = "message" /\ i \in Pending(rows)
                      THEN [rows[i] EXCEPT !.state = "blocked"] ELSE rows[i]]
<1>1. DOMAIN rows = 1..Len(rows) /\ Len(rows) \in Nat /\ \A i \in 1..Len(rows) : rows[i] \in Row
  OBVIOUS
<1>2. \A i \in 1..Len(rows) : /\ held[i] \in Row
                             /\ held[i].kind = rows[i].kind
                             /\ held[i].ref = rows[i].ref
                             /\ held[i].to = rows[i].to
  BY <1>1 DEF Row
<1>3. held \in Seq(Row)
  <2>1. held = [i \in 1..Len(rows) |-> held[i]]
    BY <1>1
  <2> HIDE DEF held
  <2> QED BY <1>1, <1>2, <2>1, IsASeq
<1>4. new = rows \/ new = held
  BY DEF block_revoked_outbox
<1> QED BY <1>1, <1>2, <1>3, <1>4

(* An elected successor's removal makes it the coordinator of the new epoch. *)
LEMMA SuccessorIsPinned ==
    ASSUME NEW leaves \in Leaves, NEW gone, NEW p \in Members(leaves), NEW author \in Devices,
           author = coordinator(leaves, p, gone),
           author \in Members(Blank(leaves, gone))
    PROVE  refresh_coordinator(Blank(leaves, gone), p, gone) = author
<1>1. Members(Blank(leaves, gone)) = Members(leaves) \ gone
  BY BlankMembers
<1>2. CASE p \in Members(leaves) \ gone
  BY <1>1, <1>2 DEF coordinator, refresh_coordinator
<1>3. CASE p \notin Members(leaves) \ gone
  <2>1. author = LowestLive(leaves, gone)
    BY <1>3 DEF coordinator
  <2>2. LowestLive(Blank(leaves, gone), gone) = author
    BY <2>1, LowestAfterBlank
  <2>3. p \notin Members(Blank(leaves, gone))
    BY <1>1, <1>3
  <2>4. author # NoOne
    BY DevicesAssumption
  <2> QED BY <2>2, <2>3, <2>4 DEF refresh_coordinator, coordinator
<1> QED BY <1>2, <1>3

(* A local Commit of a coordinator keeps the invariant's facts about epochs. *)
LEMMA LocalCommitFacts ==
    ASSUME Inv, NEW d \in Devices, mls[d] # 0, NEW leaves \in Leaves, NEW gone, NEW rows,
           d \in Members(leaves), refresh_coordinator(leaves, pin[d], gone) = d,
           LocalCommit(d, leaves, gone, rows)
    PROVE  /\ commits' \in Seq(Commit)
           /\ Len(commits') = Len(commits) + 1
           /\ \A c \in 1..Len(commits) : commits'[c] = commits[c]
           /\ mls' \in [Devices -> 0..Len(commits')]
           /\ pin' \in [Devices -> Devices \cup {NoOne}]
           /\ AuthorsAreMembers'
           /\ PinIsAuthor'
           /\ \A q \in Devices : mls[q] # 0 => mls'[q] # 0
<1> DEFINE new == [parent |-> mls[d], author |-> d, leaves |-> leaves,
                   epoch |-> commits[mls[d]].epoch + 1]
<1>1. /\ commits \in Seq(Commit) /\ mls[d] \in 1..Len(commits) /\ Len(commits) \in Nat
      /\ mls \in [Devices -> 0..Len(commits)] /\ pin \in [Devices -> Devices \cup {NoOne}]
  <2>1. commits \in Seq(Commit)
    BY DEF Inv, TypeOK
  <2>2. mls \in [Devices -> 0..Len(commits)]
    BY DEF Inv, TypeOK
  <2>3. pin \in [Devices -> Devices \cup {NoOne}]
    BY DEF Inv, TypeOK
  <2>4. mls[d] \in 0..Len(commits) /\ Len(commits) \in Nat
    BY <2>1, <2>2
  <2> QED BY <2>1, <2>2, <2>3, <2>4
<1>2. new \in Commit
  <2>1. commits[mls[d]] \in Commit
    BY <1>1
  <2>2. commits[mls[d]].epoch + 1 \in Nat
    BY <2>1 DEF Commit
  <2>3. mls[d] \in Nat
    BY <1>1
  <2> QED BY <2>2, <2>3 DEF Commit
<1>3. commits' = Append(commits, new)
  BY DEF LocalCommit
<1> HIDE DEF new
<1>4. /\ commits' \in Seq(Commit)
      /\ Len(commits') = Len(commits) + 1
      /\ \A c \in 1..Len(commits) : commits'[c] = commits[c]
      /\ commits'[Len(commits) + 1] = new
  BY <1>1, <1>2, <1>3, AppendProperties
<1>5. /\ mls' = [mls EXCEPT ![d] = Len(commits) + 1]
      /\ pin' = [pin EXCEPT ![d] = d]
  BY DEF LocalCommit
<1>6. /\ mls' \in [Devices -> 0..Len(commits')]
      /\ pin' \in [Devices -> Devices \cup {NoOne}]
      /\ \A q \in Devices : mls[q] # 0 => mls'[q] # 0
  <2>1. \A q \in Devices : mls'[q] = IF q = d THEN Len(commits) + 1 ELSE mls[q]
    BY <1>1, <1>5
  <2>2. \A q \in Devices : mls'[q] \in 0..Len(commits')
    <3>1. Len(commits) \in Nat /\ \A q \in Devices : mls[q] \in 0..Len(commits)
      BY <1>1
    <3>2. Len(commits') = Len(commits) + 1
      BY <1>4
    <3> QED BY <2>1, <3>1, <3>2
  <2>3. mls' \in [Devices -> 0..Len(commits')]
    BY <1>1, <1>5, <2>2
  <2>4. pin' \in [Devices -> Devices \cup {NoOne}]
    BY <1>1, <1>5
  <2> QED BY <1>1, <2>1, <2>3, <2>4
<1>7. AuthorsAreMembers'
  <2>1. new.author \in Members(new.leaves)
    BY DEF new
  <2>2. ASSUME NEW c \in 1..Len(commits')
        PROVE  commits'[c].author \in Members(commits'[c].leaves)
    <3>1. CASE c \in 1..Len(commits)
      BY <1>4, <3>1 DEF Inv, AuthorsAreMembers, MembersOf
    <3>2. CASE c = Len(commits) + 1
      BY <1>4, <2>1, <3>2
    <3> QED BY <1>1, <1>4, <3>1, <3>2
  <2> QED BY <1>1, <1>4, <2>2 DEF AuthorsAreMembers, MembersOf
<1>8. PinIsAuthor'
  <2>1. new.author = d
    BY DEF new
  <2>2. ASSUME NEW q \in Devices, mls'[q] # 0
        PROVE  pin'[q] = commits'[mls'[q]].author
    <3>1. CASE q = d
      BY <1>1, <1>4, <1>5, <2>1, <3>1
    <3>2. CASE q # d
      <4>1. mls'[q] = mls[q] /\ pin'[q] = pin[q] /\ mls[q] \in 1..Len(commits)
        BY <1>1, <1>5, <2>2, <3>2
      <4> QED BY <1>4, <4>1, <2>2 DEF Inv, PinIsAuthor
    <3> QED BY <3>1, <3>2
  <2> QED BY <2>2 DEF PinIsAuthor
<1> QED BY <1>4, <1>6, <1>7, <1>8

-----------------------------------------------------------------------------
(* Initial states.                                                          *)
LEMMA InitInv == Init => Inv
<1> SUFFICES ASSUME Init PROVE Inv
  OBVIOUS
<1>1. Roster \in Seq(Devices) /\ Roster # << >> /\ Len(Roster) \in Nat \ {0}
      /\ DOMAIN Roster = 1..Len(Roster) /\ Roster[1] \in Devices /\ 1 \in DOMAIN Roster
  BY RosterAssumption
<1>2. FirstState \in Commit
  <2>1. Roster \in Leaves
    BY <1>1, SeqMonotonic, Zenon DEF Leaves
  <2> QED BY <1>1, <2>1 DEF FirstState, Commit
<1>3. commits = <<FirstState>> /\ Len(commits) = 1 /\ commits[1] = FirstState
      /\ commits \in Seq(Commit)
  BY <1>2 DEF Init
<1>4. TypeOK
  <2>1. \A d \in Devices : mls[d] \in {0, 1} /\ pin[d] \in Devices \cup {NoOne}
    BY <1>1 DEF Init
  <2>2. revoking \in [device : Devices \cup {NoOne}, cutoff : Nat]
    BY DEF Init
  <2>3. /\ messages = << >> /\ chat = << >> /\ revLog = << >>
        /\ Len(chat) = 0 /\ Len(revLog) = 0
    BY DEF Init
  <2> QED BY <1>3, <2>1, <2>2, <2>3 DEF Init, TypeOK, Points
<1>5. AuthorsAreMembers
  <2>1. Roster[1] \in Members(Roster)
    BY <1>1, DevicesAssumption DEF Members
  <2>2. FirstState.author = Roster[1] /\ FirstState.leaves = Roster
    BY DEF FirstState
  <2> QED BY <1>3, <2>1, <2>2 DEF AuthorsAreMembers, MembersOf
<1>6. ReferencesExist
  BY DEF Init, ReferencesExist
<1>7. ProgramPoints
  BY DEF Init, ProgramPoints, Points
<1>8. PinIsAuthor
  <2>1. FirstState.author = Roster[1]
    BY DEF FirstState
  <2>2. \A d \in Devices : mls[d] # 0 => mls[d] = 1 /\ pin[d] = Roster[1]
    BY DEF Init
  <2> QED BY <1>3, <2>1, <2>2 DEF PinIsAuthor
<1> QED BY <1>4, <1>5, <1>6, <1>7, <1>8 DEF Inv

-----------------------------------------------------------------------------
(* One lemma per action.                                                    *)

(* The audit of flush_outbox blocks rows and moves the process on; nothing   *)
(* it blocks changes what the row refers to.                                *)
LEMMA AuditInv == ASSUME Inv, NEW d \in Devices, Audit(d) PROVE Inv'
<1>1. UNCHANGED <<commits, messages, chat, mailbox, revLog, revoking, fenced, mls, joined, pin,
                  staged, done, rejected, peer, faults>>
  BY DEF Audit, broker
<1>2. \E rows \in Seq(Row) :
         /\ outbox' = [outbox EXCEPT ![d] = rows]
         /\ DOMAIN rows = DOMAIN outbox[d]
         /\ \A i \in DOMAIN rows : /\ rows[i].kind = outbox[d][i].kind
                                   /\ rows[i].ref = outbox[d][i].ref
                                   /\ rows[i].to = outbox[d][i].to
  <2>1. outbox[d] \in Seq(Row) /\ outbox = [outbox EXCEPT ![d] = outbox[d]]
    BY DEF Inv, TypeOK
  <2>2. CASE d \in Revoked
    BY <2>1, <2>2 DEF Audit
  <2>3. CASE d \notin Revoked
    <3> DEFINE rows == block_revoked_outbox(d, outbox[d], Revoked)
    <3>1. outbox' = [outbox EXCEPT ![d] = rows]
      BY <2>3 DEF Audit
    <3> HIDE DEF rows
    <3>2. /\ rows \in Seq(Row)
          /\ DOMAIN rows = DOMAIN outbox[d]
          /\ \A i \in DOMAIN rows : /\ rows[i].kind = outbox[d][i].kind
                                    /\ rows[i].ref = outbox[d][i].ref
                                    /\ rows[i].to = outbox[d][i].to
      BY <2>1, BlockedRows DEF rows
    <3> QED BY <3>1, <3>2
  <2> QED BY <2>2, <2>3
<1>3. PICK point \in Points \cup {"idle"} : pc' = [pc EXCEPT ![d] = point]
  <2>1. \A rows : AfterFlush(FlushPoint(pc[d]), rows) \in Points \cup {"idle"}
    BY DEF Audit, AfterFlush, FlushPoint, Points
  <2> QED BY <2>1 DEF Audit
<1>4. known' \in [Devices -> 0..Len(revLog)] /\ mls[d] # 0
  BY DEF Audit, Inv, TypeOK
<1>5. outbox' \in [Devices -> Seq(Row)]
  BY <1>2 DEF Inv, TypeOK
<1>6. TypeOK'
  BY <1>1, <1>3, <1>4, <1>5 DEF Inv, TypeOK
<1>7. ReferencesExist'
  <2>1. PICK rows \in Seq(Row) :
           /\ outbox' = [outbox EXCEPT ![d] = rows]
           /\ DOMAIN rows = DOMAIN outbox[d]
           /\ \A i \in DOMAIN rows : /\ rows[i].kind = outbox[d][i].kind
                                     /\ rows[i].ref = outbox[d][i].ref
                                     /\ rows[i].to = outbox[d][i].to
    BY <1>2
  <2>2. outbox \in [Devices -> Seq(Row)]
    BY DEF Inv, TypeOK
  <2>3. outbox'[d] = rows /\ \A q \in Devices \ {d} : outbox'[q] = outbox[q]
    BY <2>1, <2>2
  <2> QED BY <1>1, <2>1, <2>3 DEF Inv, ReferencesExist
<1>8. ProgramPoints'
  BY <1>1, <1>3, <1>4 DEF Inv, TypeOK, ProgramPoints, Points
<1>9. AuthorsAreMembers' /\ PinIsAuthor'
  BY <1>1 DEF Inv, AuthorsAreMembers, PinIsAuthor, MembersOf
<1> QED BY <1>6, <1>7, <1>8, <1>9 DEF Inv

(* Actions that leave epochs, stores and rows alone.                        *)
LEMMA QuietInv ==
    ASSUME Inv,
           UNCHANGED <<commits, messages, chat, mailbox, mls, joined, pin, outbox>>,
           NEW d \in Devices, NEW point \in Points \cup {"idle", "accept"},
           pc' = pc \/ pc' = [pc EXCEPT ![d] = point],
           point = "accept" => mailbox[d] # << >>,
           point \in Points => mls[d] # 0,
           revLog' \in Seq(Revocation),
           revoking' \in [device : Devices \cup {NoOne}, cutoff : Nat],
           fenced' \subseteq Devices,
           known' \in [Devices -> 0..Len(revLog')],
           staged' \in [Devices -> 0..Len(chat)],
           \A q \in Devices : done[q] <= staged'[q],
           done' = done, rejected' = rejected,
           peer' \in [Devices -> Devices \cup {NoOne}],
           faults' \in Nat
    PROVE  Inv'
<1>1. TypeOK'
  <2>1. pc' \in [Devices -> Points \cup {"idle", "accept"}]
    BY DEF Inv, TypeOK
  <2>2. /\ commits' \in Seq(Commit) /\ messages' \in Seq(Ciphertext) /\ chat' \in Seq(Delivery)
        /\ mailbox' \in [Devices -> Seq(Nat)]
        /\ mls' \in [Devices -> 0..Len(commits')] /\ joined' \in [Devices -> 0..Len(commits')]
        /\ pin' \in [Devices -> Devices \cup {NoOne}] /\ outbox' \in [Devices -> Seq(Row)]
        /\ done' \in [Devices -> Nat] /\ rejected' \in [Devices -> SUBSET Nat]
    BY DEF Inv, TypeOK
  <2>3. staged' \in [Devices -> 0..Len(chat')] /\ \A q \in Devices : done'[q] <= staged'[q]
    OBVIOUS
  <2> QED BY <2>1, <2>2, <2>3 DEF TypeOK
<1>2. ReferencesExist' /\ AuthorsAreMembers' /\ PinIsAuthor'
  BY DEF Inv, ReferencesExist, AuthorsAreMembers, PinIsAuthor, MembersOf
<1>3. ProgramPoints'
  BY DEF Inv, TypeOK, ProgramPoints, Points
<1> QED BY <1>1, <1>2, <1>3 DEF Inv

(* Staging the backlog never goes back, complete or broken.                 *)
LEMMA StageBacklogInv == ASSUME Inv, NEW d \in Devices, StageBacklog(d) PROVE Inv'
<1>1. PICK n \in staged[d]..Len(chat) :
         /\ staged' = [staged EXCEPT ![d] = n]
         /\ \E point \in {"reconcile", "process", "idle"} : pc' = [pc EXCEPT ![d] = point]
         /\ faults' = faults \/ faults' = faults + 1
  BY DEF StageBacklog, Backlog
<1>2. PICK point \in {"reconcile", "process", "idle"} : pc' = [pc EXCEPT ![d] = point]
  BY <1>1
<1>3. mls[d] # 0
  BY DEF StageBacklog, Inv, ProgramPoints, Points
<1>4. n \in 0..Len(chat) /\ done[d] <= n
  BY <1>1 DEF Inv, TypeOK
<1>5. staged' \in [Devices -> 0..Len(chat)] /\ \A q \in Devices : done[q] <= staged'[q]
  BY <1>1, <1>4 DEF Inv, TypeOK
<1>6. UNCHANGED <<commits, messages, chat, mailbox, revLog, revoking, fenced, mls, joined, pin,
                  known, outbox, done, rejected, peer>>
  BY DEF StageBacklog, broker
<1>7. point \in Points \cup {"idle", "accept"} /\ point # "accept"
  BY DEF Points
<1>8. /\ revLog \in Seq(Revocation) /\ fenced \subseteq Devices
      /\ revoking \in [device : Devices \cup {NoOne}, cutoff : Nat]
      /\ known \in [Devices -> 0..Len(revLog)]
      /\ peer \in [Devices -> Devices \cup {NoOne}]
  BY DEF Inv, TypeOK
<1>9. faults' \in Nat
  BY <1>1 DEF Inv, TypeOK
<1> QED BY <1>2, <1>3, <1>5, <1>6, <1>7, <1>8, <1>9, QuietInv

(* Steps of a process that change only its program point.                   *)
LEMMA PointInv ==
    ASSUME Inv, NEW d \in Devices,
           ProcessFails(d) \/ Finish(d) \/ Abort(d) \/ \E i \in Devices : JoinLookup(d, i)
    PROVE  Inv'
<1>1. /\ UNCHANGED <<commits, messages, chat, mailbox, mls, joined, pin, outbox, revLog,
                     revoking, fenced, staged, done, rejected>>
      /\ known' = known \/ known' = [known EXCEPT ![d] = Len(revLog)]
  BY DEF ProcessFails, Finish, Abort, JoinLookup, broker, store
<1>2. \E point \in {"idle", "accept"} :
        /\ pc' = [pc EXCEPT ![d] = point]
        /\ point = "accept" => mailbox[d] # << >>
  BY DEF ProcessFails, Finish, Abort, JoinLookup
<1>3. \E i \in Devices \cup {NoOne} : peer' = peer \/ peer' = [peer EXCEPT ![d] = i]
  BY DEF ProcessFails, Finish, Abort, JoinLookup
<1>4. faults' = faults \/ faults' = faults + 1
  BY DEF ProcessFails, Finish, Abort, JoinLookup
<1>5. PICK point \in {"idle", "accept"} :
        /\ pc' = [pc EXCEPT ![d] = point]
        /\ point = "accept" => mailbox[d] # << >>
  BY <1>2
<1>6. /\ revLog \in Seq(Revocation) /\ fenced \subseteq Devices
      /\ revoking \in [device : Devices \cup {NoOne}, cutoff : Nat]
      /\ staged \in [Devices -> 0..Len(chat)] /\ \A q \in Devices : done[q] <= staged[q]
  BY DEF Inv, TypeOK
<1>7. known' \in [Devices -> 0..Len(revLog)]
  <2>1. known \in [Devices -> 0..Len(revLog)]
    BY DEF Inv, TypeOK
  <2>2. Len(revLog) \in Nat
    BY <1>6
  <2> QED BY <1>1, <2>1, <2>2
<1>8. peer' \in [Devices -> Devices \cup {NoOne}] /\ faults' \in Nat
  <2>1. peer \in [Devices -> Devices \cup {NoOne}] /\ faults \in Nat
    BY DEF Inv, TypeOK
  <2>2. peer' \in [Devices -> Devices \cup {NoOne}]
    BY <1>3, <2>1
  <2> QED BY <1>4, <2>1, <2>2
<1>9. point \in Points \cup {"idle", "accept"} /\ point \notin Points
  BY DEF Points
<1> QED BY <1>1, <1>5, <1>6, <1>7, <1>8, <1>9, QuietInv

(* Steps of the identity service.                                           *)
LEMMA ServiceInv ==
    ASSUME Inv,
           (\E x \in Revocable : ReadCutoff(x)) \/ AppendRevocation \/ Enforce \/ ServiceStops
    PROVE  Inv'
<1>1. Roster[1] \in Devices
  BY RosterAssumption
<1>2. UNCHANGED <<commits, messages, chat, mailbox, mls, joined, pin, outbox, known, staged,
                  done, rejected, pc, peer>>
  BY DEF ReadCutoff, AppendRevocation, Enforce, ServiceStops, store
<1>3. /\ revoking' \in [device : Devices \cup {NoOne}, cutoff : Nat]
      /\ revLog' \in Seq(Revocation) /\ Len(revLog') >= Len(revLog)
      /\ fenced' \subseteq Devices
  <2>1. /\ revoking \in [device : Devices \cup {NoOne}, cutoff : Nat]
        /\ revLog \in Seq(Revocation) /\ fenced \subseteq Devices /\ Len(chat) \in Nat
        /\ Len(revLog) \in Nat
    BY DEF Inv, TypeOK
  <2>2. CASE \E x \in Revocable : ReadCutoff(x)
    BY <2>1, <2>2, DevicesAssumption DEF ReadCutoff
  <2>3. CASE AppendRevocation
    <3>1. revoking \in Revocation
      BY <2>1, <2>3 DEF AppendRevocation, Revocation
    <3>2. revLog' = Append(revLog, revoking) /\ fenced' = fenced
      BY <2>3 DEF AppendRevocation
    <3>3. revoking' \in [device : Devices \cup {NoOne}, cutoff : Nat]
      BY <2>3 DEF AppendRevocation
    <3> QED BY <2>1, <3>1, <3>2, <3>3, AppendProperties
  <2>4. CASE Enforce
    <3>1. Revoked \subseteq Devices
      <4>1. \A i \in DOMAIN revLog : revLog[i] \in Revocation
        BY <2>1
      <4> QED BY <4>1 DEF Revoked, Revocation
    <3> QED BY <2>1, <2>4, <3>1 DEF Enforce
  <2>5. CASE ServiceStops
    BY <2>1, <2>5 DEF ServiceStops
  <2> QED BY <2>2, <2>3, <2>4, <2>5
<1>4. faults' = faults \/ faults' = faults + 1
  BY DEF ReadCutoff, AppendRevocation, Enforce, ServiceStops
<1>5. known' \in [Devices -> 0..Len(revLog')]
  <2>1. \A q \in Devices : known[q] \in 0..Len(revLog')
    <3>1. Len(revLog) \in Nat /\ Len(revLog') \in Nat
      <4>1. revLog \in Seq(Revocation) /\ revLog' \in Seq(Revocation)
        BY <1>3 DEF Inv, TypeOK
      <4> QED BY <4>1
    <3>2. \A q \in Devices : known[q] \in 0..Len(revLog)
      BY DEF Inv, TypeOK
    <3> QED BY <1>3, <3>1, <3>2
  <2>2. known \in [Devices -> 0..Len(revLog)] /\ known' = known
    BY <1>2 DEF Inv, TypeOK
  <2> QED BY <2>1, <2>2
<1>6. faults' \in Nat /\ staged' \in [Devices -> 0..Len(chat)]
      /\ peer' \in [Devices -> Devices \cup {NoOne}]
      /\ \A q \in Devices : done[q] <= staged'[q]
  BY <1>2, <1>4 DEF Inv, TypeOK
<1>7. "idle" \notin Points
  BY DEF Points
<1> QED BY <1>1, <1>2, <1>3, <1>5, <1>6, <1>7, QuietInv

(* What the store of a device looks like when it processes a delivery.      *)
LEMMA VerdictMerge ==
    ASSUME Inv, NEW d \in Devices, mls[d] # 0, done[d] < staged[d], Verdict(d) = "merge"
    PROVE  LET c == chat[done[d] + 1].ref
               gone == KnownRevoked(known[d])
           IN  /\ c \in 1..Len(commits)
               /\ refresh_coordinator(commits[c].leaves, pin[d], gone) = commits[c].author
<1> DEFINE row == chat[done[d] + 1]
           c == row.ref
           gone == KnownRevoked(known[d])
           old == commits[mls[d]].leaves
           new == commits[c].leaves
           author == commits[c].author
<1>1. /\ row.kind = "handshake"
      /\ validate_commit_author(d, c, done[d] + 1)
  BY DEF Verdict
<1>2. done[d] + 1 \in DOMAIN chat
  <2>1. /\ chat \in Seq(Delivery) /\ done[d] \in Nat /\ staged[d] \in 0..Len(chat)
    BY DEF Inv, TypeOK
  <2> QED BY <2>1
<1>3. c \in 1..Len(commits)
  BY <1>1, <1>2 DEF Inv, ReferencesExist
<1>4. /\ commits \in Seq(Commit) /\ mls[d] \in 1..Len(commits)
  BY DEF Inv, TypeOK
<1>5. /\ commits[c] \in Commit /\ commits[mls[d]] \in Commit
  BY <1>3, <1>4
<1>6. /\ old \in Leaves /\ new \in Leaves /\ author \in Devices
  BY <1>5 DEF Commit
<1>7. /\ author \in Members(new)
      /\ pin[d] \in Members(old)
  BY <1>3, <1>4 DEF Inv, AuthorsAreMembers, PinIsAuthor, MembersOf
<1> HIDE DEF row, c, gone, old, new, author
<1>8. refresh_coordinator(new, pin[d], gone) = author
  <2>1. CASE author = pin[d]
    BY <1>7, <2>1 DEF refresh_coordinator
  <2>2. CASE author # pin[d]
    <3>1. author = coordinator(old, pin[d], gone) /\ new = Blank(old, gone)
      BY <1>1, <2>2 DEF validate_commit_author, author, old, new, gone
    <3> QED BY <1>6, <1>7, <3>1, SuccessorIsPinned
  <2> QED BY <2>1, <2>2
<1> QED BY <1>3, <1>8 DEF row, c, gone, new, author

(* process_history: a merged Commit's author becomes the pinned coordinator. *)
LEMMA ProcessNextInv == ASSUME Inv, NEW d \in Devices, ProcessNext(d) PROVE Inv'
<1> DEFINE c == chat[done[d] + 1].ref
           gone == KnownRevoked(known[d])
<1>1. UNCHANGED <<commits, messages, chat, mailbox, revLog, revoking, fenced, joined, known,
                  staged, peer, faults>>
  BY DEF ProcessNext, broker
<1>2. mls[d] # 0 /\ done[d] < staged[d] /\ done' = [done EXCEPT ![d] = @ + 1]
  BY DEF ProcessNext
<1>3. \E rows \in Seq(Row) :
         /\ outbox' = [outbox EXCEPT ![d] = rows]
         /\ DOMAIN rows = DOMAIN outbox[d]
         /\ \A i \in DOMAIN rows : /\ rows[i].kind = outbox[d][i].kind
                                   /\ rows[i].ref = outbox[d][i].ref
                                   /\ rows[i].to = outbox[d][i].to
  <2>1. outbox[d] \in Seq(Row) /\ outbox = [outbox EXCEPT ![d] = outbox[d]]
    BY DEF Inv, TypeOK
  <2>2. CASE Verdict(d) # "merge"
    BY <2>1, <2>2 DEF ProcessNext
  <2>3. CASE Verdict(d) = "merge"
    <3> DEFINE rows == block_revoked_outbox(d, outbox[d], gone)
    <3>1. outbox' = [outbox EXCEPT ![d] = rows]
      BY <2>3 DEF ProcessNext, MergeCommit
    <3> HIDE DEF rows
    <3>2. /\ rows \in Seq(Row)
          /\ DOMAIN rows = DOMAIN outbox[d]
          /\ \A i \in DOMAIN rows : /\ rows[i].kind = outbox[d][i].kind
                                    /\ rows[i].ref = outbox[d][i].ref
                                    /\ rows[i].to = outbox[d][i].to
      BY <2>1, BlockedRows DEF rows
    <3> QED BY <3>1, <3>2
  <2> QED BY <2>2, <2>3
<1>4. \/ mls' = mls /\ pin' = pin
      \/ /\ c \in 1..Len(commits)
         /\ mls' = [mls EXCEPT ![d] = c]
         /\ pin' = [pin EXCEPT ![d] = commits[c].author]
  <2>1. CASE Verdict(d) # "merge"
    BY <2>1 DEF ProcessNext
  <2>2. CASE Verdict(d) = "merge"
    <3>1. c \in 1..Len(commits)
          /\ refresh_coordinator(commits[c].leaves, pin[d], gone) = commits[c].author
      BY <1>2, <2>2, VerdictMerge
    <3>2. /\ mls' = [mls EXCEPT ![d] = c]
          /\ pin' = [pin EXCEPT ![d] = refresh_coordinator(commits[c].leaves, pin[d], gone)]
      BY <2>2 DEF ProcessNext, MergeCommit
    <3> QED BY <3>1, <3>2
  <2> QED BY <2>1, <2>2
<1> HIDE DEF c, gone
<1>5. PICK point \in Points \cup {"idle"} : pc' = [pc EXCEPT ![d] = point]
  BY DEF ProcessNext, NextPoint, Points
<1>6. TypeOK'
  <2>1. commits \in Seq(Commit) /\ mls \in [Devices -> 0..Len(commits)]
        /\ pin \in [Devices -> Devices \cup {NoOne}]
    BY DEF Inv, TypeOK
  <2>2. mls' \in [Devices -> 0..Len(commits)]
    BY <1>4, <2>1
  <2>3. pin' \in [Devices -> Devices \cup {NoOne}]
    <3>1. \A k \in 1..Len(commits) : commits[k].author \in Devices
      <4>1. \A k \in 1..Len(commits) : commits[k] \in Commit
        BY <2>1
      <4> QED BY <4>1 DEF Commit
    <3> QED BY <1>4, <2>1, <3>1
  <2>4. outbox' \in [Devices -> Seq(Row)]
    BY <1>3 DEF Inv, TypeOK
  <2>5. done' \in [Devices -> Nat] /\ \A q \in Devices : done'[q] <= staged[q]
    <3>1. done \in [Devices -> Nat] /\ \A q \in Devices : staged[q] \in Nat /\ done[q] <= staged[q]
      <4>1. done \in [Devices -> Nat]
        BY DEF Inv, TypeOK
      <4>3. staged \in [Devices -> 0..Len(chat)]
        BY DEF Inv, TypeOK
      <4>4. \A q \in Devices : done[q] <= staged[q]
        BY DEF Inv, TypeOK
      <4> QED BY <4>1, <4>3, <4>4
    <3> QED BY <1>2, <3>1
  <2>6. rejected' \in [Devices -> SUBSET Nat]
    <3>1. rejected \in [Devices -> SUBSET Nat] /\ done[d] \in Nat
      BY DEF Inv, TypeOK
    <3>2. rejected' = rejected \/ rejected' = [rejected EXCEPT ![d] = @ \cup {done[d] + 1}]
      BY DEF ProcessNext
    <3> QED BY <3>1, <3>2
  <2>7. pc' \in [Devices -> Points \cup {"idle", "accept"}]
    BY <1>5 DEF Inv, TypeOK
  <2> QED BY <1>1, <2>2, <2>3, <2>4, <2>5, <2>6, <2>7 DEF Inv, TypeOK
<1>7. ReferencesExist'
  <2>1. PICK rows \in Seq(Row) :
           /\ outbox' = [outbox EXCEPT ![d] = rows]
           /\ DOMAIN rows = DOMAIN outbox[d]
           /\ \A i \in DOMAIN rows : /\ rows[i].kind = outbox[d][i].kind
                                     /\ rows[i].ref = outbox[d][i].ref
                                     /\ rows[i].to = outbox[d][i].to
    BY <1>3
  <2>2. outbox \in [Devices -> Seq(Row)]
    BY DEF Inv, TypeOK
  <2>3. outbox'[d] = rows /\ \A q \in Devices \ {d} : outbox'[q] = outbox[q]
    BY <2>1, <2>2
  <2>4. \A q \in Devices : \A i \in DOMAIN outbox[q] :
           /\ outbox[q][i].kind # "message" => outbox[q][i].ref \in 1..Len(commits)
           /\ outbox[q][i].kind = "welcome" => outbox[q][i].to \in Devices
    BY DEF Inv, ReferencesExist
  <2>5. \A i \in DOMAIN rows :
           /\ rows[i].kind # "message" => rows[i].ref \in 1..Len(commits)
           /\ rows[i].kind = "welcome" => rows[i].to \in Devices
    BY <2>1, <2>4
  <2>6. \A q \in Devices : \A i \in DOMAIN outbox'[q] :
           /\ outbox'[q][i].kind # "message" => outbox'[q][i].ref \in 1..Len(commits)
           /\ outbox'[q][i].kind = "welcome" => outbox'[q][i].to \in Devices
    BY <2>3, <2>4, <2>5
  <2> QED BY <1>1, <2>6 DEF Inv, ReferencesExist
<1>8. ProgramPoints'
  <2>1. \A q \in Devices : mls[q] # 0 => mls'[q] # 0
    <3>1. commits \in Seq(Commit) /\ mls \in [Devices -> 0..Len(commits)]
      BY DEF Inv, TypeOK
    <3> QED BY <1>4, <3>1
  <2>2. "accept" \notin Points \cup {"idle"}
    BY DEF Points
  <2>3. pc \in [Devices -> Points \cup {"idle", "accept"}]
    BY DEF Inv, TypeOK
  <2> QED BY <1>1, <1>2, <1>5, <2>1, <2>2, <2>3 DEF Inv, ProgramPoints
<1>9. AuthorsAreMembers'
  BY <1>1 DEF Inv, AuthorsAreMembers, MembersOf
<1>10. PinIsAuthor'
  <2>1. mls \in [Devices -> 0..Len(commits)] /\ pin \in [Devices -> Devices \cup {NoOne}]
    BY DEF Inv, TypeOK
  <2> QED BY <1>1, <1>4, <2>1 DEF Inv, PinIsAuthor
<1> QED BY <1>6, <1>7, <1>8, <1>9, <1>10 DEF Inv

(* Publishing moves a row into CHAT or a mailbox, once or twice.             *)
LEMMA PublishInv == ASSUME Inv, NEW d \in Devices, Publish(d) PROVE Inv'
<1> DEFINE rows == outbox[d]
           i == NextRow(rows)
<1>1. UNCHANGED <<commits, messages, revLog, revoking, fenced, mls, joined, pin, known, staged,
                  done, rejected, peer>>
  BY DEF Publish
<1>2. rows \in Seq(Row) /\ outbox \in [Devices -> Seq(Row)]
  BY DEF Inv, TypeOK
<1>3. i \in DOMAIN rows /\ rows[i] \in Row
  <2>1. Pending(rows) # {} /\ Pending(rows) \in SUBSET Nat
    BY <1>2 DEF Publish, Pending
  <2>2. i \in Pending(rows)
    BY <2>1, LeastElement DEF NextRow
  <2> QED BY <1>2, <2>2 DEF Pending
<1>4. /\ pc[d] \in {"flush1", "flush2", "flush3"}
      /\ Store(d, rows[i]) \/ UNCHANGED <<chat, mailbox>>
      /\ \E state \in {"sent", "stored"} : outbox' = [outbox EXCEPT ![d][i].state = state]
      /\ faults' = faults \/ faults' = faults + 1
  BY DEF Publish
<1>5. PICK point \in Points \cup {"idle"} : pc' = [pc EXCEPT ![d] = point]
  <2>1. \A r : AfterFlush(pc[d], r) \in Points \cup {"idle"}
    BY <1>4 DEF AfterFlush, Points
  <2> QED BY <2>1 DEF Publish
<1>6. PICK state \in {"sent", "stored"} : outbox' = [outbox EXCEPT ![d][i].state = state]
  BY <1>4
<1> HIDE DEF i
<1>7. /\ outbox' \in [Devices -> Seq(Row)]
      /\ \A q \in Devices : DOMAIN outbox'[q] = DOMAIN outbox[q]
      /\ \A q \in Devices : \A k \in DOMAIN outbox[q] :
            /\ outbox'[q][k].kind = outbox[q][k].kind
            /\ outbox'[q][k].ref = outbox[q][k].ref
            /\ outbox'[q][k].to = outbox[q][k].to
  <2> DEFINE row == [rows[i] EXCEPT !.state = state]
             new == [rows EXCEPT ![i] = row]
  <2>1. row \in Row /\ row.kind = rows[i].kind /\ row.ref = rows[i].ref /\ row.to = rows[i].to
    BY <1>3 DEF Row
  <2>2. outbox' = [outbox EXCEPT ![d] = new]
    BY <1>6
  <2> HIDE DEF row
  <2>3. new \in Seq(Row) /\ DOMAIN new = DOMAIN rows
    BY <1>2, <1>3, <2>1, ExceptSeq
  <2>4. \A k \in DOMAIN rows : new[k] = IF k = i THEN row ELSE rows[k]
    BY <1>2, <1>3
  <2> HIDE DEF new
  <2> QED BY <1>2, <2>1, <2>2, <2>3, <2>4
<1>8. /\ chat' \in Seq(Delivery) /\ Len(chat') >= Len(chat)
      /\ mailbox' \in [Devices -> Seq(Nat)]
      /\ \A k \in DOMAIN chat' : chat'[k].kind = "handshake" => chat'[k].ref \in 1..Len(commits)
      /\ \A q \in Devices : \A k \in DOMAIN mailbox'[q] : mailbox'[q][k] \in 1..Len(commits)
      /\ \A q \in Devices : mailbox[q] # << >> => mailbox'[q] # << >>
  <2>1. /\ chat \in Seq(Delivery) /\ mailbox \in [Devices -> Seq(Nat)]
    BY DEF Inv, TypeOK
  <2>2. /\ \A k \in DOMAIN chat : chat[k].kind = "handshake" => chat[k].ref \in 1..Len(commits)
        /\ \A q \in Devices : \A k \in DOMAIN mailbox[q] : mailbox[q][k] \in 1..Len(commits)
        /\ rows[i].kind # "message" => rows[i].ref \in 1..Len(commits)
        /\ rows[i].kind = "welcome" => rows[i].to \in Devices
    BY <1>3 DEF Inv, ReferencesExist
  <2>3. CASE UNCHANGED <<chat, mailbox>>
    BY <2>1, <2>2, <2>3
  <2>4. CASE Store(d, rows[i]) /\ rows[i].kind = "welcome"
    <3> DEFINE to == rows[i].to
               ref == rows[i].ref
    <3>1. /\ mailbox' = [mailbox EXCEPT ![to] = Append(mailbox[to], ref)]
          /\ chat' = chat
      BY <2>4 DEF Store
    <3>2. to \in Devices /\ ref \in 1..Len(commits) /\ ref \in Nat
      BY <2>2, <2>4, <1>3 DEF Row
    <3> HIDE DEF to, ref
    <3>3. /\ Append(mailbox[to], ref) \in Seq(Nat)
          /\ Append(mailbox[to], ref) # << >>
          /\ \A k \in DOMAIN Append(mailbox[to], ref) :
                Append(mailbox[to], ref)[k] \in 1..Len(commits)
      <4>1. mailbox[to] \in Seq(Nat) /\ \A k \in DOMAIN mailbox[to] : mailbox[to][k] \in 1..Len(commits)
        BY <2>1, <2>2, <3>2
      <4> QED BY <3>2, <4>1, AppendProperties
    <3> DEFINE box == Append(mailbox[to], ref)
    <3>4. \A q \in Devices : mailbox'[q] = IF q = to THEN box ELSE mailbox[q]
      BY <2>1, <3>1, <3>2
    <3>5. /\ box \in Seq(Nat) /\ box # << >> /\ \A k \in DOMAIN box : box[k] \in 1..Len(commits)
      BY <3>3
    <3>6. mailbox' = [mailbox EXCEPT ![to] = box]
      BY <3>1
    <3> HIDE DEF box
    <3> QED BY <2>1, <2>2, <3>1, <3>2, <3>4, <3>5, <3>6
  <2>5. CASE Store(d, rows[i]) /\ rows[i].kind # "welcome"
    <3> DEFINE new == [kind |-> rows[i].kind, ref |-> rows[i].ref, author |-> d]
    <3>1. chat' = Append(chat, new) /\ mailbox' = mailbox
      BY <2>5 DEF Store
    <3>2. new \in Delivery /\ (new.kind = "handshake" => new.ref \in 1..Len(commits))
      BY <1>3, <2>2, <2>5 DEF Row, Delivery
    <3> HIDE DEF new
    <3>3. /\ chat' \in Seq(Delivery) /\ Len(chat') = Len(chat) + 1 /\ Len(chat) \in Nat
          /\ \A k \in 1..Len(chat) : chat'[k] = chat[k]
          /\ chat'[Len(chat) + 1] = new
      BY <2>1, <3>1, <3>2, AppendProperties
    <3>4. ASSUME NEW k \in DOMAIN chat', chat'[k].kind = "handshake"
          PROVE  chat'[k].ref \in 1..Len(commits)
      <4>1. DOMAIN chat' = 1..(Len(chat) + 1) /\ DOMAIN chat = 1..Len(chat)
        BY <2>1, <3>3
      <4>2. CASE k \in 1..Len(chat)
        BY <2>2, <3>3, <3>4, <4>1, <4>2
      <4>3. CASE k = Len(chat) + 1
        BY <3>2, <3>3, <3>4, <4>3
      <4> QED BY <3>3, <4>1, <4>2, <4>3
    <3>5. Len(chat') >= Len(chat)
      BY <3>3
    <3> QED BY <2>1, <2>2, <3>1, <3>3, <3>4, <3>5
  <2> QED BY <1>4, <2>3, <2>4, <2>5
<1>9. TypeOK'
  <2>1. staged' \in [Devices -> 0..Len(chat')]
    <3>1. staged \in [Devices -> 0..Len(chat)] /\ chat \in Seq(Delivery)
      BY DEF Inv, TypeOK
    <3>2. Len(chat) \in Nat /\ Len(chat') \in Nat
      BY <1>8, <3>1
    <3>3. \A q \in Devices : staged[q] \in 0..Len(chat')
      BY <1>8, <3>1, <3>2
    <3> QED BY <1>1, <3>1, <3>3
  <2>2. pc' \in [Devices -> Points \cup {"idle", "accept"}]
    BY <1>5 DEF Inv, TypeOK
  <2>3. faults' \in Nat
    <3>1. faults \in Nat
      BY DEF Inv, TypeOK
    <3> QED BY <1>4, <3>1
  <2> QED BY <1>1, <1>7, <1>8, <2>1, <2>2, <2>3 DEF Inv, TypeOK
<1>10. ReferencesExist'
  <2>1. ASSUME NEW q \in Devices, NEW k \in DOMAIN outbox'[q]
        PROVE  /\ outbox'[q][k].kind # "message" => outbox'[q][k].ref \in 1..Len(commits)
               /\ outbox'[q][k].kind = "welcome" => outbox'[q][k].to \in Devices
    <3>1. k \in DOMAIN outbox[q]
      BY <1>7
    <3>2. /\ outbox[q][k].kind # "message" => outbox[q][k].ref \in 1..Len(commits)
          /\ outbox[q][k].kind = "welcome" => outbox[q][k].to \in Devices
      BY <3>1 DEF Inv, ReferencesExist
    <3> QED BY <1>7, <3>1, <3>2
  <2> QED BY <1>1, <1>8, <2>1 DEF ReferencesExist
<1>11. ProgramPoints'
  <2>1. "accept" \notin Points \cup {"idle"} /\ pc[d] \in Points
    BY <1>4 DEF Points
  <2>2. pc \in [Devices -> Points \cup {"idle", "accept"}]
    BY DEF Inv, TypeOK
  <2> QED BY <1>1, <1>5, <1>8, <2>1, <2>2 DEF Inv, ProgramPoints
<1>12. AuthorsAreMembers' /\ PinIsAuthor'
  BY <1>1 DEF Inv, AuthorsAreMembers, PinIsAuthor, MembersOf
<1> QED BY <1>9, <1>10, <1>11, <1>12 DEF Inv

(* Rows queued behind a local Commit refer to epochs that exist.            *)
LEMMA QueuedRows ==
    ASSUME Inv, NEW d \in Devices, NEW rows \in Seq(Row), NEW new \in Row,
           outbox' = [outbox EXCEPT ![d] = Append(rows, new)],
           Len(commits') \in Nat, Len(commits') >= Len(commits),
           \A k \in DOMAIN rows :
              /\ rows[k].kind # "message" => rows[k].ref \in 1..Len(commits')
              /\ rows[k].kind = "welcome" => rows[k].to \in Devices,
           new.kind # "message" => new.ref \in 1..Len(commits'),
           new.kind = "welcome" => new.to \in Devices,
           chat' = chat, mailbox' = mailbox
    PROVE  outbox' \in [Devices -> Seq(Row)] /\ ReferencesExist'
<1> DEFINE all == Append(rows, new)
<1>1. /\ all \in Seq(Row) /\ DOMAIN all = 1..(Len(rows) + 1) /\ Len(rows) \in Nat
      /\ DOMAIN rows = 1..Len(rows)
      /\ \A k \in 1..Len(rows) : all[k] = rows[k]
      /\ all[Len(rows) + 1] = new
  BY AppendProperties
<1>2. outbox \in [Devices -> Seq(Row)] /\ commits \in Seq(Commit)
  BY DEF Inv, TypeOK
<1>3. Len(commits) \in Nat
  BY <1>2
<1>4. outbox' = [outbox EXCEPT ![d] = all]
  OBVIOUS
<1> HIDE DEF all
<1>5. ASSUME NEW k \in DOMAIN all
      PROVE  /\ all[k].kind # "message" => all[k].ref \in 1..Len(commits')
             /\ all[k].kind = "welcome" => all[k].to \in Devices
  <2>1. CASE k \in 1..Len(rows)
    BY <1>1, <2>1
  <2>2. CASE k = Len(rows) + 1
    BY <1>1, <2>2
  <2> QED BY <1>1, <2>1, <2>2
<1>6. ASSUME NEW q \in Devices, NEW k \in DOMAIN outbox'[q]
      PROVE  /\ outbox'[q][k].kind # "message" => outbox'[q][k].ref \in 1..Len(commits')
             /\ outbox'[q][k].kind = "welcome" => outbox'[q][k].to \in Devices
  <2>1. CASE q = d
    BY <1>2, <1>4, <1>5, <2>1
  <2>2. CASE q # d
    <3>1. outbox'[q] = outbox[q]
      BY <1>2, <1>4, <2>2
    <3>2. /\ outbox[q][k].kind # "message" => outbox[q][k].ref \in 1..Len(commits)
          /\ outbox[q][k].kind = "welcome" => outbox[q][k].to \in Devices
      BY <3>1 DEF Inv, ReferencesExist
    <3> QED BY <1>3, <3>1, <3>2
  <2> QED BY <2>1, <2>2
<1>7. /\ \A k \in DOMAIN chat : chat[k].kind = "handshake" => chat[k].ref \in 1..Len(commits')
      /\ \A q \in Devices : \A k \in DOMAIN mailbox[q] : mailbox[q][k] \in 1..Len(commits')
  BY <1>3 DEF Inv, ReferencesExist
<1>8. outbox' \in [Devices -> Seq(Row)]
  BY <1>1, <1>2, <1>4
<1> QED BY <1>6, <1>7, <1>8 DEF ReferencesExist

(* The invariant is kept by a step that commits locally and queues rows.    *)
LEMMA CommitStepInv ==
    ASSUME Inv, NEW d \in Devices, mls[d] # 0, NEW point \in Points, NEW gone, NEW rows,
           NEW leaves \in Leaves, d \in Members(leaves),
           refresh_coordinator(leaves, pin[d], gone) = d,
           LocalCommit(d, leaves, gone, rows),
           outbox' \in [Devices -> Seq(Row)], ReferencesExist',
           pc' = [pc EXCEPT ![d] = point],
           known' \in [Devices -> 0..Len(revLog)],
           UNCHANGED <<messages, chat, mailbox, revLog, revoking, fenced, joined, staged, done,
                       rejected, peer, faults>>
    PROVE  Inv'
<1>1. /\ commits' \in Seq(Commit)
      /\ Len(commits') = Len(commits) + 1
      /\ mls' \in [Devices -> 0..Len(commits')]
      /\ pin' \in [Devices -> Devices \cup {NoOne}]
      /\ AuthorsAreMembers'
      /\ PinIsAuthor'
      /\ \A q \in Devices : mls[q] # 0 => mls'[q] # 0
  BY LocalCommitFacts
<1>2. TypeOK'
  <2>1. joined' \in [Devices -> 0..Len(commits')]
    <3>1. joined \in [Devices -> 0..Len(commits)] /\ commits \in Seq(Commit)
      BY DEF Inv, TypeOK
    <3>2. Len(commits) \in Nat
      BY <3>1
    <3>3. \A q \in Devices : joined[q] \in 0..Len(commits')
      BY <1>1, <3>1, <3>2
    <3> QED BY <3>1, <3>3
  <2>2. pc' \in [Devices -> Points \cup {"idle", "accept"}]
    BY DEF Inv, TypeOK
  <2> QED BY <1>1, <2>1, <2>2 DEF Inv, TypeOK
<1>3. ProgramPoints'
  <2>1. "accept" \notin Points
    BY DEF Points
  <2>2. pc \in [Devices -> Points \cup {"idle", "accept"}]
    BY DEF Inv, TypeOK
  <2> QED BY <1>1, <2>1, <2>2 DEF Inv, ProgramPoints
<1> QED BY <1>1, <1>2, <1>3 DEF Inv

(* The facts about one device's epoch that the local Commits use.           *)
LEMMA HeldEpoch ==
    ASSUME Inv, NEW d \in Devices, mls[d] # 0
    PROVE  /\ commits[mls[d]].leaves \in Leaves
           /\ pin[d] \in Members(commits[mls[d]].leaves)
           /\ Len(commits) \in Nat
           /\ outbox[d] \in Seq(Row)
           /\ \A k \in DOMAIN outbox[d] :
                 /\ outbox[d][k].kind # "message" => outbox[d][k].ref \in 1..Len(commits)
                 /\ outbox[d][k].kind = "welcome" => outbox[d][k].to \in Devices
<1>1. commits \in Seq(Commit) /\ mls[d] \in 1..Len(commits) /\ outbox[d] \in Seq(Row)
  BY DEF Inv, TypeOK
<1>2. commits[mls[d]] \in Commit /\ Len(commits) \in Nat
  BY <1>1
<1>3. commits[mls[d]].leaves \in Leaves
  BY <1>2 DEF Commit
<1>4. pin[d] \in Members(commits[mls[d]].leaves)
  BY <1>1 DEF Inv, AuthorsAreMembers, PinIsAuthor, MembersOf
<1>5. \A k \in DOMAIN outbox[d] :
         /\ outbox[d][k].kind # "message" => outbox[d][k].ref \in 1..Len(commits)
         /\ outbox[d][k].kind = "welcome" => outbox[d][k].to \in Devices
  BY DEF Inv, ReferencesExist
<1> QED BY <1>1, <1>2, <1>3, <1>4, <1>5

(* reconcile_revocations: the elected successor's removal pins itself.      *)
LEMMA ReconcileInv == ASSUME Inv, NEW d \in Devices, reconcile_revocations(d) PROVE Inv'
<1> DEFINE gone == KnownRevoked(known[d])
           old == commits[mls[d]].leaves
           new == Blank(old, gone)
           rows == block_revoked_outbox(d, outbox[d], gone)
           row == HandshakeRow(Len(commits) + 1)
<1>1. /\ pc' = [pc EXCEPT ![d] = "audit2"]
      /\ UNCHANGED <<messages, chat, mailbox, revLog, revoking, fenced, joined, known, staged,
                     done, rejected, peer, faults>>
  BY DEF reconcile_revocations, broker
<1>2. mls[d] # 0 /\ "audit2" \in Points
  BY DEF reconcile_revocations, Inv, ProgramPoints, Points
<1>3. /\ known \in [Devices -> 0..Len(revLog)] /\ revLog \in Seq(Revocation)
      /\ fenced \subseteq Devices /\ revoking \in [device : Devices \cup {NoOne}, cutoff : Nat]
      /\ staged \in [Devices -> 0..Len(chat)] /\ \A q \in Devices : done[q] <= staged[q]
      /\ peer \in [Devices -> Devices \cup {NoOne}] /\ faults \in Nat
  BY DEF Inv, TypeOK
<1>4. CASE ~MustRemove(d)
  <2>1. UNCHANGED <<commits, mls, pin, outbox>>
    BY <1>4 DEF reconcile_revocations
  <2> QED BY <1>1, <1>2, <1>3, <2>1, QuietInv
<1>5. CASE MustRemove(d)
  <2>1. LocalCommit(d, new, gone, Append(rows, row))
    BY <1>5 DEF reconcile_revocations
  <2>2. /\ old \in Leaves /\ pin[d] \in Members(old) /\ Len(commits) \in Nat
        /\ outbox[d] \in Seq(Row)
        /\ \A k \in DOMAIN outbox[d] :
              /\ outbox[d][k].kind # "message" => outbox[d][k].ref \in 1..Len(commits)
              /\ outbox[d][k].kind = "welcome" => outbox[d][k].to \in Devices
    BY <1>2, HeldEpoch
  <2>3. d \in Members(old) /\ d \notin gone /\ d = coordinator(old, pin[d], gone)
    BY <1>5 DEF MustRemove, Active, MembersOf
  <2>4. /\ rows \in Seq(Row) /\ DOMAIN rows = DOMAIN outbox[d]
        /\ \A k \in DOMAIN outbox[d] : /\ rows[k].kind = outbox[d][k].kind
                                       /\ rows[k].ref = outbox[d][k].ref
                                       /\ rows[k].to = outbox[d][k].to
    BY <2>2, BlockedRows
  <2>5. /\ row \in Row /\ row.kind = "handshake" /\ row.ref = Len(commits) + 1
    BY <2>2 DEF HandshakeRow, Row
  <2>6. commits' = Append(commits, [parent |-> mls[d], author |-> d, leaves |-> new,
                                    epoch |-> commits[mls[d]].epoch + 1])
        /\ outbox' = [outbox EXCEPT ![d] = Append(rows, row)]
    BY <2>1 DEF LocalCommit
  <2> HIDE DEF gone, old, new, rows, row
  <2>7. new \in Leaves /\ d \in Members(new)
    BY <2>2, <2>3, BlankMembers DEF new
  <2>8. refresh_coordinator(new, pin[d], gone) = d
    BY <2>2, <2>3, <2>7, SuccessorIsPinned DEF new
  <2>9. Len(commits') = Len(commits) + 1
    BY <1>2, <2>1, <2>7, <2>8, LocalCommitFacts
  <2>10. \A k \in DOMAIN rows :
           /\ rows[k].kind # "message" => rows[k].ref \in 1..Len(commits')
           /\ rows[k].kind = "welcome" => rows[k].to \in Devices
    BY <2>2, <2>4, <2>9
  <2>11. Len(commits') \in Nat /\ Len(commits') >= Len(commits) /\ row.ref \in 1..Len(commits')
    BY <2>2, <2>5, <2>9
  <2>12. outbox' \in [Devices -> Seq(Row)] /\ ReferencesExist'
    BY <1>1, <2>4, <2>5, <2>6, <2>10, <2>11, QueuedRows
  <2> QED BY <1>1, <1>2, <1>3, <2>1, <2>7, <2>8, <2>12, CommitStepInv
<1> QED BY <1>4, <1>5

(* prepare_invitation: only the pinned coordinator adds, and stays pinned.  *)
LEMMA InviteInv == ASSUME Inv, NEW d \in Devices, NEW x \in Devices, Invite(d, x) PROVE Inv'
<1> DEFINE old == commits[mls[d]].leaves
           new == AddLeaf(old, x)
           first == HandshakeRow(Len(commits) + 1)
           second == WelcomeRow(Len(commits) + 1, x)
           rows == Append(outbox[d], first)
<1>1. UNCHANGED <<messages, chat, mailbox, revLog, revoking, fenced, joined, staged,
                  done, rejected, peer, faults>>
  BY DEF Invite, broker
<1>2. mls[d] # 0 /\ "audit3" \in Points /\ "idle" \notin Points
  BY DEF Invite, Inv, ProgramPoints, Points
<1>3. /\ known \in [Devices -> 0..Len(revLog)] /\ revLog \in Seq(Revocation)
      /\ fenced \subseteq Devices /\ revoking \in [device : Devices \cup {NoOne}, cutoff : Nat]
      /\ staged \in [Devices -> 0..Len(chat)] /\ \A q \in Devices : done[q] <= staged[q]
      /\ peer \in [Devices -> Devices \cup {NoOne}] /\ faults \in Nat
  BY DEF Inv, TypeOK
<1>4. known' \in [Devices -> 0..Len(revLog)]
  <2>1. Len(revLog) \in Nat
    BY <1>3
  <2> QED BY <1>3, <2>1 DEF Invite
<1>5. CASE ~MayInvite(d, x, Revoked)
  <2>1. UNCHANGED <<commits, mls, pin, outbox>> /\ pc' = [pc EXCEPT ![d] = "idle"]
    BY <1>5 DEF Invite
  <2> QED BY <1>1, <1>2, <1>3, <1>4, <2>1, QuietInv
<1>6. CASE MayInvite(d, x, Revoked)
  <2>1. /\ LocalCommit(d, new, Revoked, Append(rows, second))
        /\ pc' = [pc EXCEPT ![d] = "audit3"]
    BY <1>6 DEF Invite
  <2>2. /\ old \in Leaves /\ pin[d] \in Members(old) /\ Len(commits) \in Nat
        /\ outbox[d] \in Seq(Row)
        /\ \A k \in DOMAIN outbox[d] :
              /\ outbox[d][k].kind # "message" => outbox[d][k].ref \in 1..Len(commits)
              /\ outbox[d][k].kind = "welcome" => outbox[d][k].to \in Devices
    BY <1>2, HeldEpoch
  <2>3. /\ d \in Members(old) /\ Members(old) \cap Revoked = {}
        /\ coordinator(old, pin[d], Revoked) = d
    BY <1>6 DEF MayInvite, ensure_can_send, Active, MembersOf
  <2>4. pin[d] = d
    BY <2>2, <2>3 DEF coordinator
  <2>5. /\ first \in Row /\ first.kind = "handshake" /\ first.ref = Len(commits) + 1
        /\ second \in Row /\ second.kind = "welcome" /\ second.ref = Len(commits) + 1
        /\ second.to = x
    BY <2>2 DEF HandshakeRow, WelcomeRow, Row
  <2>6. outbox' = [outbox EXCEPT ![d] = Append(rows, second)]
    BY <2>1 DEF LocalCommit
  <2> HIDE DEF old, new, first, second
  <2>7. new \in Leaves /\ Members(old) \subseteq Members(new)
    BY <2>2, AddLeafMembers DEF new
  <2>8. refresh_coordinator(new, pin[d], Revoked) = d
    BY <2>3, <2>4, <2>7 DEF refresh_coordinator
  <2>9. Len(commits') = Len(commits) + 1
    BY <1>2, <2>1, <2>3, <2>7, <2>8, LocalCommitFacts
  <2>10. /\ rows \in Seq(Row)
         /\ \A k \in DOMAIN rows :
              /\ rows[k].kind # "message" => rows[k].ref \in 1..Len(commits')
              /\ rows[k].kind = "welcome" => rows[k].to \in Devices
    <3>1. /\ rows \in Seq(Row) /\ DOMAIN rows = 1..(Len(outbox[d]) + 1)
          /\ DOMAIN outbox[d] = 1..Len(outbox[d]) /\ Len(outbox[d]) \in Nat
          /\ \A k \in 1..Len(outbox[d]) : rows[k] = outbox[d][k]
          /\ rows[Len(outbox[d]) + 1] = first
      BY <2>2, <2>5, AppendProperties
    <3> HIDE DEF rows
    <3>2. ASSUME NEW k \in DOMAIN rows
          PROVE  /\ rows[k].kind # "message" => rows[k].ref \in 1..Len(commits')
                 /\ rows[k].kind = "welcome" => rows[k].to \in Devices
      <4>1. CASE k \in 1..Len(outbox[d])
        BY <2>2, <2>9, <3>1, <4>1
      <4>2. CASE k = Len(outbox[d]) + 1
        BY <2>2, <2>5, <2>9, <3>1, <4>2
      <4> QED BY <3>1, <4>1, <4>2
    <3> QED BY <3>1, <3>2
  <2> HIDE DEF rows
  <2>11. Len(commits') \in Nat /\ Len(commits') >= Len(commits) /\ second.ref \in 1..Len(commits')
    BY <2>2, <2>5, <2>9
  <2>12. outbox' \in [Devices -> Seq(Row)] /\ ReferencesExist'
    BY <1>1, <2>5, <2>6, <2>10, <2>11, QueuedRows
  <2> QED BY <1>1, <1>2, <1>4, <2>1, <2>3, <2>7, <2>8, <2>12, CommitStepInv
<1> QED BY <1>5, <1>6

(* encrypt_message queues one more row and creates no epoch.                *)
LEMMA EncryptInv == ASSUME Inv, NEW d \in Devices, Encrypt(d) PROVE Inv'
<1> DEFINE row == MessageRow(Len(messages) + 1)
<1>1. UNCHANGED <<commits, chat, mailbox, revLog, revoking, fenced, mls, joined, pin, known,
                  staged, done, rejected, peer, faults>>
  BY DEF Encrypt, broker
<1>2. /\ mls[d] # 0
      /\ messages' = Append(messages, [author |-> d, state |-> mls[d]])
      /\ outbox' = [outbox EXCEPT ![d] = Append(outbox[d], row)]
      /\ pc' = [pc EXCEPT ![d] = "audit3"] \/ pc' = [pc EXCEPT ![d] = pc[d]]
  BY DEF Encrypt, ensure_can_send, Active
<1>3. /\ messages \in Seq(Ciphertext) /\ mls[d] \in 0..Len(commits)
      /\ commits \in Seq(Commit) /\ outbox[d] \in Seq(Row)
      /\ pc \in [Devices -> Points \cup {"idle", "accept"}]
  BY DEF Inv, TypeOK
<1>4. Len(messages) \in Nat /\ Len(commits) \in Nat
  BY <1>3
<1>5. messages' \in Seq(Ciphertext)
  <2>1. [author |-> d, state |-> mls[d]] \in Ciphertext
    BY <1>3, <1>4 DEF Ciphertext
  <2> QED BY <1>2, <1>3, <2>1
<1>6. row \in Row /\ row.kind = "message"
  BY <1>4 DEF MessageRow, Row
<1> HIDE DEF row
<1>7. \A k \in DOMAIN outbox[d] :
         /\ outbox[d][k].kind # "message" => outbox[d][k].ref \in 1..Len(commits)
         /\ outbox[d][k].kind = "welcome" => outbox[d][k].to \in Devices
  BY <1>2, HeldEpoch
<1>8. outbox' \in [Devices -> Seq(Row)] /\ ReferencesExist'
  <2>1. Len(commits') = Len(commits) /\ Len(commits') \in Nat /\ Len(commits') >= Len(commits)
    BY <1>1, <1>4
  <2>2. \A k \in DOMAIN outbox[d] :
           /\ outbox[d][k].kind # "message" => outbox[d][k].ref \in 1..Len(commits')
           /\ outbox[d][k].kind = "welcome" => outbox[d][k].to \in Devices
    BY <1>7, <2>1
  <2> QED BY <1>1, <1>2, <1>3, <1>6, <2>1, <2>2, QueuedRows
<1>9. pc' \in [Devices -> Points \cup {"idle", "accept"}]
      /\ \A q \in Devices : pc'[q] = pc[q] \/ (q = d /\ pc'[q] = "audit3")
  BY <1>2, <1>3 DEF Points
<1>10. TypeOK'
  BY <1>1, <1>5, <1>8, <1>9 DEF Inv, TypeOK
<1>11. ProgramPoints'
  BY <1>1, <1>2, <1>9 DEF Inv, ProgramPoints
<1>12. AuthorsAreMembers' /\ PinIsAuthor'
  BY <1>1 DEF Inv, AuthorsAreMembers, PinIsAuthor, MembersOf
<1> QED BY <1>8, <1>10, <1>11, <1>12 DEF Inv

(* accept_welcome pins the signer of the Welcome, the author of that epoch. *)
LEMMA AcceptWelcomeInv == ASSUME Inv, NEW d \in Devices, accept_welcome(d) PROVE Inv'
<1> DEFINE c == Head(mailbox[d])
<1>1. /\ UNCHANGED <<commits, messages, chat, revLog, revoking, fenced, known, outbox, staged,
                     done, rejected>>
      /\ pc[d] = "accept"
      /\ pc' = [pc EXCEPT ![d] = "idle"]
      /\ peer' = [peer EXCEPT ![d] = NoOne]
      /\ \/ UNCHANGED <<mls, joined, pin>>
         \/ /\ mls' = [mls EXCEPT ![d] = c]
            /\ joined' = [joined EXCEPT ![d] = c]
            /\ pin' = [pin EXCEPT ![d] = commits[c].author]
      /\ \/ UNCHANGED mailbox
         \/ mailbox' = [mailbox EXCEPT ![d] = Tail(mailbox[d])]
      /\ faults' = faults \/ faults' = faults + 1
  BY DEF accept_welcome
<1>2. /\ mailbox \in [Devices -> Seq(Nat)] /\ commits \in Seq(Commit) /\ faults \in Nat
      /\ mls \in [Devices -> 0..Len(commits)] /\ joined \in [Devices -> 0..Len(commits)]
      /\ pin \in [Devices -> Devices \cup {NoOne}]
      /\ peer \in [Devices -> Devices \cup {NoOne}]
      /\ pc \in [Devices -> Points \cup {"idle", "accept"}]
  BY DEF Inv, TypeOK
<1>3. mailbox[d] # << >>
  BY <1>1 DEF Inv, ProgramPoints
<1>4. /\ Len(mailbox[d]) \in Nat /\ Len(mailbox[d]) >= 1 /\ c = mailbox[d][1]
      /\ DOMAIN mailbox[d] = 1..Len(mailbox[d])
      /\ Tail(mailbox[d]) \in Seq(Nat)
      /\ DOMAIN Tail(mailbox[d]) = 1..(Len(mailbox[d]) - 1)
      /\ \A k \in 1..(Len(mailbox[d]) - 1) : Tail(mailbox[d])[k] = mailbox[d][k + 1]
  <2>1. mailbox[d] \in Seq(Nat)
    BY <1>2
  <2> QED BY <1>3, <2>1, HeadTailProperties
<1>5. \A q \in Devices : \A k \in DOMAIN mailbox[q] : mailbox[q][k] \in 1..Len(commits)
  BY DEF Inv, ReferencesExist
<1>6. c \in 1..Len(commits) /\ Len(commits) \in Nat
  BY <1>2, <1>4, <1>5
<1> HIDE DEF c
<1>7. commits[c].author \in Devices
  <2>1. commits[c] \in Commit
    BY <1>2, <1>6
  <2> QED BY <2>1 DEF Commit
<1>8. /\ mls' \in [Devices -> 0..Len(commits)] /\ joined' \in [Devices -> 0..Len(commits)]
      /\ pin' \in [Devices -> Devices \cup {NoOne}]
      /\ peer' \in [Devices -> Devices \cup {NoOne}]
      /\ pc' \in [Devices -> Points \cup {"idle", "accept"}]
      /\ mailbox' \in [Devices -> Seq(Nat)]
  <2>1. mls' \in [Devices -> 0..Len(commits)] /\ joined' \in [Devices -> 0..Len(commits)]
    <3>1. c \in 0..Len(commits)
      BY <1>6
    <3> QED BY <1>1, <1>2, <3>1
  <2>2. /\ pin' \in [Devices -> Devices \cup {NoOne}]
        /\ peer' \in [Devices -> Devices \cup {NoOne}]
    BY <1>1, <1>2, <1>7
  <2>3. pc' \in [Devices -> Points \cup {"idle", "accept"}]
    BY <1>1, <1>2
  <2>4. mailbox' \in [Devices -> Seq(Nat)]
    BY <1>1, <1>2, <1>4
  <2> QED BY <2>1, <2>2, <2>3, <2>4
<1>9. TypeOK'
  <2>1. faults' \in Nat
    BY <1>1, <1>2
  <2> QED BY <1>1, <1>8, <2>1 DEF Inv, TypeOK
<1>10. ReferencesExist'
  <2>1. ASSUME NEW q \in Devices, NEW k \in DOMAIN mailbox'[q]
        PROVE  mailbox'[q][k] \in 1..Len(commits)
    <3>1. CASE mailbox'[q] = mailbox[q]
      BY <1>5, <3>1
    <3>2. CASE q = d /\ mailbox'[q] = Tail(mailbox[d])
      <4>1. k \in 1..(Len(mailbox[d]) - 1) /\ k + 1 \in DOMAIN mailbox[d]
        BY <1>4, <3>2
      <4> QED BY <1>4, <1>5, <3>2, <4>1
    <3> QED BY <1>1, <1>2, <3>1, <3>2
  <2> QED BY <1>1, <2>1 DEF Inv, ReferencesExist
<1>11. ProgramPoints'
  <2>1. ASSUME NEW q \in Devices
        PROVE  /\ pc'[q] = "accept" => mailbox'[q] # << >>
               /\ pc'[q] \in Points => mls'[q] # 0
    <3>1. CASE q = d
      BY <1>1, <1>2, <3>1 DEF Points
    <3>2. CASE q # d
      <4>1. pc'[q] = pc[q] /\ mailbox'[q] = mailbox[q] /\ mls'[q] = mls[q]
        BY <1>1, <1>2, <3>2
      <4> QED BY <4>1 DEF Inv, ProgramPoints
    <3> QED BY <3>1, <3>2
  <2> QED BY <2>1 DEF ProgramPoints
<1>12. AuthorsAreMembers'
  BY <1>1 DEF Inv, AuthorsAreMembers, MembersOf
<1>13. PinIsAuthor'
  <2>1. ASSUME NEW q \in Devices, mls'[q] # 0
        PROVE  pin'[q] = commits[mls'[q]].author
    <3>1. CASE mls'[q] = mls[q] /\ pin'[q] = pin[q]
      BY <2>1, <3>1 DEF Inv, PinIsAuthor
    <3>2. CASE q = d /\ mls'[q] = c /\ pin'[q] = commits[c].author
      BY <3>2
    <3> QED BY <1>1, <1>2, <3>1, <3>2
  <2> QED BY <1>1, <2>1 DEF PinIsAuthor
<1> QED BY <1>9, <1>10, <1>11, <1>12, <1>13 DEF Inv

(* Every step of the channel keeps the invariant.                           *)
LEMMA NextInv == Inv /\ [Next]_vars => Inv'
<1> SUFFICES ASSUME Inv, [Next]_vars PROVE Inv'
  OBVIOUS
<1>1. CASE UNCHANGED vars
  <2>1. UNCHANGED <<commits, messages, chat, mailbox, revLog, revoking, fenced, mls, joined, pin,
                    known, outbox, staged, done, rejected, pc, peer, faults>>
    BY <1>1 DEF vars, broker, store
  <2> QED BY <2>1 DEF Inv, TypeOK, AuthorsAreMembers, ReferencesExist, ProgramPoints,
                      PinIsAuthor, MembersOf
<1>2. ASSUME NEW d \in Devices, Sync(d) \/ Encrypt(d) \/ Abort(d) PROVE Inv'
  BY <1>2, AuditInv, PublishInv, StageBacklogInv, ProcessNextInv, ReconcileInv,
     AcceptWelcomeInv, EncryptInv, PointInv DEF Sync
<1>3. ASSUME NEW d \in Devices, NEW x \in Devices, Invite(d, x) \/ JoinLookup(d, x) PROVE Inv'
  BY <1>3, InviteInv, PointInv
<1>4. CASE (\E x \in Revocable : ReadCutoff(x)) \/ Service \/ ServiceStops
  BY <1>4, ServiceInv DEF Service
<1> QED BY <1>1, <1>2, <1>3, <1>4 DEF Next

(* The state of a channel is well typed whatever the devices, the service   *)
(* and the network do.                                                      *)
THEOREM TypeCorrect == Spec => []TypeOK
<1>1. Inv => TypeOK
  BY DEF Inv
<1> QED BY <1>1, InitInv, NextInv, PTL DEF Spec

(* Two devices in the same epoch agree on its coordinator, a member of it,  *)
(* for every group, every revocation and every interleaving: the stored     *)
(* coordinator of refresh_coordinator, accept_welcome and the local Commits *)
(* is always the author of the epoch the device holds.                      *)
THEOREM CoordinatorsAgree == Spec => []CoordinatorAgreement
<1>1. Inv => CoordinatorAgreement
  <2> SUFFICES ASSUME Inv, NEW d \in Devices, NEW q \in Devices, mls[d] # 0, mls[d] = mls[q]
               PROVE  pin[d] = pin[q] /\ pin[d] \in MembersOf(mls[d])
    BY DEF CoordinatorAgreement
  <2>1. mls[d] \in 1..Len(commits)
    BY DEF Inv, TypeOK
  <2> QED BY <2>1 DEF Inv, PinIsAuthor, AuthorsAreMembers
<1> QED BY <1>1, InitInv, NextInv, PTL DEF Spec

-----------------------------------------------------------------------------
(* The history barrier.                                                     *)

\* Every cutoff lies in CHAT, and a process past its fetch has staged CHAT up to
\* the cutoffs it knows.
Barrier ==
    /\ revoking.cutoff <= Len(chat)
    /\ \A i \in 1..Len(revLog) : revLog[i].cutoff <= Len(chat)
    /\ \A d \in Devices : pc[d] = "process" =>
         \A i \in 1..known[d] : revLog[i].cutoff <= staged[d]
    /\ HistoryBeforeElection

(* Steps that leave the journal alone and do not end past the fetch.        *)
LEMMA OutsideBarrier ==
    ASSUME Inv, Barrier, NEW d \in Devices, NEW point,
           point \notin {"process", "reconcile"},
           pc' = [pc EXCEPT ![d] = point],
           revLog' = revLog, revoking' = revoking,
           chat' \in Seq(Delivery), chat' = chat \/ Len(chat') >= Len(chat),
           \A q \in Devices \ {d} : known'[q] = known[q] /\ staged'[q] = staged[q]
                                     /\ done'[q] = done[q]
    PROVE  Barrier'
<1>1. /\ chat \in Seq(Delivery) /\ revLog \in Seq(Revocation)
      /\ revoking \in [device : Devices \cup {NoOne}, cutoff : Nat]
      /\ pc \in [Devices -> Points \cup {"idle", "accept"}]
  BY DEF Inv, TypeOK
<1>2. Len(chat) \in Nat /\ Len(chat') \in Nat /\ revoking.cutoff \in Nat
  BY <1>1
<1>3. \A i \in 1..Len(revLog) : revLog[i].cutoff \in Nat
  <2>1. \A i \in 1..Len(revLog) : revLog[i] \in Revocation
    BY <1>1
  <2> QED BY <2>1 DEF Revocation
<1>4. /\ revoking'.cutoff <= Len(chat')
      /\ \A i \in 1..Len(revLog') : revLog'[i].cutoff <= Len(chat')
  BY <1>2, <1>3 DEF Barrier
<1>5. \A q \in Devices : pc'[q] \in {"process", "reconcile"} =>
         q # d /\ pc'[q] = pc[q] /\ known'[q] = known[q] /\ staged'[q] = staged[q]
         /\ done'[q] = done[q]
  BY <1>1
<1> QED BY <1>4, <1>5 DEF Barrier, HistoryBeforeElection

(* A complete fetch stages CHAT up to every cutoff.                         *)
LEMMA StageBacklogBarrier ==
    ASSUME Inv, Barrier, NEW d \in Devices, StageBacklog(d) PROVE Barrier'
<1>1. /\ UNCHANGED <<chat, revLog, revoking, known, done>>
      /\ \E n \in staged[d]..Len(chat) : staged' = [staged EXCEPT ![d] = n]
  BY DEF StageBacklog, Backlog, broker
<1>2. /\ chat \in Seq(Delivery) /\ staged \in [Devices -> 0..Len(chat)]
      /\ pc \in [Devices -> Points \cup {"idle", "accept"}]
      /\ known \in [Devices -> 0..Len(revLog)] /\ revLog \in Seq(Revocation)
  BY DEF Inv, TypeOK
<1>3. Len(chat) \in Nat /\ Len(revLog) \in Nat
  BY <1>2
<1>4. CASE pc' = [pc EXCEPT ![d] = "idle"]
  <2>1. \A q \in Devices \ {d} : staged'[q] = staged[q]
    BY <1>1, <1>2
  <2> QED BY <1>1, <1>2, <1>3, <1>4, <2>1, OutsideBarrier
<1>5. CASE /\ staged' = [staged EXCEPT ![d] = Len(chat)]
           /\ pc' = [pc EXCEPT ![d] = IF done[d] = Len(chat) THEN "reconcile" ELSE "process"]
  <2>1. \A i \in 1..known[d] : revLog[i].cutoff <= Len(chat)
    BY <1>2, <1>3 DEF Barrier
  <2>2. ASSUME NEW q \in Devices, pc'[q] = "process", NEW i \in 1..known[q]
        PROVE  revLog[i].cutoff <= staged'[q]
    <3>1. CASE q = d
      BY <1>2, <1>5, <2>1, <3>1
    <3>2. CASE q # d
      BY <1>2, <1>5, <2>2, <3>2 DEF Barrier
    <3> QED BY <3>1, <3>2
  <2>3. ASSUME NEW q \in Devices, pc'[q] = "reconcile", NEW i \in 1..known[q]
        PROVE  revLog[i].cutoff <= done[q]
    <3>1. CASE q = d
      <4>1. done[d] = Len(chat)
        BY <1>2, <1>5, <2>3, <3>1
      <4> QED BY <2>1, <3>1, <4>1
    <3>2. CASE q # d
      BY <1>2, <1>5, <2>3, <3>2 DEF Barrier, HistoryBeforeElection
    <3> QED BY <3>1, <3>2
  <2> QED BY <1>1, <2>2, <2>3 DEF Barrier, HistoryBeforeElection
<1> QED BY <1>4, <1>5 DEF StageBacklog, Backlog

(* Processing reaches reconcile_revocations only when all staged is done.   *)
LEMMA ProcessNextBarrier ==
    ASSUME Inv, Barrier, NEW d \in Devices, ProcessNext(d) PROVE Barrier'
<1>1. /\ UNCHANGED <<chat, revLog, revoking, known, staged>>
      /\ done' = [done EXCEPT ![d] = done[d] + 1]
      /\ pc' = [pc EXCEPT ![d] = NextPoint(d)]
      /\ pc[d] \in {"process", "idle"}
  BY DEF ProcessNext, broker
<1>2. /\ done \in [Devices -> Nat] /\ staged \in [Devices -> 0..Len(chat)]
      /\ pc \in [Devices -> Points \cup {"idle", "accept"}]
  BY DEF Inv, TypeOK
<1>3. \A q \in Devices \ {d} : pc'[q] = pc[q] /\ done'[q] = done[q]
  BY <1>1, <1>2
<1>4. \/ pc'[d] = pc[d]
      \/ pc[d] = "process" /\ pc'[d] = "reconcile" /\ done'[d] = staged[d]
  BY <1>1, <1>2 DEF NextPoint
<1>5. ASSUME NEW q \in Devices, pc'[q] = "process" PROVE pc[q] = "process"
  BY <1>3, <1>4, <1>5
<1>6. ASSUME NEW q \in Devices, pc'[q] = "reconcile", NEW i \in 1..known[q]
      PROVE  revLog[i].cutoff <= done'[q]
  <2>1. CASE q = d
    BY <1>1, <1>4, <1>6, <2>1 DEF Barrier
  <2>2. CASE q # d
    BY <1>3, <1>6, <2>2 DEF Barrier, HistoryBeforeElection
  <2> QED BY <2>1, <2>2
<1> QED BY <1>1, <1>5, <1>6 DEF Barrier, HistoryBeforeElection

(* The service reads a cutoff that CHAT has already reached.                *)
LEMMA ServiceBarrier ==
    ASSUME Inv, Barrier,
           (\E x \in Revocable : ReadCutoff(x)) \/ AppendRevocation \/ Enforce \/ ServiceStops
    PROVE  Barrier'
<1>1. UNCHANGED <<chat, pc, known, staged, done>>
  BY DEF ReadCutoff, AppendRevocation, Enforce, ServiceStops, store
<1>2. /\ chat \in Seq(Delivery) /\ revLog \in Seq(Revocation)
      /\ revoking \in [device : Devices \cup {NoOne}, cutoff : Nat]
      /\ known \in [Devices -> 0..Len(revLog)]
  BY DEF Inv, TypeOK
<1>3. Len(chat) \in Nat /\ Len(revLog) \in Nat
  BY <1>2
<1>4. revoking'.cutoff <= Len(chat)
  <2>1. revoking' = revoking \/ revoking'.cutoff = Len(chat) \/ revoking'.cutoff = 0
    BY DEF ReadCutoff, AppendRevocation, Enforce, ServiceStops
  <2> QED BY <1>3, <2>1 DEF Barrier
<1>5. /\ \A i \in 1..Len(revLog) : revLog'[i] = revLog[i]
      /\ \A i \in 1..Len(revLog') : revLog'[i].cutoff <= Len(chat)
  <2>1. CASE AppendRevocation
    <3>1. revLog' = Append(revLog, revoking) /\ revoking \in Revocation
      BY <1>2, <2>1 DEF AppendRevocation, Revocation
    <3>2. /\ Len(revLog') = Len(revLog) + 1
          /\ \A i \in 1..Len(revLog) : revLog'[i] = revLog[i]
          /\ revLog'[Len(revLog) + 1] = revoking
      BY <1>2, <3>1, AppendProperties
    <3>3. ASSUME NEW i \in 1..Len(revLog') PROVE revLog'[i].cutoff <= Len(chat)
      <4>1. CASE i \in 1..Len(revLog)
        BY <3>2, <4>1 DEF Barrier
      <4>2. CASE i = Len(revLog) + 1
        BY <3>2, <4>2 DEF Barrier
      <4> QED BY <1>3, <3>2, <4>1, <4>2
    <3> QED BY <3>2, <3>3
  <2>2. CASE revLog' = revLog
    BY <2>2 DEF Barrier
  <2> QED BY <2>1, <2>2 DEF ReadCutoff, Enforce, ServiceStops
<1>6. \A q \in Devices : \A i \in 1..known[q] : revLog'[i] = revLog[i]
  <2>1. \A q \in Devices : \A i \in 1..known[q] : i \in 1..Len(revLog)
    BY <1>2, <1>3
  <2> QED BY <1>5, <2>1
<1> QED BY <1>1, <1>4, <1>5, <1>6 DEF Barrier, HistoryBeforeElection

(* Publishing only ever extends CHAT.                                       *)
LEMMA PublishExtends ==
    ASSUME Inv, NEW d \in Devices, Publish(d)
    PROVE  Len(chat') >= Len(chat) /\ \E point : point \notin {"process", "reconcile"}
                                              /\ pc' = [pc EXCEPT ![d] = point]
<1>1. chat \in Seq(Delivery)
  BY DEF Inv, TypeOK
<1>2. Len(chat) \in Nat
  BY <1>1
<1>3. chat' = chat \/ \E row : chat' = Append(chat, row)
  BY DEF Publish, Store
<1>4. Len(chat') >= Len(chat)
  BY <1>1, <1>2, <1>3
<1>5. \A rows : AfterFlush(pc[d], rows) \notin {"process", "reconcile"}
  BY DEF Publish, AfterFlush
<1> QED BY <1>4, <1>5 DEF Publish

(* Every step of the channel keeps the barrier.                             *)
LEMMA NextBarrier == Inv /\ Inv' /\ Barrier /\ [Next]_vars => Barrier'
<1> SUFFICES ASSUME Inv, Inv', Barrier, [Next]_vars PROVE Barrier'
  OBVIOUS
<1>1. chat \in Seq(Delivery) /\ chat' \in Seq(Delivery)
      /\ known \in [Devices -> 0..Len(revLog)]
      /\ pc \in [Devices -> Points \cup {"idle", "accept"}]
  BY DEF Inv, TypeOK
<1>2. CASE UNCHANGED vars
  <2>1. UNCHANGED <<chat, revLog, revoking, pc, known, staged, done>>
    BY <1>2 DEF vars, broker, store
  <2> QED BY <2>1 DEF Barrier, HistoryBeforeElection
<1>3. ASSUME NEW d \in Devices, Sync(d) \/ Encrypt(d) \/ Abort(d) PROVE Barrier'
  <2>1. CASE Audit(d)
    <3>1. /\ UNCHANGED <<chat, revLog, revoking, staged, done>>
          /\ \A q \in Devices \ {d} : known'[q] = known[q]
      BY <1>1, <2>1 DEF Audit, broker
    <3>2. \A rows : AfterFlush(FlushPoint(pc[d]), rows) \notin {"process", "reconcile"}
      BY <2>1 DEF Audit, AfterFlush, FlushPoint
    <3>3. \E point : point \notin {"process", "reconcile"} /\ pc' = [pc EXCEPT ![d] = point]
      BY <2>1, <3>2 DEF Audit
    <3> QED BY <1>1, <3>1, <3>3, OutsideBarrier
  <2>2. CASE Publish(d)
    <3>1. UNCHANGED <<revLog, revoking, known, staged, done>>
      BY <2>2 DEF Publish
    <3> QED BY <1>1, <2>2, <3>1, PublishExtends, OutsideBarrier
  <2>3. CASE StageBacklog(d)
    BY <2>3, StageBacklogBarrier
  <2>4. CASE ProcessNext(d)
    BY <2>4, ProcessNextBarrier
  <2>5. CASE ProcessFails(d) \/ Finish(d) \/ accept_welcome(d) \/ Abort(d)
             \/ reconcile_revocations(d)
    <3>1. UNCHANGED <<chat, revLog, revoking, known, staged, done>>
      BY <2>5 DEF ProcessFails, Finish, accept_welcome, Abort, reconcile_revocations, broker, store
    <3>2. \E point \in {"idle", "audit2"} : pc' = [pc EXCEPT ![d] = point]
      BY <2>5 DEF ProcessFails, Finish, accept_welcome, Abort, reconcile_revocations
    <3> QED BY <1>1, <3>1, <3>2, OutsideBarrier
  <2>6. CASE Encrypt(d)
    <3>1. UNCHANGED <<chat, revLog, revoking, known, staged, done>>
      BY <2>6 DEF Encrypt, broker
    <3>2. \E point \in {"idle", "audit3"} : pc' = [pc EXCEPT ![d] = point]
      BY <2>6 DEF Encrypt
    <3> QED BY <1>1, <3>1, <3>2, OutsideBarrier
  <2> QED BY <1>3, <2>1, <2>2, <2>3, <2>4, <2>5, <2>6 DEF Sync
<1>4. ASSUME NEW d \in Devices, NEW x \in Devices, Invite(d, x) \/ JoinLookup(d, x)
      PROVE  Barrier'
  <2>1. /\ UNCHANGED <<chat, revLog, revoking, staged, done>>
        /\ \A q \in Devices \ {d} : known'[q] = known[q]
    BY <1>1, <1>4 DEF Invite, JoinLookup, broker
  <2>2. \E point \in {"idle", "audit3", "accept"} : pc' = [pc EXCEPT ![d] = point]
    BY <1>4 DEF Invite, JoinLookup
  <2> QED BY <1>1, <2>1, <2>2, OutsideBarrier
<1>5. CASE (\E x \in Revocable : ReadCutoff(x)) \/ Service \/ ServiceStops
  BY <1>5, ServiceBarrier DEF Service
<1> QED BY <1>2, <1>3, <1>4, <1>5 DEF Next

(* At first there is nothing to catch up with.                              *)
LEMMA InitBarrier == Init => Barrier
<1> SUFFICES ASSUME Init PROVE Barrier
  OBVIOUS
<1>1. revoking.cutoff = 0 /\ Len(chat) = 0 /\ Len(revLog) = 0
      /\ \A d \in Devices : pc[d] = "idle"
  BY DEF Init
<1> QED BY <1>1 DEF Barrier, HistoryBeforeElection

(* No device elects a coordinator or removes leaves before it has processed *)
(* CHAT up to every cutoff it knows, however the service's cutoff reads, the *)
(* publications and the crashes interleave: the order of resume is enough.   *)
THEOREM BarrierHolds == Spec => []HistoryBeforeElection
<1>1. Barrier => HistoryBeforeElection
  BY DEF Barrier
<1> QED BY <1>1, InitInv, InitBarrier, NextInv, NextBarrier, PTL DEF Spec

-----------------------------------------------------------------------------
(* Welcomes follow their Commits.                                           *)

\* The Commit c is in the stream `log'.
InLog(log, c) == \E j \in DOMAIN log : log[j].kind = "handshake" /\ log[j].ref = c

\* A Commit's row is never blocked and is in the stream once it was published; a
\* Welcome's row stands behind the row of its Commit.
Ordered(rows, log) ==
    \A i \in DOMAIN rows :
        /\ rows[i].kind = "handshake" =>
             /\ rows[i].state # "blocked"
             /\ rows[i].state # "unsent" => InLog(log, rows[i].ref)
        /\ rows[i].kind = "welcome" =>
             \E j \in 1..(i - 1) : rows[j].kind = "handshake" /\ rows[j].ref = rows[i].ref

WelcomeOrder == WelcomeAfterCommit /\ \A d \in Devices : Ordered(outbox[d], chat)

(* Blocking touches only application ciphertexts, and only to hold them back. *)
LEMMA BlockedStates ==
    ASSUME NEW d \in Devices, NEW rows \in Seq(Row), NEW gone
    PROVE  LET new == block_revoked_outbox(d, rows, gone)
           IN  /\ \A i \in DOMAIN rows : rows[i].kind # "message" => new[i] = rows[i]
               /\ Pending(new) \subseteq Pending(rows)
               /\ \A i \in Pending(new) : new[i] = rows[i]
               /\ ~(Active(d) /\ MembersOf(mls[d]) \cap gone = {}) =>
                     \A i \in Pending(new) : new[i].kind # "message"
<1> DEFINE new == block_revoked_outbox(d, rows, gone)
           held == [i \in DOMAIN rows |->
                      IF rows[i].kind = "message" /\ i \in Pending(rows)
                      THEN [rows[i] EXCEPT !.state = "blocked"] ELSE rows[i]]
<1>1. \A i \in DOMAIN rows : rows[i] \in Row
  OBVIOUS
<1>2. \A i \in DOMAIN rows :
         /\ rows[i].kind # "message" => held[i] = rows[i]
         /\ rows[i].kind = "message" /\ i \in Pending(rows) => held[i].state = "blocked"
         /\ i \notin Pending(rows) => held[i] = rows[i]
         /\ held[i].kind = rows[i].kind
  BY <1>1 DEF Row
<1>3. DOMAIN held = DOMAIN rows
  OBVIOUS
<1> HIDE DEF held
<1>4. ASSUME NEW i \in Pending(held)
      PROVE  i \in Pending(rows) /\ held[i] = rows[i] /\ held[i].kind # "message"
  <2>1. i \in DOMAIN rows /\ held[i].state \in {"unsent", "stored"}
    BY <1>3 DEF Pending
  <2>2. i \in Pending(rows)
    BY <1>2, <2>1 DEF Pending
  <2> QED BY <1>2, <2>1, <2>2
<1>5. new = rows \/ new = held
  BY DEF block_revoked_outbox, held
<1>6. ~(Active(d) /\ MembersOf(mls[d]) \cap gone = {}) => new = held
  BY DEF block_revoked_outbox, held
<1> HIDE DEF new
<1>7. /\ \A i \in DOMAIN rows : rows[i].kind # "message" => new[i] = rows[i]
      /\ Pending(new) \subseteq Pending(rows)
      /\ \A i \in Pending(new) : new[i] = rows[i]
  BY <1>2, <1>4, <1>5
<1>8. ~(Active(d) /\ MembersOf(mls[d]) \cap gone = {}) =>
         \A i \in Pending(new) : new[i].kind # "message"
  BY <1>4, <1>6
<1> QED BY <1>7, <1>8 DEF new

(* Blocking keeps the order of the rows.                                    *)
LEMMA BlockedOrder ==
    ASSUME NEW d \in Devices, NEW rows \in Seq(Row), NEW gone, NEW log, Ordered(rows, log)
    PROVE  Ordered(block_revoked_outbox(d, rows, gone), log)
<1> DEFINE new == block_revoked_outbox(d, rows, gone)
<1>1. /\ DOMAIN new = DOMAIN rows
      /\ \A i \in DOMAIN rows : new[i].kind = rows[i].kind /\ new[i].ref = rows[i].ref
  BY BlockedRows
<1>2. \A i \in DOMAIN rows : rows[i].kind # "message" => new[i] = rows[i]
  BY BlockedStates
<1>3. DOMAIN rows = 1..Len(rows) /\ Len(rows) \in Nat
  OBVIOUS
<1> HIDE DEF new
<1>4. ASSUME NEW i \in DOMAIN new, new[i].kind = "handshake"
      PROVE  /\ new[i].state # "blocked"
             /\ new[i].state # "unsent" => InLog(log, new[i].ref)
  BY <1>1, <1>2, <1>4 DEF Ordered
<1>5. ASSUME NEW i \in DOMAIN new, new[i].kind = "welcome"
      PROVE  \E j \in 1..(i - 1) : new[j].kind = "handshake" /\ new[j].ref = new[i].ref
  <2>1. PICK j \in 1..(i - 1) : rows[j].kind = "handshake" /\ rows[j].ref = rows[i].ref
    BY <1>1, <1>5 DEF Ordered
  <2>2. j \in DOMAIN rows
    BY <1>1, <1>3, <2>1
  <2> QED BY <1>1, <2>1, <2>2
<1>6. Ordered(new, log)
  BY <1>4, <1>5 DEF Ordered
<1> QED BY <1>6 DEF new

(* What the code queues keeps the order of the rows.                        *)
LEMMA AppendOrder ==
    ASSUME NEW rows \in Seq(Row), NEW row \in Row, NEW log, Ordered(rows, log),
           row.state = "unsent",
           row.kind = "welcome" => \E j \in DOMAIN rows : /\ rows[j].kind = "handshake"
                                                          /\ rows[j].ref = row.ref
    PROVE  Ordered(Append(rows, row), log)
<1> DEFINE new == Append(rows, row)
<1>1. /\ DOMAIN new = 1..(Len(rows) + 1) /\ DOMAIN rows = 1..Len(rows) /\ Len(rows) \in Nat
      /\ \A i \in 1..Len(rows) : new[i] = rows[i]
      /\ new[Len(rows) + 1] = row
  BY AppendProperties
<1> HIDE DEF new
<1>2. ASSUME NEW i \in DOMAIN new, new[i].kind = "handshake"
      PROVE  /\ new[i].state # "blocked"
             /\ new[i].state # "unsent" => InLog(log, new[i].ref)
  <2>1. CASE i \in 1..Len(rows)
    BY <1>1, <1>2, <2>1 DEF Ordered
  <2>2. CASE i = Len(rows) + 1
    BY <1>1, <2>2
  <2> QED BY <1>1, <2>1, <2>2
<1>3. ASSUME NEW i \in DOMAIN new, new[i].kind = "welcome"
      PROVE  \E j \in 1..(i - 1) : new[j].kind = "handshake" /\ new[j].ref = new[i].ref
  <2>1. CASE i \in 1..Len(rows)
    <3>1. PICK j \in 1..(i - 1) : rows[j].kind = "handshake" /\ rows[j].ref = rows[i].ref
      BY <1>1, <1>3, <2>1 DEF Ordered
    <3>2. j \in 1..Len(rows)
      BY <1>1, <2>1, <3>1
    <3> QED BY <1>1, <2>1, <3>1, <3>2
  <2>2. CASE i = Len(rows) + 1
    <3>1. PICK j \in DOMAIN rows : rows[j].kind = "handshake" /\ rows[j].ref = row.ref
      BY <1>1, <1>3, <2>2
    <3>2. j \in 1..(i - 1)
      BY <1>1, <2>2
    <3> QED BY <1>1, <2>2, <3>1, <3>2
  <2> QED BY <1>1, <2>1, <2>2
<1>4. Ordered(new, log)
  BY <1>2, <1>3 DEF Ordered
<1> QED BY <1>4 DEF new

(* A stream that grows keeps what is ordered ordered.                       *)
LEMMA GrowingOrder ==
    ASSUME NEW rows, NEW log, NEW longer, Ordered(rows, log),
           \A j \in DOMAIN log : j \in DOMAIN longer /\ longer[j] = log[j]
    PROVE  Ordered(rows, longer)
<1>1. \A c : InLog(log, c) => InLog(longer, c)
  BY DEF InLog
<1> QED BY <1>1 DEF Ordered

(* flush_outbox publishes the first pending row and marks nothing else.      *)
LEMMA PublishedRow ==
    ASSUME Inv, NEW d \in Devices, Publish(d)
    PROVE  \E i \in DOMAIN outbox[d], state \in {"sent", "stored"} :
              /\ i \in Pending(outbox[d]) /\ \A m \in Pending(outbox[d]) : i <= m
              /\ \A q \in Devices \ {d} : outbox'[q] = outbox[q]
              /\ DOMAIN outbox'[d] = DOMAIN outbox[d]
              /\ \A k \in DOMAIN outbox[d] \ {i} : outbox'[d][k] = outbox[d][k]
              /\ outbox'[d][i] = [outbox[d][i] EXCEPT !.state = state]
              /\ \/ Store(d, outbox[d][i])
                 \/ outbox[d][i].state = "stored" /\ UNCHANGED <<chat, mailbox>>
<1> DEFINE rows == outbox[d]
           i == NextRow(rows)
<1>1. rows \in Seq(Row) /\ outbox \in [Devices -> Seq(Row)]
  BY DEF Inv, TypeOK
<1>2. i \in Pending(rows) /\ \A m \in Pending(rows) : i <= m
  <2>1. Pending(rows) # {} /\ Pending(rows) \in SUBSET Nat
    BY <1>1 DEF Publish, Pending
  <2> QED BY <2>1, LeastElement DEF NextRow
<1>3. i \in DOMAIN rows
  BY <1>2 DEF Pending
<1>4. \/ Store(d, rows[i])
      \/ rows[i].state = "stored" /\ UNCHANGED <<chat, mailbox>>
  BY DEF Publish
<1>5. PICK state \in {"sent", "stored"} : outbox' = [outbox EXCEPT ![d][i].state = state]
  BY DEF Publish
<1> HIDE DEF i
<1>6. /\ \A q \in Devices \ {d} : outbox'[q] = outbox[q]
      /\ DOMAIN outbox'[d] = DOMAIN rows
      /\ \A k \in DOMAIN rows \ {i} : outbox'[d][k] = rows[k]
      /\ outbox'[d][i] = [rows[i] EXCEPT !.state = state]
  BY <1>1, <1>3, <1>5
<1> QED BY <1>2, <1>3, <1>4, <1>6

(* A Commit's row behind another one waits for it, a Welcome's row for both. *)
LEMMA PublishOrder == ASSUME Inv, WelcomeOrder, NEW d \in Devices, Publish(d) PROVE WelcomeOrder'
<1> DEFINE rows == outbox[d]
<1>1. /\ rows \in Seq(Row) /\ chat \in Seq(Delivery) /\ mailbox \in [Devices -> Seq(Nat)]
  BY DEF Inv, TypeOK
<1>2. PICK i \in DOMAIN rows, state \in {"sent", "stored"} :
         /\ i \in Pending(rows) /\ \A m \in Pending(rows) : i <= m
         /\ \A q \in Devices \ {d} : outbox'[q] = outbox[q]
         /\ DOMAIN outbox'[d] = DOMAIN rows
         /\ \A k \in DOMAIN rows \ {i} : outbox'[d][k] = rows[k]
         /\ outbox'[d][i] = [rows[i] EXCEPT !.state = state]
         /\ \/ Store(d, rows[i])
            \/ rows[i].state = "stored" /\ UNCHANGED <<chat, mailbox>>
  BY PublishedRow
<1>3. /\ rows[i] \in Row /\ DOMAIN rows = 1..Len(rows) /\ Len(rows) \in Nat /\ i \in Nat
      /\ Len(chat) \in Nat /\ DOMAIN chat = 1..Len(chat)
  BY <1>1
<1>4. /\ outbox'[d][i].kind = rows[i].kind /\ outbox'[d][i].ref = rows[i].ref
      /\ outbox'[d][i].state \in {"sent", "stored"}
  BY <1>2, <1>3 DEF Row
<1>5. /\ \A j \in DOMAIN chat : j \in DOMAIN chat' /\ chat'[j] = chat[j]
      /\ rows[i].kind = "handshake" => InLog(chat', rows[i].ref)
  <2>1. CASE UNCHANGED <<chat, mailbox>> /\ rows[i].state = "stored"
    BY <2>1 DEF WelcomeOrder, Ordered
  <2>2. CASE Store(d, rows[i]) /\ rows[i].kind = "welcome"
    BY <2>2 DEF Store
  <2>3. CASE Store(d, rows[i]) /\ rows[i].kind # "welcome"
    <3> DEFINE new == [kind |-> rows[i].kind, ref |-> rows[i].ref, author |-> d]
    <3>1. chat' = Append(chat, new)
      BY <2>3 DEF Store
    <3>2. /\ DOMAIN chat' = 1..(Len(chat) + 1)
          /\ \A j \in 1..Len(chat) : chat'[j] = chat[j]
          /\ chat'[Len(chat) + 1] = new
      <4>1. new \in Delivery
        BY <1>3, <2>3 DEF Row, Delivery
      <4> HIDE DEF new
      <4> QED BY <1>1, <3>1, <4>1, AppendProperties
    <3>3. new.kind = rows[i].kind /\ new.ref = rows[i].ref
      OBVIOUS
    <3> HIDE DEF new
    <3>4. Len(chat) + 1 \in DOMAIN chat'
      BY <1>3, <3>2
    <3>5. rows[i].kind = "handshake" => InLog(chat', rows[i].ref)
      BY <3>2, <3>3, <3>4 DEF InLog
    <3> QED BY <1>3, <3>2, <3>5
  <2> QED BY <1>2, <2>1, <2>2, <2>3
<1>6. ASSUME NEW q \in Devices \ {d} PROVE Ordered(outbox'[q], chat')
  <2>1. outbox'[q] = outbox[q] /\ Ordered(outbox[q], chat)
    BY <1>2 DEF WelcomeOrder
  <2> QED BY <1>5, <2>1, GrowingOrder
<1>7. Ordered(outbox'[d], chat')
  <2>1. Ordered(rows, chat')
    <3>1. Ordered(rows, chat)
      BY DEF WelcomeOrder
    <3> QED BY <1>5, <3>1, GrowingOrder
  <2>2. \A k \in DOMAIN rows : outbox'[d][k].kind = rows[k].kind /\ outbox'[d][k].ref = rows[k].ref
    BY <1>2, <1>4
  <2>3. ASSUME NEW k \in DOMAIN rows, rows[k].kind = "handshake"
        PROVE  /\ outbox'[d][k].state # "blocked"
               /\ outbox'[d][k].state # "unsent" => InLog(chat', outbox'[d][k].ref)
    <3>1. CASE k = i
      BY <1>4, <1>5, <2>3, <3>1
    <3>2. CASE k # i
      BY <1>2, <2>1, <2>3, <3>2 DEF Ordered
    <3> QED BY <3>1, <3>2
  <2>4. ASSUME NEW k \in DOMAIN rows, rows[k].kind = "welcome"
        PROVE  \E j \in 1..(k - 1) : /\ outbox'[d][j].kind = "handshake"
                                     /\ outbox'[d][j].ref = outbox'[d][k].ref
    <3>1. PICK j \in 1..(k - 1) : rows[j].kind = "handshake" /\ rows[j].ref = rows[k].ref
      BY <2>1, <2>4 DEF Ordered
    <3>2. j \in DOMAIN rows
      BY <1>3, <2>4, <3>1
    <3> QED BY <2>2, <3>1, <3>2
  <2> QED BY <1>2, <2>2, <2>3, <2>4 DEF Ordered
<1>8. WelcomeAfterCommit'
  <2>1. \A q \in Devices : \A k \in DOMAIN mailbox[q] : InLog(chat', mailbox[q][k])
    BY <1>5 DEF WelcomeOrder, WelcomeAfterCommit, InLog
  <2>2. ASSUME NEW q \in Devices, NEW k \in DOMAIN mailbox'[q]
        PROVE  InLog(chat', mailbox'[q][k])
    <3>1. CASE mailbox' = mailbox
      BY <2>1, <3>1
    <3>2. CASE Store(d, rows[i]) /\ rows[i].kind = "welcome"
      <4> DEFINE to == rows[i].to
                 ref == rows[i].ref
      <4>1. mailbox' = [mailbox EXCEPT ![to] = Append(mailbox[to], ref)]
        BY <3>2 DEF Store
      <4>2. to \in Devices /\ ref \in Nat
        BY <1>3, <3>2 DEF Inv, ReferencesExist, Row
      <4>3. InLog(chat', ref)
        <5>1. PICK j \in 1..(i - 1) : rows[j].kind = "handshake" /\ rows[j].ref = rows[i].ref
          BY <3>2 DEF WelcomeOrder, Ordered
        <5>2. j \in DOMAIN rows /\ ~(i <= j)
          BY <1>3, <5>1
        <5>3. j \notin Pending(rows)
          BY <1>2, <5>2
        <5>4. rows[j].state \notin {"unsent", "stored"}
          BY <5>2, <5>3 DEF Pending
        <5>5. InLog(chat, rows[j].ref)
          BY <5>1, <5>2, <5>4 DEF WelcomeOrder, Ordered
        <5> QED BY <1>5, <5>1, <5>5 DEF InLog
      <4> HIDE DEF to, ref
      <4>4. CASE q # to
        BY <1>1, <2>1, <2>2, <4>1, <4>2, <4>4
      <4>5. CASE q = to
        <5>1. mailbox'[q] = Append(mailbox[q], ref) /\ mailbox[q] \in Seq(Nat)
          BY <1>1, <4>1, <4>2, <4>5
        <5>2. \/ k \in DOMAIN mailbox[q] /\ mailbox'[q][k] = mailbox[q][k]
              \/ mailbox'[q][k] = ref
          <6>1. k \in DOMAIN Append(mailbox[q], ref)
            BY <2>2, <5>1
          <6>2. mailbox[q] \in Seq(Nat) /\ ref \in Nat
            BY <4>2, <5>1
          <6> QED BY <5>1, <6>1, <6>2, AppendProperties
        <5> QED BY <2>1, <4>3, <5>2
      <4> QED BY <4>4, <4>5
    <3> QED BY <1>2, <3>1, <3>2 DEF Store
  <2> QED BY <2>2 DEF WelcomeAfterCommit, InLog
<1> QED BY <1>6, <1>7, <1>8 DEF WelcomeOrder

(* Steps that leave stream and mailboxes alone and queue in order.          *)
LEMMA QueueOrder ==
    ASSUME Inv, WelcomeOrder, NEW d \in Devices, NEW rows, Ordered(rows, chat),
           outbox' = [outbox EXCEPT ![d] = rows], UNCHANGED <<chat, mailbox>>
    PROVE  WelcomeOrder'
<1>1. outbox \in [Devices -> Seq(Row)]
  BY DEF Inv, TypeOK
<1>2. \A q \in Devices : outbox'[q] = IF q = d THEN rows ELSE outbox[q]
  BY <1>1
<1> QED BY <1>2 DEF WelcomeOrder, WelcomeAfterCommit

(* The first state is in order: nothing is queued.                          *)
LEMMA InitOrder == Init => WelcomeOrder
<1> SUFFICES ASSUME Init PROVE WelcomeOrder
  OBVIOUS
<1>1. \A d \in Devices : mailbox[d] = << >> /\ outbox[d] = << >>
  BY DEF Init
<1> QED BY <1>1 DEF WelcomeOrder, WelcomeAfterCommit, Ordered

(* Every step keeps the order.                                              *)
LEMMA NextOrder == Inv /\ WelcomeOrder /\ [Next]_vars => WelcomeOrder'
<1> SUFFICES ASSUME Inv, WelcomeOrder, [Next]_vars PROVE WelcomeOrder'
  OBVIOUS
<1>1. outbox \in [Devices -> Seq(Row)] /\ Len(commits) \in Nat /\ Len(messages) \in Nat
      /\ mailbox \in [Devices -> Seq(Nat)]
  BY DEF Inv, TypeOK
<1>2. \A d \in Devices : outbox[d] \in Seq(Row) /\ Ordered(outbox[d], chat)
  BY <1>1 DEF WelcomeOrder
<1>3. ASSUME UNCHANGED <<chat, mailbox, outbox>> PROVE WelcomeOrder'
  BY <1>3 DEF WelcomeOrder, WelcomeAfterCommit
<1>4. CASE UNCHANGED vars
  BY <1>3, <1>4 DEF vars, broker, store
<1>5. ASSUME NEW d \in Devices, Sync(d) \/ Encrypt(d) \/ Abort(d) PROVE WelcomeOrder'
  <2>1. CASE Audit(d)
    <3>1. UNCHANGED <<chat, mailbox>>
      BY <2>1 DEF Audit, broker
    <3>2. outbox' = outbox \/ outbox' = [outbox EXCEPT ![d] = block_revoked_outbox(d, outbox[d], Revoked)]
      BY <2>1 DEF Audit
    <3>3. Ordered(block_revoked_outbox(d, outbox[d], Revoked), chat)
      BY <1>2, BlockedOrder
    <3> QED BY <1>3, <3>1, <3>2, <3>3, QueueOrder
  <2>2. CASE Publish(d)
    BY <2>2, PublishOrder
  <2>3. CASE ProcessNext(d)
    <3> DEFINE gone == KnownRevoked(known[d])
    <3>1. UNCHANGED <<chat, mailbox>>
      BY <2>3 DEF ProcessNext, broker
    <3>2. outbox' = outbox \/ outbox' = [outbox EXCEPT ![d] = block_revoked_outbox(d, outbox[d], gone)]
      BY <2>3 DEF ProcessNext, MergeCommit
    <3>3. Ordered(block_revoked_outbox(d, outbox[d], gone), chat)
      BY <1>2, BlockedOrder
    <3> QED BY <1>3, <3>1, <3>2, <3>3, QueueOrder
  <2>4. CASE reconcile_revocations(d)
    <3> DEFINE gone == KnownRevoked(known[d])
               rows == block_revoked_outbox(d, outbox[d], gone)
               row == HandshakeRow(Len(commits) + 1)
    <3>1. UNCHANGED <<chat, mailbox>>
      BY <2>4 DEF reconcile_revocations, broker
    <3>2. outbox' = outbox \/ outbox' = [outbox EXCEPT ![d] = Append(rows, row)]
      BY <2>4 DEF reconcile_revocations, LocalCommit
    <3>3. rows \in Seq(Row) /\ Ordered(rows, chat)
      BY <1>2, BlockedOrder, BlockedRows
    <3>4. row \in Row /\ row.state = "unsent" /\ row.kind = "handshake"
      BY <1>1 DEF HandshakeRow, Row
    <3> HIDE DEF rows, row
    <3>5. Ordered(Append(rows, row), chat)
      BY <3>3, <3>4, AppendOrder
    <3> QED BY <1>3, <3>1, <3>2, <3>5, QueueOrder
  <2>5. CASE accept_welcome(d)
    <3>1. UNCHANGED <<chat, outbox>> /\ (mailbox' = mailbox \/ mailbox' = [mailbox EXCEPT ![d] = Tail(mailbox[d])])
      BY <2>5 DEF accept_welcome
    <3>2. mailbox[d] # << >> /\ mailbox[d] \in Seq(Nat)
      BY <1>1, <2>5 DEF accept_welcome, Inv, ProgramPoints
    <3>3. ASSUME NEW q \in Devices, NEW k \in DOMAIN mailbox'[q]
          PROVE  \E n \in DOMAIN mailbox[q] : mailbox'[q][k] = mailbox[q][n]
      <4>1. CASE mailbox'[q] = mailbox[q]
        BY <3>3, <4>1
      <4>2. CASE q = d /\ mailbox'[q] = Tail(mailbox[d])
        <5>1. k \in 1..(Len(mailbox[d]) - 1) /\ k + 1 \in DOMAIN mailbox[d]
              /\ mailbox'[q][k] = mailbox[d][k + 1]
          BY <3>2, <3>3, <4>2
        <5> QED BY <4>2, <5>1
      <4> QED BY <1>1, <3>1, <4>1, <4>2
    <3> QED BY <3>1, <3>3 DEF WelcomeOrder, WelcomeAfterCommit
  <2>6. CASE Encrypt(d)
    <3> DEFINE row == MessageRow(Len(messages) + 1)
    <3>1. UNCHANGED <<chat, mailbox>> /\ outbox' = [outbox EXCEPT ![d] = Append(outbox[d], row)]
      BY <2>6 DEF Encrypt, broker
    <3>2. row \in Row /\ row.state = "unsent" /\ row.kind = "message"
      BY <1>1 DEF MessageRow, Row
    <3> HIDE DEF row
    <3>3. Ordered(Append(outbox[d], row), chat)
      BY <1>2, <3>2, AppendOrder
    <3> QED BY <3>1, <3>3, QueueOrder
  <2>7. CASE StageBacklog(d) \/ ProcessFails(d) \/ Finish(d) \/ Abort(d)
    BY <1>3, <2>7 DEF StageBacklog, ProcessFails, Finish, Abort, broker, store
  <2> QED BY <1>5, <2>1, <2>2, <2>3, <2>4, <2>5, <2>6, <2>7 DEF Sync
<1>6. ASSUME NEW d \in Devices, NEW x \in Devices, Invite(d, x) PROVE WelcomeOrder'
  <2> DEFINE row == HandshakeRow(Len(commits) + 1)
             welcome == WelcomeRow(Len(commits) + 1, x)
             rows == Append(outbox[d], row)
  <2>1. /\ UNCHANGED <<chat, mailbox>>
        /\ outbox' = outbox \/ outbox' = [outbox EXCEPT ![d] = Append(rows, welcome)]
    BY <1>6 DEF Invite, LocalCommit, broker
  <2>2. /\ row \in Row /\ row.state = "unsent" /\ row.kind = "handshake"
        /\ welcome \in Row /\ welcome.state = "unsent" /\ welcome.ref = row.ref
    BY <1>1 DEF HandshakeRow, WelcomeRow, Row
  <2> HIDE DEF row, welcome
  <2>3. /\ rows \in Seq(Row) /\ rows[Len(outbox[d]) + 1] = row
        /\ Len(outbox[d]) + 1 \in DOMAIN rows
    BY <1>2, <2>2, AppendProperties
  <2>4. Ordered(rows, chat)
    BY <1>2, <2>2, AppendOrder
  <2> HIDE DEF rows
  <2>5. Ordered(Append(rows, welcome), chat)
    BY <2>2, <2>3, <2>4, AppendOrder
  <2> QED BY <1>3, <2>1, <2>5, QueueOrder
<1>7. ASSUME NEW d \in Devices, NEW x \in Devices, JoinLookup(d, x) PROVE WelcomeOrder'
  BY <1>3, <1>7 DEF JoinLookup, broker
<1>8. CASE (\E x \in Revocable : ReadCutoff(x)) \/ Service \/ ServiceStops
  BY <1>3, <1>8 DEF Service, ReadCutoff, AppendRevocation, Enforce, ServiceStops, store
<1> QED BY <1>4, <1>5, <1>6, <1>7, <1>8 DEF Next

(* No Welcome reaches a mailbox before the Commit that admits its recipient *)
(* is in CHAT, whatever acknowledgments are lost and whichever rows are     *)
(* published twice: prepare_invitation queues both in one transaction, and   *)
(* flush_outbox never passes over a row that is still pending.               *)
THEOREM WelcomesFollowCommits == Spec => []WelcomeAfterCommit
<1>1. WelcomeOrder => WelcomeAfterCommit
  BY DEF WelcomeOrder
<1> QED BY <1>1, InitInv, InitOrder, NextInv, NextOrder, PTL DEF Spec

-----------------------------------------------------------------------------
(* A group nobody is revoked from.                                          *)

Creator == Roster[1]

\* A device that has not joined has staged nothing; only processed deliveries
\* are quarantined.
Bookkeeping ==
    \A d \in Devices : (mls[d] = 0 => staged[d] = 0) /\ rejected[d] \subseteq 1..done[d]

\* The creator makes every Commit, each on top of the one before.
OneLine ==
    /\ \A c \in 1..Len(commits) :
         commits[c].author = Creator /\ commits[c].parent = c - 1 /\ commits[c].epoch = c - 1
    /\ mls[Creator] = Len(commits)

IsCommit(row) == row.kind = "handshake"

\* Only the creator queues Commits, all of them and in order.
QueuedInOrder ==
    /\ \A d \in Devices : \A i \in DOMAIN outbox[d] :
         IsCommit(outbox[d][i]) => d = Creator /\ outbox[d][i].ref >= 2
    /\ \A i, j \in DOMAIN outbox[Creator] :
         IsCommit(outbox[Creator][i]) /\ IsCommit(outbox[Creator][j]) /\ i < j
         => outbox[Creator][i].ref < outbox[Creator][j].ref
    /\ \A c \in 2..Len(commits) : \E i \in DOMAIN outbox[Creator] :
         IsCommit(outbox[Creator][i]) /\ outbox[Creator][i].ref = c

\* In CHAT every Commit comes after all its ancestors, whatever is repeated.
StoredInOrder ==
    \A n \in DOMAIN chat : IsCommit(chat[n]) =>
        /\ chat[n].author = Creator
        /\ chat[n].ref >= 2
        /\ \A c \in 2..(chat[n].ref - 1) : \E m \in 1..(n - 1) :
              IsCommit(chat[m]) /\ chat[m].ref = c

\* A device holds the epoch it joined at or the newest it has read.
Follows(d) ==
    /\ \A i \in rejected[d] : ~IsCommit(chat[i])
    /\ mls[d] # 0 =>
         /\ 1 <= joined[d] /\ joined[d] <= mls[d]
         /\ \A i \in 1..done[d] : IsCommit(chat[i]) => chat[i].ref <= mls[d]
         /\ \/ d = Creator \/ mls[d] = joined[d]
            \/ \E i \in 1..done[d] : IsCommit(chat[i]) /\ chat[i].ref = mls[d]

ReadInOrder == \A d \in Devices : Follows(d)

Orderly == OneLine /\ QueuedInOrder /\ StoredInOrder /\ ReadInOrder

Undisturbed == Bookkeeping /\ (revLog = << >> => Orderly)

(* The creator is a device, and has joined.                                  *)
LEMMA CreatorJoined ==
    ASSUME Inv PROVE Creator \in Devices /\ (OneLine => mls[Creator] # 0)
<1>1. Creator \in Devices
  BY RosterAssumption DEF Creator
<1>2. commits \in Seq(Commit) /\ Len(commits) >= 1
  BY DEF Inv, TypeOK, AuthorsAreMembers
<1> QED BY <1>1, <1>2 DEF OneLine

(* Without a revocation nobody knows of one.                                 *)
LEMMA NobodyRevoked ==
    ASSUME Inv, revLog = << >>
    PROVE  Revoked = {} /\ \A d \in Devices : known[d] = 0 /\ KnownRevoked(known[d]) = {}
<1>1. Len(revLog) = 0 /\ DOMAIN revLog = {}
  OBVIOUS
<1>2. \A d \in Devices : known[d] = 0
  BY <1>1 DEF Inv, TypeOK
<1> QED BY <1>1, <1>2 DEF Revoked, KnownRevoked

(* Rows that keep what they are keep their order.                            *)
LEMMA SameQueue ==
    ASSUME Inv, QueuedInOrder, commits' = commits,
           \A q \in Devices : /\ DOMAIN outbox'[q] = DOMAIN outbox[q]
                              /\ \A i \in DOMAIN outbox[q] : /\ outbox'[q][i].kind = outbox[q][i].kind
                                                             /\ outbox'[q][i].ref = outbox[q][i].ref
    PROVE  QueuedInOrder'
<1>1. Creator \in Devices /\ Creator' = Creator
  BY CreatorJoined DEF Creator
<1>2. \A d \in Devices : \A i \in DOMAIN outbox'[d] :
         IsCommit(outbox'[d][i]) => d = Creator /\ outbox'[d][i].ref >= 2
  BY DEF QueuedInOrder, IsCommit
<1>3. \A i, j \in DOMAIN outbox'[Creator] :
         IsCommit(outbox'[Creator][i]) /\ IsCommit(outbox'[Creator][j]) /\ i < j
         => outbox'[Creator][i].ref < outbox'[Creator][j].ref
  BY <1>1 DEF QueuedInOrder, IsCommit
<1>4. ASSUME NEW c \in 2..Len(commits)
      PROVE  \E i \in DOMAIN outbox'[Creator] :
                IsCommit(outbox'[Creator][i]) /\ outbox'[Creator][i].ref = c
  BY <1>1 DEF QueuedInOrder, IsCommit
<1> QED BY <1>1, <1>2, <1>3, <1>4 DEF QueuedInOrder

(* A ciphertext behind the Commits keeps their order.                        *)
LEMMA MessageQueue ==
    ASSUME Inv, QueuedInOrder, commits' = commits, NEW d \in Devices, NEW row \in Row,
           row.kind # "handshake", outbox' = [outbox EXCEPT ![d] = Append(outbox[d], row)]
    PROVE  QueuedInOrder'
<1> DEFINE new == Append(outbox[d], row)
<1>1. outbox \in [Devices -> Seq(Row)]
  BY DEF Inv, TypeOK
<1>2. /\ DOMAIN new = 1..(Len(outbox[d]) + 1) /\ DOMAIN outbox[d] = 1..Len(outbox[d])
      /\ Len(outbox[d]) \in Nat
      /\ \A i \in 1..Len(outbox[d]) : new[i] = outbox[d][i]
      /\ new[Len(outbox[d]) + 1] = row
  BY <1>1, AppendProperties
<1>3. outbox'[d] = new /\ \A q \in Devices \ {d} : outbox'[q] = outbox[q]
  BY <1>1
<1> HIDE DEF new
<1>4. \A q \in Devices :
         /\ \A i \in DOMAIN outbox[q] : i \in DOMAIN outbox'[q] /\ outbox'[q][i] = outbox[q][i]
         /\ \A i \in DOMAIN outbox'[q] : IsCommit(outbox'[q][i]) =>
               i \in DOMAIN outbox[q] /\ outbox'[q][i] = outbox[q][i]
  <2>1. \A i \in DOMAIN outbox[d] : i \in DOMAIN new /\ new[i] = outbox[d][i]
    BY <1>2
  <2>2. \A i \in DOMAIN new : IsCommit(new[i]) => i \in DOMAIN outbox[d] /\ new[i] = outbox[d][i]
    BY <1>2 DEF IsCommit
  <2> QED BY <1>3, <2>1, <2>2
<1>5. Creator \in Devices /\ Creator' = Creator
  BY CreatorJoined DEF Creator
<1>6. \A q \in Devices : \A i \in DOMAIN outbox'[q] :
         IsCommit(outbox'[q][i]) => q = Creator /\ outbox'[q][i].ref >= 2
  BY <1>4 DEF QueuedInOrder
<1>7. \A i, j \in DOMAIN outbox'[Creator] :
         IsCommit(outbox'[Creator][i]) /\ IsCommit(outbox'[Creator][j]) /\ i < j
         => outbox'[Creator][i].ref < outbox'[Creator][j].ref
  BY <1>4, <1>5 DEF QueuedInOrder
<1>8. ASSUME NEW c \in 2..Len(commits)
      PROVE  \E i \in DOMAIN outbox'[Creator] :
                IsCommit(outbox'[Creator][i]) /\ outbox'[Creator][i].ref = c
  BY <1>4, <1>5 DEF QueuedInOrder
<1> QED BY <1>5, <1>6, <1>7, <1>8 DEF QueuedInOrder

(* The creator's next Commit goes behind the others.                         *)
LEMMA CommitQueue ==
    ASSUME Inv, QueuedInOrder, NEW row \in Row, row.kind = "handshake",
           row.ref = Len(commits) + 1, Len(commits') = Len(commits) + 1, NEW rest \in Row,
           rest.kind = "welcome",
           outbox' = [outbox EXCEPT ![Creator] = Append(Append(outbox[Creator], row), rest)]
    PROVE  QueuedInOrder'
<1> DEFINE rows == outbox[Creator]
           new == Append(Append(rows, row), rest)
           n == Len(rows)
<1>1. outbox \in [Devices -> Seq(Row)] /\ commits \in Seq(Commit) /\ Creator \in Devices
      /\ Creator' = Creator
  BY CreatorJoined DEF Inv, TypeOK, Creator
<1>2. rows \in Seq(Row) /\ Len(commits) \in Nat /\ n \in Nat /\ DOMAIN rows = 1..n
      /\ Len(commits) >= 1
  BY <1>1 DEF Inv, AuthorsAreMembers
<1>3. /\ Append(rows, row) \in Seq(Row) /\ Len(Append(rows, row)) = n + 1
      /\ \A i \in 1..n : Append(rows, row)[i] = rows[i]
      /\ Append(rows, row)[n + 1] = row
  BY <1>2, AppendProperties
<1>4. /\ DOMAIN new = 1..(n + 2)
      /\ \A i \in 1..(n + 1) : new[i] = Append(rows, row)[i]
      /\ new[n + 2] = rest
  BY <1>2, <1>3, AppendProperties
<1>5. /\ \A i \in 1..n : new[i] = rows[i]
      /\ new[n + 1] = row
  BY <1>2, <1>3, <1>4
<1>6. \A i \in 1..n : IsCommit(rows[i]) => rows[i].ref \in 1..Len(commits)
  BY <1>1, <1>2 DEF Inv, ReferencesExist, IsCommit
<1>7. outbox'[Creator] = new /\ \A q \in Devices \ {Creator} : outbox'[q] = outbox[q]
  BY <1>1
<1> HIDE DEF new
<1>8. \A i \in DOMAIN new : IsCommit(new[i]) => i \in 1..n \/ i = n + 1
  BY <1>2, <1>4 DEF IsCommit
<1>9. \A q \in Devices : \A i \in DOMAIN outbox'[q] :
         IsCommit(outbox'[q][i]) => q = Creator /\ outbox'[q][i].ref >= 2
  <2>1. \A i \in DOMAIN new : IsCommit(new[i]) => new[i].ref >= 2
    <3>1. \A i \in 1..n : IsCommit(rows[i]) => rows[i].ref >= 2
      BY <1>1, <1>2 DEF QueuedInOrder
    <3> QED BY <1>2, <1>5, <1>8, <3>1
  <2> QED BY <1>7, <2>1 DEF QueuedInOrder
<1>10. ASSUME NEW i \in DOMAIN new, NEW j \in DOMAIN new, IsCommit(new[i]), IsCommit(new[j]), i < j
       PROVE  new[i].ref < new[j].ref
  <2>1. i \in 1..n
    BY <1>2, <1>4, <1>8, <1>10
  <2>2. CASE j \in 1..n
    BY <1>2, <1>5, <1>10, <2>1, <2>2 DEF QueuedInOrder
  <2>3. CASE j = n + 1
    <3>1. rows[i].ref \in 1..Len(commits) /\ new[i] = rows[i]
      BY <1>5, <1>6, <1>10, <2>1
    <3> QED BY <1>2, <1>5, <2>3, <3>1
  <2> QED BY <1>8, <1>10, <2>2, <2>3
<1>11. ASSUME NEW c \in 2..Len(commits')
       PROVE  \E i \in DOMAIN new : IsCommit(new[i]) /\ new[i].ref = c
  <2>1. CASE c \in 2..Len(commits)
    <3>1. PICK i \in DOMAIN rows : IsCommit(rows[i]) /\ rows[i].ref = c
      BY <2>1 DEF QueuedInOrder
    <3>2. i \in DOMAIN new /\ new[i] = rows[i]
      BY <1>2, <1>4, <1>5
    <3> QED BY <3>1, <3>2
  <2>2. CASE c = Len(commits) + 1
    <3>1. n + 1 \in DOMAIN new /\ IsCommit(new[n + 1])
      BY <1>2, <1>4, <1>5 DEF IsCommit
    <3> QED BY <1>5, <2>2, <3>1
  <2> QED BY <1>2, <2>1, <2>2
<1>12. \A i, j \in DOMAIN outbox'[Creator] :
          IsCommit(outbox'[Creator][i]) /\ IsCommit(outbox'[Creator][j]) /\ i < j
          => outbox'[Creator][i].ref < outbox'[Creator][j].ref
  BY <1>7, <1>10
<1>13. \A c \in 2..Len(commits') : \E i \in DOMAIN outbox'[Creator] :
          IsCommit(outbox'[Creator][i]) /\ outbox'[Creator][i].ref = c
  BY <1>7, <1>11
<1> QED BY <1>1, <1>9, <1>12, <1>13 DEF QueuedInOrder

(* A device whose position does not change follows a stream that grows, and  *)
(* so does the creator with its own Commits.                                 *)
LEMMA FollowsKept ==
    ASSUME Inv, Bookkeeping, ReadInOrder, NEW d \in Devices,
           \A j \in DOMAIN chat : chat'[j] = chat[j],
           joined'[d] = joined[d], done'[d] = done[d], rejected'[d] = rejected[d],
           mls'[d] = mls[d] \/ (d = Creator /\ mls[d] # 0 /\ mls'[d] \in Nat /\ mls'[d] >= mls[d])
    PROVE  Follows(d)'
<1>1. /\ done[d] \in Nat /\ chat \in Seq(Delivery) /\ staged[d] \in 0..Len(chat)
      /\ done[d] <= staged[d] /\ mls[d] \in 0..Len(commits) /\ joined[d] \in 0..Len(commits)
      /\ commits \in Seq(Commit)
  BY DEF Inv, TypeOK
<1>2. \A i \in 1..done[d] : i \in DOMAIN chat
  BY <1>1
<1>3. \A i \in 1..done[d] : IsCommit(chat[i]) => chat[i].ref \in Nat
  <2>1. \A i \in DOMAIN chat : chat[i] \in Delivery
    BY <1>1
  <2> QED BY <1>2, <2>1 DEF Delivery
<1>4. \A i \in rejected[d] : i \in DOMAIN chat
  BY <1>2 DEF Bookkeeping
<1>5. Creator' = Creator
  BY DEF Creator
<1>6. \A i \in rejected'[d] : ~IsCommit(chat'[i])
  BY <1>4 DEF ReadInOrder, Follows
<1>7. ASSUME mls'[d] # 0
      PROVE  /\ 1 <= joined'[d] /\ joined'[d] <= mls'[d]
             /\ \A i \in 1..done'[d] : IsCommit(chat'[i]) => chat'[i].ref <= mls'[d]
             /\ \/ d = Creator \/ mls'[d] = joined'[d]
                \/ \E i \in 1..done'[d] : IsCommit(chat'[i]) /\ chat'[i].ref = mls'[d]
  <2>1. /\ 1 <= joined[d] /\ joined[d] <= mls[d]
        /\ \A i \in 1..done[d] : IsCommit(chat[i]) => chat[i].ref <= mls[d]
        /\ \/ d = Creator \/ mls[d] = joined[d]
           \/ \E i \in 1..done[d] : IsCommit(chat[i]) /\ chat[i].ref = mls[d]
    BY <1>7 DEF ReadInOrder, Follows
  <2>2. mls[d] \in Nat /\ joined[d] \in Nat
    BY <1>1
  <2>3. 1 <= joined'[d] /\ joined'[d] <= mls'[d]
    BY <2>1, <2>2
  <2>4. ASSUME NEW i \in 1..done'[d], IsCommit(chat'[i]) PROVE chat'[i].ref <= mls'[d]
    <3>1. chat'[i] = chat[i] /\ i \in 1..done[d]
      BY <1>2
    <3>2. chat[i].ref <= mls[d] /\ chat[i].ref \in Nat
      BY <1>3, <2>1, <2>4, <3>1
    <3> QED BY <2>2, <3>1, <3>2
  <2>5. \/ d = Creator \/ mls'[d] = joined'[d]
        \/ \E i \in 1..done'[d] : IsCommit(chat'[i]) /\ chat'[i].ref = mls'[d]
    BY <1>2, <2>1
  <2> QED BY <2>3, <2>4, <2>5
<1> QED BY <1>5, <1>6, <1>7 DEF Follows

(* Publishing in order stores in order.                                      *)
LEMMA PublishOrderly ==
    ASSUME Inv, WelcomeOrder, Bookkeeping, Orderly, NEW d \in Devices, Publish(d) PROVE Orderly'
<1>1. /\ UNCHANGED <<commits, mls, joined, done, rejected>>
  BY DEF Publish
<1>2. /\ outbox \in [Devices -> Seq(Row)] /\ chat \in Seq(Delivery) /\ commits \in Seq(Commit)
      /\ Creator \in Devices /\ Creator' = Creator
  BY CreatorJoined DEF Inv, TypeOK, Creator
<1>3. PICK i \in DOMAIN outbox[d], state \in {"sent", "stored"} :
         /\ i \in Pending(outbox[d]) /\ \A m \in Pending(outbox[d]) : i <= m
         /\ \A q \in Devices \ {d} : outbox'[q] = outbox[q]
         /\ DOMAIN outbox'[d] = DOMAIN outbox[d]
         /\ \A k \in DOMAIN outbox[d] \ {i} : outbox'[d][k] = outbox[d][k]
         /\ outbox'[d][i] = [outbox[d][i] EXCEPT !.state = state]
         /\ \/ Store(d, outbox[d][i])
            \/ outbox[d][i].state = "stored" /\ UNCHANGED <<chat, mailbox>>
  BY PublishedRow
<1> DEFINE row == outbox[d][i]
<1>4. row \in Row /\ DOMAIN outbox[d] = 1..Len(outbox[d]) /\ i \in Nat
  BY <1>2
<1>5. outbox'[d][i].kind = row.kind /\ outbox'[d][i].ref = row.ref
  BY <1>3, <1>4 DEF Row
<1>6. QueuedInOrder'
  BY <1>1, <1>3, <1>5, SameQueue DEF Orderly
<1>7. OneLine'
  BY <1>1, <1>2 DEF Orderly, OneLine
<1>8. CASE chat' = chat
  <2>1. StoredInOrder'
    BY <1>2, <1>8 DEF Orderly, StoredInOrder
  <2>2. \A q \in Devices : Follows(q)'
    BY <1>1, <1>8, FollowsKept DEF Orderly
  <2> QED BY <1>6, <1>7, <2>1, <2>2 DEF Orderly, ReadInOrder
<1>9. CASE chat' # chat
  <2> DEFINE new == [kind |-> row.kind, ref |-> row.ref, author |-> d]
  <2>1. row.kind # "welcome" /\ chat' = Append(chat, new)
    BY <1>3, <1>9 DEF Store
  <2>2. new \in Delivery /\ new.kind = row.kind /\ new.ref = row.ref /\ new.author = d
    BY <1>4, <2>1 DEF Row, Delivery
  <2> HIDE DEF new
  <2>3. /\ Len(chat) \in Nat /\ DOMAIN chat = 1..Len(chat) /\ DOMAIN chat' = 1..(Len(chat) + 1)
        /\ \A j \in 1..Len(chat) : chat'[j] = chat[j]
        /\ chat'[Len(chat) + 1] = new
    BY <1>2, <2>1, <2>2, AppendProperties
  <2>4. ASSUME IsCommit(row)
        PROVE  /\ d = Creator /\ row.ref >= 2
               /\ \A c \in 2..(row.ref - 1) : InLog(chat, c)
    <3>1. d = Creator /\ row.ref >= 2 /\ row.ref \in 1..Len(commits)
      BY <2>4 DEF Orderly, QueuedInOrder, Inv, ReferencesExist, IsCommit
    <3>2. ASSUME NEW c \in 2..(row.ref - 1) PROVE InLog(chat, c)
      <4>1. c \in 2..Len(commits) /\ c < row.ref
        BY <1>2, <3>1
      <4>2. PICK j \in DOMAIN outbox[d] : IsCommit(outbox[d][j]) /\ outbox[d][j].ref = c
        BY <3>1, <4>1 DEF Orderly, QueuedInOrder
      <4>3. i < j => row.ref < c
        BY <2>4, <3>1, <4>2 DEF Orderly, QueuedInOrder
      <4>4. j \in Nat /\ j < i
        BY <1>4, <3>1, <4>1, <4>2, <4>3
      <4>5. j \notin Pending(outbox[d])
        BY <1>3, <1>4, <4>4
      <4>6. outbox[d][j].state \notin {"unsent", "stored"}
        BY <4>2, <4>5 DEF Pending
      <4> QED BY <4>2, <4>6 DEF WelcomeOrder, Ordered, IsCommit
    <3> QED BY <3>1, <3>2
  <2>5. StoredInOrder'
    <3>1. ASSUME NEW n \in DOMAIN chat', IsCommit(chat'[n])
          PROVE  /\ chat'[n].author = Creator /\ chat'[n].ref >= 2
                 /\ \A c \in 2..(chat'[n].ref - 1) : \E m \in 1..(n - 1) :
                       IsCommit(chat'[m]) /\ chat'[m].ref = c
      <4>1. CASE n \in 1..Len(chat)
        <5>1. chat'[n] = chat[n] /\ \A m \in 1..(n - 1) : chat'[m] = chat[m]
          BY <2>3, <4>1
        <5> QED BY <2>3, <3>1, <4>1, <5>1 DEF Orderly, StoredInOrder
      <4>2. CASE n = Len(chat) + 1
        <5>1. chat'[n] = new /\ IsCommit(row)
          BY <2>2, <2>3, <3>1, <4>2 DEF IsCommit
        <5>2. ASSUME NEW c \in 2..(row.ref - 1)
              PROVE  \E m \in 1..(n - 1) : IsCommit(chat'[m]) /\ chat'[m].ref = c
          <6>1. PICK m \in DOMAIN chat : chat[m].kind = "handshake" /\ chat[m].ref = c
            BY <2>4, <5>1 DEF InLog
          <6> QED BY <2>3, <4>2, <6>1 DEF IsCommit
        <5> QED BY <2>2, <2>4, <5>1, <5>2
      <4> QED BY <2>3, <4>1, <4>2
    <3> QED BY <1>2, <3>1 DEF StoredInOrder
  <2>6. \A q \in Devices : Follows(q)'
    BY <1>1, <2>3, FollowsKept DEF Orderly
  <2> QED BY <1>6, <1>7, <2>5, <2>6 DEF Orderly, ReadInOrder
<1> QED BY <1>8, <1>9

(* What process_history does with a Commit of the creator: it has it, or it  *)
(* is the next one.                                                          *)
LEMMA CommitRead ==
    ASSUME Inv, Bookkeeping, Orderly, revLog = << >>, NEW d \in Devices, mls[d] # 0,
           done[d] < staged[d], IsCommit(chat[done[d] + 1])
    PROVE  LET row == chat[done[d] + 1]
           IN  \/ Verdict(d) \in {"skip", "error"} /\ (Verdict(d) = "skip" => row.ref <= mls[d])
               \/ Verdict(d) = "merge" /\ row.ref = mls[d] + 1 /\ d # Creator
<1> DEFINE row == chat[done[d] + 1]
           c == row.ref
<1>1. /\ done[d] \in Nat /\ chat \in Seq(Delivery) /\ staged[d] \in 0..Len(chat)
      /\ commits \in Seq(Commit) /\ mls[d] \in 0..Len(commits) /\ joined[d] \in 0..Len(commits)
  BY DEF Inv, TypeOK
<1>2. /\ done[d] + 1 \in DOMAIN chat /\ row \in Delivery /\ Len(commits) \in Nat
      /\ \A i \in 1..done[d] : i \in DOMAIN chat /\ chat[i] \in Delivery
  BY <1>1
<1>3. /\ c \in 2..Len(commits) /\ row.author = Creator
  BY <1>1, <1>2 DEF Orderly, StoredInOrder, Inv, ReferencesExist, IsCommit
<1>4. /\ mls[d] \in 1..Len(commits) /\ joined[d] \in 1..Len(commits) /\ joined[d] <= mls[d]
      /\ \A i \in rejected[d] : ~IsCommit(chat[i])
      /\ \A i \in 1..done[d] : IsCommit(chat[i]) => chat[i].ref <= mls[d]
      /\ \/ d = Creator \/ mls[d] = joined[d]
         \/ \E i \in 1..done[d] : IsCommit(chat[i]) /\ chat[i].ref = mls[d]
  BY <1>1, <1>2 DEF Orderly, ReadInOrder, Follows
<1>5. /\ commits[c].parent = c - 1 /\ commits[c].author = Creator
      /\ commits[c - 1].epoch = c - 2 /\ commits[joined[d]].epoch = joined[d] - 1
      /\ commits[mls[d]].author = Creator
  <2>1. \A n \in 1..Len(commits) : commits[n].author = Creator /\ commits[n].parent = n - 1
                                   /\ commits[n].epoch = n - 1
    BY DEF Orderly, OneLine
  <2>2. c \in 1..Len(commits) /\ c - 1 \in 1..Len(commits) /\ (c - 1) - 1 = c - 2
    BY <1>2, <1>3
  <2> QED BY <1>4, <2>1, <2>2
<1>6. before_join(d, row) <=> c <= joined[d]
  <2>1. RowEpoch(row) = c - 2
    BY <1>5 DEF RowEpoch, IsCommit
  <2> QED BY <1>3, <1>4, <1>5, <2>1 DEF before_join
<1>7. CASE before_join(d, row) \/ AlreadyHeld(d, row)
  <2>1. Verdict(d) = "skip"
    BY <1>7 DEF Verdict
  <2>2. CASE before_join(d, row)
    BY <1>3, <1>4, <1>6, <2>1, <2>2
  <2>3. CASE AlreadyHeld(d, row)
    <3>1. CASE row.author = d
      <4>1. mls[d] = Len(commits)
        BY <1>3, <3>1 DEF Orderly, OneLine
      <4> QED BY <1>3, <2>1, <4>1
    <3>2. CASE \E i \in 1..done[d] : chat[i] = row
      BY <1>4, <2>1, <3>2
    <3> QED BY <2>3, <3>1, <3>2 DEF AlreadyHeld
  <2> QED BY <1>7, <2>2, <2>3
<1>8. CASE ~before_join(d, row) /\ ~AlreadyHeld(d, row)
  <2>1. d # Creator
    BY <1>3, <1>8 DEF AlreadyHeld
  <2>2. ASSUME NEW m \in 1..done[d], IsCommit(chat[m]), chat[m].ref = c PROVE FALSE
    <3>1. chat[m].author = Creator /\ chat[m] \in Delivery
      BY <1>2, <2>2 DEF Orderly, StoredInOrder
    <3>2. chat[m] = row
      BY <1>2, <1>3, <2>2, <3>1 DEF Delivery, IsCommit
    <3>3. m \notin rejected[d]
      BY <1>4, <2>2
    <3> QED BY <1>8, <3>2, <3>3 DEF AlreadyHeld
  <2>3. mls[d] >= c - 1
    <3>1. CASE c = 2
      BY <1>4, <3>1
    <3>2. CASE c # 2
      <4>1. c - 1 \in 2..(c - 1)
        BY <1>3, <3>2
      <4>2. PICK m \in 1..((done[d] + 1) - 1) : IsCommit(chat[m]) /\ chat[m].ref = c - 1
        BY <1>2, <4>1 DEF Orderly, StoredInOrder
      <4>3. m \in 1..done[d]
        BY <1>1, <4>2
      <4>4. c - 1 <= mls[d]
        BY <1>4, <4>2, <4>3
      <4> QED BY <1>3, <1>4, <4>4
    <3> QED BY <3>1, <3>2
  <2>4. ~(mls[d] >= c)
    <3> SUFFICES ASSUME mls[d] >= c PROVE FALSE
      OBVIOUS
    <3>1. mls[d] # joined[d]
      BY <1>3, <1>4, <1>6, <1>8
    <3>2. PICK i \in 1..done[d] : IsCommit(chat[i]) /\ chat[i].ref = mls[d]
      BY <1>4, <2>1, <3>1
    <3>3. chat[i].ref # c
      BY <2>2, <3>2
    <3>4. c \in 2..(chat[i].ref - 1)
      BY <1>3, <1>4, <3>2, <3>3
    <3>5. i \in DOMAIN chat
      BY <1>2
    <3>6. PICK m \in 1..(i - 1) : IsCommit(chat[m]) /\ chat[m].ref = c
      BY <3>2, <3>4, <3>5 DEF Orderly, StoredInOrder
    <3>7. m \in 1..done[d]
      BY <1>1, <3>6
    <3> QED BY <2>2, <3>6, <3>7
  <2>5. c = mls[d] + 1
    BY <1>3, <1>4, <2>3, <2>4
  <2>6. commits[c].parent = mls[d]
    BY <1>4, <1>5, <2>5
  <2>7. validate_commit_author(d, c, done[d] + 1)
    <3>1. commits[c].author = pin[d]
      BY <1>5 DEF Inv, PinIsAuthor
    <3>2. KnownRevoked(known[d]) = {}
      BY NobodyRevoked
    <3> QED BY <3>1, <3>2 DEF validate_commit_author
  <2>8. Verdict(d) \in {"error", "merge"}
    BY <1>8, <2>6, <2>7 DEF Verdict, IsCommit
  <2> QED BY <2>1, <2>5, <2>8
<1> QED BY <1>7, <1>8

(* Processing a delivery moves a device one Commit on or leaves it there.    *)
LEMMA ProcessOrderly ==
    ASSUME Inv, Bookkeeping, Orderly, revLog = << >>, NEW d \in Devices, ProcessNext(d)
    PROVE  Orderly'
<1> DEFINE row == chat[done[d] + 1]
<1>1. /\ UNCHANGED <<commits, chat, joined>>
      /\ mls[d] # 0 /\ done[d] < staged[d] /\ Verdict(d) # "error"
      /\ done' = [done EXCEPT ![d] = done[d] + 1]
      /\ rejected' = IF Verdict(d) = "reject"
                     THEN [rejected EXCEPT ![d] = rejected[d] \cup {done[d] + 1}] ELSE rejected
  BY DEF ProcessNext, broker
<1>2. /\ done \in [Devices -> Nat] /\ rejected \in [Devices -> SUBSET Nat]
      /\ mls \in [Devices -> 0..Len(commits)] /\ outbox \in [Devices -> Seq(Row)]
      /\ Creator \in Devices /\ Creator' = Creator
      /\ chat \in Seq(Delivery) /\ staged[d] \in 0..Len(chat) /\ joined[d] \in 0..Len(commits)
      /\ commits \in Seq(Commit)
  BY CreatorJoined DEF Inv, TypeOK, Creator
<1>3. Verdict(d) = "merge" => IsCommit(row)
  BY DEF Verdict, IsCommit
<1>4. \/ Verdict(d) = "merge" /\ mls' = [mls EXCEPT ![d] = row.ref] /\ d # Creator
         /\ row.ref = mls[d] + 1
      \/ Verdict(d) # "merge" /\ mls' = mls
  BY <1>1, <1>3, CommitRead DEF ProcessNext, MergeCommit
<1>5. OneLine'
  BY <1>1, <1>2, <1>4 DEF Orderly, OneLine
<1>6. StoredInOrder'
  BY <1>1, <1>2 DEF Orderly, StoredInOrder
<1>7. QueuedInOrder'
  <2> DEFINE rows == block_revoked_outbox(d, outbox[d], KnownRevoked(known[d]))
  <2>1. outbox' = outbox \/ outbox' = [outbox EXCEPT ![d] = rows]
    BY DEF ProcessNext, MergeCommit
  <2>2. /\ DOMAIN rows = DOMAIN outbox[d]
        /\ \A i \in DOMAIN outbox[d] : rows[i].kind = outbox[d][i].kind /\ rows[i].ref = outbox[d][i].ref
    BY <1>2, BlockedRows
  <2> HIDE DEF rows
  <2>3. \A q \in Devices : /\ DOMAIN outbox'[q] = DOMAIN outbox[q]
                           /\ \A i \in DOMAIN outbox[q] : /\ outbox'[q][i].kind = outbox[q][i].kind
                                                          /\ outbox'[q][i].ref = outbox[q][i].ref
    BY <1>2, <2>1, <2>2
  <2> QED BY <1>1, <2>3, SameQueue DEF Orderly
<1>8. ASSUME NEW q \in Devices, q # d PROVE Follows(q)'
  <2>1. mls'[q] = mls[q] /\ done'[q] = done[q] /\ rejected'[q] = rejected[q]
    BY <1>1, <1>2, <1>4, <1>8
  <2> QED BY <1>1, <2>1, FollowsKept DEF Orderly
<1>9. Follows(d)'
  <2>1. /\ \A i \in rejected[d] : ~IsCommit(chat[i])
        /\ 1 <= joined[d] /\ joined[d] <= mls[d]
        /\ \A i \in 1..done[d] : IsCommit(chat[i]) => chat[i].ref <= mls[d]
        /\ \/ d = Creator \/ mls[d] = joined[d]
           \/ \E i \in 1..done[d] : IsCommit(chat[i]) /\ chat[i].ref = mls[d]
    BY <1>1 DEF Orderly, ReadInOrder, Follows
  <2>2. /\ done[d] \in Nat /\ mls[d] \in Nat /\ joined[d] \in Nat /\ done'[d] = done[d] + 1
        /\ done[d] + 1 \in 1..done'[d]
        /\ \A i \in 1..done'[d] : i \in 1..done[d] \/ i = done[d] + 1
        /\ \A i \in 1..done[d] : i \in 1..done'[d]
        /\ \A i \in 1..done[d] : i \in DOMAIN chat
    BY <1>1, <1>2
  <2>3. \A i \in 1..done[d] : chat[i].ref \in Nat
    <3>1. \A i \in 1..done[d] : chat[i] \in Delivery
      BY <1>2, <2>2
    <3> QED BY <3>1 DEF Delivery
  <2>4. \A i \in rejected'[d] : ~IsCommit(chat[i])
    <3>1. IsCommit(row) => Verdict(d) # "reject"
      BY <1>1, CommitRead DEF Orderly
    <3> QED BY <1>1, <1>2, <2>1, <3>1
  <2>5. IsCommit(row) => row.ref <= mls'[d]
    <3> SUFFICES ASSUME IsCommit(row) PROVE row.ref <= mls'[d]
      OBVIOUS
    <3>1. CASE Verdict(d) = "merge"
      BY <1>2, <1>4, <2>2, <3>1
    <3>2. CASE Verdict(d) # "merge"
      BY <1>1, <1>4, <3>2, CommitRead
    <3> QED BY <3>1, <3>2
  <2>6. mls'[d] \in Nat /\ mls[d] <= mls'[d]
    BY <1>2, <1>4, <2>2
  <2>7. ASSUME NEW i \in 1..done'[d], IsCommit(chat[i]) PROVE chat[i].ref <= mls'[d]
    <3>1. CASE i \in 1..done[d]
      BY <2>1, <2>2, <2>3, <2>6, <2>7, <3>1
    <3>2. CASE i = done[d] + 1
      BY <2>5, <2>7, <3>2
    <3> QED BY <2>2, <3>1, <3>2
  <2>8. \/ d = Creator \/ mls'[d] = joined[d]
        \/ \E i \in 1..done'[d] : IsCommit(chat[i]) /\ chat[i].ref = mls'[d]
    <3>1. CASE Verdict(d) = "merge"
      <4>1. mls'[d] = row.ref
        BY <1>2, <1>4, <3>1
      <4> QED BY <1>3, <2>2, <3>1, <4>1
    <3>2. CASE Verdict(d) # "merge"
      BY <1>4, <2>1, <2>2, <3>2
    <3> QED BY <3>1, <3>2
  <2>9. 1 <= joined[d] /\ joined[d] <= mls'[d]
    BY <2>1, <2>2, <2>6
  <2> QED BY <1>1, <1>2, <2>4, <2>7, <2>8, <2>9 DEF Follows
<1> QED BY <1>5, <1>6, <1>7, <1>8, <1>9 DEF Orderly, ReadInOrder

(* A device that joins has read nothing yet.                                 *)
LEMMA AcceptOrderly ==
    ASSUME Inv, Bookkeeping, Orderly, NEW d \in Devices, accept_welcome(d) PROVE Orderly'
<1> DEFINE c == Head(mailbox[d])
<1>1. UNCHANGED <<commits, chat, outbox, done, rejected>>
  BY DEF accept_welcome
<1>2. /\ mls \in [Devices -> 0..Len(commits)] /\ joined \in [Devices -> 0..Len(commits)]
      /\ done[d] \in Nat /\ staged[d] \in 0..Len(chat) /\ done[d] <= staged[d]
      /\ Creator \in Devices /\ Creator' = Creator /\ mls[Creator] # 0
      /\ commits \in Seq(Commit) /\ mailbox[d] \in Seq(Nat)
  BY CreatorJoined DEF Inv, TypeOK, Creator, Orderly
<1>3. \/ mls' = mls /\ joined' = joined
      \/ mls[d] = 0 /\ mls' = [mls EXCEPT ![d] = c] /\ joined' = [joined EXCEPT ![d] = c]
  BY DEF accept_welcome
<1>4. c \in 1..Len(commits)
  <2>1. mailbox[d] # << >> /\ \A k \in DOMAIN mailbox[d] : mailbox[d][k] \in 1..Len(commits)
    BY DEF accept_welcome, Inv, ProgramPoints, ReferencesExist
  <2> QED BY <1>2, <2>1
<1> HIDE DEF c
<1>5. OneLine' /\ StoredInOrder'
  <2>1. mls'[Creator] = mls[Creator]
    BY <1>2, <1>3
  <2>2. OneLine'
    BY <1>1, <1>2, <2>1 DEF Orderly, OneLine
  <2>3. StoredInOrder'
    BY <1>1, <1>2 DEF Orderly, StoredInOrder
  <2> QED BY <2>2, <2>3
<1>6. QueuedInOrder'
  BY <1>1, SameQueue DEF Orderly
<1>7. ASSUME NEW q \in Devices PROVE Follows(q)'
  <2>1. CASE mls'[q] = mls[q] /\ joined'[q] = joined[q]
    BY <1>1, <2>1, FollowsKept DEF Orderly
  <2>2. CASE q = d /\ mls[d] = 0 /\ mls'[d] = c /\ joined'[d] = c
    <3>1. done[d] = 0 /\ rejected[d] = {}
      <4>1. staged[d] = 0 /\ rejected[d] \subseteq 1..done[d]
        BY <2>2 DEF Bookkeeping
      <4>2. done[d] = 0
        BY <1>2, <4>1
      <4>3. 1..done[d] = {}
        BY <4>2
      <4> QED BY <4>1, <4>2, <4>3
    <3>2. 1..done'[d] = {} /\ rejected'[d] = {}
      BY <1>1, <3>1
    <3> QED BY <1>4, <2>2, <3>2 DEF Follows
  <2> QED BY <1>2, <1>3, <2>1, <2>2
<1> QED BY <1>5, <1>6, <1>7 DEF Orderly, ReadInOrder

(* Only the creator invites, on top of its own last Commit.                  *)
LEMMA InviteOrderly ==
    ASSUME Inv, Bookkeeping, Orderly, revLog = << >>,
           NEW d \in Devices, NEW x \in Devices, Invite(d, x)
    PROVE  Orderly'
<1>1. UNCHANGED <<chat, joined, done, rejected>>
  BY DEF Invite, broker
<1>2. /\ mls \in [Devices -> 0..Len(commits)] /\ commits \in Seq(Commit) /\ Len(commits) \in Nat
      /\ Creator \in Devices /\ Creator' = Creator /\ mls[Creator] # 0 /\ mls[d] # 0
      /\ Len(commits) >= 1
  <2>1. mls \in [Devices -> 0..Len(commits)] /\ commits \in Seq(Commit) /\ Len(commits) >= 1
    BY DEF Inv, TypeOK, AuthorsAreMembers
  <2>2. mls[d] # 0
    BY DEF Invite, Inv, ProgramPoints, Points
  <2> QED BY <2>1, <2>2, CreatorJoined DEF Orderly, Creator
<1>3. StoredInOrder'
  BY <1>1, <1>2 DEF Orderly, StoredInOrder
<1>4. CASE UNCHANGED <<commits, mls, outbox>>
  <2>1. OneLine'
    BY <1>2, <1>4 DEF Orderly, OneLine
  <2>2. QueuedInOrder'
    BY <1>4, SameQueue DEF Orderly
  <2>3. \A q \in Devices : Follows(q)'
    BY <1>1, <1>4, FollowsKept DEF Orderly
  <2> QED BY <1>3, <2>1, <2>2, <2>3 DEF Orderly, ReadInOrder
<1>5. CASE ~UNCHANGED <<commits, mls, outbox>>
  <2> DEFINE leaves == AddLeaf(commits[mls[d]].leaves, x)
             row == HandshakeRow(Len(commits) + 1)
             rest == WelcomeRow(Len(commits) + 1, x)
             new == [parent |-> mls[d], author |-> d, leaves |-> leaves,
                     epoch |-> commits[mls[d]].epoch + 1]
  <2>1. LocalCommit(d, leaves, Revoked, Append(Append(outbox[d], row), rest))
        /\ coordinator(commits[mls[d]].leaves, pin[d], KnownRevoked(known[d])) = d
    <3>1. CASE MayInvite(d, x, Revoked)
      BY <3>1 DEF Invite
    <3>2. CASE ~MayInvite(d, x, Revoked)
      BY <1>5, <3>2 DEF Invite
    <3> QED BY <3>1, <3>2
  <2>2. d = Creator
    <3>1. pin[d] = Creator /\ pin[d] \in Members(commits[mls[d]].leaves)
      <4>1. mls[d] \in 1..Len(commits)
        BY <1>2
      <4> QED BY <1>2, <4>1, HeldEpoch DEF Inv, PinIsAuthor, Orderly, OneLine
    <3>2. KnownRevoked(known[d]) = {}
      BY NobodyRevoked
    <3> QED BY <2>1, <3>1, <3>2 DEF coordinator
  <2>3. mls[d] = Len(commits) /\ commits[mls[d]].epoch = Len(commits) - 1
    BY <1>2, <2>2 DEF Orderly, OneLine
  <2>4. /\ commits' = Append(commits, new)
        /\ mls' = [mls EXCEPT ![d] = Len(commits) + 1]
        /\ outbox' = [outbox EXCEPT ![d] = Append(Append(outbox[d], row), rest)]
    BY <2>1 DEF LocalCommit
  <2>5. new.parent = Len(commits) /\ new.author = Creator /\ new.epoch = Len(commits)
    BY <1>2, <2>2, <2>3
  <2> HIDE DEF new
  <2>6. /\ Len(commits') = Len(commits) + 1
        /\ \A k \in 1..Len(commits) : commits'[k] = commits[k]
        /\ commits'[Len(commits) + 1] = new
    BY <1>2, <2>4
  <2>7. OneLine'
    <3>1. ASSUME NEW k \in 1..Len(commits')
          PROVE  /\ commits'[k].author = Creator /\ commits'[k].parent = k - 1
                 /\ commits'[k].epoch = k - 1
      <4>1. CASE k \in 1..Len(commits)
        BY <2>6, <4>1 DEF Orderly, OneLine
      <4>2. CASE k = Len(commits) + 1
        BY <1>2, <2>5, <2>6, <4>2
      <4> QED BY <1>2, <2>6, <4>1, <4>2
    <3>2. mls'[Creator] = Len(commits')
      BY <1>2, <2>2, <2>4, <2>6
    <3> QED BY <1>2, <3>1, <3>2 DEF OneLine
  <2>8. QueuedInOrder'
    <3>1. /\ row \in Row /\ row.kind = "handshake" /\ row.ref = Len(commits) + 1
          /\ rest \in Row /\ rest.kind = "welcome"
      BY <1>2 DEF HandshakeRow, WelcomeRow, Row
    <3> HIDE DEF row, rest
    <3>2. outbox' = [outbox EXCEPT ![Creator] = Append(Append(outbox[Creator], row), rest)]
      BY <2>2, <2>4
    <3> QED BY <2>6, <3>1, <3>2, CommitQueue DEF Orderly
  <2>9. ASSUME NEW q \in Devices PROVE Follows(q)'
    <3>1. mls'[q] = mls[q] \/ (q = Creator /\ mls[q] # 0 /\ mls'[q] \in Nat /\ mls'[q] >= mls[q])
      BY <1>2, <2>2, <2>3, <2>4
    <3> QED BY <1>1, <3>1, FollowsKept DEF Orderly
  <2> QED BY <1>3, <2>7, <2>8, <2>9 DEF Orderly, ReadInOrder
<1> QED BY <1>4, <1>5

(* Steps that leave epochs, stream and positions alone.                      *)
LEMMA StillOrderly ==
    ASSUME Inv, Bookkeeping, Orderly, UNCHANGED <<commits, chat, mls, joined, done, rejected>>,
           QueuedInOrder'
    PROVE  Orderly'
<1>1. Creator' = Creator
  BY DEF Creator
<1>2. OneLine'
  BY <1>1 DEF Orderly, OneLine
<1>3. StoredInOrder'
  BY <1>1 DEF Orderly, StoredInOrder
<1>4. \A q \in Devices : Follows(q)'
  BY FollowsKept DEF Orderly
<1> QED BY <1>2, <1>3, <1>4 DEF Orderly, ReadInOrder

(* Every step keeps a group orderly while nobody is revoked.                 *)
LEMMA NextOrderly ==
    ASSUME Inv, WelcomeOrder, Bookkeeping, Orderly, revLog = << >>, [Next]_vars
    PROVE  Orderly'
<1>1. /\ outbox \in [Devices -> Seq(Row)] /\ Len(messages) \in Nat
  BY DEF Inv, TypeOK
<1>2. ASSUME UNCHANGED <<commits, chat, mls, joined, done, rejected, outbox>> PROVE Orderly'
  <2>1. QueuedInOrder'
    BY <1>2, SameQueue DEF Orderly
  <2> QED BY <1>2, <2>1, StillOrderly
<1>3. CASE UNCHANGED vars
  BY <1>2, <1>3 DEF vars, broker, store
<1>4. ASSUME NEW d \in Devices, Sync(d) \/ Encrypt(d) \/ Abort(d) PROVE Orderly'
  <2>1. CASE Audit(d)
    <3> DEFINE rows == block_revoked_outbox(d, outbox[d], Revoked)
    <3>1. UNCHANGED <<commits, chat, mls, joined, done, rejected>>
      BY <2>1 DEF Audit, broker
    <3>2. outbox' = outbox \/ outbox' = [outbox EXCEPT ![d] = rows]
      BY <2>1 DEF Audit
    <3>3. /\ DOMAIN rows = DOMAIN outbox[d]
          /\ \A i \in DOMAIN outbox[d] : rows[i].kind = outbox[d][i].kind /\ rows[i].ref = outbox[d][i].ref
      BY <1>1, BlockedRows
    <3> HIDE DEF rows
    <3>4. \A q \in Devices : /\ DOMAIN outbox'[q] = DOMAIN outbox[q]
                             /\ \A i \in DOMAIN outbox[q] : /\ outbox'[q][i].kind = outbox[q][i].kind
                                                            /\ outbox'[q][i].ref = outbox[q][i].ref
      BY <1>1, <3>2, <3>3
    <3>5. QueuedInOrder'
      BY <3>1, <3>4, SameQueue DEF Orderly
    <3> QED BY <3>1, <3>5, StillOrderly
  <2>2. CASE Publish(d)
    BY <2>2, PublishOrderly
  <2>3. CASE ProcessNext(d)
    BY <2>3, ProcessOrderly
  <2>4. CASE reconcile_revocations(d)
    <3>1. ~MustRemove(d)
      BY NobodyRevoked DEF MustRemove
    <3> QED BY <1>2, <2>4, <3>1 DEF reconcile_revocations, broker
  <2>5. CASE accept_welcome(d)
    BY <2>5, AcceptOrderly
  <2>6. CASE Encrypt(d)
    <3> DEFINE row == MessageRow(Len(messages) + 1)
    <3>1. UNCHANGED <<commits, chat, mls, joined, done, rejected>>
          /\ outbox' = [outbox EXCEPT ![d] = Append(outbox[d], row)]
      BY <2>6 DEF Encrypt, broker
    <3>2. row \in Row /\ row.kind # "handshake"
      BY <1>1 DEF MessageRow, Row
    <3> HIDE DEF row
    <3>3. QueuedInOrder'
      BY <3>1, <3>2, MessageQueue DEF Orderly
    <3> QED BY <3>1, <3>3, StillOrderly
  <2>7. CASE StageBacklog(d) \/ ProcessFails(d) \/ Finish(d) \/ Abort(d)
    BY <1>2, <2>7 DEF StageBacklog, ProcessFails, Finish, Abort, broker, store
  <2> QED BY <1>4, <2>1, <2>2, <2>3, <2>4, <2>5, <2>6, <2>7 DEF Sync
<1>5. ASSUME NEW d \in Devices, NEW x \in Devices, Invite(d, x) \/ JoinLookup(d, x) PROVE Orderly'
  <2>1. CASE Invite(d, x)
    BY <2>1, InviteOrderly
  <2>2. CASE JoinLookup(d, x)
    BY <1>2, <2>2 DEF JoinLookup, broker
  <2> QED BY <1>5, <2>1, <2>2
<1>6. CASE (\E x \in Revocable : ReadCutoff(x)) \/ Service \/ ServiceStops
  BY <1>2, <1>6 DEF Service, ReadCutoff, AppendRevocation, Enforce, ServiceStops, store
<1> QED BY <1>3, <1>4, <1>5, <1>6 DEF Next

(* Who has joined stays joined, and only processed deliveries are judged.    *)
LEMMA NextBookkeeping == Inv /\ Bookkeeping /\ [Next]_vars => Bookkeeping'
<1> SUFFICES ASSUME Inv, Bookkeeping, [Next]_vars PROVE Bookkeeping'
  OBVIOUS
<1>1. /\ done \in [Devices -> Nat] /\ rejected \in [Devices -> SUBSET Nat]
      /\ mls \in [Devices -> 0..Len(commits)] /\ staged \in [Devices -> 0..Len(chat)]
      /\ Len(commits) \in Nat
  <2>1. /\ done \in [Devices -> Nat] /\ rejected \in [Devices -> SUBSET Nat]
        /\ mls \in [Devices -> 0..Len(commits)] /\ staged \in [Devices -> 0..Len(chat)]
        /\ commits \in Seq(Commit)
    BY DEF Inv, TypeOK
  <2> QED BY <2>1
<1>2. ASSUME UNCHANGED <<staged, done, rejected>>, \A q \in Devices : mls'[q] = 0 => mls[q] = 0
      PROVE  Bookkeeping'
  BY <1>2 DEF Bookkeeping
<1>3. CASE UNCHANGED vars
  BY <1>2, <1>3 DEF vars, store
<1>4. ASSUME NEW d \in Devices, Sync(d) \/ Encrypt(d) \/ Abort(d) PROVE Bookkeeping'
  <2>1. CASE StageBacklog(d)
    <3>1. UNCHANGED <<mls, done, rejected>> /\ \A q \in Devices \ {d} : staged'[q] = staged[q]
      BY <1>1, <2>1 DEF StageBacklog
    <3>2. mls[d] # 0
      BY <2>1 DEF StageBacklog, Inv, ProgramPoints, Points
    <3> QED BY <3>1, <3>2 DEF Bookkeeping
  <2>2. CASE ProcessNext(d)
    <3>1. /\ staged' = staged /\ mls[d] # 0 /\ done' = [done EXCEPT ![d] = done[d] + 1]
          /\ rejected' = rejected \/ rejected' = [rejected EXCEPT ![d] = rejected[d] \cup {done[d] + 1}]
          /\ \A q \in Devices \ {d} : mls'[q] = mls[q]
      BY <1>1, <2>2 DEF ProcessNext, MergeCommit
    <3>2. mls'[d] # 0
      <4>1. CASE Verdict(d) # "merge"
        BY <2>2, <3>1, <4>1 DEF ProcessNext
      <4>2. CASE Verdict(d) = "merge"
        <5>1. chat[done[d] + 1].ref \in 1..Len(commits)
          BY <2>2, <4>2, VerdictMerge DEF ProcessNext
        <5>2. mls'[d] = chat[done[d] + 1].ref
          BY <1>1, <2>2, <4>2 DEF ProcessNext, MergeCommit
        <5> QED BY <1>1, <5>1, <5>2
      <4> QED BY <4>1, <4>2
    <3>3. rejected'[d] \subseteq 1..done'[d]
      <4>1. rejected[d] \subseteq 1..done[d] /\ done[d] \in Nat /\ done'[d] = done[d] + 1
        BY <1>1, <3>1 DEF Bookkeeping
      <4>2. 1..done[d] \subseteq 1..done'[d] /\ done[d] + 1 \in 1..done'[d]
        BY <4>1
      <4> QED BY <1>1, <3>1, <4>1, <4>2
    <3>4. \A q \in Devices \ {d} : rejected'[q] = rejected[q] /\ done'[q] = done[q]
      BY <1>1, <3>1
    <3> QED BY <3>1, <3>2, <3>3, <3>4 DEF Bookkeeping
  <2>3. CASE reconcile_revocations(d)
    <3>1. UNCHANGED <<staged, done, rejected>>
          /\ (mls' = mls \/ mls' = [mls EXCEPT ![d] = Len(commits) + 1])
      BY <2>3 DEF reconcile_revocations, LocalCommit
    <3> QED BY <1>1, <1>2, <3>1
  <2>4. CASE accept_welcome(d)
    <3>1. UNCHANGED <<staged, done, rejected>>
          /\ (mls' = mls \/ (mls[d] = 0 /\ \A q \in Devices \ {d} : mls'[q] = mls[q]))
      BY <1>1, <2>4 DEF accept_welcome
    <3> QED BY <1>2, <3>1
  <2>5. CASE Audit(d) \/ Publish(d) \/ ProcessFails(d) \/ Finish(d) \/ Encrypt(d) \/ Abort(d)
    BY <1>2, <2>5 DEF Audit, Publish, ProcessFails, Finish, Encrypt, Abort, store
  <2> QED BY <1>4, <2>1, <2>2, <2>3, <2>4, <2>5 DEF Sync
<1>5. ASSUME NEW d \in Devices, NEW x \in Devices, Invite(d, x) \/ JoinLookup(d, x) PROVE Bookkeeping'
  <2>1. UNCHANGED <<staged, done, rejected>>
        /\ (mls' = mls \/ mls' = [mls EXCEPT ![d] = Len(commits) + 1])
    BY <1>5 DEF Invite, JoinLookup, LocalCommit
  <2> QED BY <1>1, <1>2, <2>1
<1>6. CASE (\E x \in Revocable : ReadCutoff(x)) \/ Service \/ ServiceStops
  BY <1>2, <1>6 DEF Service, ReadCutoff, AppendRevocation, Enforce, ServiceStops, store
<1> QED BY <1>3, <1>4, <1>5, <1>6 DEF Next

(* The journal only grows.                                                   *)
LEMMA JournalGrows == ASSUME Inv, [Next]_vars, revLog' = << >> PROVE revLog = << >>
<1>1. revLog \in Seq(Revocation)
  BY DEF Inv, TypeOK
<1>2. revLog' = revLog \/ revLog' = Append(revLog, revoking)
  BY DEF Next, Sync, Service, Audit, Publish, StageBacklog, ProcessNext, ProcessFails,
     reconcile_revocations, Finish, accept_welcome, Encrypt, Abort, Invite, JoinLookup,
     ReadCutoff, AppendRevocation, Enforce, ServiceStops, broker, vars
<1>3. Append(revLog, revoking) # << >>
  <2>1. Len(Append(revLog, revoking)) = Len(revLog) + 1 /\ Len(revLog) \in Nat
    BY <1>1
  <2> QED BY <2>1
<1> QED BY <1>2, <1>3

(* A new group is orderly.                                                   *)
LEMMA InitUndisturbed == Init => Undisturbed
<1> SUFFICES ASSUME Init PROVE Undisturbed
  OBVIOUS
<1>1. /\ chat = << >> /\ DOMAIN chat = {}
      /\ \A d \in Devices : /\ outbox[d] = << >> /\ DOMAIN outbox[d] = {}
                            /\ staged[d] = 0 /\ done[d] = 0 /\ rejected[d] = {}
                            /\ mls[d] \in {0, 1} /\ joined[d] = mls[d]
  BY DEF Init
<1>2. Creator \in Devices /\ mls[Creator] = 1
  BY RosterAssumption DEF Creator, Init, Founders
<1>3. Len(commits) = 1 /\ commits[1].author = Creator /\ commits[1].parent = 0
      /\ commits[1].epoch = 0
  <2>1. commits = <<FirstState>>
    BY DEF Init
  <2>2. FirstState.author = Creator /\ FirstState.parent = 0 /\ FirstState.epoch = 0
    BY DEF FirstState, Creator
  <2> QED BY <2>1, <2>2
<1>4. Bookkeeping
  BY <1>1 DEF Bookkeeping
<1>5. OneLine
  BY <1>2, <1>3 DEF OneLine
<1>6. QueuedInOrder /\ StoredInOrder
  BY <1>1, <1>2, <1>3 DEF QueuedInOrder, StoredInOrder
<1>7. ReadInOrder
  BY <1>1 DEF ReadInOrder, Follows
<1> QED BY <1>4, <1>5, <1>6, <1>7 DEF Undisturbed, Orderly

(* It stays so until somebody is revoked.                                    *)
LEMMA NextUndisturbed == Inv /\ WelcomeOrder /\ Undisturbed /\ [Next]_vars => Undisturbed'
<1> SUFFICES ASSUME Inv, WelcomeOrder, Undisturbed, [Next]_vars PROVE Undisturbed'
  OBVIOUS
<1>1. Bookkeeping'
  BY NextBookkeeping DEF Undisturbed
<1>2. revLog' = << >> => Orderly'
  BY JournalGrows, NextOrderly DEF Undisturbed
<1> QED BY <1>1, <1>2 DEF Undisturbed

(* Without a revocation no device quarantines a Commit, however late it      *)
(* joins, whatever acknowledgments are lost, deliveries repeated and          *)
(* processes restarted: the creator's Commits reach CHAT in the order of      *)
(* their epochs, and process_history recognises each one it already has.      *)
THEOREM OnlyRevocationsQuarantine == Spec => []QuarantineNeedsRevocation
<1>1. Undisturbed => QuarantineNeedsRevocation
  BY DEF Undisturbed, Orderly, ReadInOrder, Follows, IsCommit, QuarantineNeedsRevocation
<1> QED BY <1>1, InitInv, InitOrder, InitUndisturbed, NextInv, NextOrder, NextUndisturbed, PTL
        DEF Spec

-----------------------------------------------------------------------------
(* One line of epochs.                                                      *)

Author(c) == commits[c].author
Parent(c) == commits[c].parent

\* Every epoch comes after the one it was made from.
Parents == \A c \in 1..Len(commits) : Parent(c) \in 0..(c - 1)

(* The ancestors of an epoch are itself and the ancestors of its parent.     *)
LEMMA AncestorsStep ==
    ASSUME Inv, Parents
    PROVE  /\ Ancestors(0) = {}
           /\ \A s \in 1..Len(commits) : Ancestors(s) = {s} \cup Ancestors(Parent(s))
<1> DEFINE body(f, n) == IF n = 0 THEN {} ELSE {n} \cup f[commits[n].parent]
           last == Len(commits)
           bad == {m \in Nat : m <= last /\ ~(\E f : f = [n \in 0..m |-> body(f, n)])}
<1>1. last \in Nat /\ \A n \in 1..last : commits[n].parent \in 0..(n - 1)
  BY DEF Inv, TypeOK, Parents, Parent
<1>2. bad = {}
  <2> SUFFICES ASSUME bad # {} PROVE FALSE
    OBVIOUS
  <2>1. PICK m \in bad : \A k \in bad : m <= k
    <3>1. bad \in SUBSET Nat
      OBVIOUS
    <3> HIDE DEF bad
    <3> QED BY <3>1, LeastElement
  <2>2. m \in Nat /\ m <= last
    OBVIOUS
  <2>3. CASE m = 0
    <3> DEFINE g == [n \in 0..0 |-> {}]
    <3>1. g = [n \in 0..0 |-> body(g, n)]
      OBVIOUS
    <3> QED BY <2>3, <3>1
  <2>4. CASE m # 0
    <3>1. m - 1 \in Nat /\ m - 1 <= last /\ m - 1 < m
      BY <1>1, <2>2, <2>4
    <3>2. m - 1 \notin bad
      <4> HIDE DEF bad
      <4> QED BY <2>1, <2>2, <3>1
    <3>3. PICK f : f = [n \in 0..(m - 1) |-> body(f, n)]
      BY <3>1, <3>2
    <3> DEFINE g == [n \in 0..m |-> body(f, n)]
    <3>4. \A p \in 0..(m - 1) : g[p] = f[p]
      <4>1. \A p \in 0..(m - 1) : f[p] = body(f, p)
        <5> HIDE DEF body
        <5> QED BY <3>3
      <4>2. \A p \in 0..(m - 1) : p \in 0..m
        BY <2>2
      <4> HIDE DEF body
      <4> QED BY <4>1, <4>2
    <3>5. \A n \in 0..m : body(g, n) = body(f, n)
      <4>1. \A n \in 0..m : n # 0 => commits[n].parent \in 0..(m - 1)
        BY <1>1, <2>2
      <4> HIDE DEF g
      <4> QED BY <3>4, <4>1
    <3>6. g = [n \in 0..m |-> body(g, n)]
      <4> HIDE DEF body
      <4>1. g = [n \in 0..m |-> body(f, n)]
        OBVIOUS
      <4> HIDE DEF g
      <4> QED BY <3>5, <4>1
    <3> HIDE DEF g, body
    <3>7. \E h : h = [n \in 0..m |-> body(h, n)]
      BY <3>6
    <3> QED BY <2>1, <3>7 DEF bad
  <2> QED BY <2>3, <2>4
<1> DEFINE anc == CHOOSE f : f = [n \in 0..last |-> body(f, n)]
<1>3. anc = [n \in 0..last |-> body(anc, n)]
  <2>1. last \notin bad
    BY <1>2
  <2>2. \E f : f = [n \in 0..last |-> body(f, n)]
    BY <1>1, <2>1
  <2> HIDE DEF body
  <2> QED BY <2>2
<1>4. \A s : Ancestors(s) = anc[s]
  BY DEF Ancestors
<1>5. PICK f : f = anc
  OBVIOUS
<1> HIDE DEF anc
<1>6. \A n \in 0..last : f[n] = body(f, n)
  <2> HIDE DEF body
  <2>1. f = [n \in 0..last |-> body(f, n)]
    BY <1>3, <1>5
  <2> QED BY <2>1
<1>7. f[0] = {} /\ \A s \in 1..last : f[s] = {s} \cup f[commits[s].parent]
  <2>1. 0 \in 0..last /\ \A s \in 1..last : s \in 0..last /\ s # 0
    BY <1>1
  <2> HIDE DEF last
  <2> QED BY <1>6, <2>1
<1> QED BY <1>4, <1>5, <1>7 DEF Parent

(* An epoch is its own ancestor, and its ancestors' ancestors are its own.   *)
LEMMA AncestorsReach ==
    ASSUME Inv, Parents, NEW e \in 1..Len(commits)
    PROVE  /\ e \in Ancestors(e)
           /\ Ancestors(e) \subseteq 1..e
           /\ \A c \in Ancestors(e) : Ancestors(c) \subseteq Ancestors(e)
<1> DEFINE last == Len(commits)
           ok(k) == /\ Ancestors(k) \subseteq 1..k
                    /\ \A c \in Ancestors(k) : Ancestors(c) \subseteq Ancestors(k)
           bad == {k \in Nat : k \in 1..last /\ ~ok(k)}
<1>1. /\ Ancestors(0) = {}
      /\ \A s \in 1..last : Ancestors(s) = {s} \cup Ancestors(Parent(s))
  BY AncestorsStep
<1>2. last \in Nat
  BY DEF Inv, TypeOK
<1>3. bad = {}
  <2> SUFFICES ASSUME bad # {} PROVE FALSE
    OBVIOUS
  <2>1. PICK m \in bad : \A k \in bad : m <= k
    <3>1. bad \in SUBSET Nat
      OBVIOUS
    <3> HIDE DEF bad
    <3> QED BY <3>1, LeastElement
  <2>2. m \in 1..last /\ m \in Nat /\ ~ok(m)
    OBVIOUS
  <2> DEFINE p == Parent(m)
  <2>3. p \in 0..(m - 1) /\ Ancestors(m) = {m} \cup Ancestors(p)
    BY <1>1, <2>2 DEF Parents
  <2>4. Ancestors(p) \subseteq 1..p /\ \A c \in Ancestors(p) : Ancestors(c) \subseteq Ancestors(p)
    <3>1. CASE p = 0
      BY <1>1, <3>1
    <3>2. CASE p # 0
      <4>1. p \in Nat /\ p \in 1..last /\ ~(m <= p)
        BY <1>2, <2>2, <2>3, <3>2
      <4>2. p \notin bad
        <5> HIDE DEF bad, p
        <5> QED BY <2>1, <4>1
      <4> QED BY <4>1, <4>2
    <3> QED BY <3>1, <3>2
  <2>5. p \in Nat /\ 1..p \subseteq 1..m /\ m \in 1..m
    BY <2>2, <2>3
  <2>6. ok(m)
    <3> HIDE DEF p
    <3> QED BY <2>3, <2>4, <2>5
  <2> QED BY <2>2, <2>6
<1>4. ok(e)
  <2>1. e \in Nat /\ e \in 1..last
    BY <1>2
  <2> HIDE DEF ok
  <2> QED BY <1>3, <2>1
<1>5. e \in Ancestors(e)
  BY <1>1
<1> QED BY <1>4, <1>5

\* An epoch is its author's first, or was made from its author's previous one.
First(c) == \A b \in 1..(c - 1) : Author(b) # Author(c)

Continues(c) ==
    /\ Parent(c) \in 1..(c - 1)
    /\ Author(Parent(c)) = Author(c)
    /\ \A b \in (Parent(c) + 1)..(c - 1) : Author(b) # Author(c)

(* The epochs of one author form a line, if it always goes on from its last. *)
LEMMA AuthorsLine ==
    ASSUME Inv, Parents, NEW a,
           \A c \in 1..Len(commits) : Author(c) = a => First(c) \/ Continues(c),
           NEW c \in 1..Len(commits), NEW e \in 1..Len(commits),
           Author(c) = a, Author(e) = a, c <= e
    PROVE  c \in Ancestors(e)
<1> DEFINE last == Len(commits)
           ok(k) == \A z \in 1..k : Author(z) = a => z \in Ancestors(k)
           bad == {k \in Nat : k \in 1..last /\ Author(k) = a /\ ~ok(k)}
<1>1. \A s \in 1..last : Ancestors(s) = {s} \cup Ancestors(Parent(s))
  BY AncestorsStep
<1>2. last \in Nat
  BY DEF Inv, TypeOK
<1>3. bad = {}
  <2> SUFFICES ASSUME bad # {} PROVE FALSE
    OBVIOUS
  <2>1. PICK m \in bad : \A k \in bad : m <= k
    <3>1. bad \in SUBSET Nat
      OBVIOUS
    <3> HIDE DEF bad
    <3> QED BY <3>1, LeastElement
  <2>2. m \in 1..last /\ m \in Nat /\ Author(m) = a /\ ~ok(m)
    OBVIOUS
  <2>3. PICK z \in 1..m : Author(z) = a /\ z \notin Ancestors(m)
    BY <2>2
  <2>4. z # m /\ z \in 1..(m - 1)
    <3>1. z # m
      BY <1>1, <2>2, <2>3
    <3> QED BY <2>2, <3>1
  <2>5. Continues(m)
    BY <2>2, <2>3, <2>4 DEF First
  <2> DEFINE p == Parent(m)
  <2>6. p \in 1..(m - 1) /\ Author(p) = a /\ \A b \in (p + 1)..(m - 1) : Author(b) # a
    BY <2>2, <2>5 DEF Continues
  <2> HIDE DEF p
  <2>7. z \in 1..p
    BY <2>2, <2>3, <2>4, <2>6
  <2>8. p \in Nat /\ p \in 1..last /\ ~(m <= p)
    BY <1>2, <2>2, <2>6
  <2>9. p \notin bad
    <3> HIDE DEF bad
    <3> QED BY <2>1, <2>8
  <2>10. z \in Ancestors(p)
    BY <2>3, <2>6, <2>7, <2>8, <2>9
  <2> QED BY <1>1, <2>2, <2>3, <2>10 DEF p
<1>4. ok(e)
  <2>1. e \in Nat /\ e \in 1..last
    BY <1>2
  <2> HIDE DEF ok
  <2> QED BY <1>3, <2>1
<1>5. c \in 1..e
  BY <1>2
<1> QED BY <1>4, <1>5

\* Commits are queued and published by their authors only.
Signed ==
    /\ \A d \in Devices : \A i \in DOMAIN outbox[d] :
         IsCommit(outbox[d][i]) => Author(outbox[d][i].ref) = d
    /\ \A n \in DOMAIN chat : IsCommit(chat[n]) => Author(chat[n].ref) = chat[n].author

\* The cutoff of the first revocation.
Cut == revLog[1].cutoff

\* The creator's epochs are the oldest ones, each on top of the one before.
CreatorLine ==
    /\ Author(1) = Creator
    /\ \A c \in 1..Len(commits) : Author(c) = Creator =>
         /\ Parent(c) = c - 1 /\ commits[c].epoch = c - 1
         /\ \A b \in 1..c : Author(b) = Creator

\* No Commit up to the cutoff is newer than the creator's epoch r.
Covers(r) == \A n \in 1..Cut : IsCommit(chat[n]) => chat[n].ref <= r

\* A successor takes over from an epoch of the creator that covers the cutoff, and is
\* that epoch's lowest leaf without the creator.
Succeeds(c) ==
    /\ Parent(c) \in 1..(c - 1)
    /\ Author(Parent(c)) = Creator
    /\ First(c)
    /\ Author(c) = LowestLive(commits[Parent(c)].leaves, {Creator})
    /\ Covers(Parent(c))

\* The epochs of others are without the creator; they continue or succeed.
Heirs ==
    \A c \in 1..Len(commits) : Author(c) # Creator =>
        Creator \notin MembersOf(c) /\ (Continues(c) \/ Succeeds(c))

\* An author holds its newest epoch; only the creator may have been moved to one
\* without it.
Newest ==
    \A c \in 1..Len(commits) : \A a \in Devices : Author(c) = a =>
        /\ mls[a] # 0
        /\ \/ Author(mls[a]) = a /\ c <= mls[a]
           \/ a = Creator /\ Creator \notin MembersOf(mls[a])

\* Up to the cutoff CHAT is as the creator left it.
StoredBefore ==
    /\ Cut <= Len(chat)
    /\ \A n \in 1..Cut : IsCommit(chat[n]) =>
         /\ chat[n].author = Creator
         /\ chat[n].ref >= 2
         /\ \A c \in 2..(chat[n].ref - 1) : \E m \in 1..(n - 1) :
               IsCommit(chat[m]) /\ chat[m].ref = c

\* A device in an epoch of the creator has the newest it has read up to the cutoff.
Reads(d) ==
    mls[d] # 0 /\ Author(mls[d]) = Creator =>
        /\ 1 <= joined[d] /\ joined[d] <= mls[d]
        /\ \A i \in 1..done[d] : i <= Cut /\ IsCommit(chat[i]) => chat[i].ref <= mls[d]

\* The group after the revocation of its creator.
Succession ==
    CreatorLine /\ Heirs /\ Newest /\ StoredBefore /\ \A d \in Devices : Reads(d)

Lineage ==
    /\ Signed
    /\ Creator \notin Revoked => OneLine
    /\ Creator \in Revoked /\ Len(revLog) = 1 => Succession

(* The only entry of the journal.                                            *)
LEMMA OnlyCreator ==
    ASSUME Inv, Creator \in Revoked, Len(revLog) = 1
    PROVE  /\ revLog[1].device = Creator /\ Revoked = {Creator} /\ Cutoff(Creator) = Cut
           /\ Cut \in Nat
           /\ \A d \in Devices : /\ known[d] \in {0, 1}
                                 /\ known[d] = 0 => KnownRevoked(known[d]) = {}
                                 /\ known[d] = 1 => KnownRevoked(known[d]) = {Creator}
<1>1. revLog \in Seq(Revocation) /\ \A d \in Devices : known[d] \in 0..Len(revLog)
  BY DEF Inv, TypeOK
<1>2. DOMAIN revLog = {1} /\ revLog[1] \in Revocation
  BY <1>1
<1>3. Revoked = {revLog[1].device}
  BY <1>2 DEF Revoked
<1>4. revLog[1].device = Creator
  BY <1>3
<1>5. Cutoff(Creator) = Cut
  <2>1. (CHOOSE i \in DOMAIN revLog : revLog[i].device = Creator) = 1
    BY <1>2, <1>4
  <2> QED BY <2>1 DEF Cutoff, Cut
<1>6. \A d \in Devices : known[d] \in {0, 1}
  BY <1>1
<1>7. KnownRevoked(0) = {} /\ KnownRevoked(1) = {Creator}
  <2>1. 1..0 = {} /\ 1..1 = {1}
    OBVIOUS
  <2> QED BY <1>4, <2>1 DEF KnownRevoked
<1> QED BY <1>2, <1>3, <1>4, <1>5, <1>6, <1>7 DEF Cut, Revocation

(* Both kinds of group have parents before their children.                   *)
LEMMA LineParents ==
    ASSUME Inv, OneLine \/ Succession
    PROVE  /\ Parents
           /\ \A c \in 1..Len(commits) : Author(c) = Creator => First(c) \/ Continues(c)
<1>0. Len(commits) \in Nat
  BY DEF Inv, TypeOK
<1>1. CASE OneLine
  <2>1. \A c \in 1..Len(commits) : Author(c) = Creator /\ Parent(c) = c - 1
    BY <1>1 DEF OneLine, Author, Parent
  <2>2. ASSUME NEW c \in 1..Len(commits) PROVE Parent(c) \in 0..(c - 1) /\ (First(c) \/ Continues(c))
    <3>1. c \in Nat /\ c - 1 \in 0..(c - 1)
      OBVIOUS
    <3>2. CASE c = 1
      BY <2>1, <3>1, <3>2 DEF First
    <3>3. CASE c # 1
      <4>1. c - 1 \in 1..(c - 1) /\ c - 1 \in 1..Len(commits) /\ ((c - 1) + 1)..(c - 1) = {}
        BY <1>0, <3>1, <3>3
      <4> QED BY <2>1, <3>1, <4>1 DEF Continues
    <3> QED BY <3>2, <3>3
  <2> QED BY <2>2 DEF Parents
<1>2. CASE Succession
  <2>1. ASSUME NEW c \in 1..Len(commits), Author(c) = Creator
        PROVE  Parent(c) \in 0..(c - 1) /\ (First(c) \/ Continues(c))
    <3>1. c \in Nat /\ c - 1 \in 0..(c - 1) /\ Parent(c) = c - 1
          /\ \A b \in 1..c : Author(b) = Creator
      BY <1>2, <2>1 DEF Succession, CreatorLine
    <3>2. CASE c = 1
      BY <3>1, <3>2 DEF First
    <3>3. CASE c # 1
      <4>1. c - 1 \in 1..(c - 1) /\ c - 1 \in 1..c /\ ((c - 1) + 1)..(c - 1) = {}
        BY <1>0, <3>1, <3>3
      <4> QED BY <2>1, <3>1, <4>1 DEF Continues
    <3> QED BY <3>2, <3>3
  <2>2. ASSUME NEW c \in 1..Len(commits), Author(c) # Creator PROVE Parent(c) \in 0..(c - 1)
    <3>1. Parent(c) \in 1..(c - 1)
      BY <1>2, <2>2 DEF Succession, Heirs, Continues, Succeeds
    <3> QED BY <3>1
  <2> QED BY <2>1, <2>2 DEF Parents
<1> QED BY <1>1, <1>2

(* Where a successor's line begins.                                          *)
LEMMA Rooted ==
    ASSUME Inv, Succession, NEW c \in 1..Len(commits), Author(c) # Creator
    PROVE  \E r \in 1..Len(commits) :
              /\ Author(r) = Creator /\ r \in Ancestors(c)
              /\ Author(c) = LowestLive(commits[r].leaves, {Creator})
              /\ Covers(r)
<1> DEFINE mine == {k \in Nat : k \in 1..Len(commits) /\ Author(k) = Author(c)}
<1>1. Parents /\ Len(commits) \in Nat
  BY LineParents DEF Inv, TypeOK
<1>2. \A k \in 1..Len(commits) : Author(k) = Author(c) => First(k) \/ Continues(k)
  BY DEF Succession, Heirs, Succeeds
<1>3. PICK f \in mine : \A k \in mine : f <= k
  <2>1. mine \in SUBSET Nat /\ c \in mine
    BY <1>1
  <2> HIDE DEF mine
  <2> QED BY <2>1, LeastElement
<1>4. f \in 1..Len(commits) /\ Author(f) = Author(c) /\ f <= c
  <2>1. c \in mine
    BY <1>1
  <2> QED BY <1>3, <2>1
<1>5. f \in Ancestors(c)
  BY <1>1, <1>2, <1>4, AuthorsLine
<1>6. Succeeds(f)
  <2>1. ~Continues(f)
    <3> SUFFICES ASSUME Continues(f) PROVE FALSE
      OBVIOUS
    <3> DEFINE p == Parent(f)
    <3>1. p \in 1..(f - 1) /\ Author(p) = Author(c)
      BY <1>4 DEF Continues
    <3> HIDE DEF p
    <3>2. p \in mine /\ ~(f <= p)
      BY <1>1, <1>4, <3>1
    <3> HIDE DEF mine
    <3> QED BY <1>3, <3>2
  <2> QED BY <1>4, <2>1 DEF Succession, Heirs
<1> DEFINE r == Parent(f)
<1>7. r \in 1..(f - 1) /\ r \in 1..Len(commits)
  BY <1>1, <1>4, <1>6 DEF Succeeds
<1>8. r \in Ancestors(c)
  <2>1. r \in Ancestors(f)
    <3>1. Ancestors(f) = {f} \cup Ancestors(r) /\ r \in Ancestors(r)
      BY <1>1, <1>4, <1>7, AncestorsStep, AncestorsReach
    <3> QED BY <3>1
  <2> QED BY <1>1, <1>5, <2>1, AncestorsReach
<1> QED BY <1>4, <1>6, <1>7, <1>8 DEF Succeeds

(* An epoch of the creator that is not late is in CHAT up to the cutoff.      *)
LEMMA NotLate ==
    ASSUME Inv, Succession, Creator \in Revoked, Len(revLog) = 1,
           NEW r \in 1..Len(commits), Author(r) = Creator, ~Late(r)
    PROVE  \A s \in 1..Len(commits) : Covers(s) => r <= s
<1> SUFFICES ASSUME NEW s \in 1..Len(commits), Covers(s) PROVE r <= s
  OBVIOUS
<1>1. r \in Nat /\ s \in Nat /\ s >= 1
  OBVIOUS
<1>2. CASE r = 1
  BY <1>1, <1>2
<1>3. CASE r # 1
  <2>1. PICK n \in DOMAIN chat : chat[n].kind = "handshake" /\ chat[n].ref = r /\ ~(n > Cut)
    BY <1>3, OnlyCreator DEF Late, Author
  <2>2. chat \in Seq(Delivery) /\ Cut \in Nat
    BY OnlyCreator DEF Inv, TypeOK
  <2>3. n \in 1..Cut
    BY <2>1, <2>2
  <2> QED BY <2>1, <2>3 DEF Covers, IsCommit
<1> QED BY <1>2, <1>3

(* Two epochs of a group whose line holds nothing late are on one line.       *)
LEMMA OneSuccession ==
    ASSUME Inv, Succession, Creator \in Revoked, Len(revLog) = 1,
           NEW x \in 1..Len(commits), NEW y \in 1..Len(commits),
           \A c \in Ancestors(x) \cup Ancestors(y) : ~Late(c)
    PROVE  x \in Ancestors(y) \/ y \in Ancestors(x)
<1>1. Parents /\ Len(commits) \in Nat /\ x \in Nat /\ y \in Nat
  BY LineParents DEF Inv, TypeOK
<1>2. \A a : \A k \in 1..Len(commits) : Author(k) = a => First(k) \/ Continues(k)
  BY LineParents DEF Succession, Heirs, Succeeds
<1>3. ASSUME Author(x) = Author(y) PROVE x \in Ancestors(y) \/ y \in Ancestors(x)
  <2>1. x <= y \/ y <= x
    BY <1>1
  <2> QED BY <1>1, <1>2, <1>3, <2>1, AuthorsLine
<1>4. x \in Ancestors(x) /\ y \in Ancestors(y)
  BY <1>1, AncestorsReach
<1>5. ASSUME NEW u \in 1..Len(commits), NEW v \in 1..Len(commits),
             Author(u) = Creator, Author(v) # Creator, ~Late(u)
      PROVE  u \in Ancestors(v)
  <2>1. PICK r \in 1..Len(commits) : Author(r) = Creator /\ r \in Ancestors(v) /\ Covers(r)
    BY <1>5, Rooted
  <2>2. u <= r
    BY <1>5, <2>1, NotLate
  <2>3. u \in Ancestors(r)
    BY <1>1, <1>2, <1>5, <2>1, <2>2, AuthorsLine
  <2> QED BY <1>1, <2>1, <2>3, AncestorsReach
<1>6. CASE Author(x) # Creator /\ Author(y) # Creator
  <2>1. PICK r \in 1..Len(commits) :
           /\ Author(r) = Creator /\ r \in Ancestors(x) /\ Covers(r)
           /\ Author(x) = LowestLive(commits[r].leaves, {Creator})
    BY <1>6, Rooted
  <2>2. PICK s \in 1..Len(commits) :
           /\ Author(s) = Creator /\ s \in Ancestors(y) /\ Covers(s)
           /\ Author(y) = LowestLive(commits[s].leaves, {Creator})
    BY <1>6, Rooted
  <2>3. r <= s /\ s <= r
    BY <2>1, <2>2, NotLate
  <2>4. r = s
    BY <1>1, <2>3
  <2> QED BY <1>3, <2>1, <2>2, <2>4
<1>7. CASE Author(x) = Creator /\ Author(y) # Creator
  BY <1>4, <1>5, <1>7
<1>8. CASE Author(x) # Creator /\ Author(y) = Creator
  BY <1>4, <1>5, <1>8
<1> QED BY <1>3, <1>6, <1>7, <1>8

(* The invariant says that survivors are on one line.                        *)
LEMMA LineageSurvives == Inv /\ Lineage => SurvivorLineage
<1> SUFFICES ASSUME Inv, Lineage, Creator \notin Revoked \/ Len(revLog) <= 1 PROVE SurvivorLineage
  BY DEF SurvivorLineage, Creator
<1> SUFFICES ASSUME NEW d \in Devices \ Revoked, NEW e \in Devices \ Revoked,
                    mls[d] # 0, mls[e] # 0,
                    \A c \in Ancestors(mls[d]) \cup Ancestors(mls[e]) : ~Late(c)
             PROVE  mls[d] \in Ancestors(mls[e]) \/ mls[e] \in Ancestors(mls[d])
  BY Zenon DEF SurvivorLineage
<1>1. /\ mls[d] \in 1..Len(commits) /\ mls[e] \in 1..Len(commits)
      /\ mls[d] \in Nat /\ mls[e] \in Nat
  <2>1. commits \in Seq(Commit)
    BY DEF Inv, TypeOK
  <2>2. mls \in [Devices -> 0..Len(commits)] /\ d \in Devices /\ e \in Devices
    BY DEF Inv, TypeOK
  <2>3. Len(commits) \in Nat /\ mls[d] \in 0..Len(commits) /\ mls[e] \in 0..Len(commits)
    BY <2>1, <2>2
  <2> QED BY <2>3
<1>2. CASE Creator \notin Revoked
  <2>1. OneLine
    BY <1>2 DEF Lineage
  <2>2. /\ Parents
        /\ \A c \in 1..Len(commits) : Author(c) = Creator => First(c) \/ Continues(c)
        /\ Author(mls[d]) = Creator /\ Author(mls[e]) = Creator
    BY <1>1, <2>1, LineParents DEF OneLine, Author
  <2>3. mls[d] <= mls[e] \/ mls[e] <= mls[d]
    BY <1>1
  <2>4. CASE mls[d] <= mls[e]
    BY <1>1, <2>2, <2>4, AuthorsLine
  <2>5. CASE mls[e] <= mls[d]
    BY <1>1, <2>2, <2>5, AuthorsLine
  <2> QED BY <2>3, <2>4, <2>5
<1>3. CASE Creator \in Revoked
  <2>1. Len(revLog) = 1
    <3>1. revLog \in Seq(Revocation) /\ DOMAIN revLog # {}
      BY <1>3 DEF Inv, TypeOK, Revoked
    <3>2. Len(revLog) \in Nat /\ Len(revLog) # 0
      BY <3>1
    <3>3. Len(revLog) <= 1
      BY <1>3
    <3>4. \A n \in Nat : n # 0 /\ n <= 1 => n = 1
      OBVIOUS
    <3> QED BY <3>2, <3>3, <3>4, Zenon
  <2>2. Succession
    BY <1>3, <2>1 DEF Lineage
  <2> QED BY <1>1, <1>3, <2>1, <2>2, OneSuccession
<1> QED BY <1>2, <1>3

-----------------------------------------------------------------------------
(* The lineage is kept by every step.                                        *)

\* A device joins at an epoch it was welcomed to.
Joins(d, c) ==
    /\ mls[d] = 0 /\ c \in 1..Len(commits)
    /\ mls' = [mls EXCEPT ![d] = c] /\ joined' = [joined EXCEPT ![d] = c]
    /\ UNCHANGED <<commits, chat, done, revLog>>

\* A coordinator commits an addition or a removal.
Commits(d) ==
    /\ mls[d] # 0
    /\ \E leaves, gone, rows :
         /\ LocalCommit(d, leaves, gone, rows)
         /\ \/ /\ MustRemove(d) /\ pc[d] = "reconcile"
               /\ leaves = Blank(commits[mls[d]].leaves, KnownRevoked(known[d]))
            \/ \E x \in Devices : MayInvite(d, x, Revoked) /\ leaves = AddLeaf(commits[mls[d]].leaves, x)
    /\ UNCHANGED <<chat, joined, done, revLog>>

\* CHAT grows at its end.
Grows ==
    /\ Len(chat) <= Len(chat')
    /\ \A n \in DOMAIN chat : chat'[n] = chat[n]

(* What a step does to the epochs, to who holds them and to the journal.     *)
LEMMA StepShape ==
    ASSUME Inv, [Next]_vars
    PROVE  \/ UNCHANGED <<commits, mls, joined, done, revLog>> /\ Grows
           \/ \E d \in Devices : ProcessNext(d)
           \/ \E d \in Devices : \E c \in 1..Len(commits) : Joins(d, c)
           \/ \E d \in Devices : Commits(d)
           \/ AppendRevocation
<1>1. chat \in Seq(Delivery)
  BY DEF Inv, TypeOK
<1>2. Len(chat) \in Nat
  BY <1>1
<1>3. ASSUME UNCHANGED <<commits, chat, mls, joined, done, revLog>>
      PROVE  UNCHANGED <<commits, mls, joined, done, revLog>> /\ Grows
  BY <1>2, <1>3 DEF Grows
<1>4. CASE UNCHANGED vars
  BY <1>3, <1>4 DEF vars, broker, store
<1>5. ASSUME NEW d \in Devices, Publish(d)
      PROVE  UNCHANGED <<commits, mls, joined, done, revLog>> /\ Grows
  <2>1. UNCHANGED <<commits, mls, joined, done, revLog>>
    BY <1>5 DEF Publish
  <2>2. chat' = chat \/ \E row : chat' = Append(chat, row)
    BY <1>5 DEF Publish, Store
  <2>3. ASSUME NEW row, chat' = Append(chat, row) PROVE Grows
    <3>1. Len(chat') = Len(chat) + 1 /\ \A n \in 1..Len(chat) : chat'[n] = chat[n]
      BY <1>1, <2>3
    <3> QED BY <1>1, <1>2, <3>1 DEF Grows
  <2> QED BY <1>2, <2>1, <2>2, <2>3 DEF Grows
<1>6. ASSUME NEW d \in Devices,
             Audit(d) \/ StageBacklog(d) \/ ProcessFails(d) \/ Finish(d) \/ Encrypt(d) \/ Abort(d)
      PROVE  UNCHANGED <<commits, chat, mls, joined, done, revLog>>
  BY <1>6 DEF Audit, StageBacklog, ProcessFails, Finish, Encrypt, Abort, broker, store
<1>7. ASSUME NEW d \in Devices, reconcile_revocations(d)
      PROVE  UNCHANGED <<commits, chat, mls, joined, done, revLog>> \/ Commits(d)
  <2>1. CASE ~MustRemove(d)
    BY <1>7, <2>1 DEF reconcile_revocations, broker
  <2>2. CASE MustRemove(d)
    <3>1. mls[d] # 0
      BY <2>2 DEF MustRemove, Active
    <3>2. /\ \E leaves, gone, rows : LocalCommit(d, leaves, gone, rows)
               /\ leaves = Blank(commits[mls[d]].leaves, KnownRevoked(known[d]))
          /\ pc[d] = "reconcile" /\ UNCHANGED <<chat, joined, done, revLog>>
      BY <1>7, <2>2, Zenon DEF reconcile_revocations, broker
    <3> QED BY <2>2, <3>1, <3>2, Zenon DEF Commits
  <2> QED BY <2>1, <2>2
<1>8. ASSUME NEW d \in Devices, accept_welcome(d)
      PROVE  UNCHANGED <<commits, chat, mls, joined, done, revLog>>
             \/ \E c \in 1..Len(commits) : Joins(d, c)
  <2> DEFINE c == Head(mailbox[d])
  <2>1. UNCHANGED <<commits, chat, done, revLog>>
    BY <1>8 DEF accept_welcome
  <2>2. \/ UNCHANGED <<mls, joined>>
        \/ mls[d] = 0 /\ mls' = [mls EXCEPT ![d] = c] /\ joined' = [joined EXCEPT ![d] = c]
    BY <1>8 DEF accept_welcome
  <2>3. mailbox[d] \in Seq(Nat) /\ mailbox[d] # << >>
        /\ \A k \in DOMAIN mailbox[d] : mailbox[d][k] \in 1..Len(commits)
    BY <1>8 DEF accept_welcome, Inv, TypeOK, ProgramPoints, ReferencesExist
  <2>4. c \in 1..Len(commits)
    BY <2>3
  <2> HIDE DEF c
  <2> QED BY <2>1, <2>2, <2>4 DEF Joins
<1>9. ASSUME NEW d \in Devices, NEW x \in Devices, Invite(d, x)
      PROVE  UNCHANGED <<commits, chat, mls, joined, done, revLog>> \/ Commits(d)
  <2>1. CASE ~MayInvite(d, x, Revoked)
    BY <1>9, <2>1 DEF Invite, broker
  <2>2. CASE MayInvite(d, x, Revoked)
    <3>1. mls[d] # 0
      BY <2>2 DEF MayInvite, ensure_can_send, Active
    <3>2. /\ \E leaves, gone, rows : LocalCommit(d, leaves, gone, rows)
               /\ leaves = AddLeaf(commits[mls[d]].leaves, x)
          /\ UNCHANGED <<chat, joined, done, revLog>>
      BY <1>9, <2>2, Zenon DEF Invite, broker
    <3> QED BY <2>2, <3>1, <3>2, Zenon DEF Commits
  <2> QED BY <2>1, <2>2
<1>10. ASSUME NEW d \in Devices, NEW x \in Devices, JoinLookup(d, x)
       PROVE  UNCHANGED <<commits, chat, mls, joined, done, revLog>>
  BY <1>10 DEF JoinLookup, broker
<1>11. ASSUME (\E x \in Revocable : ReadCutoff(x)) \/ Enforce \/ ServiceStops
       PROVE  UNCHANGED <<commits, chat, mls, joined, done, revLog>>
  BY <1>11 DEF ReadCutoff, Enforce, ServiceStops, store
<1> QED BY <1>3, <1>4, <1>5, <1>6, <1>7, <1>8, <1>9, <1>10, <1>11, Zenon DEF Next, Sync, Service

(* Revocations known are revocations.                                        *)
LEMMA KnownIsRevoked == ASSUME Inv, NEW d \in Devices PROVE KnownRevoked(known[d]) \subseteq Revoked
<1>1. revLog \in Seq(Revocation) /\ known[d] \in 0..Len(revLog)
  BY DEF Inv, TypeOK
<1>2. Len(revLog) \in Nat /\ DOMAIN revLog = 1..Len(revLog)
  BY <1>1
<1>3. \A i \in 1..known[d] : i \in DOMAIN revLog
  BY <1>1, <1>2
<1> QED BY <1>3 DEF KnownRevoked, Revoked

(* What a local Commit adds, and who may make it.                            *)
LEMMA CommitMade ==
    ASSUME Inv, NEW d \in Devices, Commits(d)
    PROVE  /\ Len(commits') = Len(commits) + 1 /\ Len(commits) \in Nat
           /\ \A c \in 1..Len(commits) : commits'[c] = commits[c]
           /\ commits'[Len(commits) + 1].author = d
           /\ commits'[Len(commits) + 1].parent = mls[d]
           /\ commits'[Len(commits) + 1].epoch = commits[mls[d]].epoch + 1
           /\ mls[d] \in 1..Len(commits)
           /\ mls'[d] = Len(commits) + 1
           /\ \A q \in Devices \ {d} : mls'[q] = mls[q]
           /\ \/ /\ MustRemove(d) /\ pc[d] = "reconcile"
                 /\ commits'[Len(commits) + 1].leaves
                    = Blank(commits[mls[d]].leaves, KnownRevoked(known[d]))
              \/ \E x \in Devices : /\ MayInvite(d, x, Revoked)
                                    /\ commits'[Len(commits) + 1].leaves
                                       = AddLeaf(commits[mls[d]].leaves, x)
<1>1. PICK leaves, gone, rows :
         /\ LocalCommit(d, leaves, gone, rows)
         /\ \/ /\ MustRemove(d) /\ pc[d] = "reconcile"
               /\ leaves = Blank(commits[mls[d]].leaves, KnownRevoked(known[d]))
            \/ \E x \in Devices : MayInvite(d, x, Revoked) /\ leaves = AddLeaf(commits[mls[d]].leaves, x)
  BY Zenon DEF Commits
<1> DEFINE new == [parent |-> mls[d], author |-> d, leaves |-> leaves,
                   epoch |-> commits[mls[d]].epoch + 1]
<1>2. commits \in Seq(Commit) /\ mls \in [Devices -> 0..Len(commits)] /\ mls[d] # 0
  BY DEF Inv, TypeOK, Commits
<1>3. Len(commits) \in Nat /\ mls[d] \in 1..Len(commits)
  BY <1>2
<1>4. commits' = Append(commits, new) /\ mls' = [mls EXCEPT ![d] = Len(commits) + 1]
  BY <1>1 DEF LocalCommit
<1>5. new.parent = mls[d] /\ new.author = d /\ new.leaves = leaves
      /\ new.epoch = commits[mls[d]].epoch + 1
  OBVIOUS
<1> HIDE DEF new
<1>6. /\ Len(commits') = Len(commits) + 1
      /\ \A c \in 1..Len(commits) : commits'[c] = commits[c]
      /\ commits'[Len(commits) + 1] = new
  BY <1>2, <1>3, <1>4
<1>7. mls'[d] = Len(commits) + 1 /\ \A q \in Devices \ {d} : mls'[q] = mls[q]
  BY <1>2, <1>4
<1>8. new.leaves = leaves => commits'[Len(commits) + 1].leaves = leaves
  BY <1>6
<1>9. \/ /\ MustRemove(d) /\ pc[d] = "reconcile"
         /\ commits'[Len(commits) + 1].leaves
            = Blank(commits[mls[d]].leaves, KnownRevoked(known[d]))
      \/ \E x \in Devices : /\ MayInvite(d, x, Revoked)
                            /\ commits'[Len(commits) + 1].leaves
                               = AddLeaf(commits[mls[d]].leaves, x)
  BY <1>1, <1>5, <1>8, Zenon
<1> QED BY <1>3, <1>5, <1>6, <1>7, <1>9

(* A Commit of a device with an unrevoked coordinator is the coordinator's.  *)
LEMMA CommitsIfPinned ==
    ASSUME Inv, NEW d \in Devices, Commits(d), pin[d] \notin Revoked
    PROVE  pin[d] = d
<1>1. mls[d] # 0
  BY DEF Commits
<1>2. pin[d] \in Members(commits[mls[d]].leaves)
  BY <1>1, HeldEpoch
<1>3. KnownRevoked(known[d]) \subseteq Revoked
  BY KnownIsRevoked
<1>4. \/ coordinator(commits[mls[d]].leaves, pin[d], KnownRevoked(known[d])) = d
      \/ coordinator(commits[mls[d]].leaves, pin[d], Revoked) = d
  <2>1. MustRemove(d) \/ \E x \in Devices : MayInvite(d, x, Revoked)
    BY CommitMade
  <2> QED BY <2>1, Zenon DEF MustRemove, MayInvite
<1> QED BY <1>2, <1>3, <1>4 DEF coordinator

(* A device never merges its own Commit.                                     *)
LEMMA MergesOthers ==
    ASSUME Inv, Signed, NEW d \in Devices, ProcessNext(d)
    PROVE  LET c == chat[done[d] + 1].ref
           IN  /\ UNCHANGED <<commits, chat, joined, revLog>>
               /\ mls[d] \in 1..Len(commits) /\ done[d] \in Nat
               /\ done[d] + 1 \in DOMAIN chat
               /\ done'[d] = done[d] + 1
               /\ \A q \in Devices \ {d} : done'[q] = done[q] /\ mls'[q] = mls[q]
               /\ Verdict(d) # "error"
               /\ \/ Verdict(d) # "merge" /\ mls'[d] = mls[d]
                  \/ /\ Verdict(d) = "merge" /\ mls'[d] = c /\ c \in 1..Len(commits)
                     /\ IsCommit(chat[done[d] + 1])
                     /\ Author(c) # d /\ Parent(c) = mls[d] /\ Active(d)
                     /\ validate_commit_author(d, c, done[d] + 1)
<1> DEFINE row == chat[done[d] + 1]
           c == row.ref
<1>1. /\ UNCHANGED <<commits, chat, joined, revLog>>
      /\ mls[d] # 0 /\ done[d] < staged[d] /\ Verdict(d) # "error"
      /\ done' = [done EXCEPT ![d] = done[d] + 1]
  BY DEF ProcessNext, broker
<1>2. /\ done \in [Devices -> Nat] /\ mls \in [Devices -> 0..Len(commits)]
      /\ chat \in Seq(Delivery) /\ staged[d] \in 0..Len(chat) /\ commits \in Seq(Commit)
  BY DEF Inv, TypeOK
<1>3. /\ mls[d] \in 1..Len(commits) /\ done[d] \in Nat /\ done[d] + 1 \in DOMAIN chat
  BY <1>1, <1>2
<1>4. done'[d] = done[d] + 1 /\ \A q \in Devices \ {d} : done'[q] = done[q]
  BY <1>1, <1>2
<1>5. CASE Verdict(d) # "merge"
  <2>1. mls' = mls
    BY <1>5 DEF ProcessNext
  <2> QED BY <1>1, <1>3, <1>4, <1>5, <2>1
<1>6. CASE Verdict(d) = "merge"
  <2>1. mls' = [mls EXCEPT ![d] = c]
    BY <1>6 DEF ProcessNext, MergeCommit
  <2>2. c \in 1..Len(commits)
    BY <1>1, <1>6, VerdictMerge
  <2>3. /\ IsCommit(row) /\ Parent(c) = mls[d] /\ Active(d)
        /\ validate_commit_author(d, c, done[d] + 1) /\ ~AlreadyHeld(d, row)
    BY <1>6 DEF Verdict, IsCommit, Parent
  <2>4. Author(c) # d
    BY <1>3, <2>3 DEF Signed, AlreadyHeld
  <2>5. mls'[d] = c /\ \A q \in Devices \ {d} : mls'[q] = mls[q]
    BY <1>2, <2>1
  <2> HIDE DEF row, c
  <2> QED BY <1>1, <1>3, <1>4, <1>6, <2>2, <2>3, <2>4, <2>5 DEF row, c
<1> QED BY <1>5, <1>6

(* Rows keep their author, new ones are signed by whoever queues them.        *)
LEMMA SignedKept ==
    ASSUME Inv, Signed,
           \A c \in 1..Len(commits) : commits'[c] = commits[c],
           \A q \in Devices : \A i \in DOMAIN outbox'[q] : IsCommit(outbox'[q][i]) =>
              \/ commits'[outbox'[q][i].ref].author = q
              \/ \E j \in DOMAIN outbox[q] :
                    IsCommit(outbox[q][j]) /\ outbox[q][j].ref = outbox'[q][i].ref,
           \A n \in DOMAIN chat' : IsCommit(chat'[n]) =>
              \/ n \in DOMAIN chat /\ chat'[n] = chat[n]
              \/ \E q \in Devices : \E j \in DOMAIN outbox[q] :
                    /\ chat'[n].author = q
                    /\ IsCommit(outbox[q][j]) /\ outbox[q][j].ref = chat'[n].ref
    PROVE  Signed'
<1>1. \A q \in Devices : \A j \in DOMAIN outbox[q] : IsCommit(outbox[q][j]) =>
         commits'[outbox[q][j].ref].author = q
  <2> SUFFICES ASSUME NEW q \in Devices, NEW j \in DOMAIN outbox[q], IsCommit(outbox[q][j])
               PROVE  commits'[outbox[q][j].ref].author = q
    OBVIOUS
  <2>1. outbox[q][j].ref \in 1..Len(commits)
    BY DEF Inv, ReferencesExist, IsCommit
  <2>2. commits[outbox[q][j].ref].author = q
    BY DEF Signed, Author
  <2> QED BY <2>1, <2>2
<1>2. \A q \in Devices : \A i \in DOMAIN outbox'[q] : IsCommit(outbox'[q][i]) =>
         commits'[outbox'[q][i].ref].author = q
  BY <1>1
<1>3. ASSUME NEW n \in DOMAIN chat', IsCommit(chat'[n])
      PROVE  commits'[chat'[n].ref].author = chat'[n].author
  <2>1. CASE n \in DOMAIN chat /\ chat'[n] = chat[n]
    <3>1. chat[n].ref \in 1..Len(commits) /\ commits[chat[n].ref].author = chat[n].author
      BY <1>3, <2>1 DEF Inv, ReferencesExist, IsCommit, Signed, Author
    <3> QED BY <2>1, <3>1
  <2>2. CASE \E q \in Devices : \E j \in DOMAIN outbox[q] :
                /\ chat'[n].author = q
                /\ IsCommit(outbox[q][j]) /\ outbox[q][j].ref = chat'[n].ref
    BY <1>1, <2>2
  <2> QED BY <1>3, <2>1, <2>2
<1> QED BY <1>2, <1>3 DEF Signed, Author, IsCommit

(* Rows that are only blocked are signed as before.                          *)
LEMMA SignedBlocked ==
    ASSUME Inv, Signed, NEW d \in Devices, NEW gone, UNCHANGED <<commits, chat>>,
           outbox' = outbox \/ outbox' = [outbox EXCEPT ![d] = block_revoked_outbox(d, outbox[d], gone)]
    PROVE  Signed'
<1> DEFINE rows == block_revoked_outbox(d, outbox[d], gone)
<1>1. outbox \in [Devices -> Seq(Row)]
  BY DEF Inv, TypeOK
<1>2. /\ DOMAIN rows = DOMAIN outbox[d]
      /\ \A i \in DOMAIN outbox[d] : rows[i].kind = outbox[d][i].kind /\ rows[i].ref = outbox[d][i].ref
  BY <1>1, BlockedRows
<1>3. outbox' = outbox \/ outbox' = [outbox EXCEPT ![d] = rows]
  OBVIOUS
<1> HIDE DEF rows
<1>4. \A q \in Devices : /\ DOMAIN outbox'[q] = DOMAIN outbox[q]
                         /\ \A i \in DOMAIN outbox[q] : /\ outbox'[q][i].kind = outbox[q][i].kind
                                                        /\ outbox'[q][i].ref = outbox[q][i].ref
  BY <1>1, <1>2, <1>3
<1>5. \A q \in Devices : \A i \in DOMAIN outbox'[q] : IsCommit(outbox'[q][i]) =>
         \E j \in DOMAIN outbox[q] : IsCommit(outbox[q][j]) /\ outbox[q][j].ref = outbox'[q][i].ref
  BY <1>4 DEF IsCommit
<1> QED BY <1>5, SignedKept

(* Rows added to a queue: anything but a Commit, or the author's new one.    *)
LEMMA SignedQueued ==
    ASSUME Inv, Signed, NEW d \in Devices, NEW rows \in Seq(Row), NEW row \in Row,
           chat' = chat, \A c \in 1..Len(commits) : commits'[c] = commits[c],
           outbox' = [outbox EXCEPT ![d] = Append(rows, row)],
           IsCommit(row) => commits'[row.ref].author = d,
           \A i \in DOMAIN rows : IsCommit(rows[i]) =>
              \/ commits'[rows[i].ref].author = d
              \/ \E j \in DOMAIN outbox[d] : IsCommit(outbox[d][j]) /\ outbox[d][j].ref = rows[i].ref
    PROVE  Signed'
<1> DEFINE all == Append(rows, row)
<1>1. outbox \in [Devices -> Seq(Row)]
  BY DEF Inv, TypeOK
<1>2. /\ DOMAIN all = 1..(Len(rows) + 1) /\ DOMAIN rows = 1..Len(rows) /\ Len(rows) \in Nat
      /\ \A i \in 1..Len(rows) : all[i] = rows[i]
      /\ all[Len(rows) + 1] = row
  BY AppendProperties
<1>3. outbox'[d] = all /\ \A q \in Devices \ {d} : outbox'[q] = outbox[q]
  BY <1>1
<1> HIDE DEF all
<1>4. ASSUME NEW i \in DOMAIN all, IsCommit(all[i])
      PROVE  \/ commits'[all[i].ref].author = d
             \/ \E j \in DOMAIN outbox[d] : IsCommit(outbox[d][j]) /\ outbox[d][j].ref = all[i].ref
  <2>1. CASE i \in 1..Len(rows)
    BY <1>2, <1>4, <2>1
  <2>2. CASE i = Len(rows) + 1
    BY <1>2, <1>4, <2>2
  <2> QED BY <1>2, <2>1, <2>2
<1>5. \A q \in Devices : \A i \in DOMAIN outbox'[q] : IsCommit(outbox'[q][i]) =>
         \/ commits'[outbox'[q][i].ref].author = q
         \/ \E j \in DOMAIN outbox[q] : IsCommit(outbox[q][j]) /\ outbox[q][j].ref = outbox'[q][i].ref
  <2> SUFFICES ASSUME NEW q \in Devices, NEW i \in DOMAIN outbox'[q], IsCommit(outbox'[q][i])
               PROVE  \/ commits'[outbox'[q][i].ref].author = q
                      \/ \E j \in DOMAIN outbox[q] :
                            IsCommit(outbox[q][j]) /\ outbox[q][j].ref = outbox'[q][i].ref
    OBVIOUS
  <2>1. CASE q = d
    BY <1>3, <1>4, <2>1
  <2>2. CASE q # d
    BY <1>3, <2>2
  <2> QED BY <2>1, <2>2
<1> QED BY <1>5, SignedKept

(* A published Commit carries its author.                                    *)
LEMMA SignedPublished == ASSUME Inv, Signed, NEW d \in Devices, Publish(d) PROVE Signed'
<1>1. /\ outbox \in [Devices -> Seq(Row)] /\ chat \in Seq(Delivery) /\ commits' = commits
  BY DEF Inv, TypeOK, Publish
<1>2. PICK i \in DOMAIN outbox[d], state \in {"sent", "stored"} :
         /\ \A q \in Devices \ {d} : outbox'[q] = outbox[q]
         /\ DOMAIN outbox'[d] = DOMAIN outbox[d]
         /\ \A k \in DOMAIN outbox[d] \ {i} : outbox'[d][k] = outbox[d][k]
         /\ outbox'[d][i] = [outbox[d][i] EXCEPT !.state = state]
         /\ \/ Store(d, outbox[d][i])
            \/ outbox[d][i].state = "stored" /\ UNCHANGED <<chat, mailbox>>
  BY PublishedRow
<1> DEFINE row == outbox[d][i]
<1>3. row \in Row
  BY <1>1
<1>4. outbox'[d][i].kind = row.kind /\ outbox'[d][i].ref = row.ref
  BY <1>2, <1>3 DEF Row
<1>5. \A q \in Devices : \A k \in DOMAIN outbox'[q] : IsCommit(outbox'[q][k]) =>
         \E j \in DOMAIN outbox[q] : IsCommit(outbox[q][j]) /\ outbox[q][j].ref = outbox'[q][k].ref
  BY <1>2, <1>4 DEF IsCommit
<1>6. CASE chat' = chat
  BY <1>1, <1>5, <1>6, SignedKept
<1>7. CASE chat' # chat
  <2> DEFINE new == [kind |-> row.kind, ref |-> row.ref, author |-> d]
  <2>1. row.kind # "welcome" /\ chat' = Append(chat, new)
    BY <1>2, <1>7 DEF Store
  <2>2. new.kind = row.kind /\ new.ref = row.ref /\ new.author = d
    OBVIOUS
  <2> HIDE DEF new
  <2>3. /\ Len(chat) \in Nat /\ DOMAIN chat = 1..Len(chat) /\ DOMAIN chat' = 1..(Len(chat) + 1)
        /\ \A j \in 1..Len(chat) : chat'[j] = chat[j]
        /\ chat'[Len(chat) + 1] = new
    BY <1>1, <2>1
  <2>4. ASSUME NEW n \in DOMAIN chat', IsCommit(chat'[n])
        PROVE  \/ n \in DOMAIN chat /\ chat'[n] = chat[n]
               \/ \E q \in Devices : \E j \in DOMAIN outbox[q] :
                     /\ chat'[n].author = q
                     /\ IsCommit(outbox[q][j]) /\ outbox[q][j].ref = chat'[n].ref
    <3>1. CASE n \in 1..Len(chat)
      BY <2>3, <3>1
    <3>2. CASE n = Len(chat) + 1
      <4>1. IsCommit(row) /\ chat'[n].ref = row.ref /\ chat'[n].author = d
        BY <2>2, <2>3, <2>4, <3>2 DEF IsCommit
      <4> QED BY <4>1
    <3> QED BY <2>3, <3>1, <3>2
  <2> QED BY <1>1, <1>5, <2>4, SignedKept
<1> QED BY <1>6, <1>7

(* Every step leaves Commits signed by their authors.                        *)
LEMMA NextSigned == ASSUME Inv, Signed, [Next]_vars PROVE Signed'
<1>1. /\ outbox \in [Devices -> Seq(Row)] /\ Len(messages) \in Nat /\ commits \in Seq(Commit)
      /\ Len(commits) \in Nat
  <2>1. outbox \in [Devices -> Seq(Row)] /\ messages \in Seq(Ciphertext) /\ commits \in Seq(Commit)
    BY DEF Inv, TypeOK
  <2> QED BY <2>1
<1>2. ASSUME UNCHANGED <<commits, chat, outbox>> PROVE Signed'
  BY <1>2, SignedKept
<1>3. CASE UNCHANGED vars
  BY <1>2, <1>3 DEF vars, broker, store
<1>4. ASSUME NEW d \in Devices, Audit(d) PROVE Signed'
  <2>1. /\ UNCHANGED <<commits, chat>>
        /\ outbox' = outbox \/ outbox' = [outbox EXCEPT ![d] = block_revoked_outbox(d, outbox[d], Revoked)]
    BY <1>4 DEF Audit, broker
  <2> QED BY <2>1, SignedBlocked
<1>5. ASSUME NEW d \in Devices, ProcessNext(d) PROVE Signed'
  <2> DEFINE gone == KnownRevoked(known[d])
  <2>1. /\ UNCHANGED <<commits, chat>>
        /\ outbox' = outbox \/ outbox' = [outbox EXCEPT ![d] = block_revoked_outbox(d, outbox[d], gone)]
    BY <1>5 DEF ProcessNext, MergeCommit, broker
  <2> HIDE DEF gone
  <2> QED BY <2>1, SignedBlocked
<1>6. ASSUME NEW d \in Devices, Encrypt(d) PROVE Signed'
  <2> DEFINE row == MessageRow(Len(messages) + 1)
  <2>1. /\ UNCHANGED <<commits, chat>>
        /\ outbox' = [outbox EXCEPT ![d] = Append(outbox[d], row)]
    BY <1>6 DEF Encrypt, broker
  <2>2. row \in Row /\ ~IsCommit(row)
    BY <1>1 DEF MessageRow, Row, IsCommit
  <2> HIDE DEF row
  <2>3. outbox[d] \in Seq(Row)
    BY <1>1
  <2> QED BY <2>1, <2>2, <2>3, SignedQueued
<1>7. ASSUME NEW d \in Devices, mls[d] # 0, NEW leaves, NEW gone, NEW rows,
             LocalCommit(d, leaves, gone, rows)
      PROVE  /\ \A c \in 1..Len(commits) : commits'[c] = commits[c]
             /\ commits'[Len(commits) + 1].author = d
  <2> DEFINE new == [parent |-> mls[d], author |-> d, leaves |-> leaves,
                     epoch |-> commits[mls[d]].epoch + 1]
  <2>1. commits' = Append(commits, new) /\ new.author = d
    BY <1>7 DEF LocalCommit
  <2> HIDE DEF new
  <2> QED BY <1>1, <2>1
<1>8. ASSUME NEW d \in Devices, reconcile_revocations(d) PROVE Signed'
  <2> DEFINE gone == KnownRevoked(known[d])
             rows == block_revoked_outbox(d, outbox[d], gone)
             row == HandshakeRow(Len(commits) + 1)
             leaves == Blank(commits[mls[d]].leaves, gone)
  <2>1. CASE ~MustRemove(d)
    BY <1>2, <1>8, <2>1 DEF reconcile_revocations, broker
  <2>2. CASE MustRemove(d)
    <3>1. LocalCommit(d, leaves, gone, Append(rows, row)) /\ chat' = chat /\ mls[d] # 0
      BY <1>8, <2>2 DEF reconcile_revocations, broker, MustRemove, Active
    <3>2. outbox' = [outbox EXCEPT ![d] = Append(rows, row)]
      BY <3>1 DEF LocalCommit
    <3>3. row \in Row /\ row.ref = Len(commits) + 1
      BY <1>1 DEF HandshakeRow, Row
    <3>4. /\ rows \in Seq(Row) /\ DOMAIN rows = DOMAIN outbox[d]
          /\ \A k \in DOMAIN outbox[d] : rows[k].kind = outbox[d][k].kind /\ rows[k].ref = outbox[d][k].ref
      BY <1>1, BlockedRows
    <3> HIDE DEF gone, rows, row, leaves
    <3>5. /\ \A c \in 1..Len(commits) : commits'[c] = commits[c]
          /\ commits'[Len(commits) + 1].author = d
      BY <1>7, <3>1
    <3>6. \A i \in DOMAIN rows : IsCommit(rows[i]) =>
             \E j \in DOMAIN outbox[d] : IsCommit(outbox[d][j]) /\ outbox[d][j].ref = rows[i].ref
      BY <3>4 DEF IsCommit
    <3>7. /\ rows \in Seq(Row) /\ row \in Row /\ chat' = chat
          /\ IsCommit(row) => commits'[row.ref].author = d
          /\ \A c \in 1..Len(commits) : commits'[c] = commits[c]
      BY <3>1, <3>3, <3>4, <3>5
    <3> QED BY <3>2, <3>6, <3>7, SignedQueued
  <2> QED BY <2>1, <2>2
<1>9. ASSUME NEW d \in Devices, NEW x \in Devices, Invite(d, x) PROVE Signed'
  <2> DEFINE first == HandshakeRow(Len(commits) + 1)
             second == WelcomeRow(Len(commits) + 1, x)
             rows == Append(outbox[d], first)
             leaves == AddLeaf(commits[mls[d]].leaves, x)
  <2>1. CASE ~MayInvite(d, x, Revoked)
    BY <1>2, <1>9, <2>1 DEF Invite, broker
  <2>2. CASE MayInvite(d, x, Revoked)
    <3>1. LocalCommit(d, leaves, Revoked, Append(rows, second)) /\ chat' = chat /\ mls[d] # 0
      BY <1>9, <2>2 DEF Invite, broker, MayInvite, ensure_can_send, Active
    <3>2. outbox' = [outbox EXCEPT ![d] = Append(rows, second)]
      BY <3>1 DEF LocalCommit
    <3>3. /\ first \in Row /\ first.ref = Len(commits) + 1
          /\ second \in Row /\ ~IsCommit(second)
      BY <1>1 DEF HandshakeRow, WelcomeRow, Row, IsCommit
    <3> HIDE DEF first, second, leaves
    <3>4. /\ rows \in Seq(Row) /\ DOMAIN rows = 1..(Len(outbox[d]) + 1)
          /\ DOMAIN outbox[d] = 1..Len(outbox[d]) /\ Len(outbox[d]) \in Nat
          /\ \A k \in 1..Len(outbox[d]) : rows[k] = outbox[d][k]
          /\ rows[Len(outbox[d]) + 1] = first
      <4>1. outbox[d] \in Seq(Row)
        BY <1>1
      <4> QED BY <3>3, <4>1, AppendProperties
    <3> HIDE DEF rows
    <3>5. /\ \A c \in 1..Len(commits) : commits'[c] = commits[c]
          /\ commits'[Len(commits) + 1].author = d
      BY <1>7, <3>1
    <3>6. ASSUME NEW i \in DOMAIN rows, IsCommit(rows[i])
          PROVE  \/ commits'[rows[i].ref].author = d
                 \/ \E j \in DOMAIN outbox[d] : IsCommit(outbox[d][j]) /\ outbox[d][j].ref = rows[i].ref
      <4>1. CASE i \in 1..Len(outbox[d])
        BY <3>4, <3>6, <4>1
      <4>2. CASE i = Len(outbox[d]) + 1
        BY <3>3, <3>4, <3>5, <4>2
      <4> QED BY <3>4, <4>1, <4>2
    <3>7. \A i \in DOMAIN rows : IsCommit(rows[i]) =>
             \/ commits'[rows[i].ref].author = d
             \/ \E j \in DOMAIN outbox[d] : IsCommit(outbox[d][j]) /\ outbox[d][j].ref = rows[i].ref
      BY <3>6
    <3>8. /\ rows \in Seq(Row) /\ second \in Row /\ chat' = chat
          /\ IsCommit(second) => commits'[second.ref].author = d
          /\ \A c \in 1..Len(commits) : commits'[c] = commits[c]
      BY <3>1, <3>3, <3>4, <3>5
    <3> QED BY <3>2, <3>7, <3>8, SignedQueued
  <2> QED BY <2>1, <2>2
<1>10. ASSUME NEW d \in Devices, NEW x \in Devices,
              \/ StageBacklog(d) \/ ProcessFails(d) \/ Finish(d) \/ Abort(d) \/ accept_welcome(d)
              \/ JoinLookup(d, x)
       PROVE  Signed'
  BY <1>2, <1>10 DEF StageBacklog, ProcessFails, Finish, Abort, accept_welcome, JoinLookup, broker, store
<1>11. CASE (\E x \in Revocable : ReadCutoff(x)) \/ Service \/ ServiceStops
  BY <1>2, <1>11 DEF Service, ReadCutoff, AppendRevocation, Enforce, ServiceStops, store
<1> QED BY <1>3, <1>4, <1>5, <1>6, <1>8, <1>9, <1>10, <1>11, SignedPublished DEF Next, Sync

(* While the creator is not revoked it makes every Commit, whoever else is.  *)
LEMMA StepOneLine ==
    ASSUME Inv, Signed, OneLine, Creator \notin Revoked, [Next]_vars PROVE OneLine'
<1>1. /\ mls \in [Devices -> 0..Len(commits)] /\ commits \in Seq(Commit) /\ Creator \in Devices
      /\ Creator' = Creator /\ mls[Creator] = Len(commits) /\ mls[Creator] # 0
  BY CreatorJoined DEF Inv, TypeOK, Creator, OneLine
<1>2. Len(commits) \in Nat
  BY <1>1
<1>3. ASSUME commits' = commits, mls'[Creator] = mls[Creator] PROVE OneLine'
  BY <1>1, <1>3 DEF OneLine
<1>4. ASSUME NEW d \in Devices, ProcessNext(d) PROVE OneLine'
  <2> DEFINE c == chat[done[d] + 1].ref
  <2>1. /\ commits' = commits /\ \A q \in Devices \ {d} : mls'[q] = mls[q]
        /\ mls'[d] = mls[d] \/ (c \in 1..Len(commits) /\ Author(c) # d)
    BY <1>4, MergesOthers
  <2> HIDE DEF c
  <2>2. d = Creator => mls'[d] = mls[d]
    BY <2>1 DEF OneLine, Author
  <2> QED BY <1>1, <1>3, <2>1, <2>2
<1>5. ASSUME NEW d \in Devices, NEW c \in 1..Len(commits), Joins(d, c) PROVE OneLine'
  <2>1. d # Creator /\ commits' = commits /\ mls' = [mls EXCEPT ![d] = c]
    BY <1>1, <1>5 DEF Joins
  <2> QED BY <1>1, <1>3, <2>1
<1>6. ASSUME NEW d \in Devices, Commits(d) PROVE OneLine'
  <2>1. /\ Len(commits') = Len(commits) + 1
        /\ \A c \in 1..Len(commits) : commits'[c] = commits[c]
        /\ commits'[Len(commits) + 1].author = d
        /\ commits'[Len(commits) + 1].parent = mls[d]
        /\ commits'[Len(commits) + 1].epoch = commits[mls[d]].epoch + 1
        /\ mls[d] \in 1..Len(commits)
        /\ mls'[d] = Len(commits) + 1
    BY <1>6, CommitMade
  <2>2. d = Creator
    <3>1. pin[d] = Creator
      BY <1>2, <2>1 DEF Inv, PinIsAuthor, OneLine
    <3> QED BY <1>6, <3>1, CommitsIfPinned
  <2>3. commits[mls[d]].epoch = Len(commits) - 1
    BY <1>1, <2>1, <2>2 DEF OneLine
  <2>4. ASSUME NEW k \in 1..Len(commits')
        PROVE  /\ commits'[k].author = Creator /\ commits'[k].parent = k - 1
               /\ commits'[k].epoch = k - 1
    <3>1. CASE k \in 1..Len(commits)
      BY <2>1, <3>1 DEF OneLine
    <3>2. CASE k = Len(commits) + 1
      BY <1>1, <1>2, <2>1, <2>2, <2>3, <3>2
    <3> QED BY <1>2, <2>1, <3>1, <3>2
  <2> QED BY <1>1, <2>1, <2>2, <2>4 DEF OneLine
<1>7. CASE AppendRevocation
  BY <1>3, <1>7 DEF AppendRevocation, store
<1> QED BY <1>3, <1>4, <1>5, <1>6, <1>7, StepShape

(* A group whose creator is the first to be revoked.                         *)
LEMMA SuccessionBegins ==
    ASSUME Inv, Barrier, Orderly, revLog = << >>, AppendRevocation
    PROVE  Succession'
<1>1. /\ UNCHANGED <<commits, chat, mls, joined, done>> /\ revLog' = Append(revLog, revoking)
      /\ Creator' = Creator
  BY DEF AppendRevocation, store, Creator
<1>2. Cut' = revoking.cutoff
  <2>1. revLog'[1] = revoking
    BY <1>1
  <2> QED BY <2>1 DEF Cut
<1>3. /\ chat \in Seq(Delivery) /\ revoking.cutoff \in Nat /\ revoking.cutoff <= Len(chat)
      /\ commits \in Seq(Commit) /\ Len(commits) >= 1
      /\ mls \in [Devices -> 0..Len(commits)] /\ Creator \in Devices
  BY CreatorJoined DEF Inv, TypeOK, Barrier, AuthorsAreMembers
<1>4. /\ Len(commits) \in Nat /\ Len(chat) \in Nat /\ DOMAIN chat = 1..Len(chat)
      /\ \A n \in 1..revoking.cutoff : n \in DOMAIN chat
  BY <1>3
<1>5. /\ \A c \in 1..Len(commits) : Author(c) = Creator /\ Parent(c) = c - 1 /\ commits[c].epoch = c - 1
      /\ mls[Creator] = Len(commits) /\ mls[Creator] # 0
  BY <1>3, CreatorJoined DEF Orderly, OneLine, Author, Parent
<1>6. CreatorLine'
  <2>1. 1 \in 1..Len(commits) /\ \A c \in 1..Len(commits) : \A b \in 1..c : b \in 1..Len(commits)
    BY <1>3, <1>4
  <2>2. CreatorLine
    BY <1>5, <2>1 DEF CreatorLine
  <2> QED BY <1>1, <2>2 DEF CreatorLine, Author, Parent
<1>7. Heirs'
  <2>1. \A c \in 1..Len(commits) : commits'[c].author = Creator
    BY <1>1, <1>5 DEF Author
  <2> QED BY <1>1, <2>1 DEF Heirs, Author
<1>8. Newest'
  <2>1. Newest
    <3> SUFFICES ASSUME NEW c \in 1..Len(commits), NEW a \in Devices, Author(c) = a
                 PROVE  mls[a] # 0 /\ Author(mls[a]) = a /\ c <= mls[a]
      BY DEF Newest
    <3>1. a = Creator /\ mls[a] = Len(commits) /\ Len(commits) \in 1..Len(commits)
      BY <1>3, <1>4, <1>5
    <3> QED BY <1>4, <1>5, <3>1
  <2> QED BY <1>1, <2>1 DEF Newest, Author, MembersOf
<1>9. StoredBefore'
  <2>1. \A n \in 1..revoking.cutoff : IsCommit(chat[n]) =>
           /\ chat[n].author = Creator
           /\ chat[n].ref >= 2
           /\ \A c \in 2..(chat[n].ref - 1) : \E m \in 1..(n - 1) :
                 IsCommit(chat[m]) /\ chat[m].ref = c
    BY <1>4 DEF Orderly, StoredInOrder
  <2> HIDE DEF Creator
  <2> QED BY <1>1, <1>2, <1>3, <2>1 DEF StoredBefore, IsCommit
<1>10. ASSUME NEW d \in Devices PROVE Reads(d)'
  <2>1. mls[d] # 0 =>
           /\ 1 <= joined[d] /\ joined[d] <= mls[d]
           /\ \A i \in 1..done[d] : IsCommit(chat[i]) => chat[i].ref <= mls[d]
    BY DEF Orderly, ReadInOrder, Follows
  <2> QED BY <1>1, <2>1 DEF Reads, IsCommit
<1> QED BY <1>6, <1>7, <1>8, <1>9, <1>10 DEF Succession

(* CHAT up to the cutoff does not change.                                    *)
LEMMA HistoryKept ==
    ASSUME Inv, Inv', Succession, Creator \in Revoked, Len(revLog) = 1, revLog' = revLog, Grows
    PROVE  /\ Cut' = Cut /\ Creator' = Creator /\ Cut \in Nat
           /\ \A n \in 1..Cut : n \in DOMAIN chat /\ chat'[n] = chat[n]
           /\ \A r : Covers(r) => Covers(r)'
           /\ StoredBefore'
<1>1. Cut' = Cut /\ Creator' = Creator /\ Cut \in Nat
  BY OnlyCreator DEF Cut, Creator
<1>2. chat \in Seq(Delivery) /\ chat' \in Seq(Delivery) /\ Cut <= Len(chat)
  BY DEF Inv, TypeOK, Succession, StoredBefore
<1>3. Len(chat) \in Nat /\ Len(chat') \in Nat /\ DOMAIN chat = 1..Len(chat)
  BY <1>2
<1>4. \A n \in 1..Cut : n \in DOMAIN chat
  BY <1>1, <1>2, <1>3
<1>5. \A n \in 1..Cut : chat'[n] = chat[n]
  BY <1>4 DEF Grows
<1>6. \A r : Covers(r) => Covers(r)'
  BY <1>1, <1>5 DEF Covers, IsCommit
<1>7. StoredBefore'
  <2>1. Cut <= Len(chat')
    BY <1>1, <1>2, <1>3 DEF Grows
  <2>2. ASSUME NEW n \in 1..Cut, IsCommit(chat'[n])
        PROVE  /\ chat'[n].author = Creator
               /\ chat'[n].ref >= 2
               /\ \A c \in 2..(chat'[n].ref - 1) : \E m \in 1..(n - 1) :
                     IsCommit(chat'[m]) /\ chat'[m].ref = c
    <3>1. chat'[n] = chat[n] /\ n \in Nat
      BY <1>1, <1>5
    <3>2. /\ chat[n].author = Creator
          /\ chat[n].ref >= 2
          /\ \A c \in 2..(chat[n].ref - 1) : \E m \in 1..(n - 1) :
                IsCommit(chat[m]) /\ chat[m].ref = c
      BY <2>2, <3>1 DEF Succession, StoredBefore
    <3>3. \A m \in 1..(n - 1) : m \in 1..Cut
      BY <1>1, <3>1
    <3> QED BY <1>5, <3>1, <3>2, <3>3
  <2>3. \A n \in 1..Cut : IsCommit(chat'[n]) =>
           /\ chat'[n].author = Creator
           /\ chat'[n].ref >= 2
           /\ \A c \in 2..(chat'[n].ref - 1) : \E m \in 1..(n - 1) :
                 IsCommit(chat'[m]) /\ chat'[m].ref = c
    BY <2>2
  <2> HIDE DEF Creator
  <2> QED BY <1>1, <2>1, <2>3 DEF StoredBefore, IsCommit
<1> QED BY <1>1, <1>4, <1>5, <1>6, <1>7

(* The epochs do not change.                                                 *)
LEMMA EpochsKept ==
    ASSUME Inv, Inv', Succession, Creator \in Revoked, Len(revLog) = 1, revLog' = revLog, Grows,
           commits' = commits
    PROVE  CreatorLine' /\ Heirs'
<1>1. Creator' = Creator /\ \A r : Covers(r) => Covers(r)'
  BY HistoryKept
<1>2. CreatorLine'
  BY <1>1 DEF Succession, CreatorLine, Author, Parent
<1>3. \A c \in 1..Len(commits) : Succeeds(c) => Succeeds(c)'
  BY <1>1 DEF Succeeds, First, Author, Parent
<1>4. \A c \in 1..Len(commits) : Continues(c) => Continues(c)'
  BY DEF Continues, Author, Parent
<1> QED BY <1>1, <1>2, <1>3, <1>4 DEF Succession, Heirs, Author, MembersOf

(* A device that stays where it is has read as before.                       *)
LEMMA ReadsKept ==
    ASSUME Inv, Inv', Succession, Creator \in Revoked, Len(revLog) = 1, revLog' = revLog, Grows,
           NEW q \in Devices, mls'[q] = mls[q], joined'[q] = joined[q], done'[q] = done[q],
           \A c \in 1..Len(commits) : commits'[c] = commits[c]
    PROVE  Reads(q)'
<1>1. /\ Cut' = Cut /\ Creator' = Creator
      /\ \A n \in 1..Cut : chat'[n] = chat[n]
  BY HistoryKept
<1>2. ASSUME mls[q] # 0, Author(mls[q])' = Creator
      PROVE  /\ 1 <= joined[q] /\ joined[q] <= mls[q]
             /\ \A i \in 1..done[q] : i <= Cut /\ IsCommit(chat'[i]) => chat'[i].ref <= mls[q]
  <2>1. mls[q] \in 1..Len(commits) /\ done[q] \in Nat /\ Cut \in Nat
    <3>1. /\ mls[q] \in 0..Len(commits) /\ commits \in Seq(Commit) /\ done[q] \in Nat
      BY DEF Inv, TypeOK
    <3> QED BY <1>2, <3>1, OnlyCreator
  <2>2. Author(mls[q]) = Creator
    BY <1>2, <2>1 DEF Author
  <2>3. /\ 1 <= joined[q] /\ joined[q] <= mls[q]
        /\ \A i \in 1..done[q] : i <= Cut /\ IsCommit(chat[i]) => chat[i].ref <= mls[q]
    BY <1>2, <2>2 DEF Succession, Reads
  <2>4. \A i \in 1..done[q] : i <= Cut => i \in 1..Cut
    BY <2>1
  <2> QED BY <1>1, <2>3, <2>4
<1> HIDE DEF Creator
<1> QED BY <1>1, <1>2 DEF Reads, IsCommit

(* A device joins a group that is being taken over.                          *)
LEMMA JoinSuccession ==
    ASSUME Inv, Inv', Bookkeeping, Succession, Creator \in Revoked, Len(revLog) = 1,
           NEW d \in Devices, NEW c \in 1..Len(commits), Joins(d, c)
    PROVE  Succession'
<1>1. /\ UNCHANGED <<commits, chat, done, revLog>> /\ mls[d] = 0
      /\ mls' = [mls EXCEPT ![d] = c] /\ joined' = [joined EXCEPT ![d] = c]
  BY DEF Joins
<1>2. /\ mls \in [Devices -> 0..Len(commits)] /\ joined \in [Devices -> 0..Len(commits)]
      /\ chat \in Seq(Delivery) /\ Creator' = Creator /\ done[d] \in Nat
      /\ staged[d] \in 0..Len(chat) /\ done[d] <= staged[d] /\ staged[d] = 0
  BY <1>1 DEF Inv, TypeOK, Creator, Bookkeeping
<1>3. Grows /\ done[d] = 0 /\ c >= 1 /\ c <= c
  BY <1>1, <1>2 DEF Grows
<1>4. /\ mls'[d] = c /\ joined'[d] = c
      /\ \A q \in Devices \ {d} : mls'[q] = mls[q] /\ joined'[q] = joined[q]
  BY <1>1, <1>2
<1>5. CreatorLine' /\ Heirs' /\ StoredBefore'
  BY <1>1, <1>3, EpochsKept, HistoryKept
<1>6. Newest'
  <2>1. \A b \in 1..Len(commits) : Author(b) # d
    BY <1>1 DEF Succession, Newest
  <2>2. \A b \in 1..Len(commits) : \A a \in Devices : commits[b].author = a =>
           /\ mls'[a] # 0
           /\ \/ commits[mls'[a]].author = a /\ b <= mls'[a]
              \/ a = Creator /\ Creator \notin MembersOf(mls'[a])
    <3> HIDE DEF Creator
    <3> QED BY <1>4, <2>1 DEF Succession, Newest, Author
  <2> HIDE DEF Creator
  <2> QED BY <1>1, <1>2, <2>2 DEF Newest, Author, MembersOf
<1>7. ASSUME NEW q \in Devices PROVE Reads(q)'
  <2>1. CASE q # d
    BY <1>1, <1>3, <1>4, <2>1, ReadsKept
  <2>2. CASE q = d
    <3>1. 1..done'[d] = {}
      BY <1>1, <1>3
    <3> QED BY <1>3, <1>4, <2>2, <3>1 DEF Reads
  <2> QED BY <2>1, <2>2
<1> QED BY <1>5, <1>6, <1>7 DEF Succession

(* Reading on from an epoch of the creator: nothing up to the cutoff is lost. *)
LEMMA ReadsOn ==
    ASSUME Inv, Signed, Succession, Creator \in Revoked, Len(revLog) = 1,
           NEW d \in Devices, ProcessNext(d), Verdict(d) # "merge", Author(mls[d]) = Creator,
           done[d] + 1 <= Cut, IsCommit(chat[done[d] + 1])
    PROVE  chat[done[d] + 1].ref <= mls[d]
<1> DEFINE i == done[d] + 1
           row == chat[i]
           c == row.ref
<1>1. /\ mls[d] \in 1..Len(commits) /\ done[d] \in Nat /\ i \in DOMAIN chat
      /\ Verdict(d) # "error"
  BY MergesOthers
<1>2. /\ chat \in Seq(Delivery) /\ Cut \in Nat /\ Cutoff(Creator) = Cut /\ commits \in Seq(Commit)
      /\ joined[d] \in 0..Len(commits)
  BY OnlyCreator DEF Inv, TypeOK
<1>3. i \in 1..Cut /\ Len(commits) \in Nat
  BY <1>1, <1>2
<1>4. /\ row.author = Creator /\ c >= 2
      /\ \A b \in 2..(c - 1) : \E m \in 1..(i - 1) : IsCommit(chat[m]) /\ chat[m].ref = b
  BY <1>3 DEF Succession, StoredBefore
<1>5. c \in 1..Len(commits) /\ Author(c) = Creator
  BY <1>1, <1>4 DEF Inv, ReferencesExist, IsCommit, Signed
<1>6. /\ 1 <= joined[d] /\ joined[d] <= mls[d]
      /\ \A j \in 1..done[d] : j <= Cut /\ IsCommit(chat[j]) => chat[j].ref <= mls[d]
  BY <1>1 DEF Succession, Reads
<1>7. \A j \in 1..done[d] : j <= Cut
  BY <1>1, <1>2
<1> SUFFICES ASSUME ~(c <= mls[d]) PROVE FALSE
  OBVIOUS
<1> HIDE DEF i, row, c
<1>8. c - 1 <= mls[d]
  <2>1. CASE c = 2
    BY <1>1, <2>1
  <2>2. CASE c # 2
    <3>1. c - 1 \in 2..(c - 1)
      BY <1>4, <1>5, <2>2
    <3>2. PICK m \in 1..(i - 1) : IsCommit(chat[m]) /\ chat[m].ref = c - 1
      BY <1>4, <3>1
    <3>3. m \in 1..done[d]
      BY <1>1, <3>2 DEF i
    <3> QED BY <1>6, <1>7, <3>2, <3>3
  <2> QED BY <2>1, <2>2
<1>9. c = mls[d] + 1
  BY <1>1, <1>5, <1>8
<1>10. /\ Parent(c) = mls[d] /\ commits[mls[d]].epoch = mls[d] - 1
       /\ commits[joined[d]].epoch = joined[d] - 1
  <2>1. \A b \in 1..Len(commits) : Author(b) = Creator =>
           /\ Parent(b) = b - 1 /\ commits[b].epoch = b - 1
           /\ \A a \in 1..b : Author(a) = Creator
    BY DEF Succession, CreatorLine
  <2>2. joined[d] \in 1..mls[d] /\ joined[d] \in 1..Len(commits)
    BY <1>1, <1>2, <1>3, <1>6
  <2>3. Author(joined[d]) = Creator
    BY <1>1, <2>1, <2>2
  <2>4. (mls[d] + 1) - 1 = mls[d]
    BY <1>1
  <2> QED BY <1>1, <1>5, <1>9, <2>1, <2>2, <2>3, <2>4
<1>11. ~before_join(d, row)
  <2>1. RowEpoch(row) = mls[d] - 1
    BY <1>10 DEF RowEpoch, IsCommit, Parent, row, c, i
  <2> QED BY <1>1, <1>2, <1>6, <1>10, <2>1 DEF before_join
<1>12. ~AlreadyHeld(d, row)
  <2>1. ASSUME row.author = d PROVE FALSE
    <3>1. Author(c) = d /\ d = Creator
      BY <1>4, <1>5, <2>1
    <3>2. \/ Author(mls[d]) = d /\ c <= mls[d]
          \/ Creator \notin MembersOf(mls[d])
      BY <1>5, <3>1 DEF Succession, Newest
    <3>3. Creator \in MembersOf(mls[d])
      BY <1>1 DEF Inv, AuthorsAreMembers, Author
    <3> QED BY <3>2, <3>3
  <2>2. ASSUME NEW j \in 1..done[d], chat[j] = row PROVE FALSE
    BY <1>6, <1>7, <2>2 DEF row, c, i
  <2> QED BY <2>1, <2>2 DEF AlreadyHeld
<1>13. validate_commit_author(d, c, i)
  <2>1. commits[c].author = pin[d] /\ commits[c].author = Creator
    BY <1>1, <1>5 DEF Inv, PinIsAuthor, Author
  <2>2. i <= Cutoff(Creator)
    BY <1>2 DEF i
  <2> QED BY <2>1, <2>2 DEF validate_commit_author
<1>14. Verdict(d) \in {"error", "merge"}
  BY <1>10, <1>11, <1>12, <1>13 DEF Verdict, IsCommit, Parent, row, c, i
<1> QED BY <1>1, <1>14

(* A device reads on in a group that is being taken over.                    *)
LEMMA ReadSuccession ==
    ASSUME Inv, Inv', Signed, Succession, Creator \in Revoked, Len(revLog) = 1,
           NEW d \in Devices, ProcessNext(d)
    PROVE  Succession'
<1> DEFINE c == chat[done[d] + 1].ref
           merged == Verdict(d) = "merge"
<1>1. /\ UNCHANGED <<commits, chat, joined, revLog>>
      /\ mls[d] \in 1..Len(commits) /\ done[d] \in Nat
      /\ done[d] + 1 \in DOMAIN chat /\ done'[d] = done[d] + 1
      /\ \A q \in Devices \ {d} : done'[q] = done[q] /\ mls'[q] = mls[q]
  BY MergesOthers
<1>2. /\ ~merged => mls'[d] = mls[d]
      /\ merged => /\ mls'[d] = c /\ c \in 1..Len(commits) /\ IsCommit(chat[done[d] + 1])
                   /\ Author(c) # d /\ Parent(c) = mls[d] /\ Active(d)
                   /\ validate_commit_author(d, c, done[d] + 1)
  BY MergesOthers
<1>3. /\ chat \in Seq(Delivery) /\ commits \in Seq(Commit) /\ Creator' = Creator /\ Cut \in Nat
      /\ Creator \in Devices /\ Len(commits) \in Nat
      /\ joined[d] \in 0..Len(commits)
      /\ KnownRevoked(known[d]) \in {{}, {Creator}}
  <2>1. chat \in Seq(Delivery) /\ commits \in Seq(Commit) /\ joined[d] \in 0..Len(commits)
    BY DEF Inv, TypeOK
  <2>2. Cut \in Nat /\ KnownRevoked(known[d]) \in {{}, {Creator}}
    BY OnlyCreator
  <2>3. Creator \in Devices
    BY CreatorJoined
  <2>4. Creator' = Creator
    BY DEF Creator
  <2>5. Len(commits) \in Nat
    BY <2>1
  <2> QED BY <2>1, <2>2, <2>3, <2>4, <2>5
<1>4. Grows
  BY <1>1, <1>3 DEF Grows
<1>5. CreatorLine' /\ Heirs' /\ StoredBefore'
  BY <1>1, <1>4, EpochsKept, HistoryKept
<1> HIDE DEF merged, c, Creator
<1>6. ASSUME merged PROVE d = Creator \/ \A b \in 1..Len(commits) : Author(b) # d
  <2> SUFFICES ASSUME d # Creator, NEW b \in 1..Len(commits), Author(b) = d PROVE FALSE
    OBVIOUS
  <2>1. Author(mls[d]) = d
    BY DEF Succession, Newest
  <2>2. pin[d] = d /\ d \in Members(commits[mls[d]].leaves) \ KnownRevoked(known[d])
    <3>1. pin[d] = d
      BY <1>1, <2>1 DEF Inv, PinIsAuthor, Author
    <3>2. d \in Members(commits[mls[d]].leaves)
      BY <1>2, <1>6 DEF Active, MembersOf
    <3> QED BY <1>3, <3>1, <3>2
  <2>3. coordinator(commits[mls[d]].leaves, pin[d], KnownRevoked(known[d])) = d
    BY <2>2 DEF coordinator
  <2>4. Author(c) = pin[d] \/ Author(c) = coordinator(commits[mls[d]].leaves, pin[d], KnownRevoked(known[d]))
    BY <1>2, <1>6 DEF validate_commit_author, Author
  <2> QED BY <1>2, <1>6, <2>2, <2>3, <2>4
<1>7. ASSUME merged, d = Creator PROVE Creator \notin MembersOf(c)
  BY <1>2, <1>7 DEF Succession, Heirs
<1>8. Newest'
  <2>1. ASSUME NEW b \in 1..Len(commits), NEW a \in Devices, commits[b].author = a
        PROVE  /\ mls'[a] # 0
               /\ \/ commits[mls'[a]].author = a /\ b <= mls'[a]
                  \/ a = Creator /\ Creator \notin MembersOf(mls'[a])
    <3>1. /\ mls[a] # 0
          /\ \/ commits[mls[a]].author = a /\ b <= mls[a]
             \/ a = Creator /\ Creator \notin MembersOf(mls[a])
      BY <2>1 DEF Succession, Newest, Author
    <3>2. CASE a # d \/ ~merged
      BY <1>1, <1>2, <3>1, <3>2
    <3>3. CASE a = d /\ merged
      <4>1. d = Creator
        BY <1>6, <2>1, <3>3 DEF Author
      <4>2. mls'[a] = c /\ c # 0 /\ Creator \notin MembersOf(c)
        BY <1>2, <1>3, <1>7, <3>3, <4>1
      <4> QED BY <3>3, <4>1, <4>2
    <3> QED BY <3>2, <3>3
  <2> QED BY <1>1, <1>3, <2>1 DEF Newest, Author, MembersOf
<1>9. ASSUME NEW q \in Devices, q # d PROVE Reads(q)'
  BY <1>1, <1>4, <1>9, ReadsKept
<1>10. Reads(d)'
  <2>1. Cut' = Cut
    BY <1>1 DEF Cut
  <2>2. \A i \in 1..done'[d] : i \in 1..done[d] \/ i = done[d] + 1
    BY <1>1
  <2>3. ASSUME ~merged, Author(mls[d]) = Creator
        PROVE  /\ 1 <= joined[d] /\ joined[d] <= mls[d]
               /\ \A i \in 1..done'[d] : i <= Cut /\ IsCommit(chat[i]) => chat[i].ref <= mls[d]
    <3>1. /\ 1 <= joined[d] /\ joined[d] <= mls[d]
          /\ \A i \in 1..done[d] : i <= Cut /\ IsCommit(chat[i]) => chat[i].ref <= mls[d]
      BY <1>1, <2>3 DEF Succession, Reads
    <3>2. done[d] + 1 <= Cut /\ IsCommit(chat[done[d] + 1]) => chat[done[d] + 1].ref <= mls[d]
      BY <2>3, ReadsOn DEF merged
    <3> QED BY <2>2, <3>1, <3>2
  <2>4. ASSUME merged, Author(c) = Creator
        PROVE  /\ 1 <= joined[d] /\ joined[d] <= c
               /\ \A i \in 1..done'[d] : i <= Cut /\ IsCommit(chat[i]) => chat[i].ref <= c
    <3>1. mls[d] = c - 1 /\ c \in 1..Len(commits) /\ Author(mls[d]) = Creator
      <4>1. Parent(c) = c - 1 /\ \A b \in 1..c : Author(b) = Creator
        BY <1>2, <2>4 DEF Succession, CreatorLine
      <4>2. mls[d] = c - 1 /\ c \in 1..Len(commits)
        BY <1>2, <2>4, <4>1
      <4>3. mls[d] \in 1..c
        BY <1>1, <1>3, <4>2
      <4> QED BY <4>1, <4>2, <4>3
    <3>2. /\ 1 <= joined[d] /\ joined[d] <= mls[d]
          /\ \A i \in 1..done[d] : i <= Cut /\ IsCommit(chat[i]) => chat[i].ref <= mls[d]
      BY <1>1, <3>1 DEF Succession, Reads
    <3>3. \A i \in 1..done[d] : i \in DOMAIN chat
      BY <1>1, <1>3
    <3>4. \A i \in 1..done[d] : chat[i].ref \in Nat
      <4>1. \A i \in DOMAIN chat : chat[i] \in Delivery
        BY <1>3
      <4> QED BY <3>3, <4>1 DEF Delivery
    <3>5. ASSUME NEW i \in 1..done'[d], i <= Cut, IsCommit(chat[i]) PROVE chat[i].ref <= c
      <4>1. CASE i \in 1..done[d]
        <5>1. chat[i].ref \in Nat /\ chat[i].ref <= mls[d]
          BY <3>2, <3>4, <3>5, <4>1
        <5> QED BY <1>1, <1>3, <3>1, <5>1
      <4>2. CASE i = done[d] + 1
        BY <1>3, <3>1, <4>2 DEF c
      <4> QED BY <2>2, <4>1, <4>2
    <3>6. joined[d] <= c
      BY <1>1, <1>3, <3>1, <3>2
    <3> QED BY <3>2, <3>5, <3>6
  <2> QED BY <1>1, <1>2, <1>3, <2>1, <2>3, <2>4 DEF Reads, Author, IsCommit
<1> QED BY <1>5, <1>8, <1>9, <1>10 DEF Succession

(* Adding a leaf adds that member only.                                      *)
LEMMA AddLeafAdds ==
    ASSUME NEW leaves \in Leaves, NEW x \in Devices
    PROVE  Members(AddLeaf(leaves, x)) \subseteq Members(leaves) \cup {x}
<1> DEFINE vacant == {i \in DOMAIN leaves : leaves[i] = NoOne}
           k == CHOOSE i \in vacant : \A j \in vacant : i <= j
<1>1. DOMAIN leaves = 1..Len(leaves) /\ Len(leaves) \in Nat
  BY DEF Leaves
<1>2. CASE vacant = {}
  <2>1. AddLeaf(leaves, x) = Append(leaves, x)
    BY <1>2 DEF AddLeaf
  <2>2. /\ DOMAIN Append(leaves, x) = 1..(Len(leaves) + 1)
        /\ \A i \in 1..Len(leaves) : Append(leaves, x)[i] = leaves[i]
        /\ Append(leaves, x)[Len(leaves) + 1] = x
    BY <1>1 DEF Leaves
  <2>3. \A i \in 1..(Len(leaves) + 1) : i \in 1..Len(leaves) \/ i = Len(leaves) + 1
    BY <1>1
  <2> QED BY <1>1, <2>1, <2>2, <2>3 DEF Members
<1>3. CASE vacant # {}
  <2>1. AddLeaf(leaves, x) = [leaves EXCEPT ![k] = x]
    BY <1>3 DEF AddLeaf
  <2> HIDE DEF k
  <2>2. /\ DOMAIN AddLeaf(leaves, x) = DOMAIN leaves
        /\ \A i \in DOMAIN leaves : AddLeaf(leaves, x)[i] \in {leaves[i], x}
    BY <2>1
  <2> QED BY <2>2 DEF Members
<1> QED BY <1>2, <1>3

(* The Commit of a device that survives the creator continues its own line or *)
(* takes over from the creator's, and is without the creator.                 *)
LEMMA HeirCommits ==
    ASSUME Inv, Barrier, Succession, Creator \in Revoked, Len(revLog) = 1,
           NEW d \in Devices, Commits(d)
    PROVE  /\ d # Creator
           /\ Creator \notin Members(commits'[Len(commits) + 1].leaves)
           /\ \/ Author(mls[d]) = d
              \/ /\ Author(mls[d]) = Creator
                 /\ \A b \in 1..Len(commits) : Author(b) # d
                 /\ d = LowestLive(commits[mls[d]].leaves, {Creator})
                 /\ Covers(mls[d])
<1> DEFINE old == commits[mls[d]].leaves
           new == commits'[Len(commits) + 1].leaves
           gone == KnownRevoked(known[d])
<1>1. /\ mls[d] \in 1..Len(commits) /\ mls[d] # 0 /\ Len(commits) \in Nat
      /\ \/ MustRemove(d) /\ pc[d] = "reconcile" /\ new = Blank(old, gone)
         \/ \E x \in Devices : MayInvite(d, x, Revoked) /\ new = AddLeaf(old, x)
  <2>1. mls[d] # 0
    BY DEF Commits
  <2> QED BY <2>1, CommitMade
<1>2. old \in Leaves /\ pin[d] \in Members(old) /\ pin[d] = Author(mls[d])
  BY <1>1, HeldEpoch DEF Inv, PinIsAuthor, Author
<1>3. /\ revLog[1].device = Creator /\ Revoked = {Creator} /\ known[d] \in {0, 1}
      /\ known[d] = 0 => gone = {}
      /\ known[d] = 1 => gone = {Creator}
  BY OnlyCreator
<1>4. Creator \in Devices
  BY CreatorJoined
<1> HIDE DEF old, new, gone, Creator
<1>5. CASE MustRemove(d) /\ pc[d] = "reconcile" /\ new = Blank(old, gone)
  <2>1. d \notin gone /\ coordinator(old, pin[d], gone) = d /\ Members(old) \cap gone # {}
    BY <1>5 DEF MustRemove, old, gone
  <2>2. known[d] = 1 /\ gone = {Creator} /\ Creator \in Members(old) /\ d # Creator
    BY <1>3, <2>1
  <2>3. Author(mls[d]) = Creator
    BY <1>1, <2>2 DEF Succession, Heirs, MembersOf, old
  <2>4. d = LowestLive(old, {Creator})
    BY <1>2, <2>1, <2>2, <2>3 DEF coordinator
  <2>5. \A b \in 1..Len(commits) : Author(b) # d
    BY <2>2, <2>3 DEF Succession, Newest
  <2>6. Covers(mls[d])
    <3>1. Cut <= done[d]
      <4>1. \A i \in 1..known[d] : revLog[i].cutoff <= done[d]
        BY <1>5 DEF Barrier, HistoryBeforeElection
      <4>2. 1 \in 1..known[d]
        BY <2>2
      <4> QED BY <4>1, <4>2 DEF Cut
    <3>2. done[d] \in Nat /\ Cut \in Nat
      BY OnlyCreator DEF Inv, TypeOK
    <3>3. \A n \in 1..Cut : n \in 1..done[d] /\ n <= Cut
      BY <3>1, <3>2
    <3>4. \A i \in 1..done[d] : i <= Cut /\ IsCommit(chat[i]) => chat[i].ref <= mls[d]
      BY <1>1, <2>3 DEF Succession, Reads
    <3> QED BY <3>3, <3>4 DEF Covers
  <2>7. Members(new) = Members(old) \ {Creator}
    BY <1>2, <1>5, <2>2, BlankMembers
  <2> QED BY <2>2, <2>3, <2>4, <2>5, <2>6, <2>7 DEF new, old
<1>6. ASSUME NEW x \in Devices, MayInvite(d, x, Revoked), new = AddLeaf(old, x)
      PROVE  d # Creator /\ Creator \notin Members(new) /\ Author(mls[d]) = d
  <2>1. /\ x \notin Revoked /\ d \notin Revoked /\ Members(old) \cap Revoked = {}
        /\ coordinator(old, pin[d], Revoked) = d
    BY <1>6 DEF MayInvite, ensure_can_send, MembersOf, old
  <2>2. pin[d] = d
    BY <1>2, <2>1 DEF coordinator
  <2>3. Members(new) \subseteq Members(old) \cup {x}
    BY <1>2, <1>6, AddLeafAdds
  <2> QED BY <1>2, <1>3, <2>1, <2>2, <2>3
<1> QED BY <1>1, <1>5, <1>6 DEF new

(* A survivor commits.                                                       *)
LEMMA CommitSuccession ==
    ASSUME Inv, Inv', Barrier, Succession, Creator \in Revoked, Len(revLog) = 1,
           NEW d \in Devices, Commits(d)
    PROVE  Succession'
<1>0. PICK n \in Nat : n = Len(commits)
  BY CommitMade
<1>1. /\ Len(commits') = n + 1 /\ n \in Nat
      /\ \A c \in 1..n : commits'[c] = commits[c]
      /\ commits'[n + 1].author = d
      /\ commits'[n + 1].parent = mls[d]
      /\ mls[d] \in 1..n
      /\ mls'[d] = n + 1
      /\ \A q \in Devices \ {d} : mls'[q] = mls[q]
  BY <1>0, CommitMade
<1>2. /\ d # Creator
      /\ Creator \notin Members(commits'[n + 1].leaves)
      /\ \/ Author(mls[d]) = d
         \/ /\ Author(mls[d]) = Creator
            /\ \A b \in 1..n : Author(b) # d
            /\ d = LowestLive(commits[mls[d]].leaves, {Creator})
            /\ Covers(mls[d])
  BY <1>0, HeirCommits
<1>3. UNCHANGED <<chat, joined, done, revLog>>
  BY DEF Commits
<1>4. /\ chat \in Seq(Delivery) /\ mls \in [Devices -> 0..n]
  BY <1>0 DEF Inv, TypeOK
<1>5. Grows
  BY <1>3, <1>4 DEF Grows
<1>6. Creator' = Creator /\ (\A r : Covers(r) => Covers(r)') /\ StoredBefore'
  BY <1>3, <1>5, HistoryKept
<1>7. Creator \in Devices
  BY CreatorJoined
<1>8. /\ \A c \in 1..n : Author(c)' = Author(c) /\ Parent(c)' = Parent(c)
      /\ \A c \in 1..n : MembersOf(c)' = MembersOf(c)
      /\ Author(n + 1)' = d /\ Parent(n + 1)' = mls[d]
      /\ MembersOf(n + 1)' = Members(commits'[n + 1].leaves)
  BY <1>1 DEF Author, Parent, MembersOf
<1>9. \A c \in 1..(n + 1) : c \in 1..n \/ c = n + 1
  BY <1>1
<1> HIDE DEF Creator
<1>10. CreatorLine'
  <2>1. 1 \in 1..n /\ \A c \in 1..n : \A b \in 1..c : b \in 1..n
    BY <1>1
  <2>2. Author(1)' = Creator
    BY <1>8, <2>1 DEF Succession, CreatorLine
  <2>3. ASSUME NEW c \in 1..(n + 1), Author(c)' = Creator
        PROVE  /\ Parent(c)' = c - 1 /\ commits'[c].epoch = c - 1
               /\ \A b \in 1..c : Author(b)' = Creator
    <3>1. c \in 1..n
      BY <1>2, <1>8, <1>9, <2>3
    <3>2. /\ Parent(c) = c - 1 /\ commits[c].epoch = c - 1
          /\ \A b \in 1..c : Author(b) = Creator
      BY <1>0, <1>8, <2>3, <3>1 DEF Succession, CreatorLine
    <3> QED BY <1>1, <1>8, <2>1, <3>1, <3>2
  <2> QED BY <1>1, <1>6, <2>2, <2>3 DEF CreatorLine
<1>11. Heirs'
  <2>1. ASSUME NEW c \in 1..n, Author(c) # Creator
        PROVE  Creator \notin MembersOf(c)' /\ (Continues(c)' \/ Succeeds(c)')
    <3>1. Creator \notin MembersOf(c) /\ (Continues(c) \/ Succeeds(c))
      BY <1>0, <2>1 DEF Succession, Heirs
    <3>2. \A b \in 1..(c - 1) : b \in 1..n
      BY <1>1
    <3>3. ASSUME Continues(c) PROVE Continues(c)'
      <4>1. /\ Parent(c) \in 1..(c - 1)
            /\ Author(Parent(c)) = Author(c)
            /\ \A b \in (Parent(c) + 1)..(c - 1) : Author(b) # Author(c)
        BY <3>3 DEF Continues
      <4>2. \A b \in (Parent(c) + 1)..(c - 1) : b \in 1..n
        BY <1>1, <4>1
      <4>3. /\ Parent(c)' \in 1..(c - 1)
            /\ Author(Parent(c))' = Author(c)'
            /\ \A b \in (Parent(c)' + 1)..(c - 1) : Author(b)' # Author(c)'
        <5>1. Author(Parent(c))' = Author(c)'
          <6>1. commits'[commits'[c].parent].author = commits'[c].author
            <7>1. Parent(c) \in 1..n
              BY <3>2, <4>1
            <7> QED BY <1>1, <4>1, <7>1 DEF Author, Parent
          <6> QED BY <6>1 DEF Author, Parent
        <5> QED BY <1>8, <4>1, <4>2, <5>1
      <4> QED BY <4>3 DEF Continues
    <3>4. ASSUME Succeeds(c) PROVE Succeeds(c)'
      <4>1. /\ Parent(c) \in 1..(c - 1)
            /\ Author(Parent(c)) = Creator
            /\ \A b \in 1..(c - 1) : Author(b) # Author(c)
            /\ Author(c) = LowestLive(commits[Parent(c)].leaves, {Creator})
            /\ Covers(Parent(c))
        BY <3>4 DEF Succeeds, First
      <4>2. Parent(c) \in 1..n /\ commits'[Parent(c)] = commits[Parent(c)]
        BY <1>1, <3>2, <4>1
      <4>3. Parent(c)' \in 1..(c - 1) /\ Author(Parent(c))' = Creator'
        <5>1. commits'[commits'[c].parent].author = Creator
          BY <1>1, <4>1, <4>2 DEF Author, Parent
        <5> QED BY <1>6, <1>8, <4>1, <5>1 DEF Author, Parent
      <4>4. First(c)'
        BY <1>8, <3>2, <4>1 DEF First
      <4>5. (Author(c) = LowestLive(commits[Parent(c)].leaves, {Creator}))'
        <5>1. commits'[c].author = LowestLive(commits'[commits'[c].parent].leaves, {Creator})
          BY <1>1, <4>1, <4>2 DEF Author, Parent
        <5> QED BY <1>6, <5>1 DEF Author, Parent
      <4>6. Covers(Parent(c))'
        <5>1. Covers(Parent(c)) => \A k \in 1..Cut' : IsCommit(chat'[k]) => chat'[k].ref <= commits[c].parent
          BY <1>3 DEF Covers, Cut, IsCommit, Parent
        <5> QED BY <1>1, <4>1, <5>1 DEF Covers, IsCommit, Parent
      <4> QED BY <4>3, <4>4, <4>5, <4>6 DEF Succeeds
    <3> QED BY <1>8, <3>1, <3>3, <3>4
  <2>2. Continues(n + 1)' \/ Succeeds(n + 1)'
    <3>1. mls[d] \in 1..((n + 1) - 1) /\ (n + 1) - 1 = n
      BY <1>1
    <3>2. CASE Author(mls[d]) = d
      <4>1. \A b \in 1..n : Author(b) = d => b <= mls[d]
        BY <1>0, <1>2 DEF Succession, Newest
      <4>2. \A b \in (mls[d] + 1)..n : b \in 1..n /\ ~(b <= mls[d])
        BY <1>1
      <4>3. \A b \in (mls[d] + 1)..n : Author(b)' # d
        BY <1>8, <4>1, <4>2
      <4>4. commits'[commits'[n + 1].parent].author = d
        BY <1>1, <3>2 DEF Author
      <4>5. Author(Parent(n + 1))' = d
        BY <4>4 DEF Author, Parent
      <4> QED BY <1>8, <3>1, <4>3, <4>5 DEF Continues
    <3>3. CASE Author(mls[d]) # d
      <4>1. commits'[commits'[n + 1].parent].author = Creator
        BY <1>1, <1>2, <3>3 DEF Author
      <4>2. Author(Parent(n + 1))' = Creator'
        BY <1>6, <4>1 DEF Author, Parent
      <4>3. First(n + 1)'
        BY <1>2, <1>8, <3>1, <3>3 DEF First
      <4>4. commits'[n + 1].author = LowestLive(commits'[commits'[n + 1].parent].leaves, {Creator})
        BY <1>1, <1>2, <3>3
      <4>5. (Author(n + 1) = LowestLive(commits[Parent(n + 1)].leaves, {Creator}))'
        BY <1>6, <4>4 DEF Author, Parent
      <4>6. Covers(Parent(n + 1))'
        <5>1. \A k \in 1..Cut' : IsCommit(chat'[k]) => chat'[k].ref <= mls[d]
          BY <1>2, <1>3, <3>3 DEF Covers, Cut, IsCommit
        <5> QED BY <1>8, <5>1 DEF Covers, IsCommit
      <4> QED BY <1>8, <3>1, <4>2, <4>3, <4>5, <4>6 DEF Succeeds
    <3> QED BY <3>2, <3>3
  <2> QED BY <1>1, <1>2, <1>6, <1>8, <1>9, <2>1, <2>2 DEF Heirs
<1>12. Newest'
  <2>1. ASSUME NEW c \in 1..(n + 1), NEW a \in Devices, Author(c)' = a
        PROVE  /\ mls'[a] # 0
               /\ \/ Author(mls[a])' = a /\ c <= mls'[a]
                  \/ a = Creator /\ Creator \notin MembersOf(mls[a])'
    <3>1. CASE a = d
      <4>1. commits'[mls'[a]].author = a /\ mls'[a] = n + 1 /\ c <= n + 1
        BY <1>1, <3>1
      <4> QED BY <1>1, <4>1 DEF Author
    <3>2. CASE a # d
      <4>1. c \in 1..n /\ Author(c) = a /\ mls'[a] = mls[a]
        BY <1>1, <1>8, <1>9, <2>1, <3>2
      <4>2. /\ mls[a] # 0
            /\ \/ Author(mls[a]) = a /\ c <= mls[a]
               \/ a = Creator /\ Creator \notin MembersOf(mls[a])
        BY <1>0, <4>1 DEF Succession, Newest
      <4>3. mls[a] \in 1..n
        BY <1>1, <1>4, <4>2
      <4>4. commits'[mls'[a]] = commits[mls[a]]
        BY <1>1, <4>1, <4>3
      <4> QED BY <4>1, <4>2, <4>4 DEF Author, MembersOf
    <3> QED BY <3>1, <3>2
  <2> QED BY <1>1, <1>6, <2>1 DEF Newest
<1>13. ASSUME NEW q \in Devices PROVE Reads(q)'
  <2>1. CASE q = d
    <3>1. commits'[mls'[d]].author # Creator'
      BY <1>1, <1>2, <1>6
    <3> QED BY <2>1, <3>1 DEF Reads, Author
  <2>2. CASE q # d
    BY <1>0, <1>1, <1>3, <1>5, <2>2, ReadsKept
  <2> QED BY <2>1, <2>2
<1> QED BY <1>6, <1>10, <1>11, <1>12, <1>13 DEF Succession

(* Every step of a group whose creator was revoked keeps the succession.     *)
LEMMA StepSuccession ==
    ASSUME Inv, Inv', Barrier, Bookkeeping, Signed, Succession, Creator \in Revoked,
           Len(revLog) = 1, Len(revLog') = 1, [Next]_vars
    PROVE  Succession'
<1>1. ~AppendRevocation
  <2>1. revLog \in Seq(Revocation)
    BY DEF Inv, TypeOK
  <2>2. AppendRevocation => Len(revLog') = Len(revLog) + 1
    BY <2>1 DEF AppendRevocation
  <2> QED BY <2>2
<1>2. ASSUME UNCHANGED <<commits, mls, joined, done, revLog>>, Grows PROVE Succession'
  <2>1. CreatorLine' /\ Heirs' /\ StoredBefore' /\ Creator' = Creator
    BY <1>2, EpochsKept, HistoryKept
  <2>2. Newest'
    <3> HIDE DEF Creator
    <3> QED BY <1>2, <2>1 DEF Succession, Newest, Author, MembersOf
  <2>3. \A q \in Devices : Reads(q)'
    BY <1>2, ReadsKept
  <2> QED BY <2>1, <2>2, <2>3 DEF Succession
<1> QED BY <1>1, <1>2, StepShape, ReadSuccession, JoinSuccession, CommitSuccession

(* Every step keeps the lineage.                                             *)
LEMMA NextLineage ==
    Inv /\ Inv' /\ Barrier /\ Undisturbed /\ Lineage /\ [Next]_vars => Lineage'
<1> SUFFICES ASSUME Inv, Inv', Barrier, Undisturbed, Lineage, [Next]_vars PROVE Lineage'
  OBVIOUS
<1>1. Signed'
  BY NextSigned DEF Lineage
<1>2. Creator' = Creator
  BY DEF Creator
<1>3. revLog \in Seq(Revocation) /\ Len(revLog) \in Nat
  <2>1. revLog \in Seq(Revocation)
    BY DEF Inv, TypeOK
  <2> QED BY <2>1
<1>4. revLog' = revLog \/ (revLog' = Append(revLog, revoking) /\ AppendRevocation)
  BY StepShape DEF ProcessNext, Joins, Commits, AppendRevocation, broker
<1>5. Revoked \subseteq Revoked'
  <2>1. DOMAIN revLog \subseteq DOMAIN revLog' /\ \A i \in DOMAIN revLog : revLog'[i] = revLog[i]
    BY <1>3, <1>4
  <2> QED BY <2>1 DEF Revoked
<1>6. ASSUME Creator \notin Revoked' PROVE OneLine'
  BY <1>5, <1>6, StepOneLine DEF Lineage
<1>7. ASSUME Creator \in Revoked', Len(revLog') = 1 PROVE Succession'
  <2>1. CASE revLog' = revLog
    <3>1. Creator \in Revoked /\ Len(revLog) = 1
      BY <1>7, <2>1 DEF Revoked
    <3> QED BY <1>7, <3>1, StepSuccession DEF Lineage, Undisturbed
  <2>2. CASE revLog' = Append(revLog, revoking) /\ AppendRevocation
    <3>1. Len(revLog') = Len(revLog) + 1
      BY <1>3, <2>2
    <3>2. Len(revLog) = 0
      BY <1>3, <1>7, <3>1
    <3>3. revLog = << >>
      BY <1>3, <3>2
    <3> QED BY <2>2, <3>3, SuccessionBegins DEF Undisturbed
  <2> QED BY <1>4, <2>1, <2>2
<1> QED BY <1>1, <1>2, <1>6, <1>7 DEF Lineage

(* The survivors of a group are on one line of epochs, however late each reads *)
(* CHAT and the journal and whatever crashes, while the creator is not revoked *)
(* or nobody else is: until then the creator makes every Commit; after it, the *)
(* barrier of resume makes every successor take over from the creator's last   *)
(* epoch up to the cutoff, where the lowest leaf is the same for all, and       *)
(* validate_commit_author and the cutoff keep everyone else from committing.    *)
THEOREM SurvivorsStayTogether == Spec => []SurvivorLineage
<1>1. Init => Lineage
  <2> SUFFICES ASSUME Init PROVE Lineage
    OBVIOUS
  <2>1. revLog = << >> /\ chat = << >> /\ \A d \in Devices : outbox[d] = << >>
    BY DEF Init
  <2>2. Signed
    BY <2>1 DEF Signed
  <2>3. OneLine
    BY <2>1, InitUndisturbed DEF Undisturbed, Orderly
  <2>4. Len(revLog) # 1
    BY <2>1
  <2> QED BY <2>2, <2>3, <2>4 DEF Lineage
<1> QED BY <1>1, InitInv, InitOrder, InitBarrier, InitUndisturbed, NextInv, NextOrder, NextBarrier,
           NextUndisturbed, NextLineage, LineageSurvives, PTL DEF Spec

-----------------------------------------------------------------------------
(* Ciphertexts that must not leave.                                         *)

\* The row holds the ciphertext m.
Holds(row, m) == row.kind = "message" /\ row.ref = m

\* A ciphertext that is not in CHAT has a row of its own in its author's queue; one
\* whose acknowledgment was lost is in CHAT.
Ledger ==
    /\ \A m \in DOMAIN messages : messages[m].state # 0
    /\ \A m \in DOMAIN messages : \A a \in Devices : messages[m].author = a =>
         InChat(m) \/ \E i \in DOMAIN outbox[a] :
                         Holds(outbox[a][i], m) /\ outbox[a][i].state \in {"unsent", "blocked"}
    /\ \A d \in Devices : \A i \in DOMAIN outbox[d] : outbox[d][i].kind = "message" =>
         /\ outbox[d][i].ref \in DOMAIN messages
         /\ messages[outbox[d][i].ref].author = d
         /\ outbox[d][i].state = "stored" => InChat(outbox[d][i].ref)
         /\ \A j \in DOMAIN outbox[d] : Holds(outbox[d][j], outbox[d][i].ref) => j = i

FlushPoints == {"flush1", "flush2", "flush3"}

\* A device that flushes ciphertexts holds an epoch without members it knows revoked.
Clean ==
    \A d \in Devices : \A i \in Pending(outbox[d]) :
        pc[d] \in FlushPoints /\ outbox[d][i].kind = "message" =>
            MembersOf(mls[d]) \cap KnownRevoked(known[d]) = {}

\* The rows a step other than Encrypt leaves: each holds what it held, and it is as it
\* was, blocked, or in CHAT; the new ones hold no ciphertext.
KeepsRows(q) ==
    /\ \A i \in DOMAIN outbox[q] :
         /\ i \in DOMAIN outbox'[q]
         /\ outbox'[q][i].kind = outbox[q][i].kind
         /\ outbox'[q][i].ref = outbox[q][i].ref
         /\ \/ outbox'[q][i].state = outbox[q][i].state
            \/ i \in Pending(outbox[q]) /\ outbox'[q][i].state = "blocked"
            \/ i \in Pending(outbox[q]) /\ \A m : Holds(outbox[q][i], m) => InChat(m)'
    /\ \A i \in DOMAIN outbox'[q] : i \in DOMAIN outbox[q] \/ outbox'[q][i].kind # "message"

Stays == \A m : InChat(m) => InChat(m)'

(* Queues that are left alone.                                              *)
LEMMA SameRows == ASSUME NEW q, outbox'[q] = outbox[q] PROVE KeepsRows(q)
BY DEF KeepsRows

(* Blocking rows and adding others than ciphertexts.                        *)
LEMMA BlockedKept ==
    ASSUME NEW d \in Devices, outbox[d] \in Seq(Row), NEW gone,
           outbox'[d] = block_revoked_outbox(d, outbox[d], gone)
    PROVE  KeepsRows(d)
<1> DEFINE rows == outbox[d]
           held == [i \in DOMAIN rows |->
                      IF rows[i].kind = "message" /\ i \in Pending(rows)
                      THEN [rows[i] EXCEPT !.state = "blocked"] ELSE rows[i]]
<1>1. \A i \in DOMAIN rows : rows[i] \in Row
  OBVIOUS
<1>2. \A i \in DOMAIN rows :
         /\ held[i].kind = rows[i].kind /\ held[i].ref = rows[i].ref
         /\ held[i].state = rows[i].state \/ (i \in Pending(rows) /\ held[i].state = "blocked")
  BY <1>1 DEF Row
<1>3. DOMAIN held = DOMAIN rows
  OBVIOUS
<1>4. outbox'[d] = rows \/ outbox'[d] = held
  BY DEF block_revoked_outbox
<1> HIDE DEF held
<1> QED BY <1>2, <1>3, <1>4 DEF KeepsRows

LEMMA AppendKept ==
    ASSUME NEW d \in Devices, NEW rows \in Seq(Row), NEW row \in Row, row.kind # "message",
           outbox'[d] = Append(rows, row),
           \A i \in DOMAIN outbox[d] :
             /\ i \in DOMAIN rows
             /\ rows[i].kind = outbox[d][i].kind /\ rows[i].ref = outbox[d][i].ref
             /\ \/ rows[i].state = outbox[d][i].state
                \/ i \in Pending(outbox[d]) /\ rows[i].state = "blocked",
           \A i \in DOMAIN rows : i \in DOMAIN outbox[d] \/ rows[i].kind # "message"
    PROVE  KeepsRows(d)
<1> DEFINE new == Append(rows, row)
<1>1. /\ DOMAIN new = 1..(Len(rows) + 1) /\ DOMAIN rows = 1..Len(rows) /\ Len(rows) \in Nat
      /\ \A i \in 1..Len(rows) : new[i] = rows[i]
      /\ new[Len(rows) + 1] = row
  BY AppendProperties
<1> HIDE DEF new
<1>2. \A i \in DOMAIN rows : i \in DOMAIN new /\ new[i] = rows[i]
  BY <1>1
<1>3. \A i \in DOMAIN new : i \in DOMAIN rows \/ new[i].kind # "message"
  <2> TAKE i \in DOMAIN new
  <2>1. i \in 1..Len(rows) \/ i = Len(rows) + 1
    BY <1>1
  <2> QED BY <1>1, <2>1
<1>4. outbox'[d] = new
  BY DEF new
<1> QED BY <1>2, <1>3, <1>4 DEF KeepsRows

(* A published ciphertext is in CHAT.                                       *)
LEMMA PublishKept ==
    ASSUME Inv, Ledger, NEW d \in Devices, Publish(d)
    PROVE  /\ Stays /\ \A q \in Devices : KeepsRows(q)
           /\ \A m : InChat(m)' => InChat(m) \/ \E i \in Pending(outbox[d]) : Holds(outbox[d][i], m)
<1>1. outbox \in [Devices -> Seq(Row)] /\ chat \in Seq(Delivery)
  BY DEF Inv, TypeOK
<1>2. PICK i \in DOMAIN outbox[d], state \in {"sent", "stored"} :
         /\ i \in Pending(outbox[d])
         /\ \A q \in Devices \ {d} : outbox'[q] = outbox[q]
         /\ DOMAIN outbox'[d] = DOMAIN outbox[d]
         /\ \A k \in DOMAIN outbox[d] \ {i} : outbox'[d][k] = outbox[d][k]
         /\ outbox'[d][i] = [outbox[d][i] EXCEPT !.state = state]
         /\ \/ Store(d, outbox[d][i])
            \/ outbox[d][i].state = "stored" /\ UNCHANGED <<chat, mailbox>>
  BY PublishedRow
<1> DEFINE row == outbox[d][i]
           new == [kind |-> row.kind, ref |-> row.ref, author |-> d]
<1>3. row \in Row /\ Len(chat) \in Nat /\ DOMAIN chat = 1..Len(chat)
  BY <1>1
<1>4. new.kind = row.kind /\ new.ref = row.ref
  OBVIOUS
<1>5. chat' = chat \/ (chat' = Append(chat, new) /\ row.kind # "welcome")
  BY <1>2 DEF Store
<1> HIDE DEF new
<1>6. CASE chat' = chat
  <2>1. row.kind = "message" => row.state = "stored"
    <3>1. Store(d, row) /\ row.kind = "message" => chat' = Append(chat, new)
      BY DEF Store, new
    <3>2. Append(chat, new) # chat
      <4>1. Len(Append(chat, new)) = Len(chat) + 1
        BY <1>1
      <4>2. \A k \in Nat : k + 1 # k
        OBVIOUS
      <4>3. Len(Append(chat, new)) # Len(chat)
        BY <1>3, <4>1, <4>2, Zenon
      <4> QED BY <4>3, Zenon
    <3> QED BY <1>2, <1>6, <3>1, <3>2
  <2>2. \A m : InChat(m)' <=> InChat(m)
    BY <1>6 DEF InChat
  <2>3. \A m : Holds(row, m) => InChat(m)'
    BY <2>1, <2>2 DEF Ledger, Holds
  <2>4. outbox'[d][i].kind = row.kind /\ outbox'[d][i].ref = row.ref
    BY <1>2, <1>3 DEF Row
  <2>5. KeepsRows(d)
    BY <1>2, <2>3, <2>4 DEF KeepsRows
  <2> QED BY <1>2, <2>2, <2>5, SameRows DEF Stays
<1>7. CASE chat' = Append(chat, new) /\ row.kind # "welcome"
  <2>1. /\ DOMAIN chat' = 1..(Len(chat) + 1)
        /\ \A n \in 1..Len(chat) : chat'[n] = chat[n]
        /\ chat'[Len(chat) + 1] = new
    BY <1>1, <1>3, <1>7
  <2>2. Stays
    <3> SUFFICES ASSUME NEW m, NEW n \in DOMAIN chat, chat[n].kind = "message", chat[n].ref = m
                 PROVE  \E k \in DOMAIN chat' : chat'[k].kind = "message" /\ chat'[k].ref = m
      BY DEF Stays, InChat
    <3> QED BY <1>3, <2>1
  <2>3. \A m : Holds(row, m) => InChat(m)'
    <3> SUFFICES ASSUME NEW m, Holds(row, m)
                 PROVE  \E k \in DOMAIN chat' : chat'[k].kind = "message" /\ chat'[k].ref = m
      BY DEF InChat
    <3>1. Len(chat) + 1 \in DOMAIN chat'
      BY <1>3, <2>1
    <3> QED BY <1>4, <2>1, <3>1 DEF Holds
  <2>4. outbox'[d][i].kind = row.kind /\ outbox'[d][i].ref = row.ref
    BY <1>2, <1>3 DEF Row
  <2>5. KeepsRows(d)
    BY <1>2, <2>3, <2>4 DEF KeepsRows
  <2>6. ASSUME NEW m, NEW n \in DOMAIN chat', chat'[n].kind = "message", chat'[n].ref = m
        PROVE  InChat(m) \/ \E k \in Pending(outbox[d]) : Holds(outbox[d][k], m)
    <3>1. CASE n \in 1..Len(chat)
      BY <1>3, <2>1, <2>6, <3>1 DEF InChat
    <3>2. CASE n = Len(chat) + 1
      BY <1>2, <1>4, <2>1, <2>6, <3>2 DEF Holds
    <3> QED BY <1>3, <2>1, <3>1, <3>2
  <2>7. \A m : InChat(m)' => InChat(m) \/ \E k \in Pending(outbox[d]) : Holds(outbox[d][k], m)
    BY <2>6 DEF InChat
  <2> QED BY <1>2, <2>2, <2>5, <2>7, SameRows
<1> QED BY <1>5, <1>6, <1>7

(* Every step but Encrypt keeps rows and what is in CHAT.                   *)
LEMMA NextKeeps ==
    ASSUME Inv, Ledger, [Next]_vars, \A d \in Devices : ~Encrypt(d)
    PROVE  Stays /\ messages' = messages /\ \A q \in Devices : KeepsRows(q)
<1>1. /\ outbox \in [Devices -> Seq(Row)] /\ Len(commits) \in Nat
  <2>1. outbox \in [Devices -> Seq(Row)] /\ commits \in Seq(Commit)
    BY DEF Inv, TypeOK
  <2> QED BY <2>1
<1>2. ASSUME chat' = chat PROVE Stays
  BY <1>2 DEF Stays, InChat
<1>3. ASSUME UNCHANGED <<chat, messages, outbox>>
      PROVE  Stays /\ messages' = messages /\ \A q \in Devices : KeepsRows(q)
  BY <1>2, <1>3, SameRows
<1>4. ASSUME NEW d \in Devices, UNCHANGED <<chat, messages>>, NEW gone,
             outbox' = [outbox EXCEPT ![d] = block_revoked_outbox(d, outbox[d], gone)]
      PROVE  Stays /\ messages' = messages /\ \A q \in Devices : KeepsRows(q)
  <2> DEFINE rows == block_revoked_outbox(d, outbox[d], gone)
  <2>1. outbox'[d] = rows /\ \A q \in Devices \ {d} : outbox'[q] = outbox[q]
    BY <1>1, <1>4
  <2>2. KeepsRows(d)
    BY <1>1, <2>1, BlockedKept
  <2> HIDE DEF rows
  <2> QED BY <1>2, <1>4, <2>1, <2>2, SameRows
<1>5. CASE UNCHANGED vars
  BY <1>3, <1>5 DEF vars, broker, store
<1>6. ASSUME NEW d \in Devices, Publish(d)
      PROVE  Stays /\ messages' = messages /\ \A q \in Devices : KeepsRows(q)
  BY <1>6, PublishKept DEF Publish
<1>7. ASSUME NEW d \in Devices, Audit(d)
      PROVE  Stays /\ messages' = messages /\ \A q \in Devices : KeepsRows(q)
  <2>1. /\ UNCHANGED <<chat, messages>>
        /\ outbox' = outbox \/ outbox' = [outbox EXCEPT ![d] = block_revoked_outbox(d, outbox[d], Revoked)]
    BY <1>7 DEF Audit, broker
  <2> QED BY <1>3, <1>4, <2>1
<1>8. ASSUME NEW d \in Devices, ProcessNext(d)
      PROVE  Stays /\ messages' = messages /\ \A q \in Devices : KeepsRows(q)
  <2> DEFINE gone == KnownRevoked(known[d])
  <2>1. /\ UNCHANGED <<chat, messages>>
        /\ outbox' = outbox \/ outbox' = [outbox EXCEPT ![d] = block_revoked_outbox(d, outbox[d], gone)]
    BY <1>8 DEF ProcessNext, MergeCommit, broker
  <2> HIDE DEF gone
  <2> QED BY <1>3, <1>4, <2>1
<1>9. ASSUME NEW d \in Devices, reconcile_revocations(d)
      PROVE  Stays /\ messages' = messages /\ \A q \in Devices : KeepsRows(q)
  <2> DEFINE gone == KnownRevoked(known[d])
             rows == block_revoked_outbox(d, outbox[d], gone)
             row == HandshakeRow(Len(commits) + 1)
  <2>1. /\ UNCHANGED <<chat, messages>>
        /\ outbox' = outbox \/ outbox' = [outbox EXCEPT ![d] = Append(rows, row)]
    BY <1>9 DEF reconcile_revocations, broker, LocalCommit
  <2>2. CASE outbox' = [outbox EXCEPT ![d] = Append(rows, row)]
    <3>1. row \in Row /\ row.kind # "message"
      BY <1>1 DEF HandshakeRow, Row
    <3>2. rows \in Seq(Row) /\ DOMAIN rows = DOMAIN outbox[d]
      BY <1>1, BlockedRows
    <3>3. \A i \in DOMAIN outbox[d] :
             /\ rows[i].kind = outbox[d][i].kind /\ rows[i].ref = outbox[d][i].ref
             /\ \/ rows[i].state = outbox[d][i].state
                \/ i \in Pending(outbox[d]) /\ rows[i].state = "blocked"
      <4>1. \A i \in DOMAIN outbox[d] : outbox[d][i] \in Row
        BY <1>1
      <4> QED BY <4>1 DEF block_revoked_outbox, Row
    <3>4. outbox'[d] = Append(rows, row) /\ \A q \in Devices \ {d} : outbox'[q] = outbox[q]
      BY <1>1, <2>2
    <3> HIDE DEF rows, row
    <3>5. KeepsRows(d)
      BY <3>1, <3>2, <3>3, <3>4, AppendKept
    <3> QED BY <1>2, <2>1, <3>4, <3>5, SameRows
  <2> QED BY <1>3, <2>1, <2>2
<1>10. ASSUME NEW d \in Devices, NEW x \in Devices, Invite(d, x)
       PROVE  Stays /\ messages' = messages /\ \A q \in Devices : KeepsRows(q)
  <2> DEFINE first == HandshakeRow(Len(commits) + 1)
             second == WelcomeRow(Len(commits) + 1, x)
             rows == Append(outbox[d], first)
  <2>1. /\ UNCHANGED <<chat, messages>>
        /\ outbox' = outbox \/ outbox' = [outbox EXCEPT ![d] = Append(rows, second)]
    BY <1>10 DEF Invite, broker, LocalCommit
  <2>2. CASE outbox' = [outbox EXCEPT ![d] = Append(rows, second)]
    <3>1. /\ first \in Row /\ first.kind # "message" /\ second \in Row /\ second.kind # "message"
      BY <1>1 DEF HandshakeRow, WelcomeRow, Row
    <3> HIDE DEF first, second
    <3>2. outbox[d] \in Seq(Row)
      BY <1>1
    <3>3. /\ rows \in Seq(Row) /\ DOMAIN rows = 1..(Len(outbox[d]) + 1)
          /\ DOMAIN outbox[d] = 1..Len(outbox[d]) /\ Len(outbox[d]) \in Nat
          /\ \A k \in 1..Len(outbox[d]) : rows[k] = outbox[d][k]
          /\ rows[Len(outbox[d]) + 1] = first
      BY <3>1, <3>2, AppendProperties
    <3>4. outbox'[d] = Append(rows, second) /\ \A q \in Devices \ {d} : outbox'[q] = outbox[q]
      BY <1>1, <2>2
    <3> HIDE DEF rows
    <3>5. \A i \in DOMAIN outbox[d] : i \in DOMAIN rows /\ rows[i] = outbox[d][i]
      BY <3>3
    <3>6. \A i \in DOMAIN rows : i \in DOMAIN outbox[d] \/ rows[i].kind # "message"
      <4> TAKE i \in DOMAIN rows
      <4>1. i \in 1..Len(outbox[d]) \/ i = Len(outbox[d]) + 1
        BY <3>3
      <4> QED BY <3>1, <3>3, <4>1
    <3>7. rows \in Seq(Row)
      BY <3>3
    <3>8. KeepsRows(d)
      BY <3>1, <3>4, <3>5, <3>6, <3>7, AppendKept
    <3> QED BY <1>2, <2>1, <3>4, <3>8, SameRows
  <2> QED BY <1>3, <2>1, <2>2
<1>11. ASSUME NEW d \in Devices, NEW x \in Devices,
              \/ StageBacklog(d) \/ ProcessFails(d) \/ Finish(d) \/ Abort(d) \/ accept_welcome(d)
              \/ JoinLookup(d, x)
       PROVE  Stays /\ messages' = messages /\ \A q \in Devices : KeepsRows(q)
  BY <1>3, <1>11 DEF StageBacklog, ProcessFails, Finish, Abort, accept_welcome, JoinLookup, broker, store
<1>12. CASE (\E x \in Revocable : ReadCutoff(x)) \/ Service \/ ServiceStops
  BY <1>3, <1>12 DEF Service, ReadCutoff, AppendRevocation, Enforce, ServiceStops, store
<1> QED BY <1>5, <1>6, <1>7, <1>8, <1>9, <1>10, <1>11, <1>12, Zenon DEF Next, Sync

(* A kept ledger.                                                           *)
LEMMA LedgerKept ==
    ASSUME Inv, Ledger, Stays, messages' = messages, \A q \in Devices : KeepsRows(q)
    PROVE  Ledger'
<1>1. \A m \in DOMAIN messages' : messages'[m].state # 0
  BY DEF Ledger
<1>2. ASSUME NEW m \in DOMAIN messages', NEW a \in Devices, messages'[m].author = a, ~InChat(m)'
      PROVE  \E i \in DOMAIN outbox'[a] :
                Holds(outbox'[a][i], m) /\ outbox'[a][i].state \in {"unsent", "blocked"}
  <2>1. ~InChat(m)
    BY <1>2 DEF Stays
  <2>2. PICK i \in DOMAIN outbox[a] :
           Holds(outbox[a][i], m) /\ outbox[a][i].state \in {"unsent", "blocked"}
    BY <1>2, <2>1 DEF Ledger
  <2>3. KeepsRows(a)
    OBVIOUS
  <2>4. i \in DOMAIN outbox'[a] /\ Holds(outbox'[a][i], m)
    BY <2>2, <2>3 DEF KeepsRows, Holds
  <2>5. outbox'[a][i].state = outbox[a][i].state \/ outbox'[a][i].state = "blocked"
    BY <1>2, <2>2, <2>3 DEF KeepsRows
  <2> QED BY <2>2, <2>4, <2>5
<1>3. ASSUME NEW d \in Devices, NEW i \in DOMAIN outbox'[d], outbox'[d][i].kind = "message"
      PROVE  /\ outbox'[d][i].ref \in DOMAIN messages'
             /\ messages'[outbox'[d][i].ref].author = d
             /\ \A j \in DOMAIN outbox'[d] : Holds(outbox'[d][j], outbox'[d][i].ref) => j = i
  <2>1. KeepsRows(d)
    OBVIOUS
  <2>2. \A j \in DOMAIN outbox'[d] : outbox'[d][j].kind = "message" =>
           /\ j \in DOMAIN outbox[d] /\ outbox[d][j].kind = "message"
           /\ outbox'[d][j].ref = outbox[d][j].ref
    BY <2>1 DEF KeepsRows
  <2>3. /\ i \in DOMAIN outbox[d] /\ outbox[d][i].kind = "message"
        /\ outbox'[d][i].ref = outbox[d][i].ref
    BY <1>3, <2>2
  <2>4. /\ outbox[d][i].ref \in DOMAIN messages
        /\ messages[outbox[d][i].ref].author = d
        /\ \A j \in DOMAIN outbox[d] : Holds(outbox[d][j], outbox[d][i].ref) => j = i
    BY <2>3 DEF Ledger
  <2> QED BY <2>2, <2>3, <2>4 DEF Holds
<1>4. ASSUME NEW d \in Devices, NEW i \in DOMAIN outbox'[d], outbox'[d][i].kind = "message",
             outbox'[d][i].state = "stored", NEW m, m = outbox'[d][i].ref
      PROVE  InChat(m)'
  <2>1. KeepsRows(d)
    OBVIOUS
  <2>2. i \in DOMAIN outbox[d] /\ outbox[d][i].kind = "message" /\ outbox[d][i].ref = m
    BY <1>4, <2>1 DEF KeepsRows
  <2>3. outbox[d][i].state = "stored" => InChat(m)
    BY <2>2 DEF Ledger
  <2>4. outbox[d][i].state = "stored" \/ InChat(m)'
    BY <1>4, <2>1, <2>2 DEF KeepsRows, Holds
  <2> QED BY <2>3, <2>4 DEF Stays
<1>5. \A d \in Devices : \A i \in DOMAIN outbox'[d] : outbox'[d][i].kind = "message" =>
         (outbox'[d][i].state = "stored" =>
            \E n \in DOMAIN chat' : chat'[n].kind = "message" /\ chat'[n].ref = outbox'[d][i].ref)
  BY <1>4 DEF InChat
<1>6. \A m \in DOMAIN messages' : \A a \in Devices : messages'[m].author = a =>
         (\E n \in DOMAIN chat' : chat'[n].kind = "message" /\ chat'[n].ref = m)
         \/ \E i \in DOMAIN outbox'[a] :
                Holds(outbox'[a][i], m) /\ outbox'[a][i].state \in {"unsent", "blocked"}
  BY <1>2 DEF InChat
<1> QED BY <1>1, <1>3, <1>5, <1>6 DEF Ledger, InChat, Holds

(* Encrypt adds a ciphertext with a row of its own.                         *)
LEMMA EncryptLedger == ASSUME Inv, Ledger, NEW d \in Devices, Encrypt(d) PROVE Ledger'
<1> DEFINE row == MessageRow(Len(messages) + 1)
           new == Append(outbox[d], row)
           text == [author |-> d, state |-> mls[d]]
<1>1. /\ outbox \in [Devices -> Seq(Row)] /\ messages \in Seq(Ciphertext)
      /\ mls \in [Devices -> 0..Len(commits)] /\ commits \in Seq(Commit)
  BY DEF Inv, TypeOK
<1>2. Len(messages) \in Nat /\ DOMAIN messages = 1..Len(messages) /\ outbox[d] \in Seq(Row)
      /\ mls[d] \in Nat
  BY <1>1
<1>3. /\ mls[d] # 0 /\ chat' = chat
      /\ messages' = Append(messages, text)
      /\ outbox' = [outbox EXCEPT ![d] = new]
  BY DEF Encrypt, ensure_can_send, Active, broker
<1>4. /\ row \in Row /\ Holds(row, Len(messages) + 1) /\ row.state = "unsent"
      /\ text \in Ciphertext /\ text.author = d /\ text.state = mls[d]
  BY <1>2 DEF MessageRow, Row, Ciphertext, Holds
<1> HIDE DEF row, text
<1>5. /\ DOMAIN new = 1..(Len(outbox[d]) + 1) /\ DOMAIN outbox[d] = 1..Len(outbox[d])
      /\ Len(outbox[d]) \in Nat
      /\ \A i \in 1..Len(outbox[d]) : new[i] = outbox[d][i]
      /\ new[Len(outbox[d]) + 1] = row
  BY <1>2, <1>4, AppendProperties
<1>6. outbox'[d] = new /\ \A q \in Devices \ {d} : outbox'[q] = outbox[q]
  BY <1>1, <1>3
<1>7. /\ DOMAIN messages' = 1..(Len(messages) + 1)
      /\ \A m \in 1..Len(messages) : messages'[m] = messages[m]
      /\ messages'[Len(messages) + 1] = text
  BY <1>1, <1>3, <1>4, AppendProperties
<1> HIDE DEF new
<1>8. \A m : InChat(m)' <=> InChat(m)
  BY <1>3 DEF InChat
<1>9. \A m \in DOMAIN messages' : messages'[m].state # 0
  <2> TAKE m \in DOMAIN messages'
  <2>1. CASE m \in 1..Len(messages)
    BY <1>2, <1>7, <2>1 DEF Ledger
  <2>2. CASE m = Len(messages) + 1
    BY <1>3, <1>4, <1>7, <2>2
  <2> QED BY <1>2, <1>7, <2>1, <2>2
<1>10. \A q \in Devices : \A i \in DOMAIN outbox[q] :
          i \in DOMAIN outbox'[q] /\ outbox'[q][i] = outbox[q][i]
  BY <1>5, <1>6
<1>11. ASSUME NEW m \in DOMAIN messages', NEW a \in Devices, messages'[m].author = a
       PROVE  InChat(m) \/ \E i \in DOMAIN outbox'[a] :
                 Holds(outbox'[a][i], m) /\ outbox'[a][i].state \in {"unsent", "blocked"}
  <2>1. CASE m \in 1..Len(messages)
    <3>1. InChat(m) \/ \E i \in DOMAIN outbox[a] :
             Holds(outbox[a][i], m) /\ outbox[a][i].state \in {"unsent", "blocked"}
      BY <1>2, <1>7, <1>11, <2>1 DEF Ledger
    <3> QED BY <1>10, <3>1
  <2>2. CASE m = Len(messages) + 1
    <3>1. a = d /\ Len(outbox[d]) + 1 \in DOMAIN outbox'[d]
      BY <1>4, <1>5, <1>6, <1>7, <1>11, <2>2
    <3> QED BY <1>4, <1>5, <1>6, <2>2, <3>1
  <2> QED BY <1>2, <1>7, <2>1, <2>2
<1>12. ASSUME NEW q \in Devices, NEW i \in DOMAIN outbox'[q], outbox'[q][i].kind = "message"
       PROVE  \/ i \in DOMAIN outbox[q] /\ outbox'[q][i] = outbox[q][i]
              \/ q = d /\ i = Len(outbox[d]) + 1 /\ outbox'[q][i] = row
  <2>1. CASE q = d
    <3>1. i \in 1..Len(outbox[d]) \/ i = Len(outbox[d]) + 1
      BY <1>5, <1>6, <2>1
    <3> QED BY <1>5, <1>6, <2>1, <3>1
  <2>2. CASE q # d
    BY <1>6, <2>2
  <2> QED BY <2>1, <2>2
<1>13. \A q \in Devices : \A i \in DOMAIN outbox[q] : outbox[q][i].kind = "message" =>
          outbox[q][i].ref \in 1..Len(messages) /\ outbox[q][i].ref # Len(messages) + 1
  BY <1>2 DEF Ledger
<1>14. ASSUME NEW q \in Devices, NEW i \in DOMAIN outbox'[q], outbox'[q][i].kind = "message"
       PROVE  /\ outbox'[q][i].ref \in DOMAIN messages'
              /\ messages'[outbox'[q][i].ref].author = q
              /\ outbox'[q][i].state = "stored" => InChat(outbox'[q][i].ref)
              /\ \A j \in DOMAIN outbox'[q] : Holds(outbox'[q][j], outbox'[q][i].ref) => j = i
  <2>1. CASE i \in DOMAIN outbox[q] /\ outbox'[q][i] = outbox[q][i]
    <3>1. /\ outbox[q][i].ref \in 1..Len(messages)
          /\ messages[outbox[q][i].ref].author = q
          /\ outbox[q][i].state = "stored" => InChat(outbox[q][i].ref)
          /\ \A j \in DOMAIN outbox[q] : Holds(outbox[q][j], outbox[q][i].ref) => j = i
      BY <1>2, <1>14, <2>1 DEF Ledger
    <3>2. ASSUME NEW j \in DOMAIN outbox'[q], Holds(outbox'[q][j], outbox[q][i].ref) PROVE j = i
      <4>1. \/ j \in DOMAIN outbox[q] /\ outbox'[q][j] = outbox[q][j]
            \/ outbox'[q][j] = row
        BY <1>12, <3>2 DEF Holds
      <4>2. outbox[q][i].ref # Len(messages) + 1
        BY <1>2, <3>1
      <4>3. outbox'[q][j] # row
        BY <1>4, <3>2, <4>2 DEF Holds
      <4> QED BY <3>1, <3>2, <4>1, <4>3
    <3>3. outbox[q][i].ref \in DOMAIN messages' /\ messages'[outbox[q][i].ref] = messages[outbox[q][i].ref]
      BY <1>2, <1>7, <3>1
    <3> QED BY <2>1, <3>1, <3>2, <3>3
  <2>2. CASE q = d /\ i = Len(outbox[d]) + 1 /\ outbox'[q][i] = row
    <3>1. row.ref = Len(messages) + 1 /\ row.state # "stored"
      BY <1>4 DEF Holds
    <3>2. ASSUME NEW j \in DOMAIN outbox'[q], Holds(outbox'[q][j], row.ref) PROVE j = i
      <4>1. \/ j \in DOMAIN outbox[q] /\ outbox'[q][j] = outbox[q][j]
            \/ j = Len(outbox[d]) + 1
        BY <1>12, <3>2 DEF Holds
      <4>2. ~(j \in DOMAIN outbox[q] /\ outbox'[q][j] = outbox[q][j])
        BY <1>13, <3>1, <3>2 DEF Holds
      <4> QED BY <2>2, <4>1, <4>2
    <3>3. Len(messages) + 1 \in DOMAIN messages' /\ messages'[Len(messages) + 1].author = q
      BY <1>2, <1>4, <1>7, <2>2
    <3> QED BY <2>2, <3>1, <3>2, <3>3
  <2> QED BY <1>12, <1>14, <2>1, <2>2
<1>15. \A q \in Devices : \A i \in DOMAIN outbox'[q] : outbox'[q][i].kind = "message" =>
          (outbox'[q][i].state = "stored" =>
             \E n \in DOMAIN chat' : chat'[n].kind = "message" /\ chat'[n].ref = outbox'[q][i].ref)
  BY <1>3, <1>14 DEF InChat
<1>16. \A m \in DOMAIN messages' : \A a \in Devices : messages'[m].author = a =>
          (\E n \in DOMAIN chat' : chat'[n].kind = "message" /\ chat'[n].ref = m)
          \/ \E i \in DOMAIN outbox'[a] :
                Holds(outbox'[a][i], m) /\ outbox'[a][i].state \in {"unsent", "blocked"}
  BY <1>3, <1>11 DEF InChat
<1> QED BY <1>9, <1>14, <1>15, <1>16 DEF Ledger, InChat, Holds

LEMMA NextLedger == Inv /\ Ledger /\ [Next]_vars => Ledger'
BY EncryptLedger, NextKeeps, LedgerKept

(* The journal a device knows never shrinks, and neither do the epochs.      *)
LEMMA KnownGrows ==
    ASSUME Inv, [Next]_vars, NEW d \in Devices
    PROVE  /\ KnownRevoked(known[d]) \subseteq {revLog'[i].device : i \in 1..known'[d]}
           /\ \A c \in 1..Len(commits) : commits'[c] = commits[c]
<1>1. /\ revLog \in Seq(Revocation) /\ known \in [Devices -> 0..Len(revLog)] /\ commits \in Seq(Commit)
  BY DEF Inv, TypeOK
<1>2. Len(revLog) \in Nat /\ known[d] \in 0..Len(revLog) /\ Len(commits) \in Nat
  BY <1>1
<1>3. revLog' = revLog \/ revLog' = Append(revLog, revoking)
  BY DEF Next, Sync, Service, Audit, Publish, StageBacklog, ProcessNext, ProcessFails,
     reconcile_revocations, Finish, accept_welcome, Encrypt, Abort, Invite, JoinLookup,
     ReadCutoff, AppendRevocation, Enforce, ServiceStops, broker, vars
<1>4. \A i \in 1..known[d] : revLog'[i] = revLog[i]
  BY <1>1, <1>2, <1>3
<1>5. known'[d] = known[d] \/ known'[d] = Len(revLog)
  BY <1>1 DEF Next, Sync, Service, Audit, Publish, StageBacklog, ProcessNext, ProcessFails,
     reconcile_revocations, Finish, accept_welcome, Encrypt, Abort, Invite, JoinLookup,
     ReadCutoff, AppendRevocation, Enforce, ServiceStops, broker, store, vars
<1>6. \A i \in 1..known[d] : i \in 1..known'[d]
  BY <1>2, <1>5
<1>7. KnownRevoked(known[d]) \subseteq {revLog'[i].device : i \in 1..known'[d]}
  BY <1>4, <1>6 DEF KnownRevoked
<1>8. commits' = commits \/ \E new : commits' = Append(commits, new)
  BY DEF Next, Sync, Service, Audit, Publish, StageBacklog, ProcessNext, ProcessFails,
     reconcile_revocations, LocalCommit, Finish, accept_welcome, Encrypt, Abort, Invite, JoinLookup,
     ReadCutoff, AppendRevocation, Enforce, ServiceStops, vars
<1>9. \A c \in 1..Len(commits) : commits'[c] = commits[c]
  BY <1>1, <1>2, <1>8
<1> QED BY <1>7, <1>9

(* Only the audit that has blocked what must stay starts a flush.            *)
LEMMA NextClean == ASSUME Inv, Clean, [Next]_vars PROVE Clean'
<1>1. /\ outbox \in [Devices -> Seq(Row)] /\ pc \in [Devices -> Points \cup {"idle", "accept"}]
      /\ known \in [Devices -> 0..Len(revLog)] /\ revLog \in Seq(Revocation)
      /\ mls \in [Devices -> 0..Len(commits)] /\ commits \in Seq(Commit)
  BY DEF Inv, TypeOK
<1>2. Len(revLog) \in Nat /\ DOMAIN revLog = 1..Len(revLog)
  BY <1>1
<1> SUFFICES ASSUME NEW d \in Devices, NEW i \in Pending(outbox'[d]), pc'[d] \in FlushPoints,
                    outbox'[d][i].kind = "message"
             PROVE  Members(commits'[mls'[d]].leaves) \cap {revLog'[n].device : n \in 1..known'[d]} = {}
  BY DEF Clean, MembersOf, KnownRevoked
<1>3. CASE Audit(d)
  <2> DEFINE rows == block_revoked_outbox(d, outbox[d], Revoked)
  <2>1. d \notin Revoked
    BY <1>1, <1>3 DEF Audit, FlushPoints
  <2>2. outbox'[d] = rows /\ UNCHANGED <<commits, mls, revLog>> /\ known'[d] = Len(revLog)
    BY <1>1, <1>3, <2>1 DEF Audit, broker
  <2>3. MembersOf(mls[d]) \cap Revoked = {}
    <3>1. outbox[d] \in Seq(Row) /\ i \in Pending(rows) /\ rows[i].kind = "message"
      BY <1>1, <2>2
    <3> QED BY <3>1, BlockedStates
  <2>4. {revLog'[n].device : n \in 1..known'[d]} = Revoked
    BY <1>2, <2>2 DEF Revoked
  <2> QED BY <2>2, <2>3, <2>4 DEF MembersOf
<1>4. CASE Publish(d)
  <2>1. UNCHANGED <<commits, mls, revLog, known>> /\ pc[d] \in FlushPoints
    BY <1>4 DEF Publish, FlushPoints
  <2>2. PICK k \in DOMAIN outbox[d], state \in {"sent", "stored"} :
           /\ k \in Pending(outbox[d])
           /\ DOMAIN outbox'[d] = DOMAIN outbox[d]
           /\ \A n \in DOMAIN outbox[d] \ {k} : outbox'[d][n] = outbox[d][n]
           /\ outbox'[d][k] = [outbox[d][k] EXCEPT !.state = state]
    BY <1>4, PublishedRow
  <2>3. outbox[d][k] \in Row
    BY <1>1
  <2>4. outbox'[d][k].kind = outbox[d][k].kind
    BY <2>2, <2>3 DEF Row
  <2>5. i \in Pending(outbox[d]) /\ outbox[d][i].kind = "message"
    <3>1. CASE i = k
      BY <2>2, <2>4, <3>1
    <3>2. CASE i # k
      BY <2>2, <3>2 DEF Pending
    <3> QED BY <3>1, <3>2
  <2> QED BY <2>1, <2>5 DEF Clean, MembersOf, KnownRevoked
<1>5. ASSUME NEW e \in Devices, ~Audit(e), ~Publish(e),
             \/ Sync(e) \/ Encrypt(e) \/ Abort(e)
             \/ \E x \in Devices : Invite(e, x) \/ JoinLookup(e, x)
      PROVE  e # d
  <2>1. pc'[e] \notin FlushPoints
    BY <1>1, <1>5 DEF Sync, StageBacklog, ProcessNext, NextPoint, ProcessFails, reconcile_revocations,
       Finish, accept_welcome, Encrypt, Abort, Invite, JoinLookup, FlushPoints
  <2> QED BY <2>1
<1>6. ASSUME outbox'[d] = outbox[d], mls'[d] = mls[d], pc'[d] = pc[d], known'[d] = known[d],
             \A n \in 1..Len(revLog) : revLog'[n] = revLog[n],
             \A c \in 1..Len(commits) : commits'[c] = commits[c]
      PROVE  Members(commits'[mls'[d]].leaves) \cap {revLog'[n].device : n \in 1..known'[d]} = {}
  <2>1. mls[d] \in 1..Len(commits)
    <3>1. mls[d] # 0
      BY <1>6 DEF Inv, ProgramPoints, FlushPoints, Points
    <3>2. Len(commits) \in Nat /\ mls[d] \in 0..Len(commits)
      BY <1>1
    <3> QED BY <3>1, <3>2
  <2>2. \A n \in 1..known[d] : revLog'[n] = revLog[n]
    <3>1. known[d] \in 0..Len(revLog)
      BY <1>1
    <3> QED BY <1>2, <1>6, <3>1
  <2>3. MembersOf(mls[d]) \cap KnownRevoked(known[d]) = {}
    BY <1>6 DEF Clean
  <2>4. {revLog'[n].device : n \in 1..known'[d]} = KnownRevoked(known[d])
    BY <1>6, <2>2 DEF KnownRevoked
  <2>5. Members(commits'[mls'[d]].leaves) = MembersOf(mls[d])
    BY <1>6, <2>1 DEF MembersOf
  <2> QED BY <2>3, <2>4, <2>5
<1>7. \A c \in 1..Len(commits) : commits'[c] = commits[c]
  BY KnownGrows
<1>8. ASSUME NEW e \in Devices, e # d,
             \/ Sync(e) \/ Encrypt(e) \/ Abort(e)
             \/ \E x \in Devices : Invite(e, x) \/ JoinLookup(e, x)
      PROVE  Members(commits'[mls'[d]].leaves) \cap {revLog'[n].device : n \in 1..known'[d]} = {}
  <2>1. revLog' = revLog
    BY <1>8 DEF Sync, Audit, Publish, StageBacklog, ProcessNext, ProcessFails, reconcile_revocations,
       Finish, accept_welcome, Encrypt, Abort, Invite, JoinLookup, broker
  <2>2. pc'[d] = pc[d] /\ known'[d] = known[d]
    BY <1>1, <1>8 DEF Sync, Audit, Publish, StageBacklog, ProcessNext, ProcessFails,
       reconcile_revocations, Finish, accept_welcome, Encrypt, Abort, Invite, JoinLookup, store
  <2>3. outbox'[d] = outbox[d]
    BY <1>1, <1>8 DEF Sync, Audit, Publish, StageBacklog, ProcessNext, ProcessFails,
       reconcile_revocations, Finish, accept_welcome, Encrypt, Abort, Invite, JoinLookup, store,
       MergeCommit, LocalCommit
  <2>4. mls'[d] = mls[d]
    BY <1>1, <1>8 DEF Sync, Audit, Publish, StageBacklog, ProcessNext, ProcessFails,
       reconcile_revocations, Finish, accept_welcome, Encrypt, Abort, Invite, JoinLookup, store,
       MergeCommit, LocalCommit
  <2> QED BY <1>6, <1>7, <2>1, <2>2, <2>3, <2>4
<1>9. CASE UNCHANGED vars \/ (\E x \in Revocable : ReadCutoff(x)) \/ Service \/ ServiceStops
  <2>1. UNCHANGED <<mls, outbox, pc, known>>
    BY <1>9 DEF vars, Service, ReadCutoff, AppendRevocation, Enforce, ServiceStops, store
  <2>2. revLog' = revLog \/ revLog' = Append(revLog, revoking)
    BY <1>9 DEF vars, broker, Service, ReadCutoff, AppendRevocation, Enforce, ServiceStops
  <2>3. \A n \in 1..Len(revLog) : revLog'[n] = revLog[n]
    BY <1>1, <1>2, <2>2
  <2> QED BY <1>6, <1>7, <2>1, <2>3
<1>10. ASSUME NEW e \in Devices,
              \/ Sync(e) \/ Encrypt(e) \/ Abort(e)
              \/ \E x \in Devices : Invite(e, x) \/ JoinLookup(e, x)
       PROVE  Members(commits'[mls'[d]].leaves) \cap {revLog'[n].device : n \in 1..known'[d]} = {}
  BY <1>3, <1>4, <1>5, <1>8, <1>10
<1> QED BY <1>9, <1>10, Zenon DEF Next

(* What leaves a held-back ciphertext held back: its epoch is kept, or the    *)
(* step that leaves it blocks its row first.                                 *)
LEMMA NextWithheld ==
    ASSUME Inv, Ledger, Clean, [Next]_vars, NEW d \in Devices, NEW m \in DOMAIN messages, Withheld(d, m)
    PROVE  Withheld(d, m)'
<1>1. /\ outbox \in [Devices -> Seq(Row)] /\ messages \in Seq(Ciphertext)
      /\ mls \in [Devices -> 0..Len(commits)] /\ commits \in Seq(Commit)
  BY DEF Inv, TypeOK
<1>2. messages[m].author = d /\ ~InChat(m)
  BY DEF Withheld
<1>3. messages'[m] = messages[m]
  <2>1. messages' = messages \/ \E new : messages' = Append(messages, new)
    BY DEF Next, Sync, Service, Audit, Publish, StageBacklog, ProcessNext, ProcessFails,
       reconcile_revocations, Finish, accept_welcome, Encrypt, Abort, Invite, JoinLookup,
       ReadCutoff, AppendRevocation, Enforce, ServiceStops, vars
  <2>2. m \in 1..Len(messages) /\ Len(messages) \in Nat
    BY <1>1
  <2> QED BY <1>1, <2>1, <2>2
<1>4. PICK i \in DOMAIN outbox[d] :
         Holds(outbox[d][i], m) /\ outbox[d][i].state \in {"unsent", "blocked"}
  BY <1>2 DEF Ledger
<1>5. \A j \in DOMAIN outbox[d] : Holds(outbox[d][j], m) => j = i
  BY <1>4 DEF Ledger, Holds
<1>6. \/ outbox[d][i].state = "blocked"
      \/ messages[m].state = mls[d] /\ MembersOf(mls[d]) \cap KnownRevoked(known[d]) # {}
  BY <1>5 DEF Withheld, Holds
<1>7. ~InChat(m)'
  <2>1. CASE \E q \in Devices : Publish(q)
    <3>1. PICK q \in Devices : Publish(q)
      BY <2>1
    <3>2. ASSUME InChat(m)' PROVE FALSE
      <4>1. PICK k \in Pending(outbox[q]) : Holds(outbox[q][k], m)
        BY <1>2, <3>1, <3>2, PublishKept
      <4>2. k \in DOMAIN outbox[q]
        BY <4>1 DEF Pending
      <4>3. q = d
        BY <1>2, <4>1, <4>2 DEF Ledger, Holds
      <4>4. k = i /\ outbox[d][i].state # "blocked"
        BY <1>5, <4>1, <4>2, <4>3 DEF Pending
      <4>5. pc[d] \in FlushPoints
        BY <3>1, <4>3 DEF Publish, FlushPoints
      <4>6. MembersOf(mls[d]) \cap KnownRevoked(known[d]) = {}
        BY <4>1, <4>3, <4>5 DEF Clean, Holds
      <4> QED BY <1>6, <4>4, <4>6
    <3> QED BY <3>2
  <2>2. CASE ~\E q \in Devices : Publish(q)
    <3>1. chat' = chat
      BY <2>2 DEF Next, Sync, Service, Audit, StageBacklog, ProcessNext, ProcessFails,
         reconcile_revocations, Finish, accept_welcome, Encrypt, Abort, Invite, JoinLookup,
         ReadCutoff, AppendRevocation, Enforce, ServiceStops, broker, vars
    <3> QED BY <1>2, <3>1 DEF InChat
  <2> QED BY <2>1, <2>2
<1>8. /\ i \in DOMAIN outbox'[d] /\ Holds(outbox'[d][i], m)
      /\ outbox'[d][i].state = outbox[d][i].state \/ outbox'[d][i].state = "blocked"
  <2>1. CASE \E q \in Devices : Encrypt(q)
    <3>1. PICK q \in Devices : Encrypt(q)
      BY <2>1
    <3> DEFINE row == MessageRow(Len(messages) + 1)
    <3>2. outbox' = [outbox EXCEPT ![q] = Append(outbox[q], row)]
      BY <3>1 DEF Encrypt
    <3>3. row \in Row
      <4>1. Len(messages) \in Nat
        BY <1>1
      <4> QED BY <4>1 DEF MessageRow, Row
    <3> HIDE DEF row
    <3>4. outbox'[d] = outbox[d] \/ outbox'[d] = Append(outbox[d], row)
      BY <1>1, <3>2
    <3>5. i \in DOMAIN outbox'[d] /\ outbox'[d][i] = outbox[d][i]
      <4>1. outbox[d] \in Seq(Row)
        BY <1>1
      <4>2. /\ DOMAIN Append(outbox[d], row) = 1..(Len(outbox[d]) + 1)
            /\ DOMAIN outbox[d] = 1..Len(outbox[d]) /\ Len(outbox[d]) \in Nat
            /\ \A k \in 1..Len(outbox[d]) : Append(outbox[d], row)[k] = outbox[d][k]
        BY <3>3, <4>1, AppendProperties
      <4> QED BY <3>4, <4>2
    <3> QED BY <1>4, <3>5
  <2>2. CASE \A q \in Devices : ~Encrypt(q)
    <3>1. KeepsRows(d)
      BY <2>2, NextKeeps
    <3> QED BY <1>4, <1>7, <3>1 DEF KeepsRows, Holds
  <2> QED BY <2>1, <2>2
<1>9. ASSUME outbox'[d][i].state = "blocked" PROVE Withheld(d, m)'
  BY <1>2, <1>3, <1>7, <1>8, <1>9 DEF Withheld, Holds
<1>10. CASE outbox[d][i].state = "blocked"
  BY <1>8, <1>9, <1>10
<1>11. CASE outbox[d][i].state = "unsent"
  <2>1. messages[m].state = mls[d] /\ MembersOf(mls[d]) \cap KnownRevoked(known[d]) # {}
    BY <1>6, <1>11
  <2>2. mls[d] # 0 /\ mls[d] \in 1..Len(commits)
    <3>1. mls[d] # 0
      BY <2>1 DEF Ledger
    <3>2. Len(commits) \in Nat /\ mls[d] \in 0..Len(commits)
      BY <1>1
    <3> QED BY <3>1, <3>2
  <2>3. CASE mls'[d] = mls[d]
    <3>1. Members(commits'[mls'[d]].leaves) = MembersOf(mls[d])
      BY <2>2, <2>3, KnownGrows DEF MembersOf
    <3>2. Members(commits'[mls'[d]].leaves) \cap {revLog'[n].device : n \in 1..known'[d]} # {}
      BY <2>1, <3>1, KnownGrows
    <3> QED BY <1>2, <1>3, <1>7, <2>1, <2>3, <3>2 DEF Withheld, MembersOf, KnownRevoked
  <2>4. CASE mls'[d] # mls[d]
    <3> DEFINE gone == KnownRevoked(known[d])
               rows == block_revoked_outbox(d, outbox[d], gone)
    <3>1. \A k \in Pending(rows) : rows[k].kind # "message"
      BY <1>1, <2>1, BlockedStates
    <3>2. \/ outbox'[d] = rows
          \/ \E row : outbox'[d] = Append(rows, row)
      <4>1. ProcessNext(d) \/ reconcile_revocations(d) \/ accept_welcome(d)
            \/ \E x \in Devices : Invite(d, x)
        <5>1. ASSUME NEW e \in Devices, e # d,
                     Sync(e) \/ \E x \in Devices : Invite(e, x)
              PROVE  mls'[d] = mls[d]
          BY <1>1, <5>1 DEF Sync, Audit, Publish, StageBacklog, ProcessNext, ProcessFails,
             reconcile_revocations, Finish, accept_welcome, Invite, store, MergeCommit, LocalCommit
        <5>2. ASSUME NEW e \in Devices,
                     \/ Audit(e) \/ Publish(e) \/ StageBacklog(e) \/ ProcessFails(e) \/ Finish(e)
                     \/ Encrypt(e) \/ Abort(e) \/ \E x \in Devices : JoinLookup(e, x)
              PROVE  mls' = mls
          BY <5>2 DEF Audit, Publish, StageBacklog, ProcessFails, Finish, Encrypt, Abort, JoinLookup, store
        <5>3. CASE UNCHANGED vars \/ (\E x \in Revocable : ReadCutoff(x)) \/ Service \/ ServiceStops
          BY <2>4, <5>3 DEF vars, Service, ReadCutoff, AppendRevocation, Enforce, ServiceStops, store
        <5> QED BY <2>4, <5>1, <5>2, <5>3, Zenon DEF Next, Sync
      <4>2. CASE ProcessNext(d)
        BY <1>1, <2>4, <4>2 DEF ProcessNext, MergeCommit
      <4>3. CASE reconcile_revocations(d)
        BY <1>1, <2>4, <4>3 DEF reconcile_revocations, LocalCommit
      <4>4. CASE accept_welcome(d)
        BY <1>1, <2>2, <2>4, <4>4 DEF accept_welcome
      <4>5. ASSUME NEW x \in Devices, Invite(d, x) PROVE FALSE
        <5>1. MayInvite(d, x, Revoked)
          BY <2>4, <4>5 DEF Invite
        <5>2. MembersOf(mls[d]) \cap Revoked = {}
          BY <5>1 DEF MayInvite, ensure_can_send
        <5> QED BY <2>1, <5>2, KnownIsRevoked
      <4> QED BY <4>1, <4>2, <4>3, <4>4, <4>5
    <3>3. rows \in Seq(Row) /\ DOMAIN rows = DOMAIN outbox[d] /\ rows[i].kind = outbox[d][i].kind
      BY <1>1, <1>4, BlockedRows
    <3> HIDE DEF rows
    <3>4. rows[i].state # "unsent"
      BY <1>4, <3>1, <3>3 DEF Pending, Holds
    <3>5. outbox'[d][i] = rows[i]
      <4>1. i \in 1..Len(rows) /\ Len(rows) \in Nat
        BY <1>4, <3>3
      <4>2. ASSUME NEW row, outbox'[d] = Append(rows, row) PROVE outbox'[d][i] = rows[i]
        BY <3>3, <4>1, <4>2
      <4> QED BY <3>2, <4>2
    <3> QED BY <1>8, <1>9, <1>11, <3>4, <3>5
  <2> QED BY <2>3, <2>4
<1> QED BY <1>4, <1>10, <1>11

(* Once a device knows that a member of the epoch it holds is revoked, what it *)
(* encrypted in that epoch and has not published stays unpublished: online and *)
(* offline, whatever is merged, lost or restarted afterwards, because a device *)
(* leaves such an epoch only by a step that first blocks its rows, and starts  *)
(* to flush only after an audit that does.                                    *)
THEOREM WithheldCiphertexts == Spec => WithheldForGood
<1>1. Init => Ledger /\ Clean
  <2> SUFFICES ASSUME Init PROVE Ledger /\ Clean
    OBVIOUS
  <2>1. messages = << >> /\ \A d \in Devices : outbox[d] = << >>
    BY DEF Init
  <2> QED BY <2>1 DEF Ledger, Clean, Pending
<1>2. Inv /\ Clean /\ [Next]_vars => Clean'
  BY NextClean
<1>3. Inv /\ Ledger /\ Clean /\ [Next]_vars =>
        [\A d \in Devices : \A m \in DOMAIN messages : Withheld(d, m) => Withheld(d, m)']_vars
  BY NextWithheld
<1> QED BY <1>1, <1>2, <1>3, InitInv, NextInv, NextLedger, PTL DEF Spec, WithheldForGood

=============================================================================
