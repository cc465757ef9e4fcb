----------------------------- MODULE Home_proofs -----------------------------
(***************************************************************************)
(* Proofs about one device's home, for any number of keys, packages, faults  *)
(* and schema versions: whatever was interrupted, lost, late or put back, the*)
(* database and the identity in it keep the keys they were made with, and a  *)
(* committed credential is never made again.                                *)
(***************************************************************************)
EXTENDS Home, FiniteSetTheorems, TLAPS

(***************************************************************************)
(* The inductive invariant.  The lock makes the command at work the only one *)
(* that writes; what others may do meanwhile (a late item, a lost keyring)   *)
(* touches the keyring alone.                                              *)
(***************************************************************************)

MaybeKeys == Keys \cup {NoKey}
StateType == [there : BOOLEAN, key : MaybeKeys, ready : BOOLEAN]
FileType == [there : BOOLEAN, bound : BOOLEAN, key : MaybeKeys, schema : 0..Latest,
             ref : MaybeKeys, reg : MaybeKeys, marker : BOOLEAN]
OutType == [there : BOOLEAN, full : BOOLEAN, of : 0..MaxExports]
Provisioning == {"slot", "item", "create", "readback", "commit"}
Exporting == {"package", "secret", "write", "fill"}
Stages == Provisioning \cup Exporting \cup
          {"idle", "metadata", "record", "open", "bind", "ready", "migrate", "command", "identity"}

Types ==
    /\ slots \in [Roles -> [made : BOOLEAN, public : MaybeKeys]]
    /\ items \in [Roles -> SUBSET Keys] /\ flight \in [Roles -> SUBSET Keys]
    /\ state \in StateType /\ file \in FileType
    /\ aside \in [items : [Roles -> SUBSET Keys], state : StateType, file : FileType]
    /\ proc \in [pc : Stages, cmd : Commands, role : Roles, got : MaybeKeys]
    /\ probe \in [pc : {"none", "vault", "database", "accepted", "refused"}, key : MaybeKeys]
    /\ out \in [package : OutType, secret : OutType]
    /\ exports \in 0..MaxExports /\ faults \in 0..MaxFaults

\* The keys of a role that were ever asked for and are not gone for good.
Used(r) == items[r] \cup flight[r] \cup aside.items[r]

\* Per role: an item has its reference on disk first, a committed key is there or put
\* aside, and every key but one took a fault.
KeyringSound(r) ==
    /\ Used(r) # {} => slots[r].made
    /\ r = "database" => Used(r) \subseteq Generated
    /\ slots[r].public # NoKey => slots[r].public \in items[r] \cup aside.items[r]
    /\ IsFiniteSet(Used(r))
    /\ Cardinality(Used(r)) <= faults + (IF items[r] = {} THEN 0 ELSE 1)

\* The metadata and a database, here or missing, are those of the committed keys.
StateSound(s) ==
    /\ s.there <=> s.key # NoKey
    /\ s.there => s.key = slots["database"].public
    /\ s.ready => s.there

FileSound(f) ==
    /\ f.bound => f.there /\ f.key # NoKey /\ f.key = slots["database"].public
    /\ f.ref # NoKey => f.bound /\ f.ref = f.reg /\ f.ref = slots["device"].public

\* A database with an identity was ready: without it, nothing is opened in its place.
FilesSound ==
    /\ StateSound(state) /\ StateSound(aside.state)
    /\ FileSound(file) /\ FileSound(aside.file)
    /\ file.ref # NoKey => IF state.there THEN state.ready ELSE aside.state.ready
    /\ aside.file.ref # NoKey => ~file.there /\ state.there /\ state.ready
    /\ ~(aside.state.there /\ aside.file.there)

\* What a command knows at each stage, from what it has done.

ProcSound ==
    LET mine == slots[proc.role]
    IN  /\ proc.pc \in Provisioning \cup {"record", "identity"} =>
              IF proc.role = "database" THEN ~state.there /\ ~file.there
              ELSE state.ready /\ file.bound
        /\ proc.pc = "metadata" => proc.role = "database"
        /\ proc.pc \in {"item", "create", "readback", "commit"} => mine.made
        /\ proc.pc = "create" => mine.public = NoKey
        /\ proc.pc \in {"readback", "commit"} =>
              proc.got # NoKey /\ proc.got \in items[proc.role] \cup aside.items[proc.role]
        /\ proc.pc \in {"record", "identity"} => mine.public = proc.got /\ proc.got # NoKey
        /\ proc.pc = "record" => proc.role = "database"
        /\ proc.pc = "identity" => proc.role = "device" /\ Imported \in {NoKey, proc.got}
        /\ proc.pc \in {"open", "bind", "ready"} => state.there
        /\ proc.pc = "bind" => file.there
        /\ proc.pc \in {"ready", "migrate", "command"} \cup Exporting => file.bound
        /\ proc.pc \in {"migrate", "command"} \cup Exporting => state.ready

\* An export's files, by how far it is.
ExportSound ==
    /\ \A f \in {out.package, out.secret} : f.full => f.there
    /\ PackageHasSecret
    /\ proc.cmd = "export" /\ proc.pc \notin {"idle", "secret", "write", "fill"} => exports < MaxExports
    /\ proc.pc = "package" => proc.cmd = "export"
    /\ proc.pc \in {"secret", "write", "fill"} =>
          out.package.there /\ ~out.package.full /\ out.package.of = exports
    /\ proc.pc \in {"write", "fill"} => out.secret.there /\ out.secret.of = exports
    /\ proc.pc = "fill" => out.secret.full

Inv ==
    /\ Types /\ (\A r \in Roles : KeyringSound(r)) /\ FilesSound /\ ProcSound /\ ExportSound
    /\ InspectionIsSound

----------------------------------------------------------------------------
(* The command at work, and steps that leave a part of the home alone.     *)

ProcType == [pc : Stages, cmd : Commands, role : Roles, got : MaybeKeys]
Has(r) == items[r] \cup aside.items[r]

\* Returning: nothing is known of the home any more.
LEMMA ReturnFields ==
    ASSUME Return
    PROVE  proc' \in ProcType /\ proc'.pc = "idle" /\ ProcSound'
<1>1. proc' = Idle
  BY DEF Return
<1>2. Idle \in ProcType /\ Idle.pc = "idle"
  BY DEF Idle, ProcType, Stages, Commands, Roles, MaybeKeys
<1> QED BY <1>1, <1>2 DEF ProcSound, Provisioning, Exporting

\* Going on: only the stage changes.
LEMMA GotoFields ==
    ASSUME Types, NEW pc \in Stages, Goto(pc)
    PROVE  /\ proc' \in ProcType /\ proc'.pc = pc /\ proc'.cmd = proc.cmd
           /\ proc'.role = proc.role /\ proc'.got = proc.got
BY DEF Types, Goto, ProcType

\* A keyring that gains nothing keeps its bound, unless a fault pays for a loss.
LEMMA KeyringKept ==
    ASSUME Types, NEW r \in Roles, KeyringSound(r), slots'[r] = slots[r],
           Used(r)' \subseteq Used(r), faults' \in 0..MaxFaults, faults <= faults',
           slots[r].public # NoKey => slots[r].public \in Has(r)',
           items'[r] = {} => items[r] = {} \/ faults' = faults + 1
    PROVE  KeyringSound(r)'
<1> DEFINE U == Used(r)
<1>1. IsFiniteSet(U') /\ Cardinality(U') <= Cardinality(U) /\ Cardinality(U') \in Nat
      /\ Cardinality(U) \in Nat
  <2>1. IsFiniteSet(U) /\ U' \subseteq U
    BY DEF KeyringSound
  <2> HIDE DEF U
  <2>2. IsFiniteSet(U') /\ Cardinality(U') <= Cardinality(U)
    BY <2>1, FS_Subset
  <2> QED BY <2>1, <2>2, FS_CardinalityType
<1>2. Cardinality(U) <= faults + (IF items[r] = {} THEN 0 ELSE 1)
  BY DEF KeyringSound
<1>3. faults \in Nat /\ faults' \in Nat
  BY HomeAssumption DEF Types
<1>4. Cardinality(U') <= faults' + (IF items'[r] = {} THEN 0 ELSE 1)
  <2> HIDE DEF U
  <2> QED BY <1>1, <1>2, <1>3
<1>5. U' # {} => slots'[r].made
  BY DEF KeyringSound
<1>6. r = "database" => U' \subseteq Generated
  BY DEF KeyringSound
<1> QED BY <1>1, <1>4, <1>5, <1>6 DEF KeyringSound, Has

\* Steps that leave the keyring alone.
LEMMA KeyringSame ==
    ASSUME Inv, UNCHANGED <<slots, items, flight>>, aside'.items = aside.items,
           faults' \in 0..MaxFaults, faults <= faults'
    PROVE  \A r \in Roles : KeyringSound(r)'
<1> TAKE r \in Roles
<1>1. Used(r)' = Used(r) /\ Has(r)' = Has(r)
  BY DEF Used, Has
<1>2. KeyringSound(r) /\ Types
  BY DEF Inv
<1>3. slots[r].public # NoKey => slots[r].public \in Has(r)
  BY <1>2 DEF KeyringSound, Has
<1> QED BY <1>1, <1>2, <1>3, KeyringKept

\* A commitment is for good.
Committed == \A r \in Roles : slots[r].public # NoKey => slots'[r].public = slots[r].public

\* Steps that leave the metadata and the database alone: they are still those of the
\* committed keys.
LEMMA FilesSame ==
    ASSUME Inv, UNCHANGED <<state, file>>, aside'.state = aside.state, aside'.file = aside.file,
           Committed
    PROVE  FilesSound' /\ Databases' = Databases /\ (UNCHANGED probe => InspectionIsSound')
<1>1. "database" \in Roles /\ "device" \in Roles
  BY DEF Roles
<1>2. FilesSound'
  <2>1. StateSound(state)' /\ StateSound(aside.state)'
    BY <1>1 DEF Inv, FilesSound, StateSound, Committed
  <2>2. FileSound(file)' /\ FileSound(aside.file)'
    BY <1>1 DEF Inv, FilesSound, FileSound, Committed
  <2> QED BY <2>1, <2>2 DEF Inv, FilesSound
<1>3. Databases' = Databases
  BY DEF Databases
<1>4. UNCHANGED probe => InspectionIsSound'
  BY <1>1, <1>3 DEF Inv, InspectionIsSound, Committed
<1> QED BY <1>2, <1>3, <1>4

\* A command that goes on outside an export.
LEMMA ExportSame ==
    ASSUME Inv, UNCHANGED <<out, exports>>,
           \/ proc'.pc = "idle"
           \/ /\ proc'.cmd = proc.cmd /\ proc.pc \notin {"idle", "secret", "write", "fill"}
              /\ proc'.pc \notin Exporting
    PROVE  ExportSound'
BY DEF Inv, ExportSound, Exporting, PackageHasSecret

\* Steps of the command that change nothing but where it is.
LEMMA ProcInv ==
    ASSUME Inv, UNCHANGED <<slots, items, flight, state, file, aside, probe, out, exports>>,
           proc' \in ProcType, faults' \in 0..MaxFaults, faults <= faults',
           ProcSound', ExportSound'
    PROVE  Inv'
<1>1. Types'
  BY DEF Inv, Types, ProcType
<1>2. \A r \in Roles : KeyringSound(r)'
  BY KeyringSame
<1>3. FilesSound' /\ InspectionIsSound'
  BY FilesSame DEF Committed
<1> QED BY <1>1, <1>2, <1>3 DEF Inv

\* A command that returns and has changed nothing in this step.
LEMMA ReturnInv ==
    ASSUME Inv, Return, UNCHANGED <<slots, items, flight, state, file, aside, probe, out, exports>>,
           UNCHANGED faults \/ (faults < MaxFaults /\ faults' = faults + 1)
    PROVE  Inv'
<1>1. faults' \in 0..MaxFaults /\ faults <= faults'
  BY HomeAssumption DEF Inv, Types
<1>2. ExportSound'
  BY ReturnFields, ExportSame
<1> QED BY <1>1, <1>2, ReturnFields, ProcInv

----------------------------------------------------------------------------
(* The credential vault.                                                   *)

\* Start preserves the invariant.
LEMMA StartInv ==
    ASSUME Inv, NEW c \in Commands, Start(c)
    PROVE  Inv'
<1>1. /\ UNCHANGED <<slots, items, flight, state, file, aside, probe, out, exports, faults>>
      /\ proc' = [Idle EXCEPT !.pc = "metadata", !.cmd = c] /\ (c = "export" => exports < MaxExports)
  BY DEF Start, vault, disk
<1>2. proc' \in ProcType /\ proc'.pc = "metadata" /\ proc'.cmd = c /\ proc'.role = "database"
  BY <1>1 DEF Idle, ProcType, Stages, Roles, MaybeKeys
<1>3. ProcSound'
  BY <1>2 DEF ProcSound, Provisioning, Exporting
<1>4. ExportSound'
  BY <1>1, <1>2 DEF Inv, ExportSound, Exporting, PackageHasSecret
<1>5. faults' \in 0..MaxFaults /\ faults <= faults'
  BY <1>1, HomeAssumption DEF Inv, Types
<1> QED BY <1>1, <1>2, <1>3, <1>4, <1>5, ProcInv

\* LoadState preserves the invariant: keys are made only for a home without a trace.
LEMMA LoadStateInv ==
    ASSUME Inv, LoadState
    PROVE  Inv'
<1>1. /\ UNCHANGED <<slots, items, flight, state, file, aside, probe, out, exports, faults>>
      /\ proc.pc = "metadata"
  BY DEF LoadState, vault, disk, At
<1>2. faults' \in 0..MaxFaults /\ faults <= faults'
  BY <1>1, HomeAssumption DEF Inv, Types
<1>3. CASE state.there /\ Goto("open")
  <2>1. proc' \in ProcType /\ proc'.pc = "open" /\ proc'.cmd = proc.cmd
    BY <1>3, GotoFields DEF Inv, Stages
  <2>2. ProcSound'
    BY <1>1, <1>3, <2>1 DEF ProcSound, Provisioning, Exporting
  <2>3. ExportSound'
    BY <1>1, <2>1, ExportSame DEF Exporting
  <2> QED BY <1>1, <1>2, <2>1, <2>2, <2>3, ProcInv
<1>4. CASE ~state.there /\ ~file.there /\ Goto("slot")
  <2>1. proc' \in ProcType /\ proc'.pc = "slot" /\ proc'.cmd = proc.cmd /\ proc'.role = proc.role
    BY <1>4, GotoFields DEF Inv, Stages, Provisioning
  <2>2. proc.role = "database"
    BY <1>1 DEF Inv, ProcSound
  <2>3. ProcSound'
    BY <1>1, <1>4, <2>1, <2>2 DEF ProcSound, Provisioning, Exporting
  <2>4. ExportSound'
    BY <1>1, <2>1, ExportSame DEF Exporting
  <2> QED BY <1>1, <1>2, <2>1, <2>3, <2>4, ProcInv
<1>5. CASE Return
  BY <1>1, <1>5, ReturnInv
<1> QED BY <1>3, <1>4, <1>5 DEF LoadState

\* SaveSlot preserves the invariant.
LEMMA SaveSlotInv ==
    ASSUME Inv, SaveSlot
    PROVE  Inv'
<1> DEFINE r == proc.role
<1>1. /\ proc.pc = "slot" /\ slots' = [slots EXCEPT ![r].made = TRUE] /\ Goto("item")
      /\ UNCHANGED <<items, flight, state, file, aside, probe, out, exports, faults>>
  BY DEF SaveSlot, disk, At
<1>2. /\ proc' \in ProcType /\ proc'.pc = "item" /\ proc'.cmd = proc.cmd /\ proc'.role = r
      /\ r \in Roles
  BY <1>1, GotoFields DEF Inv, Stages, Provisioning, Types
<1>3. /\ slots' \in [Roles -> [made : BOOLEAN, public : MaybeKeys]] /\ slots'[r].made
      /\ \A q \in Roles : /\ slots'[q].public = slots[q].public
                          /\ slots[q].made => slots'[q].made
  BY <1>1, <1>2 DEF Inv, Types
<1>4. Types'
  BY <1>1, <1>2, <1>3 DEF Inv, Types, ProcType
<1>5. ASSUME NEW q \in Roles PROVE KeyringSound(q)'
  BY <1>1, <1>3 DEF Inv, KeyringSound, Used
<1>6. FilesSound' /\ InspectionIsSound'
  BY <1>1, <1>3, FilesSame DEF Committed
<1>7. ProcSound'
  BY <1>1, <1>2, <1>3 DEF Inv, ProcSound, Provisioning, Exporting
<1>8. ExportSound'
  BY <1>1, <1>2, ExportSame DEF Exporting
<1> QED BY <1>4, <1>5, <1>6, <1>7, <1>8 DEF Inv

\* FindItem preserves the invariant: the only item is taken, a key is made when there
\* never was one.
LEMMA FindItemInv ==
    ASSUME Inv, FindItem
    PROVE  Inv'
<1> DEFINE r == proc.role
<1>1. /\ UNCHANGED <<slots, items, flight, state, file, aside, probe, out, exports, faults>>
      /\ proc.pc = "item"
  BY DEF FindItem, vault, disk, At
<1>2. faults' \in 0..MaxFaults /\ faults <= faults'
  BY <1>1, HomeAssumption DEF Inv, Types
<1>3. r \in Roles /\ items[r] \subseteq Keys /\ NoKey \notin Keys
  BY HomeAssumption DEF Inv, Types
<1>4. ASSUME NEW k \in items[r], proc' = [proc EXCEPT !.pc = "commit", !.got = k] PROVE Inv'
  <2>1. /\ proc' \in ProcType /\ proc'.pc = "commit" /\ proc'.cmd = proc.cmd /\ proc'.role = r
        /\ proc'.got = k /\ k # NoKey
    BY <1>3, <1>4 DEF Inv, Types, ProcType, Stages, Provisioning, MaybeKeys
  <2>2. ProcSound'
    BY <1>1, <2>1 DEF Inv, ProcSound, Provisioning, Exporting
  <2>3. ExportSound'
    BY <1>1, <2>1, ExportSame DEF Exporting
  <2> QED BY <1>1, <1>2, <2>1, <2>2, <2>3, ProcInv
<1>5. CASE slots[r].public = NoKey /\ Goto("create")
  <2>1. /\ proc' \in ProcType /\ proc'.pc = "create" /\ proc'.cmd = proc.cmd /\ proc'.role = r
    BY <1>5, GotoFields DEF Inv, Stages, Provisioning
  <2>2. ProcSound'
    BY <1>1, <1>5, <2>1 DEF Inv, ProcSound, Provisioning, Exporting
  <2>3. ExportSound'
    BY <1>1, <2>1, ExportSame DEF Exporting
  <2> QED BY <1>1, <1>2, <2>1, <2>2, <2>3, ProcInv
<1>6. CASE Return
  BY <1>1, <1>6, ReturnInv
<1> QED BY <1>4, <1>5, <1>6 DEF FindItem

\* There is always a new key, and the key of the database is a generated one.
LEMMA ToStoreNew ==
    ASSUME Inv, Absent(proc.role)
    PROVE  /\ ToStore \in Keys /\ ToStore # NoKey
           /\ proc.role = "database" => ToStore \in Generated
<1> DEFINE r == proc.role
           U == Used(r)
<1>1. r \in Roles /\ faults \in Nat /\ faults <= MaxFaults /\ MaxFaults \in Nat
  BY HomeAssumption DEF Inv, Types
<1>2. IsFiniteSet(U) /\ Cardinality(U) <= faults
  <2>1. KeyringSound(r)
    BY <1>1 DEF Inv
  <2> QED BY <1>1, <2>1 DEF KeyringSound, Absent
<1>3. \E k \in Generated : k \notin U
  <2>1. SUFFICES ASSUME Generated \subseteq U PROVE FALSE
    OBVIOUS
  <2> HIDE DEF U
  <2>2. Cardinality(Generated) <= Cardinality(U)
    BY <1>2, <2>1, FS_Subset
  <2>3. Cardinality(Generated) > MaxFaults /\ Cardinality(Generated) \in Nat /\ Cardinality(U) \in Nat
    BY <1>2, HomeAssumption, FS_CardinalityType
  <2> QED BY <1>1, <1>2, <2>2, <2>3
<1>4. Fresh(r) \in Generated
  BY <1>3 DEF Fresh, Used
<1>5. Imported # NoKey => Imported \in Archives /\ r = "device"
  BY DEF Imported
<1> QED BY <1>4, <1>5, HomeAssumption DEF ToStore, Keys

\* One more key of a role: for the only item, or for a fault.
LEMMA KeyringGrows ==
    ASSUME Inv, NEW r \in Roles, NEW k, Absent(r), slots'[r] = slots[r], slots[r].made,
           r = "database" => k \in Generated, slots[r].public = NoKey,
           Used(r)' = Used(r) \cup {k}, faults' \in 0..MaxFaults,
           \/ faults' = faults /\ items'[r] # {}
           \/ faults' = faults + 1
    PROVE  KeyringSound(r)'
<1> DEFINE U == Used(r)
<1>1. /\ IsFiniteSet(U) /\ Cardinality(U) <= faults /\ Cardinality(U) \in Nat
      /\ faults \in Nat /\ faults' \in Nat
  <2>1. KeyringSound(r) /\ faults \in Nat
    BY HomeAssumption DEF Inv, Types
  <2>2. IsFiniteSet(U) /\ Cardinality(U) <= faults
    BY <2>1 DEF KeyringSound, Absent
  <2> QED BY <2>1, <2>2, FS_CardinalityType
<1>2. IsFiniteSet(U') /\ Cardinality(U') <= Cardinality(U) + 1 /\ Cardinality(U') \in Nat
  <2>1. U' = U \cup {k}
    OBVIOUS
  <2> HIDE DEF U
  <2>2. IsFiniteSet(U') /\ Cardinality(U') \in {Cardinality(U), Cardinality(U) + 1}
    BY <1>1, <2>1, FS_AddElement
  <2> QED BY <1>1, <2>2
<1>3. Cardinality(U') <= faults' + (IF items'[r] = {} THEN 0 ELSE 1)
  <2> HIDE DEF U
  <2> QED BY <1>1, <1>2
<1>4. r = "database" => U' \subseteq Generated
  BY DEF Inv, KeyringSound
<1> QED BY <1>2, <1>3, <1>4 DEF KeyringSound

\* CreateItem preserves the invariant: it makes the item of a role that has none
\* committed.
LEMMA CreateItemInv ==
    ASSUME Inv, CreateItem
    PROVE  Inv'
<1>a. PICK r \in Roles : r = proc.role
  BY DEF Inv, Types
<1>b. PICK k \in {ToStore} : k = ToStore
  OBVIOUS
<1>0. r = proc.role /\ k = ToStore
  BY <1>a, <1>b
<1>1. /\ proc.pc = "create"
      /\ UNCHANGED <<slots, flight, state, file, aside, probe, out, exports, faults>>
  BY DEF CreateItem, disk, At
<1>2. CASE Return /\ UNCHANGED items
  BY <1>1, <1>2, ReturnInv
<1>3. CASE /\ Absent(r) /\ items' = [items EXCEPT ![r] = {k}]
           /\ proc' = [proc EXCEPT !.pc = "readback", !.got = k]
  <2>1. k \in Keys /\ k # NoKey /\ (r = "database" => k \in Generated)
    BY <1>0, <1>3, ToStoreNew
  <2>2. r \in Roles /\ items \in [Roles -> SUBSET Keys] /\ items[r] = {}
    BY <1>3 DEF Inv, Types, Absent
  <2>3. items' \in [Roles -> SUBSET Keys] /\ items'[r] = {k} /\ \A q \in Roles : q # r => items'[q] = items[q]
    BY <1>3, <2>1, <2>2
  <2>4. /\ proc' \in ProcType /\ proc'.pc = "readback" /\ proc'.cmd = proc.cmd /\ proc'.role = r
        /\ proc'.got = k
    BY <1>0, <1>3, <2>1 DEF Inv, Types, ProcType, Stages, Provisioning, MaybeKeys
  <2>5. Types'
    BY <1>1, <2>3, <2>4 DEF Inv, Types, ProcType
  <2>6. slots[r].made /\ slots[r].public = NoKey
    BY <1>0, <1>1 DEF Inv, ProcSound
  <2>7. faults \in Nat /\ faults \in 0..MaxFaults
    BY HomeAssumption DEF Inv, Types
  <2>8. ASSUME NEW q \in Roles PROVE KeyringSound(q)'
    <3>1. CASE q = r
      <4>1. Used(r)' = Used(r) \cup {k} /\ items'[r] # {}
        BY <1>1, <2>2, <2>3 DEF Used
      <4>2. KeyringSound(r)'
        BY <1>1, <1>3, <2>1, <2>2, <2>6, <2>7, <4>1, KeyringGrows
      <4> QED BY <3>1, <4>2
    <3>2. CASE q # r
      BY <1>1, <2>3, <3>2 DEF Inv, KeyringSound, Used
    <3> QED BY <3>1, <3>2
  <2>9. FilesSound' /\ InspectionIsSound'
    BY <1>1, FilesSame DEF Committed
  <2>10. ProcSound'
    BY <1>0, <1>1, <2>1, <2>3, <2>4 DEF Inv, ProcSound, Provisioning, Exporting
  <2>11. ExportSound'
    BY <1>1, <2>4, ExportSame DEF Exporting
  <2> QED BY <2>5, <2>8, <2>9, <2>10, <2>11 DEF Inv
<1> QED BY <1>0, <1>2, <1>3 DEF CreateItem

\* CreateTimesOut preserves the invariant: the fault pays for the key in flight.
LEMMA CreateTimesOutInv ==
    ASSUME Inv, CreateTimesOut
    PROVE  Inv'
<1>a. PICK r \in Roles : r = proc.role
  BY DEF Inv, Types
<1>b. PICK k \in {ToStore} : k = ToStore
  OBVIOUS
<1>0. r = proc.role /\ k = ToStore
  BY <1>a, <1>b
<1>1. /\ proc.pc = "create" /\ Absent(r) /\ Return
      /\ faults < MaxFaults /\ faults' = faults + 1
      /\ flight' = [flight EXCEPT ![r] = @ \cup {k}]
      /\ UNCHANGED <<slots, items, state, file, aside, probe, out, exports>>
  BY <1>0 DEF CreateTimesOut, disk, At
<1>2. k \in Keys /\ k # NoKey /\ (r = "database" => k \in Generated)
  BY <1>0, <1>1, ToStoreNew
<1>3. r \in Roles /\ faults' \in 0..MaxFaults /\ faults \in Nat
  BY <1>1, HomeAssumption DEF Inv, Types
<1>4. /\ flight' \in [Roles -> SUBSET Keys] /\ flight'[r] = flight[r] \cup {k}
      /\ \A q \in Roles : q # r => flight'[q] = flight[q]
  BY <1>1, <1>2, <1>3 DEF Inv, Types
<1>5. Types'
  BY <1>1, <1>3, <1>4, ReturnFields DEF Inv, Types, ProcType
<1>6. slots[r].made /\ slots[r].public = NoKey
  BY <1>0, <1>1 DEF Inv, ProcSound
<1>7. ASSUME NEW q \in Roles PROVE KeyringSound(q)'
  <2>1. CASE q = r
    <3>1. Used(r)' = Used(r) \cup {k}
      BY <1>1, <1>4 DEF Used
    <3>2. KeyringSound(r)'
      BY <1>1, <1>2, <1>3, <1>6, <3>1, KeyringGrows
    <3> QED BY <2>1, <3>2
  <2>2. CASE q # r
    <3>1. Used(q)' = Used(q) /\ Has(q)' = Has(q) /\ faults <= faults'
      BY <1>1, <1>3, <1>4, <2>2 DEF Used, Has
    <3> QED BY <1>1, <1>3, <3>1, KeyringKept DEF Inv, KeyringSound, Has
  <2> QED BY <2>1, <2>2
<1>8. FilesSound' /\ InspectionIsSound'
  BY <1>1, FilesSame DEF Committed
<1>9. ExportSound'
  BY <1>1, ReturnFields, ExportSame
<1> QED BY <1>1, <1>5, <1>7, <1>8, <1>9, ReturnFields DEF Inv

\* Items that move between the calls under way, the keyring and what is aside.
LEMMA MovedInv ==
    ASSUME Inv, UNCHANGED <<slots, state, file, proc, probe, out, exports>>,
           items' \in [Roles -> SUBSET Keys], flight' \in [Roles -> SUBSET Keys],
           aside' \in [items : [Roles -> SUBSET Keys], state : StateType, file : FileType],
           aside'.state = aside.state, aside'.file = aside.file,
           faults' \in 0..MaxFaults, faults <= faults',
           \A r \in Roles : /\ Used(r)' \subseteq Used(r)
                            /\ items'[r] = {} => items[r] = {} \/ faults' = faults + 1
                            /\ Has(r) \subseteq Has(r)' \/ proc.pc = "idle"
                            /\ slots[r].public \in Has(r) => slots[r].public \in Has(r)'
    PROVE  Inv'
<1>1. Types'
  BY DEF Inv, Types
<1>2. ASSUME NEW r \in Roles PROVE KeyringSound(r)'
  <2>1. KeyringSound(r) /\ Types
    BY DEF Inv
  <2>2. slots[r].public # NoKey => slots[r].public \in Has(r)'
    BY <2>1 DEF KeyringSound, Has
  <2> QED BY <2>1, <2>2, KeyringKept
<1>3. FilesSound' /\ InspectionIsSound'
  BY FilesSame DEF Committed
<1>4. ProcSound'
  <2>1. proc.role \in Roles
    BY DEF Inv, Types
  <2>2. Has(proc.role) \subseteq Has(proc.role)' \/ proc.pc = "idle"
    BY <2>1 DEF Has
  <2>3. Imported' = Imported
    BY DEF Imported
  <2>4. \A k : k \in Has(proc.role) => k \in Has(proc.role)' \/ proc.pc = "idle"
    BY <2>2
  <2> QED BY <2>1, <2>2, <2>3 DEF Inv, ProcSound, Has, Provisioning, Exporting
<1>5. ExportSound'
  BY DEF Inv, ExportSound, PackageHasSecret
<1> QED BY <1>1, <1>2, <1>3, <1>4, <1>5 DEF Inv

\* Land preserves the invariant: the key was counted when the call timed out.
LEMMA LandInv ==
    ASSUME Inv, NEW r \in Roles, Land(r)
    PROVE  Inv'
<1>1. PICK k \in flight[r] : /\ items' = [items EXCEPT ![r] = @ \cup {k}]
                             /\ flight' = [flight EXCEPT ![r] = @ \ {k}]
  BY DEF Land
<1>2. UNCHANGED <<slots, state, file, aside, proc, probe, out, exports, faults>>
  BY DEF Land, disk
<1>3. /\ items \in [Roles -> SUBSET Keys] /\ flight \in [Roles -> SUBSET Keys] /\ k \in Keys
      /\ aside \in [items : [Roles -> SUBSET Keys], state : StateType, file : FileType]
      /\ faults \in Nat /\ faults \in 0..MaxFaults
  BY HomeAssumption DEF Inv, Types
<1>4. items' \in [Roles -> SUBSET Keys] /\ flight' \in [Roles -> SUBSET Keys]
  BY <1>1, <1>3
<1>5. ASSUME NEW q \in Roles
      PROVE  /\ Used(q)' \subseteq Used(q) /\ Has(q) \subseteq Has(q)'
             /\ items'[q] = {} => items[q] = {}
  BY <1>1, <1>2, <1>3 DEF Used, Has
<1> QED BY <1>2, <1>3, <1>4, <1>5, MovedInv

\* LoseItem preserves the invariant: what went missing can come back.
LEMMA LoseItemInv ==
    ASSUME Inv, NEW r \in Roles, LoseItem(r)
    PROVE  Inv'
<1>1. /\ faults < MaxFaults /\ faults' = faults + 1 /\ items' = [items EXCEPT ![r] = {}]
      /\ aside' = [aside EXCEPT !.items[r] = @ \cup items[r]]
      /\ UNCHANGED <<slots, flight, state, file, proc, probe, out, exports>>
  BY DEF LoseItem
<1>2. /\ items \in [Roles -> SUBSET Keys] /\ flight \in [Roles -> SUBSET Keys]
      /\ aside \in [items : [Roles -> SUBSET Keys], state : StateType, file : FileType]
      /\ faults' \in 0..MaxFaults /\ faults <= faults'
  BY <1>1, HomeAssumption DEF Inv, Types
<1>3. /\ items' \in [Roles -> SUBSET Keys] /\ aside'.state = aside.state /\ aside'.file = aside.file
      /\ aside' \in [items : [Roles -> SUBSET Keys], state : StateType, file : FileType]
      /\ \A q \in Roles : aside'.items[q] = IF q = r THEN aside.items[q] \cup items[q] ELSE aside.items[q]
  BY <1>1, <1>2
<1>4. ASSUME NEW q \in Roles
      PROVE  Used(q)' \subseteq Used(q) /\ Has(q) \subseteq Has(q)'
  BY <1>1, <1>2, <1>3 DEF Used, Has
<1> QED BY <1>1, <1>2, <1>3, <1>4, MovedInv

\* Resolve preserves the invariant: of a duplicate, the committed item stays.
LEMMA ResolveInv ==
    ASSUME Inv, NEW r \in Roles, Resolve(r)
    PROVE  Inv'
<1>1. PICK k \in items[r] : /\ slots[r].public \in items[r] => k = slots[r].public
                            /\ items' = [items EXCEPT ![r] = {k}]
  BY DEF Resolve
<1>2. UNCHANGED <<slots, flight, state, file, aside, proc, probe, out, exports, faults>> /\ proc.pc = "idle"
  BY DEF Resolve, disk, At
<1>3. /\ items \in [Roles -> SUBSET Keys] /\ flight \in [Roles -> SUBSET Keys]
      /\ aside \in [items : [Roles -> SUBSET Keys], state : StateType, file : FileType]
      /\ faults \in Nat /\ faults \in 0..MaxFaults
  BY HomeAssumption DEF Inv, Types
<1>4. items' \in [Roles -> SUBSET Keys]
  BY <1>1, <1>3
<1>5. ASSUME NEW q \in Roles
      PROVE  /\ Used(q)' \subseteq Used(q) /\ (items'[q] = {} => items[q] = {})
             /\ slots[q].public \in Has(q) => slots[q].public \in Has(q)'
  BY <1>1, <1>2, <1>3 DEF Used, Has
<1> QED BY <1>2, <1>3, <1>4, <1>5, MovedInv

\* Readback preserves the invariant.
LEMMA ReadbackInv ==
    ASSUME Inv, Readback
    PROVE  Inv'
<1>1. /\ UNCHANGED <<slots, items, flight, state, file, aside, probe, out, exports, faults>>
      /\ proc.pc = "readback"
  BY DEF Readback, vault, disk, At
<1>2. faults' \in 0..MaxFaults /\ faults <= faults'
  BY <1>1, HomeAssumption DEF Inv, Types
<1>3. CASE Goto("commit")
  <2>1. /\ proc' \in ProcType /\ proc'.pc = "commit" /\ proc'.cmd = proc.cmd
        /\ proc'.role = proc.role /\ proc'.got = proc.got
    BY <1>3, GotoFields DEF Inv, Stages, Provisioning
  <2>2. ProcSound'
    BY <1>1, <2>1 DEF Inv, ProcSound, Provisioning, Exporting
  <2>3. ExportSound'
    BY <1>1, <2>1, ExportSame DEF Exporting
  <2> QED BY <1>1, <1>2, <2>1, <2>2, <2>3, ProcInv
<1>4. CASE Return
  BY <1>1, <1>4, ReturnInv
<1> QED BY <1>3, <1>4 DEF Readback

\* CommitSlot preserves the invariant: the key found is there, and is the one bound if
\* one is.
LEMMA CommitSlotInv ==
    ASSUME Inv, CommitSlot
    PROVE  Inv'
<1>a. PICK r \in Roles : r = proc.role
  BY DEF Inv, Types
<1>b. PICK k \in {proc.got} : k = proc.got
  OBVIOUS
<1>0. r = proc.role /\ k = proc.got
  BY <1>a, <1>b
<1>1. /\ proc.pc = "commit" /\ UNCHANGED <<items, flight, state, file, aside, probe, out, exports, faults>>
  BY DEF CommitSlot, disk, At
<1>2. CASE Return /\ UNCHANGED slots
  BY <1>1, <1>2, ReturnInv
<1>3. CASE /\ Agrees(k) /\ slots' = [slots EXCEPT ![r].public = k]
           /\ Goto(IF r = "database" THEN "record" ELSE "identity")
  <2>1. /\ proc' \in ProcType /\ proc'.pc = (IF r = "database" THEN "record" ELSE "identity")
        /\ proc'.cmd = proc.cmd /\ proc'.role = r /\ proc'.got = k
    BY <1>0, <1>3, GotoFields DEF Inv, Stages
  <2>2. k \in MaybeKeys /\ k # NoKey /\ k \in Has(r) /\ slots[r].made
    BY <1>0, <1>1 DEF Inv, Types, ProcSound, Has
  <2>3. slots[r].public \in {NoKey, k} /\ Imported \in {NoKey, k} /\ Imported' = Imported
    BY <1>0, <1>3, <2>1 DEF Agrees, Imported
  <2>4. /\ slots' \in [Roles -> [made : BOOLEAN, public : MaybeKeys]]
        /\ slots'[r].public = k /\ slots'[r].made = slots[r].made
        /\ \A q \in Roles : q # r => slots'[q] = slots[q]
    BY <1>3, <2>2 DEF Inv, Types
  <2>5. Committed
    BY <2>3, <2>4 DEF Committed
  <2>6. Types'
    BY <1>1, <2>1, <2>4 DEF Inv, Types, ProcType
  <2>7. ASSUME NEW q \in Roles PROVE KeyringSound(q)'
    BY <1>1, <2>2, <2>4 DEF Inv, KeyringSound, Used, Has
  <2>8. FilesSound' /\ InspectionIsSound'
    BY <1>1, <2>5, FilesSame
  <2>9. ProcSound'
    BY <1>0, <1>1, <2>1, <2>2, <2>3, <2>4 DEF Inv, ProcSound, Provisioning, Exporting, Roles
  <2>10. ExportSound'
    BY <1>1, <2>1, ExportSame DEF Exporting
  <2> QED BY <2>6, <2>7, <2>8, <2>9, <2>10 DEF Inv
<1> QED BY <1>0, <1>2, <1>3 DEF CommitSlot

----------------------------------------------------------------------------
(* The metadata and the database.                                          *)

\* Steps on the two files that keep the database with an identity.
LEMMA DiskInv ==
    ASSUME Inv, UNCHANGED <<slots, items, flight, probe, out, exports>>,
           state' \in StateType, file' \in FileType, proc' \in ProcType,
           aside' \in [items : [Roles -> SUBSET Keys], state : StateType, file : FileType],
           aside'.items = aside.items, faults' \in 0..MaxFaults, faults <= faults',
           \A f \in Databases : f.schema = Latest /\ f.ref # NoKey =>
                  \E g \in Databases' : g.schema = Latest /\ g.ref = f.ref,
           FilesSound', ProcSound', ExportSound'
    PROVE  Inv'
<1>1. Types'
  BY DEF Inv, Types, ProcType
<1>2. \A r \in Roles : KeyringSound(r)'
  BY KeyringSame
<1>3. InspectionIsSound'
  BY DEF Inv, InspectionIsSound
<1> QED BY <1>1, <1>2, <1>3 DEF Inv

\* Steps of the command on what is here: a stage reached, nothing put aside.
LEMMA HereInv ==
    ASSUME Inv, UNCHANGED <<slots, items, flight, aside, probe, out, exports, faults>>,
           NEW pc \in Stages \ Exporting, proc.pc \notin {"idle", "secret", "write", "fill"},
           Goto(pc) \/ (pc = proc.pc /\ UNCHANGED proc) \/ Return,
           state' \in StateType, file' \in FileType,
           file.bound => file'.bound,
           file.ref # NoKey => file'.ref = file.ref /\ (file.schema = Latest => file'.schema = Latest),
           FilesSound', ProcSound'
    PROVE  Inv'
<1>1. \/ proc'.pc = "idle" /\ proc' \in ProcType
      \/ proc' \in ProcType /\ proc'.pc = pc /\ proc'.cmd = proc.cmd
  BY GotoFields, ReturnFields DEF Inv, Types, ProcType
<1>2. ExportSound'
  BY <1>1, ExportSame
<1>3. /\ aside' \in [items : [Roles -> SUBSET Keys], state : StateType, file : FileType]
      /\ faults' \in 0..MaxFaults /\ faults <= faults'
  BY HomeAssumption DEF Inv, Types
<1>4. ASSUME NEW f \in Databases, f.schema = Latest, f.ref # NoKey
      PROVE  \E g \in Databases' : g.schema = Latest /\ g.ref = f.ref
  <2>1. CASE f = file
    BY <1>4, <2>1 DEF Databases
  <2>2. CASE f = aside.file
    BY <1>4, <2>2 DEF Databases
  <2> QED BY <2>1, <2>2 DEF Databases
<1> QED BY <1>1, <1>2, <1>3, <1>4, DiskInv

\* Record preserves the invariant: the metadata names the committed key.
LEMMA RecordInv ==
    ASSUME Inv, Record
    PROVE  Inv'
<1>1. /\ proc.pc = "record" /\ state' = [there |-> TRUE, key |-> proc.got, ready |-> FALSE] /\ Goto("open")
      /\ UNCHANGED <<slots, items, flight, aside, file, probe, out, exports, faults>>
  BY DEF Record, vault, At
<1>2. /\ proc' \in ProcType /\ proc'.pc = "open" /\ proc.role = "database" /\ proc.got # NoKey
      /\ proc.got = slots["database"].public /\ ~state.there /\ ~file.there /\ proc.got \in MaybeKeys
  BY <1>1, GotoFields DEF Inv, Types, ProcSound, Stages
<1>3. /\ state' \in StateType /\ state'.there /\ state'.key = proc.got /\ ~state'.ready
  BY <1>1, <1>2 DEF StateType
<1>4. FilesSound'
  <2>1. StateSound(state)' /\ StateSound(aside.state)'
    BY <1>1, <1>2, <1>3 DEF Inv, FilesSound, StateSound
  <2>2. FileSound(file)' /\ FileSound(aside.file)' /\ file.ref = NoKey /\ aside.file.ref = NoKey
    BY <1>1, <1>2 DEF Inv, FilesSound, FileSound
  <2> QED BY <1>1, <2>1, <2>2 DEF Inv, FilesSound
<1>5. ProcSound'
  BY <1>2, <1>3 DEF ProcSound, Provisioning, Exporting
<1>6. file' \in FileType /\ "open" \in Stages \ Exporting
  BY <1>1 DEF Inv, Types, Stages, Exporting
<1> QED BY <1>1, <1>3, <1>4, <1>5, <1>6, HereInv

\* OpenFile preserves the invariant: a database that was ready is never made anew.
LEMMA OpenFileInv ==
    ASSUME Inv, OpenFile
    PROVE  Inv'
<1>1. /\ proc.pc = "open" /\ UNCHANGED <<slots, items, flight, state, aside, probe, out, exports, faults>>
  BY DEF OpenFile, vault, At
<1>2. CASE Return /\ UNCHANGED file
  BY <1>1, <1>2, ReturnInv
<1>3. CASE Openable /\ file' = [file EXCEPT !.there = TRUE] /\ Goto("bind")
  <2>1. /\ file' \in FileType /\ file'.there /\ file'.bound = file.bound /\ file'.key = file.key
        /\ file'.schema = file.schema /\ file'.ref = file.ref /\ file'.reg = file.reg
    BY <1>3 DEF Inv, Types, FileType
  <2>2. proc' \in ProcType /\ proc'.pc = "bind" /\ state.there
    BY <1>1, <1>3, GotoFields DEF Inv, ProcSound, Stages
  <2>3. FilesSound'
    <3>1. StateSound(state)' /\ StateSound(aside.state)'
      BY <1>1 DEF Inv, FilesSound, StateSound
    <3>2. FileSound(file)' /\ FileSound(aside.file)'
      BY <1>1, <2>1 DEF Inv, FilesSound, FileSound
    <3>3. aside.file.ref = NoKey
      BY <1>3 DEF Inv, FilesSound, FileSound, Openable
    <3> QED BY <1>1, <2>1, <3>1, <3>2, <3>3 DEF Inv, FilesSound
  <2>4. ProcSound'
    BY <1>1, <2>1, <2>2 DEF ProcSound, Provisioning, Exporting
  <2>5. state' \in StateType /\ "bind" \in Stages \ Exporting
    BY <1>1 DEF Inv, Types, Stages, Exporting
  <2> QED BY <1>1, <1>3, <2>1, <2>3, <2>4, <2>5, HereInv
<1> QED BY <1>2, <1>3 DEF OpenFile

\* Bind preserves the invariant.
LEMMA BindInv ==
    ASSUME Inv, Bind
    PROVE  Inv'
<1>1. /\ proc.pc = "bind" /\ UNCHANGED <<slots, items, flight, state, aside, probe, out, exports, faults>>
  BY DEF Bind, vault, At
<1>2. CASE Return /\ UNCHANGED file
  BY <1>1, <1>2, ReturnInv
<1>3. CASE /\ Goto("ready")
           /\ \/ file.bound /\ file' = file
              \/ ~file.bound /\ file' = [file EXCEPT !.bound = TRUE, !.key = state.key]
  <2>1. proc' \in ProcType /\ proc'.pc = "ready" /\ state.there /\ file.there
    BY <1>1, <1>3, GotoFields DEF Inv, ProcSound, Stages
  <2>2. state.key # NoKey /\ state.key = slots["database"].public /\ state.key \in MaybeKeys
    BY <2>1 DEF Inv, FilesSound, StateSound, Types, StateType
  <2>3. /\ file' \in FileType /\ file'.there /\ file'.bound /\ file'.ref = file.ref
        /\ file'.reg = file.reg /\ file'.schema = file.schema
        /\ file'.key = slots["database"].public
    BY <1>3, <2>1, <2>2 DEF Inv, Types, FileType, FilesSound, FileSound
  <2>4. FilesSound'
    <3>1. StateSound(state)' /\ StateSound(aside.state)'
      BY <1>1 DEF Inv, FilesSound, StateSound
    <3>2. FileSound(file)' /\ FileSound(aside.file)'
      BY <1>1, <2>2, <2>3 DEF Inv, FilesSound, FileSound
    <3> QED BY <1>1, <2>1, <2>3, <3>1, <3>2 DEF Inv, FilesSound
  <2>5. ProcSound'
    BY <1>1, <2>1, <2>3 DEF ProcSound, Provisioning, Exporting
  <2>6. state' \in StateType /\ "ready" \in Stages \ Exporting
    BY <1>1 DEF Inv, Types, Stages, Exporting
  <2> QED BY <1>1, <1>3, <2>3, <2>4, <2>5, <2>6, HereInv
<1> QED BY <1>2, <1>3 DEF Bind

\* MarkReady preserves the invariant.
LEMMA MarkReadyInv ==
    ASSUME Inv, MarkReady
    PROVE  Inv'
<1>1. /\ proc.pc = "ready" /\ state' = [state EXCEPT !.ready = TRUE] /\ Goto("migrate")
      /\ UNCHANGED <<slots, items, flight, file, aside, probe, out, exports, faults>>
  BY DEF MarkReady, vault, At
<1>2. proc' \in ProcType /\ proc'.pc = "migrate" /\ state.there /\ file.bound
  BY <1>1, GotoFields DEF Inv, ProcSound, Stages
<1>3. state' \in StateType /\ state'.there /\ state'.ready /\ state'.key = state.key
  BY <1>1, <1>2 DEF Inv, Types, StateType
<1>4. FilesSound'
  <2>1. StateSound(state)' /\ StateSound(aside.state)'
    BY <1>1, <1>2, <1>3 DEF Inv, FilesSound, StateSound
  <2>2. FileSound(file)' /\ FileSound(aside.file)'
    BY <1>1 DEF Inv, FilesSound, FileSound
  <2> QED BY <1>1, <1>3, <2>1, <2>2 DEF Inv, FilesSound
<1>5. ProcSound'
  BY <1>1, <1>2, <1>3 DEF ProcSound, Provisioning, Exporting
<1>6. file' \in FileType /\ "migrate" \in Stages \ Exporting
  BY <1>1 DEF Inv, Types, Stages, Exporting
<1> QED BY <1>1, <1>3, <1>4, <1>5, <1>6, HereInv

\* Migrate preserves the invariant.
LEMMA MigrateInv ==
    ASSUME Inv, Migrate
    PROVE  Inv'
<1>1. /\ proc.pc = "migrate" /\ UNCHANGED <<slots, items, flight, state, aside, probe, out, exports, faults>>
  BY DEF Migrate, vault, At
<1>2. file.bound /\ state.ready /\ state' \in StateType
  BY <1>1 DEF Inv, ProcSound, Types
<1>3. file \in FileType /\ file.schema \in 0..Latest /\ Latest \in Nat
  BY HomeAssumption DEF Inv, Types, FileType
<1>4. CASE file.schema < Latest /\ file' = [file EXCEPT !.schema = @ + 1] /\ UNCHANGED proc
  <2>1. file.schema + 1 \in 0..Latest
    BY <1>3, <1>4
  <2>2. /\ file' \in FileType /\ file'.there = file.there /\ file'.bound = file.bound /\ file'.key = file.key
        /\ file'.ref = file.ref /\ file'.reg = file.reg
    BY <1>3, <1>4, <2>1 DEF FileType
  <2>3. FilesSound'
    <3>1. StateSound(state)' /\ StateSound(aside.state)'
      BY <1>1 DEF Inv, FilesSound, StateSound
    <3>2. FileSound(file)' /\ FileSound(aside.file)'
      BY <1>1, <2>2 DEF Inv, FilesSound, FileSound
    <3> QED BY <1>1, <2>2, <3>1, <3>2 DEF Inv, FilesSound
  <2>4. ProcSound'
    BY <1>1, <1>2, <1>4, <2>2 DEF ProcSound, Provisioning, Exporting
  <2>5. "migrate" \in Stages \ Exporting /\ file.schema # Latest
    BY <1>3, <1>4 DEF Stages, Exporting
  <2> QED BY <1>1, <1>2, <1>4, <2>2, <2>3, <2>4, <2>5, HereInv
<1>5. CASE Goto("command") /\ UNCHANGED file
  <2>1. proc' \in ProcType /\ proc'.pc = "command"
    BY <1>5, GotoFields DEF Inv, Stages
  <2>2. ProcSound'
    BY <1>1, <1>2, <1>5, <2>1 DEF ProcSound, Provisioning, Exporting
  <2>3. FilesSound'
    BY <1>1, <1>5, FilesSame DEF Committed
  <2>4. "command" \in Stages \ Exporting /\ file' \in FileType
    BY <1>3, <1>5 DEF Stages, Exporting
  <2> QED BY <1>1, <1>2, <1>5, <2>2, <2>3, <2>4, HereInv
<1> QED BY <1>4, <1>5 DEF Migrate

\* ClaimHome and export_recovery preserve the invariant.
LEMMA CommandInv ==
    ASSUME Inv, ClaimHome \/ export_recovery
    PROVE  Inv'
<1>1. /\ proc.pc = "command"
      /\ UNCHANGED <<slots, items, flight, state, file, aside, probe, out, exports, faults>>
  BY DEF ClaimHome, export_recovery, vault, disk, At
<1>2. faults' \in 0..MaxFaults /\ faults <= faults' /\ file.bound /\ state.ready
  BY <1>1, HomeAssumption DEF Inv, Types, ProcSound
<1>3. CASE Return
  BY <1>1, <1>3, ReturnInv
<1>4. CASE proc' = [proc EXCEPT !.pc = "slot", !.role = "device"]
  <2>1. proc' \in ProcType /\ proc'.pc = "slot" /\ proc'.cmd = proc.cmd /\ proc'.role = "device"
    BY <1>4 DEF Inv, Types, ProcType, Stages, Provisioning, Roles
  <2>2. ProcSound'
    BY <1>1, <1>2, <2>1 DEF ProcSound, Provisioning, Exporting
  <2>3. ExportSound'
    BY <1>1, <2>1, ExportSame DEF Exporting
  <2> QED BY <1>1, <1>2, <2>1, <2>2, <2>3, ProcInv
<1>5. CASE proc.cmd = "export" /\ Goto("package")
  <2>1. proc' \in ProcType /\ proc'.pc = "package" /\ proc'.cmd = "export"
    BY <1>5, GotoFields DEF Inv, Stages, Exporting
  <2>2. ProcSound'
    BY <1>1, <1>2, <2>1 DEF ProcSound, Provisioning, Exporting
  <2>3. ExportSound'
    BY <1>1, <1>5, <2>1 DEF Inv, ExportSound, PackageHasSecret
  <2> QED BY <1>1, <1>2, <2>1, <2>2, <2>3, ProcInv
<1> QED BY <1>3, <1>4, <1>5 DEF ClaimHome, export_recovery

\* initialize and restore preserve the invariant: the identity is that of the committed
\* key, the archived registration too.
LEMMA IdentityInv ==
    ASSUME Inv, initialize \/ restore
    PROVE  Inv'
<1>0. PICK k : k = proc.got
  OBVIOUS
<1>1. /\ proc.pc = "identity" /\ Return
      /\ UNCHANGED <<slots, items, flight, state, aside, probe, out, exports, faults>>
      /\ \/ file' = file
         \/ file' = [file EXCEPT !.ref = k, !.reg = k]
         \/ file' = [file EXCEPT !.ref = k, !.reg = Imported, !.marker = TRUE] /\ Imported # NoKey
  BY <1>0 DEF initialize, restore, vault, At
<1>2. /\ k = slots["device"].public /\ k # NoKey /\ k \in MaybeKeys /\ Imported \in {NoKey, k}
      /\ state.ready /\ file.bound
  BY <1>0, <1>1 DEF Inv, Types, ProcSound
<1>3. CASE file' = file
  BY <1>1, <1>3, ReturnInv
<1>4. CASE \/ file' = [file EXCEPT !.ref = k, !.reg = k]
           \/ file' = [file EXCEPT !.ref = k, !.reg = Imported, !.marker = TRUE] /\ Imported # NoKey
  <2>1. /\ file' \in FileType /\ file'.ref = k /\ file'.reg = k /\ file'.bound = file.bound
        /\ file'.key = file.key /\ file'.there = file.there /\ file'.schema = file.schema
    <3>1. file \in FileType /\ Imported \in MaybeKeys
      BY <1>2 DEF Inv, Types, MaybeKeys
    <3>2. CASE file' = [file EXCEPT !.ref = k, !.reg = k]
      BY <1>2, <3>1, <3>2 DEF FileType
    <3>3. CASE file' = [file EXCEPT !.ref = k, !.reg = k, !.marker = TRUE]
      BY <1>2, <3>1, <3>3 DEF FileType
    <3> QED BY <1>2, <1>4, <3>2, <3>3
  <2>2. file.ref # NoKey => file.ref = k
    BY <1>2 DEF Inv, FilesSound, FileSound
  <2>3. FilesSound'
    <3>1. StateSound(state)' /\ StateSound(aside.state)' /\ state.there
      BY <1>1, <1>2 DEF Inv, FilesSound, StateSound
    <3>2. FileSound(file)' /\ FileSound(aside.file)' /\ file.there
      BY <1>1, <1>2, <2>1 DEF Inv, FilesSound, FileSound
    <3> QED BY <1>1, <1>2, <2>1, <3>1, <3>2 DEF Inv, FilesSound
  <2>4. state' \in StateType /\ "identity" \in Stages \ Exporting
    BY <1>1 DEF Inv, Types, Stages, Provisioning, Exporting
  <2> QED BY <1>1, <2>1, <2>2, <2>3, <2>4, ReturnFields, HereInv
<1> QED BY <1>1, <1>3, <1>4

----------------------------------------------------------------------------
(* What goes missing and comes back.                                       *)

\* LoseFile preserves the invariant: the other file stays where it is.
LEMMA LoseFileInv ==
    ASSUME Inv, LoseFile
    PROVE  Inv'
<1>1. /\ faults < MaxFaults /\ faults' = faults + 1 /\ proc.pc = "idle"
      /\ ~aside.state.there /\ ~aside.file.there
      /\ UNCHANGED <<slots, items, flight, proc, probe, out, exports>>
  BY DEF LoseFile, vault, At
<1>2. faults' \in 0..MaxFaults /\ faults <= faults' /\ proc' \in ProcType
  BY <1>1, HomeAssumption DEF Inv, Types, ProcType
<1>3. ProcSound'
  BY <1>1 DEF ProcSound, Provisioning, Exporting
<1>4. ExportSound'
  BY <1>1, ExportSame
<1>5. /\ aside \in [items : [Roles -> SUBSET Keys], state : StateType, file : FileType]
      /\ state \in StateType /\ file \in FileType
  BY DEF Inv, Types
<1>6. /\ NoState \in StateType /\ ~NoState.there /\ NoState.key = NoKey /\ ~NoState.ready
      /\ NoFile \in FileType /\ ~NoFile.there /\ ~NoFile.bound /\ NoFile.ref = NoKey
  BY HomeAssumption DEF NoState, NoFile, StateType, FileType, MaybeKeys
<1>7. aside.file.ref = NoKey /\ ~aside.file.bound
  BY <1>1 DEF Inv, FilesSound, FileSound
<1>8. CASE state.there /\ aside' = [aside EXCEPT !.state = state] /\ state' = NoState /\ UNCHANGED file
  <2>1. /\ aside' \in [items : [Roles -> SUBSET Keys], state : StateType, file : FileType]
        /\ aside'.items = aside.items /\ aside'.state = state /\ aside'.file = aside.file
    BY <1>5, <1>8
  <2>2. FilesSound'
    <3>1. StateSound(state)' /\ StateSound(aside.state)'
      BY <1>1, <1>6, <1>8, <2>1 DEF Inv, FilesSound, StateSound
    <3>2. FileSound(file)' /\ FileSound(aside.file)'
      BY <1>1, <1>8, <2>1 DEF Inv, FilesSound, FileSound
    <3> QED BY <1>1, <1>6, <1>7, <1>8, <2>1, <3>1, <3>2 DEF Inv, FilesSound
  <2>3. Databases' = Databases
    BY <1>8, <2>1 DEF Databases
  <2> QED BY <1>1, <1>2, <1>3, <1>4, <1>5, <1>6, <1>8, <2>1, <2>2, <2>3, DiskInv
<1>9. CASE file.bound /\ aside' = [aside EXCEPT !.file = file] /\ file' = NoFile /\ UNCHANGED state
  <2>1. /\ aside' \in [items : [Roles -> SUBSET Keys], state : StateType, file : FileType]
        /\ aside'.items = aside.items /\ aside'.file = file /\ aside'.state = aside.state
    BY <1>5, <1>9
  <2>2. FilesSound'
    <3>1. StateSound(state)' /\ StateSound(aside.state)' /\ ~aside.state.ready
      BY <1>1, <1>9, <2>1 DEF Inv, FilesSound, StateSound
    <3>2. FileSound(file)' /\ FileSound(aside.file)'
      BY <1>1, <1>6, <1>9, <2>1 DEF Inv, FilesSound, FileSound
    <3> QED BY <1>1, <1>6, <1>9, <2>1, <3>1, <3>2 DEF Inv, FilesSound
  <2>3. Databases \subseteq Databases'
    BY <1>7, <2>1 DEF Databases
  <2> QED BY <1>1, <1>2, <1>3, <1>4, <1>5, <1>6, <1>9, <2>1, <2>2, <2>3, DiskInv
<1> QED BY <1>8, <1>9 DEF LoseFile

\* PutBack preserves the invariant: what took the place of a lost file stays, and never
\* took the place of an identity.
LEMMA PutBackInv ==
    ASSUME Inv, PutBack
    PROVE  Inv'
<1>1. /\ aside \in [items : [Roles -> SUBSET Keys], state : StateType, file : FileType]
      /\ state \in StateType /\ file \in FileType /\ proc \in ProcType
      /\ items \in [Roles -> SUBSET Keys] /\ flight \in [Roles -> SUBSET Keys]
      /\ faults \in 0..MaxFaults /\ faults <= faults
  BY HomeAssumption DEF Inv, Types, ProcType
<1>2. /\ NoState \in StateType /\ ~NoState.there /\ NoState.key = NoKey /\ ~NoState.ready
      /\ NoFile \in FileType /\ ~NoFile.there /\ ~NoFile.bound /\ NoFile.ref = NoKey
  BY HomeAssumption DEF NoState, NoFile, StateType, FileType, MaybeKeys
<1>3. ASSUME NEW r \in Roles, items' = [items EXCEPT ![r] = @ \cup aside.items[r]],
             aside' = [aside EXCEPT !.items[r] = {}], aside.items[r] # {},
             UNCHANGED <<slots, flight, state, file, proc, probe, out, exports, faults>>
      PROVE  Inv'
  <2>1. /\ items' \in [Roles -> SUBSET Keys] /\ aside'.state = aside.state /\ aside'.file = aside.file
        /\ aside' \in [items : [Roles -> SUBSET Keys], state : StateType, file : FileType]
        /\ \A q \in Roles : aside'.items[q] = IF q = r THEN {} ELSE aside.items[q]
    BY <1>1, <1>3
  <2>2. ASSUME NEW q \in Roles
        PROVE  /\ Used(q)' \subseteq Used(q) /\ Has(q) \subseteq Has(q)'
               /\ items'[q] = {} => items[q] = {}
    BY <1>1, <1>3, <2>1 DEF Used, Has
  <2> QED BY <1>1, <1>3, <2>1, <2>2, MovedInv
<1>4. ASSUME proc.pc = "idle", UNCHANGED <<slots, items, flight, proc, probe, out, exports, faults>>,
             \/ /\ aside.state.there /\ state' = (IF state.there THEN state ELSE aside.state)
                /\ aside' = [aside EXCEPT !.state = NoState] /\ UNCHANGED file
             \/ /\ aside.file.there /\ file' = (IF file.there THEN file ELSE aside.file)
                /\ aside' = [aside EXCEPT !.file = NoFile] /\ UNCHANGED state
      PROVE  Inv'
  <2>1. ProcSound' /\ proc' \in ProcType
    BY <1>1, <1>4 DEF ProcSound, Provisioning, Exporting
  <2>2. ExportSound'
    BY <1>4, ExportSame
  <2>3. CASE /\ aside.state.there /\ state' = (IF state.there THEN state ELSE aside.state)
             /\ aside' = [aside EXCEPT !.state = NoState] /\ UNCHANGED file
    <3>1. /\ aside' \in [items : [Roles -> SUBSET Keys], state : StateType, file : FileType]
          /\ aside'.items = aside.items /\ aside'.state = NoState /\ aside'.file = aside.file
          /\ state' \in StateType /\ (state' = state \/ state' = aside.state)
      BY <1>1, <1>2, <2>3
    <3>2. FilesSound'
      <4>1. StateSound(state)' /\ StateSound(aside.state)'
        BY <1>2, <1>4, <3>1 DEF Inv, FilesSound, StateSound
      <4>2. FileSound(file)' /\ FileSound(aside.file)'
        BY <1>4, <2>3, <3>1 DEF Inv, FilesSound, FileSound
      <4> QED BY <1>2, <1>4, <2>3, <3>1, <4>1, <4>2 DEF Inv, FilesSound, StateSound
    <3>3. Databases' = Databases
      BY <2>3, <3>1 DEF Databases
    <3> QED BY <1>1, <1>4, <2>1, <2>2, <2>3, <3>1, <3>2, <3>3, DiskInv
  <2>4. CASE /\ aside.file.there /\ file' = (IF file.there THEN file ELSE aside.file)
             /\ aside' = [aside EXCEPT !.file = NoFile] /\ UNCHANGED state
    <3>1. /\ aside' \in [items : [Roles -> SUBSET Keys], state : StateType, file : FileType]
          /\ aside'.items = aside.items /\ aside'.file = NoFile /\ aside'.state = aside.state
          /\ file' \in FileType /\ (file' = file \/ file' = aside.file)
      BY <1>1, <1>2, <2>4
    <3>2. FilesSound'
      <4>1. StateSound(state)' /\ StateSound(aside.state)'
        BY <1>4, <2>4, <3>1 DEF Inv, FilesSound, StateSound
      <4>2. FileSound(file)' /\ FileSound(aside.file)'
        BY <1>2, <1>4, <3>1 DEF Inv, FilesSound, FileSound
      <4> QED BY <1>2, <1>4, <2>4, <3>1, <4>1, <4>2 DEF Inv, FilesSound
    <3>3. ASSUME NEW f \in Databases, f.ref # NoKey PROVE f \in Databases'
      <4>1. CASE f = file
        BY <2>4, <3>3, <4>1 DEF Databases, Inv, FilesSound, FileSound
      <4>2. CASE f = aside.file
        BY <2>4, <3>3, <4>2 DEF Databases, Inv, FilesSound
      <4> QED BY <4>1, <4>2 DEF Databases
    <3> QED BY <1>1, <1>4, <2>1, <2>2, <2>4, <3>1, <3>2, <3>3, DiskInv
  <2> QED BY <1>4, <2>3, <2>4
<1>5. \/ \E r \in Roles : /\ aside.items[r] # {} /\ items' = [items EXCEPT ![r] = @ \cup aside.items[r]]
                          /\ aside' = [aside EXCEPT !.items[r] = {}]
                          /\ UNCHANGED <<slots, flight, state, file, proc, probe, out, exports, faults>>
      \/ /\ proc.pc = "idle" /\ UNCHANGED <<slots, items, flight, proc, probe, out, exports, faults>>
         /\ \/ /\ aside.state.there /\ state' = (IF state.there THEN state ELSE aside.state)
               /\ aside' = [aside EXCEPT !.state = NoState] /\ UNCHANGED file
            \/ /\ aside.file.there /\ file' = (IF file.there THEN file ELSE aside.file)
               /\ aside' = [aside EXCEPT !.file = NoFile] /\ UNCHANGED state
  BY DEF PutBack, vault, At
<1> QED BY <1>3, <1>4, <1>5

----------------------------------------------------------------------------
(* Export and inspection.                                                  *)

\* Steps on the export's files alone.
LEMMA OutInv ==
    ASSUME Inv, UNCHANGED <<slots, items, flight, state, file, aside, probe>>,
           proc' \in ProcType, out' \in [package : OutType, secret : OutType],
           exports' \in 0..MaxExports, faults' \in 0..MaxFaults, faults <= faults',
           ProcSound', ExportSound'
    PROVE  Inv'
<1>1. Types'
  BY DEF Inv, Types, ProcType
<1>2. \A r \in Roles : KeyringSound(r)'
  BY KeyringSame
<1>3. FilesSound' /\ InspectionIsSound'
  BY FilesSame DEF Committed
<1> QED BY <1>1, <1>2, <1>3 DEF Inv

\* The steps of an export preserve the invariant: the secret is complete before the
\* package is.
LEMMA ExportInv ==
    ASSUME Inv, NewPackage \/ NewSecret \/ WriteSecret \/ WritePackage \/ WriteFails \/ TakeFiles
    PROVE  Inv'
<1>1. UNCHANGED <<slots, items, flight, state, file, aside, probe>>
  BY DEF NewPackage, NewSecret, WriteSecret, WritePackage, WriteFails, TakeFiles, vault, disk
<1>2. /\ out \in [package : OutType, secret : OutType] /\ proc \in ProcType
      /\ exports \in 0..MaxExports /\ exports \in Nat /\ MaxExports \in Nat
      /\ faults \in 0..MaxFaults /\ faults <= faults
  BY HomeAssumption DEF Inv, Types, ProcType
<1>3. Unwritten \in OutType /\ ~Unwritten.there /\ ~Unwritten.full
  BY HomeAssumption DEF Unwritten, OutType
<1>4. CASE NewPackage
  <2>1. proc.pc = "package" /\ faults' = faults
    BY <1>4 DEF NewPackage, At
  <2>2. CASE Return /\ UNCHANGED <<out, exports>>
    BY <1>1, <2>1, <2>2, ReturnInv
  <2>3. CASE /\ exports' = exports + 1 /\ Goto("secret")
             /\ out' = [out EXCEPT !.package = [there |-> TRUE, full |-> FALSE, of |-> exports + 1]]
    <3>1. exports' \in 0..MaxExports
      BY <1>2, <2>1, <2>3 DEF Inv, ExportSound
    <3>2. /\ out' \in [package : OutType, secret : OutType] /\ out'.secret = out.secret
          /\ out'.package = [there |-> TRUE, full |-> FALSE, of |-> exports + 1]
      BY <1>2, <2>3, <3>1 DEF OutType
    <3>3. out'.package.there /\ ~out'.package.full /\ out'.package.of = exports'
      BY <2>3, <3>2
    <3>4. proc' \in ProcType /\ proc'.pc = "secret" /\ proc'.cmd = proc.cmd
      BY <2>3, GotoFields DEF Inv, Stages, Exporting
    <3>5. ProcSound'
      BY <1>1, <2>1, <3>4 DEF Inv, ProcSound, Provisioning, Exporting
    <3>6. ExportSound'
      BY <3>2, <3>3, <3>4 DEF Inv, ExportSound, PackageHasSecret
    <3> QED BY <1>1, <1>2, <2>1, <3>1, <3>2, <3>4, <3>5, <3>6, OutInv
  <2> QED BY <1>4, <2>2, <2>3 DEF NewPackage
<1>5. CASE NewSecret
  <2>1. proc.pc = "secret" /\ UNCHANGED <<exports, faults>>
    BY <1>5 DEF NewSecret, At
  <2>2. CASE out' = [out EXCEPT !.package = Unwritten] /\ Return
    <3>1. out' \in [package : OutType, secret : OutType] /\ out'.secret = out.secret /\ out'.package = Unwritten
      BY <1>2, <1>3, <2>2
    <3>2. ExportSound'
      BY <1>3, <2>2, <3>1, ReturnFields DEF Inv, ExportSound, PackageHasSecret
    <3> QED BY <1>1, <1>2, <2>1, <2>2, <3>1, <3>2, ReturnFields, OutInv
  <2>3. CASE out' = [out EXCEPT !.secret = [there |-> TRUE, full |-> FALSE, of |-> exports]] /\ Goto("write")
    <3>1. /\ out' \in [package : OutType, secret : OutType] /\ out'.package = out.package
          /\ out'.secret = [there |-> TRUE, full |-> FALSE, of |-> exports]
      BY <1>2, <2>3 DEF OutType
    <3>2. out'.secret.there /\ ~out'.secret.full /\ out'.secret.of = exports
      BY <3>1
    <3>3. proc' \in ProcType /\ proc'.pc = "write"
      BY <2>3, GotoFields DEF Inv, Stages, Exporting
    <3>4. ProcSound'
      BY <1>1, <2>1, <3>3 DEF Inv, ProcSound, Provisioning, Exporting
    <3>5. ExportSound'
      BY <2>1, <3>1, <3>2, <3>3 DEF Inv, ExportSound, PackageHasSecret
    <3> QED BY <1>1, <1>2, <2>1, <3>1, <3>3, <3>4, <3>5, OutInv
  <2> QED BY <1>5, <2>2, <2>3 DEF NewSecret
<1>6. CASE WriteSecret
  <2>1. /\ proc.pc = "write" /\ UNCHANGED <<exports, faults>> /\ out' = [out EXCEPT !.secret.full = TRUE]
        /\ Goto("fill")
    BY <1>6 DEF WriteSecret, At
  <2>2. /\ out' \in [package : OutType, secret : OutType] /\ out'.package = out.package
        /\ out'.secret = [out.secret EXCEPT !.full = TRUE]
    BY <1>2, <2>1 DEF OutType
  <2>3. out'.secret.there = out.secret.there /\ out'.secret.full /\ out'.secret.of = out.secret.of
    BY <1>2, <2>2 DEF OutType
  <2>4. proc' \in ProcType /\ proc'.pc = "fill"
    BY <2>1, GotoFields DEF Inv, Stages, Exporting
  <2>5. ProcSound'
    BY <1>1, <2>1, <2>4 DEF Inv, ProcSound, Provisioning, Exporting
  <2>6. ExportSound'
    BY <2>1, <2>2, <2>3, <2>4 DEF Inv, ExportSound, PackageHasSecret
  <2> QED BY <1>1, <1>2, <2>1, <2>2, <2>4, <2>5, <2>6, OutInv
<1>7. CASE WritePackage
  <2>1. /\ proc.pc = "fill" /\ UNCHANGED <<exports, faults>> /\ out' = [out EXCEPT !.package.full = TRUE]
        /\ Return
    BY <1>7 DEF WritePackage, At
  <2>2. /\ out' \in [package : OutType, secret : OutType] /\ out'.secret = out.secret
        /\ out'.package = [out.package EXCEPT !.full = TRUE]
    BY <1>2, <2>1 DEF OutType
  <2>3. out'.package.there = out.package.there /\ out'.package.full /\ out'.package.of = out.package.of
    BY <1>2, <2>2 DEF OutType
  <2>4. out.package.there
    BY <2>1 DEF Inv, ExportSound
  <2>5. ExportSound'
    BY <2>1, <2>2, <2>3, <2>4, ReturnFields DEF Inv, ExportSound, PackageHasSecret
  <2> QED BY <1>1, <1>2, <2>1, <2>2, <2>5, ReturnFields, OutInv
<1>8. CASE WriteFails
  <2>1. /\ UNCHANGED exports /\ faults < MaxFaults /\ faults' = faults + 1 /\ Return
        /\ out' = [package |-> Unwritten, secret |-> Unwritten]
    BY <1>8 DEF WriteFails
  <2>2. faults' \in 0..MaxFaults /\ faults <= faults'
    BY <1>2, <2>1, HomeAssumption
  <2>3. ExportSound'
    BY <1>3, <2>1, ReturnFields DEF ExportSound, PackageHasSecret
  <2> QED BY <1>1, <1>2, <1>3, <2>1, <2>2, <2>3, ReturnFields, OutInv
<1>9. CASE TakeFiles
  <2>1. /\ proc.pc = "idle" /\ UNCHANGED <<proc, exports, faults>>
        /\ \/ out' = [package |-> Unwritten, secret |-> Unwritten]
           \/ out' = [out EXCEPT !.package = Unwritten]
           \/ out' = [out EXCEPT !.secret = Unwritten] /\ ~out.package.full
    BY <1>9 DEF TakeFiles, At
  <2>2. /\ out' \in [package : OutType, secret : OutType]
        /\ \/ out'.package = Unwritten /\ out'.secret \in {out.secret, Unwritten}
           \/ out'.package = out.package /\ out'.secret = Unwritten /\ ~out.package.full
    BY <1>2, <1>3, <2>1
  <2>3. ExportSound'
    BY <1>3, <2>1, <2>2 DEF Inv, ExportSound, PackageHasSecret
  <2>4. ProcSound' /\ proc' \in ProcType
    BY <1>2, <2>1 DEF ProcSound, Provisioning, Exporting
  <2> QED BY <1>1, <1>2, <2>1, <2>2, <2>3, <2>4, OutInv
<1> QED BY <1>4, <1>5, <1>6, <1>7, <1>8, <1>9

\* Inspection preserves the invariant: it accepts what it saw in one snapshot.
LEMMA InspectInv ==
    ASSUME Inv, Inspect \/ InspectVault \/ InspectDatabase
    PROVE  Inv'
<1>1. UNCHANGED <<slots, items, flight, state, file, aside, proc, out, exports, faults>>
  BY DEF Inspect, InspectVault, InspectDatabase, vault, disk
<1>2. /\ probe \in [pc : {"none", "vault", "database", "accepted", "refused"}, key : MaybeKeys]
      /\ state.key \in MaybeKeys /\ NoKey \in MaybeKeys /\ faults \in 0..MaxFaults /\ faults <= faults
  BY HomeAssumption DEF Inv, Types, StateType, MaybeKeys
<1>3. /\ probe' \in [pc : {"none", "vault", "database", "accepted", "refused"}, key : MaybeKeys]
      /\ probe'.pc = "accepted" => Sound
  BY <1>2 DEF Inspect, InspectVault, InspectDatabase, Refuse
<1>4. InspectionIsSound'
  <2>1. SUFFICES ASSUME Sound PROVE InspectionIsSound'
    BY <1>3 DEF InspectionIsSound
  <2>2. file \in Databases /\ file.schema = Latest /\ file.ref # NoKey /\ file.ref = slots["device"].public
    BY <2>1 DEF Sound, Databases
  <2>3. Databases' = Databases
    BY <1>1 DEF Databases
  <2> QED BY <1>1, <2>2, <2>3 DEF InspectionIsSound
<1>5. Types'
  BY <1>1, <1>3 DEF Inv, Types
<1>6. \A r \in Roles : KeyringSound(r)'
  BY <1>1, <1>2, KeyringSame
<1>7. FilesSound'
  BY <1>1, FilesSame DEF Committed
<1>8. ProcSound' /\ ExportSound'
  BY <1>1 DEF Inv, ProcSound, ExportSound, PackageHasSecret, Imported
<1> QED BY <1>4, <1>5, <1>6, <1>7, <1>8 DEF Inv

----------------------------------------------------------------------------
(* The theorems.                                                           *)

\* The invariant holds of a home before the first command.
LEMMA InitInv == Init => Inv
<1> SUFFICES ASSUME Init PROVE Inv
  OBVIOUS
<1> USE DEF Init
<1>1. /\ NoState \in StateType /\ ~NoState.there /\ NoState.key = NoKey /\ ~NoState.ready
      /\ NoFile \in FileType /\ ~NoFile.there /\ ~NoFile.bound /\ NoFile.ref = NoKey
  BY HomeAssumption DEF NoState, NoFile, StateType, FileType, MaybeKeys
<1>2. Idle \in ProcType /\ Idle.pc = "idle" /\ NoKey \in MaybeKeys
  BY DEF Idle, ProcType, Stages, Commands, Roles, MaybeKeys
<1>3. Unwritten \in OutType /\ ~Unwritten.there /\ ~Unwritten.full
  BY HomeAssumption DEF Unwritten, OutType
<1>4. /\ Nothing \in [items : [Roles -> SUBSET Keys], state : StateType, file : FileType]
      /\ Nothing.state = NoState /\ Nothing.file = NoFile /\ \A r \in Roles : Nothing.items[r] = {}
  BY <1>1 DEF Nothing
<1>5. Types
  BY <1>1, <1>2, <1>3, <1>4, HomeAssumption DEF Types, ProcType
<1>6. ASSUME NEW r \in Roles PROVE KeyringSound(r)
  <2>1. Used(r) = {} /\ items[r] = {} /\ slots[r].public = NoKey /\ faults = 0
    BY <1>4 DEF Used
  <2>2. IsFiniteSet({}) /\ Cardinality({}) = 0
    BY FS_EmptySet
  <2> QED BY <2>1, <2>2 DEF KeyringSound
<1>7. FilesSound
  BY <1>1, <1>4 DEF FilesSound, StateSound, FileSound
<1>8. ProcSound
  BY <1>2 DEF ProcSound, Provisioning, Exporting
<1>9. ExportSound
  BY <1>2, <1>3 DEF ExportSound, PackageHasSecret
<1>10. InspectionIsSound
  BY DEF InspectionIsSound
<1> QED BY <1>5, <1>6, <1>7, <1>8, <1>9, <1>10 DEF Inv

\* Every step of a command, of the keyring and of the owner preserves the invariant.
LEMMA NextInv == Inv /\ [Next]_vars => Inv'
<1> SUFFICES ASSUME Inv, [Next]_vars PROVE Inv'
  OBVIOUS
<1>1. CASE Work
  BY <1>1, LoadStateInv, SaveSlotInv, FindItemInv, CreateItemInv, ReadbackInv, CommitSlotInv,
     RecordInv, OpenFileInv, BindInv, MarkReadyInv, MigrateInv, CommandInv, IdentityInv, ExportInv
     DEF Work
<1>2. CASE Crash
  <2>1. /\ faults < MaxFaults /\ faults' = faults + 1 /\ Return
        /\ UNCHANGED <<slots, items, flight, state, file, aside, probe, out, exports>>
    BY <1>2 DEF Crash, vault, disk
  <2> QED BY <2>1, ReturnInv
<1>3. CASE \/ \E c \in Commands : Start(c)
           \/ CreateTimesOut \/ WriteFails \/ TakeFiles \/ Inspect \/ InspectVault \/ InspectDatabase
           \/ \E r \in Roles : Land(r) \/ LoseItem(r) \/ Resolve(r)
           \/ LoseFile \/ PutBack
  BY <1>3, StartInv, CreateTimesOutInv, ExportInv, InspectInv, LandInv, LoseItemInv, ResolveInv,
     LoseFileInv, PutBackInv
<1>4. CASE UNCHANGED vars
  <2>1. UNCHANGED <<slots, items, flight, state, file, aside, proc, probe, out, exports, faults>>
    BY <1>4 DEF vars, vault, disk
  <2>2. ProcSound' /\ ExportSound'
    BY <2>1 DEF Inv, ProcSound, ExportSound, PackageHasSecret, Imported
  <2>3. proc' \in ProcType /\ faults' \in 0..MaxFaults /\ faults <= faults'
    BY <2>1, HomeAssumption DEF Inv, Types, ProcType
  <2> QED BY <2>1, <2>2, <2>3, ProcInv
<1> QED BY <1>1, <1>2, <1>3, <1>4 DEF Next

\* The invariant holds of every state of a home.
LEMMA Invariant == Spec => []Inv
BY InitInv, NextInv, PTL DEF Spec

\* What the invariant says of the keys, the database, the inspection and the package.
LEMMA InvHomeIsSound == Inv => HomeIsSound
<1> SUFFICES ASSUME Inv PROVE HomeIsSound
  OBVIOUS
<1>1. TypeOK
  <2>1. items["database"] \cup flight["database"] \subseteq Generated
    BY DEF Inv, KeyringSound, Used, Roles
  <2>2. \A r \in Roles : items[r] \cup flight[r] # {} => slots[r].made
    BY DEF Inv, KeyringSound, Used
  <2>3. /\ state.key \in Keys \cup {NoKey} /\ (state.there <=> state.key # NoKey)
        /\ file.schema \in 0..Latest /\ (file.bound => file.there)
    BY DEF Inv, Types, FilesSound, StateSound, FileSound, StateType, FileType, MaybeKeys
  <2> QED BY <2>1, <2>2, <2>3 DEF Inv, Types, TypeOK, MaybeKeys
<1>2. KeysAreKept
  <2>1. SUFFICES ASSUME NEW f \in {file, aside.file}, f.bound
                 PROVE  /\ slots["database"].public = f.key
                        /\ f.key \in items["database"] \cup aside.items["database"]
                        /\ state.there => state.key = f.key
                        /\ f.ref # NoKey => /\ f.ref = f.reg /\ slots["device"].public = f.ref
                                            /\ f.ref \in items["device"] \cup aside.items["device"]
    BY DEF KeysAreKept, Databases
  <2>2. FileSound(f) /\ StateSound(state)
    BY <2>1 DEF Inv, FilesSound
  <2>3. KeyringSound("database") /\ KeyringSound("device")
    BY DEF Inv, Roles
  <2> QED BY <2>1, <2>2, <2>3 DEF FileSound, StateSound, KeyringSound
<1>3. NeverReset
  BY DEF Inv, FilesSound, NeverReset
<1> QED BY <1>1, <1>2, <1>3 DEF Inv, HomeIsSound, ExportSound

\* HomeIsSound of every reachable state, however many keys are made and faults happen:
\* the database and its identity are those of the committed keys and the keys are kept, a
\* missing identity is never replaced, an accepted home has one, and a finished package
\* has its secret.
THEOREM Soundness == Spec => []HomeIsSound
BY Invariant, InvHomeIsSound, PTL

\* CommittedIsNeverRemade of every behaviour: Vault::ensure makes an item only of a role
\* without a committed key, and never commits another one.
THEOREM NeverRemade == Spec => CommittedIsNeverRemade
<1> DEFINE Kept == \A r \in Roles : slots[r].public # NoKey =>
                     /\ slots'[r].public = slots[r].public
                     /\ items'[r] \subseteq items[r] \cup flight[r] \cup aside.items[r]
<1>1. Inv /\ [Next]_vars => [Kept]_vars
  <2>1. SUFFICES ASSUME Inv, Next PROVE Kept
    OBVIOUS
  <2>2. /\ slots \in [Roles -> [made : BOOLEAN, public : MaybeKeys]] /\ proc.role \in Roles
        /\ items \in [Roles -> SUBSET Keys]
    BY <2>1 DEF Inv, Types
  <2>3. CASE UNCHANGED <<slots, items>>
    BY <2>3
  <2>4. CASE SaveSlot
    BY <2>2, <2>4 DEF SaveSlot
  <2>5. CASE CommitSlot
    BY <2>2, <2>5 DEF CommitSlot, Agrees
  <2>6. CASE CreateItem
    <3>1. UNCHANGED slots /\ slots[proc.role].public = NoKey
      BY <2>1, <2>6 DEF CreateItem, Inv, ProcSound, At
    <3>2. \A r \in Roles : r # proc.role => items'[r] = items[r]
      BY <2>2, <2>6 DEF CreateItem
    <3> QED BY <3>1, <3>2
  <2>7. ASSUME NEW r \in Roles, Land(r) \/ Resolve(r) \/ LoseItem(r) PROVE Kept
    <3>1. UNCHANGED slots
      BY <2>7 DEF Land, Resolve, LoseItem
    <3>2. ASSUME NEW q \in Roles PROVE items'[q] \subseteq items[q] \cup flight[q]
      BY <2>2, <2>7 DEF Land, Resolve, LoseItem
    <3> QED BY <3>1, <3>2
  <2>8. CASE PutBack
    <3>1. UNCHANGED slots
      BY <2>8 DEF PutBack, vault
    <3>2. ASSUME NEW q \in Roles PROVE items'[q] \subseteq items[q] \cup aside.items[q]
      BY <2>2, <2>8 DEF PutBack, vault
    <3> QED BY <3>1, <3>2
  <2> QED BY <2>1, <2>3, <2>4, <2>5, <2>6, <2>7, <2>8
          DEF Next, Work, LoadState, FindItem, Readback, Record, OpenFile, Bind, MarkReady, Migrate,
              ClaimHome, initialize, restore, export_recovery, NewPackage, NewSecret, WriteSecret,
              WritePackage, Start, CreateTimesOut, WriteFails, Crash, TakeFiles, Inspect,
              InspectVault, InspectDatabase, LoseFile, vault
<1> QED BY <1>1, Invariant, PTL DEF Spec, CommittedIsNeverRemade
=============================================================================
