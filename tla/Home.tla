-------------------------------- MODULE Home --------------------------------
(***************************************************************************)
(* One device's home: the keyring items and the public metadata that names *)
(* them, the encrypted database with its key, binding and schema, and the  *)
(* commands that create an identity, restore one from a recovery package,  *)
(* export such a package or inspect the home without changing it.          *)
(*                                                                         *)
(* The device lock lets one command work at a time and refuses the others  *)
(* before they touch anything; inspection takes no lock.  A command may    *)
(* die between any two steps.  A call to Secret Service that timed out may *)
(* still be carried out later.  A file or a keyring may go missing and be  *)
(* put back, and the owner who is told of a duplicate item keeps the one   *)
(* the metadata names.  A secret is its public key; NoKey stands for none. *)
(***************************************************************************)
EXTENDS Naturals, FiniteSets

CONSTANTS Generated,   \* keys the two Kind::generate calls may yield, per role
          Archives,    \* keys of valid recovery packages made elsewhere
          NoKey,
          Latest,      \* the newest schema version
          MaxFaults,   \* bound: crashes, timeouts and losses
          MaxExports   \* bound: packages made

Roles == {"database", "device"}
Keys == Generated \cup Archives

\* A generated key is a new one: there are more than calls can fail.
ASSUME HomeAssumption ==
    /\ Generated \cap Archives = {} /\ NoKey \notin Keys
    /\ IsFiniteSet(Generated) /\ Cardinality(Generated) > MaxFaults
    /\ Latest \in Nat \ {0} /\ MaxFaults \in Nat /\ MaxExports \in Nat

VARIABLES
    slots,    \* credentials.json: role to [made, public]
    items,    \* Secret Service: role to the secrets stored under its item ID
    flight,   \* create calls that timed out and have not landed
    state,    \* identity.database.json: [there, key, ready]
    file,     \* identity.sqlite: [there, bound, key, schema, ref, reg, marker]
    aside,    \* what went missing: [items, state, file]
    proc,     \* the command at work: [pc, cmd, role, got]
    probe,    \* inspection: [pc, key]
    out,      \* the export's files: [package, secret], each [there, full, of]
    exports, faults

vault == <<slots, items, flight>>
disk == <<state, file, aside>>
vars == <<vault, disk, proc, probe, out, exports, faults>>

Commands == {"init", "export"} \cup Archives
NoState == [there |-> FALSE, key |-> NoKey, ready |-> FALSE]
NoFile == [there |-> FALSE, bound |-> FALSE, key |-> NoKey, schema |-> 0,
           ref |-> NoKey, reg |-> NoKey, marker |-> FALSE]
Nothing == [items |-> [r \in Roles |-> {}], state |-> NoState, file |-> NoFile]
Idle == [pc |-> "idle", cmd |-> "init", role |-> "database", got |-> NoKey]
Unwritten == [there |-> FALSE, full |-> FALSE, of |-> 0]

Imported == IF proc.cmd \in Archives /\ proc.role = "device" THEN proc.cmd ELSE NoKey

At(pc) == proc.pc = pc
Goto(pc) == proc' = [proc EXCEPT !.pc = pc]
\* The command returns, with its result or an error; the device lock is released.
Return == proc' = Idle

\* Backend::read: none, the only item, or an error when there are several.
Holds(r, k) == items[r] = {k}
Absent(r) == items[r] = {}
Duplicate(r) == Cardinality(items[r]) > 1
-----------------------------------------------------------------------------
\* IdentityStore::open takes the device lock.  A restore has authenticated its
\* package and looked at the names in the home before.
Start(c) ==
    /\ At("idle") /\ (c = "export" => exports < MaxExports)
    /\ proc' = [Idle EXCEPT !.pc = "metadata", !.cmd = c]
    /\ UNCHANGED <<vault, disk, probe, out, exports, faults>>

\* database::open, up to provisioning the database key.
LoadState ==
    /\ At("metadata")
    /\ \/ state.there /\ Goto("open")
       \/ ~state.there /\ file.there /\ Return
       \/ ~state.there /\ ~file.there /\ Goto("slot")
    /\ UNCHANGED <<vault, disk, probe, out, exports, faults>>

\* Vault::ensure: the pending reference is on disk before the item is made.
SaveSlot ==
    /\ At("slot")
    /\ slots' = [slots EXCEPT ![proc.role].made = TRUE]
    /\ Goto("item")
    /\ UNCHANGED <<items, flight, disk, probe, out, exports, faults>>

\* Mutant of FindItem: a committed key that is missing is made again.
FindOrRemake ==
    /\ At("item")
    /\ LET r == proc.role IN
       \/ \E k \in items[r] : Holds(r, k) /\ proc' = [proc EXCEPT !.pc = "commit", !.got = k]
       \/ Duplicate(r) /\ Return
       \/ Absent(r) /\ Goto("create")
    /\ UNCHANGED <<vault, disk, probe, out, exports, faults>>

\* Mutant of FindItem: an item left by an interrupted run is an error.
FindOnlyBound ==
    /\ At("item")
    /\ LET r == proc.role IN
       \/ \E k \in items[r] :
             Holds(r, k) /\ slots[r].public = k /\ proc' = [proc EXCEPT !.pc = "commit", !.got = k]
       \/ items[r] # {} /\ ~Holds(r, slots[r].public) /\ Return
       \/ Absent(r) /\ slots[r].public # NoKey /\ Return
       \/ Absent(r) /\ slots[r].public = NoKey /\ Goto("create")
    /\ UNCHANGED <<vault, disk, probe, out, exports, faults>>

FindItem ==
    /\ At("item")
    /\ LET r == proc.role IN
       \/ \E k \in items[r] : Holds(r, k) /\ proc' = [proc EXCEPT !.pc = "commit", !.got = k]
       \/ Duplicate(r) /\ Return
       \/ Absent(r) /\ slots[r].public # NoKey /\ Return
       \/ Absent(r) /\ slots[r].public = NoKey /\ Goto("create")
    /\ UNCHANGED <<vault, disk, probe, out, exports, faults>>

\* The secret to store: the imported one, or one nobody has seen.
Fresh(r) == CHOOSE k \in Generated : k \notin items[r] \cup flight[r] \cup aside.items[r]
ToStore == IF Imported # NoKey THEN Imported ELSE Fresh(proc.role)

\* create looks for the item once more and never replaces one.
CreateItem ==
    /\ At("create")
    /\ LET r == proc.role IN
       \/ ~Absent(r) /\ Return /\ UNCHANGED items
       \/ /\ Absent(r)
          /\ items' = [items EXCEPT ![r] = {ToStore}]
          /\ proc' = [proc EXCEPT !.pc = "readback", !.got = ToStore]
    /\ UNCHANGED <<slots, flight, disk, probe, out, exports, faults>>

\* The call times out after five seconds; Secret Service may still carry it out.
CreateTimesOut ==
    /\ At("create") /\ Absent(proc.role) /\ faults < MaxFaults
    /\ flight' = [flight EXCEPT ![proc.role] = @ \cup {ToStore}]
    /\ faults' = faults + 1
    /\ Return
    /\ UNCHANGED <<slots, items, disk, probe, out, exports>>

Land(r) ==
    /\ \E k \in flight[r] :
          /\ items' = [items EXCEPT ![r] = @ \cup {k}]
          /\ flight' = [flight EXCEPT ![r] = @ \ {k}]
    /\ UNCHANGED <<slots, disk, proc, probe, out, exports, faults>>

Readback ==
    /\ At("readback")
    /\ \/ Holds(proc.role, proc.got) /\ Goto("commit")
       \/ ~Holds(proc.role, proc.got) /\ Return
    /\ UNCHANGED <<vault, disk, probe, out, exports, faults>>

\* Mutant of Agrees: a restore takes whatever key is pending.
AgreesWithBound(k) == slots[proc.role].public \in {NoKey, k}

\* The key found is the one bound, and the one a restore brings.
Agrees(k) == slots[proc.role].public \in {NoKey, k} /\ Imported \in {NoKey, k}

\* The public key is committed, and the command goes on.
CommitSlot ==
    /\ At("commit")
    /\ \/ /\ Agrees(proc.got)
          /\ slots' = [slots EXCEPT ![proc.role].public = proc.got]
          /\ Goto(IF proc.role = "database" THEN "record" ELSE "identity")
       \/ ~Agrees(proc.got) /\ Return /\ UNCHANGED slots
    /\ UNCHANGED <<items, flight, disk, probe, out, exports, faults>>
-----------------------------------------------------------------------------
\* The metadata reaches the disk before any database file is created.
Record ==
    /\ At("record")
    /\ state' = [there |-> TRUE, key |-> proc.got, ready |-> FALSE]
    /\ Goto("open")
    /\ UNCHANGED <<vault, file, aside, probe, out, exports, faults>>

Openable == (state.ready => file.bound) /\ Holds("database", state.key)

OpenFile ==
    /\ At("open")
    /\ \/ Openable /\ file' = [file EXCEPT !.there = TRUE] /\ Goto("bind")
       \/ ~Openable /\ Return /\ UNCHANGED file
    /\ UNCHANGED <<vault, state, aside, probe, out, exports, faults>>

\* The binding is read with the key, or written into an empty database that
\* was never ready.
Bind ==
    /\ At("bind")
    /\ \/ file.bound /\ file.key = state.key /\ Goto("ready") /\ UNCHANGED file
       \/ /\ ~file.bound /\ ~state.ready
          /\ file' = [file EXCEPT !.bound = TRUE, !.key = state.key]
          /\ Goto("ready")
       \/ /\ \/ file.bound /\ file.key # state.key
             \/ ~file.bound /\ state.ready
          /\ Return /\ UNCHANGED file
    /\ UNCHANGED <<vault, state, aside, probe, out, exports, faults>>

MarkReady ==
    /\ At("ready")
    /\ state' = [state EXCEPT !.ready = TRUE]
    /\ Goto("migrate")
    /\ UNCHANGED <<vault, file, aside, probe, out, exports, faults>>

\* One transaction per schema version.
Migrate ==
    /\ At("migrate")
    /\ \/ file.schema < Latest /\ file' = [file EXCEPT !.schema = @ + 1] /\ UNCHANGED proc
       \/ file.schema = Latest /\ Goto("command") /\ UNCHANGED file
    /\ UNCHANGED <<vault, state, aside, probe, out, exports, faults>>

\* init and restore want a home without an identity, and go on to the vault.
ClaimHome ==
    /\ At("command") /\ proc.cmd # "export"
    /\ \/ file.ref = NoKey /\ proc' = [proc EXCEPT !.pc = "slot", !.role = "device"]
       \/ file.ref # NoKey /\ Return
    /\ UNCHANGED <<vault, disk, probe, out, exports, faults>>

\* The identity in one transaction; its key is read once more before.
initialize ==
    /\ At("identity") /\ Imported = NoKey
    /\ \/ /\ Holds("device", proc.got)
          /\ file' = [file EXCEPT !.ref = proc.got, !.reg = proc.got]
       \/ ~Holds("device", proc.got) /\ UNCHANGED file
    /\ Return
    /\ UNCHANGED <<vault, state, aside, probe, out, exports, faults>>

\* The archived registration under the key the vault returned, with the marker.
restore ==
    /\ At("identity") /\ Imported # NoKey
    /\ file' = [file EXCEPT !.ref = proc.got, !.reg = Imported, !.marker = TRUE]
    /\ Return
    /\ UNCHANGED <<vault, state, aside, probe, out, exports, faults>>

\* An export wants an identity that may chat, and its key.  It also refuses a
\* service's or system's identity and a device known to be revoked, which are
\* not state of this module: any export may be refused.
MayExport == file.ref # NoKey /\ ~file.marker /\ Holds("device", file.ref)
export_recovery ==
    /\ At("command") /\ proc.cmd = "export"
    /\ \/ MayExport /\ Goto("package")
       \/ Return
    /\ UNCHANGED <<vault, disk, probe, out, exports, faults>>
-----------------------------------------------------------------------------
\* recovery export: both files are new; the secret is written before the package.
NewPackage ==
    /\ At("package")
    /\ \/ out.package.there /\ Return /\ UNCHANGED <<out, exports>>
       \/ /\ ~out.package.there
          /\ exports' = exports + 1
          /\ out' = [out EXCEPT !.package = [there |-> TRUE, full |-> FALSE, of |-> exports + 1]]
          /\ Goto("secret")
    /\ UNCHANGED <<vault, disk, probe, faults>>

\* An error removes the files this export made, and no other.
NewSecret ==
    /\ At("secret")
    /\ \/ out.secret.there /\ out' = [out EXCEPT !.package = Unwritten] /\ Return
       \/ /\ ~out.secret.there
          /\ out' = [out EXCEPT !.secret = [there |-> TRUE, full |-> FALSE, of |-> exports]]
          /\ Goto("write")
    /\ UNCHANGED <<vault, disk, probe, exports, faults>>

WriteSecret ==
    /\ At("write")
    /\ out' = [out EXCEPT !.secret.full = TRUE]
    /\ Goto("fill")
    /\ UNCHANGED <<vault, disk, probe, exports, faults>>

WritePackage ==
    /\ At("fill")
    /\ out' = [out EXCEPT !.package.full = TRUE]
    /\ Return
    /\ UNCHANGED <<vault, disk, probe, exports, faults>>

WriteFails ==
    /\ proc.pc \in {"write", "fill"} /\ faults < MaxFaults
    /\ out' = [package |-> Unwritten, secret |-> Unwritten]
    /\ faults' = faults + 1
    /\ Return
    /\ UNCHANGED <<vault, disk, probe, exports>>

\* The owner moves a finished pair away, or deletes what a crash left unfinished.
TakeFiles ==
    /\ At("idle")
    /\ \/ /\ out.package.full
          /\ out' = [package |-> Unwritten, secret |-> Unwritten]
       \/ /\ ~out.package.full /\ out.package.there
          /\ out' = [out EXCEPT !.package = Unwritten]
       \/ /\ ~out.package.full /\ out.secret.there
          /\ out' = [out EXCEPT !.secret = Unwritten]
    /\ UNCHANGED <<vault, disk, proc, probe, exports, faults>>
-----------------------------------------------------------------------------
\* Offline inspection: metadata, then the vault, then one snapshot of the database.
Refuse == probe' = [pc |-> "refused", key |-> NoKey]

Inspect ==
    /\ probe.pc \in {"none", "refused"}
    /\ file.bound /\ state.there /\ state.ready
    /\ probe' = [pc |-> "vault", key |-> state.key]
    /\ UNCHANGED <<vault, disk, proc, out, exports, faults>>

InspectVault ==
    /\ probe.pc = "vault"
    /\ \/ /\ slots["database"].public = probe.key /\ Holds("database", probe.key)
          /\ probe' = [probe EXCEPT !.pc = "database"]
       \/ (slots["database"].public # probe.key \/ ~Holds("database", probe.key)) /\ Refuse
    /\ UNCHANGED <<vault, disk, proc, out, exports, faults>>

Sound ==
    /\ file.bound /\ file.key = probe.key /\ file.schema = Latest
    /\ file.ref # NoKey /\ file.ref = file.reg
    /\ file.ref = slots["device"].public /\ Holds("device", file.ref)

InspectDatabase ==
    /\ probe.pc = "database"
    /\ \/ Sound /\ probe' = [probe EXCEPT !.pc = "accepted"]
       \/ ~Sound /\ Refuse
    /\ UNCHANGED <<vault, disk, proc, out, exports, faults>>
-----------------------------------------------------------------------------
\* A command dies.  SQLite rolls back what it had not committed.
Crash ==
    /\ ~At("idle") /\ faults < MaxFaults
    /\ faults' = faults + 1
    /\ Return
    /\ UNCHANGED <<vault, disk, probe, out, exports>>

\* Something the home needs goes missing, and is put back.  Of its two files,
\* one at a time: without metadata and database, open finds a home that was
\* never opened, and makes an empty database under the committed key.
LoseItem(r) ==
    /\ faults < MaxFaults /\ items[r] # {}
    /\ items' = [items EXCEPT ![r] = {}]
    /\ aside' = [aside EXCEPT !.items[r] = @ \cup items[r]]
    /\ faults' = faults + 1
    /\ UNCHANGED <<slots, flight, state, file, proc, probe, out, exports>>

LoseFile ==
    /\ faults < MaxFaults /\ At("idle") /\ faults' = faults + 1
    /\ ~aside.state.there /\ ~aside.file.there
    /\ \/ /\ state.there
          /\ aside' = [aside EXCEPT !.state = state] /\ state' = NoState /\ UNCHANGED file
       \/ /\ file.bound
          /\ aside' = [aside EXCEPT !.file = file] /\ file' = NoFile /\ UNCHANGED state
    /\ UNCHANGED <<vault, proc, probe, out, exports>>

PutBack ==
    \/ /\ \E r \in Roles :
             /\ aside.items[r] # {}
             /\ items' = [items EXCEPT ![r] = @ \cup aside.items[r]]
             /\ aside' = [aside EXCEPT !.items[r] = {}]
       /\ UNCHANGED <<slots, flight, state, file, proc, probe, out, exports, faults>>
    \/ /\ At("idle")
       /\ \/ /\ aside.state.there
             /\ state' = IF state.there THEN state ELSE aside.state
             /\ aside' = [aside EXCEPT !.state = NoState]
             /\ UNCHANGED file
          \/ /\ aside.file.there
             /\ file' = IF file.there THEN file ELSE aside.file
             /\ aside' = [aside EXCEPT !.file = NoFile]
             /\ UNCHANGED state
       /\ UNCHANGED <<vault, proc, probe, out, exports, faults>>

\* The owner, told of a duplicate, resolves it: the bound item stays, or either if none is.
Resolve(r) ==
    /\ At("idle") /\ Duplicate(r)
    /\ \E k \in items[r] :
          /\ slots[r].public \in items[r] => k = slots[r].public
          /\ items' = [items EXCEPT ![r] = {k}]
    /\ UNCHANGED <<slots, flight, disk, proc, probe, out, exports, faults>>
-----------------------------------------------------------------------------
Init ==
    /\ slots = [r \in Roles |-> [made |-> FALSE, public |-> NoKey]]
    /\ items = [r \in Roles |-> {}] /\ flight = [r \in Roles |-> {}]
    /\ state = NoState /\ file = NoFile /\ aside = Nothing
    /\ proc = Idle
    /\ probe = [pc |-> "none", key |-> NoKey]
    /\ out = [package |-> Unwritten, secret |-> Unwritten]
    /\ exports = 0 /\ faults = 0

Work ==
    \/ LoadState \/ SaveSlot \/ FindItem \/ CreateItem \/ Readback \/ CommitSlot
    \/ Record \/ OpenFile \/ Bind \/ MarkReady \/ Migrate
    \/ ClaimHome \/ initialize \/ restore \/ export_recovery
    \/ NewPackage \/ NewSecret \/ WriteSecret \/ WritePackage

Next ==
    \/ Work
    \/ \E c \in Commands : Start(c)
    \/ CreateTimesOut \/ WriteFails \/ Crash \/ TakeFiles
    \/ Inspect \/ InspectVault \/ InspectDatabase
    \/ \E r \in Roles : Land(r) \/ LoseItem(r) \/ Resolve(r)
    \/ LoseFile \/ PutBack

Spec == Init /\ [][Next]_vars

\* A command that does not die goes on; its owner corrects what an error
\* named and runs init again until there is an identity.
FairSpec ==
    /\ Spec
    /\ WF_vars(Work)
    /\ SF_vars(Start("init"))
    /\ SF_vars(PutBack \/ \E r \in Roles : Resolve(r))
-----------------------------------------------------------------------------
\* Every variable has its type, and an item was made or imported for its role.
TypeOK ==
    /\ slots \in [Roles -> [made : BOOLEAN, public : Keys \cup {NoKey}]]
    /\ items \in [Roles -> SUBSET Keys] /\ flight \in [Roles -> SUBSET Keys]
    /\ items["database"] \cup flight["database"] \subseteq Generated
    /\ \A r \in Roles : items[r] \cup flight[r] # {} => slots[r].made
    /\ state.key \in Keys \cup {NoKey} /\ (state.there <=> state.key # NoKey)
    /\ file.schema \in 0..Latest /\ (file.bound => file.there)
    /\ proc.role \in Roles /\ proc.cmd \in Commands
    /\ probe.pc \in {"none", "vault", "database", "accepted", "refused"}
    /\ exports \in 0..MaxExports /\ faults \in 0..MaxFaults

\* The home's database, here or gone missing.
Databases == {f \in {file, aside.file} : f.bound}

\* The database and the identity in it can be used again: each was made with
\* the key its credential slot names, and nothing the program did has removed
\* that key from the keyring - not a crash between two writes, not a call
\* that landed late, not a key that was missing for a while.
KeysAreKept ==
    \A f \in Databases :
        /\ slots["database"].public = f.key
        /\ f.key \in items["database"] \cup aside.items["database"]
        /\ state.there => state.key = f.key
        /\ f.ref # NoKey => /\ f.ref = f.reg /\ slots["device"].public = f.ref
                            /\ f.ref \in items["device"] \cup aside.items["device"]

\* While a database with an identity is missing, no other takes its place.
NeverReset == aside.file.ref # NoKey => ~file.there

\* An inspection that ran beside other commands and accepted the home saw an
\* identity whose keys the home still has.
InspectionIsSound ==
    probe.pc = "accepted" =>
        \E f \in Databases : f.schema = Latest /\ f.ref # NoKey /\ f.ref = slots["device"].public

\* A written recovery package has its own secret beside it.
PackageHasSecret ==
    out.package.full => out.secret.full /\ out.secret.of = out.package.of

\* Whatever was interrupted or went missing, the home is whole or can be made whole.
HomeIsSound ==
    /\ TypeOK /\ KeysAreKept /\ NeverReset /\ InspectionIsSound /\ PackageHasSecret

\* Once its public key is committed, a credential is never made again: the
\* binding stays, and the keyring gains only what was asked for before or
\* comes back.
CommittedIsNeverRemade ==
    [][\A r \in Roles : slots[r].public # NoKey =>
            /\ slots'[r].public = slots[r].public
            /\ items'[r] \subseteq items[r] \cup flight[r] \cup aside.items[r]]_vars

\* However often a home is interrupted, running init again in the end
\* gives it an identity, and one that went missing comes back.
HomeIsEstablished == []<>(file.ref # NoKey)

\* A home whose key came from a recovery package cannot chat.
RecoveredKeyCannotChat == file.ref \in Archives => file.marker
=============================================================================
