-------------------------- MODULE ProviderSettings --------------------------
(***************************************************************************)
(* Model and data provider profiles, the assignment of models to agent     *)
(* roles, the system settings and the credentials                          *)
(* (application/provider_settings.py, infrastructure/provider_settings.py, *)
(* infrastructure/secrets.py).                                             *)
(*                                                                         *)
(* A profile is read in one transaction, its credential goes to the file   *)
(* of the SecretStore, and the profile is written in another transaction.  *)
(* The file is read and replaced as a whole, under the asyncio lock of the *)
(* one process that serves the API.  Each change of a row appends its      *)
(* audit record, with the row before and after it, in the same transaction;*)
(* a connection test and a research fetch append theirs, of the same row,  *)
(* in a transaction that does not look at the row.                         *)
(***************************************************************************)
EXTENDS Integers, Sequences, FiniteSetsExt

CONSTANTS
    Users,          \* requests being served
    ModelProfiles, DataProfiles,
    Roles,          \* agent roles and DEFAULT
    DefaultRole,
    System,         \* SYSTEM_SETTINGS_ID, the one row of the settings
    Names,          \* names of profiles; the other fields of a row go with it
    Refs,           \* credential references
    Absent,         \* no such row
    NoRef,          \* a profile without a credential
    MaxChanges,     \* bound: no change is asked for after that many
    MaxChecks       \* bound: no test or fetch is asked for after that many

Profiles == ModelProfiles \cup DataProfiles
Rows == Profiles \cup Roles \cup {System}

ASSUME RowsAssumption ==
    /\ ModelProfiles \cap DataProfiles = {} /\ Profiles \cap Roles = {}
    /\ System \notin Profiles \cup Roles /\ DefaultRole \in Roles
    /\ Absent \notin ModelProfiles \cup Names
    /\ Absent \notin [name : Names, enabled : BOOLEAN, ref : Refs \cup {NoRef}]
    /\ NoRef \notin Refs /\ Names # {}
ASSUME BoundsAssumption == MaxChanges \in Nat /\ MaxChecks \in Nat

Profile == [name : Names, enabled : BOOLEAN, ref : Refs \cup {NoRef}]

\* What a row of the table may hold.
Values(a) ==
    IF a \in Profiles THEN Profile
    ELSE IF a \in Roles THEN ModelProfiles
    ELSE Names

VARIABLES
    rows,       \* committed rows
    trail,      \* audit records of each row, in the order of their commits
    stored,     \* references in the secret file
    pc,         \* where each request is
    request,    \* the row it is about, what it asks and with which value
    file,       \* the secret file as the request has read it
    found       \* the row its transaction found

vars == <<rows, trail, stored, pc, request, file, found>>

-----------------------------------------------------------------------------
Calls == [target : Rows, op : {"save", "delete", "test", "sync", "use"},
          value : Profile \cup ModelProfiles \cup Names \cup {Absent}]

Places == {"idle", "credential", "writing", "ready", "locked", "resolving", "fetching"}

NoCall == [target |-> System, op |-> "delete", value |-> Absent]

Init ==
    /\ rows = [a \in Rows |-> Absent]
    /\ trail = [a \in Rows |-> <<>>]
    /\ stored = {}
    /\ pc = [u \in Users |-> "idle"]
    /\ request = [u \in Users |-> NoCall]
    /\ file = [u \in Users |-> {}]
    /\ found = [u \in Users |-> Absent]

Goto(u, place) == pc' = [pc EXCEPT ![u] = place]

\* The request ends: its locks are released.
Return(u) ==
    /\ Goto(u, "idle")
    /\ request' = [request EXCEPT ![u] = NoCall]
    /\ file' = [file EXCEPT ![u] = {}]
    /\ found' = [found EXCEPT ![u] = Absent]

Fail(u) == Return(u) /\ UNCHANGED <<rows, trail, stored>>

ChangeKinds == {"CREATE", "UPDATE", "DELETE"}
CheckKinds == {"TEST", "SYNC"}

\* How many audit records there are of some kinds.
Audited(kinds) ==
    Cardinality(UNION {{a} \X {k \in DOMAIN trail[a] : trail[a][k].kind \in kinds} : a \in Rows})

Ask(u, a, op, value, place) ==
    /\ pc[u] = "idle"
    /\ op \in {"save", "delete"} => Audited(ChangeKinds) < MaxChanges
    /\ op \in {"test", "sync"} => Audited(CheckKinds) < MaxChecks
    /\ request' = [request EXCEPT ![u] = [target |-> a, op |-> op, value |-> value]]
    /\ Goto(u, place)
    /\ UNCHANGED <<rows, trail, stored, file, found>>

Target(u) == request[u].target

-----------------------------------------------------------------------------
(* The secret file.                                                         *)

\* Mutated form of FileLocked: put() does not take the lock.
FileLockedNever(u) == FALSE

\* Another put() is between its read and its write of the file.
FileLocked(u) == \E v \in Users \ {u} : pc[v] = "writing"

\* A reference is a uuid4: no row, request or entry of the file has it.
FreshRefs ==
    {ref \in Refs \ stored :
        \A v \in Users : Target(v) \in Profiles => request[v].value = Absent \/ request[v].value.ref # ref}

\* _replace_credential: the reference of the profile that was read is used
\* again, and without a credential it is kept.
RefsFor(a, credential) ==
    LET current == IF rows[a] = Absent THEN NoRef ELSE rows[a].ref
    IN  IF credential /\ current = NoRef THEN FreshRefs ELSE {current}

ReadFile(u) ==
    /\ pc[u] = "credential"
    /\ ~FileLocked(u)
    /\ file' = [file EXCEPT ![u] = stored]
    /\ Goto(u, "writing")
    /\ UNCHANGED <<rows, trail, stored, request, found>>

WriteFile(u) ==
    /\ pc[u] = "writing"
    /\ stored' = file[u] \cup {request[u].value.ref}
    /\ file' = [file EXCEPT ![u] = {}]
    /\ Goto(u, "ready")
    /\ UNCHANGED <<rows, trail, request, found>>

-----------------------------------------------------------------------------
(* Requests.                                                                *)

\* A new profile has an id that nobody has used.
IsNew(a) == trail[a] = <<>> /\ \A v \in Users : Target(v) # a

SaveProfile(u, a, name, enabled, credential) ==
    /\ rows[a] # Absent \/ IsNew(a)
    /\ \E ref \in RefsFor(a, credential) :
        Ask(u, a, "save", [name |-> name, enabled |-> enabled, ref |-> ref],
            IF credential THEN "credential" ELSE "ready")

SaveModelProfile(u, name, enabled, credential) ==
    \E p \in ModelProfiles : SaveProfile(u, p, name, enabled, credential)

SaveDataProfile(u, name, enabled, credential) ==
    \E p \in DataProfiles : SaveProfile(u, p, name, enabled, credential)

SaveSystemSettings(u, name) == Ask(u, System, "save", name, "ready")

\* The model is read, and must exist and be enabled, before the assignment.
SaveRoleAssignment(u, role, model) ==
    /\ rows[model] # Absent /\ rows[model].enabled
    /\ Ask(u, role, "save", model, "ready")

\* delete_model_profile, delete_data_profile and delete_role_assignment.
Delete(u, a) == Ask(u, a, "delete", Absent, "ready")

\* model_for_role: the list of assignments, then the profile.
ModelForRole(u, role) ==
    LET assignment == IF rows[role] # Absent THEN rows[role] ELSE rows[DefaultRole]
    IN  assignment # Absent /\ Ask(u, assignment, "use", Absent, "resolving")

ReadAssigned(u) ==
    LET profile == rows[Target(u)] IN
    /\ pc[u] = "resolving"
    /\ IF profile = Absent \/ ~profile.enabled \/ profile.ref = NoRef THEN Fail(u)
       ELSE /\ request' = [request EXCEPT ![u].value = profile]
            /\ Goto(u, "fetching")
            /\ UNCHANGED <<rows, trail, stored, file, found>>

TestProfile(u, p) ==
    /\ rows[p] # Absent
    /\ Ask(u, p, "test", rows[p], "fetching")

\* fetch_provider_research, of a data profile that is there, enabled and has a
\* credential.
FetchResearch(u, p) ==
    /\ rows[p] # Absent /\ rows[p].enabled /\ rows[p].ref # NoRef
    /\ Ask(u, p, "sync", rows[p], "fetching")

\* _record_change: one audit record more of row a.  Those of a role are here in
\* one trail, though each of its assignments has an id of its own.
AppendAudit(a, kind, before, after) ==
    trail' = [trail EXCEPT ![a] =
                 Append(@, [kind |-> kind, before |-> before, after |-> after])]

\* What a connection test makes of the credential.
TestResults(ref) ==
    IF ref = NoRef THEN {"CREDENTIAL_MISSING"}
    ELSE {"SECRET_STORE_UNAVAILABLE",
          IF ref \in stored THEN "CONFIGURATION_VALID" ELSE "CREDENTIAL_MISSING"}

\* record_provider_test and record_data_provider_sync: the row is not looked at,
\* it may have been deleted.
RecordCheck(u, kind, result) ==
    /\ AppendAudit(Target(u), kind, Absent, result)
    /\ Return(u)
    /\ UNCHANGED <<rows, stored>>

\* SecretStore.get, by a test, a fetch or a call of the model; a fetch ingests
\* what it was sent (EvidenceStore) before it is recorded.
FetchCredential(u) ==
    LET ref == request[u].value.ref IN
    /\ pc[u] = "fetching"
    /\ ref # NoRef => ~FileLocked(u)
    /\ \/ request[u].op = "use" /\ Fail(u)
       \/ /\ request[u].op = "test"
          /\ \E result \in TestResults(ref) : RecordCheck(u, "TEST", result)
       \/ /\ request[u].op = "sync" /\ ref \in stored
          /\ RecordCheck(u, "SYNC", "RESEARCH_FETCH")

-----------------------------------------------------------------------------
(* The transaction that changes a row.                                      *)

\* Mutated form of Lockers: the row is read without FOR UPDATE.
LockersNone(u, a) == {}

\* Others that have found the row FOR UPDATE; a row that is not there is not
\* locked.
Lockers(u, a) ==
    {v \in Users \ {u} : pc[v] = "locked" /\ Target(v) = a /\ found[v] # Absent}

LockRow(u) ==
    /\ pc[u] = "ready"
    /\ Lockers(u, Target(u)) = {}
    /\ IF request[u].op = "delete" /\ rows[Target(u)] = Absent THEN Fail(u)
       ELSE /\ found' = [found EXCEPT ![u] = rows[Target(u)]]
            /\ Goto(u, "locked")
            /\ UNCHANGED <<rows, trail, stored, request, file>>

\* The payload of an audit record: credential_configured stands for the
\* reference.
Payload(a, value) ==
    IF a \in Profiles /\ value # Absent
    THEN [name |-> value.name, enabled |-> value.enabled, configured |-> value.ref # NoRef]
    ELSE value

\* The row and its audit record are written in one transaction, which the
\* database refuses when a constraint is violated.
RecordChange(u, violated) ==
    LET a == Target(u)
        value == request[u].value
        before == Payload(a, found[u])
    IN  /\ pc[u] = "locked"
        /\ IF violated THEN Fail(u)
           ELSE /\ rows' = [rows EXCEPT ![a] = value]
                /\ IF value = Absent THEN AppendAudit(a, "DELETE", before, "DELETED")
                   ELSE AppendAudit(a, IF found[u] = Absent THEN "CREATE" ELSE "UPDATE",
                                    before, Payload(a, value))
                /\ Return(u)
                /\ UNCHANGED stored

\* The row was not there when it was looked for, and now it is.
CreatedMeanwhile(u) == found[u] = Absent /\ rows[Target(u)] # Absent

NameTaken(u, table) ==
    \E p \in table \ {Target(u)} : rows[p] # Absent /\ rows[p].name = request[u].value.name

\* Mutated form of IsAssigned: nothing keeps a model that a role refers to.
IsAssignedNever(model) == FALSE

IsAssigned(model) == \E role \in Roles : rows[role] = model

Changing(u, op, table) == request[u].op = op /\ Target(u) \in table

CommitSystemSettings(u) ==
    Changing(u, "save", {System}) /\ RecordChange(u, CreatedMeanwhile(u))

CommitModelProfile(u) ==
    /\ Changing(u, "save", ModelProfiles)
    /\ RecordChange(u, CreatedMeanwhile(u) \/ NameTaken(u, ModelProfiles))

CommitModelDeletion(u) ==
    Changing(u, "delete", ModelProfiles) /\ RecordChange(u, IsAssigned(Target(u)))

CommitDataProfile(u) ==
    /\ Changing(u, "save", DataProfiles)
    /\ RecordChange(u, CreatedMeanwhile(u) \/ NameTaken(u, DataProfiles))

CommitDataDeletion(u) == Changing(u, "delete", DataProfiles) /\ RecordChange(u, FALSE)

\* The reference to the model waits for whoever holds its row.
CommitRoleAssignment(u) ==
    /\ Changing(u, "save", Roles)
    /\ Lockers(u, request[u].value) = {}
    /\ RecordChange(u, CreatedMeanwhile(u) \/ rows[request[u].value] = Absent)

CommitRoleDeletion(u) == Changing(u, "delete", Roles) /\ RecordChange(u, FALSE)

-----------------------------------------------------------------------------
\* The process or the connection is lost, the file cannot be written, or a
\* field is found invalid after the credential has been stored.
Abandon(u) == pc[u] # "idle" /\ Fail(u)

Next ==
    \E u \in Users :
        \/ \E name \in Names, enabled, credential \in BOOLEAN :
               \/ SaveModelProfile(u, name, enabled, credential)
               \/ SaveDataProfile(u, name, enabled, credential)
        \/ \E name \in Names : SaveSystemSettings(u, name)
        \/ \E role \in Roles, model \in ModelProfiles : SaveRoleAssignment(u, role, model)
        \/ \E a \in Profiles \cup Roles : Delete(u, a)
        \/ \E role \in Roles : ModelForRole(u, role)
        \/ \E p \in Profiles : TestProfile(u, p)
        \/ \E p \in DataProfiles : FetchResearch(u, p)
        \/ ReadFile(u) \/ WriteFile(u)
        \/ ReadAssigned(u) \/ FetchCredential(u)
        \/ LockRow(u) \/ CommitSystemSettings(u)
        \/ CommitModelProfile(u) \/ CommitModelDeletion(u)
        \/ CommitDataProfile(u) \/ CommitDataDeletion(u)
        \/ CommitRoleAssignment(u) \/ CommitRoleDeletion(u)
        \/ Abandon(u)

Spec == Init /\ [][Next]_vars

-----------------------------------------------------------------------------
\* Type invariant: rows are of their tables, and a role refers to a model that
\* exists.
TypeOK ==
    /\ \A a \in Rows : rows[a] \in Values(a) \cup {Absent}
    /\ DOMAIN rows = Rows
    /\ \A role \in Roles : rows[role] # Absent => rows[rows[role]] # Absent
    /\ DOMAIN trail = Rows
    /\ stored \subseteq Refs
    /\ pc \in [Users -> Places]
    /\ request \in [Users -> Calls]
    /\ \A u \in Users : request[u].value \in Values(Target(u)) \cup {Absent}
    /\ file \in [Users -> SUBSET Refs]
    /\ DOMAIN found = Users
    /\ \A u \in Users : found[u] \in Values(Target(u)) \cup {Absent}

\* A credential that a profile names, in its row or as a call has read it, is in
\* the secret file, however many credentials are stored at the same time and
\* wherever a save stops (_replace_credential before save_model_profile, and
\* the lock of EncryptedFileSecretStore.put).
NoDanglingCredential ==
    /\ \A p \in Profiles : rows[p] # Absent => rows[p].ref \in stored \cup {NoRef}
    /\ \A u \in Users : pc[u] = "fetching" => request[u].value.ref \in stored \cup {NoRef}

\* What the first n audit records of a row say it holds: what the last change
\* among them left, and tests and fetches change nothing.
Replayed(a, n) ==
    LET changes == {k \in 1 .. n : trail[a][k].kind \in ChangeKinds}
        last == trail[a][Max(changes)]
    IN  IF changes = {} \/ last.kind = "DELETE" THEN Absent ELSE last.after

\* The audit records of a row are its history without gaps, whoever tests, uses
\* and deletes it in between: every change starts from what the records before it
\* say, and all of them say what the row holds now (_record_change in the
\* transaction of the change, docs/stages/PRODUCT-02.md:51).
AuditTrailIsAChain ==
    \A a \in Rows :
        /\ \A k \in DOMAIN trail[a] :
            trail[a][k].kind \in ChangeKinds => trail[a][k].before = Replayed(a, k - 1)
        /\ Payload(a, rows[a]) = Replayed(a, Len(trail[a]))

=============================================================================
