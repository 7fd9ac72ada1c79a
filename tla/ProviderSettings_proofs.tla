----------------------- MODULE ProviderSettings_proofs -----------------------
(***************************************************************************)
(* TypeOK, NoDanglingCredential and AuditTrailIsAChain for every set of    *)
(* concurrent requests, profiles, roles, names and references.             *)
(***************************************************************************)
EXTENDS ProviderSettings, WellFoundedInduction, TLAPS

USE RowsAssumption

Payloads ==
    [name : Names, enabled : BOOLEAN, configured : BOOLEAN] \cup ModelProfiles \cup Names
        \cup {Absent}

\* What a request is about, at each place.
Shape(u) ==
    /\ pc[u] \in {"credential", "writing"} =>
        /\ request[u].op = "save" /\ Target(u) \in Profiles
        /\ request[u].value \in Profile /\ request[u].value.ref \in Refs
    /\ pc[u] \in {"ready", "locked"} =>
        \/ request[u].op = "save" /\ request[u].value # Absent
        \/ request[u].op = "delete" /\ request[u].value = Absent
    /\ pc[u] = "resolving" => Target(u) \in ModelProfiles
    /\ pc[u] = "fetching" => Target(u) \in Profiles /\ request[u].value \in Profile
    /\ pc[u] = "locked" /\ request[u].op = "delete" => found[u] # Absent
    /\ pc[u] # "locked" => found[u] = Absent

\* A credential is stored before its profile is written; and the one request
\* that is between its read and its write of the file has read it as it is.
SecretInv ==
    /\ \A p \in Profiles : rows[p] # Absent => rows[p].ref \in stored \cup {NoRef}
    /\ \A u \in Users :
        /\ pc[u] \in {"ready", "locked"} /\ request[u].op = "save" /\ Target(u) \in Profiles =>
               request[u].value.ref \in stored \cup {NoRef}
        /\ pc[u] = "fetching" => request[u].value.ref \in stored \cup {NoRef}
        /\ pc[u] = "writing" => file[u] = stored
    /\ \A u, v \in Users : pc[u] = "writing" /\ pc[v] = "writing" => u = v

\* A row that was found FOR UPDATE stays as it was found, and has one finder.
LockInv ==
    /\ \A u \in Users : pc[u] = "locked" /\ found[u] # Absent => rows[Target(u)] = found[u]
    /\ \A u, v \in Users :
        /\ pc[u] = "locked" /\ found[u] # Absent
        /\ pc[v] = "locked" /\ found[v] # Absent
        /\ Target(u) = Target(v)
        => u = v

Results ==
    {"CONFIGURATION_VALID", "CREDENTIAL_MISSING", "SECRET_STORE_UNAVAILABLE", "RESEARCH_FETCH",
     "DELETED"}

AuditRecord ==
    [kind : ChangeKinds \cup CheckKinds, before : Payloads, after : Payloads \cup Results]

TrailInv == trail \in [Rows -> Seq(AuditRecord)] /\ AuditTrailIsAChain

ShapeInv == \A u \in Users : Shape(u)

IInv == TypeOK /\ ShapeInv /\ SecretInv /\ LockInv /\ TrailInv

-----------------------------------------------------------------------------
(* The audit trail.                                                        *)

\* Some numbers up to a bound have a greatest one.
LEMMA MaxOfSome ==
    ASSUME NEW n \in Nat, NEW S \in SUBSET (1 .. n), S # {}
    PROVE  Max(S) \in S
<1> DEFINE R == {ss \in Nat \X Nat : ss[1] < ss[2]}
           Gaps == {n - k : k \in S}
<1>1. IsWellFoundedOn(R, Nat)
  BY NatLessThanWellFounded DEF OpToRel
<1>2. Gaps \in SUBSET Nat /\ Gaps # {}
  <2>1. \A k \in S : n - k \in Nat
    OBVIOUS
  <2>2. PICK k : k \in S
    OBVIOUS
  <2>3. n - k \in Gaps
    BY <2>2
  <2> QED BY <2>1, <2>3
<1> HIDE DEF R, Gaps
<1>3. PICK gap \in Gaps : \A m \in Gaps : ~(<<m, gap>> \in R)
  BY <1>1, <1>2, WFMin
<1>4. PICK k \in S : gap = n - k
  BY DEF Gaps
<1>5. ASSUME NEW j \in S, j > k PROVE FALSE
  <2>1. n - j \in Gaps /\ n - j \in Nat /\ gap \in Nat /\ n - j < gap
    BY <1>2, <1>4, <1>5 DEF Gaps
  <2> QED BY <1>3, <2>1 DEF R
<1>6. \A j \in S : k >= j
  BY <1>5
<1> QED BY <1>6 DEF Max

ChangesUpTo(a, n) == {k \in 1 .. n : trail[a][k].kind \in ChangeKinds}

\* What records say that are still there.
LEMMA ReplayedStays ==
    ASSUME NEW a, NEW n \in Nat, \A k \in 1 .. n : trail'[a][k] = trail[a][k]
    PROVE  Replayed(a, n)' = Replayed(a, n)
<1> DEFINE S == ChangesUpTo(a, n)
<1>1. S \in SUBSET (1 .. n) /\ ChangesUpTo(a, n)' = S
  BY DEF ChangesUpTo
<1>2. S # {} => trail'[a][Max(S)] = trail[a][Max(S)]
  <2> HIDE DEF S
  <2> QED BY <1>1, MaxOfSome
<1>3. Replayed(a, n) = IF S = {} \/ trail[a][Max(S)].kind = "DELETE" THEN Absent
                       ELSE trail[a][Max(S)].after
  BY DEF Replayed, ChangesUpTo
<1>4. Replayed(a, n)' = IF S = {} \/ trail'[a][Max(S)].kind = "DELETE" THEN Absent
                        ELSE trail'[a][Max(S)].after
  BY <1>1 DEF Replayed, ChangesUpTo
<1> QED BY <1>2, <1>3, <1>4

LEMMA AllRecords ==
    ASSUME NEW a, NEW m, Len(trail[a])' = m
    PROVE  Replayed(a, Len(trail[a]))' = Replayed(a, m)'
  BY DEF Replayed

\* A row that stays, with its records, stays as they say.
LEMMA OtherTrails ==
    ASSUME AuditTrailIsAChain, trail \in [Rows -> Seq(AuditRecord)], NEW b \in Rows,
           trail'[b] = trail[b], rows'[b] = rows[b]
    PROVE  /\ \A k \in DOMAIN trail'[b] : trail'[b][k].kind \in ChangeKinds =>
                  trail'[b][k].before = Replayed(b, k - 1)'
           /\ Payload(b, rows'[b]) = Replayed(b, Len(trail[b]))'
<1>1. PICK m \in Nat : m = Len(trail[b]) /\ DOMAIN trail[b] = 1 .. m
  OBVIOUS
<1>2. \A k \in Nat : Replayed(b, k)' = Replayed(b, k)
  BY ReplayedStays
<1>3. \A k \in 1 .. m : k - 1 \in Nat
  BY <1>1
<1>4. Payload(b, rows'[b]) = Replayed(b, m)'
  BY <1>1, <1>2 DEF AuditTrailIsAChain
<1>5. \A k \in DOMAIN trail'[b] : trail'[b][k].kind \in ChangeKinds =>
          trail'[b][k].before = Replayed(b, k - 1)'
  BY <1>1, <1>2, <1>3 DEF AuditTrailIsAChain
<1>6. Replayed(b, Len(trail[b]))' = Replayed(b, m)'
  <2>1. Len(trail[b])' = m
    BY <1>1
  <2> QED BY <2>1, AllRecords
<1> QED BY <1>4, <1>5, <1>6

\* One record more: a change that starts from what the row holds and says what
\* it holds then, or a check of a row that stays.
LEMMA TrailGrows ==
    ASSUME TrailInv, NEW a \in Rows, NEW r \in AuditRecord,
           trail' = [trail EXCEPT ![a] = Append(@, r)],
           \A b \in Rows \ {a} : rows'[b] = rows[b],
           r.kind \in ChangeKinds =>
               /\ r.before = Payload(a, rows[a])
               /\ Payload(a, rows'[a]) = IF r.kind = "DELETE" THEN Absent ELSE r.after,
           r.kind \notin ChangeKinds => rows'[a] = rows[a]
    PROVE  TrailInv'
<1>1. trail \in [Rows -> Seq(AuditRecord)] /\ AuditTrailIsAChain
  BY DEF TrailInv
<1>n. PICK n \in Nat : n = Len(trail[a])
  BY <1>1
<1>m. PICK m \in Nat : m = n + 1
  OBVIOUS
<1>2. /\ trail' \in [Rows -> Seq(AuditRecord)] /\ n \in Nat
      /\ trail'[a] = Append(trail[a], r)
      /\ \A b \in Rows \ {a} : trail'[b] = trail[b]
  BY <1>1, <1>n
<1>3. /\ Len(trail'[a]) = m /\ trail'[a][m] = r
      /\ DOMAIN trail'[a] = 1 .. m /\ DOMAIN trail[a] = 1 .. n
      /\ \A k \in 1 .. n : trail'[a][k] = trail[a][k]
  BY <1>1, <1>n, <1>m, <1>2
<1>4. \A k \in 0 .. n : Replayed(a, k)' = Replayed(a, k)
  <2> TAKE k \in 0 .. n
  <2>1. k \in Nat /\ \A j \in 1 .. k : trail'[a][j] = trail[a][j]
    BY <1>2, <1>3
  <2> QED BY <2>1, ReplayedStays
<1>5. Payload(a, rows[a]) = Replayed(a, n)
  BY <1>1, <1>n DEF AuditTrailIsAChain
<1> DEFINE S == ChangesUpTo(a, m)'
<1>6. /\ S \in SUBSET (1 .. m)
      /\ Replayed(a, m)' = IF S = {} \/ trail'[a][Max(S)].kind = "DELETE" THEN Absent
                           ELSE trail'[a][Max(S)].after
  BY DEF Replayed, ChangesUpTo
<1>7. Replayed(a, m)' = Payload(a, rows'[a])
  <2>1. CASE r.kind \in ChangeKinds
    <3>1. m \in S
      BY <1>m, <1>3, <2>1 DEF ChangesUpTo
    <3>2. Max(S) = m
      <4> HIDE DEF S
      <4>1. Max(S) \in S
        BY <1>6, <3>1, MaxOfSome
      <4>2. \A k \in S : k \in Int /\ m >= k
        BY <1>6
      <4>3. \A k \in S : (\A i \in S : k >= i) => k = m
        BY <3>1, <4>2
      <4> QED BY <3>1, <4>2, <4>3 DEF Max
    <3> HIDE DEF S
    <3> QED BY <1>3, <1>6, <2>1, <3>1, <3>2
  <2>2. CASE r.kind \notin ChangeKinds
    <3> DEFINE Z == ChangesUpTo(a, n)'
    <3>1. S = Z
      BY <1>m, <1>3, <2>2 DEF ChangesUpTo
    <3>2. Replayed(a, n)' = IF Z = {} \/ trail'[a][Max(Z)].kind = "DELETE" THEN Absent
                            ELSE trail'[a][Max(Z)].after
      BY DEF Replayed, ChangesUpTo
    <3>3. Replayed(a, n)' = Replayed(a, n)
      BY <1>4
    <3> HIDE DEF S, Z
    <3> QED BY <1>5, <1>6, <2>2, <3>1, <3>2, <3>3
  <2> QED BY <2>1, <2>2
<1>8. /\ \A k \in DOMAIN trail'[a] : trail'[a][k].kind \in ChangeKinds =>
            trail'[a][k].before = Replayed(a, k - 1)'
      /\ Payload(a, rows'[a]) = Replayed(a, Len(trail[a]))'
  <2>1. ASSUME NEW k \in 1 .. m, trail'[a][k].kind \in ChangeKinds
        PROVE  trail'[a][k].before = Replayed(a, k - 1)'
    <3>1. Replayed(a, k - 1)' = Replayed(a, k - 1)
      <4>1. k - 1 \in 0 .. n
        BY <1>m
      <4> QED BY <1>4, <4>1
    <3>2. CASE k = m
      <4>1. k - 1 = n
        BY <1>m, <3>2
      <4>2. r.before = Replayed(a, k - 1)
        BY <1>3, <1>5, <2>1, <3>2, <4>1
      <4> QED BY <1>3, <3>1, <3>2, <4>2
    <3>3. CASE k # m
      <4>1. k \in 1 .. n
        BY <1>m, <3>3
      <4> QED BY <1>1, <1>3, <2>1, <3>1, <4>1 DEF AuditTrailIsAChain
    <3> QED BY <3>2, <3>3
  <2>2. Replayed(a, Len(trail[a]))' = Replayed(a, m)'
    <3>1. Len(trail[a])' = m
      BY <1>3
    <3> QED BY <3>1, AllRecords
  <2> QED BY <1>3, <1>7, <2>1, <2>2
<1>9. ASSUME NEW b \in Rows \ {a}
      PROVE  /\ \A k \in DOMAIN trail'[b] : trail'[b][k].kind \in ChangeKinds =>
                    trail'[b][k].before = Replayed(b, k - 1)'
             /\ Payload(b, rows'[b]) = Replayed(b, Len(trail[b]))'
  <2>1. trail'[b] = trail[b] /\ rows'[b] = rows[b]
    BY <1>2
  <2> QED BY <1>1, <2>1, OtherTrails
<1>10. AuditTrailIsAChain'
  <2>1. \A b \in Rows : b = a \/ b \in Rows \ {a}
    OBVIOUS
  <2> QED BY <1>8, <1>9, <2>1, Zenon DEF AuditTrailIsAChain, Payload
<1> QED BY <1>2, <1>10 DEF TrailInv

LEMMA TrailStays ==
    ASSUME TrailInv, UNCHANGED <<rows, trail>>
    PROVE  TrailInv'
<1>1. trail \in [Rows -> Seq(AuditRecord)] /\ AuditTrailIsAChain
  BY DEF TrailInv
<1>2. ASSUME NEW b \in Rows
      PROVE  /\ \A k \in DOMAIN trail'[b] : trail'[b][k].kind \in ChangeKinds =>
                    trail'[b][k].before = Replayed(b, k - 1)'
             /\ Payload(b, rows'[b]) = Replayed(b, Len(trail[b]))'
  BY <1>1, OtherTrails
<1>3. AuditTrailIsAChain'
  BY <1>2 DEF AuditTrailIsAChain, Payload
<1> QED BY <1>1, <1>3 DEF TrailInv

-----------------------------------------------------------------------------
\* The end of a request that changes no row and records nothing but a check.
LEMMA ReturnKeeps ==
    ASSUME IInv, NEW u \in Users, Return(u), UNCHANGED <<rows, stored>>, TrailInv'
    PROVE  IInv'
<1> USE DEF IInv
<1>1. /\ pc' = [pc EXCEPT ![u] = "idle"] /\ request' = [request EXCEPT ![u] = NoCall]
      /\ file' = [file EXCEPT ![u] = {}] /\ found' = [found EXCEPT ![u] = Absent]
      /\ UNCHANGED <<rows, stored>>
  BY DEF Return, Goto
<1>2. NoCall \in Calls /\ NoCall.target \in Rows /\ NoCall.value = Absent
  <2>1. System \in Rows
    BY DEF Rows
  <2>2. NoCall.target \in Rows /\ NoCall.value = Absent
    BY <2>1 DEF NoCall
  <2>3. NoCall \in Calls
    BY <2>1 DEF NoCall, Calls
  <2> QED BY <2>2, <2>3
<1>3. /\ pc'[u] = "idle" /\ request'[u] = NoCall /\ file'[u] = {} /\ found'[u] = Absent
      /\ \A v \in Users \ {u} : /\ pc'[v] = pc[v] /\ request'[v] = request[v]
                               /\ file'[v] = file[v] /\ found'[v] = found[v]
  BY <1>1 DEF TypeOK
<1>4. TypeOK'
  <2>1. DOMAIN trail' = Rows
    BY DEF TrailInv
  <2> QED BY <1>1, <1>2, <1>3, <2>1 DEF TypeOK, Places, Target, Values
<1>5. ShapeInv'
  BY <1>3 DEF ShapeInv, Shape, Target
<1>6. SecretInv'
  BY <1>1, <1>3 DEF SecretInv, Target
<1>7. LockInv'
  BY <1>1, <1>3 DEF LockInv, Target
<1> QED BY <1>4, <1>5, <1>6, <1>7

LEMMA FailKeeps ==
    ASSUME IInv, NEW u \in Users, Fail(u)
    PROVE  IInv'
BY ReturnKeeps, TrailStays DEF Fail, IInv

\* A request that begins.
LEMMA AskKeeps ==
    ASSUME IInv, NEW u \in Users, NEW a \in Rows, NEW op \in {"save", "delete", "test", "sync", "use"},
           NEW value \in Values(a) \cup {Absent},
           NEW place \in {"credential", "ready", "resolving", "fetching"},
           Ask(u, a, op, value, place),
           place = "credential" =>
               op = "save" /\ a \in Profiles /\ value # Absent /\ value.ref \in Refs,
           place = "ready" => (op = "save" /\ value # Absent) \/ (op = "delete" /\ value = Absent),
           place = "resolving" => a \in ModelProfiles,
           place = "fetching" => a \in Profiles /\ value # Absent,
           place \in {"ready", "fetching"} /\ a \in Profiles /\ value # Absent =>
               value.ref \in stored \cup {NoRef}
    PROVE  IInv'
<1> USE DEF IInv
<1> DEFINE call == [target |-> a, op |-> op, value |-> value]
<1>1. /\ pc' = [pc EXCEPT ![u] = place] /\ request' = [request EXCEPT ![u] = call]
      /\ UNCHANGED <<rows, trail, stored, file, found>>
  BY DEF Ask, Goto
<1>2. call \in Calls
  BY DEF Calls, Values
<1>3. /\ pc'[u] = place /\ request'[u] = call
      /\ \A v \in Users \ {u} : pc'[v] = pc[v] /\ request'[v] = request[v]
  BY <1>1 DEF TypeOK
<1>3a. pc[u] = "idle" /\ found' = found /\ file' = file
  BY DEF Ask
<1>3b. a \in Profiles /\ value # Absent => value \in Profile
  BY DEF Values
<1>3c. found[u] = Absent
  BY <1>3a DEF ShapeInv, Shape
<1>4. TypeOK'
  BY <1>1, <1>2, <1>3, <1>3c DEF TypeOK, Places, Target, Values
<1>5. ShapeInv'
  BY <1>3, <1>3a, <1>3b DEF ShapeInv, Shape, Target
<1>6. SecretInv'
  BY <1>1, <1>3, <1>3a DEF SecretInv, Target
<1>7. LockInv'
  BY <1>1, <1>3 DEF LockInv, Target
<1>8. TrailInv'
  BY <1>1, TrailStays
<1> QED BY <1>4, <1>5, <1>6, <1>7, <1>8

-----------------------------------------------------------------------------
\* The secret file is read and replaced by one request at a time.
LEMMA ReadFileKeeps ==
    ASSUME IInv, NEW u \in Users, ReadFile(u)
    PROVE  IInv'
<1> USE DEF IInv
<1>1. /\ pc[u] = "credential" /\ \A v \in Users \ {u} : pc[v] # "writing"
      /\ file' = [file EXCEPT ![u] = stored] /\ pc' = [pc EXCEPT ![u] = "writing"]
      /\ UNCHANGED <<rows, trail, stored, request, found>>
  BY DEF ReadFile, FileLocked, Goto
<1>2. TypeOK'
  BY <1>1 DEF TypeOK, Places, Target
<1>3. ShapeInv'
  BY <1>1 DEF TypeOK, ShapeInv, Shape, Target
<1>4. SecretInv'
  BY <1>1 DEF TypeOK, SecretInv, Target
<1>5. LockInv'
  BY <1>1 DEF TypeOK, LockInv, Target
<1>6. TrailInv'
  BY <1>1, TrailStays
<1> QED BY <1>2, <1>3, <1>4, <1>5, <1>6

LEMMA WriteFileKeeps ==
    ASSUME IInv, NEW u \in Users, WriteFile(u)
    PROVE  IInv'
<1> USE DEF IInv
<1>1. /\ pc[u] = "writing" /\ stored' = file[u] \cup {request[u].value.ref}
      /\ file' = [file EXCEPT ![u] = {}] /\ pc' = [pc EXCEPT ![u] = "ready"]
      /\ UNCHANGED <<rows, trail, request, found>>
  BY DEF WriteFile, Goto
<1>2. /\ stored' = stored \cup {request[u].value.ref} /\ request[u].value.ref \in Refs
      /\ request[u].op = "save" /\ request[u].value # Absent
      /\ \A v \in Users \ {u} : pc[v] # "writing"
  <2>1. file[u] = stored /\ \A v \in Users \ {u} : pc[v] # "writing"
    BY <1>1 DEF SecretInv
  <2>2. request[u].op = "save" /\ request[u].value \in Profile /\ request[u].value.ref \in Refs
    BY <1>1 DEF ShapeInv, Shape
  <2>3. Absent \notin Profile
    BY DEF Profile
  <2> QED BY <1>1, <2>1, <2>2, <2>3
<1>3. TypeOK'
  BY <1>1, <1>2 DEF TypeOK, Places, Target
<1>4. ShapeInv'
  BY <1>1, <1>2 DEF TypeOK, ShapeInv, Shape, Target
<1>5. SecretInv'
  BY <1>1, <1>2 DEF TypeOK, SecretInv, Target
<1>6. LockInv'
  BY <1>1 DEF TypeOK, LockInv, Target
<1>7. TrailInv'
  BY <1>1, TrailStays
<1> QED BY <1>3, <1>4, <1>5, <1>6, <1>7

LEMMA ReadAssignedKeeps ==
    ASSUME IInv, NEW u \in Users, ReadAssigned(u)
    PROVE  IInv'
<1> USE DEF IInv
<1> DEFINE profile == rows[Target(u)]
<1>1. CASE Fail(u)
  BY <1>1, FailKeeps
<1>2. CASE ~Fail(u)
  <2>1. /\ pc[u] = "resolving" /\ profile # Absent
        /\ request' = [request EXCEPT ![u].value = profile]
        /\ pc' = [pc EXCEPT ![u] = "fetching"]
        /\ UNCHANGED <<rows, trail, stored, file, found>>
    BY <1>2 DEF ReadAssigned, Goto
  <2>2. Target(u) \in ModelProfiles /\ request[u] \in Calls
    BY <2>1 DEF ShapeInv, Shape, TypeOK
  <2>3. profile \in Profile /\ profile.ref \in stored \cup {NoRef}
    BY <2>1, <2>2 DEF TypeOK, Values, Rows, Profiles, SecretInv
  <2>4. /\ request'[u].target = Target(u) /\ request'[u].value = profile /\ request'[u] \in Calls
        /\ pc'[u] = "fetching"
        /\ \A v \in Users \ {u} : pc'[v] = pc[v] /\ request'[v] = request[v]
    BY <2>1, <2>2, <2>3 DEF TypeOK, Calls, Target
  <2>5. TypeOK'
    <3>1. /\ pc' \in [Users -> Places] /\ request' \in [Users -> Calls]
      BY <2>1, <2>4 DEF TypeOK, Places
    <3>2. \A v \in Users : Target(v)' = Target(v)
      BY <2>4 DEF Target
    <3>3. request'[u].value \in Values(Target(u))
      BY <2>2, <2>3, <2>4 DEF Values, Profiles
    <3>4. \A v \in Users : request'[v].value \in Values(Target(v)) \cup {Absent}
      BY <2>4, <3>3 DEF TypeOK
    <3> QED BY <2>1, <3>1, <3>2, <3>4 DEF TypeOK
  <2>6. ShapeInv'
    BY <2>1, <2>2, <2>3, <2>4 DEF ShapeInv, Shape, Target, Profiles
  <2>7. SecretInv'
    BY <2>1, <2>3, <2>4 DEF SecretInv, Target
  <2>8. LockInv'
    BY <2>1, <2>4 DEF LockInv, Target
  <2>9. TrailInv'
    BY <2>1, TrailStays
  <2> QED BY <2>5, <2>6, <2>7, <2>8, <2>9
<1> QED BY <1>1, <1>2

\* A check is recorded as its request ends.
LEMMA CheckKeeps ==
    ASSUME IInv, NEW u \in Users, pc[u] = "fetching", NEW kind \in CheckKinds,
           NEW result \in Results, RecordCheck(u, kind, result)
    PROVE  IInv'
<1> DEFINE r == [kind |-> kind, before |-> Absent, after |-> result]
<1>1. /\ trail' = [trail EXCEPT ![Target(u)] = Append(@, r)]
      /\ Return(u) /\ UNCHANGED <<rows, stored>>
  BY DEF RecordCheck, AppendAudit
<1>2. r \in AuditRecord /\ r.kind \notin ChangeKinds
  BY DEF AuditRecord, Payloads, ChangeKinds, CheckKinds
<1>3. Target(u) \in Rows
  BY DEF IInv, TypeOK, Calls, Target
<1> HIDE DEF r
<1>4. TrailInv'
  BY <1>1, <1>2, <1>3, TrailGrows DEF IInv
<1> QED BY <1>1, <1>4, ReturnKeeps

LEMMA FetchKeeps ==
    ASSUME IInv, NEW u \in Users, FetchCredential(u)
    PROVE  IInv'
<1>1. CASE Fail(u)
  BY <1>1, FailKeeps
<1>2. CASE \E kind \in CheckKinds, result \in Results : RecordCheck(u, kind, result)
  BY <1>2, CheckKeeps DEF FetchCredential
<1> QED BY <1>1, <1>2 DEF FetchCredential, TestResults, CheckKinds, Results

\* A row is found as it is, by one request at a time.
LEMMA LockRowKeeps ==
    ASSUME IInv, NEW u \in Users, LockRow(u)
    PROVE  IInv'
<1> USE DEF IInv
<1>1. CASE Fail(u)
  BY <1>1, FailKeeps
<1>2. CASE ~Fail(u)
  <2>1. /\ pc[u] = "ready" /\ Lockers(u, Target(u)) = {}
        /\ request[u].op = "delete" => rows[Target(u)] # Absent
        /\ found' = [found EXCEPT ![u] = rows[Target(u)]]
        /\ pc' = [pc EXCEPT ![u] = "locked"]
        /\ UNCHANGED <<rows, trail, stored, request, file>>
    BY <1>2 DEF LockRow, Goto
  <2>2. /\ found'[u] = rows[Target(u)] /\ pc'[u] = "locked"
        /\ \A v \in Users \ {u} : found'[v] = found[v] /\ pc'[v] = pc[v]
        /\ \A v \in Users : Target(v)' = Target(v)
    BY <2>1 DEF TypeOK, Target
  <2>3. \A v \in Users \ {u} : pc[v] = "locked" /\ found[v] # Absent => Target(v) # Target(u)
    BY <2>1 DEF Lockers
  <2>4. TypeOK'
    <3>1. Target(u) \in Rows
      BY DEF TypeOK, Calls, Target
    <3> QED BY <2>1, <2>2, <3>1 DEF TypeOK, Places
  <2>5. ShapeInv'
    BY <2>1, <2>2 DEF ShapeInv, Shape
  <2>6. SecretInv'
    BY <2>1, <2>2 DEF SecretInv
  <2>7. LockInv'
    BY <2>1, <2>2, <2>3 DEF LockInv
  <2>8. TrailInv'
    BY <2>1, TrailStays
  <2> QED BY <2>4, <2>5, <2>6, <2>7, <2>8
<1> QED BY <1>1, <1>2

-----------------------------------------------------------------------------
LEMMA PayloadTyped ==
    ASSUME NEW a \in Rows, NEW value \in Values(a) \cup {Absent}
    PROVE  Payload(a, value) \in Payloads
<1>1. CASE a \in Profiles /\ value # Absent
  <2>1. value \in [name : Names, enabled : BOOLEAN, ref : Refs \cup {NoRef}]
    BY <1>1 DEF Values, Profile
  <2>2. [name |-> value.name, enabled |-> value.enabled, configured |-> value.ref # NoRef]
            \in [name : Names, enabled : BOOLEAN, configured : BOOLEAN]
    BY <2>1
  <2> QED BY <1>1, <2>2 DEF Payload, Payloads
<1>2. CASE ~(a \in Profiles /\ value # Absent)
  BY <1>2 DEF Payload, Payloads, Values
<1> QED BY <1>1, <1>2

\* A change and its audit record leave a row's history without gaps.
LEMMA ChangeRecorded ==
    ASSUME TrailInv, TypeOK, NEW a \in Rows, NEW value \in Values(a) \cup {Absent},
           rows' = [rows EXCEPT ![a] = value],
           IF value = Absent THEN AppendAudit(a, "DELETE", Payload(a, rows[a]), "DELETED")
           ELSE AppendAudit(a, IF rows[a] = Absent THEN "CREATE" ELSE "UPDATE",
                            Payload(a, rows[a]), Payload(a, value))
    PROVE  TrailInv'
<1>1. /\ Payload(a, rows[a]) \in Payloads /\ Payload(a, value) \in Payloads
      /\ Payload(a, Absent) = Absent
  BY PayloadTyped DEF TypeOK, Payload
<1>2. rows'[a] = value /\ \A b \in Rows \ {a} : rows'[b] = rows[b]
  BY DEF TypeOK
<1>3. CASE value = Absent
  <2> DEFINE r == [kind |-> "DELETE", before |-> Payload(a, rows[a]), after |-> "DELETED"]
  <2>1. r \in AuditRecord /\ r.kind = "DELETE" /\ r.before = Payload(a, rows[a])
    BY <1>1 DEF AuditRecord, Results, ChangeKinds
  <2>2. trail' = [trail EXCEPT ![a] = Append(@, r)]
    BY <1>3 DEF AppendAudit
  <2> HIDE DEF r
  <2>3. "DELETE" \in ChangeKinds
    BY DEF ChangeKinds
  <2> QED BY <1>1, <1>2, <1>3, <2>1, <2>2, <2>3, TrailGrows
<1>4. CASE value # Absent
  <2> DEFINE kind == IF rows[a] = Absent THEN "CREATE" ELSE "UPDATE"
             r == [kind |-> kind, before |-> Payload(a, rows[a]), after |-> Payload(a, value)]
  <2>1. /\ r \in AuditRecord /\ r.kind \in ChangeKinds /\ r.kind # "DELETE"
        /\ r.before = Payload(a, rows[a]) /\ r.after = Payload(a, value)
    BY <1>1 DEF AuditRecord, ChangeKinds
  <2>2. trail' = [trail EXCEPT ![a] = Append(@, r)]
    BY <1>4 DEF AppendAudit
  <2> HIDE DEF r
  <2> QED BY <1>2, <1>4, <2>1, <2>2, TrailGrows
<1> QED BY <1>3, <1>4

\* A committed change, when a model that a role refers to is kept.
LEMMA CommitKeeps ==
    ASSUME IInv, NEW u \in Users, RecordChange(u, FALSE),
           found[u] = Absent => rows[Target(u)] = Absent,
           Target(u) \in ModelProfiles /\ request[u].value = Absent => ~IsAssigned(Target(u)),
           Target(u) \in Roles /\ request[u].value # Absent => rows[request[u].value] # Absent
    PROVE  IInv'
<1> USE DEF IInv
<1> DEFINE a == Target(u)
           value == request[u].value
<1>1. /\ pc[u] = "locked"
      /\ rows' = [rows EXCEPT ![a] = value]
      /\ IF value = Absent THEN AppendAudit(a, "DELETE", Payload(a, found[u]), "DELETED")
         ELSE AppendAudit(a, IF found[u] = Absent THEN "CREATE" ELSE "UPDATE",
                          Payload(a, found[u]), Payload(a, value))
      /\ pc' = [pc EXCEPT ![u] = "idle"] /\ request' = [request EXCEPT ![u] = NoCall]
      /\ file' = [file EXCEPT ![u] = {}] /\ found' = [found EXCEPT ![u] = Absent]
      /\ UNCHANGED stored
  BY DEF RecordChange, Return, Goto
<1>2. /\ a \in Rows /\ value \in Values(a) \cup {Absent} /\ found[u] \in Values(a) \cup {Absent}
      /\ rows[a] = found[u]
  BY <1>1 DEF TypeOK, Calls, Target, LockInv
<1>3. NoCall \in Calls /\ NoCall.target \in Rows /\ NoCall.value = Absent
  <2>1. System \in Rows
    BY DEF Rows
  <2>2. NoCall.target \in Rows /\ NoCall.value = Absent
    BY <2>1 DEF NoCall
  <2>3. NoCall \in Calls
    BY <2>1 DEF NoCall, Calls
  <2> QED BY <2>2, <2>3
<1>4. /\ pc'[u] = "idle" /\ request'[u] = NoCall /\ file'[u] = {} /\ found'[u] = Absent
      /\ \A v \in Users \ {u} : /\ pc'[v] = pc[v] /\ request'[v] = request[v]
                               /\ file'[v] = file[v] /\ found'[v] = found[v]
      /\ rows'[a] = value /\ \A b \in Rows \ {a} : rows'[b] = rows[b]
  BY <1>1, <1>2 DEF TypeOK
<1>5. TypeOK'
  <2>1. /\ \A b \in Rows : rows'[b] \in Values(b) \cup {Absent}
        /\ DOMAIN rows' = Rows
    BY <1>1, <1>2, <1>4 DEF TypeOK
  <2>2. \A role \in Roles : rows'[role] # Absent => rows'[rows'[role]] # Absent
    <3> SUFFICES ASSUME NEW role \in Roles, rows'[role] # Absent PROVE rows'[rows'[role]] # Absent
      OBVIOUS
    <3>1. role \in Rows /\ rows'[role] \in ModelProfiles /\ rows'[role] \in Rows
      BY <2>1 DEF Rows, Values, Profiles
    <3>2. rows'[role] \notin Roles
      BY <3>1 DEF Profiles
    <3>3. CASE role = a
      BY <1>4, <3>1, <3>2, <3>3
    <3>4. CASE role # a /\ rows'[role] = a
      <4>1. rows[role] = a
        BY <1>4, <3>1, <3>4
      <4> QED BY <1>4, <3>1, <3>4, <4>1 DEF IsAssigned
    <3>5. CASE role # a /\ rows'[role] # a
      BY <1>4, <3>1, <3>5 DEF TypeOK
    <3> QED BY <3>3, <3>4, <3>5
  <2>3. /\ pc' \in [Users -> Places] /\ request' \in [Users -> Calls]
        /\ file' \in [Users -> SUBSET Refs] /\ DOMAIN found' = Users /\ DOMAIN trail' = Rows
    BY <1>1, <1>3 DEF TypeOK, Places, AppendAudit
  <2>4. \A v \in Users : /\ request'[v].value \in Values(request'[v].target) \cup {Absent}
                         /\ found'[v] \in Values(request'[v].target) \cup {Absent}
    BY <1>3, <1>4 DEF TypeOK, Target
  <2> QED BY <1>1, <2>1, <2>2, <2>3, <2>4 DEF TypeOK, Target
<1>6. ShapeInv'
  BY <1>4 DEF ShapeInv, Shape, Target
<1>7. SecretInv'
  <2>1. \A p \in Profiles : rows'[p] # Absent => rows'[p].ref \in stored \cup {NoRef}
    <3> SUFFICES ASSUME NEW p \in Profiles, rows'[p] # Absent
                 PROVE  rows'[p].ref \in stored \cup {NoRef}
      OBVIOUS
    <3>1. CASE p = a
      <4>1. request[u].op = "save"
        BY <1>1, <1>4, <3>1 DEF ShapeInv, Shape
      <4> QED BY <1>1, <1>4, <3>1, <4>1 DEF SecretInv
    <3>2. CASE p # a
      BY <1>4, <3>2 DEF SecretInv, Rows
    <3> QED BY <3>1, <3>2
  <2> QED BY <1>1, <1>4, <2>1 DEF SecretInv, Target
<1>8. LockInv'
  <2>1. \A v \in Users \ {u} : pc[v] = "locked" /\ found[v] # Absent => Target(v) # a
    BY <1>1, <1>2 DEF LockInv
  <2>2. \A v \in Users : Target(v) \in Rows
    BY DEF TypeOK, Calls, Target
  <2>3. \A v \in Users \ {u} : Target(v)' = Target(v)
    BY <1>4 DEF Target
  <2>4. \A v \in Users : pc'[v] = "locked" /\ found'[v] # Absent => v # u
    BY <1>4
  <2> QED BY <1>4, <2>1, <2>2, <2>3, <2>4 DEF LockInv
<1>9. TrailInv'
  BY <1>1, <1>2, ChangeRecorded
<1> QED BY <1>5, <1>6, <1>7, <1>8, <1>9

-----------------------------------------------------------------------------
\* What a request that saves a profile refers to.
LEMMA SaveKeeps ==
    ASSUME IInv, NEW u \in Users, NEW p \in Profiles, NEW name \in Names,
           NEW enabled \in BOOLEAN, NEW credential \in BOOLEAN,
           SaveProfile(u, p, name, enabled, credential)
    PROVE  IInv'
<1> USE DEF IInv
<1>1. PICK ref \in RefsFor(p, credential) :
          Ask(u, p, "save", [name |-> name, enabled |-> enabled, ref |-> ref],
              IF credential THEN "credential" ELSE "ready")
  BY DEF SaveProfile
<1> DEFINE value == [name |-> name, enabled |-> enabled, ref |-> ref]
<1>2. p \in Rows /\ rows[p] \in Profile \cup {Absent}
  BY DEF Rows, TypeOK, Values
<1>3. ref \in stored \cup {NoRef} \/ (credential /\ ref \in Refs)
  BY <1>2 DEF RefsFor, FreshRefs, SecretInv
<1>4. credential => ref \in Refs
  <2>1. rows[p] # Absent => rows[p].ref \in Refs \cup {NoRef}
    BY <1>2 DEF Profile
  <2> QED BY <2>1 DEF RefsFor, FreshRefs
<1>5. ref \in Refs \cup {NoRef}
  BY <1>3 DEF TypeOK
<1>6. value \in Profile /\ value.ref = ref
  BY <1>5 DEF Profile
<1>7. value # Absent /\ value \in Values(p)
  BY <1>6 DEF Profile, Values
<1> HIDE DEF value
<1>8. CASE credential
  <2>1. Ask(u, p, "save", value, "credential")
    BY <1>1, <1>8 DEF value
  <2> QED BY <1>2, <1>4, <1>6, <1>7, <1>8, <2>1, AskKeeps
<1>9. CASE ~credential
  <2>1. Ask(u, p, "save", value, "ready")
    BY <1>1, <1>9 DEF value
  <2> QED BY <1>2, <1>3, <1>6, <1>7, <1>9, <2>1, AskKeeps
<1> QED BY <1>8, <1>9

\* The requests that begin without a credential.
LEMMA BeginKeeps ==
    ASSUME IInv, NEW u \in Users,
           \/ \E name \in Names : SaveSystemSettings(u, name)
           \/ \E role \in Roles, model \in ModelProfiles : SaveRoleAssignment(u, role, model)
           \/ \E a \in Profiles \cup Roles : Delete(u, a)
           \/ \E role \in Roles : ModelForRole(u, role)
           \/ \E p \in Profiles : TestProfile(u, p)
           \/ \E p \in DataProfiles : FetchResearch(u, p)
    PROVE  IInv'
<1> USE DEF IInv
<1>1. ASSUME NEW name \in Names, SaveSystemSettings(u, name) PROVE IInv'
  <2>1. System \in Rows /\ System \notin Profiles /\ name \in Values(System) /\ name # Absent
    BY DEF Rows, Values
  <2> QED BY <1>1, <2>1, AskKeeps DEF SaveSystemSettings
<1>2. ASSUME NEW role \in Roles, NEW model \in ModelProfiles, SaveRoleAssignment(u, role, model)
      PROVE  IInv'
  <2>1. role \in Rows /\ role \notin Profiles /\ model \in Values(role) /\ model # Absent
    BY DEF Rows, Values
  <2> QED BY <1>2, <2>1, AskKeeps DEF SaveRoleAssignment
<1>3. ASSUME NEW a \in Profiles \cup Roles, Delete(u, a) PROVE IInv'
  BY <1>3, AskKeeps DEF Delete, Rows
<1>4. ASSUME NEW role \in Roles, ModelForRole(u, role) PROVE IInv'
  <2>1. PICK a \in {rows[role], rows[DefaultRole]} :
            a # Absent /\ Ask(u, a, "use", Absent, "resolving")
    BY <1>4 DEF ModelForRole
  <2>2. a \in ModelProfiles /\ a \in Rows
    BY <2>1 DEF TypeOK, Values, Rows, Profiles
  <2> QED BY <2>1, <2>2, AskKeeps
<1>5. ASSUME NEW p \in Profiles, TestProfile(u, p) PROVE IInv'
  <2>1. p \in Rows /\ rows[p] \in Values(p) \cup {Absent}
    BY DEF Rows, TypeOK
  <2>2. rows[p] # Absent /\ rows[p].ref \in stored \cup {NoRef}
    BY <1>5 DEF TestProfile, SecretInv
  <2> QED BY <1>5, <2>1, <2>2, AskKeeps DEF TestProfile
<1>6. ASSUME NEW p \in DataProfiles, FetchResearch(u, p) PROVE IInv'
  <2>1. p \in Rows /\ p \in Profiles /\ rows[p] \in Values(p) \cup {Absent}
    BY DEF Rows, Profiles, TypeOK
  <2>2. rows[p] # Absent /\ rows[p].ref \in stored \cup {NoRef}
    BY <1>6, <2>1 DEF FetchResearch, SecretInv
  <2> QED BY <1>6, <2>1, <2>2, AskKeeps DEF FetchResearch
<1> QED BY <1>1, <1>2, <1>3, <1>4, <1>5, <1>6

\* The seven ways a row changes.
LEMMA ChangeKeeps ==
    ASSUME IInv, NEW u \in Users,
           \/ CommitSystemSettings(u)
           \/ CommitModelProfile(u) \/ CommitModelDeletion(u)
           \/ CommitDataProfile(u) \/ CommitDataDeletion(u)
           \/ CommitRoleAssignment(u) \/ CommitRoleDeletion(u)
    PROVE  IInv'
<1> USE DEF IInv
<1>1. CASE Fail(u)
  BY <1>1, FailKeeps
<1>2. CASE ~Fail(u)
  <2>1. RecordChange(u, FALSE) /\ pc[u] = "locked"
    BY <1>2 DEF CommitSystemSettings, CommitModelProfile, CommitModelDeletion, CommitDataProfile,
                CommitDataDeletion, CommitRoleAssignment, CommitRoleDeletion, RecordChange
  <2>2. found[u] = Absent => rows[Target(u)] = Absent
    <3>1. request[u].op = "delete" => found[u] # Absent
      BY <2>1 DEF ShapeInv, Shape
    <3>2. request[u].op # "delete" => ~CreatedMeanwhile(u)
      BY <1>2 DEF CommitSystemSettings, CommitModelProfile, CommitModelDeletion,
                  CommitDataProfile, CommitDataDeletion, CommitRoleAssignment,
                  CommitRoleDeletion, RecordChange, Changing
    <3> QED BY <3>1, <3>2 DEF CreatedMeanwhile
  <2>3. request[u].op = "delete" <=> request[u].value = Absent
    BY <2>1 DEF ShapeInv, Shape
  <2>4. Target(u) \in ModelProfiles /\ request[u].value = Absent => ~IsAssigned(Target(u))
    BY <1>2, <2>3 DEF CommitSystemSettings, CommitModelProfile, CommitModelDeletion,
                      CommitDataProfile, CommitDataDeletion, CommitRoleAssignment,
                      CommitRoleDeletion, RecordChange, Changing, Profiles
  <2>5. Target(u) \in Roles /\ request[u].value # Absent => rows[request[u].value] # Absent
    BY <1>2, <2>3 DEF CommitSystemSettings, CommitModelProfile, CommitModelDeletion,
                      CommitDataProfile, CommitDataDeletion, CommitRoleAssignment,
                      CommitRoleDeletion, RecordChange, Changing, Profiles
  <2> QED BY <2>1, <2>2, <2>4, <2>5, CommitKeeps
<1> QED BY <1>1, <1>2

LEMMA Invariant == Spec => []IInv
<1>1. Init => IInv
  <2> SUFFICES ASSUME Init PROVE IInv
    OBVIOUS
  <2>1. NoCall \in Calls /\ NoCall.target \in Rows /\ NoCall.value = Absent
    <3>1. System \in Rows
      BY DEF Rows
    <3>2. NoCall.target \in Rows /\ NoCall.value = Absent
      BY <3>1 DEF NoCall
    <3>3. NoCall \in Calls
      BY <3>1 DEF NoCall, Calls
    <3> QED BY <3>2, <3>3
  <2>2. TypeOK
    BY <2>1 DEF Init, TypeOK, Places, Target, Rows, Values
  <2>3. ShapeInv /\ SecretInv /\ LockInv
    BY DEF Init, ShapeInv, Shape, SecretInv, LockInv, Rows
  <2>4. TrailInv
    <3>1. \A a \in Rows : rows[a] = Absent /\ trail[a] = <<>> /\ Payload(a, Absent) = Absent
      BY DEF Init, Payload
    <3>2. trail \in [Rows -> Seq(AuditRecord)]
      BY DEF Init
    <3>3. \A a \in Rows : DOMAIN trail[a] = {} /\ Len(trail[a]) = 0 /\ Replayed(a, 0) = Absent
      BY <3>1 DEF Replayed
    <3> QED BY <3>1, <3>2, <3>3 DEF TrailInv, AuditTrailIsAChain
  <2> QED BY <2>2, <2>3, <2>4 DEF IInv
<1>2. IInv /\ [Next]_vars => IInv'
  <2> SUFFICES ASSUME IInv, [Next]_vars PROVE IInv'
    OBVIOUS
  <2>1. CASE UNCHANGED vars
    <3>1. TypeOK'
      BY <2>1 DEF vars, IInv, TypeOK, Target
    <3>2. ShapeInv' /\ SecretInv'
      BY <2>1 DEF vars, IInv, ShapeInv, Shape, SecretInv, Target
    <3>3. LockInv'
      BY <2>1 DEF vars, IInv, LockInv, Target
    <3>4. TrailInv'
      BY <2>1, TrailStays DEF vars, IInv
    <3> QED BY <3>1, <3>2, <3>3, <3>4 DEF IInv
  <2>2. CASE Next
    <3>1. PICK u \in Users :
            \/ \E name \in Names, enabled, credential \in BOOLEAN :
                 \/ SaveModelProfile(u, name, enabled, credential)
                 \/ SaveDataProfile(u, name, enabled, credential)
            \/ \E name \in Names : SaveSystemSettings(u, name)
            \/ \E role \in Roles, model \in ModelProfiles : SaveRoleAssignment(u, role, model)
            \/ \E a \in Profiles \cup Roles : Delete(u, a)
            \/ \E role \in Roles : ModelForRole(u, role)
            \/ \E p \in Profiles : TestProfile(u, p)
            \/ \E p \in DataProfiles : FetchResearch(u, p)
            \/ ReadFile(u) \/ WriteFile(u)
            \/ ReadAssigned(u) \/ FetchCredential(u)
            \/ LockRow(u) \/ CommitSystemSettings(u)
            \/ CommitModelProfile(u) \/ CommitModelDeletion(u)
            \/ CommitDataProfile(u) \/ CommitDataDeletion(u)
            \/ CommitRoleAssignment(u) \/ CommitRoleDeletion(u)
            \/ Abandon(u)
      BY <2>2 DEF Next
    <3>2. ASSUME NEW name \in Names, NEW enabled \in BOOLEAN, NEW credential \in BOOLEAN,
                 \/ SaveModelProfile(u, name, enabled, credential)
                 \/ SaveDataProfile(u, name, enabled, credential)
          PROVE  IInv'
      BY <3>2, SaveKeeps DEF SaveModelProfile, SaveDataProfile, Profiles
    <3> QED BY <3>1, <3>2, BeginKeeps, ReadFileKeeps, WriteFileKeeps, ReadAssignedKeeps,
               FetchKeeps, LockRowKeeps, ChangeKeeps, FailKeeps DEF Abandon
  <2> QED BY <2>1, <2>2 DEF Next
<1> QED BY <1>1, <1>2, PTL DEF Spec

\* Rows stay of their tables, and a role refers to a model that exists, whoever
\* deletes models meanwhile.
THEOREM SettingsTypeCorrect == Spec => []TypeOK
BY Invariant, PTL DEF IInv

\* A credential that a profile or a running call names is stored, for any number
\* of saves that share the secret file.
THEOREM CredentialsAreStored == Spec => []NoDanglingCredential
<1>1. IInv => NoDanglingCredential
  BY DEF IInv, SecretInv, NoDanglingCredential
<1> QED BY <1>1, Invariant, PTL

\* The audit records of every row are its history without gaps, for any number
\* of concurrent changes, tests and fetches.
THEOREM AuditIsAChain == Spec => []AuditTrailIsAChain
<1>1. IInv => AuditTrailIsAChain
  BY DEF IInv, TrailInv
<1> QED BY <1>1, Invariant, PTL

=============================================================================
