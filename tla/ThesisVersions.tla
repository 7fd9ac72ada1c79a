--------------------------- MODULE ThesisVersions ---------------------------
(***************************************************************************)
(* SqlAlchemyThesisWriter.write and SqlAlchemyThesisReader                 *)
(* (infrastructure/thesis_engine.py) for the Thesis of one instrument: a   *)
(* row that points to the current version, and versions that are appended  *)
(* and never changed.  Theses of different instruments share nothing.      *)
(*                                                                         *)
(* A write takes the time, reads the Thesis and its current version,       *)
(* inserts the next version and advances the pointer by compare-and-swap,  *)
(* all but the first in one READ COMMITTED transaction.  A unique index is *)
(* entered when a row is inserted, and whoever inserts the same value      *)
(* waits until that transaction ends.                                      *)
(***************************************************************************)
EXTENDS Integers, FiniteSets

CONSTANTS
    Writers,        \* callers of write()
    Bodies,         \* what a Thesis says: state, claims, conditions
    Reasons,        \* change reasons, part of the content hash only
    MaxTime,        \* bound: the last instant
    MaxVersions     \* bound: no write begins beyond so many versions

ASSUME BodiesAssumption == Bodies # {} /\ Reasons # {}
ASSUME MaxTimeAssumption == MaxTime \in Nat
ASSUME MaxVersionsAssumption == MaxVersions \in Nat

\* A content has its Evidence references sorted, or not: the order in which the
\* claims list them is no part of what they say.
Content == [body : Bodies, reason : Reasons, sorted : BOOLEAN]

\* Mutated form of Stored: the references are stored in the order given.
StoredAsGiven(content) == content

\* thesis_content_payload sorts the references, so what is stored is sorted.
Canonical == {content \in Content : content.sorted}
Stored(content) == [content EXCEPT !.sorted = TRUE]

\* The canonical hash of the stored payload, as the payload it identifies.
Hash(content) == <<content.body, content.reason>>
Hashes == Bodies \X Reasons
AnyHash == <<>>

\* semantic_diff compares claims as values, with the order of their references,
\* and does not compare the change reason.
IsMaterial(previous, content) ==
    <<previous.body, previous.sorted>> # <<content.body, content.sorted>>

Version == [number : Nat, parent : Nat, content : Canonical, created : Nat]
NoVersion == [number |-> 0]
NoReply == 0

VARIABLES
    now,        \* the clock
    thesis,     \* the investment_thesis row: its own version, 0 when there is
                \* no row, and the number of the version it points to
    versions,   \* the committed thesis_version rows
    pc,         \* where each writer is
    asks,       \* content, expected hash and time stamp of a writer's call
    seen,       \* the version of the Thesis row a writer's transaction has read
    draft,      \* the version it inserts
    reply       \* the version its last call returned

vars == <<now, thesis, versions, pc, asks, seen, draft, reply>>

Places == {"idle", "stamped", "create", "insert", "inserted", "advanced"}

TypeOK ==
    /\ now \in 0 .. MaxTime
    /\ thesis \in [version : Nat, current : Nat]
    /\ versions \subseteq Version
    /\ pc \in [Writers -> Places]
    /\ asks \in [Writers -> [content : Content, expected : Hashes \cup {AnyHash},
                             created : Nat]]
    /\ seen \in [Writers -> Nat]
    /\ draft \in [Writers -> Version \cup {NoVersion}]
    /\ reply \in [Writers -> Nat]

Init ==
    /\ now = 0
    /\ thesis = [version |-> 0, current |-> 0]
    /\ versions = {}
    /\ pc = [w \in Writers |-> "idle"]
    /\ asks = [w \in Writers |-> [content |-> CHOOSE content \in Content : TRUE,
                                  expected |-> AnyHash, created |-> 0]]
    /\ seen = [w \in Writers |-> 0]
    /\ draft = [w \in Writers |-> NoVersion]
    /\ reply = [w \in Writers |-> NoReply]

Goto(w, place) == pc' = [pc EXCEPT ![w] = place]

\* The call ends and returns a version, or raises; what its transaction had read
\* and written is gone or committed.
Return(w, number) ==
    /\ Goto(w, "idle")
    /\ reply' = [reply EXCEPT ![w] = number]
    /\ seen' = [seen EXCEPT ![w] = 0]
    /\ draft' = [draft EXCEPT ![w] = NoVersion]

-----------------------------------------------------------------------------
(* The unique indexes: thesis by instrument, version by thesis and number. *)

Exists == thesis.version > 0

\* Mutated form of Committed: there is no unique index.
CommittedNever(number) == FALSE

Committed(number) == \E v \in versions : v.number = number

\* Another open transaction has inserted that version.
Inserting(w, number) ==
    \E u \in Writers \ {w} :
        pc[u] \in {"inserted", "advanced"} /\ draft[u].number = number

\* Mutated form of Creating: a writer waits for its own transaction as well.
CreatingItself(w) ==
    \E u \in Writers : pc[u] \in {"create", "insert", "inserted", "advanced"}

\* Another open transaction has inserted the row of the Thesis.
Creating(w) ==
    \E u \in Writers \ {w} :
        pc[u] \in {"insert", "inserted", "advanced"} /\ draft[u].number = 1

\* Another open transaction has updated the row of the Thesis.
Advancing(w) == \E u \in Writers \ {w} : pc[u] = "advanced"

Current == CHOOSE v \in versions : v.number = thesis.current

-----------------------------------------------------------------------------
Tick ==
    /\ now < MaxTime
    /\ now' = now + 1
    /\ UNCHANGED <<thesis, versions, pc, asks, seen, draft, reply>>

\* write() takes created_at before its transaction begins.
Write(w, content, expected) ==
    /\ pc[w] = "idle"
    /\ Cardinality(versions) < MaxVersions
    /\ asks' = [asks EXCEPT ![w] =
                  [content |-> content, expected |-> expected, created |-> now]]
    /\ Goto(w, "stamped")
    /\ reply' = [reply EXCEPT ![w] = NoReply]
    /\ UNCHANGED <<now, thesis, versions, seen, draft>>

\* There is no Thesis yet: what the caller expects of it is not looked at.
MissThesis(w) ==
    /\ pc[w] = "stamped"
    /\ ~Exists
    /\ Goto(w, "create")
    /\ UNCHANGED <<now, thesis, versions, asks, seen, draft, reply>>

CreateThesis(w) ==
    /\ pc[w] = "create"
    /\ ~Creating(w)
    /\ ~Exists
    /\ seen' = [seen EXCEPT ![w] = 1]
    /\ draft' = [draft EXCEPT ![w] =
                   [number |-> 1, parent |-> 0, content |-> Stored(asks[w].content),
                    created |-> asks[w].created]]
    /\ Goto(w, "insert")
    /\ UNCHANGED <<now, thesis, versions, asks, reply>>

CreateConflicts(w) ==
    /\ pc[w] = "create"
    /\ ~Creating(w)
    /\ Exists
    /\ Return(w, NoReply)
    /\ UNCHANGED <<now, thesis, versions, asks>>

\* The Thesis is not what the proposal of this writer was made from.
IsStale(w) == asks[w].expected \notin {AnyHash, Hash(Current.content)}

RefuseStale(w) ==
    /\ pc[w] = "stamped"
    /\ Exists
    /\ IsStale(w)
    /\ Return(w, NoReply)
    /\ UNCHANGED <<now, thesis, versions, asks>>

ReturnUnchanged(w) ==
    /\ pc[w] = "stamped"
    /\ Exists
    /\ ~IsStale(w)
    /\ ~IsMaterial(Current.content, asks[w].content)
    /\ Return(w, thesis.current)
    /\ UNCHANGED <<now, thesis, versions, asks>>

\* Mutated form of NextNumber: counted from the version of the row.
NextNumberOfRow == thesis.version + 1

NextNumber == thesis.current + 1

StartVersion(w) ==
    /\ pc[w] = "stamped"
    /\ Exists
    /\ ~IsStale(w)
    /\ IsMaterial(Current.content, asks[w].content)
    /\ seen' = [seen EXCEPT ![w] = thesis.version]
    /\ draft' = [draft EXCEPT ![w] =
                   [number |-> NextNumber, parent |-> thesis.current,
                    content |-> Stored(asks[w].content), created |-> asks[w].created]]
    /\ Goto(w, "insert")
    /\ UNCHANGED <<now, thesis, versions, asks, reply>>

InsertVersion(w) ==
    /\ pc[w] = "insert"
    /\ ~Inserting(w, draft[w].number)
    /\ ~Committed(draft[w].number)
    /\ Goto(w, "inserted")
    /\ UNCHANGED <<now, thesis, versions, asks, seen, draft, reply>>

InsertConflicts(w) ==
    /\ pc[w] = "insert"
    /\ ~Inserting(w, draft[w].number)
    /\ Committed(draft[w].number)
    /\ Return(w, NoReply)
    /\ UNCHANGED <<now, thesis, versions, asks>>

\* The row a transaction has created is its own, at version 1.
RowVersion(w) == IF draft[w].number = 1 THEN 1 ELSE thesis.version

\* Waits for another update of the row.  A row that is at another version ends
\* the write with an error (Fail).
AdvancePointer(w) ==
    /\ pc[w] = "inserted"
    /\ ~Advancing(w)
    /\ seen[w] = RowVersion(w)
    /\ Goto(w, "advanced")
    /\ UNCHANGED <<now, thesis, versions, asks, seen, draft, reply>>

\* Mutated form of Publish: the pointer stays where it is.
PublishWithoutPointer(w) ==
    /\ versions' = versions \cup {draft[w]}
    /\ thesis' = [version |-> seen[w] + 1, current |-> draft[w].parent]

\* What the commit makes visible: the version and the pointer to it.
Publish(w) ==
    /\ versions' = versions \cup {draft[w]}
    /\ thesis' = [version |-> seen[w] + 1, current |-> draft[w].number]

Commit(w) ==
    /\ pc[w] = "advanced"
    /\ Publish(w)
    /\ Return(w, draft[w].number)
    /\ UNCHANGED <<now, asks>>

\* The commit is durable and its answer is lost.
CommitAckLost(w) ==
    /\ pc[w] = "advanced"
    /\ Publish(w)
    /\ Return(w, NoReply)
    /\ UNCHANGED <<now, asks>>

\* Evidence that is not available, a lost compare-and-swap, a database error or
\* a crash: the transaction is rolled back.
Fail(w) ==
    /\ pc[w] # "idle"
    /\ Return(w, NoReply)
    /\ UNCHANGED <<now, thesis, versions, asks>>

Proceed(w) ==
    \/ MissThesis(w) \/ CreateThesis(w) \/ CreateConflicts(w)
    \/ RefuseStale(w) \/ ReturnUnchanged(w) \/ StartVersion(w)
    \/ InsertVersion(w) \/ InsertConflicts(w) \/ AdvancePointer(w) \/ Commit(w)

\* Nothing is left to do within the bounds.
Finished ==
    /\ now = MaxTime
    /\ Cardinality(versions) >= MaxVersions
    /\ \A w \in Writers : pc[w] = "idle"
    /\ UNCHANGED vars

Next ==
    \/ Tick
    \/ \E w \in Writers :
        \/ \E content \in Content, expected \in Hashes \cup {AnyHash} :
              Write(w, content, expected)
        \/ Proceed(w)
        \/ CommitAckLost(w)
        \/ Fail(w)
    \/ Finished

Spec == Init /\ [][Next]_vars

\* PostgreSQL wakes a transaction when the one it waits for ends, and a writer
\* that begins after that needs several round trips before it inserts: no writer
\* is passed over for ever.
Fairness == \A w \in Writers : SF_vars(Proceed(w))

LiveSpec == Spec /\ Fairness

-----------------------------------------------------------------------------
(* Properties.                                                             *)

\* The history is one line: versions are numbered without gaps or doubles, each
\* follows the one before it, and the Thesis points to the last.  So a current
\* version is never missing (THESIS_CURRENT_VERSION_MISSING).
LinearHistory ==
    /\ \A u, v \in versions : u.number = v.number => u = v
    /\ \A v \in versions :
          v.number \in 1 .. thesis.current /\ v.parent = v.number - 1
    /\ \A n \in 1 .. thesis.current : Committed(n)
    /\ thesis.version = IF versions = {} THEN 0 ELSE thesis.current + 1

\* A version that is about to be committed follows the version that is current,
\* and that one is still what the proposal was made from: the check of the
\* expected hash, made before, holds when it counts.  The pointer's
\* compare-and-swap therefore never fails: the unique index has decided before.
CommitsOnWhatItRead ==
    \A w \in Writers :
        pc[w] \in {"inserted", "advanced"} =>
            /\ draft[w].parent = thesis.current
            /\ seen[w] = RowVersion(w)
            /\ Exists => asks[w].expected \in {AnyHash, Hash(Current.content)}

\* Writers that wait for each other's inserts and updates all come to an end.
EveryWriteEnds == \A w \in Writers : pc[w] # "idle" ~> pc[w] = "idle"

\* What the table shows of the history, without parents and times.
Chain == INSTANCE VersionChain WITH
    Contents <- Content,
    length <- thesis.current,
    entries <- {[number |-> v.number, content |-> v.content] : v \in versions}

\* Every commit appends one version to the history, and nothing else changes it.
ImplementsVersionChain == Chain!Spec

\* latest_as_of: the latest created, of those the one with the highest number.
AsOf(t) ==
    LET past == {v \in versions : v.created <= t}
    IN  {v \in past : \A u \in past :
            \/ u.created < v.created
            \/ u.created = v.created /\ u.number <= v.number}

\* A read as of the present returns the latest version, the one that a read of
\* the current Thesis returns.  The code does not have this property (README.md,
\* Remarks).
ReadsAgree == \A v \in AsOf(now) : v.number = thesis.current

\* No version without a change: a version does not have its parent's content.
\* The code does not have this property (README.md, Remarks).
NoEmptyVersion ==
    \A u, v \in versions : v.parent = u.number => Hash(u.content) # Hash(v.content)

=============================================================================
