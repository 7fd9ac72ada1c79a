----------------------- MODULE ThesisVersions_proofs -----------------------
(***************************************************************************)
(* Proofs about ThesisVersions, for every set of writers and contents and  *)
(* histories of any length.                                                *)
(***************************************************************************)
EXTENDS ThesisVersions, TLAPS

USE BodiesAssumption, MaxTimeAssumption, MaxVersionsAssumption

\* A transaction that has a draft, and one that has inserted it.
Drafting == {"insert", "inserted", "advanced"}
Holding == {"inserted", "advanced"}

-----------------------------------------------------------------------------
\* Storing a content makes it canonical and keeps what it says.
LEMMA StoredIsCanonical ==
    ASSUME NEW content \in Content
    PROVE  Stored(content) \in Canonical /\ Stored(content) \in Content
  BY DEF Content, Canonical, Stored

\* TypeOK is inductive together with the drafts of open transactions.
DraftTyped == \A w \in Writers : pc[w] \in Drafting => draft[w] \in Version

\* What TypeOK says of one writer.
LEMMA WriterTyped ==
    ASSUME TypeOK, NEW w \in Writers
    PROVE  /\ asks[w].content \in Content
           /\ asks[w].created \in Nat
           /\ Stored(asks[w].content) \in Canonical
           /\ seen[w] \in Nat
           /\ draft[w].number \in Nat
           /\ thesis.version \in Nat /\ thesis.current \in Nat
  <1>1. asks[w] \in [content : Content, expected : Hashes \cup {AnyHash},
                     created : Nat]
    BY DEF TypeOK
  <1>2. draft[w] \in Version \cup {NoVersion}
    BY DEF TypeOK
  <1>3. draft[w].number \in Nat
    BY <1>2 DEF Version, NoVersion
  <1> QED BY <1>1, <1>3, StoredIsCanonical DEF TypeOK

\* The end of a call keeps every variable within its type.
LEMMA ReturnTyped ==
    ASSUME TypeOK, DraftTyped, NEW w \in Writers, NEW number \in Nat,
           Return(w, number), UNCHANGED <<now, asks>>,
           thesis' \in [version : Nat, current : Nat], versions' \subseteq Version
    PROVE  TypeOK' /\ DraftTyped'
  BY DEF TypeOK, DraftTyped, Return, Goto, Places, Drafting

\* One step keeps the types.
LEMMA TypeInductive ==
    ASSUME TypeOK, DraftTyped, [Next]_vars
    PROVE  TypeOK' /\ DraftTyped'
<1> USE DEF Places, Drafting
<1>0. /\ thesis \in [version : Nat, current : Nat]
      /\ versions \subseteq Version
      /\ now \in Nat
  BY DEF TypeOK
<1>1. CASE Tick
  BY <1>1 DEF Tick, TypeOK, DraftTyped
<1>2. ASSUME NEW w \in Writers, NEW content \in Content,
             NEW expected \in Hashes \cup {AnyHash}, Write(w, content, expected)
      PROVE  TypeOK' /\ DraftTyped'
  BY <1>0, <1>2 DEF Write, Goto, NoReply, TypeOK, DraftTyped
<1>3. ASSUME NEW w \in Writers, Proceed(w) PROVE TypeOK' /\ DraftTyped'
  <2>0. /\ asks[w].created \in Nat
        /\ Stored(asks[w].content) \in Canonical
        /\ thesis.version \in Nat /\ thesis.current \in Nat
        /\ NoReply \in Nat
    BY WriterTyped DEF NoReply
  <2>1. CASE MissThesis(w)
    BY <2>1 DEF MissThesis, Goto, TypeOK, DraftTyped
  <2>2. CASE CreateThesis(w)
    <3>1. [number |-> 1, parent |-> 0, content |-> Stored(asks[w].content),
           created |-> asks[w].created] \in Version
      BY <2>0 DEF Version
    <3> QED BY <2>2, <3>1 DEF CreateThesis, Goto, TypeOK, DraftTyped
  <2>3. CASE StartVersion(w)
    <3>1. [number |-> NextNumber, parent |-> thesis.current,
           content |-> Stored(asks[w].content),
           created |-> asks[w].created] \in Version
      BY <2>0 DEF Version, NextNumber
    <3> QED BY <2>0, <2>3, <3>1 DEF StartVersion, Goto, TypeOK, DraftTyped
  <2>4. CASE CreateConflicts(w) \/ RefuseStale(w) \/ InsertConflicts(w)
    BY <1>0, <2>0, <2>4, ReturnTyped DEF CreateConflicts, RefuseStale, InsertConflicts
  <2>5. CASE ReturnUnchanged(w)
    BY <1>0, <2>0, <2>5, ReturnTyped DEF ReturnUnchanged
  <2>6. CASE InsertVersion(w) \/ AdvancePointer(w)
    BY <2>6 DEF InsertVersion, AdvancePointer, Goto, TypeOK, DraftTyped
  <2>7. CASE Commit(w)
    <3>1. draft[w] \in Version /\ seen[w] \in Nat /\ draft[w].number \in Nat
      BY <2>7, WriterTyped DEF Commit, DraftTyped
    <3>2. /\ thesis' \in [version : Nat, current : Nat]
          /\ versions' \subseteq Version
      BY <1>0, <2>7, <3>1 DEF Commit, Publish
    <3> QED BY <2>7, <3>1, <3>2, ReturnTyped DEF Commit
  <2> QED BY <1>3, <2>1, <2>2, <2>3, <2>4, <2>5, <2>6, <2>7 DEF Proceed
<1>4. ASSUME NEW w \in Writers, CommitAckLost(w) PROVE TypeOK' /\ DraftTyped'
  <2>1. draft[w] \in Version /\ seen[w] \in Nat /\ draft[w].number \in Nat
    BY <1>4, WriterTyped DEF CommitAckLost, DraftTyped
  <2>2. /\ thesis' \in [version : Nat, current : Nat]
        /\ versions' \subseteq Version
    BY <1>0, <1>4, <2>1 DEF CommitAckLost, Publish
  <2> QED BY <1>4, <2>2, ReturnTyped DEF CommitAckLost, NoReply
<1>5. ASSUME NEW w \in Writers, Fail(w) PROVE TypeOK' /\ DraftTyped'
  BY <1>0, <1>5, ReturnTyped DEF Fail, NoReply
<1>6. CASE UNCHANGED vars
  BY <1>6 DEF vars, TypeOK, DraftTyped
<1> QED BY <1>1, <1>2, <1>3, <1>4, <1>5, <1>6 DEF Next, Finished

LEMMA TypeInit == Init => TypeOK /\ DraftTyped
<1>1. (CHOOSE content \in Content : TRUE) \in Content
  <2>1. PICK b \in Bodies, r \in Reasons : TRUE
    OBVIOUS
  <2>2. [body |-> b, reason |-> r, sorted |-> TRUE] \in Content
    BY DEF Content
  <2> QED BY <2>2
<1> QED BY <1>1 DEF Init, TypeOK, DraftTyped, Places, Drafting, NoReply

\* Every reachable state is well typed: what is stored is canonical.
THEOREM ThesisTypeCorrect == Spec => []TypeOK
<1>1. TypeOK /\ DraftTyped /\ [Next]_vars => TypeOK' /\ DraftTyped'
  BY TypeInductive
<1> QED BY <1>1, TypeInit, PTL DEF Spec

-----------------------------------------------------------------------------
(* The inductive invariant.  The history and the row agree (LinearHistory);  *)
(* a draft follows a version that was current when the writer read it, and   *)
(* the unique indexes leave a single transaction that has inserted one.      *)

\* What a draft was made from: no Thesis at all, or a version that is there.
DraftFollows(w) ==
    /\ draft[w].parent \in Nat
    /\ draft[w].number = draft[w].parent + 1
    /\ seen[w] = draft[w].number
    /\ draft[w].parent <= thesis.current
    /\ draft[w].number = 1 => thesis.current = 0
    /\ draft[w].number > 1 =>
          \E v \in versions :
              /\ v.number = draft[w].parent
              /\ asks[w].expected \in {AnyHash, Hash(v.content)}

DraftsFollow == \A w \in Writers : pc[w] \in Drafting => DraftFollows(w)

\* One transaction at a time has created the row, one has inserted a version,
\* and that version is the next one.
FirstAlone ==
    \A u, w \in Writers :
        /\ pc[u] \in Drafting /\ draft[u].number = 1
        /\ pc[w] \in Drafting /\ draft[w].number = 1
        => u = w

HoldingAlone ==
    \A u, w \in Writers : pc[u] \in Holding /\ pc[w] \in Holding => u = w

HoldingCurrent ==
    \A w \in Writers : pc[w] \in Holding => draft[w].parent = thesis.current

ChainInv ==
    /\ LinearHistory
    /\ DraftsFollow
    /\ FirstAlone
    /\ HoldingAlone
    /\ HoldingCurrent

\* The row exists exactly when it points to a version.
LEMMA RowPoints ==
    ASSUME TypeOK, LinearHistory
    PROVE  /\ Exists <=> thesis.current > 0
           /\ Exists => thesis.version = thesis.current + 1
           /\ thesis.version \in Nat /\ thesis.current \in Nat
<1>1. thesis.version \in Nat /\ thesis.current \in Nat
  BY DEF TypeOK
<1>2. CASE versions = {}
  <2>1. thesis.version = 0
    BY <1>2 DEF LinearHistory
  <2>2. thesis.current = 0
    <3>1. ASSUME thesis.current > 0 PROVE FALSE
      <4>1. Committed(1)
        BY <1>1, <3>1 DEF LinearHistory
      <4> QED BY <1>2, <4>1 DEF Committed
    <3> QED BY <1>1, <3>1
  <2> QED BY <1>1, <2>1, <2>2 DEF Exists
<1>3. CASE versions # {}
  <2>1. thesis.version = thesis.current + 1
    BY <1>3 DEF LinearHistory
  <2>2. PICK v \in versions : v.number \in 1 .. thesis.current
    BY <1>3 DEF LinearHistory
  <2> QED BY <1>1, <2>1, <2>2 DEF Exists
<1> QED BY <1>2, <1>3

\* The version the row points to is there, and there is no other of its number.
LEMMA CurrentIsThere ==
    ASSUME TypeOK, LinearHistory, Exists
    PROVE  /\ Current \in versions /\ Current.number = thesis.current
           /\ \A v \in versions : v.number = thesis.current => v = Current
<1>1. thesis.current \in 1 .. thesis.current
  BY RowPoints
<1>2. \E v \in versions : v.number = thesis.current
  BY <1>1 DEF LinearHistory, Committed
<1> QED BY <1>2 DEF Current, LinearHistory

\* A step that leaves the history alone and gives nobody a draft, or a version
\* inserted, keeps the invariant.
LEMMA Quiet ==
    ASSUME ChainInv, UNCHANGED <<thesis, versions>>,
           \A u \in Writers :
              /\ pc'[u] \in Drafting =>
                    /\ pc[u] \in Drafting
                    /\ draft'[u] = draft[u] /\ seen'[u] = seen[u] /\ asks'[u] = asks[u]
              /\ pc'[u] \in Holding => pc[u] \in Holding
    PROVE  ChainInv'
<1>1. LinearHistory'
  BY DEF ChainInv, LinearHistory, Committed
<1>2. DraftsFollow'
  BY DEF ChainInv, DraftsFollow, DraftFollows
<1>3. FirstAlone'
  BY DEF ChainInv, FirstAlone
<1>4. HoldingAlone'
  BY DEF ChainInv, HoldingAlone
<1>5. HoldingCurrent'
  <2>1. Holding \subseteq Drafting
    BY DEF Holding, Drafting
  <2> QED BY <2>1 DEF ChainInv, HoldingCurrent
<1> QED BY <1>1, <1>2, <1>3, <1>4, <1>5 DEF ChainInv

\* In particular the end of a call that commits nothing.
LEMMA ReturnQuiet ==
    ASSUME TypeOK, ChainInv, NEW w \in Writers, NEW number, Return(w, number),
           UNCHANGED <<thesis, versions, asks>>
    PROVE  ChainInv'
  <1>1. \A u \in Writers :
          /\ pc'[u] \in Drafting =>
                /\ pc[u] \in Drafting
                /\ draft'[u] = draft[u] /\ seen'[u] = seen[u] /\ asks'[u] = asks[u]
          /\ pc'[u] \in Holding => pc[u] \in Holding
    BY DEF Return, Goto, TypeOK, Drafting, Holding
  <1> QED BY <1>1, Quiet

\* A draft of a Thesis that does not exist: the writer that has it is alone.
LEMMA CreateKeepsChain ==
    ASSUME TypeOK, ChainInv, NEW w \in Writers, CreateThesis(w)
    PROVE  ChainInv'
<1> USE DEF Drafting, Holding
<1>1. /\ pc' = [pc EXCEPT ![w] = "insert"]
      /\ seen'[w] = 1 /\ draft'[w].number = 1 /\ draft'[w].parent = 0
      /\ \A u \in Writers \ {w} : seen'[u] = seen[u] /\ draft'[u] = draft[u]
      /\ UNCHANGED <<thesis, versions, asks>>
      /\ ~Exists /\ ~Creating(w)
  BY DEF CreateThesis, Goto, TypeOK
<1>2. thesis.current = 0
  BY <1>1, RowPoints DEF ChainInv
<1>3. pc'[w] = "insert" /\ \A u \in Writers \ {w} : pc'[u] = pc[u]
  BY <1>1 DEF TypeOK
<1>4. LinearHistory'
  BY <1>1 DEF ChainInv, LinearHistory, Committed
<1>5. DraftsFollow'
  <2> SUFFICES ASSUME NEW u \in Writers, pc'[u] \in Drafting PROVE DraftFollows(u)'
    BY DEF DraftsFollow
  <2>1. CASE u = w
    BY <1>1, <1>2, <2>1 DEF DraftFollows
  <2>2. CASE u # w
    BY <1>1, <1>3, <2>2 DEF ChainInv, DraftsFollow, DraftFollows
  <2> QED BY <2>1, <2>2
<1>6. FirstAlone'
  BY <1>1, <1>3 DEF ChainInv, FirstAlone, Creating
<1>7. HoldingAlone'
  BY <1>3 DEF ChainInv, HoldingAlone
<1>8. HoldingCurrent'
  BY <1>1, <1>3 DEF ChainInv, HoldingCurrent
<1> QED BY <1>4, <1>5, <1>6, <1>7, <1>8 DEF ChainInv

\* A draft of the version after the current one.
LEMMA StartKeepsChain ==
    ASSUME TypeOK, ChainInv, NEW w \in Writers, StartVersion(w)
    PROVE  ChainInv'
<1> USE DEF Drafting, Holding
<1>1. /\ pc' = [pc EXCEPT ![w] = "insert"]
      /\ seen'[w] = thesis.version
      /\ draft'[w].number = thesis.current + 1 /\ draft'[w].parent = thesis.current
      /\ \A u \in Writers \ {w} : seen'[u] = seen[u] /\ draft'[u] = draft[u]
      /\ UNCHANGED <<thesis, versions, asks>>
      /\ Exists /\ ~IsStale(w)
  BY DEF StartVersion, Goto, NextNumber, TypeOK
<1>2. /\ thesis.current \in Nat /\ thesis.current > 0
      /\ thesis.version = thesis.current + 1
  BY <1>1, RowPoints DEF ChainInv
<1>3. pc'[w] = "insert" /\ \A u \in Writers \ {w} : pc'[u] = pc[u]
  BY <1>1 DEF TypeOK
<1>4. LinearHistory'
  BY <1>1 DEF ChainInv, LinearHistory, Committed
<1>5. DraftsFollow'
  <2> SUFFICES ASSUME NEW u \in Writers, pc'[u] \in Drafting PROVE DraftFollows(u)'
    BY DEF DraftsFollow
  <2>1. CASE u = w
    <3>1. /\ Current \in versions /\ Current.number = thesis.current
          /\ asks[w].expected \in {AnyHash, Hash(Current.content)}
      BY <1>1, CurrentIsThere DEF ChainInv, IsStale
    <3> QED BY <1>1, <1>2, <2>1, <3>1 DEF DraftFollows
  <2>2. CASE u # w
    BY <1>1, <1>3, <2>2 DEF ChainInv, DraftsFollow, DraftFollows
  <2> QED BY <2>1, <2>2
<1>6. FirstAlone'
  <2>1. draft'[w].number # 1
    BY <1>1, <1>2
  <2> QED BY <1>1, <1>3, <2>1 DEF ChainInv, FirstAlone
<1>7. HoldingAlone'
  BY <1>3 DEF ChainInv, HoldingAlone
<1>8. HoldingCurrent'
  BY <1>1, <1>3 DEF ChainInv, HoldingCurrent
<1> QED BY <1>4, <1>5, <1>6, <1>7, <1>8 DEF ChainInv

\* What passes the unique index is the next version, and nobody else has it.
LEMMA InsertKeepsChain ==
    ASSUME TypeOK, ChainInv, NEW w \in Writers, InsertVersion(w)
    PROVE  ChainInv'
<1> USE DEF Drafting, Holding
<1>1. /\ pc[w] = "insert" /\ pc' = [pc EXCEPT ![w] = "inserted"]
      /\ UNCHANGED <<thesis, versions, asks, seen, draft>>
      /\ ~Inserting(w, draft[w].number) /\ ~Committed(draft[w].number)
  BY DEF InsertVersion, Goto
<1>2. pc'[w] = "inserted" /\ \A u \in Writers \ {w} : pc'[u] = pc[u]
  BY <1>1 DEF TypeOK
<1>3. draft[w].parent = thesis.current
  <2>1. /\ draft[w].parent \in Nat /\ draft[w].number = draft[w].parent + 1
        /\ draft[w].parent <= thesis.current
    BY <1>1 DEF ChainInv, DraftsFollow, DraftFollows
  <2>2. thesis.current \in Nat
    BY DEF TypeOK
  <2>3. ~(draft[w].number \in 1 .. thesis.current)
    BY <1>1 DEF ChainInv, LinearHistory
  <2> QED BY <2>1, <2>2, <2>3
<1>4. ASSUME NEW u \in Writers \ {w} PROVE pc[u] \notin Holding
  <2>1. SUFFICES ASSUME pc[u] \in Holding PROVE FALSE
    OBVIOUS
  <2>2. draft[u].parent = thesis.current
    BY <2>1 DEF ChainInv, HoldingCurrent
  <2>3. /\ draft[u].number = draft[u].parent + 1
        /\ draft[w].number = draft[w].parent + 1
    BY <1>1, <2>1 DEF ChainInv, DraftsFollow, DraftFollows
  <2> QED BY <1>1, <1>3, <2>1, <2>2, <2>3 DEF Inserting
<1>5. LinearHistory'
  BY <1>1 DEF ChainInv, LinearHistory, Committed
<1>6. DraftsFollow'
  BY <1>1, <1>2 DEF ChainInv, DraftsFollow, DraftFollows
<1>7. FirstAlone'
  BY <1>1, <1>2 DEF ChainInv, FirstAlone
<1>8. HoldingAlone'
  BY <1>2, <1>4 DEF HoldingAlone
<1>9. HoldingCurrent'
  BY <1>1, <1>2, <1>3, <1>4 DEF HoldingCurrent
<1> QED BY <1>5, <1>6, <1>7, <1>8, <1>9 DEF ChainInv

\* What is known of the version that is about to be committed.
LEMMA HeldDraft ==
    ASSUME TypeOK, DraftTyped, ChainInv, NEW w \in Writers, pc[w] \in Holding
    PROVE  /\ draft[w] \in Version
           /\ thesis.current \in Nat
           /\ draft[w].parent = thesis.current
           /\ draft[w].number = thesis.current + 1
           /\ seen[w] = thesis.current + 1
           /\ \A u \in Writers \ {w} : pc[u] \notin Holding
           /\ \A v \in versions : v.number \in 1 .. thesis.current
<1> USE DEF Drafting, Holding
<1>1. DraftFollows(w) /\ draft[w].parent = thesis.current
  BY DEF ChainInv, DraftsFollow, HoldingCurrent
<1>2. \A u \in Writers \ {w} : pc[u] \notin Holding
  BY DEF ChainInv, HoldingAlone
<1>3. \A v \in versions : v.number \in 1 .. thesis.current
  BY DEF ChainInv, LinearHistory
<1> QED BY <1>1, <1>2, <1>3 DEF DraftFollows, DraftTyped, TypeOK

\* A commit adds the next version to the line and points to it.
LEMMA PublishKeepsChain ==
    ASSUME TypeOK, DraftTyped, ChainInv, NEW w \in Writers, pc[w] = "advanced",
           Publish(w), NEW number, Return(w, number), UNCHANGED asks
    PROVE  ChainInv'
<1> USE DEF Drafting, Holding
<1>1. /\ pc'[w] = "idle" /\ \A u \in Writers \ {w} : pc'[u] = pc[u]
      /\ \A u \in Writers \ {w} : draft'[u] = draft[u] /\ seen'[u] = seen[u]
  BY DEF Return, Goto, TypeOK
<1>2. /\ draft[w] \in Version
      /\ thesis.current \in Nat
      /\ draft[w].parent = thesis.current
      /\ draft[w].number = thesis.current + 1
      /\ seen[w] = thesis.current + 1
      /\ \A u \in Writers \ {w} : pc[u] \notin Holding
      /\ \A v \in versions : v.number \in 1 .. thesis.current
  BY HeldDraft
<1>3. /\ versions' = versions \cup {draft[w]}
      /\ thesis'.version = thesis.current + 2
      /\ thesis'.current = thesis.current + 1
  BY <1>2 DEF Publish
<1>4. LinearHistory'
  <2>1. \A u, v \in versions' : u.number = v.number => u = v
    BY <1>2, <1>3 DEF ChainInv, LinearHistory
  <2>2. \A v \in versions' :
            v.number \in 1 .. thesis'.current /\ v.parent = v.number - 1
    BY <1>2, <1>3 DEF ChainInv, LinearHistory
  <2>3. ASSUME NEW n \in 1 .. thesis'.current PROVE Committed(n)'
    <3>1. CASE n \in 1 .. thesis.current
      BY <1>3, <3>1 DEF ChainInv, LinearHistory, Committed
    <3>2. CASE n = thesis.current + 1
      BY <1>2, <1>3, <3>2 DEF Committed
    <3> QED BY <1>2, <1>3, <3>1, <3>2
  <2> QED BY <1>2, <1>3, <2>1, <2>2, <2>3 DEF LinearHistory
<1>5. ASSUME NEW u \in Writers \ {w}, pc[u] \in Drafting
      PROVE  draft[u].number # 1 /\ draft[u].parent <= thesis.current
  <2>1. DraftFollows(u) /\ DraftFollows(w)
    BY <1>5 DEF ChainInv, DraftsFollow
  <2>2. SUFFICES ASSUME draft[u].number = 1 PROVE FALSE
    BY <2>1 DEF DraftFollows
  <2>3. draft[w].number = 1
    BY <1>2, <2>1, <2>2 DEF DraftFollows
  <2> QED BY <1>5, <2>2, <2>3 DEF ChainInv, FirstAlone
<1>6. DraftsFollow'
  <2> SUFFICES ASSUME NEW u \in Writers, pc'[u] \in Drafting PROVE DraftFollows(u)'
    BY DEF DraftsFollow
  <2>1. u # w /\ pc[u] \in Drafting
    BY <1>1
  <2>2. DraftFollows(u)
    BY <2>1 DEF ChainInv, DraftsFollow
  <2>3. draft'[u] = draft[u] /\ seen'[u] = seen[u] /\ asks'[u] = asks[u]
    BY <1>1, <2>1
  <2> QED BY <1>2, <1>3, <1>5, <2>1, <2>2, <2>3 DEF DraftFollows
<1>7. FirstAlone'
  BY <1>1, <1>5 DEF FirstAlone
<1>8. HoldingAlone' /\ HoldingCurrent'
  BY <1>1, <1>2 DEF HoldingAlone, HoldingCurrent
<1> QED BY <1>4, <1>6, <1>7, <1>8 DEF ChainInv

-----------------------------------------------------------------------------
\* One step keeps the invariant.
LEMMA ChainInductive ==
    ASSUME TypeOK, DraftTyped, ChainInv, [Next]_vars
    PROVE  ChainInv'
<1>1. CASE Tick \/ UNCHANGED vars
  <2>1. UNCHANGED <<thesis, versions, pc, asks, seen, draft>>
    BY <1>1 DEF Tick, vars
  <2> QED BY <2>1, Quiet
<1>2. ASSUME NEW w \in Writers, NEW content \in Content,
             NEW expected \in Hashes \cup {AnyHash}, Write(w, content, expected)
      PROVE  ChainInv'
  <2>1. /\ UNCHANGED <<thesis, versions, seen, draft>>
        /\ pc'[w] = "stamped"
        /\ \A u \in Writers \ {w} : pc'[u] = pc[u] /\ asks'[u] = asks[u]
    BY <1>2 DEF Write, Goto, TypeOK
  <2> QED BY <2>1, Quiet DEF Drafting, Holding
<1>3. ASSUME NEW w \in Writers, Proceed(w) PROVE ChainInv'
  <2>1. CASE MissThesis(w)
    <3>1. /\ UNCHANGED <<thesis, versions, asks, seen, draft>>
          /\ pc'[w] = "create" /\ \A u \in Writers \ {w} : pc'[u] = pc[u]
      BY <2>1 DEF MissThesis, Goto, TypeOK
    <3> QED BY <3>1, Quiet DEF Drafting, Holding
  <2>2. CASE CreateThesis(w)
    BY <2>2, CreateKeepsChain
  <2>3. CASE StartVersion(w)
    BY <2>3, StartKeepsChain
  <2>4. CASE CreateConflicts(w) \/ RefuseStale(w) \/ InsertConflicts(w)
    BY <2>4, ReturnQuiet DEF CreateConflicts, RefuseStale, InsertConflicts
  <2>5. CASE ReturnUnchanged(w)
    BY <2>5, ReturnQuiet DEF ReturnUnchanged
  <2>6. CASE InsertVersion(w)
    BY <2>6, InsertKeepsChain
  <2>7. CASE AdvancePointer(w)
    <3>1. /\ UNCHANGED <<thesis, versions, asks, seen, draft>>
          /\ pc[w] = "inserted" /\ \A u \in Writers \ {w} : pc'[u] = pc[u]
      BY <2>7 DEF AdvancePointer, Goto, TypeOK
    <3> QED BY <3>1, Quiet DEF Drafting, Holding
  <2>8. CASE Commit(w)
    BY <2>8, PublishKeepsChain DEF Commit
  <2> QED BY <1>3, <2>1, <2>2, <2>3, <2>4, <2>5, <2>6, <2>7, <2>8 DEF Proceed
<1>4. ASSUME NEW w \in Writers, CommitAckLost(w) PROVE ChainInv'
  BY <1>4, PublishKeepsChain DEF CommitAckLost
<1>5. ASSUME NEW w \in Writers, Fail(w) PROVE ChainInv'
  BY <1>5, ReturnQuiet DEF Fail
<1> QED BY <1>1, <1>2, <1>3, <1>4, <1>5 DEF Next, Finished

LEMMA ChainInit == Init => ChainInv
  BY DEF Init, ChainInv, LinearHistory, DraftsFollow, FirstAlone, HoldingAlone,
         HoldingCurrent, Committed, Drafting, Holding

\* The expected hash and the row's version, read before, hold at the commit.
LEMMA ReadIsCurrent ==
    ASSUME TypeOK, DraftTyped, ChainInv
    PROVE  CommitsOnWhatItRead
<1> SUFFICES ASSUME NEW w \in Writers, pc[w] \in {"inserted", "advanced"}
             PROVE  /\ draft[w].parent = thesis.current
                    /\ seen[w] = RowVersion(w)
                    /\ Exists => asks[w].expected \in {AnyHash, Hash(Current.content)}
  BY DEF CommitsOnWhatItRead
<1>1. /\ draft[w].parent = thesis.current
      /\ draft[w].number = thesis.current + 1
      /\ seen[w] = thesis.current + 1
      /\ thesis.current \in Nat
  BY HeldDraft DEF Holding
<1>2. DraftFollows(w)
  BY DEF ChainInv, DraftsFollow, Drafting
<1>3. /\ Exists <=> thesis.current > 0
      /\ Exists => thesis.version = thesis.current + 1
  BY RowPoints DEF ChainInv
<1>4. seen[w] = RowVersion(w)
  BY <1>1, <1>3 DEF RowVersion
<1>5. ASSUME Exists PROVE asks[w].expected \in {AnyHash, Hash(Current.content)}
  <2>1. PICK v \in versions : /\ v.number = thesis.current
                              /\ asks[w].expected \in {AnyHash, Hash(v.content)}
    BY <1>1, <1>2, <1>3, <1>5 DEF DraftFollows
  <2>2. v = Current
    BY <1>5, <2>1, CurrentIsThere DEF ChainInv
  <2> QED BY <2>1, <2>2
<1> QED BY <1>1, <1>4, <1>5

LEMMA Invariance == Spec => [](TypeOK /\ DraftTyped /\ ChainInv)
<1>1. TypeOK /\ DraftTyped /\ ChainInv /\ [Next]_vars
        => (TypeOK /\ DraftTyped /\ ChainInv)'
  BY TypeInductive, ChainInductive
<1> QED BY <1>1, TypeInit, ChainInit, PTL DEF Spec

\* Whoever writes, fails or waits: the versions of a Thesis form one line, and
\* the Thesis points to its end.
THEOREM ThesisLinear == Spec => []LinearHistory
<1>1. ChainInv => LinearHistory
  BY DEF ChainInv
<1> QED BY <1>1, Invariance, PTL

\* What a writer has read of the Thesis is still so when it commits, although
\* no row is locked while it reads.
THEOREM ThesisCommitsOnWhatItRead == Spec => []CommitsOnWhatItRead
<1>1. TypeOK /\ DraftTyped /\ ChainInv => CommitsOnWhatItRead
  BY ReadIsCurrent
<1> QED BY <1>1, Invariance, PTL

-----------------------------------------------------------------------------
\* A commit appends the writer's content.
LEMMA PublishAppends ==
    ASSUME TypeOK, DraftTyped, ChainInv, NEW w \in Writers, pc[w] = "advanced",
           Publish(w)
    PROVE  Chain!Next
<1>1. /\ draft[w] \in Version
      /\ draft[w].number = thesis.current + 1
  BY HeldDraft DEF Holding
<1>2. draft[w].content \in Content
  BY <1>1 DEF Version, Canonical
<1>3. /\ thesis'.current = thesis.current + 1
      /\ versions' = versions \cup {draft[w]}
  BY <1>1 DEF Publish
<1>4. {[number |-> v.number, content |-> v.content] : v \in versions'}
        = {[number |-> v.number, content |-> v.content] : v \in versions}
            \cup {[number |-> thesis.current + 1, content |-> draft[w].content]}
  BY <1>1, <1>3
<1> QED BY <1>2, <1>3, <1>4 DEF Chain!Next, Chain!Append

\* The transactions of the writers implement an append-only chain of versions.
THEOREM ThesisImplementsChain == Spec => ImplementsVersionChain
<1>1. Init => Chain!Init
  BY DEF Init, Chain!Init
<1>2. TypeOK /\ DraftTyped /\ ChainInv /\ [Next]_vars => [Chain!Next]_Chain!chainVars
  <2> SUFFICES ASSUME TypeOK, DraftTyped, ChainInv, [Next]_vars
               PROVE  Chain!Next \/ UNCHANGED Chain!chainVars
    OBVIOUS
  <2>1. ASSUME UNCHANGED <<thesis, versions>> PROVE UNCHANGED Chain!chainVars
    BY <2>1 DEF Chain!chainVars
  <2>2. ASSUME NEW w \in Writers, Commit(w) \/ CommitAckLost(w) PROVE Chain!Next
    BY <2>2, PublishAppends DEF Commit, CommitAckLost
  <2>3. ASSUME NEW w \in Writers, Proceed(w), ~Commit(w)
        PROVE  UNCHANGED <<thesis, versions>>
    BY <2>3 DEF Proceed, MissThesis, CreateThesis, CreateConflicts, RefuseStale,
                ReturnUnchanged, StartVersion, InsertVersion, InsertConflicts,
                AdvancePointer
  <2>4. ASSUME NEW w \in Writers, Fail(w) PROVE UNCHANGED <<thesis, versions>>
    BY <2>4 DEF Fail
  <2>5. ASSUME NEW w \in Writers, NEW content \in Content,
               NEW expected \in Hashes \cup {AnyHash}, Write(w, content, expected)
        PROVE  UNCHANGED <<thesis, versions>>
    BY <2>5 DEF Write
  <2> QED BY <2>1, <2>2, <2>3, <2>4, <2>5 DEF Next, Tick, Finished, vars
<1> QED BY <1>1, <1>2, Invariance, PTL DEF Spec, ImplementsVersionChain, Chain!Spec

=============================================================================
