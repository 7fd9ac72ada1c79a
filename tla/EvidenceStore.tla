--------------------------- MODULE EvidenceStore ---------------------------
(***************************************************************************)
(* SqlAlchemyEvidenceIngestor.ingest, called by the ingest route for one   *)
(* artifact and by the provider fetch for each artifact it got, in a       *)
(* transaction of its own.  An artifact's content hash covers its source   *)
(* and payload but neither its tier nor its expiry: two artifacts may      *)
(* share a content and differ in tier.                                     *)
(***************************************************************************)
EXTENDS Integers, SequencesExt

CONSTANTS
    Fetches,    \* requests that ingest, concurrently
    Artifacts,  \* records of content, source, tier and available
    Batch       \* the artifacts each fetch brings, in order

ASSUME BatchAssumption == Batch \in [Fetches -> Seq(Artifacts) \ {<<>>}]

VARIABLES
    evidence,   \* committed rows, by order of commit; a row's place is its id
    lineage,    \* contents of the committed research_artifact rows
    place,      \* [Fetches -> where a fetch is]
    next,       \* [Fetches -> the artifact of its batch it is at]
    told        \* the answers: content and id of a row, and whether it was reused

storeVars == <<evidence, lineage, place, next, told>>

EvidenceInit ==
    /\ evidence = <<>>
    /\ lineage = <<>>
    /\ place = [f \in Fetches |-> "idle"]
    /\ next = [f \in Fetches |-> 1]
    /\ told = {}

Artifact(f) == Batch[f][next[f]]
Stored(content) == {i \in DOMAIN evidence : evidence[i].content = content}

\* The answer for one artifact leads to the next of the batch.
Answered(f, id, reused) ==
    /\ told' = told \cup {[content |-> Artifact(f).content, id |-> id, reused |-> reused]}
    /\ IF next[f] = Len(Batch[f])
         THEN place' = [place EXCEPT ![f] = "idle"] /\ next' = [next EXCEPT ![f] = 1]
         ELSE place' = [place EXCEPT ![f] = "look"] /\ next' = [next EXCEPT ![f] = @ + 1]

\* An exception ends the whole request; earlier artifacts of its batch stay.
RequestFails(f) ==
    /\ place' = [place EXCEPT ![f] = "idle"]
    /\ next' = [next EXCEPT ![f] = 1]

Fetch(f) ==
    /\ place[f] = "idle"
    /\ place' = [place EXCEPT ![f] = "look"]
    /\ UNCHANGED <<evidence, lineage, next, told>>

\* get_by_source_content; one_or_none raises for two rows.
Look(f) ==
    LET found == Stored(Artifact(f).content)
    IN /\ place[f] = "look"
       /\ IF found = {} THEN place' = [place EXCEPT ![f] = "insert"] /\ UNCHANGED <<next, told>>
          ELSE IF \E i \in found : found = {i} THEN \E i \in found : Answered(f, i, TRUE)
          ELSE RequestFails(f) /\ UNCHANGED told
       /\ UNCHANGED <<evidence, lineage>>

\* Mutated form of Refuses: the migration declares no unique constraint.
RefusesNever(f) == FALSE

\* The unique indexes of both tables: an insert is refused once a row of its
\* content is committed, and waits for another transaction's insert of it.
Refuses(f) == Stored(Artifact(f).content) # {} \/ Artifact(f).content \in ToSet(lineage)
Waits(f) == \E g \in Fetches \ {f} : place[g] = "commit" /\ Artifact(g).content = Artifact(f).content

\* The flushes of both rows.
Insert(f) ==
    /\ place[f] = "insert"
    /\ Refuses(f) \/ ~Waits(f)
    /\ IF Refuses(f) THEN RequestFails(f)
       ELSE place' = [place EXCEPT ![f] = "commit"] /\ UNCHANGED next
    /\ UNCHANGED <<evidence, lineage, told>>

\* Both rows are written or neither.
Committed(f) ==
    /\ evidence' = Append(evidence, Artifact(f))
    /\ lineage' = Append(lineage, Artifact(f).content)

CommitIngest(f) ==
    /\ place[f] = "commit"
    /\ Committed(f)
    /\ Answered(f, Len(evidence'), FALSE)

CommitAckLost(f) ==
    /\ place[f] = "commit"
    /\ Committed(f)
    /\ RequestFails(f)
    /\ UNCHANGED told

\* A lost connection or a cancelled request rolls back.
Break(f) ==
    /\ place[f] # "idle"
    /\ RequestFails(f)
    /\ UNCHANGED <<evidence, lineage, told>>

Ingest(f) ==
    Fetch(f) \/ Look(f) \/ Insert(f) \/ CommitIngest(f) \/ CommitAckLost(f) \/ Break(f)

-----------------------------------------------------------------------------

\* Whatever the races, retries and lost answers: a content is stored in one row
\* with one lineage row, and an answer names the row of its content for good.
EvidenceIsStoredOnce ==
    /\ IsInjective([i \in DOMAIN evidence |-> evidence[i].content])
    /\ lineage = [i \in DOMAIN evidence |-> evidence[i].content]
    /\ \A t \in told : t.id \in DOMAIN evidence /\ evidence[t.id].content = t.content

=============================================================================
