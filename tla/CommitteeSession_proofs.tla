----------------------- MODULE CommitteeSession_proofs -----------------------
(***************************************************************************)
(* EvidenceIsStoredOnce for every set of concurrent requests and batches,  *)
(* and OpinionsRestOnTheContext for every set of roles and whatever models *)
(* answer.                                                                 *)
(***************************************************************************)
EXTENDS CommitteeSession, TLAPS

USE BatchAssumption

-----------------------------------------------------------------------------
(* The store.                                                              *)

ContentOf(i) == evidence[i].content

\* What EvidenceIsStoredOnce rests on: an insert that is to be committed found
\* no row of its content, nor another insert of it (the unique indexes).
StoreInv ==
    /\ evidence \in Seq(Artifacts)
    /\ lineage = [i \in DOMAIN evidence |-> ContentOf(i)]
    /\ place \in [Fetches -> {"idle", "look", "insert", "commit"}]
    /\ next \in [Fetches -> Nat \ {0}]
    /\ \A f \in Fetches : next[f] \in DOMAIN Batch[f]
    /\ \A i, j \in DOMAIN evidence : ContentOf(i) = ContentOf(j) => i = j
    /\ \A t \in told : t.id \in DOMAIN evidence /\ ContentOf(t.id) = t.content
    /\ \A f \in Fetches : place[f] = "commit" => Stored(Artifact(f).content) = {}
    /\ \A f, g \in Fetches :
        place[f] = "commit" /\ place[g] = "commit"
          /\ Artifact(f).content = Artifact(g).content => f = g

\* A batch is a sequence of artifacts, never empty.
LEMMA BatchTyped ==
    ASSUME NEW f \in Fetches
    PROVE  /\ Batch[f] \in Seq(Artifacts)
           /\ Len(Batch[f]) \in Nat \ {0}
           /\ DOMAIN Batch[f] = 1 .. Len(Batch[f])
           /\ \A n \in DOMAIN Batch[f] : Batch[f][n] \in Artifacts
<1>1. Batch[f] \in Seq(Artifacts) /\ Batch[f] # <<>>
  OBVIOUS
<1> QED BY <1>1

\* Where a request goes after an answer or a failure.
LEMMA Moves ==
    ASSUME StoreInv, NEW f \in Fetches,
           RequestFails(f) \/ \E id, reused : Answered(f, id, reused)
    PROVE  /\ place' \in [Fetches -> {"idle", "look", "insert", "commit"}]
           /\ next' \in [Fetches -> Nat \ {0}]
           /\ \A g \in Fetches : next'[g] \in DOMAIN Batch[g]
           /\ place'[f] # "commit"
           /\ \A g \in Fetches \ {f} : place'[g] = place[g] /\ next'[g] = next[g]
<1> USE DEF StoreInv
<1>1. \A g \in Fetches : Len(Batch[g]) \in Nat \ {0} /\ DOMAIN Batch[g] = 1 .. Len(Batch[g])
  BY BatchTyped
<1>2. CASE RequestFails(f)
  BY <1>1, <1>2 DEF RequestFails
<1>3. CASE \E id, reused : Answered(f, id, reused)
  <2>1. next[f] \in 1 .. Len(Batch[f]) /\ Len(Batch[f]) \in Nat \ {0}
    BY <1>1
  <2>2. CASE next[f] = Len(Batch[f])
    <3>1. place' = [place EXCEPT ![f] = "idle"] /\ next' = [next EXCEPT ![f] = 1]
      BY <1>3, <2>2 DEF Answered
    <3> QED BY <1>1, <3>1
  <2>3. CASE next[f] # Len(Batch[f])
    <3>1. /\ place' = [place EXCEPT ![f] = "look"]
          /\ next' = [next EXCEPT ![f] = @ + 1]
      BY <1>3, <2>3 DEF Answered
    <3>2. next[f] + 1 \in 1 .. Len(Batch[f])
      BY <2>1, <2>3
    <3> QED BY <1>1, <3>1, <3>2
  <2> QED BY <2>2, <2>3
<1> QED BY <1>2, <1>3

\* A step that leaves the rows alone and makes no request ready to commit
\* preserves the invariant.
LEMMA RowsUntouched ==
    ASSUME StoreInv, evidence' = evidence, lineage' = lineage,
           place' \in [Fetches -> {"idle", "look", "insert", "commit"}],
           next' \in [Fetches -> Nat \ {0}],
           \A g \in Fetches : next'[g] \in DOMAIN Batch[g],
           \A g \in Fetches : place'[g] = "commit" => place[g] = "commit" /\ next'[g] = next[g],
           \A t \in told' : t.id \in DOMAIN evidence /\ evidence[t.id].content = t.content
    PROVE  StoreInv'
<1>1. /\ evidence' \in Seq(Artifacts)
      /\ lineage' = [i \in DOMAIN evidence' |-> evidence'[i].content]
      /\ \A i, j \in DOMAIN evidence' : evidence'[i].content = evidence'[j].content => i = j
  BY DEF StoreInv, ContentOf
<1>2. \A g \in Fetches : place'[g] = "commit" =>
        {i \in DOMAIN evidence' : evidence'[i].content = Batch[g][next'[g]].content} = {}
  BY DEF StoreInv, Stored, Artifact
<1>3. \A g, h \in Fetches :
        /\ place'[g] = "commit" /\ place'[h] = "commit"
        /\ Batch[g][next'[g]].content = Batch[h][next'[h]].content
        => g = h
  BY DEF StoreInv, Artifact
<1> QED BY <1>1, <1>2, <1>3 DEF StoreInv, ContentOf, Stored, Artifact

\* An answer that names a row of its content says so of that row.
LEMMA ToldStays ==
    ASSUME StoreInv, NEW f \in Fetches, NEW id \in Stored(Artifact(f).content), NEW reused,
           Answered(f, id, reused)
    PROVE  \A t \in told' : t.id \in DOMAIN evidence /\ evidence[t.id].content = t.content
<1>1. \A t \in told : t.id \in DOMAIN evidence /\ evidence[t.id].content = t.content
  BY DEF StoreInv, ContentOf
<1>2. id \in DOMAIN evidence /\ evidence[id].content = Artifact(f).content
  BY DEF Stored
<1>3. told' = told \cup {[content |-> Artifact(f).content, id |-> id, reused |-> reused]}
  BY DEF Answered
<1> QED BY <1>1, <1>2, <1>3

LEMMA StoreStep ==
    ASSUME StoreInv, NEW f \in Fetches, Ingest(f)
    PROVE  StoreInv'
<1>0. \A t \in told : t.id \in DOMAIN evidence /\ evidence[t.id].content = t.content
  BY DEF StoreInv, ContentOf
<1>1. CASE Fetch(f)
  <2>1. /\ place' = [place EXCEPT ![f] = "look"] /\ next' = next
        /\ evidence' = evidence /\ lineage' = lineage /\ told' = told
    BY <1>1 DEF Fetch
  <2>2. /\ place' \in [Fetches -> {"idle", "look", "insert", "commit"}]
        /\ \A g \in Fetches : place'[g] = "commit" => place[g] = "commit"
    BY <2>1 DEF StoreInv
  <2>3. next \in [Fetches -> Nat \ {0}] /\ \A g \in Fetches : next[g] \in DOMAIN Batch[g]
    BY DEF StoreInv
  <2> QED BY <1>0, <2>1, <2>2, <2>3, RowsUntouched
<1>2. ASSUME evidence' = evidence, lineage' = lineage, RequestFails(f), told' = told
      PROVE  StoreInv'
  BY <1>0, <1>2, Moves, RowsUntouched
<1>3. ASSUME Look(f)
      PROVE  StoreInv'
  <2>1. CASE Stored(Artifact(f).content) = {}
    <3>1. /\ place' = [place EXCEPT ![f] = "insert"] /\ next' = next
          /\ evidence' = evidence /\ lineage' = lineage /\ told' = told
      BY <1>3, <2>1 DEF Look
    <3>2. /\ place' \in [Fetches -> {"idle", "look", "insert", "commit"}]
          /\ \A g \in Fetches : place'[g] = "commit" => place[g] = "commit"
      BY <3>1 DEF StoreInv
    <3>3. next \in [Fetches -> Nat \ {0}] /\ \A g \in Fetches : next[g] \in DOMAIN Batch[g]
      BY DEF StoreInv
    <3> QED BY <1>0, <3>1, <3>2, <3>3, RowsUntouched
  <2>2. CASE Stored(Artifact(f).content) # {}
    <3>1. evidence' = evidence /\ lineage' = lineage
      BY <1>3 DEF Look
    <3>2. CASE RequestFails(f) /\ told' = told
      BY <1>2, <3>1, <3>2
    <3>3. ASSUME NEW id \in Stored(Artifact(f).content), Answered(f, id, TRUE)
          PROVE  StoreInv'
      BY <3>1, <3>3, ToldStays, Moves, RowsUntouched
    <3> QED BY <1>3, <2>2, <3>2, <3>3 DEF Look
  <2> QED BY <2>1, <2>2
<1>3a. CASE Insert(f)
  <2>1. CASE Refuses(f)
    BY <1>2, <1>3a, <2>1 DEF Insert
  <2>2. CASE ~Refuses(f)
    <3>1. /\ place' = [place EXCEPT ![f] = "commit"]
          /\ UNCHANGED <<next, evidence, lineage, told>>
          /\ Stored(Artifact(f).content) = {} /\ ~Waits(f)
      BY <1>3a, <2>2 DEF Insert, Refuses
    <3>2. \A g \in Fetches \ {f} :
            place[g] = "commit" => Artifact(g).content # Artifact(f).content
      BY <3>1 DEF Waits
    <3> QED BY <3>1, <3>2 DEF StoreInv, ContentOf, Stored, Artifact
  <2> QED BY <2>1, <2>2
<1>4. ASSUME place[f] = "commit", Committed(f),
             \/ Answered(f, Len(evidence'), FALSE)
             \/ RequestFails(f) /\ UNCHANGED told
      PROVE  StoreInv'
  <2> DEFINE n == Len(evidence)
  <2>1. /\ Artifact(f) \in Artifacts /\ n \in Nat /\ DOMAIN evidence = 1 .. n
        /\ DOMAIN evidence' = 1 .. n + 1
        /\ evidence' \in Seq(Artifacts) /\ Len(evidence') = n + 1
        /\ evidence'[n + 1] = Artifact(f)
        /\ \A i \in 1 .. n : evidence'[i] = evidence[i]
    BY <1>4, BatchTyped DEF Committed, StoreInv, Artifact
  <2>2. \A i \in 1 .. n : evidence[i].content # Artifact(f).content
    BY <1>4, <2>1 DEF StoreInv, Stored
  <2>3. lineage' = [i \in DOMAIN evidence' |-> evidence'[i].content]
    <3>1. lineage' = Append(lineage, Artifact(f).content)
      BY <1>4 DEF Committed
    <3>2. lineage = [i \in 1 .. n |-> evidence[i].content]
      BY <2>1 DEF StoreInv, ContentOf
    <3> QED BY <3>1, <3>2, <2>1
  <2>4. /\ place' \in [Fetches -> {"idle", "look", "insert", "commit"}]
        /\ next' \in [Fetches -> Nat \ {0}]
        /\ \A g \in Fetches : next'[g] \in DOMAIN Batch[g]
        /\ place'[f] # "commit"
        /\ \A g \in Fetches \ {f} : place'[g] = place[g] /\ next'[g] = next[g]
    BY <1>4, Moves
  <2>5. \A i, j \in DOMAIN evidence' : evidence'[i].content = evidence'[j].content => i = j
    <3>1. \A i, j \in 1 .. n : evidence[i].content = evidence[j].content => i = j
      BY <2>1 DEF StoreInv, ContentOf
    <3> QED BY <2>1, <2>2, <3>1
  <2>6. \A t \in told' : t.id \in DOMAIN evidence' /\ evidence'[t.id].content = t.content
    <3>1. \A t \in told : t.id \in 1 .. n /\ evidence[t.id].content = t.content
      BY <2>1 DEF StoreInv, ContentOf
    <3>2. told' \subseteq told \cup
            {[content |-> Artifact(f).content, id |-> n + 1, reused |-> FALSE]}
      BY <1>4, <2>1 DEF Answered
    <3> QED BY <2>1, <3>1, <3>2
  <2>7. \A g \in Fetches : place'[g] = "commit" =>
            /\ g # f /\ place[g] = "commit" /\ next'[g] = next[g]
            /\ Artifact(g).content # Artifact(f).content
            /\ \A i \in 1 .. n : evidence[i].content # Artifact(g).content
    BY <1>4, <2>1, <2>4 DEF StoreInv, Stored
  <2>8. \A g \in Fetches : place'[g] = "commit" =>
            {i \in DOMAIN evidence' : evidence'[i].content = Batch[g][next'[g]].content} = {}
    BY <2>1, <2>7 DEF Artifact
  <2>9. \A g, h \in Fetches :
            /\ place'[g] = "commit" /\ place'[h] = "commit"
            /\ Batch[g][next'[g]].content = Batch[h][next'[h]].content
            => g = h
    BY <2>7 DEF StoreInv, Artifact
  <2> QED BY <2>1, <2>3, <2>4, <2>5, <2>6, <2>8, <2>9 DEF StoreInv, ContentOf, Stored, Artifact
<1>5. CASE CommitIngest(f)
  BY <1>4, <1>5 DEF CommitIngest
<1>6. CASE CommitAckLost(f)
  BY <1>4, <1>6 DEF CommitAckLost
<1>7. CASE Break(f)
  BY <1>2, <1>7 DEF Break
<1> QED BY <1>1, <1>3, <1>3a, <1>5, <1>6, <1>7 DEF Ingest

LEMMA StoreInvariant == Spec => []StoreInv
<1>1. Init => StoreInv
  BY BatchTyped DEF Init, EvidenceInit, StoreInv, ContentOf, Stored
<1>2. StoreInv /\ [Next]_vars => StoreInv'
  <2> SUFFICES ASSUME StoreInv, [Next]_vars PROVE StoreInv'
    OBVIOUS
  <2>1. CASE UNCHANGED storeVars
    BY <2>1 DEF storeVars, StoreInv, ContentOf, Stored, Artifact
  <2>2. CASE \E f \in Fetches : Ingest(f)
    BY <2>2, StoreStep
  <2> QED BY <2>1, <2>2 DEF Next, vars
<1> QED BY <1>1, <1>2, PTL DEF Spec

\* A content is stored in one row with one lineage row, and answers name it for
\* good, for any number of concurrent requests, retries and lost answers.
THEOREM StoredOnce == Spec => []EvidenceIsStoredOnce
<1>1. StoreInv => EvidenceIsStoredOnce
  BY DEF StoreInv, EvidenceIsStoredOnce, ContentOf, IsInjective
<1> QED BY <1>1, StoreInvariant, PTL

-----------------------------------------------------------------------------
(* The session.                                                            *)

Outcome == [opinion : Opinions, failed : BOOLEAN]
Agents == [at : {"idle", "calling", "done", "raised"}, repairs : 0..2,
           opinion : Opinions, failed : BOOLEAN]

\* A run that failed has no opinion of its own.
Honest(x) == x.failed => x.opinion = Insufficient

\* The results of a round whose roles are given.
RoundOf(r, roles) == r \in [roles -> Outcome] /\ \A a \in roles : Honest(r[a])

\* Committed rows stay: evidence is only appended to.
LEMMA EvidenceGrows ==
    ASSUME StoreInv, [Next]_vars
    PROVE  ToSet(evidence) \subseteq ToSet(evidence')
<1>1. CASE evidence' = evidence
  BY <1>1
<1>2. ASSUME NEW f \in Fetches, Committed(f)
      PROVE  ToSet(evidence) \subseteq ToSet(evidence')
  <2>1. evidence' = Append(evidence, Artifact(f)) /\ evidence \in Seq(Artifacts)
    BY <1>2 DEF Committed, StoreInv
  <2>2. \A i \in DOMAIN evidence : i \in DOMAIN evidence' /\ evidence'[i] = evidence[i]
    BY <2>1
  <2> QED BY <2>2 DEF ToSet
<1>3. ASSUME NEW f \in Fetches, Ingest(f)
      PROVE  evidence' = evidence \/ Committed(f)
  BY <1>3 DEF Ingest, Fetch, Look, Insert, CommitIngest, CommitAckLost, Break
<1> QED BY <1>1, <1>2, <1>3 DEF Next, vars, storeVars

\* Where a session is, the runs, and the results it has so far.
RunInv ==
    /\ run \in [Roles -> Agents]
    /\ \A a \in Roles : Honest(run[a])
    /\ \A a \in Roles :
        run[a].at = "calling" => a \in plan /\ phase \in {"one", "two", "failed"}
    /\ plan \subseteq Roles

PhaseInv ==
    /\ phase \in {"none", "one", "two", "persisting", "completed", "failed"}
    /\ phase = "none" => rounds = <<>>
    /\ phase = "one" => rounds = <<>> /\ plan = RoundOneRoles
    /\ phase = "two" =>
        \E one : /\ rounds = <<one>> /\ RoundOf(one, RoundOneRoles)
                /\ plan = PlanRoundTwo(one)
    /\ phase = "persisting" =>
        \E one, two : /\ rounds = <<one, two>> /\ RoundOf(one, RoundOneRoles)
                     /\ RoundOf(two, PlanRoundTwo(one))
    /\ (sessions # {}) = (phase = "completed")

RoundsTyped ==
    \A r \in ToSet(rounds) : DOMAIN r \subseteq Roles /\ r \in [DOMAIN r -> Outcome]

RestInv ==
    /\ context.asOf \in Times \cup {-1}
    /\ RowsVisible(context)
    /\ OpinionsRestOnTheContext

SessionInv == RunInv /\ PhaseInv /\ RoundsTyped /\ RestInv

LEMMA InsufficientTyped == Insufficient \in Opinions /\ NoRun \in Agents /\ Honest(NoRun)
  BY DEF Opinions, NoRun, Agents, Honest

\* The roles of the second round are roles.
LEMMA PlanTyped ==
    ASSUME NEW one, DOMAIN one = RoundOneRoles
    PROVE  PlanRoundTwo(one) \subseteq Roles
  BY DEF PlanRoundTwo, Conflicting, Roles

\* Starting the roles of a plan.
LEMMA StartedTyped ==
    ASSUME RunInv, NEW roles \in SUBSET Roles, run' = Started(roles), plan' = roles,
           phase' \in {"one", "two"}, \A a \in Roles : run[a].at # "calling"
    PROVE  RunInv'
<1>1. [NoRun EXCEPT !.at = "calling"] \in Agents /\ Honest([NoRun EXCEPT !.at = "calling"])
  BY InsufficientTyped DEF NoRun, Agents, Honest
<1>2. \A a \in Roles : run'[a] \in Agents /\ Honest(run'[a])
                       /\ (run'[a].at = "calling" => a \in roles)
  BY <1>1 DEF Started, RunInv
<1>3. run' \in [Roles -> Agents]
  BY <1>2 DEF Started
<1> QED BY <1>2, <1>3 DEF RunInv

\* A run that ends, or tries again, stays well typed and honest.
LEMMA AgentStep ==
    ASSUME RunInv, NEW a \in Roles, Agent(a)
    PROVE  /\ RunInv'
           /\ phase' = phase \/ phase' = "failed"
           /\ UNCHANGED <<context, plan, rounds, sessions>>
           /\ phase \in {"one", "two", "failed"}
<1>1. run \in [Roles -> Agents] /\ run[a].at = "calling" /\ a \in plan
      /\ phase \in {"one", "two", "failed"}
  BY DEF Agent, Answer, GatewayFails, Raises, RunInv
<1>2. ASSUME NEW x \in Agents, Honest(x), run' = [run EXCEPT ![a] = x],
             plan' = plan, phase' = phase \/ phase' = "failed"
      PROVE  RunInv'
  BY <1>1, <1>2 DEF RunInv
<1>3. ASSUME NEW o \in Opinions, NEW f \in BOOLEAN, f => o = Insufficient,
             Finish(a, o, f), plan' = plan, phase' = phase
      PROVE  RunInv'
  <2> DEFINE x == [at |-> "done", repairs |-> 0, opinion |-> o, failed |-> f]
  <2>1. x \in Agents /\ Honest(x)
    BY <1>3 DEF Agents, Honest
  <2>2. run' = [run EXCEPT ![a] = x]
    BY <1>3 DEF Finish
  <2> QED BY <1>2, <1>3, <2>1, <2>2
<1>5. CASE Answer(a)
  <2>1. PICK o \in Outputs :
            IF IsOpinion(o) /\ ContextAllows(o) THEN Finish(a, o, FALSE)
            ELSE IF Exhausted(a) THEN Finish(a, Insufficient, TRUE)
            ELSE run' = [run EXCEPT ![a].repairs = @ + 1]
    BY <1>5 DEF Answer
  <2>2. UNCHANGED <<phase, context, plan, rounds, sessions>>
    BY <1>5 DEF Answer
  <2>3. CASE IsOpinion(o) /\ Finish(a, o, FALSE)
    <3>1. o \in Opinions
      BY <2>3 DEF Opinions
    <3> QED BY <1>1, <1>3, <2>2, <2>3, <3>1
  <2>4. CASE Finish(a, Insufficient, TRUE)
    BY <1>1, <1>3, <2>2, <2>4, InsufficientTyped
  <2>5. CASE ~Exhausted(a) /\ run' = [run EXCEPT ![a].repairs = @ + 1]
    <3> DEFINE x == [run[a] EXCEPT !.repairs = @ + 1]
    <3>1. run[a] \in Agents /\ run[a].repairs \in 0..1 /\ Honest(run[a])
      BY <1>1, <2>5 DEF Exhausted, Agents, RunInv
    <3>2. x \in Agents /\ x.opinion = run[a].opinion /\ x.failed = run[a].failed
      BY <3>1 DEF Agents
    <3>3. Honest(x)
      BY <3>1, <3>2 DEF Honest
    <3>4. run' = [run EXCEPT ![a] = x]
      BY <2>5
    <3> QED BY <1>1, <1>2, <2>2, <3>2, <3>3, <3>4
  <2> QED BY <2>1, <2>3, <2>4, <2>5
<1>6. CASE GatewayFails(a)
  BY <1>1, <1>3, <1>6, InsufficientTyped DEF GatewayFails
<1>7. CASE Raises(a)
  <2>1. [NoRun EXCEPT !.at = "raised"] \in Agents /\ Honest([NoRun EXCEPT !.at = "raised"])
    BY InsufficientTyped DEF NoRun, Agents, Honest
  <2> QED BY <1>1, <1>2, <1>7, <2>1 DEF Raises
<1> QED BY <1>5, <1>6, <1>7 DEF Agent

\* The records of two rounds.
TwoRounds(one, two) ==
    /\ RoundOf(one, RoundOneRoles)
    /\ RoundOf(two, PlanRoundTwo(one))

LEMMA RecordFields ==
    ASSUME NEW one, NEW two, TwoRounds(one, two)
    PROVE  LET rs == <<one, two>>
           IN /\ Ids(rs) = ({1} \X RoundOneRoles) \cup ({2} \X PlanRoundTwo(one))
              /\ \A a \in RoundOneRoles : ResultOf(rs, <<1, a>>) = one[a]
              /\ \A a \in PlanRoundTwo(one) : ResultOf(rs, <<2, a>>) = two[a]
<1> DEFINE rs == <<one, two>>
<1>1. DOMAIN rs = {1, 2} /\ rs[1] = one /\ rs[2] = two
  OBVIOUS
<1>2. DOMAIN one = RoundOneRoles /\ DOMAIN two = PlanRoundTwo(one)
  BY DEF TwoRounds, RoundOf
<1> HIDE DEF rs
<1>3. Ids(rs) = UNION {{n} \X DOMAIN rs[n] : n \in {1, 2}}
  BY <1>1 DEF Ids
<1>4. UNION {{n} \X DOMAIN rs[n] : n \in {1, 2}}
        = ({1} \X RoundOneRoles) \cup ({2} \X PlanRoundTwo(one))
  BY <1>1, <1>2
<1>5. /\ \A a \in RoundOneRoles : ResultOf(rs, <<1, a>>) = one[a]
      /\ \A a \in PlanRoundTwo(one) : ResultOf(rs, <<2, a>>) = two[a]
  BY <1>1 DEF ResultOf
<1> QED BY <1>3, <1>4, <1>5 DEF rs

\* What require_context_evidence lets pass is supported by the context.
LEMMA AllowedIsSupported ==
    ASSUME NEW o, ContextAllows(o)
    PROVE  Supported(o, context)
<1> DEFINE cited == {e \in context.rows : e.content \in o.cited}
<1>1. o.cited = {e.content : e \in cited}
  BY DEF ContextAllows
<1>2. o.confidence > 70 => \E d, e \in cited : d.tier = "PRIMARY" \/ d.source # e.source
  BY DEF ContextAllows
<1> QED BY <1>1, <1>2 DEF Supported

\* Both poles in a round put the roles that took one on record.
LEMMA PolesConflict ==
    ASSUME NEW one, DOMAIN one = RoundOneRoles,
           NEW a \in RoundOneRoles, NEW b \in RoundOneRoles,
           one[a].opinion.stance = "POSITIVE", one[b].opinion.stance = "NEGATIVE"
    PROVE  /\ Conflicting(one) # {}
           /\ Conflicting(one) =
                {c \in RoundOneRoles : one[c].opinion.stance \in {"POSITIVE", "NEGATIVE"}}
<1> DEFINE polar == {c \in RoundOneRoles : one[c].opinion.stance \in {"POSITIVE", "NEGATIVE"}}
<1>1. {one[c].opinion.stance : c \in polar} = {"POSITIVE", "NEGATIVE"}
  <2>1. a \in polar /\ b \in polar
    OBVIOUS
  <2>2. {one[c].opinion.stance : c \in polar} \subseteq {"POSITIVE", "NEGATIVE"}
    OBVIOUS
  <2>3. "POSITIVE" \in {one[c].opinion.stance : c \in polar}
        /\ "NEGATIVE" \in {one[c].opinion.stance : c \in polar}
    BY <2>1
  <2> HIDE DEF polar
  <2> QED BY <2>2, <2>3
<1>2. Conflicting(one) = polar
  BY <1>1 DEF Conflicting
<1>3. a \in polar
  OBVIOUS
<1> QED BY <1>2, <1>3

\* Who is heard in a round of a record.
LEMMA MessagesOfARound ==
    ASSUME NEW rs, NEW s, s.messages = CommitteeMessages(rs), NEW roles, NEW n,
           \A a \in roles : <<n, a>> \in Ids(rs),
           \A id \in Ids(rs) : id[1] = n => id[2] \in roles
    PROVE  Heard(s, n) = roles
<1>1. ASSUME NEW a \in Heard(s, n) PROVE a \in roles
  <2>1. PICK m \in CommitteeMessages(rs) : m.round = n /\ m.role = a
    BY <1>1 DEF Heard
  <2>2. PICK id \in Ids(rs) : m.round = id[1] /\ m.role = id[2]
    BY <2>1 DEF CommitteeMessages
  <2> QED BY <2>1, <2>2
<1>2. ASSUME NEW a \in roles PROVE a \in Heard(s, n)
  <2> DEFINE id == <<n, a>>
             m == [round |-> id[1], role |-> id[2], opinion |-> id,
                   type |-> IF id[1] = 1 THEN "INDEPENDENT_OPINION" ELSE "TARGETED_REBUTTAL"]
  <2>1. m.round = n /\ m.role = a /\ id \in Ids(rs)
    BY <1>2
  <2> HIDE DEF id
  <2>2. m \in CommitteeMessages(rs)
    BY <2>1 DEF CommitteeMessages
  <2> HIDE DEF m
  <2> QED BY <2>1, <2>2 DEF Heard
<1> QED BY <1>1, <1>2

\* What is disputed in a record: the conflict of its first round.
LEMMA DisputeOfTheRecord ==
    ASSUME NEW rs, NEW s, s.conflicts = Conflicts(rs)
    PROVE  Disputed(s) = {1} \X Conflicting(rs[1])
<1> DEFINE C == Conflicting(rs[1])
<1>1. s.conflicts = {[opinions |-> {1} \X roles, resolution |-> "none"] : roles \in {C} \ {{}}}
  BY DEF Conflicts
<1> HIDE DEF C
<1>2. CASE C = {}
  <2>1. s.conflicts = {}
    BY <1>1, <1>2
  <2> QED BY <1>2, <2>1 DEF C, Disputed
<1>3. CASE C # {}
  <2>1. s.conflicts = {[opinions |-> {1} \X C, resolution |-> "none"]}
    BY <1>1, <1>3
  <2>2. Disputed(s) = {1} \X C
    BY <2>1 DEF Disputed
  <2> QED BY <2>2 DEF C
<1> QED BY <1>2, <1>3

\* The record of two rounds follows the protocol.
LEMMA RecordOfTheProtocol ==
    ASSUME NEW one, NEW two, TwoRounds(one, two)
    PROVE  HeardAsPlanned(SessionRecord(<<one, two>>))
<1> DEFINE rs == <<one, two>>
           s == SessionRecord(rs)
<1>1. /\ s.messages = CommitteeMessages(rs)
      /\ s.opinions = AgentOpinions(rs)
      /\ s.conflicts = Conflicts(rs)
  BY DEF SessionRecord
<1>2. /\ Ids(rs) = ({1} \X RoundOneRoles) \cup ({2} \X PlanRoundTwo(one))
      /\ \A a \in RoundOneRoles : ResultOf(rs, <<1, a>>) = one[a]
      /\ rs[1] = one /\ DOMAIN one = RoundOneRoles
  BY RecordFields DEF TwoRounds, RoundOf
<1> HIDE DEF rs, s
<1>3. Heard(s, 1) = RoundOneRoles /\ Heard(s, 2) = PlanRoundTwo(one)
  <2>1. /\ \A a \in RoundOneRoles : <<1, a>> \in Ids(rs)
        /\ \A a \in PlanRoundTwo(one) : <<2, a>> \in Ids(rs)
    BY <1>2
  <2>2. /\ \A id \in Ids(rs) : id[1] = 1 => id[2] \in RoundOneRoles
        /\ \A id \in Ids(rs) : id[1] = 2 => id[2] \in PlanRoundTwo(one)
    BY <1>2
  <2> QED BY <1>1, <2>1, <2>2, MessagesOfARound
<1>4. Disputed(s) = {1} \X Conflicting(one)
  BY <1>1, <1>2, DisputeOfTheRecord
<1>5. {Devil} \cup {id[2] : id \in Disputed(s)} = PlanRoundTwo(one)
  <2> DEFINE Second == {id[2] : id \in {1} \X Conflicting(one)}
  <2>1. \A a \in Conflicting(one) : <<1, a>> \in {1} \X Conflicting(one) /\ <<1, a>>[2] = a
    OBVIOUS
  <2>2. ASSUME NEW a \in Second PROVE a \in Conflicting(one)
    BY <2>2
  <2>3. ASSUME NEW a \in Conflicting(one) PROVE a \in Second
    BY <2>1
  <2>4. Second = Conflicting(one)
    BY <2>2, <2>3
  <2> QED BY <1>4, <2>4 DEF PlanRoundTwo
<1>6. \A a \in RoundOneRoles : s.opinions[<<1, a>>] = one[a].opinion
  BY <1>1, <1>2 DEF AgentOpinions
<1>7. ASSUME NEW a \in RoundOneRoles, NEW b \in RoundOneRoles,
             s.opinions[<<1, a>>].stance = "POSITIVE", s.opinions[<<1, b>>].stance = "NEGATIVE"
      PROVE  Disputed(s) = {1} \X {c \in RoundOneRoles :
                                  s.opinions[<<1, c>>].stance \in {"POSITIVE", "NEGATIVE"}}
  <2>1. Conflicting(one) =
            {c \in RoundOneRoles : one[c].opinion.stance \in {"POSITIVE", "NEGATIVE"}}
    BY <1>2, <1>6, <1>7, PolesConflict
  <2>2. Conflicting(one) =
            {c \in RoundOneRoles : s.opinions[<<1, c>>].stance \in {"POSITIVE", "NEGATIVE"}}
    BY <1>6, <2>1
  <2> QED BY <1>4, <2>2
<1>8. HeardAsPlanned(s)
  BY <1>3, <1>5, <1>7 DEF HeardAsPlanned
<1> QED BY <1>8 DEF s, rs

\* A record that require_context_evidence let pass is sound.
LEMMA RecordIsSound ==
    ASSUME NEW one, NEW two, TwoRounds(one, two), RowsVisible(context),
           \A id \in Ids(<<one, two>>) : ContextAllows(ResultOf(<<one, two>>, id).opinion)
    PROVE  RestsOnItsContext(SessionRecord(<<one, two>>))
<1> DEFINE rs == <<one, two>>
           s == SessionRecord(rs)
<1>1. /\ s.context = context
      /\ s.messages = CommitteeMessages(rs)
      /\ s.runs = AgentRuns(rs)
      /\ \A id \in Ids(rs) : s.opinions[id] = ResultOf(rs, id).opinion
  BY DEF SessionRecord, AgentOpinions
<1>2. \A id \in Ids(rs) : Honest(ResultOf(rs, id))
  BY RecordFields DEF TwoRounds, RoundOf
<1>3. HeardAsPlanned(s)
  BY RecordOfTheProtocol
<1> HIDE DEF rs, s
<1>4. ASSUME NEW m \in s.messages PROVE Supported(s.opinions[m.opinion], s.context)
  <2>1. m.opinion \in Ids(rs)
    BY <1>1 DEF CommitteeMessages
  <2> QED BY <1>1, <2>1, AllowedIsSupported DEF rs
<1>5. ASSUME NEW r \in s.runs, s.opinions[r.opinion].cited # {} PROVE r.status = "SUCCEEDED"
  <2>1. PICK id \in Ids(rs) :
            /\ r.opinion = id
            /\ r.status = IF ResultOf(rs, id).failed THEN "INSUFFICIENT_DATA" ELSE "SUCCEEDED"
    BY <1>1 DEF AgentRuns
  <2>2. ResultOf(rs, id).opinion # Insufficient
    BY <1>1, <1>5, <2>1 DEF Insufficient
  <2>3. ~ResultOf(rs, id).failed
    BY <1>2, <2>2 DEF Honest
  <2> QED BY <2>1, <2>3
<1>6. RestsOnItsContext(s)
  BY <1>1, <1>3, <1>4, <1>5 DEF RestsOnItsContext
<1> QED BY <1>6 DEF s, rs

\* Rows that are visible stay visible, and so records stay sound.
LEMMA RestStays ==
    ASSUME StoreInv, RestInv, [Next]_vars, context' = context, sessions' = sessions
    PROVE  RestInv'
<1>1. ToSet(evidence) \subseteq ToSet(evidence')
  BY EvidenceGrows
<1>2. \A c : RowsVisible(c) => RowsVisible(c)'
  BY <1>1 DEF RowsVisible
<1>3. \A s \in sessions : RestsOnItsContext(s)'
  BY <1>2 DEF RestInv, OpinionsRestOnTheContext, RestsOnItsContext, Supported, HeardAsPlanned,
              Heard, Disputed
<1> QED BY <1>2, <1>3 DEF RestInv, OpinionsRestOnTheContext

\* The results of a round that is done.
LEMMA ResultsOfTheRound ==
    ASSUME RunInv, RoundDone
    PROVE  RoundOf(Results, plan)
<1>1. \A a \in plan : run[a] \in Agents /\ Honest(run[a])
  BY DEF RunInv
<1>2. \A a \in plan : [opinion |-> run[a].opinion, failed |-> run[a].failed] \in Outcome
                       /\ Honest([opinion |-> run[a].opinion, failed |-> run[a].failed])
  BY <1>1 DEF Agents, Outcome, Honest
<1>3. Results \in [plan -> Outcome]
  BY <1>2 DEF Results
<1>4. \A a \in plan : Honest(Results[a])
  BY <1>2 DEF Results
<1> QED BY <1>3, <1>4 DEF RoundOf

\* Every step preserves the session's invariant.
LEMMA SessionStep ==
    ASSUME StoreInv, SessionInv, [Next]_vars
    PROVE  SessionInv'
<1> USE DEF SessionInv
<1>1. CASE UNCHANGED sessionVars
  <2>1. RunInv' /\ PhaseInv' /\ RoundsTyped'
    BY <1>1 DEF sessionVars, RunInv, PhaseInv, RoundsTyped
  <2>2. RestInv'
    BY <1>1, RestStays DEF sessionVars
  <2> QED BY <2>1, <2>2
<1>2. CASE Freeze /\ UNCHANGED storeVars
  <2>1. RunInv'
    BY <1>2, StartedTyped DEF Freeze, RunInv, Roles
  <2>2. PhaseInv' /\ RoundsTyped'
    BY <1>2 DEF Freeze, PhaseInv, RoundsTyped
  <2>3. RestInv'
    <3>1. PICK t \in Times : context' = Frozen(t)
      BY <1>2 DEF Freeze
    <3>2. RowsVisible(context)'
      BY <1>2, <3>1 DEF Frozen, RowsVisible, storeVars
    <3>3. sessions' = {}
      BY <1>2 DEF Freeze, PhaseInv
    <3> QED BY <3>1, <3>2, <3>3 DEF RestInv, OpinionsRestOnTheContext, Frozen
  <2> QED BY <2>1, <2>2, <2>3
<1>3. CASE EndRoundOne /\ UNCHANGED storeVars
  <2>1. RoundOf(Results, RoundOneRoles) /\ DOMAIN Results = RoundOneRoles
    BY <1>3, ResultsOfTheRound DEF EndRoundOne, PhaseInv, RoundOf
  <2>2. RunInv'
    <3>1. \A a \in Roles : run[a].at # "calling"
      BY <1>3 DEF EndRoundOne, RoundDone, RunInv
    <3>2. PlanRoundTwo(Results) \subseteq Roles
      BY <2>1, PlanTyped
    <3> QED BY <1>3, <3>1, <3>2, StartedTyped DEF EndRoundOne
  <2>3. PhaseInv'
    BY <1>3, <2>1 DEF EndRoundOne, PhaseInv
  <2>4. RoundsTyped'
    <3>1. rounds' = <<Results>> /\ ToSet(rounds') = {Results}
      BY <1>3 DEF EndRoundOne, ToSet
    <3> QED BY <2>1, <3>1 DEF RoundsTyped, RoundOf, Roles
  <2>5. RestInv'
    BY <1>3, RestStays DEF EndRoundOne
  <2> QED BY <2>2, <2>3, <2>4, <2>5
<1>4. CASE EndRoundTwo /\ UNCHANGED storeVars
  <2>1. PICK one : /\ rounds = <<one>> /\ RoundOf(one, RoundOneRoles)
                   /\ plan = PlanRoundTwo(one)
    BY <1>4 DEF EndRoundTwo, PhaseInv
  <2>2. RoundOf(Results, plan) /\ DOMAIN Results = plan
    BY <1>4, ResultsOfTheRound DEF EndRoundTwo, RoundOf
  <2>3. rounds' = <<one, Results>>
    BY <1>4, <2>1 DEF EndRoundTwo
  <2>4. RunInv'
    BY <1>4 DEF EndRoundTwo, RunInv, RoundDone
  <2>5. PhaseInv'
    BY <1>4, <2>1, <2>2, <2>3 DEF EndRoundTwo, PhaseInv
  <2>6. RoundsTyped'
    <3>1. ToSet(rounds') = {one, Results}
      BY <2>3 DEF ToSet
    <3>2. plan \subseteq Roles /\ DOMAIN one = RoundOneRoles
      BY <2>1 DEF RunInv, RoundOf
    <3> QED BY <2>1, <2>2, <3>1, <3>2 DEF RoundsTyped, RoundOf, Roles
  <2>7. RestInv'
    BY <1>4, RestStays DEF EndRoundTwo
  <2> QED BY <2>4, <2>5, <2>6, <2>7
<1>5. CASE Persist /\ UNCHANGED storeVars
  <2>1. RunInv' /\ PhaseInv' /\ RoundsTyped'
    BY <1>5 DEF Persist, RunInv, PhaseInv, RoundsTyped
  <2>2. CASE sessions' = sessions
    <3>1. context' = context
      BY <1>5 DEF Persist
    <3> QED BY <2>1, <2>2, <3>1, RestStays
  <2>3. CASE /\ \A id \in Ids(rounds) : ContextAllows(ResultOf(rounds, id).opinion)
             /\ sessions' = sessions \cup {SessionRecord(rounds)}
    <3>1. PICK one, two : rounds = <<one, two>> /\ TwoRounds(one, two)
      BY <1>5 DEF Persist, PhaseInv, TwoRounds
    <3>2. RestsOnItsContext(SessionRecord(rounds))
      BY <2>3, <3>1, RecordIsSound DEF RestInv
    <3>3. \A s \in sessions' : RestsOnItsContext(s)
      BY <2>3, <3>2 DEF RestInv, OpinionsRestOnTheContext
    <3>4. UNCHANGED <<evidence, context>>
      BY <1>5 DEF Persist, storeVars
    <3>5. \A s : RestsOnItsContext(s) => RestsOnItsContext(s)'
      BY <3>4 DEF RestsOnItsContext, RowsVisible, Supported, HeardAsPlanned, Heard, Disputed
    <3>6. RowsVisible(context)'
      BY <3>4 DEF RestInv, RowsVisible
    <3> QED BY <2>1, <3>3, <3>4, <3>5, <3>6 DEF RestInv, OpinionsRestOnTheContext
  <2> QED BY <1>5, <2>1, <2>2, <2>3 DEF Persist
<1>6. CASE PersistFails /\ UNCHANGED storeVars
  <2>1. RunInv' /\ PhaseInv' /\ RoundsTyped'
    BY <1>6 DEF PersistFails, RunInv, PhaseInv, RoundsTyped
  <2> QED BY <1>6, <2>1, RestStays DEF PersistFails
<1>7. CASE \E a \in Roles : Agent(a) /\ UNCHANGED storeVars
  <2>1. PICK a \in Roles : Agent(a)
    BY <1>7
  <2>2. /\ RunInv'
        /\ phase' = phase \/ phase' = "failed"
        /\ UNCHANGED <<context, plan, rounds, sessions>>
        /\ phase \in {"one", "two", "failed"}
    BY <2>1, AgentStep
  <2>3. PhaseInv' /\ RoundsTyped'
    BY <2>2 DEF PhaseInv, RoundsTyped
  <2> QED BY <2>2, <2>3, RestStays
<1> QED BY <1>1, <1>2, <1>3, <1>4, <1>5, <1>6, <1>7 DEF Next, Session, vars

LEMMA SessionInvariant == Spec => []SessionInv
<1>1. Init => SessionInv
  <2> SUFFICES ASSUME Init PROVE SessionInv
    OBVIOUS
  <2>1. RunInv
    BY InsufficientTyped DEF Init, SessionInit, RunInv, NoRun
  <2>2. PhaseInv /\ RestInv
    BY DEF Init, SessionInit, PhaseInv, RestInv, NoContext, RowsVisible, OpinionsRestOnTheContext
  <2>3. RoundsTyped
    BY DEF Init, SessionInit, RoundsTyped, ToSet
  <2> QED BY <2>1, <2>2, <2>3 DEF SessionInv
<1>2. StoreInv /\ SessionInv /\ [Next]_vars => SessionInv'
  BY SessionStep
<1> QED BY <1>1, <1>2, StoreInvariant, PTL DEF Spec

\* The variables keep their types, with at most two repairs per run and a
\* record exactly for the session that completed.
THEOREM CommitteeTypeCorrect == Spec => []TypeOK
<1>1. StoreInv /\ SessionInv => TypeOK
  <2> SUFFICES ASSUME StoreInv, SessionInv PROVE TypeOK
    OBVIOUS
  <2>1. ToSet(evidence) \subseteq Artifacts
    BY DEF StoreInv, ToSet
  <2>2. context.rows \subseteq Artifacts
    BY <2>1 DEF SessionInv, RestInv, RowsVisible
  <2> QED BY <2>2 DEF TypeOK, StoreInv, SessionInv, RunInv, PhaseInv, RoundsTyped, RestInv,
                      Agents, Outcome
<1> QED BY <1>1, StoreInvariant, SessionInvariant, PTL

\* Whatever models answer, in any number of roles and with evidence ingested
\* meanwhile, a committed session rests on its frozen context.
THEOREM SessionsRest == Spec => []OpinionsRestOnTheContext
<1>1. SessionInv => OpinionsRestOnTheContext
  BY DEF SessionInv, RestInv
<1> QED BY <1>1, SessionInvariant, PTL

=============================================================================
