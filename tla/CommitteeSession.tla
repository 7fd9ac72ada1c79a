-------------------------- MODULE CommitteeSession --------------------------
(***************************************************************************)
(* A research session (application/committee_runtime.py) over the evidence *)
(* that is being ingested meanwhile (EvidenceStore): the context is frozen *)
(* at a business time, two rounds of agents run concurrently, each with up *)
(* to two repairs, and the finished session is written in one transaction  *)
(* (infrastructure/agent_observability_writer.py).                         *)
(*                                                                         *)
(* What a model answers is data: any member of Outputs at any attempt.  A  *)
(* citation is the content it cites.  Confidence is in percent.            *)
(***************************************************************************)
EXTENDS EvidenceStore

CONSTANTS
    RoundOneRoles,  \* the specialists
    Devil,          \* DEVILS_ADVOCATE
    Outputs,        \* what a model may answer: records of stance, cited, confidence
    Times           \* bound: the business times a session may be frozen at

ASSUME DevilAssumption == Devil \notin RoundOneRoles

Roles == RoundOneRoles \cup {Devil}

VARIABLES
    phase,      \* of the session
    context,    \* the frozen AnalysisContext: its time and the rows visible in it
    plan,       \* the roles of the round that runs
    run,        \* [Roles -> the agent run of a role: where it is, repairs, outcome]
    rounds,     \* the results of the rounds that ended, [role -> outcome] each
    sessions    \* the committed committee sessions with their records

sessionVars == <<phase, context, plan, run, rounds, sessions>>
vars == <<storeVars, sessionVars>>

Insufficient == [stance |-> "INSUFFICIENT_DATA", cited |-> {}, confidence |-> 0]
NoRun == [at |-> "idle", repairs |-> 0, opinion |-> Insufficient, failed |-> FALSE]
NoContext == [asOf |-> -1, rows |-> {}]

SessionInit ==
    /\ phase = "none"
    /\ context = NoContext
    /\ plan = {}
    /\ run = [a \in Roles |-> NoRun]
    /\ rounds = <<>>
    /\ sessions = {}

Init == EvidenceInit /\ SessionInit

-----------------------------------------------------------------------------
(* Rules.                                                                  *)

\* freeze_analysis_context.
Frozen(asOf) ==
    [asOf |-> asOf, rows |-> {e \in ToSet(evidence) : e.available <= asOf}]

\* Mutated form of ContextAllows: citations are looked up among the rows stored
\* by now, not in the frozen context.
ContextAllowsStored(o) == o.cited \subseteq {e.content : e \in ToSet(evidence)}

\* require_context_evidence.
ContextAllows(o) ==
    LET cited == {e \in context.rows : e.content \in o.cited}
    IN /\ o.cited \subseteq {e.content : e \in context.rows}
       /\ o.confidence > 70 =>
            \/ \E e \in cited : e.tier = "PRIMARY"
            \/ \E d, e \in cited : d.source # e.source

\* parse_agent_opinion: an answer that is no payload at all has stance "none".
IsOpinion(o) ==
    /\ o.stance # "none"
    /\ IF o.stance = "INSUFFICIENT_DATA" THEN o.cited = {} /\ o.confidence = 0 ELSE o.cited # {}

\* detect_stance_conflicts: the roles of the polar opinions, if both poles occur.
Conflicting(result) ==
    LET polar == {a \in DOMAIN result : result[a].opinion.stance \in {"POSITIVE", "NEGATIVE"}}
    IN IF {result[a].opinion.stance : a \in polar} = {"POSITIVE", "NEGATIVE"} THEN polar ELSE {}

\* plan_round_two.
PlanRoundTwo(result) == Conflicting(result) \cup {Devil}

Started(roles) ==
    [a \in Roles |-> IF a \in roles THEN [NoRun EXCEPT !.at = "calling"] ELSE run[a]]

-----------------------------------------------------------------------------
(* AgentRuntime.run of role a.                                             *)

Finish(a, opinion, failed) ==
    run' = [run EXCEPT ![a] =
              [at |-> "done", repairs |-> 0, opinion |-> opinion, failed |-> failed]]

\* Mutated form of Exhausted: one repair more.
ExhaustedLate(a) == run[a].repairs = 3

\* The initial attempt and two repairs.
Exhausted(a) == run[a].repairs = 2

Answer(a) ==
    /\ run[a].at = "calling"
    /\ \E o \in Outputs :
        IF IsOpinion(o) /\ ContextAllows(o) THEN Finish(a, o, FALSE)
        ELSE IF Exhausted(a) THEN Finish(a, Insufficient, TRUE)
        ELSE run' = [run EXCEPT ![a].repairs = @ + 1]
    /\ UNCHANGED <<phase, context, plan, rounds, sessions>>

\* Mutated form of GatewayFails: the run starts over.
GatewayFailsAndRestarts(a) ==
    /\ run[a].at = "calling"
    /\ run' = [run EXCEPT ![a].repairs = 0]
    /\ UNCHANGED <<phase, context, plan, rounds, sessions>>

\* LLMGatewayFailure, a timeout or an answer beyond its limits.
GatewayFails(a) ==
    /\ run[a].at = "calling"
    /\ Finish(a, Insufficient, TRUE)
    /\ UNCHANGED <<phase, context, plan, rounds, sessions>>

\* Any other exception, as of a database that is away: asyncio.gather passes the
\* first one to the session, and the other runs go on.
Raises(a) ==
    /\ run[a].at = "calling"
    /\ run' = [run EXCEPT ![a] = [NoRun EXCEPT !.at = "raised"]]
    /\ phase' = "failed"
    /\ UNCHANGED <<context, plan, rounds, sessions>>

Agent(a) == Answer(a) \/ GatewayFails(a) \/ Raises(a)

-----------------------------------------------------------------------------
(* CommitteeRuntime.run_session and persist.                               *)

Freeze ==
    /\ phase = "none"
    /\ \E asOf \in Times : context' = Frozen(asOf)
    /\ phase' = "one"
    /\ plan' = RoundOneRoles
    /\ run' = Started(RoundOneRoles)
    /\ UNCHANGED <<rounds, sessions>>

RoundDone == \A a \in plan : run[a].at = "done"
Results == [a \in plan |-> [opinion |-> run[a].opinion, failed |-> run[a].failed]]

EndRoundOne ==
    /\ phase = "one" /\ RoundDone
    /\ rounds' = <<Results>>
    /\ phase' = "two"
    /\ plan' = PlanRoundTwo(Results)
    /\ run' = Started(PlanRoundTwo(Results))
    /\ UNCHANGED <<context, sessions>>

EndRoundTwo ==
    /\ phase = "two" /\ RoundDone
    /\ rounds' = <<rounds[1], Results>>
    /\ phase' = "persisting"
    /\ UNCHANGED <<context, plan, run, sessions>>

\* The records of a session with results rs.  An opinion's id is its round and
\* role.
Ids(rs) == UNION {{n} \X DOMAIN rs[n] : n \in DOMAIN rs}
ResultOf(rs, id) == rs[id[1]][id[2]]

AgentRuns(rs) ==
    {[role |-> id[2], opinion |-> id,
      status |-> IF ResultOf(rs, id).failed THEN "INSUFFICIENT_DATA" ELSE "SUCCEEDED"] :
        id \in Ids(rs)}

AgentOpinions(rs) == [id \in Ids(rs) |-> ResultOf(rs, id).opinion]

CommitteeMessages(rs) ==
    {[round |-> id[1], role |-> id[2], opinion |-> id,
      type |-> IF id[1] = 1 THEN "INDEPENDENT_OPINION" ELSE "TARGETED_REBUTTAL"] : id \in Ids(rs)}

\* A conflict of the first round stays unresolved whatever the second says.
Conflicts(rs) ==
    {[opinions |-> {1} \X roles, resolution |-> "none"] : roles \in {Conflicting(rs[1])} \ {{}}}

SessionRecord(rs) ==
    [context |-> context, runs |-> AgentRuns(rs), opinions |-> AgentOpinions(rs),
     messages |-> CommitteeMessages(rs), conflicts |-> Conflicts(rs)]

\* The opinions are checked against the context once more, then every record is
\* written in one transaction.
Persist ==
    /\ phase = "persisting"
    /\ IF \A id \in Ids(rounds) : ContextAllows(ResultOf(rounds, id).opinion)
         THEN sessions' = sessions \cup {SessionRecord(rounds)} /\ phase' = "completed"
         ELSE phase' = "failed" /\ UNCHANGED sessions
    /\ UNCHANGED <<context, plan, run, rounds>>

PersistFails ==
    /\ phase = "persisting"
    /\ phase' = "failed"
    /\ UNCHANGED <<context, plan, run, rounds, sessions>>

Session == EndRoundOne \/ EndRoundTwo \/ Persist \/ PersistFails

Next ==
    \/ \E f \in Fetches : Ingest(f) /\ UNCHANGED sessionVars
    \/ (Freeze \/ Session \/ \E a \in Roles : Agent(a)) /\ UNCHANGED storeVars

\* Every call of a model ends by its timeout, and the event loop runs what is
\* ready.  Nothing makes anyone ingest or start a session.
Fairness ==
    /\ WF_vars(Session /\ UNCHANGED storeVars)
    /\ \A a \in Roles : WF_vars(Agent(a) /\ UNCHANGED storeVars)

Spec == Init /\ [][Next]_vars /\ Fairness

-----------------------------------------------------------------------------
(* Properties.                                                             *)

Opinions == {o \in Outputs : IsOpinion(o)} \cup {Insufficient}

TypeOK ==
    /\ evidence \in Seq(Artifacts)
    /\ place \in [Fetches -> {"idle", "look", "insert", "commit"}]
    /\ \A f \in Fetches : next[f] \in DOMAIN Batch[f]
    /\ phase \in {"none", "one", "two", "persisting", "completed", "failed"}
    /\ context.rows \subseteq Artifacts /\ context.asOf \in Times \cup {-1}
    /\ plan \subseteq Roles
    /\ run \in [Roles -> [at : {"idle", "calling", "done", "raised"}, repairs : 0..2,
                          opinion : Opinions, failed : BOOLEAN]]
    /\ \A r \in ToSet(rounds) :
        /\ DOMAIN r \subseteq Roles
        /\ r \in [DOMAIN r -> [opinion : Opinions, failed : BOOLEAN]]
    /\ (sessions # {}) = (phase = "completed")

RowsVisible(c) == c.rows \subseteq {e \in ToSet(evidence) : e.available <= c.asOf}

\* Nothing is cited that is not in the context, and high confidence stands on a
\* PRIMARY row or on two sources.
Supported(o, c) ==
    LET support == {e \in c.rows : e.content \in o.cited}
    IN /\ o.cited = {e.content : e \in support}
       /\ o.confidence > 70 => \E d, e \in support : d.tier = "PRIMARY" \/ d.source # e.source

\* The roles heard in round n, and the opinions of the conflict on record.
Heard(s, n) == {m.role : m \in {x \in s.messages : x.round = n}}
Disputed(s) == UNION {c.opinions : c \in s.conflicts}

\* Every specialist is heard in the first round, the Devil's Advocate in the
\* second with exactly the roles of the conflict on record, if both poles were
\* taken.
HeardAsPlanned(s) ==
    LET Stance(a) == s.opinions[<<1, a>>].stance
    IN /\ Heard(s, 1) = RoundOneRoles
       /\ Heard(s, 2) = {Devil} \cup {id[2] : id \in Disputed(s)}
       /\ (\E a, b \in RoundOneRoles : Stance(a) = "POSITIVE" /\ Stance(b) = "NEGATIVE") =>
            Disputed(s) = {1} \X {a \in RoundOneRoles : Stance(a) \in {"POSITIVE", "NEGATIVE"}}

RestsOnItsContext(s) ==
    /\ RowsVisible(s.context)
    /\ \A m \in s.messages : Supported(s.opinions[m.opinion], s.context)
    /\ \A r \in s.runs : s.opinions[r.opinion].cited # {} => r.status = "SUCCEEDED"
    /\ HeardAsPlanned(s)

\* A committed session rests on its context alone, which held what was stored
\* and available at its time; only a run that succeeded has an opinion to cite;
\* and the rounds were those of the protocol (run_session, require_context_evidence
\* at each answer and again before the records are written).
OpinionsRestOnTheContext == \A s \in sessions : RestsOnItsContext(s)

\* A session that started completes or fails, and no run, of a failed session
\* neither, calls for ever.
SessionEnds ==
    /\ phase = "one" ~> phase \in {"completed", "failed"}
    /\ \A a \in Roles : run[a].at = "calling" ~> run[a].at # "calling"

=============================================================================
