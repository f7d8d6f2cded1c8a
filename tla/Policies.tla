------------------------------ MODULE Policies ------------------------------
(***************************************************************************)
(* The decision policies: the baselines (eval/baselines.py), the policy    *)
(* that follows the gates of the skills (eval/rule_policy.py) and what the *)
(* LLM policy makes of an answer (agent/agent.py, agent/parse.py).         *)
(*                                                                         *)
(* A decision is a set of candidates: every policy here names a code once. *)
(* An answer of the model is a record: whether a JSON object was found in  *)
(* it, the candidates it lists in order and the phase it reads.            *)
(***************************************************************************)
EXTENDS Market

CONSTANTS
    Patterns,    \* what an answer may give as the pattern of a candidate
    Answers,     \* the answers of the model
    RandomK,     \* how many stocks RandomFromPool takes
    Gated        \* the active skills with a gate, by id: records [id, gate]

NoPhase == ""

AnswerRow == [json : BOOLEAN, picks : Seq([code : STRING, pattern : Patterns]), phase : STRING]

ASSUME AnswersAssumption == \A a \in Answers : a \in AnswerRow

ASSUME RandomKAssumption == RandomK \in Nat \ {0}

\* A bound of 0 is not given; `status` are the statuses that are let in.
Gate == [min : Nat, max : Nat, status : SUBSET Statuses]

ASSUME GatedAssumption == \A i \in DOMAIN Gated : Gated[i].gate \in Gate

Candidate(universe, c, pattern) == [code |-> c, pattern |-> pattern, st |-> universe[c].st]

NoTrade(universe) == {}

\* The stocks that stand highest; none if no height is given.
HighestBoard(universe) ==
    LET ups == ByStatus(universe, "limit_up")
        top == Max({universe[c].boards : c \in ups} \cup {0})
    IN  IF top = 0 THEN {}
        ELSE {Candidate(universe, c, "highest_board") : c \in {u \in ups : universe[u].boards = top}}

PoolAverage(universe) ==
    {Candidate(universe, c, "pool_avg") : c \in ByStatus(universe, "limit_up")}

\* What RandomFromPool may decide: the picks of its generator are left open.
RandomFromPool(universe) ==
    LET ups == ByStatus(universe, "limit_up")
    IN  {{Candidate(universe, c, "random_pool") : c \in picks} :
            picks \in kSubset(Min({RandomK, Cardinality(ups)}), ups)}

\* A height that is not given meets no bound.
GateMatches(gate, snapshot) ==
    /\ gate.min # 0 => snapshot.boards # 0 /\ snapshot.boards >= gate.min
    /\ gate.max # 0 => snapshot.boards # 0 /\ snapshot.boards <= gate.max
    /\ snapshot.status \in gate.status

\* Every stock of the universe that some gate lets in, for the first such skill.
HarnessRule(universe) ==
    LET fits == [c \in DOMAIN universe |->
                    {i \in DOMAIN Gated : GateMatches(Gated[i].gate, universe[c])}]
    IN  {Candidate(universe, c, Gated[Min(fits[c])].id) : c \in {u \in DOMAIN fits : fits[u] # {}}}

------------------------------------------------------------------------------
(* LLMAgentPolicy *)

\* The two prompts of a day.  Under retrieval injection the system prompt
\* depends on the phase read the day before; the user prompt prints the state and,
\* of the universe, the limit-ups.
Prompt(prior, state, universe) ==
    [system |-> prior, state |-> state,
     ups |-> [c \in ByStatus(universe, "limit_up") |-> universe[c].boards]]

\* parse_decision: no object is no trade; a code outside the universe is
\* dropped, and so is a code already taken.
ParseDecision(answer, universe) ==
    IF ~answer.json THEN {}
    ELSE LET known == {i \in DOMAIN answer.picks : answer.picks[i].code \in DOMAIN universe}
             first == {i \in known : \A j \in known :
                          answer.picks[j].code = answer.picks[i].code => i <= j}
         IN  {Candidate(universe, answer.picks[i].code, answer.picks[i].pattern) : i \in first}

\* The prior of the next day: the phase just read, or none.
PriorOf(answer) == IF answer.json THEN answer.phase ELSE NoPhase

=============================================================================
