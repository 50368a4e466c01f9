-------------------------- MODULE ElevatorRequests --------------------------
(***************************************************************************)
(* The requests of the technician's pages (routers/elevators.py): the      *)
(* list, one lift in detail, its spoken briefing and the report after the  *)
(* visit, beside the inference runs that rewrite the fleet.                *)
(*                                                                         *)
(* A lift is loaded in three statements: its row, its features and its     *)
(* trend (lazy="selectin").  Each sees what is committed when it runs, and *)
(* a run commits the whole fleet at once (FleetScoring), so that a version *)
(* number stands for what every lift had after a run.                      *)
(*                                                                         *)
(* A briefing keeps its database connection while the language model       *)
(* writes; texts are kept in a cache of the process, under lift and score. *)
(***************************************************************************)
EXTENDS Naturals, FiniteSets

CONSTANTS
    Requests,       \* requests of the model
    Asks,           \* what each request may ask: records of kind and lift
    Lifts,          \* the fleet; other ids are unknown
    ScoreOf,        \* the score of each lift in each version
    MaxVersion,     \* bound on the runs that commit
    PoolSize,       \* connections the pool may open
    NoText          \* no text

Versions == 0 .. MaxVersion
Kinds == {"list", "detail", "briefing", "report"}
\* What the requests may ask, together.
Plans == {plan \in [Requests -> UNION {Asks[r] : r \in Requests}] :
            \A r \in Requests : plan[r] \in Asks[r]}
Scores == {ScoreOf[l][v] : l \in Lifts, v \in Versions}

ASSUME RequestsAssumption ==
    /\ IsFiniteSet(Requests)
    /\ MaxVersion \in Nat
    /\ PoolSize \in Nat \ {0}
    /\ \A r \in Requests : Asks[r] \subseteq [kind : Kinds, lift : STRING]

VARIABLES
    version,    \* what the last run committed
    cache,      \* _CACHE: the text under each lift and score
    free,       \* connections left in the pool
    ask,        \* what each request asks for
    phase,      \* how far it has come
    loaded,     \* the versions its three statements saw
    text,       \* the text of its briefing
    stored,     \* whether its report is committed
    status      \* of its answer; 0 before there is one

vars == <<version, cache, free, ask, phase, loaded, text, stored, status>>

Parts == [row : Versions, features : Versions, trend : Versions]
Nothing == [row |-> 0, features |-> 0, trend |-> 0]
\* Who wrote a text, about which lift, and from what.
Texts == [lift : Lifts, by : {"model", "fallback"}, facts : Parts]

TypeOK ==
    /\ version \in Versions
    /\ cache \in [Lifts \X Scores -> Texts \union {NoText}]
    /\ free \in 0 .. PoolSize
    /\ ask \in Plans
    /\ phase \in [Requests -> {"new", "row", "features", "trend", "service",
                               "generating", "flushed", "done"}]
    /\ loaded \in [Requests -> Parts]
    /\ text \in [Requests -> Texts \union {NoText}]
    /\ stored \in [Requests -> BOOLEAN]
    /\ status \in [Requests -> {0, 200, 201, 404, 500}]

Init ==
    /\ version = 0
    /\ cache = [k \in Lifts \X Scores |-> NoText]
    /\ free = PoolSize
    /\ ask \in Plans
    /\ phase = [r \in Requests |-> "new"]
    /\ loaded = [r \in Requests |-> Nothing]
    /\ text = [r \in Requests |-> NoText]
    /\ stored = [r \in Requests |-> FALSE]
    /\ status = [r \in Requests |-> 0]

Holding == {"row", "features", "trend", "service", "generating", "flushed"}

-----------------------------------------------------------------------------

\* An inference run commits.
Run ==
    /\ version < MaxVersion
    /\ version' = version + 1
    /\ UNCHANGED <<cache, free, ask, phase, loaded, text, stored, status>>

\* The session takes a connection with its first statement, or waits for one.
Connect(r) ==
    /\ phase[r] = "new"
    /\ free > 0
    /\ free' = free - 1
    /\ phase' = [phase EXCEPT ![r] = "row"]
    /\ UNCHANGED <<version, cache, ask, loaded, text, stored, status>>

\* Mutated: a request that never had a connection gives one back as well.
EndReleasingAnyhow(r, code) ==
    /\ free' = free + 1
    /\ phase' = [phase EXCEPT ![r] = "done"]
    /\ status' = [status EXCEPT ![r] = code]
\* Mutated: an error answer keeps its connection.
EndKeepingConnection(r, code) ==
    /\ free' = IF phase[r] \in Holding /\ code < 400 THEN free + 1 ELSE free
    /\ phase' = [phase EXCEPT ![r] = "done"]
    /\ status' = [status EXCEPT ![r] = code]
\* get_db ends the transaction and gives the connection back, on every way out.
End(r, code) ==
    /\ free' = IF phase[r] \in Holding THEN free + 1 ELSE free
    /\ phase' = [phase EXCEPT ![r] = "done"]
    /\ status' = [status EXCEPT ![r] = code]

\* No connection came free within the pool's timeout, or the database failed.
Fail(r) ==
    /\ \/ phase[r] = "new" /\ free = 0
       \/ phase[r] \in Holding \ {"generating"}
    /\ End(r, 500)
    /\ UNCHANGED <<version, cache, ask, loaded, text, stored>>

\* list_all and get_by_id, one statement at a time.
Read(r) ==
    \/ /\ phase[r] = "row"
       /\ ask[r].lift \in Lifts \/ ask[r].kind = "list"
       /\ loaded' = [loaded EXCEPT ![r].row = version]
       /\ phase' = [phase EXCEPT ![r] = "features"]
       /\ UNCHANGED <<version, cache, free, ask, text, stored, status>>
    \/ /\ phase[r] = "features"
       /\ loaded' = [loaded EXCEPT ![r].features = version]
       /\ phase' = [phase EXCEPT ![r] = "trend"]
       /\ UNCHANGED <<version, cache, free, ask, text, stored, status>>
    \/ /\ phase[r] = "trend"
       /\ loaded' = [loaded EXCEPT ![r].trend = version]
       /\ phase' = [phase EXCEPT ![r] = "service"]
       /\ UNCHANGED <<version, cache, free, ask, text, stored, status>>

NotFound(r) ==
    /\ phase[r] = "row"
    /\ ask[r].lift \notin Lifts /\ ask[r].kind # "list"
    /\ End(r, 404)
    /\ UNCHANGED <<version, cache, ask, loaded, text, stored>>

\* list_elevators and get_elevator.
Show(r) ==
    /\ phase[r] = "service"
    /\ ask[r].kind \in {"list", "detail"}
    /\ End(r, 200)
    /\ UNCHANGED <<version, cache, ask, loaded, text, stored>>

-----------------------------------------------------------------------------
(* The briefing                                                            *)

CacheKey(r) == <<ask[r].lift, ScoreOf[ask[r].lift][loaded[r].row]>>

\* What the prompt and the fallback are made of.
Facts(r, writer) == [lift |-> ask[r].lift, by |-> writer, facts |-> loaded[r]]

\* The transaction, which has only read, is committed before the answer.
AnswerWith(r, briefing) ==
    \/ /\ text' = [text EXCEPT ![r] = briefing]
       /\ End(r, 200)
    \/ /\ text' = text
       /\ End(r, 500)

UseCache(r) ==
    /\ phase[r] = "service"
    /\ ask[r].kind = "briefing"
    /\ cache[CacheKey(r)] # NoText
    /\ AnswerWith(r, cache[CacheKey(r)])
    /\ UNCHANGED <<version, cache, ask, loaded, stored>>

\* A worker thread calls the model; other requests go on meanwhile.
AskModel(r) ==
    /\ phase[r] = "service"
    /\ ask[r].kind = "briefing"
    /\ cache[CacheKey(r)] = NoText
    /\ phase' = [phase EXCEPT ![r] = "generating"]
    /\ UNCHANGED <<version, cache, free, ask, loaded, text, stored, status>>

\* Mutated: the key is taken from the row as it is after the call.
ModelAnswersLate(r) ==
    /\ phase[r] = "generating"
    /\ cache' = [cache EXCEPT ![<<ask[r].lift, ScoreOf[ask[r].lift][version]>>] =
                                 Facts(r, "model")]
    /\ AnswerWith(r, Facts(r, "model"))
    /\ UNCHANGED <<version, ask, loaded, stored>>
\* The text goes under the key from before the call, answered or not.
ModelAnswers(r) ==
    /\ phase[r] = "generating"
    /\ cache' = [cache EXCEPT ![CacheKey(r)] = Facts(r, "model")]
    /\ AnswerWith(r, Facts(r, "model"))
    /\ UNCHANGED <<version, ask, loaded, stored>>

\* Mutated: no timeouts, and a model that says nothing is waited for.
ModelIsWaitedFor(r) == FALSE
\* An error, a blank text, or the timeouts of the client and of its retry.
ModelFails(r) ==
    /\ phase[r] = "generating"
    /\ AnswerWith(r, Facts(r, "fallback"))
    /\ UNCHANGED <<version, cache, ask, loaded, stored>>

-----------------------------------------------------------------------------
(* The report                                                              *)

Flush(r) ==
    /\ phase[r] = "service"
    /\ ask[r].kind = "report"
    /\ phase' = [phase EXCEPT ![r] = "flushed"]
    /\ UNCHANGED <<version, cache, free, ask, loaded, text, stored, status>>

\* The commit comes before the answer; its confirmation may be lost.
CommitReport(r) ==
    /\ phase[r] = "flushed"
    /\ stored' = [stored EXCEPT ![r] = TRUE]
    /\ End(r, 201) \/ End(r, 500)
    /\ UNCHANGED <<version, cache, ask, loaded, text>>

-----------------------------------------------------------------------------

Step(r) ==
    \/ Connect(r) \/ Fail(r) \/ Read(r) \/ NotFound(r) \/ Show(r) \/ UseCache(r)
    \/ AskModel(r) \/ ModelFails(r) \/ Flush(r) \/ CommitReport(r)

Next == Run \/ \E r \in Requests : Step(r) \/ ModelAnswers(r)

Spec == Init /\ [][Next]_vars

\* Statements, timeouts and the pool make progress; the model need not answer.
FairSpec == Spec /\ \A r \in Requests : WF_vars(Step(r))

-----------------------------------------------------------------------------
(* Properties                                                              *)

\* A cached text is the model's, about the lift and the score it is kept
\* under, however many requests wrote it and whatever runs committed while
\* they waited; so a briefing never tells of another score than the one its
\* own request loaded (BriefingService.get_briefing: the key is taken before
\* the call and used after it).
CachedTextIsOfItsKey ==
    /\ \A l \in Lifts, s \in Scores :
        cache[<<l, s>>] # NoText =>
            /\ cache[<<l, s>>].by = "model"
            /\ cache[<<l, s>>].lift = l
            /\ ScoreOf[l][cache[<<l, s>>].facts.row] = s
    /\ \A r \in Requests :
        text[r] # NoText =>
            /\ text[r].lift = ask[r].lift
            /\ ScoreOf[text[r].lift][text[r].facts.row] = ScoreOf[ask[r].lift][loaded[r].row]

\* openspec/specs/elevator-persistence/spec.md: a lift in detail has a trend
\* "whose last element equals `risk_score`".  A run writes both, and the answer
\* reads them in two statements.
TrendEndsAtTheScore ==
    \A r \in Requests :
        status[r] = 200 /\ ask[r].kind = "detail" =>
            ScoreOf[ask[r].lift][loaded[r].trend] = ScoreOf[ask[r].lift][loaded[r].row]

\* The pool has every connection that no request in progress holds, so that a
\* failed or refused request never costs the others one (get_db); and a report
\* answered with 201 is committed (submit_report, get_db).
NothingIsKeptOrLost ==
    /\ free + Cardinality({r \in Requests : phase[r] \in Holding}) = PoolSize
    /\ \A r \in Requests : status[r] = 201 => stored[r]

\* Every request is answered, even if the language model never answers and
\* briefings hold all connections (BedrockClient's timeouts, the pool's
\* timeout).
EveryRequestIsAnswered ==
    \A r \in Requests : <>(status[r] # 0)
=============================================================================
