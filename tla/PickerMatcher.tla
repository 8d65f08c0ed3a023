----------------------------- MODULE PickerMatcher -----------------------------
(***************************************************************************)
(* A picker's matcher: the Matcher the picker gives its commands, and the  *)
(* worker thread that scores the rows and answers.  Scores, order and the  *)
(* slice on screen are left out: the matches are a set.                    *)
(*                                                                         *)
(* The commands given are kept in one log; the channel holds those after   *)
(* `taken', the worker's own queue those after `applied'.                  *)
(***************************************************************************)
EXTENDS Naturals, Sequences, FiniteSets

CONSTANTS
    Rows,            \* rows a source can give
    Queries,
    Empty,           \* the query the engine starts with
    Matches(_, _),   \* whether a query matches a row
    Narrows(_, _),   \* whether a query is taken to narrow the one before it
    MaxSent          \* bound: commands given

ASSUME EmptyAssumption == Empty \in Queries
ASSUME SentAssumption == MaxSent \in Nat

VARIABLES
    unscored,    \* whether the source matches its rows itself
    log,         \* the commands given
    generation,  \* the queries given
    query,       \* the query last given
    rows,        \* the rows given since they were last cleared
    taken,       \* commands the worker has taken off the channel
    applied,     \* commands it has applied
    pc,          \* where it is: idle, applying, scoring
    engine,      \* its generation and query, the candidates, the hits, complete;
                 \* and astray, kept for the properties: whether rows may be lost
                 \* since all were last scored
    pool,        \* the rows being scored
    answers,     \* what it answered and the picker has not taken
    view,        \* the reply the picker last took
    upTo,        \* how many commands that reply had applied
    keys         \* the keys last asked for and taken, and the command that asked

callerVars == <<unscored, log, generation, query, rows>>
workerVars == <<taken, applied, pc, engine, pool>>
pickerVars == <<view, upTo, keys>>
vars == <<callerVars, workerVars, answers, pickerVars>>

Command(t) == [type |-> t]     \* ask: a slice, a row to track or to pin
Query(q, g) == [type |-> "query", query |-> q, generation |-> g]
Push(r) == [type |-> "push", row |-> r]
Commands ==
    {Command(t) : t \in {"clear", "keys", "ask"}} \cup {Push(r) : r \in Rows}
        \cup {Query(q, g) : q \in Queries, g \in 1 .. MaxSent}
Answers ==
    [keys : {0}, generation : 0 .. MaxSent, applied : 0 .. MaxSent, matched : SUBSET Rows]
        \cup [keys : 1 .. MaxSent, matched : SUBSET Rows]
IsQuery(c) == c.type = "query"
Cuts(c) == c.type \in {"query", "clear"}

NoView == [shown |-> FALSE, matched |-> {}, current |-> FALSE]
NoKeys == [asked |-> 0, matched |-> {}]

Matching(q, R) == {r \in R : Matches(q, r)}
\* A source that matches its rows itself has them all listed.
Listed(q, R) == IF unscored THEN R ELSE Matching(q, R)

TypeOK ==
    /\ unscored \in BOOLEAN
    /\ log \in Seq(Commands) /\ Len(log) <= MaxSent
    /\ generation \in 0 .. MaxSent
    /\ query \in Queries /\ rows \subseteq Rows
    /\ applied \in 0 .. taken /\ taken \in 0 .. Len(log)
    /\ pc \in {"idle", "applying", "scoring"}
    /\ engine \in [generation : 0 .. MaxSent, query : Queries, candidates : SUBSET Rows,
                   hits : SUBSET Rows, complete : BOOLEAN, astray : BOOLEAN]
    /\ pool \subseteq Rows
    /\ answers \in Seq(Answers)
    /\ view \in [shown : BOOLEAN, matched : SUBSET Rows, current : BOOLEAN]
    /\ upTo \in 0 .. MaxSent
    /\ keys \in [asked : 0 .. MaxSent, matched : SUBSET Rows]

Init ==
    /\ unscored \in BOOLEAN
    /\ log = <<>> /\ generation = 0 /\ query = Empty /\ rows = {}
    /\ taken = 0 /\ applied = 0 /\ pc = "idle" /\ pool = {}
    /\ engine = [generation |-> 0, query |-> Empty, candidates |-> {}, hits |-> {},
                 complete |-> TRUE, astray |-> FALSE]
    /\ answers = <<>> /\ view = NoView /\ upTo = 0 /\ keys = NoKeys

-------------------------------------------------------------------------------
(* The picker.                                                             *)

Send(c) == Len(log) < MaxSent /\ log' = Append(log, c)

SetQuery(q) ==
    /\ Send(Query(q, generation + 1))
    /\ generation' = generation + 1 /\ query' = q
    /\ UNCHANGED <<unscored, rows, workerVars, answers, pickerVars>>
Give(r) ==
    /\ Send(Push(r))
    /\ rows' = rows \cup {r}
    /\ UNCHANGED <<unscored, generation, query, workerVars, answers, pickerVars>>
Clear ==
    /\ Send(Command("clear"))
    /\ rows' = {}
    /\ UNCHANGED <<unscored, generation, query, workerVars, answers, pickerVars>>
\* request_slice, track, pin; request_keys.
Request(t) ==
    /\ Send(Command(t))
    /\ UNCHANGED <<unscored, generation, query, rows, workerVars, answers, pickerVars>>

\* drain: every answer waiting, the newest reply of the current query kept.
IsCurrentFault(a) == TRUE
IsCurrent(a) == a.applied = Len(log)
Kept(a) == a.keys = 0 /\ a.generation = generation
Poll ==
    /\ answers # <<>>
    /\ answers' = Tail(answers)
    /\ LET a == Head(answers) IN
         \/ /\ a.keys # 0
            /\ keys' = [asked |-> a.keys, matched |-> a.matched]
            /\ UNCHANGED <<view, upTo>>
         \/ /\ Kept(a)
            /\ view' = [shown |-> TRUE, matched |-> a.matched, current |-> IsCurrent(a)]
            /\ upTo' = a.applied
            /\ UNCHANGED keys
         \/ /\ a.keys = 0 /\ ~Kept(a)
            /\ UNCHANGED pickerVars
    /\ UNCHANGED <<callerVars, workerVars>>

-------------------------------------------------------------------------------
(* The worker thread.                                                      *)

Waiting == log[applied + 1]

\* recv and try_iter, when it has nothing to do.
Take ==
    /\ pc = "idle" /\ taken < Len(log)
    /\ taken' = Len(log) /\ pc' = "applying"
    /\ UNCHANGED <<callerVars, applied, engine, pool, answers, pickerVars>>

\* A query with a later one waiting is not scored, and counts as applied.
IsSuperseded == IsQuery(Waiting) /\ \E i \in applied + 2 .. taken : IsQuery(log[i])
CountedFault == IF IsSuperseded THEN applied ELSE applied + 1
Counted == applied + 1
Supersede ==
    /\ pc = "applying" /\ applied < taken /\ IsSuperseded
    /\ applied' = Counted
    /\ UNCHANGED <<callerVars, taken, pc, engine, pool, answers, pickerVars>>

\* The queries asked, and whether one of them misleads after another: taken to
\* narrow it, it matches a row that the other does not.
Misleads(p, q) == Narrows(p, q) /\ \E r \in Rows : Matches(q, r) /\ ~Matches(p, r)
Asked == {Empty} \cup {log[i].query : i \in {j \in 1 .. Len(log) : IsQuery(log[j])}}
Misled == \E p, q \in Asked : Misleads(p, q)

\* set_query: only the last matches are scored where the query is taken to narrow
\* the last one, which was scored to the end.
PoolForFault(q) == IF Narrows(engine.query, q) THEN engine.hits ELSE engine.candidates
PoolFor(q) ==
    IF engine.complete /\ Narrows(engine.query, q) THEN engine.hits ELSE engine.candidates
GoesAstray(q) ==
    /\ engine.complete /\ Narrows(engine.query, q)
    /\ engine.astray \/ Misleads(engine.query, q)
ApplyQuery ==
    /\ pc = "applying" /\ applied < taken /\ IsQuery(Waiting) /\ ~IsSuperseded
    /\ applied' = applied + 1
    /\ LET q == Waiting.query IN
         IF unscored
         THEN /\ engine' = [engine EXCEPT !.generation = Waiting.generation, !.query = q]
              /\ UNCHANGED <<pc, pool>>
         ELSE /\ engine' = [engine EXCEPT !.generation = Waiting.generation, !.query = q,
                                          !.complete = FALSE,
                                          !.astray = GoesAstray(q)]
              /\ pool' = PoolFor(q)
              /\ pc' = "scoring"
    /\ UNCHANGED <<callerVars, taken, answers, pickerVars>>

\* `stop', asked now and then while scoring: what came is taken, and a query or a
\* clearing among what waits cuts the scoring short.
StopFault == applied < Len(log)
Stop == \E i \in applied + 1 .. Len(log) : Cuts(log[i])
LookUp ==
    /\ pc = "scoring"
    /\ taken' = Len(log)
    /\ pc' = IF Stop THEN "applying" ELSE "scoring"
    /\ UNCHANGED <<callerVars, applied, engine, pool, answers, pickerVars>>
Score ==
    /\ pc = "scoring"
    /\ engine' = [engine EXCEPT !.hits = Matching(engine.query, pool), !.complete = TRUE]
    /\ pc' = "applying"
    /\ UNCHANGED <<callerVars, taken, applied, pool, answers, pickerVars>>

\* push: a row already held is left out.
ApplyPush(r) ==
    /\ engine' = IF r \in engine.candidates THEN engine
                 ELSE [engine EXCEPT !.candidates = @ \cup {r},
                                     !.hits = @ \cup Listed(engine.query, {r})]
    /\ UNCHANGED answers
ApplyClear ==
    /\ engine' = [engine EXCEPT !.candidates = {}, !.hits = {}, !.complete = TRUE,
                                  !.astray = FALSE]
    /\ UNCHANGED answers
ApplyKeys ==
    /\ answers' = Append(answers, [keys |-> applied + 1, matched |-> engine.hits])
    /\ UNCHANGED engine
Apply ==
    /\ pc = "applying" /\ applied < taken /\ ~IsQuery(Waiting)
    /\ applied' = applied + 1
    /\ \/ Waiting.type = "push" /\ ApplyPush(Waiting.row)
       \/ Waiting.type = "clear" /\ ApplyClear
       \/ Waiting.type = "keys" /\ ApplyKeys
       \/ Waiting.type = "ask" /\ UNCHANGED <<engine, answers>>
    /\ UNCHANGED <<callerVars, taken, pc, pool, pickerVars>>

\* answer_slice, once nothing waits, and the window is woken.
AnswerSlice ==
    /\ pc = "applying" /\ applied = taken
    /\ answers' = Append(answers, [keys |-> 0, generation |-> engine.generation,
                                   applied |-> applied, matched |-> engine.hits])
    /\ pc' = "idle"
    /\ UNCHANGED <<callerVars, taken, applied, engine, pool, pickerVars>>

-------------------------------------------------------------------------------

Picker ==
    \/ \E q \in Queries : SetQuery(q)
    \/ \E r \in Rows : Give(r)
    \/ Clear
    \/ \E t \in {"ask", "keys"} : Request(t)
Worker == Take \/ Supersede \/ ApplyQuery \/ LookUp \/ Score \/ Apply \/ AnswerSlice
Next == Picker \/ Poll \/ Worker

\* The thread runs on, scoring comes to its end, and an answer wakes the window,
\* whose loop polls the picker.
Fairness ==
    /\ WF_vars(Poll) /\ WF_vars(Score)
    /\ WF_vars(Take \/ Supersede \/ ApplyQuery \/ Apply \/ AnswerSlice)
Spec == Init /\ [][Next]_vars /\ Fairness

-------------------------------------------------------------------------------
(* Properties.                                                             *)

\* What the engine holds are the matches of its query among all its rows, unless
\* it was cut short; then a command that has it scored afresh, or emptied, waits,
\* also where rows were merged in meanwhile.  Matches are missing, and none are
\* wrong, only from a query that misleads on: the next that is not taken to narrow
\* brings them back.
EngineIsExact ==
    \/ LET all == Listed(engine.query, engine.candidates) IN
         /\ engine.complete /\ engine.hits \subseteq all
         /\ engine.astray \/ engine.hits = all
    \/ pc = "scoring"
    \/ \E i \in applied + 1 .. taken : Cuts(log[i])

\* Whatever is shown matches the query given last when it was taken, and all that
\* matches where it is marked current, though queries were skipped and cut short,
\* and rows given and cleared, meanwhile: unless one query misleads after another.
Promise == INSTANCE PickerPromise
               WITH unscored <- unscored, query <- query, asked <- Asked, rows <- rows,
                    view <- view
KeepsThePromise == Promise!Spec

\* Rows asked for to be saved are the matches as they stood at the asking, if no
\* query or clearing came after it; some may be missing where a query misleads.
IsAnswer(M, R) == M \subseteq Listed(query, R) /\ (Misled \/ M = Listed(query, R))
RowsAt(i) == {r \in Rows : \E j \in 1 .. i :
                 log[j] = Push(r) /\ \A k \in j + 1 .. i : log[k] # Command("clear")}
KeysAreExact ==
    keys.asked # 0 /\ (\A i \in keys.asked + 1 .. Len(log) : ~Cuts(log[i]))
        => IsAnswer(keys.matched, RowsAt(keys.asked))

\* What query.rs says of `narrows', that "every row `new` matches `old` matched too,
\* and only `old`'s matches need scoring again", asks for more: what is current is
\* all that matches.  A query that misleads loses rows for good.
CurrentIsComplete ==
    view.current /\ upTo = Len(log) => view.matched = Listed(query, rows)

\* The reply shown comes to be of every command given.
EveryCommandIsAnswered == <>[](upTo = Len(log))
===============================================================================
