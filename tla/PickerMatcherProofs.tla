-------------------------- MODULE PickerMatcherProofs ---------------------------
(***************************************************************************)
(* Theorems about PickerMatcher, for any rows, queries, matching and       *)
(* narrowing, and any number of commands: the engine's matches are exact   *)
(* but for those a misleading query loses, so are the rows given for       *)
(* saving, and what the picker shows is what PickerPromise promises; and   *)
(* about PickerQuery, which queries never mislead.                         *)
(***************************************************************************)
EXTENDS PickerMatcher, SequenceTheorems, TLAPS

Q == INSTANCE PickerQuery

\* A query is counted when it is given, as a command.
Counting == TypeOK /\ generation =< Len(log)

\* A number tells one query: the engine and an answer that have the current
\* number have the current query.
Numbered ==
    /\ \A i \in 1 .. Len(log) : IsQuery(log[i]) =>
         /\ log[i].generation =< generation
         /\ log[i].generation = generation => log[i].query = query
    /\ engine.generation =< generation
    /\ engine.generation = generation => engine.query = query

\* The last query that waits, or the engine's when none does, is the current one.
NoQueryAfter(i) == \A j \in i + 1 .. Len(log) : ~IsQuery(log[j])
LastIsCurrent ==
    /\ \A i \in 1 .. Len(log) : IsQuery(log[i]) /\ NoQueryAfter(i) => log[i].query = query
    /\ NoQueryAfter(applied) => engine.query = query

\* The rows on either side are those of the commands given, and applied.
RowsAreTold == rows = RowsAt(Len(log)) /\ engine.candidates = RowsAt(applied)

\* What is scored matches what all rows would, what is complete is exact, and no
\* rows are lost unless a query misleads after another.
ExactBut(hits, all) == hits \subseteq all /\ (engine.astray \/ hits = all)
Exact ==
    /\ engine.complete => ExactBut(engine.hits, Listed(engine.query, engine.candidates))
    /\ unscored => engine.complete /\ ~engine.astray
    /\ pc = "scoring" =>
         /\ ~unscored
         /\ ExactBut(Matching(engine.query, pool), Matching(engine.query, engine.candidates))
    /\ ~engine.complete =>
         pc = "scoring" \/ \E i \in applied + 1 .. taken : Cuts(log[i])
AstrayIsMisled == engine.query \in Asked /\ (engine.astray => Misled)

\* What an answer on its way says of the command it had applied, or that asked it.
NoCutAfter(i) == \A j \in i + 1 .. Len(log) : ~Cuts(log[j])
SliceIsExact(a) ==
    a.keys = 0 =>
        /\ a.applied =< Len(log) /\ a.generation =< generation
        /\ a.generation = generation => IsAnswer(a.matched, RowsAt(a.applied))
KeysAnswer(asked, matched) ==
    asked # 0 =>
        /\ asked =< Len(log)
        /\ NoCutAfter(asked) => IsAnswer(matched, RowsAt(asked))
AnswersAreExact ==
    /\ \A i \in 1 .. Len(answers) :
         SliceIsExact(answers[i]) /\ KeysAnswer(answers[i].keys, answers[i].matched)
    /\ KeysAnswer(keys.asked, keys.matched)

IInv ==
    /\ Counting /\ Numbered /\ LastIsCurrent /\ RowsAreTold
    /\ Exact /\ AstrayIsMisled /\ AnswersAreExact

-------------------------------------------------------------------------------
(* What a command adds to the log, and to the rows.                        *)

\* The commands before stay, and the new one is the last.
LEMMA SentIsLast ==
    ASSUME NEW s \in Seq(Commands), NEW c \in Commands
    PROVE  /\ Append(s, c) \in Seq(Commands) /\ Len(Append(s, c)) = Len(s) + 1
           /\ \A i \in 1 .. Len(s) : Append(s, c)[i] = s[i]
           /\ Append(s, c)[Len(s) + 1] = c
  BY AppendProperties

\* The rows given by the first i commands of s, and not cleared.
RowsOf(s, i) ==
    {r \in Rows : \E j \in 1 .. i :
        s[j] = Push(r) /\ \A k \in j + 1 .. i : s[k] # Command("clear")}

LEMMA RowsAtIsRowsOf == \A i : RowsAt(i) = RowsOf(log, i)
  BY DEF RowsAt, RowsOf

\* They depend on those commands only.
LEMMA RowsOfPrefix ==
    ASSUME NEW s, NEW t, NEW i \in Nat, \A j \in 1 .. i : t[j] = s[j]
    PROVE  RowsOf(t, i) = RowsOf(s, i)
<1>1. \A r \in Rows, j \in 1 .. i :
        (t[j] = Push(r) /\ \A k \in j + 1 .. i : t[k] # Command("clear"))
          <=> (s[j] = Push(r) /\ \A k \in j + 1 .. i : s[k] # Command("clear"))
  <2> TAKE r \in Rows, j \in 1 .. i
  <2>1. \A k \in j + 1 .. i : t[k] = s[k]
    OBVIOUS
  <2> QED BY <2>1
<1> QED BY <1>1 DEF RowsOf

\* No command yet, no row.
LEMMA RowsOfNone == \A s : RowsOf(s, 0) = {}
  BY DEF RowsOf

\* A command's type tells whether it is a push, and which commands cut.
LEMMA KindsDiffer ==
    ASSUME NEW r, NEW q, NEW g
    PROVE  /\ Push(r) # Command("clear") /\ Push(r).type = "push" /\ Push(r).row = r
           /\ Command("clear").type = "clear"
           /\ Query(q, g).type = "query" /\ Query(q, g).query = q
           /\ Query(q, g).generation = g
<1>1. Push(r).type = "push" /\ Push(r).row = r /\ Command("clear").type = "clear"
  BY DEF Push, Command
<1>2. Push(r) # Command("clear")
  BY <1>1
<1>3. Query(q, g).type = "query" /\ Query(q, g).query = q /\ Query(q, g).generation = g
  BY DEF Query
<1> QED BY <1>1, <1>2, <1>3

\* Its type tells what it is.
LEMMA CommandKinds ==
    ASSUME NEW c \in Commands
    PROVE  /\ c.type = "push" => \E r \in Rows : c = Push(r)
           /\ c.type = "clear" => c = Command("clear")
<1>1. CASE c \in {Command(t) : t \in {"clear", "keys", "ask"}}
  <2>1. PICK t \in {"clear", "keys", "ask"} : c = Command(t)
    BY <1>1
  <2>2. c.type = t
    BY <2>1 DEF Command
  <2> QED BY <2>1, <2>2
<1>2. CASE c \in {Push(r) : r \in Rows}
  <2>1. PICK r \in Rows : c = Push(r)
    BY <1>2
  <2> QED BY <2>1, KindsDiffer
<1>3. CASE c \in {Query(q, g) : q \in Queries, g \in 1 .. MaxSent}
  <2>1. PICK q \in Queries, g \in 1 .. MaxSent : c = Query(q, g)
    BY <1>3
  <2> QED BY <2>1, KindsDiffer
<1> QED BY <1>1, <1>2, <1>3 DEF Commands

\* A push adds its row.
LEMMA RowsOfPush ==
    ASSUME NEW s, NEW i \in Nat, NEW r \in Rows, s[i + 1] = Push(r)
    PROVE  \A x : x \in RowsOf(s, i + 1) <=> x \in RowsOf(s, i) \/ x = r
<1> TAKE x
<1>1. s[i + 1] # Command("clear") /\ (s[i + 1] = Push(x) => x = r)
  BY KindsDiffer
<1>2. ASSUME x \in RowsOf(s, i + 1)
      PROVE  x \in RowsOf(s, i) \/ x = r
  <2>0. x \in Rows
    BY <1>2 DEF RowsOf
  <2>1. PICK j \in 1 .. i + 1 :
          s[j] = Push(x) /\ \A k \in j + 1 .. i + 1 : s[k] # Command("clear")
    BY <1>2 DEF RowsOf
  <2>2. CASE j = i + 1
    BY <2>1, <2>2, <1>1
  <2>3. CASE j # i + 1
    <3>1. j \in 1 .. i /\ \A k \in j + 1 .. i : s[k] # Command("clear")
      BY <2>1, <2>3
    <3> QED BY <2>0, <2>1, <3>1 DEF RowsOf
  <2> QED BY <2>2, <2>3
<1>3. ASSUME x \in RowsOf(s, i)
      PROVE  x \in RowsOf(s, i + 1)
  <2>0. x \in Rows
    BY <1>3 DEF RowsOf
  <2>1. PICK j \in 1 .. i :
          s[j] = Push(x) /\ \A k \in j + 1 .. i : s[k] # Command("clear")
    BY <1>3 DEF RowsOf
  <2>2. j \in 1 .. i + 1 /\ \A k \in j + 1 .. i + 1 : s[k] # Command("clear")
    BY <2>1, <1>1
  <2> QED BY <2>0, <2>1, <2>2 DEF RowsOf
<1>4. r \in RowsOf(s, i + 1)
  <2>1. i + 1 \in 1 .. i + 1 /\ \A k \in i + 1 + 1 .. i + 1 : s[k] # Command("clear")
    OBVIOUS
  <2> QED BY <2>1 DEF RowsOf
<1> QED BY <1>2, <1>3, <1>4

\* A clearing leaves none.
LEMMA RowsOfClear ==
    ASSUME NEW s, NEW i \in Nat, s[i + 1] = Command("clear")
    PROVE  RowsOf(s, i + 1) = {}
<1> SUFFICES ASSUME NEW x \in RowsOf(s, i + 1)
             PROVE  FALSE
  OBVIOUS
<1>1. PICK j \in 1 .. i + 1 :
        s[j] = Push(x) /\ \A k \in j + 1 .. i + 1 : s[k] # Command("clear")
  BY DEF RowsOf
<1>2. j = i + 1
  BY <1>1
<1> QED BY <1>1, <1>2, KindsDiffer

\* Any other command changes nothing of them.
LEMMA RowsOfOther ==
    ASSUME NEW s, NEW i \in Nat, s[i + 1].type \notin {"push", "clear"}
    PROVE  RowsOf(s, i + 1) = RowsOf(s, i)
<1>1. s[i + 1] # Command("clear") /\ \A x : s[i + 1] # Push(x)
  BY KindsDiffer
<1>2. ASSUME NEW x \in Rows, NEW j \in 1 .. i
      PROVE  (\A k \in j + 1 .. i : s[k] # Command("clear"))
               <=> (\A k \in j + 1 .. i + 1 : s[k] # Command("clear"))
  BY <1>1
<1>3. ASSUME NEW x \in Rows
      PROVE  (\E j \in 1 .. i + 1 :
                s[j] = Push(x) /\ \A k \in j + 1 .. i + 1 : s[k] # Command("clear"))
              <=> (\E j \in 1 .. i :
                s[j] = Push(x) /\ \A k \in j + 1 .. i : s[k] # Command("clear"))
  BY <1>1, <1>2
<1> QED BY <1>3 DEF RowsOf

-------------------------------------------------------------------------------
(* Types.                                                                  *)

\* A query matches rows among those it is given, and none of none.
LEMMA ListedIsRows ==
    ASSUME NEW q \in Queries, NEW R \in SUBSET Rows
    PROVE  Listed(q, R) \in SUBSET R /\ Listed(q, {}) = {}
  BY DEF Listed, Matching

\* The command that waits is one.
LEMMA WaitingIsCommand ==
    ASSUME TypeOK, applied < taken
    PROVE  /\ applied + 1 \in 1 .. Len(log) /\ Waiting \in Commands
           /\ Waiting.type = "push" => Waiting.row \in Rows
           /\ IsQuery(Waiting) => Waiting.query \in Queries /\ Waiting.generation \in 1 .. MaxSent
<1>1. applied + 1 \in 1 .. Len(log) /\ Waiting \in Commands
  BY SentAssumption DEF TypeOK, Waiting
<1> QED BY <1>1 DEF Commands, Command, Push, Query, IsQuery

LEMMA CountingInductive == Counting /\ [Next]_vars => Counting'
<1> SUFFICES ASSUME Counting, [Next]_vars
             PROVE  Counting'
  OBVIOUS
<1> USE SentAssumption DEF TypeOK, Counting
<1>a. ASSUME NEW c \in Commands, Send(c)
      PROVE  log' \in Seq(Commands) /\ Len(log') = Len(log) + 1 /\ Len(log') =< MaxSent
  BY <1>a, SentIsLast DEF Send
<1>1. ASSUME NEW q \in Queries, SetQuery(q)
      PROVE  Counting'
  <2>1. Query(q, generation + 1) \in Commands
    <3>1. generation \in Nat /\ Len(log) \in Nat /\ Len(log) < MaxSent
      BY <1>1 DEF SetQuery, Send
    <3>2. generation + 1 \in 1 .. MaxSent
      BY <3>1
    <3> QED BY <3>2 DEF Commands
  <2>2. log' \in Seq(Commands) /\ Len(log') = Len(log) + 1 /\ Len(log') =< MaxSent
        /\ generation' = generation + 1 /\ query' \in Queries
    BY <1>1, <1>a, <2>1 DEF SetQuery
  <2>3. /\ generation' \in 0 .. MaxSent /\ generation' =< Len(log')
        /\ applied \in 0 .. taken /\ taken \in 0 .. Len(log')
    BY <2>2
  <2> QED BY <1>1, <2>2, <2>3 DEF SetQuery, workerVars, pickerVars
<1>2. ASSUME NEW r \in Rows, Give(r)
      PROVE  Counting'
  <2>1. Push(r) \in Commands
    BY DEF Commands
  <2> QED BY <1>2, <1>a, <2>1 DEF Give, workerVars, pickerVars
<1>3. CASE Clear
  <2>1. Command("clear") \in Commands
    BY DEF Commands
  <2> QED BY <1>3, <1>a, <2>1 DEF Clear, workerVars, pickerVars
<1>4. ASSUME NEW t \in {"ask", "keys"}, Request(t)
      PROVE  Counting'
  <2>1. Command(t) \in Commands
    BY DEF Commands
  <2> QED BY <1>4, <1>a, <2>1 DEF Request, workerVars, pickerVars
<1>5. CASE Poll
  <2>1. Head(answers) \in Answers /\ Tail(answers) \in Seq(Answers)
    BY <1>5 DEF Poll
  <2>2. Head(answers).matched \in SUBSET Rows /\ Head(answers).keys \in 0 .. MaxSent
        /\ (Head(answers).keys = 0 => Head(answers).applied \in 0 .. MaxSent)
    BY <2>1 DEF Answers
  <2> DEFINE a == Head(answers)
  <2>3. CASE a.keys # 0 /\ keys' = [asked |-> a.keys, matched |-> a.matched]
             /\ UNCHANGED <<view, upTo>>
    BY <1>5, <2>1, <2>2, <2>3 DEF Poll, callerVars, workerVars
  <2>4. CASE Kept(a) /\ UNCHANGED keys /\ upTo' = a.applied
             /\ view' = [shown |-> TRUE, matched |-> a.matched, current |-> IsCurrent(a)]
    <3>1. IsCurrent(a) \in BOOLEAN /\ a.keys = 0
      BY <2>4 DEF IsCurrent, Kept
    <3>2. view' \in [shown : BOOLEAN, matched : SUBSET Rows, current : BOOLEAN]
      BY <2>2, <2>4, <3>1
    <3> QED BY <1>5, <2>1, <2>2, <2>4, <3>1, <3>2 DEF Poll, callerVars, workerVars
  <2>5. CASE UNCHANGED pickerVars
    BY <1>5, <2>1, <2>5 DEF Poll, callerVars, workerVars, pickerVars
  <2> QED BY <1>5, <2>3, <2>4, <2>5 DEF Poll
<1>6. CASE Take
  BY <1>6 DEF Take, callerVars, pickerVars
<1>7. CASE Supersede
  BY <1>7 DEF Supersede, Counted, callerVars, pickerVars
<1>8. CASE ApplyQuery
  <2>1. Waiting.query \in Queries /\ Waiting.generation \in 1 .. MaxSent
    BY <1>8, WaitingIsCommand DEF ApplyQuery
  <2>2. PoolFor(Waiting.query) \subseteq Rows
    BY DEF PoolFor
  <2> DEFINE E == [generation : 0 .. MaxSent, query : Queries, candidates : SUBSET Rows,
                   hits : SUBSET Rows, complete : BOOLEAN, astray : BOOLEAN]
  <2>3. engine' \in E
    <3>1. ASSUME NEW g \in 0 .. MaxSent, NEW q \in Queries
          PROVE  /\ [engine EXCEPT !.generation = g, !.query = q] \in E
                 /\ \A b \in BOOLEAN :
                      [engine EXCEPT !.generation = g, !.query = q, !.complete = FALSE,
                                     !.astray = b] \in E
      OBVIOUS
    <3>2. Waiting.generation \in 0 .. MaxSent /\ GoesAstray(Waiting.query) \in BOOLEAN
      BY <2>1 DEF GoesAstray
    <3>3. CASE unscored
      <4>1. engine' = [engine EXCEPT !.generation = Waiting.generation,
                                     !.query = Waiting.query]
        BY <1>8, <3>3 DEF ApplyQuery
      <4> QED BY <2>1, <3>1, <3>2, <4>1
    <3>4. CASE ~unscored
      <4>1. engine' = [engine EXCEPT !.generation = Waiting.generation,
                                     !.query = Waiting.query, !.complete = FALSE,
                                     !.astray = GoesAstray(Waiting.query)]
        BY <1>8, <3>4 DEF ApplyQuery
      <4> QED BY <2>1, <3>1, <3>2, <4>1
    <3> QED BY <3>3, <3>4
  <2>4. pc' \in {"applying", "scoring"} /\ pool' \subseteq Rows
    BY <1>8, <2>2 DEF ApplyQuery
  <2> QED BY <1>8, <2>3, <2>4 DEF ApplyQuery, callerVars, pickerVars
<1>9. CASE LookUp
  BY <1>9 DEF LookUp, callerVars, pickerVars
<1>10. CASE Score
  <2>1. Matching(engine.query, pool) \in SUBSET Rows
    BY DEF Matching
  <2> QED BY <1>10, <2>1 DEF Score, callerVars, pickerVars
<1>11. CASE Apply
  <2>1. /\ Waiting.type = "push" => Waiting.row \in Rows
        /\ applied' = applied + 1 /\ applied + 1 \in 1 .. Len(log)
    BY <1>11, WaitingIsCommand DEF Apply
  <2>2. engine' \in [generation : 0 .. MaxSent, query : Queries, candidates : SUBSET Rows,
                     hits : SUBSET Rows, complete : BOOLEAN, astray : BOOLEAN]
    <3>1. CASE Waiting.type = "push" /\ ApplyPush(Waiting.row)
      <4>1. Listed(engine.query, {Waiting.row}) \in SUBSET Rows
        BY <2>1, <3>1, ListedIsRows
      <4> QED BY <2>1, <3>1, <4>1 DEF ApplyPush
    <3>2. CASE ApplyClear \/ ApplyKeys \/ UNCHANGED <<engine, answers>>
      BY <3>2 DEF ApplyClear, ApplyKeys
    <3> QED BY <1>11, <3>1, <3>2 DEF Apply
  <2>3. answers' \in Seq(Answers)
    <3>1. CASE ApplyKeys
      <4>1. [keys |-> applied + 1, matched |-> engine.hits] \in Answers
        BY <2>1 DEF Answers
      <4> QED BY <3>1, <4>1 DEF ApplyKeys
    <3>2. CASE answers' = answers
      BY <3>2
    <3> QED BY <1>11, <3>1, <3>2 DEF Apply, ApplyPush, ApplyClear
  <2> QED BY <1>11, <2>1, <2>2, <2>3 DEF Apply, callerVars, pickerVars
<1>12. CASE AnswerSlice
  <2>1. [keys |-> 0, generation |-> engine.generation, applied |-> applied,
         matched |-> engine.hits] \in Answers
    BY DEF Answers
  <2> QED BY <1>12, <2>1 DEF AnswerSlice, callerVars, pickerVars
<1>13. CASE UNCHANGED vars
  BY <1>13 DEF vars, callerVars, workerVars, pickerVars
<1> QED BY <1>1, <1>2, <1>3, <1>4, <1>5, <1>6, <1>7, <1>8, <1>9, <1>10, <1>11, <1>12, <1>13
        DEF Next, Picker, Worker

LEMMA InitCounting == Init => Counting
<1> SUFFICES ASSUME Init PROVE Counting
  OBVIOUS
<1>1. log = <<>> /\ answers = <<>> /\ log \in Seq(Commands) /\ answers \in Seq(Answers)
  BY EmptySeq DEF Init
<1>2. Len(log) = 0 /\ engine \in [generation : 0 .. MaxSent, query : Queries,
                                  candidates : SUBSET Rows, hits : SUBSET Rows,
                                  complete : BOOLEAN, astray : BOOLEAN]
  BY <1>1, EmptyAssumption, SentAssumption DEF Init
<1> QED BY <1>1, <1>2, EmptyAssumption, SentAssumption
        DEF Init, TypeOK, Counting, NoView, NoKeys

\* The matcher's variables keep their types, and no query goes uncounted.
THEOREM PickerTypes == Spec => []TypeOK
<1>1. Counting => TypeOK
  BY DEF Counting
<1> QED BY <1>1, InitCounting, CountingInductive, PTL DEF Spec

-------------------------------------------------------------------------------
(* Queries.                                                                *)

\* What giving a command that is no query leaves.
LEMMA SentBesides ==
    ASSUME Counting, NEW c \in Commands, Send(c)
    PROVE  /\ Len(log') = Len(log) + 1 /\ log'[Len(log) + 1] = c
           /\ \A i \in 1 .. Len(log) : log'[i] = log[i]
  BY SentIsLast DEF Send, Counting, TypeOK

\* The commands a picker gives.
LEMMA Given ==
    ASSUME Counting, Picker
    PROVE  \E c \in Commands :
             /\ Send(c)
             /\ UNCHANGED <<unscored, workerVars, answers, pickerVars>>
             /\ \/ /\ c = Query(query', generation + 1) /\ generation' = generation + 1
                   /\ query' \in Queries /\ UNCHANGED rows
                \/ /\ UNCHANGED <<generation, query>>
                   /\ \/ \E r \in Rows : c = Push(r) /\ rows' = rows \cup {r}
                      \/ c = Command("clear") /\ rows' = {}
                      \/ c.type \in {"ask", "keys"} /\ UNCHANGED rows
<1>1. ASSUME NEW q \in Queries, SetQuery(q)
      PROVE  Query(q, generation + 1) \in Commands
  <2>1. generation + 1 \in 1 .. MaxSent
    BY <1>1, SentAssumption DEF SetQuery, Send, Counting, TypeOK
  <2> QED BY <2>1 DEF Commands
<1>2. \A r \in Rows : Push(r) \in Commands
  BY DEF Commands
<1>3. \A t \in {"clear", "ask", "keys"} : Command(t) \in Commands /\ Command(t).type = t
  BY DEF Commands, Command
<1>4. CASE \E q \in Queries : SetQuery(q)
  BY <1>1, <1>4 DEF SetQuery
<1>5. CASE \E r \in Rows : Give(r)
  BY <1>2, <1>5 DEF Give
<1>6. CASE Clear
  BY <1>3, <1>6 DEF Clear
<1>7. CASE \E t \in {"ask", "keys"} : Request(t)
  BY <1>3, <1>7 DEF Request
<1> QED BY <1>4, <1>5, <1>6, <1>7 DEF Picker

\* Queries are numbered as they are given, so an older one never has the number
\* of the current one.
LEMMA NumberedInductive == Counting /\ Numbered /\ [Next]_vars => Numbered'
<1> SUFFICES ASSUME Counting, Numbered, [Next]_vars
             PROVE  Numbered'
  OBVIOUS
<1>1. CASE Picker
  <2>1. PICK c \in Commands :
          /\ Send(c) /\ UNCHANGED engine
          /\ \/ /\ c = Query(query', generation + 1) /\ generation' = generation + 1
             \/ UNCHANGED <<generation, query>> /\ ~IsQuery(c)
    <3>1. \A r : Push(r).type = "push" /\ Command("clear").type = "clear"
      BY KindsDiffer
    <3> QED BY <1>1, <3>1, Given DEF workerVars, IsQuery
  <2>2. /\ Len(log') = Len(log) + 1 /\ log'[Len(log) + 1] = c
        /\ \A i \in 1 .. Len(log) : log'[i] = log[i]
    BY <2>1, SentBesides
  <2>3. Len(log) \in Nat /\ generation \in Nat /\ engine.generation \in Nat
    BY SentAssumption DEF Counting, TypeOK
  <2>4. \A i \in 1 .. Len(log) : IsQuery(log[i]) => log[i].generation \in Nat
    <3> TAKE i \in 1 .. Len(log)
    <3>1. log[i] \in Commands
      BY DEF Counting, TypeOK
    <3> QED BY <3>1, SentAssumption DEF Commands, Command, Push, Query, IsQuery
  <2>5. CASE c = Query(query', generation + 1) /\ generation' = generation + 1
    <3>1. c.generation = generation' /\ c.query = query'
      BY <2>5, KindsDiffer
    <3>2. \A i \in 1 .. Len(log') : IsQuery(log'[i]) =>
            log'[i].generation =< generation'
              /\ (log'[i].generation = generation' => log'[i].query = query')
      <4> TAKE i \in 1 .. Len(log')
      <4>1. CASE i = Len(log) + 1
        BY <2>2, <2>3, <2>5, <3>1, <4>1
      <4>2. CASE i # Len(log) + 1
        BY <2>2, <2>3, <2>4, <2>5, <4>2 DEF Numbered
      <4> QED BY <4>1, <4>2
    <3>3. engine'.generation < generation'
      BY <2>1, <2>3, <2>5 DEF Numbered
    <3> QED BY <2>3, <2>1, <2>5, <3>2, <3>3 DEF Numbered, IsQuery
  <2>6. CASE UNCHANGED <<generation, query>> /\ ~IsQuery(c)
    <3>1. \A i \in 1 .. Len(log') : IsQuery(log'[i]) => i \in 1 .. Len(log)
      BY <2>2, <2>3, <2>6
    <3> QED BY <2>1, <2>2, <2>6, <3>1 DEF Numbered, IsQuery
  <2> QED BY <2>1, <2>5, <2>6
<1>2. CASE ApplyQuery
  <2>1. applied + 1 \in 1 .. Len(log) /\ IsQuery(Waiting)
    BY <1>2, WaitingIsCommand DEF ApplyQuery, Counting
  <2>2. engine'.generation = Waiting.generation /\ engine'.query = Waiting.query
    BY <1>2 DEF ApplyQuery, Counting, TypeOK
  <2> QED BY <1>2, <2>1, <2>2 DEF ApplyQuery, Numbered, Waiting, callerVars
<1>3. CASE Poll \/ (Worker /\ ~ApplyQuery) \/ UNCHANGED vars
  <2>1. UNCHANGED <<log, generation, query>> /\ engine'.generation = engine.generation
        /\ engine'.query = engine.query
    <3>1. CASE Score
      BY <3>1 DEF Score, Counting, TypeOK, callerVars
    <3>2. CASE Apply
      BY <3>2 DEF Apply, ApplyPush, ApplyClear, ApplyKeys, Counting, TypeOK, callerVars
    <3>3. CASE Poll \/ Take \/ Supersede \/ LookUp \/ AnswerSlice \/ UNCHANGED vars
      BY <3>3 DEF Poll, Take, Supersede, LookUp, AnswerSlice, vars, callerVars, workerVars
    <3> QED BY <1>3, <3>1, <3>2, <3>3 DEF Worker
  <2> QED BY <2>1 DEF Numbered, IsQuery
<1> QED BY <1>1, <1>2, <1>3 DEF Next

\* A query is left out only where a later one waits.
LEMMA LastInductive == Counting /\ LastIsCurrent /\ [Next]_vars => LastIsCurrent'
<1> SUFFICES ASSUME Counting, LastIsCurrent, [Next]_vars
             PROVE  LastIsCurrent'
  OBVIOUS
<1>0. Len(log) \in Nat /\ taken \in 0 .. Len(log) /\ applied \in 0 .. taken
  BY DEF Counting, TypeOK
<1>1. CASE Picker
  <2>1. PICK c \in Commands :
          /\ Send(c) /\ UNCHANGED <<engine, applied>>
          /\ \/ IsQuery(c) /\ c.query = query'
             \/ UNCHANGED query /\ ~IsQuery(c)
    <3>1. \A r : Push(r).type = "push" /\ Command("clear").type = "clear"
      BY KindsDiffer
    <3>2. \A q, g : Query(q, g).type = "query" /\ Query(q, g).query = q
      BY KindsDiffer
    <3> QED BY <1>1, <3>1, <3>2, Given DEF workerVars, IsQuery
  <2>2. /\ Len(log') = Len(log) + 1 /\ log'[Len(log) + 1] = c
        /\ \A i \in 1 .. Len(log) : log'[i] = log[i]
    BY <2>1, SentBesides
  <2>3. CASE IsQuery(c) /\ c.query = query'
    <3>1. \A i \in 0 .. Len(log) : ~NoQueryAfter(i)'
      BY <1>0, <2>2, <2>3 DEF NoQueryAfter, IsQuery
    <3>2. \A i \in 1 .. Len(log)' : i \in 0 .. Len(log) \/ i = Len(log) + 1
      BY <1>0, <2>2
    <3> QED BY <1>0, <2>1, <2>2, <2>3, <3>1, <3>2 DEF LastIsCurrent
  <2>4. CASE UNCHANGED query /\ ~IsQuery(c)
    <3>1. \A i \in 0 .. Len(log) : NoQueryAfter(i)' => NoQueryAfter(i)
      BY <1>0, <2>2 DEF NoQueryAfter, IsQuery
    <3>2. \A i \in 1 .. Len(log)' : IsQuery(log[i])' => i \in 1 .. Len(log) /\ IsQuery(log[i])
      BY <1>0, <2>2, <2>4 DEF IsQuery
    <3>3. applied' = applied /\ applied \in 0 .. Len(log) /\ engine' = engine
      BY <1>0, <2>1
    <3> QED BY <1>0, <2>2, <2>4, <3>1, <3>2, <3>3 DEF LastIsCurrent
  <2> QED BY <2>1, <2>3, <2>4
<1>2. CASE ApplyQuery
  <2>1. applied + 1 \in 1 .. Len(log) /\ IsQuery(log[applied + 1])
    BY <1>2, WaitingIsCommand DEF ApplyQuery, Counting, Waiting
  <2>2. engine'.query = log[applied + 1].query /\ applied' = applied + 1
    BY <1>2 DEF ApplyQuery, Counting, TypeOK, Waiting
  <2>3. UNCHANGED <<log, query>>
    BY <1>2 DEF ApplyQuery, callerVars
  <2> QED BY <2>1, <2>2, <2>3 DEF LastIsCurrent, NoQueryAfter, IsQuery
<1>3. CASE Supersede
  <2>1. applied' = applied + 1 /\ UNCHANGED <<log, query, engine>>
    BY <1>3 DEF Supersede, Counted, callerVars
  <2>2. ~NoQueryAfter(applied + 1)
    BY <1>0, <1>3 DEF Supersede, IsSuperseded, NoQueryAfter
  <2> QED BY <2>1, <2>2 DEF LastIsCurrent, NoQueryAfter, IsQuery
<1>4. CASE Apply
  <2>1. UNCHANGED <<log, query>> /\ engine'.query = engine.query /\ applied' = applied + 1
    BY <1>4 DEF Apply, ApplyPush, ApplyClear, ApplyKeys, Counting, TypeOK, callerVars
  <2>2. NoQueryAfter(applied + 1) => NoQueryAfter(applied)
    BY <1>0, <1>4 DEF Apply, Waiting, NoQueryAfter
  <2> QED BY <2>1, <2>2 DEF LastIsCurrent, NoQueryAfter, IsQuery
<1>5. CASE Score
  <2>1. UNCHANGED <<log, query, applied>> /\ engine'.query = engine.query
    BY <1>5 DEF Score, Counting, TypeOK, callerVars
  <2> QED BY <2>1 DEF LastIsCurrent, NoQueryAfter, IsQuery
<1>6. CASE Poll \/ Take \/ LookUp \/ AnswerSlice \/ UNCHANGED vars
  <2>1. UNCHANGED <<log, query, applied, engine>>
    BY <1>6 DEF Poll, Take, LookUp, AnswerSlice, vars, callerVars, workerVars
  <2> QED BY <2>1 DEF LastIsCurrent, NoQueryAfter, IsQuery
<1> QED BY <1>1, <1>2, <1>3, <1>4, <1>5, <1>6 DEF Next, Worker

-------------------------------------------------------------------------------
(* Rows.                                                                   *)

\* The worker holds the rows of the commands it has applied, in their order.
LEMMA RowsInductive == Counting /\ RowsAreTold /\ [Next]_vars => RowsAreTold'
<1> SUFFICES ASSUME Counting, RowsAreTold, [Next]_vars
             PROVE  RowsAreTold'
  OBVIOUS
<1>0. Len(log) \in Nat /\ taken \in 0 .. Len(log) /\ applied \in 0 .. taken
  BY DEF Counting, TypeOK
<1>a. rows = RowsOf(log, Len(log)) /\ engine.candidates = RowsOf(log, applied)
  BY RowsAtIsRowsOf DEF RowsAreTold
<1>b. SUFFICES /\ rows' = RowsOf(log', Len(log'))
               /\ engine'.candidates = RowsOf(log', applied')
  BY DEF RowsAreTold, RowsAt, RowsOf
<1>1. CASE Picker
  <2>1. PICK c \in Commands :
          /\ Send(c) /\ UNCHANGED <<engine, applied>>
          /\ \/ c.type \notin {"push", "clear"} /\ UNCHANGED rows
             \/ \E r \in Rows : c = Push(r) /\ rows' = rows \cup {r}
             \/ c = Command("clear") /\ rows' = {}
    <3>1. \A q, g : Query(q, g).type = "query"
      BY KindsDiffer
    <3> QED BY <1>1, <3>1, Given DEF workerVars
  <2>2. /\ Len(log') = Len(log) + 1 /\ log'[Len(log) + 1] = c
        /\ \A i \in 1 .. Len(log) : log'[i] = log[i]
    BY <2>1, SentBesides
  <2>3. RowsOf(log', applied) = RowsOf(log, applied)
    BY <1>0, <2>2, RowsOfPrefix
  <2>4. RowsOf(log', Len(log)) = RowsOf(log, Len(log))
    BY <1>0, <2>2, RowsOfPrefix
  <2>5. CASE c.type \notin {"push", "clear"} /\ UNCHANGED rows
    <3>1. RowsOf(log', Len(log) + 1) = RowsOf(log', Len(log))
      BY <1>0, <2>2, <2>5, RowsOfOther
    <3> QED BY <1>a, <2>1, <2>2, <2>3, <2>4, <2>5, <3>1
  <2>6. CASE \E r \in Rows : c = Push(r) /\ rows' = rows \cup {r}
    <3>1. PICK r \in Rows : c = Push(r) /\ rows' = rows \cup {r}
      BY <2>6
    <3>a. log'[Len(log) + 1] = Push(r)
      BY <2>2, <3>1
    <3>2. RowsOf(log', Len(log) + 1) = RowsOf(log', Len(log)) \cup {r}
      BY <1>0, <3>a, RowsOfPush
    <3> QED BY <1>a, <2>1, <2>2, <2>3, <2>4, <3>1, <3>2
  <2>7. CASE c = Command("clear") /\ rows' = {}
    <3>1. RowsOf(log', Len(log) + 1) = {}
      BY <1>0, <2>2, <2>7, RowsOfClear
    <3> QED BY <1>a, <2>1, <2>2, <2>3, <2>7, <3>1
  <2> QED BY <2>1, <2>5, <2>6, <2>7
<1>2. CASE Apply
  <2>1. UNCHANGED <<log, rows>> /\ applied' = applied + 1 /\ applied + 1 \in 1 .. Len(log)
        /\ Waiting = log[applied + 1] /\ Waiting \in Commands
    BY <1>2, WaitingIsCommand DEF Apply, Counting, Waiting, callerVars
  <2>2. CASE Waiting.type = "push" /\ ApplyPush(Waiting.row)
    <3>1. PICK r \in Rows : Waiting = Push(r)
      BY <2>1, <2>2, CommandKinds
    <3>2. Waiting.row = r
      BY <3>1, KindsDiffer
    <3>3. engine'.candidates = engine.candidates \cup {r}
      BY <2>2, <3>2 DEF ApplyPush, Counting, TypeOK
    <3>4. RowsOf(log, applied + 1) = RowsOf(log, applied) \cup {r}
      <4>1. log[applied + 1] = Push(r) /\ applied \in Nat /\ r \in Rows
        BY <1>0, <2>1, <3>1
      <4> QED BY <4>1, RowsOfPush
    <3> QED BY <1>a, <2>1, <3>3, <3>4
  <2>3. CASE Waiting.type = "clear" /\ ApplyClear
    <3>1. Waiting = Command("clear")
      BY <2>1, <2>3, CommandKinds
    <3>2. engine'.candidates = {}
      BY <2>3 DEF ApplyClear, Counting, TypeOK
    <3>3. RowsOf(log, applied + 1) = {}
      <4>1. log[applied + 1] = Command("clear") /\ applied \in Nat
        BY <1>0, <2>1, <3>1
      <4> QED BY <4>1, RowsOfClear
    <3> QED BY <1>a, <2>1, <3>2, <3>3
  <2>4. CASE Waiting.type \in {"keys", "ask"} /\ UNCHANGED engine
    <3>1. RowsOf(log, applied + 1) = RowsOf(log, applied)
      BY <1>0, <2>1, <2>4, RowsOfOther
    <3> QED BY <1>a, <2>1, <2>4, <3>1
  <2> QED BY <1>2, <2>2, <2>3, <2>4 DEF Apply, ApplyKeys
<1>3. CASE ApplyQuery \/ Supersede
  <2>1. UNCHANGED <<log, rows>> /\ applied' = applied + 1
        /\ engine'.candidates = engine.candidates /\ log[applied + 1].type = "query"
    BY <1>3 DEF ApplyQuery, Supersede, IsSuperseded, Counted, Counting, TypeOK, callerVars,
             IsQuery, Waiting
  <2>2. RowsOf(log, applied + 1) = RowsOf(log, applied)
    BY <1>0, <2>1, RowsOfOther
  <2> QED BY <1>a, <2>1, <2>2
<1>4. CASE Poll \/ Take \/ LookUp \/ Score \/ AnswerSlice \/ UNCHANGED vars
  <2>1. UNCHANGED <<log, rows, applied>> /\ engine'.candidates = engine.candidates
    <3>1. CASE Score
      BY <3>1 DEF Score, Counting, TypeOK, callerVars
    <3>2. CASE ~Score
      BY <1>4, <3>2 DEF Poll, Take, LookUp, AnswerSlice, vars, callerVars, workerVars
    <3> QED BY <3>1, <3>2
  <2> QED BY <1>a, <2>1
<1> QED BY <1>1, <1>2, <1>3, <1>4 DEF Next, Worker

-------------------------------------------------------------------------------
(* Matches.                                                                *)

\* What a query is scored against gives the matches all rows would, but those a
\* misleading query loses.
LEMMA PoolIsEnough ==
    ASSUME TypeOK, Exact, ~unscored, NEW q \in Queries
    PROVE  /\ Matching(q, PoolFor(q)) \subseteq Matching(q, engine.candidates)
           /\ GoesAstray(q) \/ Matching(q, PoolFor(q)) = Matching(q, engine.candidates)
<1>1. CASE engine.complete /\ Narrows(engine.query, q)
  <2>1. engine.candidates \in SUBSET Rows /\ PoolFor(q) = engine.hits
    BY <1>1 DEF TypeOK, PoolFor
  <2>2. ExactBut(engine.hits, Matching(engine.query, engine.candidates))
    BY <1>1 DEF Exact, Listed
  <2>3. CASE engine.astray \/ Misleads(engine.query, q)
    BY <1>1, <2>1, <2>2, <2>3 DEF GoesAstray, ExactBut, Matching
  <2>4. CASE ~engine.astray /\ ~Misleads(engine.query, q)
    <3>1. \A r \in Rows : Matches(q, r) => Matches(engine.query, r)
      BY <1>1, <2>4 DEF Misleads
    <3> QED BY <2>1, <2>2, <2>4, <3>1 DEF ExactBut, Matching
  <2> QED BY <2>3, <2>4
<1>2. CASE ~(engine.complete /\ Narrows(engine.query, q))
  BY <1>2 DEF PoolFor
<1> QED BY <1>1, <1>2

\* Nothing the worker does leaves matches that are taken for complete and are not.
LEMMA ExactInductive == Counting /\ Exact /\ [Next]_vars => Exact'
<1> SUFFICES ASSUME Counting, Exact, [Next]_vars
             PROVE  Exact'
  OBVIOUS
<1>0. Len(log) \in Nat /\ taken \in 0 .. Len(log) /\ applied \in 0 .. taken
  BY DEF Counting, TypeOK
<1>a. TypeOK
  BY DEF Counting
<1>1. CASE Picker
  <2>1. UNCHANGED <<unscored, engine, pool, pc, taken, applied>>
        /\ \A i \in 1 .. Len(log) : log'[i] = log[i]
    <3>1. PICK c \in Commands : Send(c) /\ UNCHANGED <<unscored, workerVars>>
      BY <1>1, Given
    <3> QED BY <3>1, SentBesides DEF workerVars
  <2>2. \A i \in applied + 1 .. taken : Cuts(log[i])' <=> Cuts(log[i])
    BY <1>0, <2>1 DEF Cuts
  <2>3. (\E i \in applied + 1 .. taken : Cuts(log[i])) =>
          (\E i \in applied' + 1 .. taken' : Cuts(log[i])')
    BY <2>1, <2>2
  <2> QED BY <2>1, <2>3 DEF Exact, ExactBut, Listed
<1>2. CASE ApplyQuery
  <2> DEFINE q == Waiting.query
  <2>1. q \in Queries /\ UNCHANGED unscored /\ pc = "applying"
    BY <1>2, WaitingIsCommand DEF ApplyQuery, Counting, callerVars
  <2>2. CASE unscored
    <3>1. engine'.complete = engine.complete /\ engine'.hits = engine.hits
          /\ engine'.candidates = engine.candidates /\ engine'.astray = engine.astray
          /\ pc' = pc
      BY <1>2, <2>2 DEF ApplyQuery, Counting, TypeOK
    <3> QED BY <2>1, <2>2, <3>1 DEF Exact, ExactBut, Listed
  <2>3. CASE ~unscored
    <3>1. /\ engine'.complete = FALSE /\ engine'.query = q /\ pc' = "scoring"
          /\ engine'.candidates = engine.candidates /\ pool' = PoolFor(q)
          /\ engine'.astray = GoesAstray(q)
      BY <1>2, <2>3 DEF ApplyQuery, Counting, TypeOK
    <3>2. /\ Matching(q, PoolFor(q)) \subseteq Matching(q, engine.candidates)
          /\ GoesAstray(q) \/ Matching(q, PoolFor(q)) = Matching(q, engine.candidates)
      BY <1>a, <2>1, <2>3, PoolIsEnough
    <3>3. ExactBut(Matching(engine.query, pool), Matching(engine.query, engine.candidates))'
      BY <3>1, <3>2 DEF ExactBut, Matching
    <3> QED BY <2>1, <2>3, <3>1, <3>3 DEF Exact
  <2> QED BY <2>2, <2>3
<1>3. CASE Supersede
  <2>1. UNCHANGED <<unscored, log, taken, pc, engine, pool>> /\ applied' = applied + 1
    BY <1>3 DEF Supersede, Counted, callerVars
  <2>2. \E i \in applied + 2 .. taken : Cuts(log[i])
    BY <1>3 DEF Supersede, IsSuperseded, IsQuery, Cuts
  <2>3. \E i \in applied' + 1 .. taken' : Cuts(log[i])'
    BY <1>0, <2>1, <2>2 DEF Cuts
  <2> QED BY <2>1, <2>3 DEF Exact, ExactBut, Listed
<1>4. CASE LookUp
  <2>1. UNCHANGED <<unscored, log, applied, engine, pool>> /\ taken' = Len(log)
        /\ pc = "scoring"
    BY <1>4 DEF LookUp, callerVars
  <2>2. pc' # "scoring" => \E i \in applied' + 1 .. taken' : Cuts(log[i])'
    BY <1>4, <2>1 DEF LookUp, Stop, Cuts
  <2> QED BY <2>1, <2>2 DEF Exact, ExactBut, Listed
<1>5. CASE Score
  <2>1. /\ engine'.hits = Matching(engine.query, pool) /\ engine'.complete = TRUE
        /\ engine'.query = engine.query /\ engine'.candidates = engine.candidates
        /\ engine'.astray = engine.astray /\ pc' = "applying" /\ UNCHANGED unscored /\ pc = "scoring"
    BY <1>5 DEF Score, Counting, TypeOK, callerVars
  <2> QED BY <2>1 DEF Exact, ExactBut, Listed
<1>6. CASE Apply
  <2>1. /\ UNCHANGED <<unscored, log, taken, pc>> /\ applied' = applied + 1
        /\ pc = "applying" /\ applied < taken
    BY <1>6 DEF Apply, callerVars
  <2>2. engine.query \in Queries /\ engine.candidates \in SUBSET Rows
        /\ engine.hits \in SUBSET Rows
    BY DEF Counting, TypeOK
  <2>3. CASE Waiting.type # "clear"
    <3>1. ~Cuts(log[applied + 1])
      BY <1>6, <2>3 DEF Apply, Cuts, IsQuery, Waiting
    <3>2. ~engine.complete => \E i \in applied' + 1 .. taken' : Cuts(log[i])'
      BY <1>0, <2>1, <3>1 DEF Exact, Cuts
    <3>3. CASE UNCHANGED engine
      BY <2>1, <3>2, <3>3 DEF Exact, ExactBut, Listed
    <3>4. CASE Waiting.type = "push" /\ ApplyPush(Waiting.row) /\ engine' # engine
      <4>1. Waiting.row \in Rows
        BY <2>1, <3>4, <1>a, WaitingIsCommand
      <4>2. /\ engine'.candidates = engine.candidates \cup {Waiting.row}
            /\ engine'.hits = engine.hits \cup Listed(engine.query, {Waiting.row})
            /\ engine'.query = engine.query /\ engine'.complete = engine.complete
            /\ engine'.astray = engine.astray
        BY <3>4 DEF ApplyPush, Counting, TypeOK
      <4>3. Listed(engine.query, engine.candidates \cup {Waiting.row})
              = Listed(engine.query, engine.candidates)
                  \cup Listed(engine.query, {Waiting.row})
        BY <2>2, <4>1 DEF Listed, Matching
      <4>4. engine'.complete =>
              ExactBut(engine.hits, Listed(engine.query, engine.candidates))'
        BY <2>1, <4>2, <4>3 DEF Exact, ExactBut, Listed
      <4> QED BY <2>1, <3>2, <4>2, <4>4 DEF Exact, ExactBut, Listed
    <3> QED BY <1>6, <2>3, <3>3, <3>4 DEF Apply, ApplyKeys
  <2>4. CASE Waiting.type = "clear"
    <3>1. engine'.complete = TRUE /\ engine'.hits = {} /\ engine'.candidates = {}
          /\ engine'.query = engine.query /\ engine'.astray = FALSE
      BY <1>6, <2>4 DEF Apply, ApplyClear, Counting, TypeOK
    <3>2. Listed(engine.query, {}) = {}
      BY <2>2, ListedIsRows
    <3> QED BY <2>1, <3>1, <3>2 DEF Exact, ExactBut, Listed
  <2> QED BY <2>3, <2>4
<1>7. CASE Take
  <2>1. UNCHANGED <<unscored, log, applied, engine>> /\ taken' = Len(log)
        /\ pc # "scoring" /\ pc' # "scoring"
    BY <1>7 DEF Take, callerVars
  <2>2. (\E i \in applied + 1 .. taken : Cuts(log[i])) =>
          (\E i \in applied' + 1 .. taken' : Cuts(log[i])')
    BY <1>0, <2>1 DEF Cuts
  <2> QED BY <2>1, <2>2 DEF Exact, ExactBut, Listed
<1>8. CASE Poll \/ AnswerSlice \/ UNCHANGED vars
  <2>1. UNCHANGED <<unscored, log, taken, applied, engine, pool>> /\ (pc' = pc \/ pc' = "idle")
        /\ (pc = "scoring" => pc' = pc)
    BY <1>8 DEF Poll, AnswerSlice, vars, callerVars, workerVars
  <2>2. pc' # "scoring" /\ ~engine.complete =>
          \E i \in applied' + 1 .. taken' : Cuts(log[i])'
    BY <2>1 DEF Exact, Cuts
  <2> QED BY <2>1, <2>2 DEF Exact, ExactBut, Listed
<1> QED BY <1>1, <1>2, <1>3, <1>4, <1>5, <1>6, <1>7, <1>8 DEF Next, Worker

LEMMA InitExact == Init => Exact
<1> SUFFICES ASSUME Init PROVE Exact
  OBVIOUS
<1>1. engine.complete /\ engine.hits = {} /\ engine.candidates = {} /\ pc = "idle"
      /\ engine.query = Empty /\ ~engine.astray
  BY DEF Init
<1>2. Listed(Empty, {}) = {}
  BY ListedIsRows, EmptyAssumption
<1> QED BY <1>1, <1>2 DEF Exact, ExactBut

\* The engine's matches are those of its query among all its rows, or are about
\* to be scored afresh: a query matched against the last matches only, cut short,
\* left out, or answered while rows came, never leaves it with others, and with
\* fewer only from a query that misleads until one that does not narrow, whatever
\* narrows says of any two queries (matcher.rs set_query).
THEOREM EngineExactness == Spec => []EngineIsExact
<1>1. Exact => EngineIsExact
  BY DEF Exact, ExactBut, EngineIsExact
<1> QED BY <1>1, InitCounting, InitExact, CountingInductive, ExactInductive, PTL DEF Spec

-------------------------------------------------------------------------------
(* Queries that mislead.                                                   *)

\* A query among the commands has been asked.
LEMMA GivenIsAsked ==
    ASSUME NEW i \in 1 .. Len(log), IsQuery(log[i])
    PROVE  log[i].query \in Asked
  BY DEF Asked

\* What was asked stays so, and so does what misled.
LEMMA AskedStays ==
    ASSUME Counting, [Next]_vars
    PROVE  /\ \A q \in Asked : q \in Asked'
           /\ Misled => Misled'
<1>1. CASE Picker
  <2>1. PICK c \in Commands : Send(c)
    BY <1>1, Given
  <2>2. Len(log) \in Nat /\ Len(log') = Len(log) + 1
        /\ \A i \in 1 .. Len(log) : log'[i] = log[i]
    BY <2>1, SentBesides DEF Counting, TypeOK
  <2>3. \A i \in 1 .. Len(log) : IsQuery(log[i]) =>
          i \in 1 .. Len(log') /\ IsQuery(log'[i]) /\ log'[i].query = log[i].query
    BY <2>2
  <2>4. \A q \in Asked : q \in Asked'
    BY <2>3 DEF Asked, IsQuery
  <2> QED BY <2>4 DEF Misled, Misleads
<1>2. CASE UNCHANGED log
  BY <1>2 DEF Asked, Misled, Misleads, IsQuery
<1>3. Poll \/ Worker \/ UNCHANGED vars => UNCHANGED log
  BY DEF Poll, Worker, Take, Supersede, ApplyQuery, LookUp, Score, Apply, AnswerSlice, vars,
     callerVars
<1> QED BY <1>1, <1>2, <1>3 DEF Next

\* Rows are lost only after a query that was asked, from another that was.
LEMMA AstrayInductive ==
    Counting /\ AstrayIsMisled /\ [Next]_vars => AstrayIsMisled'
<1> SUFFICES ASSUME Counting, AstrayIsMisled, [Next]_vars
             PROVE  AstrayIsMisled'
  OBVIOUS
<1>1. CASE ApplyQuery
  <2> DEFINE q == Waiting.query
  <2>1. UNCHANGED log /\ q \in Asked
    BY <1>1, WaitingIsCommand, GivenIsAsked DEF ApplyQuery, Counting, Waiting, callerVars
  <2>2. engine'.query = q /\ (engine'.astray => engine.astray \/ GoesAstray(q))
    BY <1>1 DEF ApplyQuery, Counting, TypeOK
  <2>3. GoesAstray(q) => Misled
    BY <2>1 DEF GoesAstray, AstrayIsMisled, Misled
  <2> HIDE DEF q
  <2> QED BY <2>1, <2>2, <2>3, AskedStays DEF AstrayIsMisled
<1>2. CASE ~ApplyQuery
  <2>1. engine'.query = engine.query /\ (engine'.astray => engine.astray)
    <3>1. CASE Picker
      BY <3>1, Given DEF workerVars
    <3>2. CASE Score
      BY <3>2 DEF Score, Counting, TypeOK
    <3>3. CASE Apply
      BY <3>3 DEF Apply, ApplyPush, ApplyClear, ApplyKeys, Counting, TypeOK
    <3>4. CASE Poll \/ Take \/ Supersede \/ LookUp \/ AnswerSlice \/ UNCHANGED vars
      BY <3>4 DEF Poll, Take, Supersede, LookUp, AnswerSlice, vars, workerVars
    <3> QED BY <1>2, <3>1, <3>2, <3>3, <3>4 DEF Next, Worker
  <2> QED BY <2>1, AskedStays DEF AstrayIsMisled
<1> QED BY <1>1, <1>2

-------------------------------------------------------------------------------
(* Answers.                                                                *)

\* An answer on its way stays exact, or is of an older query or a cut, whatever
\* the picker gives meanwhile.
LEMMA AnswersOutlive ==
    ASSUME Counting, Picker
    PROVE  /\ \A a \in Answers : SliceIsExact(a) => SliceIsExact(a)'
           /\ \A n \in 0 .. MaxSent, R \in SUBSET Rows : KeysAnswer(n, R) => KeysAnswer(n, R)'
<1>0. Len(log) \in Nat /\ generation \in Nat /\ MaxSent \in Nat
  BY SentAssumption DEF Counting, TypeOK
<1>1. PICK c \in Commands :
        /\ Send(c) /\ UNCHANGED unscored
        /\ \/ Cuts(c) /\ IsQuery(c) /\ generation' = generation + 1
           \/ UNCHANGED <<query, generation>> /\ ~IsQuery(c)
  <2>1. \A r : Push(r).type = "push" /\ Command("clear").type = "clear"
    BY KindsDiffer
  <2>2. \A q, g : Query(q, g).type = "query"
    BY KindsDiffer
  <2> QED BY <2>1, <2>2, Given DEF IsQuery, Cuts
<1>2. /\ Len(log') = Len(log) + 1 /\ log'[Len(log) + 1] = c
      /\ \A i \in 1 .. Len(log) : log'[i] = log[i]
  BY <1>1, SentBesides
<1>3. \A n \in 0 .. Len(log) : RowsAt(n)' = RowsAt(n)
  <2> TAKE n \in 0 .. Len(log)
  <2>1. RowsOf(log', n) = RowsOf(log, n)
    BY <1>0, <1>2, RowsOfPrefix
  <2> QED BY <2>1 DEF RowsAt, RowsOf
<1>6. Misled => Misled'
  BY AskedStays DEF Next
<1>4. ASSUME NEW a \in Answers, SliceIsExact(a)
      PROVE  SliceIsExact(a)'
  <2>1. SUFFICES ASSUME a.keys = 0
                 PROVE  SliceIsExact(a)'
    BY DEF SliceIsExact
  <2>2. a.applied \in 0 .. Len(log) /\ a.generation \in Nat /\ a.generation =< generation
    BY <1>0, <1>4, <2>1 DEF SliceIsExact, Answers
  <2>3. RowsAt(a.applied)' = RowsAt(a.applied)
    BY <1>3, <2>2
  <2> QED BY <1>0, <1>1, <1>2, <1>4, <1>6, <2>1, <2>2, <2>3 DEF SliceIsExact, IsAnswer, Listed
<1>5. ASSUME NEW n \in 0 .. MaxSent, NEW R \in SUBSET Rows, KeysAnswer(n, R)
      PROVE  KeysAnswer(n, R)'
  <2>1. SUFFICES ASSUME n # 0
                 PROVE  KeysAnswer(n, R)'
    BY DEF KeysAnswer
  <2>2. n \in 1 .. Len(log)
    BY <1>0, <1>5, <2>1 DEF KeysAnswer
  <2>3. NoCutAfter(n)' => NoCutAfter(n) /\ ~Cuts(c)
    BY <1>0, <1>2, <2>2 DEF NoCutAfter, Cuts
  <2>4. RowsAt(n)' = RowsAt(n)
    BY <1>3, <2>2
  <2>5. Cuts(c) \/ UNCHANGED query
    BY <1>1
  <2> QED BY <1>0, <1>1, <1>2, <1>5, <1>6, <2>1, <2>2, <2>3, <2>4, <2>5
          DEF KeysAnswer, IsAnswer, Listed
<1> QED BY <1>4, <1>5

\* What the engine holds when nothing is left that cuts it are the current
\* matches.
LEMMA HitsAreCurrent ==
    ASSUME IInv, pc # "scoring", NoCutAfter(applied)
    PROVE  IsAnswer(engine.hits, RowsAt(applied))
<1>0. taken \in 0 .. Len(log) /\ applied \in 0 .. taken /\ Len(log) \in Nat
  BY DEF IInv, Counting, TypeOK
<1>1. engine.complete
  BY <1>0 DEF IInv, Exact, NoCutAfter
<1>2. engine.query = query
  BY DEF IInv, LastIsCurrent, NoQueryAfter, NoCutAfter, Cuts, IsQuery
<1> QED BY <1>1, <1>2 DEF IInv, Exact, ExactBut, AstrayIsMisled, RowsAreTold, IsAnswer

\* Whether a query misleads is told by what the picker gave.
LEMMA MisledStays == UNCHANGED callerVars => (Misled' <=> Misled)
  BY DEF callerVars, Misled, Misleads, Asked, IsQuery

LEMMA AnswersInductive == IInv /\ [Next]_vars => AnswersAreExact'
<1> SUFFICES ASSUME IInv, [Next]_vars
             PROVE  AnswersAreExact'
  OBVIOUS
<1>0. /\ Counting /\ TypeOK /\ AnswersAreExact
      /\ answers \in Seq(Answers) /\ taken \in 0 .. Len(log) /\ applied \in 0 .. taken
      /\ Len(log) \in Nat /\ Len(answers) \in Nat
      /\ keys.asked \in 0 .. MaxSent /\ keys.matched \in SUBSET Rows
  BY DEF IInv, Counting, TypeOK
<1>a. \A i \in 1 .. Len(answers) :
        /\ answers[i] \in Answers /\ answers[i].keys \in 0 .. MaxSent
        /\ answers[i].matched \in SUBSET Rows
  <2> TAKE i \in 1 .. Len(answers)
  <2>1. answers[i] \in Answers
    BY <1>0
  <2> QED BY <2>1, SentAssumption DEF Answers
<1>1. CASE Picker
  <2>1. UNCHANGED <<answers, keys>>
    BY <1>0, <1>1, Given DEF pickerVars
  <2>2. ASSUME NEW i \in 1 .. Len(answers)
        PROVE  SliceIsExact(answers[i])' /\ KeysAnswer(answers[i].keys, answers[i].matched)'
    <3>1. SliceIsExact(answers[i]) /\ KeysAnswer(answers[i].keys, answers[i].matched)
      BY <1>0 DEF AnswersAreExact
    <3>2. PICK a \in Answers : a = answers[i]
      BY <1>a
    <3>3. SliceIsExact(a) /\ a.keys \in 0 .. MaxSent /\ a.matched \in SUBSET Rows
          /\ KeysAnswer(a.keys, a.matched)
      BY <1>a, <3>1, <3>2
    <3>4. SliceIsExact(a)' /\ KeysAnswer(a.keys, a.matched)'
      BY <1>0, <1>1, <3>3, AnswersOutlive
    <3>5. answers'[i] = a
      BY <2>1, <3>2
    <3> QED BY <3>4, <3>5 DEF SliceIsExact, KeysAnswer, NoCutAfter, IsAnswer, Listed, RowsAt
  <2>3. KeysAnswer(keys.asked, keys.matched)'
    <3>1. PICK n \in 0 .. MaxSent, R \in SUBSET Rows : n = keys.asked /\ R = keys.matched
      BY <1>0
    <3>2. KeysAnswer(n, R)
      BY <1>0, <3>1 DEF AnswersAreExact
    <3>3. KeysAnswer(n, R)'
      BY <1>0, <1>1, <3>2, AnswersOutlive
    <3>4. keys'.asked = n /\ keys'.matched = R
      BY <2>1, <3>1
    <3> QED BY <3>3, <3>4 DEF KeysAnswer, NoCutAfter, IsAnswer, Listed, RowsAt
  <2> QED BY <2>1, <2>2, <2>3 DEF AnswersAreExact
<1>2. CASE Poll
  <2>1. UNCHANGED callerVars /\ answers' = Tail(answers) /\ answers # <<>>
    BY <1>2 DEF Poll
  <2>2. /\ Len(answers') = Len(answers) - 1 /\ 1 \in 1 .. Len(answers)
        /\ \A i \in 1 .. Len(answers') : answers'[i] = answers[i + 1]
        /\ Head(answers) = answers[1]
    BY <1>0, <2>1
  <2>3. ASSUME NEW i \in 1 .. Len(answers)'
        PROVE  SliceIsExact(answers[i])' /\ KeysAnswer(answers[i].keys, answers[i].matched)'
    <3>1. i + 1 \in 1 .. Len(answers) /\ answers'[i] = answers[i + 1]
      BY <1>0, <2>2
    <3>2. SliceIsExact(answers[i + 1])
          /\ KeysAnswer(answers[i + 1].keys, answers[i + 1].matched)
      BY <1>0, <3>1 DEF AnswersAreExact
    <3> QED BY <2>1, <3>1, <3>2, MisledStays
            DEF callerVars, SliceIsExact, KeysAnswer, NoCutAfter, IsAnswer, Listed, RowsAt, Cuts
  <2>4. KeysAnswer(keys.asked, keys.matched)'
    <3>1. CASE keys' = keys
      BY <1>0, <2>1, <3>1, MisledStays
         DEF AnswersAreExact, callerVars, KeysAnswer, NoCutAfter, IsAnswer, Listed, RowsAt, Cuts
    <3>2. CASE keys' = [asked |-> answers[1].keys, matched |-> answers[1].matched]
      <4>1. KeysAnswer(answers[1].keys, answers[1].matched)
        BY <1>0, <2>2 DEF AnswersAreExact
      <4>2. keys'.asked = answers[1].keys /\ keys'.matched = answers[1].matched
        BY <3>2
      <4> QED BY <2>1, <4>1, <4>2, MisledStays
              DEF callerVars, KeysAnswer, NoCutAfter, IsAnswer, Listed, RowsAt, Cuts
    <3> QED BY <1>2, <2>2, <3>1, <3>2 DEF Poll, pickerVars
  <2> QED BY <2>3, <2>4 DEF AnswersAreExact
<1>3. ASSUME UNCHANGED <<callerVars, keys>>, NEW a \in Answers, answers' = Append(answers, a),
             (SliceIsExact(a) /\ KeysAnswer(a.keys, a.matched))
      PROVE  AnswersAreExact'
  <2>1. /\ Len(answers') = Len(answers) + 1 /\ answers'[Len(answers) + 1] = a
        /\ \A i \in 1 .. Len(answers) : answers'[i] = answers[i]
    BY <1>0, <1>3, AppendProperties
  <2>2. ASSUME NEW i \in 1 .. Len(answers)'
        PROVE  SliceIsExact(answers[i])' /\ KeysAnswer(answers[i].keys, answers[i].matched)'
    <3>1. CASE i = Len(answers) + 1
      <4>1. answers'[i] = a
        BY <2>1, <3>1
      <4> QED BY <1>3, <4>1, MisledStays
              DEF callerVars, SliceIsExact, KeysAnswer, NoCutAfter, IsAnswer, Listed, RowsAt, Cuts
    <3>2. CASE i # Len(answers) + 1
      <4>1. i \in 1 .. Len(answers) /\ answers'[i] = answers[i]
        BY <1>0, <2>1, <3>2
      <4>2. SliceIsExact(answers[i]) /\ KeysAnswer(answers[i].keys, answers[i].matched)
        BY <1>0, <4>1 DEF AnswersAreExact
      <4>3. SliceIsExact(answers[i])'
        BY <1>3, <4>1, <4>2, MisledStays DEF callerVars, SliceIsExact, IsAnswer, Listed, RowsAt
      <4>4. KeysAnswer(answers[i].keys, answers[i].matched)'
        BY <1>3, <4>1, <4>2, MisledStays
           DEF callerVars, KeysAnswer, NoCutAfter, IsAnswer, Listed, RowsAt, Cuts
      <4> QED BY <4>3, <4>4
    <3> QED BY <3>1, <3>2
  <2>3. KeysAnswer(keys.asked, keys.matched)'
    BY <1>0, <1>3, MisledStays
       DEF AnswersAreExact, callerVars, KeysAnswer, NoCutAfter, IsAnswer, Listed, RowsAt, Cuts
  <2> QED BY <2>2, <2>3 DEF AnswersAreExact
<1>4. CASE AnswerSlice
  <2> DEFINE a == [keys |-> 0, generation |-> engine.generation, applied |-> applied,
                   matched |-> engine.hits]
  <2>1. UNCHANGED <<callerVars, keys>> /\ answers' = Append(answers, a)
        /\ pc # "scoring" /\ applied = taken
    BY <1>4 DEF AnswerSlice, pickerVars
  <2>2. a \in Answers
    BY <1>0, SentAssumption DEF Answers, TypeOK
  <2>3. engine.query = query => IsAnswer(engine.hits, RowsAt(applied))
    BY <1>0, <2>1 DEF IInv, Exact, ExactBut, AstrayIsMisled, RowsAreTold, IsAnswer
  <2>4. SliceIsExact(a) /\ KeysAnswer(a.keys, a.matched)
    BY <1>0, <2>3 DEF SliceIsExact, KeysAnswer, IInv, Numbered
  <2> HIDE DEF a
  <2> QED BY <1>3, <2>1, <2>2, <2>4
<1>5. CASE Apply /\ answers' # answers
  <2> DEFINE a == [keys |-> applied + 1, matched |-> engine.hits]
  <2>1. UNCHANGED <<callerVars, keys>> /\ answers' = Append(answers, a)
        /\ pc # "scoring" /\ Waiting.type = "keys" /\ applied < taken
    BY <1>5 DEF Apply, ApplyPush, ApplyClear, ApplyKeys, pickerVars
  <2>2. a \in Answers /\ applied + 1 \in 1 .. Len(log)
    BY <1>0, <2>1, SentAssumption DEF Answers, TypeOK
  <2>3. ~Cuts(log[applied + 1]) /\ log[applied + 1].type \notin {"push", "clear"}
    BY <2>1 DEF Waiting, Cuts
  <2>4. NoCutAfter(applied + 1) => NoCutAfter(applied)
    BY <1>0, <2>3 DEF NoCutAfter
  <2>5. RowsAt(applied + 1) = RowsAt(applied)
    <3>1. RowsOf(log, applied + 1) = RowsOf(log, applied)
      BY <1>0, <2>3, RowsOfOther
    <3> QED BY <3>1, RowsAtIsRowsOf
  <2>6. KeysAnswer(applied + 1, engine.hits)
    BY <1>0, <2>1, <2>2, <2>4, <2>5, HitsAreCurrent DEF KeysAnswer
  <2>7. SliceIsExact(a) /\ KeysAnswer(a.keys, a.matched)
    BY <1>0, <2>6 DEF SliceIsExact
  <2> HIDE DEF a
  <2> QED BY <1>3, <2>1, <2>2, <2>7
<1>6. CASE /\ UNCHANGED answers
           /\ Take \/ Supersede \/ ApplyQuery \/ LookUp \/ Score \/ Apply \/ UNCHANGED vars
  <2>1. UNCHANGED <<callerVars, answers, keys>>
    BY <1>6 DEF Take, Supersede, ApplyQuery, LookUp, Score, Apply, vars, pickerVars
  <2>2. ASSUME NEW i \in 1 .. Len(answers)'
        PROVE  SliceIsExact(answers[i])' /\ KeysAnswer(answers[i].keys, answers[i].matched)'
    <3>1. i \in 1 .. Len(answers) /\ answers'[i] = answers[i]
      BY <2>1
    <3>2. SliceIsExact(answers[i]) /\ KeysAnswer(answers[i].keys, answers[i].matched)
      BY <1>0, <3>1 DEF AnswersAreExact
    <3> QED BY <2>1, <3>1, <3>2, MisledStays
            DEF callerVars, SliceIsExact, KeysAnswer, NoCutAfter, IsAnswer, Listed, RowsAt, Cuts
  <2>3. KeysAnswer(keys.asked, keys.matched)'
    BY <1>0, <2>1, MisledStays
       DEF AnswersAreExact, callerVars, KeysAnswer, NoCutAfter, IsAnswer, Listed, RowsAt, Cuts
  <2> QED BY <2>2, <2>3 DEF AnswersAreExact
<1>7. Take \/ Supersede \/ ApplyQuery \/ LookUp \/ Score \/ UNCHANGED vars => UNCHANGED answers
  BY DEF Take, Supersede, ApplyQuery, LookUp, Score, vars
<1> QED BY <1>1, <1>2, <1>4, <1>5, <1>6, <1>7 DEF Next, Worker

-------------------------------------------------------------------------------
(* What the picker gets.                                                   *)

LEMMA InitIInv == Init => IInv
<1> SUFFICES ASSUME Init PROVE IInv
  OBVIOUS
<1>1. log = <<>> /\ Len(log) = 0 /\ answers = <<>> /\ Len(answers) = 0 /\ keys.asked = 0
      /\ generation = 0 /\ engine.generation = 0 /\ engine.query = query /\ rows = {}
      /\ engine.candidates = {} /\ applied = 0
  BY DEF Init, NoKeys
<1>2. RowsAt(0) = {}
  BY RowsAtIsRowsOf, RowsOfNone
<1>3. Numbered /\ LastIsCurrent
  BY <1>1 DEF Numbered, LastIsCurrent
<1>4. RowsAreTold
  BY <1>1, <1>2 DEF RowsAreTold
<1>5. AnswersAreExact
  BY <1>1 DEF AnswersAreExact, KeysAnswer
<1>6. AstrayIsMisled
  BY DEF Init, AstrayIsMisled, Asked
<1> QED BY <1>3, <1>4, <1>5, <1>6, InitCounting, InitExact DEF IInv

LEMMA IInvInductive == IInv /\ [Next]_vars => IInv'
  BY CountingInductive, NumberedInductive, LastInductive, RowsInductive, ExactInductive,
     AstrayInductive, AnswersInductive DEF IInv

\* Rows asked for to be saved are the matches at the asking, though the asking may
\* have waited behind a query being scored, unless a query or a clearing follows;
\* rows are missing among them only where one query asked misleads after another.
THEOREM KeysExactness == Spec => []KeysAreExact
<1>1. IInv => KeysAreExact
  BY DEF IInv, AnswersAreExact, KeysAnswer, NoCutAfter, KeysAreExact
<1> QED BY <1>1, InitIInv, IInvInductive, PTL DEF Spec

\* The queries asked are those given before and the one given last.
LEMMA AskedGrows ==
    ASSUME Counting, Picker
    PROVE  \/ query' \in Queries /\ Asked' = Asked \cup {query'} /\ UNCHANGED rows
           \/ UNCHANGED <<query, Asked>>
<1>1. PICK c \in Commands :
        /\ Send(c)
        /\ \/ /\ IsQuery(c) /\ c.query = query' /\ query' \in Queries /\ UNCHANGED rows
           \/ ~IsQuery(c) /\ UNCHANGED query
  <2>1. \A r : Push(r).type = "push" /\ Command("clear").type = "clear"
    BY KindsDiffer
  <2>2. \A q, g : Query(q, g).type = "query" /\ Query(q, g).query = q
    BY KindsDiffer
  <2> QED BY <2>1, <2>2, Given DEF IsQuery
<1>2. /\ Len(log) \in Nat /\ Len(log') = Len(log) + 1 /\ log'[Len(log) + 1] = c
      /\ \A i \in 1 .. Len(log) : log'[i] = log[i]
  BY <1>1, SentBesides DEF Counting, TypeOK
<1>3. \A i : i \in 1 .. Len(log') <=> i \in 1 .. Len(log) \/ i = Len(log) + 1
  BY <1>2
<1>4. \A i \in 1 .. Len(log') :
        (i \in 1 .. Len(log) => log'[i] = log[i]) /\ (i \notin 1 .. Len(log) => log'[i] = c)
  BY <1>2, <1>3
<1>5. CASE IsQuery(c) /\ c.query = query' /\ query' \in Queries /\ UNCHANGED rows
  <2>1. \A x : x \in Asked' <=> x \in Asked \cup {query'}
    BY <1>2, <1>3, <1>4, <1>5 DEF Asked, IsQuery
  <2> QED BY <1>5, <2>1
<1>6. CASE ~IsQuery(c) /\ UNCHANGED query
  <2>1. \A x : x \in Asked' <=> x \in Asked
    BY <1>2, <1>3, <1>4, <1>6 DEF Asked, IsQuery
  <2> QED BY <1>6, <2>1
<1> QED BY <1>1, <1>5, <1>6

\* Every step gives or clears, shows what is promised, or changes nothing that the
\* picker sees.
LEMMA PromiseStep ==
    IInv /\ TypeOK' /\ [Next]_vars => [Promise!Next]_Promise!vars
<1> SUFFICES ASSUME IInv, TypeOK', [Next]_vars
             PROVE  [Promise!Next]_Promise!vars
  OBVIOUS
<1>1. CASE Picker
  <2>1. UNCHANGED <<unscored, view>>
    BY <1>1, Given DEF IInv, pickerVars
  <2>2. rows' \in SUBSET Rows
    BY DEF TypeOK
  <2>3. CASE query' \in Queries /\ Asked' = Asked \cup {query'} /\ UNCHANGED rows
    BY <2>1, <2>3 DEF Promise!Next, Promise!Ask
  <2>4. CASE UNCHANGED <<query, Asked>>
    BY <2>1, <2>2, <2>4 DEF Promise!Next, Promise!Give
  <2> QED BY <1>1, <2>3, <2>4, AskedGrows DEF IInv
<1>2. CASE Poll /\ view' # view
  <2> DEFINE a == Head(answers)
  <2>1. /\ UNCHANGED callerVars /\ Kept(a)
        /\ view' = [shown |-> TRUE, matched |-> a.matched, current |-> IsCurrent(a)]
    BY <1>2 DEF Poll, pickerVars
  <2>2. 1 \in 1 .. Len(answers) /\ a = answers[1]
    BY <1>2 DEF Poll, IInv, Counting, TypeOK
  <2>3. SliceIsExact(a)
    BY <2>2 DEF IInv, AnswersAreExact
  <2>4. IsAnswer(a.matched, RowsAt(a.applied))
    BY <2>1, <2>3 DEF SliceIsExact, Kept
  <2>5. RowsAt(a.applied) \in SUBSET Rows /\ rows = RowsAt(Len(log))
    BY DEF RowsAt, IInv, RowsAreTold
  <2>6. \A R : Promise!Listed(R) = Listed(query, R)
    BY DEF Promise!Listed, Listed, Matching
  <2>7. Misled <=> Promise!Misled
    BY DEF Promise!Misled, Misled, Misleads
  <2>8. UNCHANGED <<unscored, query, Asked, rows>>
    BY <2>1 DEF callerVars, Asked, IsQuery
  <2>9. CASE IsCurrent(a)
    <3>1. RowsAt(a.applied) = rows
      BY <2>5, <2>9 DEF IsCurrent
    <3>2. a.matched \in SUBSET Promise!Listed(rows)
          /\ (Promise!Misled \/ a.matched = Promise!Listed(rows))
      BY <2>4, <2>6, <2>7, <3>1 DEF IsAnswer
    <3>3. view' = Promise!View(a.matched, TRUE)
      BY <2>1, <2>9 DEF Promise!View, IsCurrent
    <3> QED BY <2>8, <3>2, <3>3 DEF Promise!Next, Promise!Show
  <2>10. CASE ~IsCurrent(a)
    <3>1. IsCurrent(a) = FALSE
      BY <2>10 DEF IsCurrent
    <3>2. view' = Promise!View(a.matched, FALSE)
      BY <2>1, <3>1 DEF Promise!View
    <3>3. a.matched \in SUBSET Promise!Listed(Rows)
      BY <2>4, <2>5, <2>6 DEF IsAnswer, Listed, Matching
    <3> QED BY <2>8, <3>2, <3>3 DEF Promise!Next, Promise!Show
  <2> QED BY <2>9, <2>10
<1>3. CASE (Poll /\ view' = view) \/ Worker \/ UNCHANGED vars
  <2>1. UNCHANGED <<callerVars, view>>
    BY <1>3 DEF Poll, Worker, Take, Supersede, ApplyQuery, LookUp, Score, Apply, AnswerSlice,
             vars, pickerVars
  <2> QED BY <2>1 DEF callerVars, Promise!vars, Asked, IsQuery
<1> QED BY <1>1, <1>2, <1>3 DEF Next

\* Whatever the picker shows matches the query it last gave, and what is marked
\* current is every match among the rows it gave, as long as no query it asked
\* misleads after another: the matcher implements its promise, for any matching and
\* whatever narrows says.
THEOREM MatcherKeepsThePromise == Spec => KeepsThePromise
<1>1. Init => Promise!Init
  <2>1. Init => query \in Queries /\ view = Promise!NoView /\ Asked = {query}
    BY EmptyAssumption DEF Init, NoView, Promise!NoView, Asked
  <2> QED BY <2>1 DEF Init, Promise!Init
<1>2. IInv => TypeOK
  BY DEF IInv, Counting
<1>3. Spec => []IInv
  BY InitIInv, IInvInductive, PTL DEF Spec
<1> QED BY <1>1, <1>2, <1>3, PromiseStep, PTL DEF Spec, KeepsThePromise, Promise!Spec

-------------------------------------------------------------------------------
(* At rest.                                                                *)

\* The last query that waits, or the engine's when none does, has the current
\* number.
LastIsCounted ==
    /\ \A i \in 1 .. Len(log) :
         IsQuery(log[i]) /\ NoQueryAfter(i) => log[i].generation = generation
    /\ NoQueryAfter(applied) => engine.generation = generation

LEMMA LastCountedInductive ==
    Counting /\ LastIsCounted /\ [Next]_vars => LastIsCounted'
<1> SUFFICES ASSUME Counting, LastIsCounted, [Next]_vars
             PROVE  LastIsCounted'
  OBVIOUS
<1>0. Len(log) \in Nat /\ taken \in 0 .. Len(log) /\ applied \in 0 .. taken
  BY DEF Counting, TypeOK
<1>1. CASE Picker
  <2>1. PICK c \in Commands :
          /\ Send(c) /\ UNCHANGED <<engine, applied>>
          /\ \/ IsQuery(c) /\ c.generation = generation'
             \/ UNCHANGED generation /\ ~IsQuery(c)
    <3>1. \A r : Push(r).type = "push" /\ Command("clear").type = "clear"
      BY KindsDiffer
    <3>2. \A q, g : Query(q, g).type = "query" /\ Query(q, g).generation = g
      BY KindsDiffer
    <3> QED BY <1>1, <3>1, <3>2, Given DEF workerVars, IsQuery
  <2>2. /\ Len(log') = Len(log) + 1 /\ log'[Len(log) + 1] = c
        /\ \A i \in 1 .. Len(log) : log'[i] = log[i]
    BY <2>1, SentBesides
  <2>3. CASE IsQuery(c) /\ c.generation = generation'
    <3>1. \A i \in 0 .. Len(log) : ~NoQueryAfter(i)'
      BY <1>0, <2>2, <2>3 DEF NoQueryAfter, IsQuery
    <3>2. \A i \in 1 .. Len(log)' : i \in 0 .. Len(log) \/ i = Len(log) + 1
      BY <1>0, <2>2
    <3> QED BY <1>0, <2>1, <2>2, <2>3, <3>1, <3>2 DEF LastIsCounted
  <2>4. CASE UNCHANGED generation /\ ~IsQuery(c)
    <3>1. \A i \in 0 .. Len(log) : NoQueryAfter(i)' => NoQueryAfter(i)
      BY <1>0, <2>2 DEF NoQueryAfter, IsQuery
    <3>2. \A i \in 1 .. Len(log)' : IsQuery(log[i])' => i \in 1 .. Len(log) /\ IsQuery(log[i])
      BY <1>0, <2>2, <2>4 DEF IsQuery
    <3>3. applied' = applied /\ applied \in 0 .. Len(log) /\ engine' = engine
      BY <1>0, <2>1
    <3> QED BY <1>0, <2>2, <2>4, <3>1, <3>2, <3>3 DEF LastIsCounted
  <2> QED BY <2>1, <2>3, <2>4
<1>2. CASE ApplyQuery
  <2>1. applied + 1 \in 1 .. Len(log) /\ IsQuery(log[applied + 1])
    BY <1>2, WaitingIsCommand DEF ApplyQuery, Counting, Waiting
  <2>2. engine'.generation = log[applied + 1].generation /\ applied' = applied + 1
    BY <1>2 DEF ApplyQuery, Counting, TypeOK, Waiting
  <2>3. UNCHANGED <<log, generation>>
    BY <1>2 DEF ApplyQuery, callerVars
  <2> QED BY <2>1, <2>2, <2>3 DEF LastIsCounted, NoQueryAfter, IsQuery
<1>3. CASE Supersede
  <2>1. applied' = applied + 1 /\ UNCHANGED <<log, generation, engine>>
    BY <1>3 DEF Supersede, Counted, callerVars
  <2>2. ~NoQueryAfter(applied + 1)
    BY <1>0, <1>3 DEF Supersede, IsSuperseded, NoQueryAfter
  <2> QED BY <2>1, <2>2 DEF LastIsCounted, NoQueryAfter, IsQuery
<1>4. CASE Apply
  <2>1. UNCHANGED <<log, generation>> /\ engine'.generation = engine.generation
        /\ applied' = applied + 1
    BY <1>4 DEF Apply, ApplyPush, ApplyClear, ApplyKeys, Counting, TypeOK, callerVars
  <2>2. NoQueryAfter(applied + 1) => NoQueryAfter(applied)
    BY <1>0, <1>4 DEF Apply, Waiting, NoQueryAfter
  <2> QED BY <2>1, <2>2 DEF LastIsCounted, NoQueryAfter, IsQuery
<1>5. CASE Score
  <2>1. UNCHANGED <<log, generation, applied>> /\ engine'.generation = engine.generation
    BY <1>5 DEF Score, Counting, TypeOK, callerVars
  <2> QED BY <2>1 DEF LastIsCounted, NoQueryAfter, IsQuery
<1>6. CASE Poll \/ Take \/ LookUp \/ AnswerSlice \/ UNCHANGED vars
  <2>1. UNCHANGED <<log, generation, applied, engine>>
    BY <1>6 DEF Poll, Take, LookUp, AnswerSlice, vars, callerVars, workerVars
  <2> QED BY <2>1 DEF LastIsCounted, NoQueryAfter, IsQuery
<1> QED BY <1>1, <1>2, <1>3, <1>4, <1>5, <1>6 DEF Next, Worker

\* What a worker that has nothing to do has said last: its matches, for all the
\* commands it took, are the last answer on its way, or what the picker shows.
SaysItAll(a) ==
    /\ a.keys = 0 /\ a.applied = taken
    /\ a.generation = engine.generation /\ a.matched = engine.hits
ShowsItAll ==
    /\ view.shown /\ view.matched = engine.hits /\ upTo = taken
    /\ taken = Len(log) => view.current
HasSaidAll ==
    pc = "idle" =>
        /\ applied = taken
        /\ taken > 0 /\ answers # <<>> => SaysItAll(answers[Len(answers)])
        /\ taken > 0 /\ answers = <<>> /\ engine.generation = generation => ShowsItAll

\* Taking the first answer leaves the last one last, or is to take it.
LEMMA PollKeepsTheLast ==
    ASSUME Counting, Poll
    PROVE  /\ answers' # <<>> => answers'[Len(answers')] = answers[Len(answers)]
           /\ answers' = <<>> => Head(answers) = answers[Len(answers)]
<1>1. answers \in Seq(Answers) /\ answers # <<>> /\ answers' = Tail(answers)
  BY DEF Counting, TypeOK, Poll
<1>2. /\ answers' \in Seq(Answers) /\ Len(answers') = Len(answers) - 1
      /\ \A i \in 1 .. Len(answers') : answers'[i] = answers[i + 1]
  BY <1>1, HeadTailProperties
<1>3. Len(answers) \in Nat \ {0} /\ Head(answers) = answers[1]
  BY <1>1
<1>4. CASE Len(answers) = 1
  <2>1. answers' = <<>>
    BY <1>2, <1>4
  <2> QED BY <1>3, <1>4, <2>1
<1>5. CASE Len(answers) # 1
  <2>1. Len(answers') \in 1 .. Len(answers') /\ Len(answers') + 1 = Len(answers)
    BY <1>2, <1>3, <1>5
  <2>2. answers'[Len(answers')] = answers[Len(answers)] /\ answers' # <<>>
    BY <1>2, <2>1
  <2> QED BY <2>2
<1> QED BY <1>4, <1>5

LEMMA SaidAllInductive ==
    Counting /\ Numbered /\ HasSaidAll /\ [Next]_vars => HasSaidAll'
<1> SUFFICES ASSUME Counting, Numbered, HasSaidAll, [Next]_vars, pc' = "idle"
             PROVE  /\ applied' = taken'
                    /\ taken' > 0 /\ answers' # <<>> => SaysItAll(answers[Len(answers)])'
                    /\ taken' > 0 /\ answers' = <<>> /\ engine'.generation = generation'
                           => ShowsItAll'
  BY DEF HasSaidAll
<1>1. CASE Picker
  <2>1. PICK c \in Commands :
          /\ Send(c) /\ UNCHANGED <<workerVars, answers, pickerVars>>
          /\ generation' = generation + 1 \/ generation' = generation
    BY <1>1, Given
  <2>2. Len(log') = Len(log) + 1 /\ taken \in 0 .. Len(log) /\ Len(log) \in Nat
    BY <2>1, SentBesides DEF Counting, TypeOK
  <2>3. taken' # Len(log')
    BY <2>1, <2>2 DEF workerVars
  <2>4. engine.generation \in Nat /\ generation \in Nat /\ engine.generation =< generation
    BY SentAssumption DEF Counting, TypeOK, Numbered
  <2>5. engine'.generation = generation' => engine.generation = generation
    BY <2>1, <2>4 DEF workerVars
  <2> QED BY <2>1, <2>3, <2>5 DEF HasSaidAll, SaysItAll, ShowsItAll, workerVars, pickerVars
<1>2. CASE Poll
  <2>1. UNCHANGED <<callerVars, workerVars>>
    BY <1>2 DEF Poll
  <2>2. answers # <<>> /\ pc = "idle"
    BY <1>2, <2>1 DEF Poll, workerVars
  <2>3. taken > 0 => SaysItAll(answers[Len(answers)])
    BY <2>2 DEF HasSaidAll
  <2>4. ASSUME taken > 0, answers' = <<>>, engine.generation = generation
        PROVE  ShowsItAll'
    <3> DEFINE a == Head(answers)
    <3>1. SaysItAll(a)
      BY <1>2, <2>3, <2>4, PollKeepsTheLast
    <3>2. Kept(a)
      BY <2>4, <3>1 DEF SaysItAll, Kept
    <3>3. /\ view' = [shown |-> TRUE, matched |-> a.matched, current |-> IsCurrent(a)]
          /\ upTo' = a.applied
      BY <1>2, <3>2 DEF Poll, Kept
    <3> HIDE DEF a
    <3> QED BY <2>1, <3>1, <3>3 DEF ShowsItAll, SaysItAll, IsCurrent, callerVars, workerVars
  <2>5. taken' > 0 /\ answers' # <<>> => SaysItAll(answers[Len(answers)])'
    BY <1>2, <2>1, <2>3, PollKeepsTheLast DEF SaysItAll, workerVars
  <2> QED BY <2>1, <2>2, <2>4, <2>5 DEF HasSaidAll, callerVars, workerVars
<1>3. CASE AnswerSlice
  <2> DEFINE a == [keys |-> 0, generation |-> engine.generation, applied |-> applied,
                   matched |-> engine.hits]
  <2>0. /\ engine.generation \in 0 .. MaxSent /\ engine.hits \in SUBSET Rows
        /\ applied \in 0 .. MaxSent /\ answers \in Seq(Answers)
    BY SentAssumption DEF Counting, TypeOK
  <2>1. a \in Answers /\ answers \in Seq(Answers)
    BY <2>0 DEF Answers
  <2>2. answers' = Append(answers, a)
    BY <1>3 DEF AnswerSlice
  <2>3. answers' # <<>> /\ answers'[Len(answers')] = a
    BY <2>1, <2>2, AppendProperties
  <2>4. applied = taken /\ UNCHANGED <<applied, taken, engine>>
    BY <1>3 DEF AnswerSlice
  <2> QED BY <2>3, <2>4 DEF SaysItAll
<1>4. CASE Take \/ Supersede \/ ApplyQuery \/ LookUp \/ Score \/ Apply
  BY <1>4 DEF Take, Supersede, ApplyQuery, LookUp, Score, Apply
<1>5. CASE UNCHANGED vars
  BY <1>5 DEF HasSaidAll, SaysItAll, ShowsItAll, vars, callerVars, workerVars, pickerVars
<1> QED BY <1>1, <1>2, <1>3, <1>4, <1>5 DEF Next, Worker

\* With every command applied, and every answer taken, the picker shows the
\* matches of its query among all the rows it gave, marked current; all of them
\* unless a query asked misleads after another.
ShowsAllAtRest ==
    pc = "idle" /\ taken = Len(log) /\ log # <<>> /\ answers = <<>> =>
        /\ view.shown /\ view.current /\ upTo = Len(log)
        /\ IsAnswer(view.matched, rows)

\* Whatever was superseded, cut short or dropped as stale on the way, nothing is
\* still to come once matcher and picker are at rest: with the steps of a worker
\* that runs, this is what EveryCommandIsAnswered rests on (matcher.rs answer_slice,
\* drain).
THEOREM AllIsShownAtRest == Spec => []ShowsAllAtRest
<1>1. Init => LastIsCounted /\ HasSaidAll
  BY DEF Init, LastIsCounted, HasSaidAll
<1>2. IInv /\ LastIsCounted /\ HasSaidAll => ShowsAllAtRest
  <2> SUFFICES ASSUME IInv, LastIsCounted, HasSaidAll,
                      pc = "idle", taken = Len(log), log # <<>>, answers = <<>>
               PROVE  /\ view.shown /\ view.current /\ upTo = Len(log)
                      /\ IsAnswer(view.matched, rows)
    BY DEF ShowsAllAtRest
  <2>1. taken \in Nat /\ taken > 0 /\ applied = taken
    BY DEF HasSaidAll, IInv, Counting, TypeOK
  <2>2. NoQueryAfter(applied)
    BY <2>1 DEF NoQueryAfter
  <2>3. engine.generation = generation /\ engine.query = query
    BY <2>2 DEF LastIsCounted, IInv, LastIsCurrent
  <2>4. ShowsItAll
    BY <2>1, <2>3 DEF HasSaidAll
  <2>5. engine.complete
    BY <2>1 DEF IInv, Exact
  <2>6. IsAnswer(engine.hits, rows)
    BY <2>1, <2>3, <2>5 DEF IInv, Exact, ExactBut, AstrayIsMisled, RowsAreTold, IsAnswer
  <2> QED BY <2>4, <2>6 DEF ShowsItAll
<1>3. IInv => Counting /\ Numbered
  BY DEF IInv
<1> QED BY <1>1, <1>2, <1>3, InitIInv, IInvInductive, LastCountedInductive, SaidAllInductive, PTL
        DEF Spec

-------------------------------------------------------------------------------
(* Which queries mislead.                                                  *)

Texts(Letter) ==
    [typed : Seq(Letter), terms : Seq([leavesOut : BOOLEAN, word : Seq(Letter)])]

\* What is found in a word is found where the word is.
LEMMA ContainsThrough ==
    ASSUME NEW Letter, NEW u \in Seq(Letter), NEW w \in Seq(Letter), NEW t \in Seq(Letter),
           Q!Contains(u, w), Q!Contains(w, t)
    PROVE  Q!Contains(u, t)
<1>1. PICK j \in 1 .. Len(w) + 1 : Q!OccursAt(u, w, j)
  BY DEF Q!Contains
<1>2. PICK i \in 1 .. Len(t) + 1 : Q!OccursAt(w, t, i)
  BY DEF Q!Contains
<1>3. Len(u) \in Nat /\ Len(w) \in Nat /\ Len(t) \in Nat
  OBVIOUS
<1>4. i + j - 1 \in 1 .. Len(t) + 1 /\ i + j - 1 + Len(u) =< Len(t) + 1
  BY <1>1, <1>2, <1>3 DEF Q!OccursAt
<1>5. ASSUME NEW k \in 1 .. Len(u)
      PROVE  t[i + j - 1 + k - 1] = u[k]
  <2>1. j + k - 1 \in 1 .. Len(w) /\ w[j + k - 1] = u[k]
    BY <1>1, <1>3 DEF Q!OccursAt
  <2>2. t[i + (j + k - 1) - 1] = w[j + k - 1]
    BY <1>2, <2>1 DEF Q!OccursAt
  <2>3. i + (j + k - 1) - 1 = i + j - 1 + k - 1
    OBVIOUS
  <2> QED BY <2>1, <2>2, <2>3
<1>6. Q!OccursAt(u, t, i + j - 1)
  BY <1>4, <1>5 DEF Q!OccursAt
<1> QED BY <1>4, <1>6 DEF Q!Contains

\* Every row that a query matches, a query of no word or of one plain word that it
\* is taken to narrow matches too: typing on from the first word never loses a row,
\* and what query.rs says of narrows holds.  With more words, or one that leaves
\* rows out, it need not: a longer word can be placed where the shorter one was not
\* tried, and a row that is the query itself is not left out (query.rs narrows,
\* score_prepared).
THEOREM FirstWordNeverMisleads ==
    ASSUME NEW Letter, NEW p \in Texts(Letter), NEW q \in Texts(Letter), NEW t \in Seq(Letter),
           Len(p.terms) = 0 \/ (Len(p.terms) = 1 /\ ~p.terms[1].leavesOut),
           Q!IsParsed(q), Q!OnlyNarrows(p, q), Q!Finds(q, t)
    PROVE  Q!Finds(p, t)
<1> DEFINE Term == [leavesOut : BOOLEAN, word : Seq(Letter)]
<1>0. p.terms \in Seq(Term) /\ q.terms \in Seq(Term) /\ q.typed \in Seq(Letter)
  BY DEF Texts
<1>1. CASE Len(p.terms) = 0
  <2>1. p.terms = <<>>
    BY <1>0, <1>1
  <2> QED BY <2>1 DEF Q!Finds
<1>2. CASE Len(p.terms) = 1 /\ ~p.terms[1].leavesOut
  <2> DEFINE u == p.terms[1].word
             w == q.terms[1].word
  <2>1. Len(q.terms) \in Nat /\ 1 \in 1 .. Len(q.terms) /\ 1 \in 1 .. Len(p.terms)
    BY <1>0, <1>2 DEF Q!OnlyNarrows
  <2>2. ~q.terms[1].leavesOut /\ Q!Contains(u, w)
    BY <1>2, <2>1 DEF Q!OnlyNarrows, Q!Word
  <2>3. u \in Seq(Letter) /\ w \in Seq(Letter)
    <3>1. p.terms[1] \in Term /\ q.terms[1] \in Term
      <4> HIDE DEF Term
      <4> QED BY <1>0, <2>1, ElementOfSeq
    <3> QED BY <3>1
  <2>4. Q!Excludes(p) = {} /\ Q!Shown(p) = {1} /\ 1 \in Q!Shown(q)
    BY <1>2, <2>1, <2>2 DEF Q!Excludes, Q!Shown
  <2>5. Q!Contains(w, t)
    <3>1. CASE q.terms = <<>>
      BY <2>1, <3>1
    <3>2. CASE Q!IsWhole(q, t)
      BY <2>1, <3>2 DEF Q!IsWhole, Q!IsParsed, Q!Word
    <3>3. CASE \E k \in Q!Shown(q) : Q!Shown(q) = {k} /\ Q!Contains(Q!Word(q, k), t)
      BY <2>4, <3>3 DEF Q!Word
    <3>4. CASE Q!IsPlaced(q, t)
      <4>1. PICK i \in 1 .. Len(t) + 1 : i \in Q!Places(w, t)
        BY <2>4, <3>4 DEF Q!IsPlaced, Q!Word
      <4>2. Q!OccursAt(w, t, i)
        BY <4>1 DEF Q!Places
      <4> QED BY <4>2 DEF Q!Contains
    <3> QED BY <3>1, <3>2, <3>3, <3>4 DEF Q!Finds
  <2>6. Q!Contains(u, t)
    BY <2>2, <2>3, <2>5, ContainsThrough
  <2>7. ~Q!IsExcluded(p, t)
    BY <2>4 DEF Q!IsExcluded
  <2> QED BY <2>4, <2>6, <2>7 DEF Q!Finds, Q!Word
<1> QED BY <1>1, <1>2
===============================================================================
