--------------------------- MODULE RepoWatchProofs ----------------------------
(***************************************************************************)
(* Theorems about RepoWatch, for any number of views, starts and changes   *)
(* and any pace that Debounce allows.                                      *)
(***************************************************************************)
EXTENDS RepoWatch, SequenceTheorems, TLAPS

-----------------------------------------------------------------------------
(* Bursts *)

\* A burst that was never read had no read, one with changes to read is one,
\* and of the reads it had at most one was early.
Settled(b) ==
    /\ b \in Bursts
    /\ b.early <= 1
    /\ b.unread => b.early = 0
    /\ b.pending => b.open

LEMMA NewBurstsAreSettled == Settled(NoBurst) /\ Settled(NewBurst)
BY PaceAssumption DEF Settled, Bursts, NoBurst, NewBurst

\* The ages and counts that a burst may have.
LEMMA CappedAges ==
    /\ \A n \in 0 .. MaxWait : Capped(n + 1, MaxWait) \in 0 .. MaxWait
    /\ \A n \in 0 .. Quiet : Capped(n + 1, Quiet) \in 0 .. Quiet
    /\ Capped(0 + 1, 2) = 1
    /\ \A n \in 0 .. 2 : Capped(n + 1, 2) \in 0 .. 2
BY PaceAssumption DEF Capped

LEMMA AgingKeepsSettled ==
    ASSUME NEW b, Settled(b)
    PROVE  Settled(Aged(b))
<1>1. CASE ~ b.open
  BY <1>1 DEF Aged
<1>2. CASE b.open
  <2> DEFINE waited == Capped(b.waited + 1, MaxWait)
             still == Capped(b.still + 1, Quiet)
             c == [b EXCEPT !.waited = waited, !.still = still]
  <2>1. b \in Bursts /\ Aged(b) = c
    BY <1>2 DEF Aged, Settled
  <2>2. waited \in 0 .. MaxWait /\ still \in 0 .. Quiet
    BY <2>1, CappedAges DEF Bursts
  <2> HIDE DEF waited, still
  <2>3. c \in Bursts /\ c.early = b.early /\ c.unread = b.unread
        /\ c.pending = b.pending /\ c.open = b.open
    BY <2>1, <2>2 DEF Bursts
  <2> HIDE DEF c
  <2> QED BY <2>1, <2>3 DEF Settled
<1> QED BY <1>1, <1>2

LEMMA ChangesKeepSettled ==
    ASSUME NEW b, Settled(b)
    PROVE  Settled(TakeChange(b))
<1> DEFINE c == [b EXCEPT !.still = 0, !.pending = TRUE]
<1>1. CASE b.open /\ (b.pending \/ b.still < Quiet)
  <2>1. b \in Bursts /\ TakeChange(b) = c
    BY <1>1 DEF TakeChange, Settled
  <2>2. /\ c \in Bursts /\ c.early = b.early
        /\ (c.unread = b.unread) /\ (c.open = b.open)
    <3>1. 0 \in 0 .. Quiet
      BY PaceAssumption
    <3>2. c \in Bursts
      BY <2>1, <3>1 DEF Bursts
    <3>3. c.early = b.early
      BY <2>1 DEF Bursts
    <3>4. c.unread = b.unread
      BY <2>1 DEF Bursts
    <3>5. c.open = b.open
      BY <2>1 DEF Bursts
    <3> QED BY <3>2, <3>3, <3>4, <3>5
  <2> HIDE DEF c
  <2> QED BY <1>1, <2>1, <2>2 DEF Settled
<1>2. CASE ~ (b.open /\ (b.pending \/ b.still < Quiet))
  BY <1>2, NewBurstsAreSettled DEF TakeChange
<1> QED BY <1>1, <1>2

\* A read when one is due is early only as the burst's first.
LEMMA ReadsKeepSettled ==
    ASSUME NEW b, Settled(b), IsDue(b)
    PROVE  Settled(MarkRead(b))
<1> DEFINE early == IF b.still >= Quiet \/ IsOverdue(b) THEN b.early ELSE Capped(b.early + 1, 2)
           c == [b EXCEPT !.pending = FALSE, !.unread = FALSE, !.waited = 0, !.early = early]
<1>1. b \in Bursts /\ b.early \in 0 .. 2 /\ b.early <= 1 /\ MarkRead(b) = c
  BY DEF Settled, Bursts, MarkRead
<1>2. ~ (b.still >= Quiet \/ IsOverdue(b)) => b.early = 0
  BY DEF Settled, IsDue, IsOverdue
<1>3. early \in 0 .. 2 /\ early <= 1
  BY <1>1, <1>2, CappedAges
<1> HIDE DEF early
<1>4. /\ c \in Bursts /\ c.early = early /\ c.pending = FALSE /\ c.unread = FALSE
  <2>1. 0 \in 0 .. MaxWait
    BY PaceAssumption
  <2>2. c \in Bursts
    BY <1>1, <1>3, <2>1 DEF Bursts
  <2>3. c.early = early
    BY <1>1 DEF Bursts
  <2>4. c.pending = FALSE
    BY <1>1 DEF Bursts
  <2>5. c.unread = FALSE
    BY <1>1 DEF Bursts
  <2> QED BY <2>2, <2>3, <2>4, <2>5
<1> HIDE DEF c
<1> QED BY <1>1, <1>3, <1>4 DEF Settled

-----------------------------------------------------------------------------
(* Starts, watches and views *)

Start ==
    [repo : 0 .. MaxStarts, pc : {"look", "setup", "insert", "subscribe", "done", "ended"},
     look : {"none", "drain", "decide"}, channel : SUBSET BOOLEAN, news : BOOLEAN,
     burst : Bursts, git : BOOLEAN, owed : BOOLEAN, owedGit : BOOLEAN, toldDir : BOOLEAN]
Watch == [queue : SUBSET BOOLEAN, telling : SUBSET Starts, covered : BOOLEAN]
View ==
    [shown : BOOLEAN, tree : 0 .. MaxStarts, starting : 0 .. MaxStarts,
     watching : {"no", "status", "full"}]

LEMMA FreshStarts == NewStart \in Start /\ Ended \in Start /\ NoWatch \in Watch
<1>1. NoBurst \in Bursts
  BY NewBurstsAreSettled DEF Settled
<1>2. 0 \in 0 .. MaxStarts
  BY BoundsAssumption
<1>3. NewStart \in Start
  BY <1>1, <1>2 DEF NewStart, Start
<1>4. Ended \in Start
  BY <1>3 DEF Ended, Start
<1>5. NoWatch \in Watch
  BY DEF NoWatch, Watch
<1> QED BY <1>3, <1>4, <1>5

\* A start that is gone is as if it had ended; the others are as they were.
LEMMA DroppingType ==
    ASSUME NEW S \in Seq(Start), NEW V
    PROVE  /\ Dropped(S, V) \in Seq(Start) /\ Len(Dropped(S, V)) = Len(S)
           /\ \A s \in 1 .. Len(S) : Dropped(S, V)[s] \in {S[s], Ended}
<1>1. S \in [1 .. Len(S) -> Start] /\ Len(S) \in Nat /\ DOMAIN S = 1 .. Len(S)
  BY LenProperties
<1>2. Dropped(S, V) = [s \in 1 .. Len(S) |-> IF S[s].pc = "done" /\ ~ HeldBy(s, V)
                                              THEN Ended ELSE S[s]]
  BY <1>1 DEF Dropped
<1>3. \A s \in 1 .. Len(S) : Dropped(S, V)[s] \in {S[s], Ended} /\ S[s] \in Start
  BY <1>1, <1>2
<1>4. Dropped(S, V) \in [1 .. Len(S) -> Start]
  BY <1>2, <1>3, FreshStarts
<1> QED BY <1>1, <1>3, <1>4, SeqDef, LenProperties

LEMMA KeepingType ==
    ASSUME NEW S, NEW W \in [Starts -> Watch]
    PROVE  Kept(W, S) \in [Starts -> Watch]
BY FreshStarts DEF Kept

\* A start changed, in a sequence of them.
LEMMA ChangedType ==
    ASSUME NEW S \in Seq(Start), NEW s \in 1 .. Len(S), NEW new \in Start
    PROVE  [S EXCEPT ![s] = new] \in Seq(Start) /\ Len([S EXCEPT ![s] = new]) = Len(S)
BY ExceptSeq

\* A sequence of starts made one by one.
LEMMA MadeOfStarts ==
    ASSUME NEW n \in Nat, NEW F \in [1 .. n -> Start]
    PROVE  F \in Seq(Start) /\ Len(F) = n
BY SeqDef, LenProperties

LEMMA StartAt ==
    ASSUME TypeOK, NEW s \in Ids
    PROVE  starts[s] \in Start /\ s \in Starts /\ Len(starts) \in Nat
<1>1. starts \in Seq(Start) /\ Len(starts) <= MaxStarts
  BY DEF TypeOK, Start
<1>2. Len(starts) \in Nat
  BY <1>1, LenProperties
<1>3. starts[s] \in Start
  BY <1>1, ElementOfSeq DEF Ids
<1> QED BY <1>1, <1>2, <1>3, BoundsAssumption DEF Ids, Starts

-----------------------------------------------------------------------------
(* The invariant *)

\* Who subscribes, or has, does so to the watch the registry holds; who set a
\* watch up holds that one.
Shares(s) ==
    /\ Pc(s) \in {"subscribe", "done"} => starts[s].repo = registry /\ registry # 0
    /\ Pc(s) = "insert" => starts[s].repo = s

\* What a view follows, or waits for, is one of the starts.
TreesExist == \A v \in Views : views[v].tree \in Ids \cup {0} /\ views[v].starting \in Ids \cup {0}

IInv == TypeOK /\ TreesExist /\ \A s \in Ids : Shares(s) /\ Settled(starts[s].burst)

LEMMA TreesStay ==
    ASSUME IInv, Len(starts') = Len(starts), views' = views
    PROVE  TreesExist'
BY DEF IInv, TreesExist, Ids

\* A step that leaves the registry alone, and lets starts go or changes neither
\* how far they are nor what they follow.
LEMMA SharingStays ==
    ASSUME IInv, registry' = registry, Len(starts') = Len(starts),
           \A s \in Ids : \/ starts'[s] = Ended
                          \/ /\ starts'[s].pc = starts[s].pc /\ starts'[s].repo = starts[s].repo
                             /\ Settled(starts'[s].burst)
    PROVE  \A s \in Ids' : Shares(s)' /\ Settled(starts'[s].burst)
<1> SUFFICES ASSUME NEW s \in Ids
             PROVE  Shares(s)' /\ Settled(starts'[s].burst)
  BY DEF Ids
<1>1. CASE starts'[s] = Ended
  <2>1. Ended.pc = "ended" /\ Ended.burst = NoBurst
    BY DEF Ended, NewStart
  <2> QED BY <1>1, <2>1, NewBurstsAreSettled DEF Shares, Pc
<1>2. CASE /\ starts'[s].pc = starts[s].pc /\ starts'[s].repo = starts[s].repo
           /\ Settled(starts'[s].burst)
  BY <1>2 DEF IInv, Shares, Pc
<1> QED BY <1>1, <1>2

-----------------------------------------------------------------------------
(* The repository and the watcher's thread *)

LEMMA ChangeKeeps ==
    ASSUME IInv, NEW where \in {"git", "make", "inside"}, Change(where)
    PROVE  IInv'
<1> DEFINE inGit == where = "git"
<1>1. disk' \in [changes : 0 .. MaxChanges, made : BOOLEAN, locked : BOOLEAN]
  <2>1. /\ disk.changes + 1 \in 0 .. MaxChanges /\ disk.made \in BOOLEAN
        /\ disk \in [changes : 0 .. MaxChanges, made : BOOLEAN, locked : BOOLEAN]
    <3>1. disk \in [changes : 0 .. MaxChanges, made : BOOLEAN, locked : BOOLEAN]
      BY DEF IInv, TypeOK
    <3>2. disk.changes \in 0 .. MaxChanges /\ disk.made \in BOOLEAN
      BY <3>1
    <3>3. disk.changes < MaxChanges
      BY DEF Change
    <3> QED BY <3>1, <3>2, <3>3, BoundsAssumption
  <2> DEFINE made == disk.made \/ where = "make"
  <2>2. made \in BOOLEAN /\ disk' = [disk EXCEPT !.changes = disk.changes + 1, !.made = made]
    BY DEF Change
  <2> HIDE DEF made
  <2> QED BY <2>1, <2>2
<1>2. watches' \in [Starts -> Watch]
  <2>1. ASSUME NEW w \in Starts
        PROVE  watches[w] \in Watch /\ [watches[w] EXCEPT !.queue = @ \cup {inGit}] \in Watch
    <3>1. watches[w] \in Watch
      BY DEF IInv, TypeOK, Watch
    <3>2. watches[w].queue \cup {inGit} \in SUBSET BOOLEAN
      BY <3>1 DEF Watch
    <3> QED BY <3>1, <3>2 DEF Watch
  <2> QED BY <2>1 DEF Change
<1>3. ASSUME NEW s \in Ids
      PROVE  /\ starts'[s] \in Start
             /\ starts'[s].pc = starts[s].pc /\ starts'[s].repo = starts[s].repo
             /\ starts'[s].burst = starts[s].burst
  <2>1. starts[s] \in Start
    BY StartAt DEF IInv
  <2>2. starts'[s] \in {starts[s], [starts[s] EXCEPT !.owed = TRUE, !.owedGit = @ \/ inGit,
                                                     !.toldDir = @ \/ where = "make"]}
    BY DEF Change
  <2> QED BY <2>1, <2>2 DEF Start
<1>4. starts' \in Seq(Start) /\ Len(starts') = Len(starts)
  <2>1. Len(starts) \in Nat
    BY LenProperties DEF IInv, TypeOK
  <2>2. starts' \in [1 .. Len(starts) -> Start]
    BY <1>3 DEF Change, Ids
  <2> QED BY <2>1, <2>2, MadeOfStarts
<1>5. jobs' \in [Views -> Seq(Reading)]
  <2>1. ASSUME NEW v \in Views
        PROVE  [i \in DOMAIN jobs[v] |-> AfterChange(jobs[v][i], inGit)] \in Seq(Reading)
    <3>1. jobs[v] \in Seq(Reading)
      BY DEF IInv, TypeOK
    <3>2. DOMAIN jobs[v] = 1 .. Len(jobs[v]) /\ Len(jobs[v]) \in Nat
      BY <3>1, LenProperties
    <3>3. [i \in DOMAIN jobs[v] |-> AfterChange(jobs[v][i], inGit)]
            \in [1 .. Len(jobs[v]) -> Reading]
      BY <3>2 DEF AfterChange, Reading
    <3> QED BY <3>2, <3>3, SeqDef
  <2> QED BY <2>1 DEF Change
<1>6. registry' = registry /\ views' = views
  BY DEF Change
<1>7. TypeOK'
  BY <1>1, <1>2, <1>4, <1>5, <1>6 DEF IInv, TypeOK, Start, Watch
<1>8. \A s \in Ids' : Shares(s)' /\ Settled(starts'[s].burst)
  BY <1>3, <1>4, <1>6, SharingStays DEF IInv
<1>9. TreesExist'
  BY <1>4, <1>6, TreesStay
<1> QED BY <1>7, <1>8, <1>9 DEF IInv

\* A step that does no more than change starts and watches one by one.
LEMMA OneByOneKeeps ==
    ASSUME IInv, UNCHANGED <<disk, registry, views, jobs>>, watches' \in [Starts -> Watch],
           starts' = [s \in Ids |-> starts'[s]],
           \A s \in Ids : /\ starts'[s] \in Start
                          /\ starts'[s].pc = starts[s].pc /\ starts'[s].repo = starts[s].repo
                          /\ Settled(starts'[s].burst)
    PROVE  IInv'
<1>1. Len(starts) \in Nat
  BY LenProperties DEF IInv, TypeOK
<1>2. starts' \in Seq(Start) /\ Len(starts') = Len(starts)
  <2>1. starts' \in [1 .. Len(starts) -> Start]
    BY DEF Ids
  <2> QED BY <1>1, <2>1, MadeOfStarts
<1>3. TypeOK'
  BY <1>2 DEF IInv, TypeOK, Start, Watch
<1>4. \A s \in Ids' : Shares(s)' /\ Settled(starts'[s].burst)
  BY <1>2, SharingStays
<1> QED BY <1>2, <1>3, <1>4, TreesStay DEF IInv

LEMMA TickKeeps == ASSUME IInv, Tick PROVE IInv'
<1>1. ASSUME NEW s \in Ids
      PROVE  /\ starts'[s] \in Start
             /\ starts'[s].pc = starts[s].pc /\ starts'[s].repo = starts[s].repo
             /\ Settled(starts'[s].burst)
  <2>1. starts[s] \in Start
    BY StartAt DEF IInv
  <2>2. Settled(Aged(starts[s].burst))
    BY AgingKeepsSettled DEF IInv
  <2> DEFINE aged == Aged(starts[s].burst)
  <2>3. starts'[s] = [starts[s] EXCEPT !.burst = aged] /\ aged \in Bursts
    BY <2>2 DEF Tick, Settled
  <2> HIDE DEF aged
  <2>4. starts'[s] \in Start /\ starts'[s].pc = starts[s].pc
        /\ starts'[s].repo = starts[s].repo /\ starts'[s].burst = aged
    BY <2>1, <2>3 DEF Start
  <2> QED BY <2>2, <2>4 DEF aged
<1>2. starts' = [s \in Ids |-> starts'[s]]
  BY DEF Tick
<1>3. watches' \in [Starts -> Watch]
  BY DEF Tick, IInv, TypeOK, Watch
<1> QED BY <1>1, <1>2, <1>3, OneByOneKeeps DEF Tick

LEMMA TellKeeps ==
    ASSUME IInv, NEW w \in Starts, NEW inGit \in BOOLEAN, Tell(w, inGit)
    PROVE  IInv'
<1>1. ASSUME NEW s \in Ids
      PROVE  /\ starts'[s] \in Start
             /\ starts'[s].pc = starts[s].pc /\ starts'[s].repo = starts[s].repo
             /\ Settled(starts'[s].burst)
  <2>1. starts[s] \in Start /\ Settled(starts[s].burst)
    BY StartAt DEF IInv
  <2>2. starts'[s] \in {starts[s], [starts[s] EXCEPT !.channel = @ \cup {inGit}]}
    BY DEF Tell
  <2> QED BY <2>1, <2>2 DEF Start
<1>2. starts' = [s \in Ids |-> starts'[s]]
  BY DEF Tell
<1>3. watches' \in [Starts -> Watch]
  <2>1. Subscribers(w) \subseteq Starts
    BY StartAt DEF Subscribers, IInv
  <2>2. watches[w] \in Watch /\ watches \in [Starts -> Watch]
    BY DEF IInv, TypeOK, Watch
  <2> DEFINE new == [watches[w] EXCEPT !.queue = @ \ {inGit}, !.telling = Subscribers(w)]
  <2>3. new \in Watch
    BY <2>1, <2>2 DEF Watch
  <2>4. watches' = [watches EXCEPT ![w] = new]
    BY <2>2 DEF Tell, Watch
  <2> HIDE DEF new
  <2> QED BY <2>2, <2>3, <2>4
<1> QED BY <1>1, <1>2, <1>3, OneByOneKeeps DEF Tell

LEMMA FlagKeeps ==
    ASSUME IInv, NEW w \in Starts, Flag(w)
    PROVE  IInv'
<1>1. ASSUME NEW s \in Ids
      PROVE  /\ starts'[s] \in Start
             /\ starts'[s].pc = starts[s].pc /\ starts'[s].repo = starts[s].repo
             /\ Settled(starts'[s].burst)
  <2>1. starts[s] \in Start /\ Settled(starts[s].burst)
    BY StartAt DEF IInv
  <2>2. starts'[s] \in {starts[s], [starts[s] EXCEPT !.news = TRUE]}
    BY DEF Flag
  <2> QED BY <2>1, <2>2 DEF Start
<1>2. starts' = [s \in Ids |-> starts'[s]]
  BY DEF Flag
<1>3. watches' \in [Starts -> Watch]
  <2>1. watches \in [Starts -> Watch] /\ watches[w] \in Watch
    BY DEF IInv, TypeOK, Watch
  <2> DEFINE new == [watches[w] EXCEPT !.telling = {}]
  <2>2. new \in Watch
    BY <2>1 DEF Watch
  <2>3. watches' = [watches EXCEPT ![w] = new]
    BY <2>1 DEF Flag, Watch
  <2> HIDE DEF new
  <2> QED BY <2>1, <2>2, <2>3
<1> QED BY <1>1, <1>2, <1>3, OneByOneKeeps DEF Flag
-----------------------------------------------------------------------------
(* Setting a watch up *)

LEMMA LookKeeps ==
    ASSUME IInv, NEW s \in Ids, Look(s)
    PROVE  IInv'
<1>1. starts[s] \in Start /\ starts \in Seq(Start) /\ s \in 1 .. Len(starts)
  BY StartAt DEF IInv, TypeOK, Start, Ids
<1>2. registry \in 0 .. MaxStarts /\ 0 \in 0 .. MaxStarts
  BY BoundsAssumption DEF IInv, TypeOK
<1>3. CASE Running(registry)
  <2> DEFINE new == [starts[s] EXCEPT !.pc = "subscribe", !.repo = registry]
  <2>1. new \in Start /\ new.pc = "subscribe" /\ new.repo = registry
        /\ new.burst = starts[s].burst
    BY <1>1, <1>2 DEF Start
  <2>2. starts' = [starts EXCEPT ![s] = new] /\ registry' = registry
    BY <1>1, <1>3 DEF Look, Start
  <2>3. registry # 0
    BY <1>3 DEF Running, Runs
  <2> HIDE DEF new
  <2>4. /\ starts' \in Seq(Start) /\ Len(starts') = Len(starts)
        /\ \A t \in Ids : starts'[t] = IF t = s THEN new ELSE starts[t]
    BY <1>1, <2>1, <2>2, ExceptSeq DEF Ids
  <2>5. TypeOK'
    BY <2>2, <2>4 DEF IInv, TypeOK, Look, Start
  <2>6. ASSUME NEW t \in Ids
        PROVE  Shares(t)' /\ Settled(starts'[t].burst)
    BY <2>1, <2>2, <2>3, <2>4 DEF IInv, Shares, Pc
  <2>7. TreesExist'
    BY <2>4, TreesStay DEF Look
  <2> QED BY <2>4, <2>5, <2>6, <2>7 DEF IInv, Ids
<1>4. CASE ~ Running(registry)
  <2> DEFINE new == [starts[s] EXCEPT !.pc = "setup"]
  <2>1. new \in Start /\ new.pc = "setup" /\ new.burst = starts[s].burst
    BY <1>1 DEF Start
  <2>2. starts' = [starts EXCEPT ![s] = new] /\ registry' = 0
    BY <1>1, <1>4 DEF Look, Start
  <2> HIDE DEF new
  <2>3. /\ starts' \in Seq(Start) /\ Len(starts') = Len(starts)
        /\ \A t \in Ids : starts'[t] = IF t = s THEN new ELSE starts[t]
    BY <1>1, <2>1, <2>2, ExceptSeq DEF Ids
  <2>4. TypeOK'
    BY <1>2, <2>2, <2>3 DEF IInv, TypeOK, Look, Start
  <2>5. ASSUME NEW t \in Ids, Pc(t) \in {"subscribe", "done"}
        PROVE  FALSE
    <3>1. DOMAIN starts = Ids
      BY <1>1, LenProperties DEF Ids
    <3>2. starts[t].repo = registry /\ registry # 0
      BY <2>5 DEF IInv, Shares
    <3> QED BY <1>4, <2>5, <3>1, <3>2 DEF Running, Runs, Pc
  <2>6. ASSUME NEW t \in Ids
        PROVE  Shares(t)' /\ Settled(starts'[t].burst)
    BY <2>1, <2>3, <2>5 DEF IInv, Shares, Pc
  <2>7. TreesExist'
    BY <2>3, TreesStay DEF Look
  <2> QED BY <2>3, <2>4, <2>6, <2>7 DEF IInv, Ids
<1> QED BY <1>3, <1>4

LEMMA SetUpKeeps ==
    ASSUME IInv, NEW s \in Ids, SetUp(s)
    PROVE  IInv'
<1>1. starts[s] \in Start /\ starts \in Seq(Start) /\ s \in 1 .. Len(starts) /\ s \in Starts
  BY StartAt DEF IInv, TypeOK, Start, Ids
<1> DEFINE new == [starts[s] EXCEPT !.pc = "insert", !.repo = s]
<1>2. new \in Start /\ new.pc = "insert" /\ new.repo = s /\ new.burst = starts[s].burst
  <2>1. s \in 0 .. MaxStarts
    BY <1>1, BoundsAssumption DEF Starts
  <2> QED BY <1>1, <2>1 DEF Start
<1>3. starts' = [starts EXCEPT ![s] = new] /\ registry' = registry
  BY <1>1 DEF SetUp, Start
<1> HIDE DEF new
<1>4. /\ starts' \in Seq(Start) /\ Len(starts') = Len(starts)
      /\ \A t \in Ids : starts'[t] = IF t = s THEN new ELSE starts[t]
  BY <1>1, <1>2, <1>3, ExceptSeq DEF Ids
<1>5. watches' \in [Starts -> Watch]
  <2> DEFINE watch == [watches[s] EXCEPT !.covered = disk.made]
  <2>1. watches \in [Starts -> Watch] /\ watches[s] \in Watch
    BY <1>1 DEF IInv, TypeOK, Watch
  <2>2. disk.made \in BOOLEAN
    BY DEF IInv, TypeOK
  <2>3. watch \in Watch /\ watches' = [watches EXCEPT ![s] = watch]
    BY <2>1, <2>2 DEF Watch, SetUp
  <2> HIDE DEF watch
  <2> QED BY <2>1, <2>3
<1>6. TypeOK'
  BY <1>3, <1>4, <1>5 DEF IInv, TypeOK, SetUp, Start, Watch
<1>7. ASSUME NEW t \in Ids
      PROVE  Shares(t)' /\ Settled(starts'[t].burst)
  BY <1>2, <1>3, <1>4 DEF IInv, Shares, Pc
<1>8. TreesExist'
  BY <1>4, TreesStay DEF SetUp
<1> QED BY <1>4, <1>6, <1>7, <1>8 DEF IInv, Ids

\* Where the registry's watch is not running, nobody subscribes to any.
LEMMA InsertKeeps ==
    ASSUME IInv, NEW s \in Ids, Insert(s)
    PROVE  IInv'
<1>1. starts[s] \in Start /\ starts \in Seq(Start) /\ s \in 1 .. Len(starts) /\ s \in Starts
  BY StartAt DEF IInv, TypeOK, Start, Ids
<1>2. registry' = Chosen(s) /\ Chosen(s) \in 1 .. MaxStarts
  <2>1. Running(registry) => registry # 0
    BY DEF Running, Runs
  <2> QED BY <1>1, <2>1, BoundsAssumption DEF Insert, Chosen, IInv, TypeOK, Starts
<1> DEFINE chosen == Chosen(s)
           new == [starts[s] EXCEPT !.pc = "subscribe", !.repo = chosen]
<1>3. /\ new \in Start /\ new.pc = "subscribe" /\ new.repo = chosen
      /\ new.burst = starts[s].burst
  <2>1. chosen \in 0 .. MaxStarts
    BY <1>2
  <2> HIDE DEF chosen
  <2> QED BY <1>1, <2>1 DEF Start
<1>4. starts' = [starts EXCEPT ![s] = new]
  BY <1>1 DEF Insert, Start
<1> HIDE DEF new
<1>5. /\ starts' \in Seq(Start) /\ Len(starts') = Len(starts)
      /\ \A t \in Ids : starts'[t] = IF t = s THEN new ELSE starts[t]
  BY <1>1, <1>3, <1>4, ExceptSeq DEF Ids
<1>6. watches' \in [Starts -> Watch]
  BY KeepingType DEF IInv, TypeOK, Insert, Watch
<1>7. TypeOK'
  <2>1. registry' \in 0 .. MaxStarts
    BY <1>2, BoundsAssumption
  <2>2. UNCHANGED <<disk, views, jobs>>
    BY DEF Insert
  <2> HIDE DEF chosen
  <2> QED BY <1>5, <1>6, <2>1, <2>2 DEF IInv, TypeOK, Start, Watch
<1>8. ASSUME NEW t \in Ids \ {s}, Pc(t) \in {"subscribe", "done"}
      PROVE  chosen = registry
  <2>1. DOMAIN starts = Ids
    BY <1>1, LenProperties DEF Ids
  <2>2. starts[t].repo = registry /\ registry # 0
    BY <1>8 DEF IInv, Shares
  <2>3. Running(registry)
    BY <1>8, <2>1, <2>2 DEF Running, Runs, Pc
  <2> QED BY <2>3 DEF Chosen
<1>9. ASSUME NEW t \in Ids
      PROVE  Shares(t)' /\ Settled(starts'[t].burst)
  <2>1. CASE t = s
    BY <1>2, <1>3, <1>5, <2>1 DEF IInv, Shares, Pc
  <2>2. CASE t # s
    BY <1>2, <1>5, <1>8, <2>2 DEF IInv, Shares, Pc
  <2> QED BY <2>1, <2>2
<1>10. TreesExist'
  BY <1>5, TreesStay DEF Insert
<1> QED BY <1>5, <1>7, <1>9, <1>10 DEF IInv, Ids

LEMMA AnswerKeeps ==
    ASSUME IInv, NEW s \in Ids, NEW subscribed \in BOOLEAN, Answer(s, subscribed)
    PROVE  IInv'
<1>1. starts[s] \in Start /\ starts \in Seq(Start) /\ s \in 1 .. Len(starts)
  BY StartAt DEF IInv, TypeOK, Start, Ids
<1> DEFINE pc == IF subscribed THEN "done" ELSE "ended"
           new == [starts[s] EXCEPT !.pc = pc]
           answered == [starts EXCEPT ![s] = new]
<1>2. /\ new \in Start /\ new.pc = pc /\ new.repo = starts[s].repo
      /\ new.burst = starts[s].burst
  BY <1>1 DEF Start
<1>3. starts' = Dropped(answered, views) /\ registry' = registry
  BY <1>1 DEF Answer, Start
<1> HIDE DEF new
<1>4. /\ answered \in Seq(Start) /\ Len(answered) = Len(starts)
      /\ \A t \in Ids : answered[t] = IF t = s THEN new ELSE starts[t]
  BY <1>1, <1>2, ExceptSeq DEF Ids
<1> HIDE DEF answered
<1>5. /\ starts' \in Seq(Start) /\ Len(starts') = Len(starts)
      /\ \A t \in Ids : starts'[t] \in {answered[t], Ended}
  BY <1>3, <1>4, DroppingType DEF Ids
<1>6. watches' \in [Starts -> Watch]
  BY KeepingType DEF IInv, TypeOK, Answer, Watch
<1>7. TypeOK'
  BY <1>3, <1>5, <1>6 DEF IInv, TypeOK, Answer, Start, Watch
<1>8. pc = "done" => Pc(s) = "subscribe"
  BY DEF Answer
<1>9. Ended.pc = "ended" /\ Settled(Ended.burst)
  BY NewBurstsAreSettled DEF Ended, NewStart
<1>10. ASSUME NEW t \in Ids
       PROVE  Shares(t)' /\ Settled(starts'[t].burst)
  <2>1. CASE starts'[t] = Ended
    BY <1>9, <2>1 DEF Shares, Pc
  <2>2. CASE starts'[t] = starts[t]
    BY <1>3, <2>2 DEF IInv, Shares, Pc
  <2>3. CASE t = s /\ starts'[t] = new
    <3>1. pc \in {"done", "ended"}
      OBVIOUS
    <3>2. pc = "done" => starts[s].repo = registry /\ registry # 0
      BY <1>8 DEF IInv, Shares
    <3>3. Settled(new.burst)
      BY <1>2 DEF IInv
    <3> HIDE DEF pc
    <3> QED BY <1>2, <1>3, <2>3, <3>1, <3>2, <3>3 DEF Shares, Pc
  <2> QED BY <1>4, <1>5, <2>1, <2>2, <2>3
<1>11. TreesExist'
  BY <1>5, TreesStay DEF Answer
<1> QED BY <1>5, <1>7, <1>10, <1>11 DEF IInv, Ids
-----------------------------------------------------------------------------
(* The views *)

LEMMA ShowKeeps ==
    ASSUME IInv, NEW v \in Views, Show(v)
    PROVE  IInv'
<1>1. starts \in Seq(Start) /\ Len(starts) \in Nat /\ Len(starts) < MaxStarts
  BY LenProperties DEF IInv, TypeOK, Start, Show
<1>2. /\ starts' \in Seq(Start) /\ Len(starts') = Len(starts) + 1
      /\ \A s \in 1 .. Len(starts) : starts'[s] = starts[s]
      /\ starts'[Len(starts) + 1] = NewStart
  BY <1>1, FreshStarts, AppendProperties DEF Show
<1>3. views' \in [Views -> View]
  <2> DEFINE view == [views[v] EXCEPT !.shown = TRUE, !.starting = Len(starts) + 1,
                                      !.watching = "no"]
  <2>1. views \in [Views -> View] /\ views[v] \in View
    BY DEF IInv, TypeOK, View
  <2>2. Len(starts) + 1 \in 0 .. MaxStarts
    BY <1>1, BoundsAssumption
  <2>3. view \in View
    BY <2>1, <2>2 DEF View
  <2>4. views' = [views EXCEPT ![v] = view]
    BY <2>1 DEF Show, View
  <2> HIDE DEF view
  <2> QED BY <2>1, <2>3, <2>4
<1>4. jobs' \in [Views -> Seq(Reading)]
  <2>1. jobs[v] \in Seq(Reading) /\ "fresh" \in Reading
    BY DEF IInv, TypeOK, Reading
  <2>2. Append(jobs[v], "fresh") \in Seq(Reading)
    BY <2>1, AppendProperties
  <2> QED BY <2>2 DEF Show, Asked, IInv, TypeOK
<1>5. TypeOK'
  <2>1. Len(starts') <= MaxStarts
    BY <1>1, <1>2, BoundsAssumption
  <2>2. UNCHANGED <<disk, watches, registry>>
    BY DEF Show
  <2> QED BY <1>2, <1>3, <1>4, <2>1, <2>2 DEF IInv, TypeOK, Start, Watch, View
<1>6. ASSUME NEW s \in Ids'
      PROVE  Shares(s)' /\ Settled(starts'[s].burst)
  <2>1. CASE s \in Ids
    <3>1. starts'[s] = starts[s] /\ registry' = registry
      BY <1>2, <2>1 DEF Ids, Show
    <3> QED BY <2>1, <3>1 DEF IInv, Shares, Pc
  <2>2. CASE s \notin Ids
    <3>1. s = Len(starts) + 1
      BY <1>1, <1>2, <2>2 DEF Ids
    <3>2. NewStart.pc = "look" /\ Settled(NewStart.burst)
      BY NewBurstsAreSettled DEF NewStart
    <3> QED BY <1>2, <3>1, <3>2 DEF Shares, Pc
  <2> QED BY <2>1, <2>2
<1>7. TreesExist'
  <2>1. Ids' = Ids \cup {Len(starts) + 1}
    BY <1>1, <1>2 DEF Ids
  <2>2. /\ views \in [Views -> View]
        /\ views' = [views EXCEPT ![v] = [views[v] EXCEPT !.shown = TRUE,
                                          !.starting = Len(starts) + 1, !.watching = "no"]]
    BY DEF Show, IInv, TypeOK, View
  <2>3. ASSUME NEW u \in Views
        PROVE  /\ views'[u].tree = views[u].tree
               /\ views'[u].starting \in {views[u].starting, Len(starts) + 1}
    BY <2>2 DEF View
  <2> QED BY <2>1, <2>3 DEF IInv, TreesExist
<1> QED BY <1>5, <1>6, <1>7 DEF IInv

LEMMA BuryKeeps ==
    ASSUME IInv, NEW v \in Views, Bury(v)
    PROVE  IInv'
<1>1. starts \in Seq(Start)
  BY DEF IInv, TypeOK, Start
<1>2. /\ starts' \in Seq(Start) /\ Len(starts') = Len(starts)
      /\ \A s \in Ids : starts'[s] \in {starts[s], Ended}
  BY <1>1, DroppingType DEF Bury, Ids
<1>3. watches' \in [Starts -> Watch]
  BY KeepingType DEF IInv, TypeOK, Bury, Watch
<1>4. views' \in [Views -> View]
  <2> DEFINE view == [views[v] EXCEPT !.shown = FALSE, !.tree = 0, !.starting = 0]
  <2>1. views \in [Views -> View] /\ views[v] \in View
    BY DEF IInv, TypeOK, View
  <2>2. 0 \in 0 .. MaxStarts
    BY BoundsAssumption
  <2>3. view \in View
    BY <2>1, <2>2 DEF View
  <2>4. views' = [views EXCEPT ![v] = view]
    BY <2>1 DEF Bury, View
  <2> HIDE DEF view
  <2> QED BY <2>1, <2>3, <2>4
<1>5. TypeOK'
  BY <1>2, <1>3, <1>4 DEF IInv, TypeOK, Bury, Start, Watch, View
<1>6. \A s \in Ids' : Shares(s)' /\ Settled(starts'[s].burst)
  BY <1>2, SharingStays DEF IInv, Bury
<1>7. TreesExist'
  <2>1. /\ views \in [Views -> View]
        /\ views' = [views EXCEPT ![v] = [views[v] EXCEPT !.shown = FALSE, !.tree = 0,
                                                         !.starting = 0]]
    BY DEF Bury, IInv, TypeOK, View
  <2>2. ASSUME NEW u \in Views
        PROVE  /\ views'[u].tree \in {views[u].tree, 0}
               /\ views'[u].starting \in {views[u].starting, 0}
    BY <2>1 DEF View
  <2> QED BY <1>2, <2>2 DEF IInv, TreesExist, Ids
<1> QED BY <1>5, <1>6, <1>7 DEF IInv

LEMMA AdoptKeeps ==
    ASSUME IInv, NEW v \in Views, Adopt(v)
    PROVE  IInv'
<1>1. views' \in [Views -> View]
  <2> DEFINE tree == IF Pc(views[v].starting) = "done" THEN views[v].starting ELSE 0
             view == [views[v] EXCEPT !.starting = 0, !.tree = tree]
  <2>1. views \in [Views -> View] /\ views[v] \in View
    BY DEF IInv, TypeOK, View
  <2>2. tree \in 0 .. MaxStarts
    BY <2>1, BoundsAssumption DEF View
  <2>3. views' = [views EXCEPT ![v] = view]
    BY <2>1 DEF Adopt, View
  <2> HIDE DEF tree
  <2>4. view \in View
    <3>1. 0 \in 0 .. MaxStarts
      BY BoundsAssumption
    <3> QED BY <2>1, <2>2, <3>1 DEF View
  <2> HIDE DEF view
  <2> QED BY <2>1, <2>3, <2>4
<1>2. TypeOK'
  BY <1>1 DEF IInv, TypeOK, Adopt, View
<1>3. \A s \in Ids' : Shares(s)' /\ Settled(starts'[s].burst)
  BY SharingStays DEF IInv, Adopt
<1>4. TreesExist'
  <2> DEFINE s == views[v].starting
  <2>1. /\ views \in [Views -> View]
        /\ views' = [views EXCEPT ![v] = [views[v] EXCEPT !.starting = 0,
                                          !.tree = IF Pc(s) = "done" THEN s ELSE 0]]
    BY DEF Adopt, IInv, TypeOK, View
  <2>2. ASSUME NEW u \in Views
        PROVE  /\ views'[u].tree \in {views[u].tree, views[u].starting, 0}
               /\ views'[u].starting \in {views[u].starting, 0}
    BY <2>1 DEF View
  <2> QED BY <2>2 DEF IInv, TreesExist, Ids, Adopt
<1> QED BY <1>2, <1>3, <1>4 DEF IInv

\* A look changes the tree it is made of, and no more of the starts.
LEMMA LooksKeep ==
    ASSUME IInv, NEW t \in Ids, NEW new \in Start, new.pc = starts[t].pc,
           new.repo = starts[t].repo, Settled(new.burst),
           starts' = [starts EXCEPT ![t] = new], UNCHANGED <<disk, registry>>,
           watches' \in [Starts -> Watch], jobs' \in [Views -> Seq(Reading)],
           \/ views' = views
           \/ \E v \in Views, watching \in {"no", "status", "full"} :
                  views' = [views EXCEPT ![v].watching = watching]
    PROVE  IInv'
<1>0. /\ views' \in [Views -> View]
      /\ \A u \in Views : views'[u].tree = views[u].tree /\ views'[u].starting = views[u].starting
  <2>1. views \in [Views -> View]
    BY DEF IInv, TypeOK, View
  <2>2. CASE views' = views
    BY <2>1, <2>2
  <2>3. ASSUME NEW v \in Views, NEW watching \in {"no", "status", "full"},
               views' = [views EXCEPT ![v].watching = watching]
        PROVE  /\ views' \in [Views -> View]
               /\ \A u \in Views : /\ views'[u].tree = views[u].tree
                                    /\ views'[u].starting = views[u].starting
    <3> DEFINE view == [views[v] EXCEPT !.watching = watching]
    <3>0. views[v] \in View
      BY <2>1
    <3>1. view \in View /\ view.tree = views[v].tree /\ view.starting = views[v].starting
      BY <3>0 DEF View
    <3>2. views' = [views EXCEPT ![v] = view]
      BY <2>1, <2>3 DEF View
    <3> HIDE DEF view
    <3> QED BY <2>1, <3>1, <3>2
  <2> QED BY <2>2, <2>3
<1>1. starts \in Seq(Start)
  BY DEF IInv, TypeOK, Start
<1>2. /\ starts' \in Seq(Start) /\ Len(starts') = Len(starts)
      /\ \A s \in Ids : starts'[s] = IF s = t THEN new ELSE starts[s]
  BY <1>1, ExceptSeq DEF Ids
<1>3. TypeOK'
  <2>1. views' \in [Views -> View]
    BY <1>0
  <2> QED BY <1>2, <2>1 DEF IInv, TypeOK, Start, Watch, View
<1>4. \A s \in Ids' : Shares(s)' /\ Settled(starts'[s].burst)
  BY <1>2, SharingStays DEF IInv
<1>5. TreesExist'
  <2>1. \A u \in Views : views'[u].tree = views[u].tree /\ views'[u].starting = views[u].starting
    BY <1>0
  <2> QED BY <1>2, <2>1 DEF IInv, TreesExist, Ids
<1> QED BY <1>3, <1>4, <1>5 DEF IInv

LEMMA ClearNewsKeeps ==
    ASSUME IInv, NEW v \in Views, ClearNews(v)
    PROVE  IInv'
<1> DEFINE t == views[v].tree
           new == [starts[t] EXCEPT !.news = FALSE, !.look = "drain"]
<1>1. t \in Ids
  BY DEF ClearNews, IsWatching, IInv, TreesExist
<1>2. starts[t] \in Start /\ starts \in Seq(Start)
  BY <1>1, StartAt DEF IInv, TypeOK, Start
<1>3. /\ new \in Start /\ new.pc = starts[t].pc /\ new.repo = starts[t].repo
      /\ new.burst = starts[t].burst
  BY <1>2 DEF Start
<1>4. starts' = [starts EXCEPT ![t] = new]
  BY <1>1, <1>2 DEF ClearNews, Start
<1>5. Settled(new.burst)
  BY <1>1, <1>3 DEF IInv
<1>6. watches' \in [Starts -> Watch] /\ jobs' \in [Views -> Seq(Reading)]
  BY DEF IInv, TypeOK, ClearNews, Watch
<1> HIDE DEF new
<1> QED BY <1>1, <1>3, <1>4, <1>5, <1>6, LooksKeep DEF ClearNews

LEMMA DrainKeeps ==
    ASSUME IInv, NEW v \in Views, Drain(v)
    PROVE  IInv'
<1> DEFINE t == views[v].tree
           arrived == Tree(v).channel # {}
           git == Merged(starts[t].git, starts[t].channel)
           burst == IF arrived THEN TakeChange(starts[t].burst) ELSE starts[t].burst
           new == [starts[t] EXCEPT !.channel = {}, !.look = "decide", !.git = git, !.burst = burst]
<1>1. t \in Ids
  BY DEF Drain, IInv, TreesExist
<1>2. starts[t] \in Start /\ starts \in Seq(Start)
  BY <1>1, StartAt DEF IInv, TypeOK, Start
<1>3. Settled(burst)
  BY <1>1, ChangesKeepSettled DEF IInv
<1>4. git \in BOOLEAN
  BY <1>2 DEF Merged, Start
<1>5. starts' = [starts EXCEPT ![t] = new]
  BY <1>1, <1>2 DEF Drain, Tree, Start
<1>6. watches' \in [Starts -> Watch] /\ jobs' \in [Views -> Seq(Reading)]
  <2>1. ASSUME NEW w \in Starts
        PROVE  watches[w] \in Watch /\ (watches[w].covered \/ (arrived /\ disk.made)) \in BOOLEAN
    BY DEF IInv, TypeOK, Watch
  <2>2. ASSUME NEW w \in Starts, NEW covered \in BOOLEAN
        PROVE  [watches EXCEPT ![w].covered = covered] \in [Starts -> Watch]
    <3> DEFINE watch == [watches[w] EXCEPT !.covered = covered]
    <3>1. watch \in Watch /\ watches \in [Starts -> Watch]
      <4>1. watches \in [Starts -> Watch]
        BY DEF IInv, TypeOK, Watch
      <4>2. watch \in Watch
        BY <2>1 DEF Watch
      <4> QED BY <4>1, <4>2
    <3>2. [watches EXCEPT ![w].covered = covered] = [watches EXCEPT ![w] = watch]
      BY <3>1
    <3> HIDE DEF watch
    <3> QED BY <3>1, <3>2
  <2>3. watches \in [Starts -> Watch] /\ jobs \in [Views -> Seq(Reading)]
    BY DEF IInv, TypeOK, Watch
  <2> DEFINE w == Tree(v).repo
  <2>4. watches' = [watches EXCEPT ![w].covered = @ \/ (arrived /\ disk.made)] /\ jobs' = jobs
    BY DEF Drain
  <2>5. CASE w \in Starts
    BY <2>1, <2>2, <2>3, <2>4, <2>5
  <2>6. CASE w \notin Starts
    BY <2>3, <2>4, <2>6
  <2> QED BY <2>5, <2>6
<1> HIDE DEF burst, git
<1>7. /\ new \in Start /\ new.pc = starts[t].pc /\ new.repo = starts[t].repo
      /\ new.burst = burst
  BY <1>2, <1>3, <1>4 DEF Start, Settled
<1> HIDE DEF new
<1> QED BY <1>1, <1>3, <1>5, <1>6, <1>7, LooksKeep DEF Drain

LEMMA DecideKeeps ==
    ASSUME IInv, NEW v \in Views, Decide(v)
    PROVE  IInv'
<1> DEFINE t == views[v].tree
           b == Tree(v).burst
           news == NewsLeft(Tree(v))
<1>1. t \in Ids
  BY DEF Decide, IInv, TreesExist
<1>2. starts[t] \in Start /\ starts \in Seq(Start) /\ Tree(v) = starts[t]
  BY <1>1, StartAt DEF IInv, TypeOK, Start, Tree
<1>3. Settled(b) /\ news \in BOOLEAN
  BY <1>1, <1>2 DEF IInv, NewsLeft, Start
<1>4. watches' \in [Starts -> Watch]
  BY DEF IInv, TypeOK, Decide, Watch
<1>5. CASE IsDue(b) /\ (disk.locked => IsOverdue(b))
  <2> DEFINE burst == MarkRead(b)
             new == [starts[t] EXCEPT !.burst = burst, !.git = FALSE, !.news = news,
                                      !.look = "none"]
  <2>1. Settled(burst)
    BY <1>3, <1>5, ReadsKeepSettled
  <2>2. starts' = [starts EXCEPT ![t] = new]
    BY <1>1, <1>2, <1>5 DEF Decide, Start
  <2>3. views' = [views EXCEPT ![v].watching = IF Tree(v).git THEN "full" ELSE "status"]
    BY <1>5 DEF Decide
  <2>4. jobs' \in [Views -> Seq(Reading)]
    <3>1. jobs[v] \in Seq(Reading) /\ "fresh" \in Reading
      BY DEF IInv, TypeOK, Reading
    <3>2. Append(jobs[v], "fresh") \in Seq(Reading)
      BY <3>1, AppendProperties
    <3> QED BY <1>5, <3>2 DEF Decide, Asked, IInv, TypeOK
  <2> HIDE DEF burst, news
  <2>5. /\ new \in Start /\ new.pc = starts[t].pc /\ new.repo = starts[t].repo
        /\ new.burst = burst
    BY <1>2, <1>3, <2>1 DEF Start, Settled
  <2> HIDE DEF new
  <2>6. \E w \in {"no", "status", "full"} : views' = [views EXCEPT ![v].watching = w]
    BY <2>3
  <2>7. UNCHANGED <<disk, registry>>
    BY DEF Decide
  <2> QED BY <1>1, <1>4, <2>1, <2>2, <2>4, <2>5, <2>6, <2>7, LooksKeep
<1>6. CASE ~ (IsDue(b) /\ (disk.locked => IsOverdue(b)))
  <2> DEFINE new == [starts[t] EXCEPT !.news = news, !.look = "none"]
  <2>1. starts' = [starts EXCEPT ![t] = new] /\ UNCHANGED <<views, jobs, disk, registry>>
    BY <1>1, <1>2, <1>6 DEF Decide, Start
  <2>2. jobs' \in [Views -> Seq(Reading)]
    BY <2>1 DEF IInv, TypeOK
  <2> HIDE DEF news
  <2>3. /\ new \in Start /\ new.pc = starts[t].pc /\ new.repo = starts[t].repo
        /\ new.burst = starts[t].burst
    BY <1>2, <1>3 DEF Start
  <2>4. Settled(new.burst)
    BY <1>2, <1>3, <2>3
  <2> HIDE DEF new
  <2> QED BY <1>1, <1>4, <2>1, <2>2, <2>3, <2>4, LooksKeep
<1> QED BY <1>5, <1>6

LEMMA WithoutType ==
    ASSUME NEW S, NEW q \in Seq(S), NEW i \in DOMAIN q
    PROVE  /\ Without(q, i) \in Seq(S) /\ Len(Without(q, i)) = Len(q) - 1
           /\ \A j \in 1 .. Len(q) - 1 : Without(q, i)[j] = IF j < i THEN q[j] ELSE q[j + 1]
<1>1. Len(q) \in Nat /\ i \in 1 .. Len(q)
  BY LenProperties
<1> DEFINE before == SubSeq(q, 1, i - 1)
           after == SubSeq(q, i + 1, Len(q))
<1>2. \A k \in 1 .. i - 1 : q[k] \in S
  BY <1>1, ElementOfSeq
<1>3. /\ before \in Seq(S) /\ Len(before) = i - 1
      /\ \A j \in 1 .. i - 1 : before[j] = q[j]
  BY <1>1, <1>2, SubSeqProperties
<1>4. \A k \in i + 1 .. Len(q) : q[k] \in S
  BY <1>1, ElementOfSeq
<1>5. /\ after \in Seq(S) /\ Len(after) = Len(q) - i
      /\ \A j \in 1 .. Len(q) - i : after[j] = q[i + j]
  BY <1>1, <1>4, SubSeqProperties
<1> HIDE DEF before, after
<1>6. /\ before \o after \in Seq(S) /\ Len(before \o after) = Len(before) + Len(after)
      /\ \A j \in 1 .. Len(before) + Len(after) :
            (before \o after)[j] = IF j <= Len(before) THEN before[j] ELSE after[j - Len(before)]
  BY <1>3, <1>5, ConcatProperties
<1>7. Without(q, i) = before \o after
  BY DEF Without, before, after
<1>8. ASSUME NEW j \in 1 .. Len(q) - 1
      PROVE  (before \o after)[j] = IF j < i THEN q[j] ELSE q[j + 1]
  <2>1. CASE j < i
    <3>1. j \in 1 .. i - 1 /\ j \in 1 .. Len(before) + Len(after) /\ j <= Len(before)
      BY <1>1, <1>3, <1>5, <2>1
    <3> QED BY <1>3, <1>6, <2>1, <3>1
  <2>2. CASE ~ (j < i)
    <3>1. (before \o after)[j] = after[j - (i - 1)] /\ j - (i - 1) \in 1 .. Len(q) - i
      <4>1. Len(before) = i - 1 /\ Len(after) = Len(q) - i /\ j \in Nat
        BY <1>3, <1>5
      <4>2. j \in 1 .. Len(before) + Len(after) /\ ~ (j <= Len(before))
        BY <1>1, <2>2, <4>1
      <4>3. (before \o after)[j] = after[j - Len(before)]
        BY <1>6, <4>2
      <4> QED BY <1>1, <2>2, <4>1, <4>3
    <3>2. i + (j - (i - 1)) = j + 1
      BY <1>1
    <3> QED BY <1>5, <2>2, <3>1, <3>2
  <2> QED BY <2>1, <2>2
<1>9. Len(before) + Len(after) = Len(q) - 1
  BY <1>1, <1>3, <1>5
<1>10. Len(before \o after) = Len(q) - 1
  BY <1>6, <1>9
<1> QED BY <1>6, <1>7, <1>8, <1>10

LEMMA AnsweredKeeps ==
    ASSUME IInv, NEW v \in Views, NEW i \in DOMAIN jobs[v], Answered(v, i)
    PROVE  IInv'
<1>1. starts \in Seq(Start) /\ Len(starts) \in Nat
  BY LenProperties DEF IInv, TypeOK, Start
<1>2. ASSUME NEW s \in Ids
      PROVE  /\ starts'[s] \in Start
             /\ starts'[s].pc = starts[s].pc /\ starts'[s].repo = starts[s].repo
             /\ starts'[s].burst = starts[s].burst
  <2>1. starts[s] \in Start
    BY StartAt DEF IInv
  <2> DEFINE owed == starts[s].owed /\ jobs[v][i] # "fresh"
             owedGit == starts[s].owedGit /\ (jobs[v][i] = "old" \/ views[v].watching = "status")
  <2>2. starts'[s] \in {starts[s], [starts[s] EXCEPT !.owed = owed, !.owedGit = owedGit]}
    BY DEF Answered
  <2>3. owed \in BOOLEAN /\ owedGit \in BOOLEAN
    BY <2>1 DEF Start
  <2> HIDE DEF owed, owedGit
  <2> QED BY <2>1, <2>2, <2>3 DEF Start
<1>3. starts' \in Seq(Start) /\ Len(starts') = Len(starts)
  <2>1. starts' \in [1 .. Len(starts) -> Start]
    BY <1>2 DEF Answered, Ids
  <2> QED BY <1>1, <2>1, MadeOfStarts
<1>4. jobs' \in [Views -> Seq(Reading)]
  <2>1. jobs[v] \in Seq(Reading)
    BY DEF IInv, TypeOK
  <2>2. Without(jobs[v], i) \in Seq(Reading)
    BY <2>1, WithoutType
  <2> QED BY <2>2 DEF Answered, IInv, TypeOK
<1>5. views' \in [Views -> View] /\ \A u \in Views : /\ views'[u].tree = views[u].tree
                                                     /\ views'[u].starting = views[u].starting
  <2>1. views \in [Views -> View] /\ views' = [views EXCEPT ![v].watching = "no"]
    BY DEF Answered, IInv, TypeOK, View
  <2> QED BY <2>1 DEF View
<1>6. TypeOK'
  BY <1>3, <1>4, <1>5 DEF IInv, TypeOK, Answered, Start, Watch, View
<1>7. TreesExist'
  BY <1>3, <1>5 DEF IInv, TreesExist, Ids
<1>8. \A s \in Ids' : Shares(s)' /\ Settled(starts'[s].burst)
  <2>1. registry' = registry
    BY DEF Answered
  <2> QED BY <1>2, <1>3, <2>1, SharingStays DEF IInv
<1> QED BY <1>6, <1>7, <1>8 DEF IInv

-----------------------------------------------------------------------------
(* Every step keeps the invariant *)

LEMMA InitHolds == Init => IInv
<1> SUFFICES ASSUME Init PROVE IInv
  OBVIOUS
<1>1. Len(starts) = 0 /\ starts \in Seq(Start) /\ Ids = {}
  <2>1. starts = <<>>
    BY DEF Init
  <2>2. Len(starts) = 0 /\ starts \in Seq(Start)
    BY <2>1, EmptySeq
  <2> QED BY <2>2 DEF Ids
<1>2. /\ watches \in [Starts -> Watch] /\ views \in [Views -> View]
      /\ jobs \in [Views -> Seq(Reading)] /\ registry \in 0 .. MaxStarts
  BY FreshStarts, BoundsAssumption DEF Init, View
<1>3. disk \in [changes : 0 .. MaxChanges, made : BOOLEAN, locked : BOOLEAN]
  <2>1. 0 \in 0 .. MaxChanges
    BY BoundsAssumption
  <2> QED BY <2>1 DEF Init
<1>4. TypeOK
  BY <1>1, <1>2, <1>3, BoundsAssumption DEF TypeOK, Start, Watch, View
<1>5. TreesExist
  BY DEF Init, TreesExist
<1> QED BY <1>1, <1>4, <1>5 DEF IInv

LEMMA SetLockKeeps ==
    ASSUME IInv, NEW locked \in BOOLEAN, SetLock(locked)
    PROVE  IInv'
<1>1. disk' \in [changes : 0 .. MaxChanges, made : BOOLEAN, locked : BOOLEAN]
  BY DEF IInv, TypeOK, SetLock
<1>2. UNCHANGED <<starts, watches, registry, views, jobs>>
  BY DEF SetLock
<1> QED BY <1>1, <1>2 DEF IInv, TypeOK, TreesExist, Shares, Ids, Pc

LEMMA NextKeeps == IInv /\ [Next]_vars => IInv'
<1> SUFFICES ASSUME IInv, [Next]_vars PROVE IInv'
  OBVIOUS
<1>1. CASE UNCHANGED vars
  BY <1>1 DEF IInv, TypeOK, TreesExist, Shares, Ids, Pc, vars
<1>2. ASSUME NEW where \in {"git", "make", "inside"}, Change(where)
      PROVE  IInv'
  BY <1>2, ChangeKeeps
<1>3. ASSUME NEW locked \in BOOLEAN, SetLock(locked)
      PROVE  IInv'
  BY <1>3, SetLockKeeps
<1>4. CASE Tick
  BY <1>4, TickKeeps
<1>5. ASSUME NEW w \in Starts, WatcherSteps(w)
      PROVE  IInv'
  BY <1>5, TellKeeps, FlagKeeps DEF WatcherSteps
<1>6. ASSUME NEW s \in Ids, StartSteps(s) \/ Answer(s, FALSE)
      PROVE  IInv'
  BY <1>6, LookKeeps, SetUpKeeps, InsertKeeps, AnswerKeeps DEF StartSteps
<1>7. ASSUME NEW v \in Views, UserSteps(v)
      PROVE  IInv'
  BY <1>7, ShowKeeps, BuryKeeps DEF UserSteps
<1>8. ASSUME NEW v \in Views, JobSteps(v)
      PROVE  IInv'
  BY <1>8, AnsweredKeeps DEF JobSteps
<1>9. ASSUME NEW v \in Views, Adopt(v) \/ ClearNews(v) \/ Drain(v) \/ Decide(v)
      PROVE  IInv'
  BY <1>9, AdoptKeeps, ClearNewsKeeps, DrainKeeps, DecideKeeps
<1> QED BY <1>1, <1>2, <1>3, <1>4, <1>5, <1>6, <1>7, <1>8, <1>9 DEF Next

LEMMA InvariantHolds == Spec => []IInv
BY InitHolds, NextKeeps, PTL DEF Spec

\* Every start, watch and view has its type.
THEOREM TypeCorrect == Spec => []TypeOK
<1>1. IInv => TypeOK
  BY DEF IInv
<1> QED BY <1>1, InvariantHolds, PTL

\* However many views follow a repository, and however the threads that set their
\* watches up meet, all of them follow one watch (watch.rs running, register).
THEOREM OneWatch == Spec => []WatchedOnce
<1>1. IInv => WatchedOnce
  BY DEF IInv, Shares, WatchedOnce, Pc
<1> QED BY <1>1, InvariantHolds, PTL

\* At whatever pace, a burst is read early once at most (debounce.rs).
THEOREM BurstsReadTwice == Spec => []BurstsAreReadTwice
<1>1. IInv => BurstsAreReadTwice
  BY DEF IInv, Settled, BurstsAreReadTwice
<1> QED BY <1>1, InvariantHolds, PTL
-----------------------------------------------------------------------------
(* Nothing is forgotten *)

\* Before it follows a watch, and once it is gone, a tree has nothing to take in.
IsIdle(s) ==
    /\ ~starts[s].owed /\ ~starts[s].owedGit /\ ~starts[s].toldDir
    /\ starts[s].channel = {}

\* A change in a directory made under the watch reaches it, or joins those that are
\* on their way anyhow.
IsCovered(s) ==
    disk.made /\ (starts[s].owed \/ starts[s].toldDir)
        => watches[starts[s].repo].covered \/ OnItsWay(s) # {}

Memory(s) ==
    /\ Pc(s) # "done" => IsIdle(s)
    /\ Pc(s) = "done" =>
         IsRemembered(s) /\ GitIsRemembered(s) /\ IsWoken(s) /\ IsCovered(s)

\* A view has one tree or waits for one; no two views share any.
Holds(v) == {views[v].tree, views[v].starting} \ {0}
Owned ==
    \A v \in Views :
        /\ views[v].tree # 0 => views[v].starting = 0
        /\ ~views[v].shown => Holds(v) = {}
        /\ \A u \in Views \ {v} : Holds(u) \cap Holds(v) = {}

Recall == Owned /\ \A s \in Ids : Memory(s)

LEMMA IdleStarts ==
    ASSUME NEW s, starts'[s] = Ended \/ starts'[s] = NewStart
    PROVE  Memory(s)'
BY DEF Memory, IsIdle, Pc, Ended, NewStart

\* What a tree follows is the registry's watch.
LEMMA FollowersShare ==
    ASSUME IInv, NEW s \in Ids, Pc(s) = "done"
    PROVE  starts[s].repo = registry /\ registry \in Starts /\ Running(registry)
<1>1. starts[s].repo = registry /\ registry # 0 /\ registry \in 0 .. MaxStarts
  BY DEF IInv, TypeOK, Shares
<1>2. DOMAIN starts = Ids
  BY LenProperties DEF IInv, TypeOK, Ids
<1> QED BY <1>1, <1>2, BoundsAssumption DEF Running, Runs, Pc, Starts

\* A tree for which nothing changes but the age of its burst keeps its memory, as
\* long as its watch does and no read of its view is lost.
LEMMA MemoryStays ==
    ASSUME NEW s, Memory(s), disk'.made = disk.made,
           \/ starts'[s] = starts[s]
           \/ /\ starts'[s].pc = starts[s].pc /\ starts'[s].repo = starts[s].repo
              /\ starts'[s].channel = starts[s].channel /\ starts'[s].git = starts[s].git
              /\ starts'[s].news = starts[s].news /\ starts'[s].look = starts[s].look
              /\ starts'[s].owed = starts[s].owed /\ starts'[s].owedGit = starts[s].owedGit
              /\ starts'[s].toldDir = starts[s].toldDir
              /\ starts'[s].burst.pending = starts[s].burst.pending,
           Pc(s) = "done" =>
              LET w == starts[s].repo IN
              /\ watches'[w].queue = watches[w].queue
              /\ watches'[w].telling = watches[w].telling
              /\ disk.made /\ watches[w].covered => watches'[w].covered,
           \A v \in Views : Pc(s) = "done" /\ views[v].tree = s =>
              /\ views'[v].tree = s
              /\ ReadsAll(v) => ReadsAll(v)'
              /\ ReadsGit(v) => ReadsGit(v)'
    PROVE  Memory(s)'
<1>1. /\ Pc(s)' = Pc(s) /\ starts'[s].repo = starts[s].repo
      /\ starts'[s].channel = starts[s].channel /\ starts'[s].git = starts[s].git
      /\ starts'[s].news = starts[s].news /\ starts'[s].look = starts[s].look
      /\ starts'[s].owed = starts[s].owed /\ starts'[s].owedGit = starts[s].owedGit
      /\ starts'[s].toldDir = starts[s].toldDir
      /\ starts'[s].burst.pending = starts[s].burst.pending
  BY DEF Pc
<1>2. CASE Pc(s) # "done"
  BY <1>1, <1>2 DEF Memory, IsIdle
<1>3. CASE Pc(s) = "done"
  <2>1. OnItsWay(s)' = OnItsWay(s)
    BY <1>1, <1>3 DEF OnItsWay
  <2>2. IsRemembered(s)'
    BY <1>1, <1>3, <2>1 DEF Memory, IsRemembered
  <2>3. GitIsRemembered(s)'
    BY <1>1, <1>3, <2>1 DEF Memory, GitIsRemembered
  <2>4. IsWoken(s)'
    BY <1>1, <1>3 DEF Memory, IsWoken
  <2>5. IsCovered(s)'
    BY <1>1, <1>3, <2>1 DEF Memory, IsCovered
  <2> QED BY <1>1, <1>3, <2>2, <2>3, <2>4, <2>5 DEF Memory
<1> QED BY <1>2, <1>3

\* Views that keep their reads.
LEMMA ReadsStay ==
    ASSUME NEW v, jobs'[v] = jobs[v], views'[v].watching \in {views[v].watching, "no"}
    PROVE  (ReadsAll(v) => ReadsAll(v)') /\ (ReadsGit(v) => ReadsGit(v)')
BY DEF ReadsAll, ReadsGit

\* A watch that a tree follows is kept.
LEMMA FollowedIsKept ==
    ASSUME NEW S, NEW W, NEW s \in DOMAIN S, S[s].pc = "done", S[s].repo \in Starts
    PROVE  Kept(W, S)[S[s].repo] = W[S[s].repo]
<1>1. 0 \notin Starts
  BY BoundsAssumption DEF Starts
<1> QED BY <1>1 DEF Kept, Runs

-----------------------------------------------------------------------------
(* What the repository's and the threads' steps do to it *)

LEMMA ViewsKeepTheirs ==
    ASSUME Owned, views' = views
    PROVE  Owned'
BY DEF Owned, Holds

LEMMA ChangeRecalls ==
    ASSUME IInv, Recall, NEW where \in {"git", "make", "inside"}, Change(where)
    PROVE  Recall'
<1> DEFINE inGit == where = "git"
<1>1. Owned' /\ Ids' = Ids
  <2>1. Len(starts) \in Nat /\ starts' = [s \in 1 .. Len(starts) |-> starts'[s]]
    BY LenProperties DEF Change, Ids, IInv, TypeOK
  <2>2. Len(starts') = Len(starts)
    BY <2>1, MadeOfStarts, SeqDef, LenProperties
  <2> QED BY <2>2, ViewsKeepTheirs DEF Recall, Change, Ids
<1>2. ASSUME NEW v \in Views
      PROVE  ~inGit => (ReadsGit(v)' <=> ReadsGit(v))
  <2>1. jobs[v] \in Seq(Reading) /\ views' = views
    BY DEF IInv, TypeOK, Change
  <2>2. /\ DOMAIN jobs'[v] = DOMAIN jobs[v]
        /\ \A i \in DOMAIN jobs[v] : jobs'[v][i] = AfterChange(jobs[v][i], inGit)
    BY DEF Change
  <2>3. ~inGit => \A i \in DOMAIN jobs[v] : jobs'[v][i] = "old" <=> jobs[v][i] = "old"
    BY <2>2 DEF AfterChange
  <2> QED BY <2>1, <2>2, <2>3 DEF ReadsGit
<1>3. ASSUME NEW s \in Ids
      PROVE  Memory(s)'
  <2>1. starts[s] \in Start /\ Pc(s)' = Pc(s)
    BY StartAt DEF IInv, Change, Start, Pc
  <2>2. CASE Pc(s) # "done"
    <3>1. starts'[s] = starts[s]
      BY <2>2 DEF Change
    <3> QED BY <2>1, <2>2, <3>1 DEF Recall, Memory, IsIdle
  <2>3. CASE Pc(s) = "done"
    <3> DEFINE w == starts[s].repo
    <3>1. w \in Starts /\ Running(w)
      BY <2>3, FollowersShare
    <3>2. /\ starts'[s].repo = w /\ starts'[s].channel = starts[s].channel
          /\ starts'[s].git = starts[s].git /\ starts'[s].burst = starts[s].burst
          /\ starts'[s].news = starts[s].news /\ starts'[s].look = starts[s].look
          /\ starts'[s].owed = (starts[s].owed \/ Owes(s, where))
          /\ starts'[s].owedGit = (starts[s].owedGit \/ (Owes(s, where) /\ inGit))
          /\ starts'[s].toldDir = (starts[s].toldDir \/ (Owes(s, where) /\ where = "make"))
      BY <2>1, <2>3 DEF Change, Start
    <3>3. /\ watches'[w].telling = watches[w].telling
          /\ watches'[w].covered = watches[w].covered
          /\ watches'[w].queue = IF Notified(w, where) THEN watches[w].queue \cup {inGit}
                                 ELSE watches[w].queue
      <4>1. watches \in [Starts -> Watch] /\ watches[w] \in Watch
        BY <3>1 DEF IInv, TypeOK, Watch
      <4>2. watches'[w] = IF Notified(w, where)
                          THEN [watches[w] EXCEPT !.queue = @ \cup {inGit}] ELSE watches[w]
        BY <3>1 DEF Change
      <4> QED BY <4>1, <4>2 DEF Watch
    <3>4. OnItsWay(s)' = IF Notified(w, where) THEN OnItsWay(s) \cup {inGit} ELSE OnItsWay(s)
      BY <3>2, <3>3 DEF OnItsWay
    <3>5. CASE Notified(w, where)
      <4>1. inGit \in OnItsWay(s)'
        BY <3>4, <3>5
      <4>2. IsRemembered(s)' /\ IsCovered(s)'
        BY <4>1 DEF IsRemembered, IsCovered
      <4>3. GitIsRemembered(s)'
        <5>1. CASE inGit
          BY <4>1, <5>1 DEF GitIsRemembered
        <5>2. CASE ~inGit
          BY <1>2, <2>3, <3>2, <3>4, <3>5, <5>2 DEF Recall, Memory, GitIsRemembered, Change
        <5> QED BY <5>1, <5>2
      <4>4. IsWoken(s)'
        BY <2>3, <3>2, <3>3 DEF Recall, Memory, IsWoken
      <4> QED BY <2>1, <2>3, <4>2, <4>3, <4>4 DEF Memory
    <3>6. CASE ~Notified(w, where)
      <4>1. where = "inside" /\ ~watches[w].covered /\ disk.made /\ disk'.made = disk.made
        BY <3>1, <3>6 DEF Notified, Change, IInv, TypeOK
      <4>2. OnItsWay(s)' = OnItsWay(s)
        BY <3>4, <3>6
      <4>3. Owes(s, where) <=> starts[s].toldDir
        BY <3>6, <4>1 DEF Owes
      <4>4. starts'[s].owed \/ starts'[s].toldDir => OnItsWay(s) # {}
        BY <2>3, <3>2, <4>1, <4>3 DEF Recall, Memory, IsCovered
      <4>5. IsRemembered(s)' /\ IsCovered(s)'
        BY <4>2, <4>4 DEF IsRemembered, IsCovered
      <4>6. GitIsRemembered(s)'
        BY <1>2, <2>3, <3>2, <4>1, <4>2 DEF Recall, Memory, GitIsRemembered, Change
      <4>7. IsWoken(s)'
        BY <2>3, <3>2, <3>3 DEF Recall, Memory, IsWoken
      <4> QED BY <2>1, <2>3, <4>5, <4>6, <4>7 DEF Memory
    <3> QED BY <3>5, <3>6
  <2> QED BY <2>2, <2>3
<1> QED BY <1>1, <1>3 DEF Recall

\* A step of the starts and watches one by one.
LEMMA OneByOneRecalls ==
    ASSUME IInv, Recall, UNCHANGED <<disk, registry, views, jobs>>,
           starts' = [s \in Ids |-> starts'[s]],
           \A s \in Ids : Memory(s)'
    PROVE  Recall'
<1>1. Len(starts) \in Nat /\ starts' = [s \in 1 .. Len(starts) |-> starts'[s]]
  BY LenProperties DEF Ids, IInv, TypeOK
<1>2. Len(starts') = Len(starts)
  BY <1>1, LenProperties
<1> QED BY <1>2, ViewsKeepTheirs DEF Recall, Ids

LEMMA TickRecalls == ASSUME IInv, Recall, Tick PROVE Recall'
<1>1. ASSUME NEW s \in Ids
      PROVE  Memory(s)'
  <2>1. starts[s] \in Start
    BY StartAt DEF IInv
  <2>2. starts[s].burst \in Bursts
    BY <2>1 DEF Start
  <2>3. Aged(starts[s].burst).pending = starts[s].burst.pending
    BY <2>2 DEF Aged, Bursts
  <2> DEFINE aged == Aged(starts[s].burst)
  <2>4. starts'[s] = [starts[s] EXCEPT !.burst = aged]
    BY DEF Tick
  <2> HIDE DEF aged
  <2>5. /\ starts'[s].pc = starts[s].pc /\ starts'[s].repo = starts[s].repo
        /\ starts'[s].channel = starts[s].channel /\ starts'[s].git = starts[s].git
        /\ starts'[s].news = starts[s].news /\ starts'[s].look = starts[s].look
        /\ starts'[s].owed = starts[s].owed /\ starts'[s].owedGit = starts[s].owedGit
        /\ starts'[s].toldDir = starts[s].toldDir /\ starts'[s].burst = aged
    BY <2>1, <2>4 DEF Start
  <2>6. UNCHANGED <<disk, watches, views, jobs>>
    BY DEF Tick
  <2>7. Memory(s)
    BY DEF Recall
  <2>8. \A v \in Views : (ReadsAll(v) => ReadsAll(v)') /\ (ReadsGit(v) => ReadsGit(v)')
    BY <2>6, ReadsStay
  <2> QED BY <2>3, <2>5, <2>6, <2>7, <2>8, MemoryStays DEF aged
<1> QED BY <1>1, OneByOneRecalls DEF Tick

\* The change a watch takes off its queue goes to all who follow it.
LEMMA TellRecalls ==
    ASSUME IInv, Recall, NEW w \in Starts, NEW inGit \in BOOLEAN, Tell(w, inGit)
    PROVE  Recall'
<1>1. UNCHANGED <<disk, registry, views, jobs>>
  BY DEF Tell
<1>2. \A v \in Views : (ReadsAll(v) => ReadsAll(v)') /\ (ReadsGit(v) => ReadsGit(v)')
  BY <1>1, ReadsStay
<1>3. /\ watches \in [Starts -> Watch]
      /\ watches' = [watches EXCEPT ![w] = [watches[w] EXCEPT !.queue = @ \ {inGit},
                                                             !.telling = Subscribers(w)]]
  BY DEF Tell, IInv, TypeOK, Watch
<1>4. ASSUME NEW s \in Ids
      PROVE  Memory(s)'
  <2>1. starts[s] \in Start /\ Memory(s)
    BY StartAt DEF IInv, Recall
  <2>2. CASE s \in Subscribers(w)
    <3>1. Pc(s) = "done" /\ starts[s].repo = w
      BY <2>2 DEF Subscribers
    <3>2. /\ starts'[s].pc = "done" /\ starts'[s].repo = w
          /\ starts'[s].channel = starts[s].channel \cup {inGit}
          /\ starts'[s].git = starts[s].git /\ starts'[s].burst = starts[s].burst
          /\ starts'[s].owed = starts[s].owed /\ starts'[s].owedGit = starts[s].owedGit
          /\ starts'[s].toldDir = starts[s].toldDir
      BY <2>1, <2>2, <3>1 DEF Tell, Start, Pc
    <3>3. /\ watches'[w].queue = watches[w].queue \ {inGit}
          /\ watches'[w].telling = Subscribers(w)
          /\ watches'[w].covered = watches[w].covered
      BY <1>3 DEF Watch
    <3>4. OnItsWay(s)' = OnItsWay(s)
      BY <3>1, <3>2, <3>3 DEF OnItsWay, Tell
    <3>5. IsRemembered(s)' /\ GitIsRemembered(s)' /\ IsCovered(s)'
      <4>1. IsRemembered(s)'
        BY <1>1, <1>2, <2>1, <3>1, <3>2, <3>4 DEF Memory, IsRemembered
      <4>2. GitIsRemembered(s)'
        BY <1>1, <1>2, <2>1, <3>1, <3>2, <3>4 DEF Memory, GitIsRemembered
      <4>3. IsCovered(s)'
        BY <1>1, <2>1, <3>1, <3>2, <3>3, <3>4 DEF Memory, IsCovered
      <4> QED BY <4>1, <4>2, <4>3
    <3>6. IsWoken(s)'
      BY <2>2, <3>2, <3>3 DEF IsWoken
    <3> QED BY <3>2, <3>5, <3>6 DEF Memory, Pc
  <2>3. CASE s \notin Subscribers(w)
    <3>1. starts'[s] = starts[s]
      BY <2>3 DEF Tell
    <3>2. Pc(s) = "done" => starts[s].repo # w
      BY <2>3 DEF Subscribers
    <3>3. Pc(s) = "done" => watches'[starts[s].repo] = watches[starts[s].repo]
      BY <1>3, <3>2
    <3> QED BY <1>1, <1>2, <2>1, <3>1, <3>3, MemoryStays
  <2> QED BY <2>2, <2>3
<1> QED BY <1>1, <1>4, OneByOneRecalls DEF Tell

LEMMA FlagRecalls ==
    ASSUME IInv, Recall, NEW w \in Starts, Flag(w)
    PROVE  Recall'
<1>1. UNCHANGED <<disk, registry, views, jobs>>
  BY DEF Flag
<1>2. /\ watches \in [Starts -> Watch]
      /\ watches' = [watches EXCEPT ![w] = [watches[w] EXCEPT !.telling = {}]]
  BY DEF Flag, IInv, TypeOK, Watch
<1>3. \A u : /\ watches'[u].queue = watches[u].queue
             /\ watches'[u].covered = watches[u].covered
  <2>1. /\ watches'[w].queue = watches[w].queue
        /\ watches'[w].covered = watches[w].covered
    BY <1>2 DEF Watch
  <2>2. \A u : u # w => watches'[u] = watches[u]
    BY <1>2
  <2> QED BY <2>1, <2>2
<1>4. ASSUME NEW s \in Ids
      PROVE  Memory(s)'
  <2>1. starts[s] \in Start /\ Memory(s)
    BY StartAt DEF IInv, Recall
  <2>2. /\ starts'[s].pc = starts[s].pc /\ starts'[s].repo = starts[s].repo
        /\ starts'[s].channel = starts[s].channel
        /\ starts'[s].git = starts[s].git /\ starts'[s].burst = starts[s].burst
        /\ starts'[s].look = starts[s].look
        /\ starts'[s].owed = starts[s].owed /\ starts'[s].owedGit = starts[s].owedGit
        /\ starts'[s].toldDir = starts[s].toldDir
        /\ starts'[s].news = (starts[s].news \/ (s \in watches[w].telling /\ Pc(s) = "done"))
    BY <2>1 DEF Flag, Start
  <2>3. OnItsWay(s)' = OnItsWay(s)
    BY <1>3, <2>2 DEF OnItsWay
  <2>4. CASE Pc(s) # "done"
    BY <2>1, <2>2, <2>4 DEF Memory, IsIdle, Pc
  <2>5. CASE Pc(s) = "done"
    <3>1. IsRemembered(s)'
      BY <1>1, <2>1, <2>2, <2>3, <2>5 DEF Memory, IsRemembered, ReadsAll
    <3>2. GitIsRemembered(s)'
      BY <1>1, <2>1, <2>2, <2>3, <2>5 DEF Memory, GitIsRemembered, ReadsGit
    <3>3. IsCovered(s)'
      BY <1>1, <1>3, <2>1, <2>2, <2>3, <2>5 DEF Memory, IsCovered
    <3>4. IsWoken(s)'
      <4>1. starts[s].repo # w => watches'[starts[s].repo] = watches[starts[s].repo]
        BY <1>2
      <4>2. IsWoken(s)
        BY <2>1, <2>5 DEF Memory
      <4> QED BY <2>2, <2>5, <4>1, <4>2 DEF IsWoken
    <3> QED BY <2>2, <2>5, <3>1, <3>2, <3>3, <3>4 DEF Memory, Pc
  <2> QED BY <2>4, <2>5
<1> QED BY <1>1, <1>4, OneByOneRecalls DEF Flag

LEMMA SetLockRecalls ==
    ASSUME IInv, Recall, NEW locked \in BOOLEAN, SetLock(locked)
    PROVE  Recall'
<1>1. disk'.made = disk.made /\ UNCHANGED <<starts, watches, registry, views, jobs>>
  BY DEF SetLock, IInv, TypeOK
<1>2. \A v \in Views : (ReadsAll(v) => ReadsAll(v)') /\ (ReadsGit(v) => ReadsGit(v)')
  BY <1>1, ReadsStay
<1>3. \A s \in Ids : Memory(s)'
  BY <1>1, <1>2, MemoryStays DEF Recall
<1> QED BY <1>1, <1>3, ViewsKeepTheirs DEF Recall, Ids

-----------------------------------------------------------------------------
(* What setting up and the views do to it *)

\* A thread that sets a watch up changes its own start, and lets others go; the
\* watches that trees follow are kept.
LEMMA SettingUpRecalls ==
    ASSUME IInv, Recall, NEW s \in Ids, UNCHANGED <<disk, views, jobs>>,
           Len(starts') = Len(starts),
           Memory(s) => Memory(s)',
           \A t \in Ids \ {s} : starts'[t] = starts[t] \/ starts'[t] = Ended,
           \A t \in Ids : Pc(t) = "done" /\ starts'[t] = starts[t] =>
              LET w == starts[t].repo IN
              /\ watches'[w].queue = watches[w].queue
              /\ watches'[w].telling = watches[w].telling
              /\ disk.made /\ watches[w].covered => watches'[w].covered
    PROVE  Recall'
<1>1. \A v \in Views : (ReadsAll(v) => ReadsAll(v)') /\ (ReadsGit(v) => ReadsGit(v)')
  BY ReadsStay
<1>2. ASSUME NEW t \in Ids
      PROVE  Memory(t)'
  <2>1. Memory(t)
    BY DEF Recall
  <2>2. CASE t = s
    BY <2>1, <2>2
  <2>3. CASE t # s /\ starts'[t] = Ended
    BY <2>3, IdleStarts
  <2>4. CASE t # s /\ starts'[t] = starts[t]
    BY <1>1, <2>1, <2>4, MemoryStays
  <2> QED BY <2>2, <2>3, <2>4
<1> QED BY <1>2, ViewsKeepTheirs DEF Recall, Ids

\* Of a start that does not follow a watch before or after.
LEMMA IdleStays ==
    ASSUME NEW s, Pc(s) # "done", starts'[s].owed = starts[s].owed,
           starts'[s].owedGit = starts[s].owedGit, starts'[s].toldDir = starts[s].toldDir,
           starts'[s].channel = starts[s].channel
    PROVE  Memory(s) => Memory(s)'
BY DEF Memory, IsIdle, IsRemembered, GitIsRemembered, IsWoken, IsCovered

LEMMA LookRecalls ==
    ASSUME IInv, Recall, NEW s \in Ids, Look(s)
    PROVE  Recall'
<1>1. starts[s] \in Start /\ starts \in Seq(Start) /\ s \in 1 .. Len(starts)
  BY StartAt DEF IInv, TypeOK, Start, Ids
<1>2. PICK new : /\ starts' = [starts EXCEPT ![s] = new]
                 /\ \/ new = [starts[s] EXCEPT !.pc = "subscribe", !.repo = registry]
                    \/ new = [starts[s] EXCEPT !.pc = "setup"]
  <2>1. \/ starts' = [starts EXCEPT ![s] = [starts[s] EXCEPT !.pc = "subscribe", !.repo = registry]]
        \/ starts' = [starts EXCEPT ![s] = [starts[s] EXCEPT !.pc = "setup"]]
    BY <1>1 DEF Look, Start
  <2> QED BY <2>1
<1>3. /\ Len(starts') = Len(starts) /\ starts'[s] = new
      /\ \A t \in Ids \ {s} : starts'[t] = starts[t]
  BY <1>1, <1>2, LenProperties DEF Ids
<1>4. Memory(s) => Memory(s)'
  <2>1. /\ new.owed = starts[s].owed /\ new.owedGit = starts[s].owedGit
        /\ new.toldDir = starts[s].toldDir /\ new.channel = starts[s].channel
    BY <1>1, <1>2 DEF Start
  <2> QED BY <1>3, <2>1, IdleStays DEF Look
<1> QED BY <1>3, <1>4, SettingUpRecalls DEF Look

LEMMA SetUpRecalls ==
    ASSUME IInv, Recall, NEW s \in Ids, SetUp(s)
    PROVE  Recall'
<1>1. starts[s] \in Start /\ starts \in Seq(Start) /\ s \in 1 .. Len(starts) /\ s \in Starts
  BY StartAt DEF IInv, TypeOK, Start, Ids
<1> DEFINE new == [starts[s] EXCEPT !.pc = "insert", !.repo = s]
<1>2. starts' = [starts EXCEPT ![s] = new]
  BY <1>1 DEF SetUp, Start
<1>3. /\ new.owed = starts[s].owed /\ new.owedGit = starts[s].owedGit
      /\ new.toldDir = starts[s].toldDir /\ new.channel = starts[s].channel
  BY <1>1 DEF Start
<1> HIDE DEF new
<1>4. /\ Len(starts') = Len(starts) /\ starts'[s] = new
      /\ \A t \in Ids \ {s} : starts'[t] = starts[t]
  BY <1>1, <1>2, LenProperties DEF Ids
<1>5. Memory(s) => Memory(s)'
  BY <1>3, <1>4, IdleStays DEF SetUp
<1>6. \A w : /\ watches'[w].queue = watches[w].queue
             /\ watches'[w].telling = watches[w].telling
             /\ disk.made /\ watches[w].covered => watches'[w].covered
  <2>1. watches \in [Starts -> Watch]
    BY DEF IInv, TypeOK, Watch
  <2>2. watches' = [watches EXCEPT ![s] = [watches[s] EXCEPT !.covered = disk.made]]
    BY <1>1, <2>1 DEF SetUp, Watch
  <2>3. /\ watches'[s].queue = watches[s].queue /\ watches'[s].telling = watches[s].telling
        /\ watches'[s].covered = disk.made
    BY <1>1, <2>1, <2>2 DEF Watch
  <2>4. \A w : w # s => watches'[w] = watches[w]
    BY <2>1, <2>2
  <2> QED BY <2>3, <2>4
<1> QED BY <1>4, <1>5, <1>6, SettingUpRecalls DEF SetUp

LEMMA InsertRecalls ==
    ASSUME IInv, Recall, NEW s \in Ids, Insert(s)
    PROVE  Recall'
<1>1. starts[s] \in Start /\ starts \in Seq(Start) /\ s \in 1 .. Len(starts)
  BY StartAt DEF IInv, TypeOK, Start, Ids
<1> DEFINE chosen == Chosen(s)
           new == [starts[s] EXCEPT !.pc = "subscribe", !.repo = chosen]
<1>2. starts' = [starts EXCEPT ![s] = new]
  BY <1>1 DEF Insert, Start
<1> HIDE DEF chosen
<1>3. /\ new.owed = starts[s].owed /\ new.owedGit = starts[s].owedGit
      /\ new.toldDir = starts[s].toldDir /\ new.channel = starts[s].channel
  BY <1>1 DEF Start
<1> HIDE DEF new
<1>4. /\ Len(starts') = Len(starts) /\ starts'[s] = new /\ DOMAIN starts' = Ids
      /\ \A t \in Ids \ {s} : starts'[t] = starts[t]
  BY <1>1, <1>2, LenProperties DEF Ids
<1>5. Memory(s) => Memory(s)'
  BY <1>3, <1>4, IdleStays DEF Insert
<1>6. ASSUME NEW t \in Ids, Pc(t) = "done", starts'[t] = starts[t]
      PROVE  watches'[starts[t].repo] = watches[starts[t].repo]
  <2>1. starts[t].repo \in Starts
    BY <1>6, FollowersShare
  <2>2. /\ t \in DOMAIN starts' /\ starts'[t].pc = "done" /\ starts'[t].repo \in Starts
        /\ watches' = Kept(watches, starts')
    BY <1>4, <1>6, <2>1 DEF Insert, Pc
  <2>3. Kept(watches, starts')[starts'[t].repo] = watches[starts'[t].repo]
    BY <2>2, FollowedIsKept
  <2> QED BY <1>6, <2>2, <2>3
<1> QED BY <1>4, <1>5, <1>6, SettingUpRecalls DEF Insert

LEMMA AnswerRecalls ==
    ASSUME IInv, Recall, NEW s \in Ids, NEW subscribed \in BOOLEAN, Answer(s, subscribed)
    PROVE  Recall'
<1>1. starts[s] \in Start /\ starts \in Seq(Start) /\ s \in 1 .. Len(starts)
  BY StartAt DEF IInv, TypeOK, Start, Ids
<1> DEFINE pc == IF subscribed THEN "done" ELSE "ended"
           new == [starts[s] EXCEPT !.pc = pc]
           answered == [starts EXCEPT ![s] = new]
<1>2. /\ new \in Start /\ new.owed = starts[s].owed /\ new.owedGit = starts[s].owedGit
      /\ new.toldDir = starts[s].toldDir /\ new.channel = starts[s].channel
  BY <1>1 DEF Start
<1>3. starts' = Dropped(answered, views) /\ watches' = Kept(watches, starts')
  BY <1>1 DEF Answer, Start
<1> HIDE DEF new
<1>4. /\ answered \in Seq(Start) /\ Len(answered) = Len(starts) /\ answered[s] = new
      /\ \A t \in Ids \ {s} : answered[t] = starts[t]
  BY <1>1, <1>2, ExceptSeq DEF Ids
<1> HIDE DEF answered
<1>5. /\ starts' \in Seq(Start) /\ Len(starts') = Len(starts)
      /\ \A t \in Ids : starts'[t] = answered[t] \/ starts'[t] = Ended
  BY <1>3, <1>4, DroppingType DEF Ids
<1>6. DOMAIN starts' = Ids
  BY <1>5, LenProperties DEF Ids
<1>7. Memory(s) => Memory(s)'
  <2>1. CASE starts'[s] = Ended
    BY <2>1, IdleStarts
  <2>2. CASE starts'[s] = new
    BY <1>2, <2>2, IdleStays DEF Answer
  <2> QED BY <1>4, <1>5, <2>1, <2>2
<1>8. ASSUME NEW t \in Ids, Pc(t) = "done", starts'[t] = starts[t]
      PROVE  watches'[starts[t].repo] = watches[starts[t].repo]
  <2>1. starts[t].repo \in Starts
    BY <1>8, FollowersShare
  <2> QED BY <1>3, <1>6, <1>8, <2>1, FollowedIsKept DEF Pc
<1>9. \A t \in Ids \ {s} : starts'[t] = starts[t] \/ starts'[t] = Ended
  BY <1>4, <1>5
<1>10. UNCHANGED <<disk, views, jobs>>
  BY DEF Answer
<1> QED BY <1>5, <1>7, <1>8, <1>9, <1>10, SettingUpRecalls

\* A view whose watching changes, and whose reads do, but not what it holds.
LEMMA HoldersStay ==
    ASSUME Owned,
           \A v \in Views : /\ views'[v].tree = views[v].tree
                            /\ views'[v].starting = views[v].starting
                            /\ views'[v].shown = views[v].shown
    PROVE  Owned'
BY DEF Owned, Holds

LEMMA ShowRecalls ==
    ASSUME IInv, Recall, NEW v \in Views, Show(v)
    PROVE  Recall'
<1> DEFINE n == Len(starts) + 1
<1>1. starts \in Seq(Start) /\ Len(starts) \in Nat
  BY LenProperties DEF IInv, TypeOK, Start
<1>2. /\ Len(starts') = n /\ starts'[n] = NewStart
      /\ \A s \in Ids : starts'[s] = starts[s]
  BY <1>1, FreshStarts, AppendProperties DEF Show, Ids
<1>3. /\ views'[v].shown = TRUE /\ views'[v].starting = n /\ views'[v].watching = "no"
      /\ views'[v].tree = views[v].tree
      /\ \A u \in Views \ {v} : views'[u] = views[u]
  BY DEF Show, IInv, TypeOK
<1>4. Owned'
  <2>1. \A u \in Views : views[u].tree # n /\ views[u].starting # n /\ n # 0
    BY <1>1 DEF IInv, TreesExist, Ids
  <2>2. views[v].tree = 0 /\ Holds(v) = {}
    BY DEF Show, Recall, Owned, Holds
  <2>3. Holds(v)' = {n}
    BY <1>3, <2>1, <2>2 DEF Holds
  <2>4. \A u \in Views \ {v} : Holds(u)' = Holds(u) /\ n \notin Holds(u)
    BY <1>3, <2>1 DEF Holds
  <2> QED BY <1>3, <2>2, <2>3, <2>4 DEF Recall, Owned
<1>5. ASSUME NEW u \in Views
      PROVE  /\ views'[u].tree = views[u].tree
             /\ ReadsAll(u) => ReadsAll(u)'
             /\ ReadsGit(u) => ReadsGit(u)'
  <2>1. CASE u = v
    <3>1. jobs[v] \in Seq(Reading) /\ jobs'[v] = Append(jobs[v], "fresh")
      BY DEF IInv, TypeOK, Show, Asked
    <3>2. /\ DOMAIN jobs[v] \subseteq DOMAIN jobs'[v]
          /\ \A i \in DOMAIN jobs[v] : jobs'[v][i] = jobs[v][i]
      BY <3>1, AppendProperties, LenProperties DEF Reading
    <3> QED BY <1>3, <2>1, <3>2 DEF ReadsAll, ReadsGit
  <2>2. CASE u # v
    <3>1. jobs'[u] = jobs[u] /\ views'[u] = views[u]
      BY <1>3, <2>2 DEF Show, Asked, IInv, TypeOK
    <3> QED BY <3>1, ReadsStay
  <2> QED BY <2>1, <2>2
<1>6. ASSUME NEW s \in Ids'
      PROVE  Memory(s)'
  <2>1. CASE s \in Ids
    BY <1>2, <1>5, <2>1, MemoryStays DEF Recall, Show
  <2>2. CASE s \notin Ids
    <3>1. s = n
      BY <1>1, <1>2, <2>2 DEF Ids
    <3> QED BY <1>2, <3>1, IdleStarts
  <2> QED BY <2>1, <2>2
<1> QED BY <1>4, <1>6 DEF Recall

LEMMA BuryRecalls ==
    ASSUME IInv, Recall, NEW v \in Views, Bury(v)
    PROVE  Recall'
<1>1. starts \in Seq(Start) /\ Len(starts) \in Nat
  BY LenProperties DEF IInv, TypeOK, Start
<1>2. /\ starts' \in Seq(Start) /\ Len(starts') = Len(starts)
      /\ \A s \in Ids : starts'[s] = starts[s] \/ starts'[s] = Ended
  BY <1>1, DroppingType DEF Bury, Ids
<1>3. DOMAIN starts' = Ids /\ DOMAIN starts = Ids
  BY <1>1, <1>2, LenProperties DEF Ids
<1>4. /\ views'[v].shown = FALSE /\ views'[v].starting = 0 /\ views'[v].tree = 0
      /\ \A u \in Views \ {v} : views'[u] = views[u]
  BY DEF Bury, IInv, TypeOK
<1>5. Owned'
  <2>1. Holds(v)' = {}
    BY <1>4 DEF Holds
  <2>2. \A u \in Views \ {v} : Holds(u)' = Holds(u)
    BY <1>4 DEF Holds
  <2> QED BY <1>4, <2>1, <2>2 DEF Recall, Owned
<1>6. ASSUME NEW s \in Ids, Pc(s) = "done", starts'[s] = starts[s]
      PROVE  s \notin Holds(v)
  <2>1. HeldBy(s, views')
    <3>1. Ended.pc # "done"
      BY DEF Ended
    <3> QED BY <1>3, <1>6, <3>1 DEF Bury, Dropped, Pc
  <2>2. s # 0
    BY DEF Ids
  <2>3. \E u \in Views \ {v} : s \in Holds(u)
    BY <1>4, <2>1, <2>2 DEF HeldBy, Holds
  <2> QED BY <2>3 DEF Recall, Owned
<1>7. ASSUME NEW u \in Views
      PROVE  u # v => /\ views'[u] = views[u]
                      /\ ReadsAll(u) => ReadsAll(u)'
                      /\ ReadsGit(u) => ReadsGit(u)'
  BY <1>4, ReadsStay DEF Bury
<1>8. ASSUME NEW s \in Ids
      PROVE  Memory(s)'
  <2>1. CASE starts'[s] = Ended
    BY <2>1, IdleStarts
  <2>2. CASE starts'[s] = starts[s]
    <3>1. Pc(s) = "done" => starts[s].repo \in Starts
      BY FollowersShare
    <3>2. Pc(s) = "done" => watches'[starts[s].repo] = watches[starts[s].repo]
      BY <1>3, <2>2, <3>1, FollowedIsKept DEF Bury, Pc
    <3>3. Pc(s) = "done" => views[v].tree # s
      <4>1. s # 0
        BY DEF Ids
      <4> QED BY <1>6, <2>2, <4>1 DEF Holds
    <3>4. Memory(s) /\ disk'.made = disk.made
      BY DEF Recall, Bury
    <3> QED BY <1>7, <2>2, <3>2, <3>3, <3>4, MemoryStays
  <2> QED BY <1>2, <2>1, <2>2
<1> QED BY <1>2, <1>5, <1>8 DEF Recall, Ids

LEMMA AdoptRecalls ==
    ASSUME IInv, Recall, NEW v \in Views, Adopt(v)
    PROVE  Recall'
<1> DEFINE s == views[v].starting
<1>1. /\ views'[v].starting = 0 /\ views'[v].tree = IF Pc(s) = "done" THEN s ELSE 0
      /\ views'[v].shown = views[v].shown
      /\ \A u \in Views \ {v} : views'[u] = views[u]
  BY DEF Adopt, IInv, TypeOK
<1>2. s # 0 /\ views[v].tree = 0 /\ views[v].shown
  BY DEF Adopt, Recall, Owned, Holds
<1>3. Owned'
  <2>1. Holds(v)' \subseteq Holds(v)
    BY <1>1 DEF Holds
  <2>2. \A u \in Views \ {v} : Holds(u)' = Holds(u)
    BY <1>1 DEF Holds
  <2>3. ASSUME NEW u \in Views \ {v}
        PROVE  Holds(u) \cap Holds(v) = {} /\ Holds(v) \cap Holds(u) = {}
    BY DEF Recall, Owned
  <2>4. ASSUME NEW u \in Views, u # v
        PROVE  /\ views'[u].tree # 0 => views'[u].starting = 0
               /\ ~views'[u].shown => Holds(u)' = {}
               /\ \A x \in Views \ {u} : (Holds(x) \cap Holds(u))' = {}
    <3>1. views'[u] = views[u] /\ Holds(u)' = Holds(u)
      BY <1>1, <2>2, <2>4
    <3>2. ASSUME NEW x \in Views \ {u}
          PROVE  (Holds(x) \cap Holds(u))' = {}
      <4>1. Holds(x) \cap Holds(u) = {}
        BY <2>4 DEF Recall, Owned
      <4> QED BY <2>1, <2>2, <3>1, <4>1
    <3> QED BY <3>1, <3>2 DEF Recall, Owned
  <2>5. /\ views'[v].tree # 0 => views'[v].starting = 0
        /\ ~views'[v].shown => Holds(v)' = {}
        /\ \A x \in Views \ {v} : (Holds(x) \cap Holds(v))' = {}
    BY <1>1, <1>2, <2>1, <2>2, <2>3
  <2> QED BY <2>4, <2>5 DEF Owned
<1>4. ASSUME NEW t \in Ids
      PROVE  Memory(t)'
  <2>1. t # 0
    BY DEF Ids
  <2>2. \A u \in Views : views[u].tree = t =>
           views'[u] = views[u] /\ (ReadsAll(u) => ReadsAll(u)') /\ (ReadsGit(u) => ReadsGit(u)')
    BY <1>1, <1>2, <2>1, ReadsStay DEF Adopt
  <2> QED BY <2>2, MemoryStays DEF Recall, Adopt
<1> QED BY <1>3, <1>4 DEF Recall, Adopt, Ids

-----------------------------------------------------------------------------
(* What a view's look and its reads do to it *)

\* A look changes the tree it is made of, and the view's reads only if they come
\* to more.
LEMMA LooksRecall ==
    ASSUME IInv, Recall, NEW v \in Views, NEW new, NEW t \in Ids, t = views[v].tree,
           starts' = [starts EXCEPT ![t] = new],
           disk' = disk, Owned', Memory(t)',
           \A u \in Views \ {v} : views'[u] = views[u] /\ jobs'[u] = jobs[u],
           views'[v].tree = views[v].tree,
           \A w : /\ watches'[w].queue = watches[w].queue
                  /\ watches'[w].telling = watches[w].telling
                  /\ watches[w].covered => watches'[w].covered
    PROVE  Recall'
<1>1. starts \in Seq(Start) /\ t \in 1 .. Len(starts)
  BY DEF IInv, TypeOK, Start, Ids
<1>2. Len(starts') = Len(starts) /\ \A s \in Ids \ {t} : starts'[s] = starts[s]
  BY <1>1, LenProperties DEF Ids
<1>3. ASSUME NEW s \in Ids \ {t}
      PROVE  Memory(s)'
  <2>1. \A u \in Views : views[u].tree = s =>
           views'[u] = views[u] /\ (ReadsAll(u) => ReadsAll(u)') /\ (ReadsGit(u) => ReadsGit(u)')
    BY ReadsStay
  <2> QED BY <1>2, <2>1, MemoryStays DEF Recall
<1> QED BY <1>2, <1>3 DEF Recall, Ids

LEMMA ClearNewsRecalls ==
    ASSUME IInv, Recall, NEW v \in Views, ClearNews(v)
    PROVE  Recall'
<1> SUFFICES ASSUME NEW t, t = views[v].tree
             PROVE  Recall'
  OBVIOUS
<1> DEFINE new == [starts[t] EXCEPT !.news = FALSE, !.look = "drain"]
<1>1. t \in Ids
  BY DEF ClearNews, IsWatching, IInv, TreesExist
<1>2. starts[t] \in Start /\ starts \in Seq(Start)
  BY <1>1, StartAt DEF IInv, TypeOK, Start
<1>3. /\ new.pc = starts[t].pc /\ new.repo = starts[t].repo /\ new.look = "drain"
      /\ new.channel = starts[t].channel /\ new.git = starts[t].git
      /\ new.burst = starts[t].burst /\ new.owed = starts[t].owed
      /\ new.owedGit = starts[t].owedGit /\ new.toldDir = starts[t].toldDir
  BY <1>2 DEF Start
<1>4. starts' = [starts EXCEPT ![t] = new]
  BY <1>1, <1>2 DEF ClearNews, Start
<1> HIDE DEF new
<1>5. starts'[t] = new
  BY <1>1, <1>2, <1>4, LenProperties DEF Ids
<1>6. UNCHANGED <<disk, watches, registry, views, jobs>>
  BY DEF ClearNews
<1>7. Memory(t)'
  <2>1. Memory(t)
    BY <1>1 DEF Recall
  <2>2. OnItsWay(t)' = OnItsWay(t)
    BY <1>3, <1>5, <1>6 DEF OnItsWay
  <2>3. \A u \in Views : (ReadsAll(u) => ReadsAll(u)') /\ (ReadsGit(u) => ReadsGit(u)')
    BY <1>6, ReadsStay
  <2>4. CASE Pc(t) # "done"
    BY <1>3, <1>5, <2>1, <2>4 DEF Memory, IsIdle, Pc
  <2>5. CASE Pc(t) = "done"
    <3>1. IsRemembered(t)'
      BY <1>3, <1>5, <1>6, <2>1, <2>2, <2>3, <2>5 DEF Memory, IsRemembered
    <3>2. GitIsRemembered(t)'
      BY <1>3, <1>5, <1>6, <2>1, <2>2, <2>3, <2>5 DEF Memory, GitIsRemembered
    <3>3. IsCovered(t)'
      BY <1>3, <1>5, <1>6, <2>1, <2>2, <2>5 DEF Memory, IsCovered
    <3>4. IsWoken(t)'
      BY <1>3, <1>5 DEF IsWoken
    <3> QED BY <1>3, <1>5, <2>5, <3>1, <3>2, <3>3, <3>4 DEF Memory, Pc
  <2> QED BY <2>4, <2>5
<1>8. Owned'
  BY <1>6, ViewsKeepTheirs DEF Recall
<1> QED BY <1>1, <1>4, <1>6, <1>7, <1>8, LooksRecall

\* What is drained is in the burst from then on, and a directory made is watched.
LEMMA DrainRecalls ==
    ASSUME IInv, Recall, NEW v \in Views, Drain(v)
    PROVE  Recall'
<1> SUFFICES ASSUME NEW t, t = views[v].tree
             PROVE  Recall'
  OBVIOUS
<1> DEFINE arrived == starts[t].channel # {}
           git == Merged(starts[t].git, starts[t].channel)
           burst == IF arrived THEN TakeChange(starts[t].burst) ELSE starts[t].burst
           new == [starts[t] EXCEPT !.channel = {}, !.look = "decide", !.git = git, !.burst = burst]
<1>1. t \in Ids
  BY DEF Drain, IInv, TreesExist
<1>2. /\ starts[t] \in Start /\ starts \in Seq(Start) /\ Tree(v) = starts[t]
      /\ starts[t].burst \in Bursts
  BY <1>1, StartAt DEF IInv, TypeOK, Start, Tree
<1>3. starts' = [starts EXCEPT ![t] = new]
  BY <1>1, <1>2 DEF Drain, Tree, Start
<1>4. /\ arrived => burst.pending
      /\ ~arrived => burst = starts[t].burst
  BY <1>2 DEF TakeChange, NewBurst, Bursts
<1>5. git = (starts[t].git \/ TRUE \in starts[t].channel)
  BY DEF Merged
<1> HIDE DEF burst, git
<1>6. /\ new.pc = starts[t].pc /\ new.repo = starts[t].repo
      /\ new.channel = {} /\ new.git = git
      /\ new.burst = burst /\ new.owed = starts[t].owed
      /\ new.owedGit = starts[t].owedGit /\ new.toldDir = starts[t].toldDir
  BY <1>2 DEF Start
<1> HIDE DEF new
<1>7. starts'[t] = new
  BY <1>1, <1>2, <1>3, LenProperties DEF Ids
<1>8. UNCHANGED <<disk, registry, views, jobs>>
  BY DEF Drain
<1>9. \A w : /\ watches'[w].queue = watches[w].queue
             /\ watches'[w].telling = watches[w].telling
             /\ watches[w].covered => watches'[w].covered
             /\ w = starts[t].repo /\ w \in Starts /\ arrived /\ disk.made => watches'[w].covered
  <2> DEFINE w == starts[t].repo
             covered == watches[w].covered \/ (arrived /\ disk.made)
  <2>1. /\ watches \in [Starts -> Watch]
        /\ watches' = [watches EXCEPT ![w] = [watches[w] EXCEPT !.covered = covered]]
    BY <1>2 DEF IInv, TypeOK, Watch, Drain
  <2> HIDE DEF covered
  <2>2. w \in Starts => /\ watches'[w].queue = watches[w].queue
                        /\ watches'[w].telling = watches[w].telling
                        /\ watches'[w].covered = covered
    BY <2>1 DEF Watch
  <2>3. \A x : x # w \/ w \notin Starts => watches'[x] = watches[x]
    BY <2>1
  <2> QED BY <2>2, <2>3 DEF covered
<1>10. Memory(t)'
  <2>1. Memory(t)
    BY <1>1 DEF Recall
  <2>2. CASE Pc(t) # "done"
    BY <1>6, <1>7, <2>1, <2>2 DEF Memory, IsIdle, Pc
  <2>3. CASE Pc(t) = "done"
    <3>1. starts[t].repo \in Starts
      BY <1>1, <2>3, FollowersShare
    <3>2. /\ OnItsWay(t) = watches[starts[t].repo].queue \cup starts[t].channel
          /\ OnItsWay(t)' = watches[starts[t].repo].queue
      BY <1>6, <1>7, <1>9 DEF OnItsWay
    <3>0. \A u \in Views : (ReadsAll(u) => ReadsAll(u)') /\ (ReadsGit(u) => ReadsGit(u)')
      BY <1>8, ReadsStay
    <3>3. IsRemembered(t)'
      <4>1. CASE arrived
        BY <1>4, <1>6, <1>7, <4>1 DEF IsRemembered
      <4>2. CASE ~arrived
        BY <1>2, <1>4, <1>6, <1>7, <1>8, <2>1, <2>3, <3>0, <3>2, <4>2
           DEF Memory, IsRemembered
      <4> QED BY <4>1, <4>2
    <3>4. GitIsRemembered(t)'
      <4>1. CASE TRUE \in starts[t].channel
        <5>1. arrived /\ git
          BY <1>2, <1>5, <4>1
        <5> QED BY <1>4, <1>6, <1>7, <5>1 DEF GitIsRemembered
      <4>2. CASE TRUE \notin starts[t].channel
        <5>1. git = starts[t].git /\ (starts[t].burst.pending => burst.pending)
          BY <1>2, <1>4, <1>5, <4>2 DEF Start, Bursts
        <5>2. GitIsRemembered(t)
          BY <2>1, <2>3 DEF Memory
        <5> QED BY <1>6, <1>7, <1>8, <3>0, <3>2, <4>2, <5>1, <5>2 DEF GitIsRemembered
      <4> QED BY <4>1, <4>2
    <3>5. IsCovered(t)'
      <4> DEFINE w == starts[t].repo
      <4>1. IsCovered(t)
        BY <2>1, <2>3 DEF Memory
      <4>2. starts'[t].repo = w /\ starts'[t].owed = starts[t].owed
            /\ starts'[t].toldDir = starts[t].toldDir /\ disk' = disk
        BY <1>6, <1>7, <1>8
      <4>3. OnItsWay(t)' = {} /\ disk.made /\ OnItsWay(t) # {} => watches'[w].covered
        BY <1>9, <3>1, <3>2
      <4>4. watches[w].covered => watches'[w].covered
        BY <1>9
      <4> HIDE DEF w
      <4> QED BY <4>1, <4>2, <4>3, <4>4 DEF IsCovered, w
    <3>6. IsWoken(t)'
      BY <1>6, <1>7 DEF IsWoken
    <3> QED BY <1>6, <1>7, <2>3, <3>3, <3>4, <3>5, <3>6 DEF Memory, Pc
  <2> QED BY <2>2, <2>3
<1>11. Owned'
  BY <1>8, ViewsKeepTheirs DEF Recall
<1> QED BY <1>1, <1>3, <1>8, <1>9, <1>10, <1>11, LooksRecall

\* One more read leaves those that are out, whichever is taken for the watch's.
LEMMA OneMoreRead ==
    ASSUME NEW v \in Views, jobs[v] \in Seq(Reading), jobs'[v] = Append(jobs[v], "fresh")
    PROVE  /\ ReadsAll(v)'
           /\ ReadsGit(v) => ReadsGit(v)'
           /\ views'[v].watching # "status" => ReadsGit(v)'
<1> DEFINE n == Len(jobs[v]) + 1
<1>1. /\ Len(jobs[v]) \in Nat /\ DOMAIN jobs[v] = 1 .. Len(jobs[v])
      /\ DOMAIN jobs'[v] = 1 .. n /\ jobs'[v][n] = "fresh"
      /\ \A i \in DOMAIN jobs[v] : jobs'[v][i] = jobs[v][i]
  BY AppendProperties, LenProperties DEF Reading
<1>2. n \in DOMAIN jobs'[v] /\ n \notin DOMAIN jobs[v]
  BY <1>1
<1> HIDE DEF n
<1>3. ReadsAll(v)'
  BY <1>1, <1>2 DEF ReadsAll
<1>4. ASSUME ReadsGit(v)
      PROVE  ReadsGit(v)'
  <2>1. PICK i \in DOMAIN jobs[v] : jobs[v][i] # "old"
    BY <1>4 DEF ReadsGit
  <2>2. i \in DOMAIN jobs'[v] /\ jobs'[v][i] # "old" /\ i # n
    BY <1>1, <1>2, <2>1
  <2> QED BY <1>1, <1>2, <2>2 DEF ReadsGit
<1>5. views'[v].watching # "status" => ReadsGit(v)'
  BY <1>1, <1>2 DEF ReadsGit
<1> QED BY <1>3, <1>4, <1>5

\* What a burst read was owed is being read.
LEMMA DecideRecalls ==
    ASSUME IInv, Recall, NEW v \in Views, Decide(v)
    PROVE  Recall'
<1> SUFFICES ASSUME NEW t, t = views[v].tree
             PROVE  Recall'
  OBVIOUS
<1> DEFINE b == starts[t].burst
           due == IsDue(b) /\ (disk.locked => IsOverdue(b))
           burst == IF due THEN MarkRead(b) ELSE b
           git == IF due THEN FALSE ELSE starts[t].git
           news == NewsLeft(starts[t])
           read == [starts[t] EXCEPT !.burst = MarkRead(b), !.git = FALSE, !.news = news,
                                     !.look = "none"]
           held == [starts[t] EXCEPT !.news = news, !.look = "none"]
           new == IF due THEN read ELSE held
<1>1. t \in Ids
  BY DEF Decide, IInv, TreesExist
<1>2. starts[t] \in Start /\ starts \in Seq(Start) /\ Tree(v) = starts[t]
  BY <1>1, StartAt DEF IInv, TypeOK, Start, Tree
<1>3. starts' = [starts EXCEPT ![t] = new]
  <2>1. CASE due
    <3>1. starts' = [starts EXCEPT ![t].burst = MarkRead(b), ![t].git = FALSE,
                                   ![t].news = news, ![t].look = "none"]
      BY <1>2, <2>1 DEF Decide
    <3> HIDE DEF due, news
    <3> QED BY <1>1, <1>2, <2>1, <3>1 DEF Start
  <2>2. CASE ~due
    <3>1. starts' = [starts EXCEPT ![t].news = news, ![t].look = "none"]
      BY <1>2, <2>2 DEF Decide
    <3> HIDE DEF due, news
    <3> QED BY <1>1, <1>2, <2>2, <3>1 DEF Start
  <2> QED BY <2>1, <2>2
<1>4. news = starts[t].news /\ (~due => burst = b /\ git = starts[t].git)
  BY DEF NewsLeft
<1>5. views' = IF due THEN [views EXCEPT ![v].watching = IF starts[t].git THEN "full" ELSE "status"]
               ELSE views
  BY <1>2 DEF Decide
<1>6. jobs' = IF due THEN [jobs EXCEPT ![v] = Append(@, "fresh")] ELSE jobs
  BY <1>2 DEF Decide, Asked
<1>7. starts[t].look = "decide"
  BY <1>2 DEF Decide
<1> HIDE DEF due, burst, git, news
<1>8. /\ new.pc = starts[t].pc /\ new.repo = starts[t].repo
      /\ new.channel = starts[t].channel /\ new.git = git /\ new.news = news
      /\ new.burst = burst /\ new.owed = starts[t].owed
      /\ new.owedGit = starts[t].owedGit /\ new.toldDir = starts[t].toldDir
  <2>1. CASE due
    BY <1>2, <2>1 DEF Start, burst, git
  <2>2. CASE ~due
    BY <1>2, <2>2 DEF Start, burst, git
  <2> QED BY <2>1, <2>2
<1> HIDE DEF new
<1>9. starts'[t] = new
  BY <1>1, <1>2, <1>3, LenProperties DEF Ids
<1>10. UNCHANGED <<disk, watches, registry>>
  BY DEF Decide
<1>11. /\ views'[v].tree = t /\ views'[v].starting = views[v].starting
       /\ views'[v].shown = views[v].shown
       /\ due /\ starts[t].git => views'[v].watching # "status"
       /\ ~due => views'[v].watching = views[v].watching
       /\ \A u \in Views \ {v} : views'[u] = views[u] /\ jobs'[u] = jobs[u]
  BY <1>5, <1>6 DEF IInv, TypeOK
<1>12. /\ ReadsAll(v) \/ due => ReadsAll(v)'
       /\ ReadsGit(v) \/ (due /\ starts[t].git) => ReadsGit(v)'
  <2>1. CASE due
    <3>1. jobs[v] \in Seq(Reading) /\ jobs'[v] = Append(jobs[v], "fresh")
      BY <1>6, <2>1 DEF IInv, TypeOK
    <3> QED BY <1>11, <2>1, <3>1, OneMoreRead
  <2>2. CASE ~due
    BY <1>5, <1>6, <2>2, ReadsStay
  <2> QED BY <2>1, <2>2
<1>13. \A u \in Views \ {v} : (ReadsAll(u) => ReadsAll(u)') /\ (ReadsGit(u) => ReadsGit(u)')
  BY <1>11, ReadsStay
<1>14. Memory(t)'
  <2>1. Memory(t)
    BY <1>1 DEF Recall
  <2>2. OnItsWay(t)' = OnItsWay(t)
    BY <1>8, <1>9, <1>10 DEF OnItsWay
  <2>3. CASE Pc(t) # "done"
    BY <1>8, <1>9, <2>1, <2>3 DEF Memory, IsIdle, Pc
  <2>4. CASE Pc(t) = "done"
    <3>1. IsRemembered(t)'
      <4>1. CASE due
        BY <1>11, <1>12, <4>1 DEF IsRemembered
      <4>2. CASE ~due
        BY <1>4, <1>8, <1>9, <1>11, <1>12, <1>13, <2>1, <2>2, <2>4, <4>2 DEF Memory, IsRemembered
      <4> QED BY <4>1, <4>2
    <3>2. GitIsRemembered(t)'
      <4>1. CASE due /\ starts[t].git
        BY <1>11, <1>12, <4>1 DEF GitIsRemembered
      <4>2. CASE ~(due /\ starts[t].git)
        <5>1. starts[t].git => burst = b /\ git = starts[t].git
          BY <1>4, <4>2
        <5> QED BY <1>8, <1>9, <1>11, <1>12, <1>13, <2>1, <2>2, <2>4, <5>1
               DEF Memory, GitIsRemembered
      <4> QED BY <4>1, <4>2
    <3>3. IsCovered(t)'
      BY <1>8, <1>9, <1>10, <2>1, <2>2, <2>4 DEF Memory, IsCovered
    <3>4. IsWoken(t)'
      BY <1>4, <1>7, <1>8, <1>9, <1>10, <2>1, <2>4 DEF Memory, IsWoken
    <3> QED BY <1>8, <1>9, <2>4, <3>1, <3>2, <3>3, <3>4 DEF Memory, Pc
  <2> QED BY <2>3, <2>4
<1>15. Owned'
  BY <1>11, HoldersStay DEF Recall
<1> QED BY <1>1, <1>3, <1>10, <1>11, <1>14, <1>15, LooksRecall

\* A read that is taken off leaves the others.
LEMMA OneLessRead ==
    ASSUME NEW v \in Views, jobs[v] \in Seq(Reading), NEW i \in DOMAIN jobs[v],
           jobs'[v] = Without(jobs[v], i), views'[v].watching = "no"
    PROVE  /\ ReadsAll(v) /\ jobs[v][i] # "fresh" => ReadsAll(v)'
           /\ ReadsGit(v) /\ (jobs[v][i] = "old" \/ views[v].watching = "status") => ReadsGit(v)'
<1>1. /\ Len(jobs[v]) \in Nat /\ i \in 1 .. Len(jobs[v])
      /\ DOMAIN jobs[v] = 1 .. Len(jobs[v])
      /\ jobs'[v] \in Seq(Reading) /\ Len(jobs'[v]) = Len(jobs[v]) - 1
      /\ \A j \in 1 .. Len(jobs[v]) - 1 :
            jobs'[v][j] = IF j < i THEN jobs[v][j] ELSE jobs[v][j + 1]
  BY WithoutType, LenProperties
<1>2. DOMAIN jobs'[v] = 1 .. Len(jobs[v]) - 1
  BY <1>1, LenProperties
<1>3. ASSUME NEW k \in DOMAIN jobs[v] \ {i}
      PROVE  \E j \in DOMAIN jobs'[v] : jobs'[v][j] = jobs[v][k]
  <2>1. CASE k < i
    <3>1. k \in DOMAIN jobs'[v]
      BY <1>1, <1>2, <2>1
    <3> QED BY <1>1, <1>2, <2>1, <3>1
  <2>2. CASE k > i
    <3>1. k - 1 \in DOMAIN jobs'[v] /\ ~(k - 1 < i) /\ k - 1 + 1 = k
      BY <1>1, <1>2, <2>2
    <3> QED BY <1>1, <1>2, <3>1
  <2> QED BY <1>1, <2>1, <2>2
<1>4. ASSUME ReadsAll(v), jobs[v][i] # "fresh"
      PROVE  ReadsAll(v)'
  <2>1. PICK k \in DOMAIN jobs[v] : jobs[v][k] = "fresh"
    BY <1>4 DEF ReadsAll
  <2>2. k \in DOMAIN jobs[v] \ {i}
    BY <1>4, <2>1
  <2> QED BY <1>3, <2>1, <2>2 DEF ReadsAll
<1>5. ASSUME ReadsGit(v), jobs[v][i] = "old" \/ views[v].watching = "status"
      PROVE  ReadsGit(v)'
  <2>1. \E k \in DOMAIN jobs[v] \ {i} : jobs[v][k] # "old"
    BY <1>5 DEF ReadsGit
  <2>2. \E j \in DOMAIN jobs'[v] : jobs'[v][j] # "old"
    BY <1>3, <2>1
  <2> QED BY <2>2 DEF ReadsGit
<1> QED BY <1>4, <1>5

\* An answer settles what it read, and no more.
LEMMA AnsweredRecalls ==
    ASSUME IInv, Recall, NEW v \in Views, NEW i \in DOMAIN jobs[v], Answered(v, i)
    PROVE  Recall'
<1>1. starts \in Seq(Start) /\ Len(starts) \in Nat
  BY LenProperties DEF IInv, TypeOK, Start
<1>2. Len(starts') = Len(starts)
  <2>1. starts' = [s \in 1 .. Len(starts) |-> starts'[s]]
    BY DEF Answered, Ids
  <2> QED BY <1>1, <2>1, LenProperties
<1>3. UNCHANGED <<disk, watches, registry>>
  BY DEF Answered
<1>4. /\ views'[v].tree = views[v].tree /\ views'[v].starting = views[v].starting
      /\ views'[v].shown = views[v].shown /\ views'[v].watching = "no"
      /\ jobs'[v] = Without(jobs[v], i) /\ jobs[v] \in Seq(Reading)
      /\ \A u \in Views \ {v} : views'[u] = views[u] /\ jobs'[u] = jobs[u]
  BY DEF Answered, IInv, TypeOK
<1>5. \A u \in Views \ {v} : (ReadsAll(u) => ReadsAll(u)') /\ (ReadsGit(u) => ReadsGit(u)')
  BY <1>4, ReadsStay
<1>6. Owned'
  BY <1>4, HoldersStay DEF Recall
<1>7. ASSUME NEW s \in Ids
      PROVE  Memory(s)'
  <2>1. Memory(s) /\ starts[s] \in Start
    BY StartAt DEF IInv, Recall
  <2>2. CASE s # views[v].tree
    <3>1. starts'[s] = starts[s]
      BY <2>2 DEF Answered
    <3> QED BY <1>3, <1>4, <1>5, <2>1, <2>2, <3>1, MemoryStays
  <2>3. CASE s = views[v].tree
    <3> DEFINE read == jobs[v][i]
    <3>1. /\ starts'[s].pc = starts[s].pc /\ starts'[s].repo = starts[s].repo
          /\ starts'[s].channel = starts[s].channel /\ starts'[s].git = starts[s].git
          /\ starts'[s].burst = starts[s].burst
          /\ starts'[s].news = starts[s].news /\ starts'[s].look = starts[s].look
          /\ starts'[s].owed = (starts[s].owed /\ read # "fresh")
          /\ starts'[s].owedGit = (starts[s].owedGit
                                     /\ (read = "old" \/ views[v].watching = "status"))
          /\ starts'[s].toldDir = starts[s].toldDir
      BY <2>1, <2>3 DEF Answered, Start
    <3>2. OnItsWay(s)' = OnItsWay(s)
      BY <1>3, <3>1 DEF OnItsWay
    <3>3. /\ ReadsAll(v) /\ read # "fresh" => ReadsAll(v)'
          /\ ReadsGit(v) /\ (read = "old" \/ views[v].watching = "status") => ReadsGit(v)'
      BY <1>4, OneLessRead
    <3> HIDE DEF read
    <3>4. CASE Pc(s) # "done"
      BY <2>1, <3>1, <3>4 DEF Memory, IsIdle, Pc
    <3>5. CASE Pc(s) = "done"
      <4>0. IsRemembered(s) /\ GitIsRemembered(s)
        BY <2>1, <3>5 DEF Memory
      <4>a. \A u \in Views : views'[u].tree = views[u].tree
        BY <1>4
      <4>1. IsRemembered(s)'
        <5>1. CASE starts[s].owed /\ read # "fresh"
          <6>1. \A u \in Views : ReadsAll(u) => ReadsAll(u)'
            BY <1>5, <3>3, <5>1
          <6> QED BY <3>1, <3>2, <4>0, <4>a, <5>1, <6>1 DEF IsRemembered
        <5>2. CASE ~(starts[s].owed /\ read # "fresh")
          BY <3>1, <5>2 DEF IsRemembered
        <5> QED BY <5>1, <5>2
      <4>2. GitIsRemembered(s)'
        <5>1. CASE starts[s].owedGit /\ (read = "old" \/ views[v].watching = "status")
          <6>1. \A u \in Views : ReadsGit(u) => ReadsGit(u)'
            BY <1>5, <3>3, <5>1
          <6> QED BY <3>1, <3>2, <4>0, <4>a, <5>1, <6>1 DEF GitIsRemembered
        <5>2. CASE ~(starts[s].owedGit /\ (read = "old" \/ views[v].watching = "status"))
          BY <3>1, <5>2 DEF GitIsRemembered
        <5> QED BY <5>1, <5>2
      <4>3. IsCovered(s)'
        BY <1>3, <2>1, <3>1, <3>2, <3>5 DEF Memory, IsCovered
      <4>4. IsWoken(s)'
        BY <1>3, <2>1, <3>1, <3>5 DEF Memory, IsWoken
      <4> QED BY <3>1, <3>5, <4>1, <4>2, <4>3, <4>4 DEF Memory, Pc
    <3> QED BY <3>4, <3>5
  <2> QED BY <2>2, <2>3
<1> QED BY <1>2, <1>6, <1>7 DEF Recall, Ids

-----------------------------------------------------------------------------

LEMMA InitRecalls == Init => Recall
<1> SUFFICES ASSUME Init PROVE Recall
  OBVIOUS
<1>1. Ids = {}
  <2>1. Len(starts) = 0
    BY EmptySeq DEF Init
  <2> QED BY <2>1 DEF Ids
<1>2. Owned
  BY DEF Init, Owned, Holds
<1> QED BY <1>1, <1>2 DEF Recall

LEMMA NextRecalls == IInv /\ Recall /\ [Next]_vars => Recall'
<1> SUFFICES ASSUME IInv, Recall, [Next]_vars PROVE Recall'
  OBVIOUS
<1>1. CASE UNCHANGED vars
  <2>1. \A v \in Views : (ReadsAll(v) => ReadsAll(v)') /\ (ReadsGit(v) => ReadsGit(v)')
    BY <1>1, ReadsStay DEF vars
  <2>2. \A s \in Ids : Memory(s)'
    BY <1>1, <2>1, MemoryStays DEF Recall, vars
  <2> QED BY <1>1, <2>2, ViewsKeepTheirs DEF Recall, Ids, vars
<1>2. ASSUME NEW where \in {"git", "make", "inside"}, Change(where)
      PROVE  Recall'
  BY <1>2, ChangeRecalls
<1>3. ASSUME NEW locked \in BOOLEAN, SetLock(locked)
      PROVE  Recall'
  BY <1>3, SetLockRecalls
<1>4. CASE Tick
  BY <1>4, TickRecalls
<1>5. ASSUME NEW w \in Starts, WatcherSteps(w)
      PROVE  Recall'
  BY <1>5, TellRecalls, FlagRecalls DEF WatcherSteps
<1>6. ASSUME NEW s \in Ids, StartSteps(s) \/ Answer(s, FALSE)
      PROVE  Recall'
  BY <1>6, LookRecalls, SetUpRecalls, InsertRecalls, AnswerRecalls DEF StartSteps
<1>7. ASSUME NEW v \in Views, UserSteps(v)
      PROVE  Recall'
  BY <1>7, ShowRecalls, BuryRecalls DEF UserSteps
<1>8. ASSUME NEW v \in Views, JobSteps(v)
      PROVE  Recall'
  BY <1>8, AnsweredRecalls DEF JobSteps
<1>9. ASSUME NEW v \in Views, Adopt(v) \/ ClearNews(v) \/ Drain(v) \/ Decide(v)
      PROVE  Recall'
  BY <1>9, AdoptRecalls, ClearNewsRecalls, DrainRecalls, DecideRecalls
<1> QED BY <1>1, <1>2, <1>3, <1>4, <1>5, <1>6, <1>7, <1>8, <1>9 DEF Next

\* Whatever a view's watch was told is on its way, in its burst or being read, and
\* the view woken for it: however the watcher's thread comes between a look's
\* steps (watch.rs changed, take), whichever read is answered first
\* (winter-git reply.rs), and at any pace.
THEOREM RecallsChanges == Spec => []NothingIsForgotten
<1>1. Spec => []Recall
  <2>1. Spec => []IInv
    BY InvariantHolds
  <2> QED BY <2>1, InitRecalls, NextRecalls, PTL DEF Spec
<1>2. Recall => NothingIsForgotten
  BY DEF Recall, Memory, NothingIsForgotten
<1> QED BY <1>1, <1>2, PTL
=============================================================================
