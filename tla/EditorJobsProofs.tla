---------------------------- MODULE EditorJobsProofs ---------------------------
(* Theorems about EditorJobs, for any number of tabs, buffers and requests    *)
(* and any limit of jobs in flight.                                           *)
EXTENDS EditorJobs, SequenceTheorems, NaturalsInduction, WellFoundedInduction, TLAPS

-------------------------------------------------------------------------------
(* Types *)

LEMMA Numbers ==
  /\ MaxTabs \in Nat /\ MaxBuffers \in Nat /\ MaxAsks \in Nat
  /\ Tabs = 1..MaxTabs /\ Buffers = 1..MaxBuffers /\ Asks = 1..MaxAsks
  /\ None = 0 /\ None \notin Tabs /\ None \notin Buffers /\ None \notin Places
  /\ Top \in Places
BY EditorJobsAssumption DEF Tabs, Buffers, Asks, None, Top

(* What Jobs and fates may be while an action changes them.                   *)
JobsType(run, ref, stp, ft) ==
  /\ run \in [Asks -> Tabs \cup {None}]
  /\ stp \in [Asks -> BOOLEAN]
  /\ ref \in Seq(Answers)
  /\ ft \in [Asks -> {"unasked", "open", "heard", "cancelled"}]

LEMMA SpawnTypes ==
  ASSUME JobTypes, NEW t \in Tabs, NEW b \in Buffers, NEW j,
         JobsType(j.running, j.refused, j.stop, j.fate), MaySpawn(t, b, j),
         batch' \in Seq(Answers)
  PROVE  JobTypes'
<1>1. CASE NoSpawn(j)
  BY <1>1 DEF NoSpawn, JobTypes, JobsType, threads
<1>2. CASE Spawn(t, b, j)
  <2>1. nextAsk \in Asks /\ nextAsk' \in 1..MaxAsks + 1
    BY <1>2, Numbers DEF Spawn, JobTypes
  <2>2. refused' \in Seq(Answers) /\ running' \in [Asks -> Tabs \cup {None}]
        /\ worker' \in [Asks -> {"none", "works", "sent", "dead"}]
    <3>1. [tab |-> t, ask |-> nextAsk] \in Answers
      BY <2>1 DEF Answers
    <3>2. CASE Start(t, j)
      BY <3>2, <2>1 DEF Start, JobsType, JobTypes
    <3>3. CASE Refuse(t, j)
      BY <3>3, <3>1, <2>1, AppendProperties DEF Refuse, JobsType, JobTypes
    <3> QED BY <1>2, <3>2, <3>3 DEF Spawn
  <2> QED BY <1>2, <2>1, <2>2 DEF Spawn, JobsType, JobTypes
<1> QED BY <1>1, <1>2 DEF MaySpawn

LEMMA HandedToType ==
  ASSUME refused \in Seq(Answers), NEW T, NEW to \in Tabs
  PROVE  /\ HandedTo(T, to) \in Seq(Answers)
         /\ Len(HandedTo(T, to)) = Len(refused)
         /\ DOMAIN HandedTo(T, to) = DOMAIN refused
<1>1. \A k \in 1..Len(refused) : refused[k] \in Answers
  BY ElementOfSeq
<1>2. \A k \in 1..Len(refused) :
        (IF refused[k].tab \in T THEN [refused[k] EXCEPT !.tab = to] ELSE refused[k])
          \in Answers
  BY <1>1 DEF Answers
<1>3. HandedTo(T, to) \in [1..Len(refused) -> Answers]
  BY <1>2 DEF HandedTo
<1> QED BY <1>3, SeqDef DEF HandedTo

(* A set of numbers that is not empty has a least. *)
LEMMA NatOrderIsWellFounded ==
  \E R : IsWellFoundedOn(R, Nat) /\ \A a, b \in Nat : a < b => <<a, b>> \in R
<1>1. \A a, b \in Nat : a < b => <<a, b>> \in OpToRel(<, Nat)
  BY DEF OpToRel
<1> QED BY <1>1, NatLessThanWellFounded

LEMMA Least ==
  ASSUME NEW S, S \subseteq Nat, S # {}
  PROVE  \E x \in S : \A y \in S : x <= y
<1>1. PICK R : IsWellFoundedOn(R, Nat) /\ \A a, b \in Nat : a < b => <<a, b>> \in R
  BY NatOrderIsWellFounded
<1>2. PICK x \in S : \A y \in S : ~ (<<y, x>> \in R)
  <2>1. IsWellFoundedOn(R, Nat)
    BY <1>1
  <2> HIDE <1>1
  <2> QED BY <2>1, WFMin
<1>3. \A y \in S : ~ (y < x)
  BY <1>1, <1>2
<1> QED BY <1>3

LEMMA OthersAreTabs ==
  ASSUME ViewTypes, NEW t \in Tabs, OtherViews(t) # {}
  PROVE  /\ LowestOther(t) \in Tabs /\ LowestOther(t) # t
         /\ shows[LowestOther(t)] = shows[t]
<1>1. OtherViews(t) \subseteq Nat /\ OtherViews(t) \subseteq Tabs
  BY Numbers DEF OtherViews, Views
<1>2. PICK u \in OtherViews(t) : \A v \in OtherViews(t) : u <= v
  BY <1>1, Least
<1> QED BY <1>1, <1>2 DEF LowestOther, OtherViews, Views

-------------------------------------------------------------------------------
(* The invariant. *)

(* What is not yet given out is nobody's. *)
Fresh ==
  /\ \A t \in Tabs : t >= nextTab => shows[t] = None /\ where[t] = None
  /\ \A t \in Tabs : shows[t] < nextBuffer

(* An editor holds the view of one of its tabs, or of none.                   *)
LoadedAreViews ==
  \A b \in Buffers : loaded[b] # None => shows[loaded[b]] = b

BuriedAreEditors ==
  \A t \in buried : IsOpen(t) /\ kind[shows[t]] = "editor"

ViewInv ==
  /\ Fresh /\ LoadedAreViews /\ BuriedAreEditors
  /\ ViewsKeepTheirPlace /\ BuriedAreSetAside

(* A job in the map is for a view of the buffer that asked, and its answer    *)
(* can still come. These are stated of Jobs as they are amid an action, too.  *)
RunningOK(sh, run, ft) ==
  \A i \in Asks : run[i] # None =>
    /\ sh[run[i]] = asker[i] /\ asker[i] # None
    /\ ft[i] = "open" /\ i < nextAsk
    /\ worker[i] # "none" /\ (worker[i] = "sent" => i \in Arrived)

(* A refusal is the only trace of its request, and if its tab is open, that   *)
(* is a view of the buffer that asked.                                        *)
RefusedOK(sh, nt, run, ref, ft) ==
  /\ \A k \in DOMAIN ref :
       /\ ref[k].tab # None /\ ref[k].tab < nt
       /\ ref[k].ask < nextAsk /\ worker[ref[k].ask] = "none"
       /\ run[ref[k].ask] = None /\ ft[ref[k].ask] = "open"
       /\ sh[ref[k].tab] # None => sh[ref[k].tab] = asker[ref[k].ask]
  /\ \A k, l \in DOMAIN ref : ref[k].ask = ref[l].ask => k = l

(* So is an answer taken for delivery. *)
BatchOK(sh, nt, run, ref, ft, bt) ==
  /\ \A k \in DOMAIN bt :
       /\ bt[k].ask < nextAsk /\ worker[bt[k].ask] \in {"none", "sent"}
       /\ run[bt[k].ask] = None /\ bt[k].ask \notin Arrived
       /\ \A l \in DOMAIN ref : ref[l].ask # bt[k].ask
       /\ bt[k].tab # None =>
            /\ bt[k].tab < nt /\ ft[bt[k].ask] = "open"
            /\ sh[bt[k].tab] # None => sh[bt[k].tab] = asker[bt[k].ask]
  /\ \A k, l \in DOMAIN bt : bt[k].ask = bt[l].ask => k = l

RxOK ==
  /\ \A k \in DOMAIN rx : worker[rx[k]] = "sent" /\ rx[k] < nextAsk
  /\ \A k, l \in DOMAIN rx : rx[k] = rx[l] => k = l

AsksOK(sh, kd, nb, ft) ==
  \A i \in Asks :
    /\ i >= nextAsk => ft[i] = "unasked" /\ worker[i] = "none"
    /\ i < nextAsk =>
         /\ asker[i] \in Buffers /\ asker[i] < nb
         /\ \A t \in Tabs : sh[t] = asker[i] => kd[asker[i]] = "editor"

HeldOK(sh, run, ref, ft, bt) ==
  \A i \in Asks : ft[i] = "open" /\ (\E t \in Tabs : sh[t] = asker[i]) =>
    \/ run[i] # None
    \/ \E k \in DOMAIN ref : ref[k].ask = i /\ sh[ref[k].tab] = asker[i]
    \/ \E k \in DOMAIN bt :
         bt[k].ask = i /\ bt[k].tab # None /\ sh[bt[k].tab] = asker[i]

JobsOK(sh, kd, nt, nb, run, ref, ft, bt) ==
  /\ RunningOK(sh, run, ft) /\ RefusedOK(sh, nt, run, ref, ft)
  /\ BatchOK(sh, nt, run, ref, ft, bt) /\ RxOK
  /\ AsksOK(sh, kd, nb, ft) /\ HeldOK(sh, run, ref, ft, bt)

JobInv == JobsOK(shows, kind, nextTab, nextBuffer, running, refused, fate, batch)

IInv == TypeOK /\ ViewInv /\ JobInv

-------------------------------------------------------------------------------
(* Types: of the tabs and buffers, of what an action makes of Jobs, and of    *)
(* all with a request more.                                                   *)

LEMMA AnswerTypes ==
  ASSUME NEW s \in Seq(Answers)
  PROVE  /\ DOMAIN s = 1..Len(s) /\ Len(s) \in Nat
         /\ \A k \in DOMAIN s : /\ s[k] = [tab |-> s[k].tab, ask |-> s[k].ask]
                                /\ s[k].ask \in Asks /\ s[k].tab \in Tabs \cup {None}
<1>1. DOMAIN s = 1..Len(s) /\ Len(s) \in Nat
  BY LenProperties
<1>2. \A k \in 1..Len(s) : s[k] \in Answers
  BY ElementOfSeq
<1> QED BY <1>1, <1>2 DEF Answers

LEMMA ResumedType ==
  ASSUME ViewTypes, NEW t \in Tabs, IsOpen(t)
  PROVE  shows[t] \in Buffers /\ Resumed(t) \in Places
BY Numbers DEF ViewTypes, IsOpen, Resumed

LEMMA LoadAtTypes ==
  ASSUME ViewTypes, NEW t \in Tabs, IsOpen(t), NEW p \in Places, LoadAt(t, p)
  PROVE  /\ loaded' \in [Buffers -> Tabs \cup {None}]
         /\ at' \in [Buffers -> Places]
         /\ kept' \in [Tabs -> Places \cup {None}]
BY ResumedType DEF ViewTypes, LoadAt

LEMMA LoadTypes ==
  ASSUME ViewTypes, NEW t \in Tabs, IsOpen(t), Load(t)
  PROVE  /\ loaded' \in [Buffers -> Tabs \cup {None}]
         /\ at' \in [Buffers -> Places]
         /\ kept' \in [Tabs -> Places \cup {None}]
         /\ where' \in [Tabs -> Places \cup {None}]
<1>1. Resumed(t) \in Places
  BY ResumedType
<1> QED BY <1>1, LoadAtTypes DEF Load, ViewTypes

(* The tabs and buffers as an action has them midway.                         *)
ObjectsType(o) ==
  /\ o.shows \in [Tabs -> Buffers \cup {None}]
  /\ o.kept \in [Tabs -> Places \cup {None}]
  /\ o.where \in [Tabs -> Places \cup {None}]
  /\ o.loaded \in [Buffers -> Tabs \cup {None}]
  /\ o.at \in [Buffers -> Places]
  /\ o.kind \in [Buffers -> Kinds]
  /\ o.hidden \in [Buffers -> BOOLEAN]

LEMMA AsTheyAreType == ViewTypes => ObjectsType(AsTheyAre)
BY DEF ViewTypes, ObjectsType, AsTheyAre

LEMMA RemovedType ==
  ASSUME ViewTypes, NEW T, NEW b \in Buffers
  PROVE  ObjectsType(Removed(T, b))
BY Numbers DEF ViewTypes, ObjectsType, Removed, Kinds

LEMMA BecomeTypes ==
  ASSUME ViewTypes, NEW o, ObjectsType(o), Become(o), buried' \subseteq Tabs,
         nextTab' \in 1..MaxTabs + 1, nextBuffer' \in 1..MaxBuffers + 1
  PROVE  ViewTypes'
BY DEF ViewTypes, ObjectsType, Become

LEMMA InsertTypes ==
  ASSUME ViewTypes, NEW t \in Tabs, NEW k \in Kinds, NEW o, ObjectsType(o),
         Insert(t, k, o), buried' \subseteq Tabs, nextTab' \in 1..MaxTabs + 1
  PROVE  ViewTypes'
<1>1. nextBuffer \in Buffers /\ nextBuffer' \in 1..MaxBuffers + 1
  BY Numbers DEF Insert, ViewTypes
<1> DEFINE n == [shows  |-> [o.shows EXCEPT ![t] = nextBuffer],
                 kept   |-> [o.kept EXCEPT ![t] = None],
                 where  |-> [o.where EXCEPT ![t] = Top],
                 loaded |-> [o.loaded EXCEPT ![nextBuffer] = t],
                 at     |-> [o.at EXCEPT ![nextBuffer] = Top],
                 kind   |-> [o.kind EXCEPT ![nextBuffer] = k],
                 hidden |-> [o.hidden EXCEPT ![nextBuffer] = FALSE]]
<1>2. ObjectsType(n)
  BY <1>1, Numbers DEF ObjectsType
<1>3. Become(n)
  BY DEF Insert
<1> HIDE DEF n
<1> QED BY <1>1, <1>2, <1>3, BecomeTypes

(* A buried tab stays where it is while other views are loaded.               *)
LEMMA KeptTypes ==
  ASSUME ViewTypes, UNCHANGED <<shows, nextTab, kind, nextBuffer>>,
         buried' \subseteq Tabs, hidden' \in [Buffers -> BOOLEAN],
         where' \in [Tabs -> Places \cup {None}],
         loaded' \in [Buffers -> Tabs \cup {None}],
         at' \in [Buffers -> Places], kept' \in [Tabs -> Places \cup {None}]
  PROVE  ViewTypes'
BY DEF ViewTypes

(* Jobs handed over, cancelled, stopped, dropped.                             *)
LEMMA CurrentType ==
  JobTypes => JobsType(Current.running, Current.refused, Current.stop, Current.fate)
BY DEF JobTypes, JobsType, Current

LEMMA CancelledType ==
  ASSUME JobTypes, NEW T
  PROVE  JobsType(Cancelled(T).running, Cancelled(T).refused, Cancelled(T).stop,
                  Cancelled(T).fate)
BY DEF JobTypes, JobsType, Current, Cancelled

LEMMA StoppedForType ==
  ASSUME JobTypes, NEW t
  PROVE  JobsType(StoppedFor(t).running, StoppedFor(t).refused, StoppedFor(t).stop,
                  StoppedFor(t).fate)
BY DEF JobTypes, JobsType, Current, StoppedFor

LEMMA DroppedType ==
  ASSUME ViewTypes, JobTypes, NEW t \in Tabs
  PROVE  JobsType(Dropped(t).running, Dropped(t).refused, Dropped(t).stop, Dropped(t).fate)
<1>1. CASE OtherViews(t) = {}
  BY <1>1, CancelledType DEF Dropped
<1>2. CASE OtherViews(t) # {}
  <2> DEFINE u == LowestOther(t)
  <2>1. u \in Tabs
    BY <1>2, OthersAreTabs
  <2>2. HandedTo({t}, u) \in Seq(Answers)
    BY <2>1, HandedToType DEF JobTypes
  <2> HIDE DEF u
  <2>3. JobsType(HandedOver(t, u).running, HandedOver(t, u).refused,
                 HandedOver(t, u).stop, HandedOver(t, u).fate)
    BY <2>1, <2>2 DEF JobTypes, JobsType, Current, HandedOver
  <2> QED BY <1>2, <2>3 DEF Dropped, u
<1> QED BY <1>1, <1>2
-------------------------------------------------------------------------------
(* A request more, on top of whatever else an action made of Jobs: run, ref   *)
(* and ft are the jobs, the refusals and the fates before it.                 *)

LEMMA AskIsNew ==
  ASSUME JobTypes, nextAsk <= MaxAsks,
         NEW sh, NEW kd, NEW nt, NEW nb, NEW run, NEW ref, NEW stp, NEW ft, NEW bt,
         JobsType(run, ref, stp, ft), bt \in Seq(Answers),
         JobsOK(sh, kd, nt, nb, run, ref, ft, bt)
  PROVE  /\ nextAsk \in Asks /\ nextAsk \in Nat
         /\ worker[nextAsk] = "none" /\ run[nextAsk] = None /\ nextAsk \notin Arrived
         /\ \A k \in DOMAIN ref : ref[k].ask \in Asks /\ ref[k].ask # nextAsk
         /\ \A k \in DOMAIN bt : bt[k].ask \in Asks /\ bt[k].ask # nextAsk
<1> DEFINE n == nextAsk
<1>1. n \in Asks /\ n \in Nat
  BY Numbers DEF JobTypes
<1>2. \A k \in DOMAIN ref : ref[k].ask \in Asks /\ ref[k].ask # n
  <2>1. \A k \in DOMAIN ref : ref[k].ask \in Asks
    BY AnswerTypes DEF JobsType
  <2> QED BY <1>1, <2>1, Numbers DEF JobsOK, RefusedOK
<1>3. \A k \in DOMAIN bt : bt[k].ask \in Asks /\ bt[k].ask # n
  <2>1. \A k \in DOMAIN bt : bt[k].ask \in Asks
    BY AnswerTypes
  <2> QED BY <1>1, <2>1, Numbers DEF JobsOK, BatchOK
<1>4. worker[n] = "none"
  BY <1>1 DEF JobsOK, AsksOK
<1>5. run[n] = None
  BY <1>1 DEF JobsOK, RunningOK
<1>6. n \notin Arrived
  BY <1>1, <1>4 DEF JobsOK, RxOK, Arrived
<1> QED BY <1>1, <1>2, <1>3, <1>4, <1>5, <1>6

LEMMA StartKeeps ==
  ASSUME JobTypes, NEW t \in Tabs, NEW b \in Buffers,
         NEW run, NEW ref, NEW stp, NEW ft,
         JobsType(run, ref, stp, ft), batch' \in Seq(Answers),
         shows' \in [Tabs -> Buffers \cup {None}], nextTab' \in Nat, nextBuffer' \in Nat,
         JobsOK(shows', kind', nextTab', nextBuffer', run, ref, ft, batch'),
         nextAsk <= MaxAsks, nextAsk' = nextAsk + 1,
         asker' = [asker EXCEPT ![nextAsk] = b], fate' = [ft EXCEPT ![nextAsk] = "open"],
         running' = [run EXCEPT ![nextAsk] = t],
         worker' = [worker EXCEPT ![nextAsk] = "works"], refused' = ref, rx' = rx,
         shows'[t] = b, kind'[b] = "editor", b < nextBuffer'
  PROVE  JobInv'
<1> DEFINE n == nextAsk
<1>1. /\ n \in Asks /\ n \in Nat /\ Arrived' = Arrived /\ n \notin Arrived
      /\ worker[n] = "none" /\ run[n] = None
      /\ \A k \in DOMAIN ref : ref[k].ask \in Asks /\ ref[k].ask # n
      /\ \A k \in DOMAIN batch' : batch'[k].ask \in Asks /\ batch'[k].ask # n
  BY AskIsNew DEF Arrived
<1>2. /\ asker'[n] = b /\ fate'[n] = "open" /\ running'[n] = t /\ worker'[n] = "works"
      /\ \A i \in Asks : i # n => /\ asker'[i] = asker[i] /\ fate'[i] = ft[i]
                                  /\ running'[i] = run[i] /\ worker'[i] = worker[i]
      /\ \A i \in Asks : i < nextAsk' <=> (i < n \/ i = n)
  BY <1>1, Numbers DEF JobTypes, JobsType
<1>3. /\ RunningOK(shows', run, ft) /\ RefusedOK(shows', nextTab', run, ref, ft)
      /\ BatchOK(shows', nextTab', run, ref, ft, batch') /\ RxOK
      /\ AsksOK(shows', kind', nextBuffer', ft) /\ HeldOK(shows', run, ref, ft, batch')
  BY DEF JobsOK
<1> HIDE DEF n
<1>4. RunningOK(shows, running, fate)'
  BY <1>1, <1>2, <1>3, Numbers DEF RunningOK
<1>5. RefusedOK(shows, nextTab, running, refused, fate)'
  BY <1>1, <1>2, <1>3 DEF RefusedOK, n
<1>6. BatchOK(shows, nextTab, running, refused, fate, batch)'
  BY <1>1, <1>2, <1>3 DEF BatchOK, n
<1>7. RxOK'
  BY <1>1, <1>2, <1>3, ElementOfSeq, LenProperties DEF RxOK, Arrived, JobTypes, n
<1>8. AsksOK(shows, kind, nextBuffer, fate)'
  BY <1>1, <1>2, <1>3, Numbers DEF AsksOK, n
<1>9. HeldOK(shows, running, refused, fate, batch)'
  <2>1. running'[n] # None
    BY <1>2, Numbers
  <2>2. ASSUME NEW i \in Asks, i # n, fate'[i] = "open",
               \E v \in Tabs : shows'[v] = asker'[i]
        PROVE  \/ running'[i] # None
               \/ \E k \in DOMAIN refused' :
                    refused'[k].ask = i /\ shows'[refused'[k].tab] = asker'[i]
               \/ \E k \in DOMAIN batch' :
                    /\ batch'[k].ask = i /\ batch'[k].tab # None
                    /\ shows'[batch'[k].tab] = asker'[i]
    <3>1. ft[i] = "open" /\ asker'[i] = asker[i] /\ running'[i] = run[i]
      BY <2>2, <1>2
    <3> QED BY <2>2, <3>1, <1>3 DEF HeldOK
  <2> QED BY <2>1, <2>2 DEF HeldOK
<1> QED BY <1>4, <1>5, <1>6, <1>7, <1>8, <1>9 DEF JobInv, JobsOK

LEMMA RefuseKeeps ==
  ASSUME JobTypes, NEW t \in Tabs, NEW b \in Buffers,
         NEW run, NEW ref, NEW stp, NEW ft,
         JobsType(run, ref, stp, ft), batch' \in Seq(Answers),
         shows' \in [Tabs -> Buffers \cup {None}], nextTab' \in Nat, nextBuffer' \in Nat,
         JobsOK(shows', kind', nextTab', nextBuffer', run, ref, ft, batch'),
         nextAsk <= MaxAsks, nextAsk' = nextAsk + 1,
         asker' = [asker EXCEPT ![nextAsk] = b], fate' = [ft EXCEPT ![nextAsk] = "open"],
         running' = run, worker' = worker, rx' = rx,
         refused' = Append(ref, [tab |-> t, ask |-> nextAsk]),
         shows'[t] = b, kind'[b] = "editor", t < nextTab', b < nextBuffer'
  PROVE  JobInv'
<1> DEFINE n == nextAsk
           m == Len(ref)
<1>1. /\ n \in Asks /\ n \in Nat /\ Arrived' = Arrived /\ n \notin Arrived
      /\ worker[n] = "none" /\ run[n] = None
      /\ \A k \in DOMAIN ref : ref[k].ask \in Asks /\ ref[k].ask # n
      /\ \A k \in DOMAIN batch' : batch'[k].ask \in Asks /\ batch'[k].ask # n
  BY AskIsNew DEF Arrived
<1>2. /\ asker'[n] = b /\ fate'[n] = "open"
      /\ \A i \in Asks : i # n => asker'[i] = asker[i] /\ fate'[i] = ft[i]
      /\ running' = run /\ worker' = worker /\ rx' = rx
      /\ \A i \in Asks : i < nextAsk' <=> (i < n \/ i = n)
  BY <1>1, Numbers DEF JobTypes, JobsType
<1>3. /\ m \in Nat /\ DOMAIN ref = 1..m /\ DOMAIN refused' = 1..(m + 1)
      /\ refused'[m + 1].tab = t /\ refused'[m + 1].ask = n
      /\ \A k \in 1..m : refused'[k] = ref[k]
  <2>1. [tab |-> t, ask |-> n] \in Answers
    BY <1>1 DEF Answers
  <2> QED BY <2>1, AppendProperties, LenProperties DEF JobsType
<1>4. /\ RunningOK(shows', run, ft) /\ RefusedOK(shows', nextTab', run, ref, ft)
      /\ BatchOK(shows', nextTab', run, ref, ft, batch') /\ RxOK
      /\ AsksOK(shows', kind', nextBuffer', ft) /\ HeldOK(shows', run, ref, ft, batch')
  BY DEF JobsOK
<1> HIDE DEF n, m
<1>5. RunningOK(shows, running, fate)'
  <2>1. ASSUME NEW i \in Asks, running'[i] # None
        PROVE  /\ shows'[running'[i]] = asker'[i] /\ asker'[i] # None
               /\ fate'[i] = "open" /\ i < nextAsk'
               /\ worker'[i] # "none" /\ (worker'[i] = "sent" => i \in Arrived')
    <3>1. i # n /\ run[i] # None
      BY <2>1, <1>1, <1>2
    <3> QED BY <3>1, <1>1, <1>2, <1>4 DEF RunningOK, n
  <2> QED BY <2>1 DEF RunningOK
<1>6. RefusedOK(shows, nextTab, running, refused, fate)'
  <2>1. ASSUME NEW k \in 1..(m + 1)
        PROVE  /\ refused'[k].tab # None /\ refused'[k].tab < nextTab'
               /\ refused'[k].ask < nextAsk' /\ worker'[refused'[k].ask] = "none"
               /\ running'[refused'[k].ask] = None /\ fate'[refused'[k].ask] = "open"
               /\ shows'[refused'[k].tab] # None =>
                    shows'[refused'[k].tab] = asker'[refused'[k].ask]
    <3>1. CASE k = m + 1
      BY <3>1, <1>1, <1>2, <1>3, Numbers DEF n
    <3>2. CASE k \in 1..m
      <4>1. refused'[k] = ref[k] /\ k \in DOMAIN ref
        BY <3>2, <1>3
      <4>2. ref[k].ask \in Asks /\ ref[k].ask # n
        BY <4>1, <1>1
      <4>3. /\ ref[k].tab # None /\ ref[k].tab < nextTab'
            /\ ref[k].ask < nextAsk /\ worker[ref[k].ask] = "none"
            /\ run[ref[k].ask] = None /\ ft[ref[k].ask] = "open"
            /\ shows'[ref[k].tab] # None => shows'[ref[k].tab] = asker[ref[k].ask]
        BY <4>1, <1>4 DEF RefusedOK
      <4> QED BY <4>1, <4>2, <4>3, <1>2 DEF n
    <3> QED BY <3>1, <3>2, <1>3
  <2>2. ASSUME NEW k \in 1..(m + 1), NEW l \in 1..(m + 1), refused'[k].ask = refused'[l].ask
        PROVE  k = l
    <3>1. k \in 1..m \/ k = m + 1
      BY <1>3
    <3>2. l \in 1..m \/ l = m + 1
      BY <1>3
    <3> QED BY <2>2, <3>1, <3>2, <1>1, <1>3, <1>4 DEF RefusedOK
  <2> QED BY <2>1, <2>2, <1>3 DEF RefusedOK
<1>7. BatchOK(shows, nextTab, running, refused, fate, batch)'
  <2>1. \A k \in DOMAIN batch' : \A l \in DOMAIN refused' : refused'[l].ask # batch'[k].ask
    <3> SUFFICES ASSUME NEW k \in DOMAIN batch', NEW l \in 1..(m + 1)
                 PROVE  refused'[l].ask # batch'[k].ask
      BY <1>3
    <3>1. l \in 1..m \/ l = m + 1
      BY <1>3
    <3>2. CASE l = m + 1
      BY <3>2, <1>1, <1>3
    <3>3. CASE l \in 1..m
      <4>1. refused'[l] = ref[l] /\ l \in DOMAIN ref
        BY <3>3, <1>3
      <4>2. ref[l].ask # batch'[k].ask
        BY <4>1, <1>4 DEF BatchOK
      <4> QED BY <4>1, <4>2
    <3> QED BY <3>1, <3>2, <3>3
  <2>2. ASSUME NEW k \in DOMAIN batch'
        PROVE  /\ batch'[k].ask < nextAsk' /\ worker'[batch'[k].ask] \in {"none", "sent"}
               /\ running'[batch'[k].ask] = None /\ batch'[k].ask \notin Arrived'
               /\ batch'[k].tab # None =>
                    /\ batch'[k].tab < nextTab' /\ fate'[batch'[k].ask] = "open"
                    /\ shows'[batch'[k].tab] # None =>
                         shows'[batch'[k].tab] = asker'[batch'[k].ask]
    <3>1. batch'[k].ask \in Asks /\ batch'[k].ask # n
      BY <1>1
    <3>2. /\ batch'[k].ask < nextAsk /\ worker[batch'[k].ask] \in {"none", "sent"}
          /\ run[batch'[k].ask] = None /\ batch'[k].ask \notin Arrived
          /\ batch'[k].tab # None =>
               /\ batch'[k].tab < nextTab' /\ ft[batch'[k].ask] = "open"
               /\ shows'[batch'[k].tab] # None =>
                    shows'[batch'[k].tab] = asker[batch'[k].ask]
      BY <1>4 DEF BatchOK
    <3> QED BY <3>1, <3>2, <1>1, <1>2 DEF n
  <2>3. \A k, l \in DOMAIN batch' : batch'[k].ask = batch'[l].ask => k = l
    BY <1>4 DEF BatchOK
  <2> QED BY <2>1, <2>2, <2>3 DEF BatchOK
<1>8. RxOK'
  <2>1. \A k \in DOMAIN rx : rx[k] \in Asks
    BY ElementOfSeq, LenProperties DEF JobTypes
  <2> QED BY <2>1, <1>2, <1>4 DEF RxOK, n
<1>9. AsksOK(shows, kind, nextBuffer, fate)'
  <2>1. ASSUME NEW i \in Asks, i # n
        PROVE  /\ i >= nextAsk' => fate'[i] = "unasked" /\ worker'[i] = "none"
               /\ i < nextAsk' =>
                    /\ asker'[i] \in Buffers /\ asker'[i] < nextBuffer'
                    /\ \A v \in Tabs : shows'[v] = asker'[i] => kind'[asker'[i]] = "editor"
    <3>1. (i >= nextAsk' => i >= nextAsk) /\ (i < nextAsk' <=> i < nextAsk)
      BY <2>1, <1>1, Numbers DEF n
    <3> QED BY <2>1, <3>1, <1>2, <1>4 DEF AsksOK
  <2>2. ~ (n >= nextAsk') /\ asker'[n] \in Buffers /\ asker'[n] < nextBuffer'
        /\ kind'[asker'[n]] = "editor"
    BY <1>1, <1>2 DEF n
  <2> QED BY <2>1, <2>2 DEF AsksOK
<1>10. HeldOK(shows, running, refused, fate, batch)'
  <2> SUFFICES ASSUME NEW i \in Asks, fate'[i] = "open",
                      NEW v \in Tabs, shows'[v] = asker'[i]
               PROVE  \/ running'[i] # None
                      \/ \E k \in DOMAIN refused' :
                           refused'[k].ask = i /\ shows'[refused'[k].tab] = asker'[i]
                      \/ \E k \in DOMAIN batch' :
                           /\ batch'[k].ask = i /\ batch'[k].tab # None
                           /\ shows'[batch'[k].tab] = asker'[i]
    BY DEF HeldOK
  <2>1. CASE i = n
    <3>1. m + 1 \in DOMAIN refused'
      BY <1>3
    <3> QED BY <2>1, <3>1, <1>2, <1>3
  <2>2. CASE i # n
    <3>1. ft[i] = "open" /\ asker[i] = asker'[i]
      BY <2>2, <1>2
    <3>2. CASE \E k \in DOMAIN ref : ref[k].ask = i /\ shows'[ref[k].tab] = asker[i]
      <4>1. PICK k \in 1..m : ref[k].ask = i /\ shows'[ref[k].tab] = asker[i]
        BY <3>2, <1>3
      <4>2. k \in DOMAIN refused' /\ refused'[k] = ref[k]
        BY <1>3
      <4> QED BY <3>1, <4>1, <4>2
    <3> QED BY <3>1, <3>2, <1>4 DEF HeldOK
  <2> QED BY <2>1, <2>2
<1> QED BY <1>5, <1>6, <1>7, <1>8, <1>9, <1>10 DEF JobInv, JobsOK

LEMMA NoSpawnKeeps ==
  ASSUME NEW j, NoSpawn(j),
         JobsOK(shows', kind', nextTab', nextBuffer',
                j.running, j.refused, j.fate, batch')
  PROVE  JobInv'
<1>1. /\ running' = j.running /\ refused' = j.refused /\ fate' = j.fate
      /\ nextAsk' = nextAsk /\ worker' = worker /\ rx' = rx /\ asker' = asker
      /\ Arrived' = Arrived
  BY DEF NoSpawn, threads, Arrived
<1> QED BY <1>1 DEF JobInv, JobsOK, RunningOK, RefusedOK, BatchOK, RxOK, AsksOK, HeldOK

LEMMA SpawnKeeps ==
  ASSUME JobTypes, JobTypes', ViewTypes', NEW t \in Tabs, NEW b \in Buffers, NEW j,
         JobsType(j.running, j.refused, j.stop, j.fate),
         JobsOK(shows', kind', nextTab', nextBuffer',
                j.running, j.refused, j.fate, batch'),
         MaySpawn(t, b, j),
         shows'[t] = b, kind'[b] = "editor", t < nextTab', b < nextBuffer'
  PROVE  JobInv'
<1>1. /\ shows' \in [Tabs -> Buffers \cup {None}] /\ batch' \in Seq(Answers)
      /\ nextTab' \in Nat /\ nextBuffer' \in Nat
  BY Numbers DEF ViewTypes, JobTypes
<1>2. CASE NoSpawn(j)
  BY <1>2, NoSpawnKeeps
<1>3. CASE Spawn(t, b, j)
  <2>1. CASE Start(t, j)
    BY <1>1, <1>3, <2>1, StartKeeps DEF Spawn, Start
  <2>2. CASE Refuse(t, j)
    BY <1>1, <1>3, <2>2, RefuseKeeps DEF Spawn, Refuse
  <2> QED BY <1>3, <2>1, <2>2 DEF Spawn
<1> QED BY <1>2, <1>3 DEF MaySpawn
-------------------------------------------------------------------------------
(* The jobs while tabs open and close. *)

(* An action at rest shows and drops views and hands jobs over, from sh to    *)
(* sh2 and so on, without a word to the invariant of who asked: what a job or *)
(* refusal is for stays a view of the same buffer, or is gone; what is gone   *)
(* had no view left, or was called off.                                       *)
Amends(sh2, kd2, nt2, nb2, run2, ref2, ft2) ==
  /\ nt2 >= nextTab /\ nb2 >= nextBuffer
  /\ \A i \in Asks :
       /\ run2[i] # None => /\ running[i] # None /\ run2[i] \in Tabs
                            /\ sh2[run2[i]] = shows[running[i]] /\ ft2[i] = fate[i]
       /\ ft2[i] # fate[i] => running[i] # None /\ ft2[i] # "open"
       /\ running[i] # None /\ run2[i] = None /\ ft2[i] = fate[i] =>
            \A v \in Tabs : sh2[v] # shows[running[i]]
  /\ DOMAIN ref2 = DOMAIN refused
  /\ \A k \in DOMAIN refused :
       /\ ref2[k].ask = refused[k].ask /\ ref2[k].tab # None /\ ref2[k].tab < nt2
       /\ sh2[ref2[k].tab] # None => sh2[ref2[k].tab] = shows[refused[k].tab]
       /\ sh2[ref2[k].tab] = None => \A v \in Tabs : sh2[v] # None =>
            sh2[v] # shows[refused[k].tab]
  /\ \A v \in Tabs : \/ sh2[v] = None \/ sh2[v] >= nextBuffer
                     \/ \E w \in Tabs : sh2[v] = shows[w]
  /\ \A b \in Buffers : b < nextBuffer => kd2[b] = kind[b] \/ kd2[b] = "editor"

LEMMA AmendsKeeps ==
  ASSUME TypeOK, JobInv, AtRest, NEW sh2 \in [Tabs -> Buffers \cup {None}], NEW kd2,
         NEW nt2 \in Nat, NEW nb2 \in Nat, NEW run2, NEW ref2, NEW ft2,
         Amends(sh2, kd2, nt2, nb2, run2, ref2, ft2)
  PROVE  JobsOK(sh2, kd2, nt2, nb2, run2, ref2, ft2, batch)
<1>1. /\ RunningOK(shows, running, fate) /\ RefusedOK(shows, nextTab, running, refused, fate)
      /\ RxOK /\ AsksOK(shows, kind, nextBuffer, fate)
      /\ HeldOK(shows, running, refused, fate, batch)
  BY DEF JobInv, JobsOK
<1>2. /\ batch = << >> /\ DOMAIN batch = {}
      /\ nextTab \in Nat /\ nextBuffer \in Nat /\ nextAsk \in Nat /\ Asks \subseteq Nat
  BY Numbers DEF AtRest, TypeOK, ViewTypes, JobTypes
<1>3. /\ \A k \in DOMAIN refused : /\ refused[k].ask \in Asks
                                   /\ refused[k].tab \in Tabs
      /\ \A k \in DOMAIN ref2 : ref2[k].ask = refused[k].ask
      /\ DOMAIN ref2 = DOMAIN refused
  <2>1. \A k \in DOMAIN refused : refused[k].ask \in Asks
                                  /\ refused[k].tab \in Tabs \cup {None}
    BY AnswerTypes DEF TypeOK, JobTypes
  <2> QED BY <2>1, <1>1 DEF RefusedOK, Amends
<1>4. \A i \in Asks : i < nextAsk => asker[i] \in Buffers /\ asker[i] \in Nat
  BY <1>1, Numbers DEF AsksOK
<1>5. RunningOK(sh2, run2, ft2)
  BY <1>1 DEF RunningOK, Amends
<1>6. RefusedOK(sh2, nt2, run2, ref2, ft2)
  <2>1. ASSUME NEW k \in DOMAIN refused
        PROVE  /\ ref2[k].tab # None /\ ref2[k].tab < nt2
               /\ ref2[k].ask < nextAsk /\ worker[ref2[k].ask] = "none"
               /\ run2[ref2[k].ask] = None /\ ft2[ref2[k].ask] = "open"
               /\ sh2[ref2[k].tab] # None => sh2[ref2[k].tab] = asker[ref2[k].ask]
    <3>1. /\ ref2[k].ask = refused[k].ask /\ refused[k].ask \in Asks
          /\ refused[k].ask < nextAsk /\ worker[refused[k].ask] = "none"
          /\ running[refused[k].ask] = None /\ fate[refused[k].ask] = "open"
          /\ shows[refused[k].tab] # None => shows[refused[k].tab] = asker[refused[k].ask]
      BY <1>1, <1>3 DEF RefusedOK
    <3>2. run2[refused[k].ask] = None /\ ft2[refused[k].ask] = "open"
      BY <3>1 DEF Amends
    <3>3. /\ ref2[k].tab # None /\ ref2[k].tab < nt2
          /\ sh2[ref2[k].tab] # None => sh2[ref2[k].tab] = shows[refused[k].tab]
      BY DEF Amends
    <3> QED BY <3>1, <3>2, <3>3
  <2>2. \A k, l \in DOMAIN ref2 : ref2[k].ask = ref2[l].ask => k = l
    BY <1>1, <1>3 DEF RefusedOK
  <2> QED BY <2>1, <2>2, <1>3 DEF RefusedOK
<1>7. BatchOK(sh2, nt2, run2, ref2, ft2, batch)
  BY <1>2 DEF BatchOK
<1>8. AsksOK(sh2, kd2, nb2, ft2)
  <2>1. ASSUME NEW i \in Asks
        PROVE  /\ i >= nextAsk => ft2[i] = "unasked" /\ worker[i] = "none"
               /\ i < nextAsk =>
                    /\ asker[i] \in Buffers /\ asker[i] < nb2
                    /\ \A t \in Tabs : sh2[t] = asker[i] => kd2[asker[i]] = "editor"
    <3>1. i >= nextAsk => fate[i] = "unasked" /\ worker[i] = "none" /\ running[i] = None
      BY <1>1, <1>2 DEF AsksOK, RunningOK
    <3>2. CASE i < nextAsk
      <4>1. asker[i] \in Buffers /\ asker[i] < nextBuffer /\ asker[i] \in Nat
        BY <3>2, <1>1, <1>4 DEF AsksOK
      <4>2. asker[i] < nb2
        BY <4>1, <1>2 DEF Amends
      <4>3. ASSUME NEW t \in Tabs, sh2[t] = asker[i]
            PROVE  kd2[asker[i]] = "editor"
        <5>1. PICK w \in Tabs : shows[w] = asker[i]
          BY <4>1, <4>3, <1>2, Numbers DEF Amends
        <5>2. kind[asker[i]] = "editor"
          BY <5>1, <3>2, <1>1 DEF AsksOK
        <5> QED BY <4>1, <5>2 DEF Amends
      <4> QED BY <3>2, <4>1, <4>2, <4>3, <1>2
    <3> QED BY <3>1, <3>2, <1>2 DEF Amends
  <2> QED BY <2>1 DEF AsksOK
<1>9. HeldOK(sh2, run2, ref2, ft2, batch)
  <2> SUFFICES ASSUME NEW i \in Asks, ft2[i] = "open", NEW v \in Tabs, sh2[v] = asker[i]
               PROVE  \/ run2[i] # None
                      \/ \E k \in DOMAIN ref2 : ref2[k].ask = i /\ sh2[ref2[k].tab] = asker[i]
    BY DEF HeldOK
  <2>1. fate[i] = "open" /\ ft2[i] = fate[i]
    BY DEF Amends
  <2>2. asker[i] \in Buffers /\ asker[i] < nextBuffer /\ asker[i] \in Nat /\ asker[i] # None
    BY <2>1, <1>1, <1>2, <1>4, Numbers DEF AsksOK
  <2>3. PICK w \in Tabs : shows[w] = asker[i]
    BY <2>2, <1>2 DEF Amends
  <2>4. CASE running[i] # None
    <3>1. shows[running[i]] = asker[i]
      BY <2>4, <1>1 DEF RunningOK
    <3> QED BY <3>1, <2>1, <2>4 DEF Amends
  <2>5. CASE \E k \in DOMAIN refused : refused[k].ask = i /\ shows[refused[k].tab] = asker[i]
    <3>1. PICK k \in DOMAIN refused : refused[k].ask = i /\ shows[refused[k].tab] = asker[i]
      BY <2>5
    <3>2. ref2[k].ask = i /\ k \in DOMAIN ref2
      BY <3>1, <1>3
    <3>3. sh2[ref2[k].tab] # None
      BY <3>1, <2>2 DEF Amends
    <3>4. sh2[ref2[k].tab] = asker[i]
      BY <3>1, <3>3 DEF Amends
    <3> QED BY <3>2, <3>4
  <2> QED BY <2>1, <2>3, <2>4, <2>5, <1>1, <1>2 DEF HeldOK
<1> QED BY <1>1, <1>5, <1>6, <1>7, <1>8, <1>9 DEF JobsOK
-------------------------------------------------------------------------------
(* The actions at rest amend, as stated above. *)

LEMMA CurrentIs ==
  /\ Current.running = running /\ Current.stop = stop
  /\ Current.refused = refused /\ Current.fate = fate
BY DEF Current

LEMMA CancelledIs ==
  ASSUME NEW T
  PROVE  /\ \A i \in Asks :
              Cancelled(T).running[i] = IF running[i] \in T THEN None ELSE running[i]
         /\ Cancelled(T).refused = refused /\ Cancelled(T).fate = fate
<1>1. Cancelled(T).running = [i \in Asks |-> IF running[i] \in T THEN None ELSE running[i]]
  BY DEF Cancelled, Current
<1>2. Cancelled(T).refused = refused /\ Cancelled(T).fate = fate
  BY DEF Cancelled, Current
<1> QED BY <1>1, <1>2

LEMMA HandedOverIs ==
  ASSUME NEW t, NEW u
  PROVE  /\ \A i \in Asks :
              HandedOver(t, u).running[i] = IF running[i] = t THEN u ELSE running[i]
         /\ HandedOver(t, u).refused = HandedTo({t}, u) /\ HandedOver(t, u).fate = fate
<1>1. HandedOver(t, u).running = [i \in Asks |-> IF running[i] = t THEN u ELSE running[i]]
  BY DEF HandedOver, Current
<1>2. HandedOver(t, u).refused = HandedTo({t}, u) /\ HandedOver(t, u).fate = fate
  BY DEF HandedOver, Current
<1> QED BY <1>1, <1>2

LEMMA HandedToIs ==
  ASSUME JobTypes, NEW T, NEW to \in Tabs
  PROVE  /\ DOMAIN HandedTo(T, to) = DOMAIN refused
         /\ \A k \in DOMAIN refused :
              /\ HandedTo(T, to)[k].ask = refused[k].ask
              /\ HandedTo(T, to)[k].tab = IF refused[k].tab \in T THEN to ELSE refused[k].tab
<1>1. \A k \in DOMAIN refused : refused[k] = [tab |-> refused[k].tab, ask |-> refused[k].ask]
  BY AnswerTypes DEF JobTypes
<1>2. DOMAIN HandedTo(T, to) = DOMAIN refused
  BY DEF HandedTo
<1>3. ASSUME NEW k \in DOMAIN refused, refused[k].tab \in T
      PROVE  HandedTo(T, to)[k] = [tab |-> to, ask |-> refused[k].ask]
  <2>1. HandedTo(T, to)[k] = [refused[k] EXCEPT !.tab = to]
    BY <1>3 DEF HandedTo
  <2> DEFINE r == refused[k]
  <2>2. r = [tab |-> r.tab, ask |-> r.ask]
    BY <1>1
  <2> HIDE DEF r
  <2>3. [r EXCEPT !.tab = to] = [tab |-> to, ask |-> r.ask]
    BY <2>2
  <2> QED BY <2>1, <2>3 DEF r
<1>4. ASSUME NEW k \in DOMAIN refused, refused[k].tab \notin T
      PROVE  HandedTo(T, to)[k] = refused[k]
  BY <1>4 DEF HandedTo
<1> QED BY <1>2, <1>3, <1>4

(* Tabs in use have been given out; jobs and refusals are for such.           *)
LEMMA InUse ==
  ASSUME TypeOK, ViewInv, JobInv
  PROVE  /\ nextTab \in Nat /\ nextBuffer \in Nat
         /\ \A t \in Tabs : shows[t] # None =>
              t < nextTab /\ shows[t] < nextBuffer /\ shows[t] \in Buffers /\ shows[t] \in Nat
         /\ \A i \in Asks : running[i] # None =>
              running[i] \in Tabs /\ shows[running[i]] # None
         /\ \A k \in DOMAIN refused :
              /\ refused[k].tab \in Tabs /\ refused[k].tab < nextTab
              /\ refused[k].ask \in Asks
<1>1. /\ nextTab \in Nat /\ nextBuffer \in Nat
      /\ \A t \in Tabs : shows[t] # None =>
           t < nextTab /\ shows[t] < nextBuffer /\ shows[t] \in Buffers /\ shows[t] \in Nat
  BY Numbers DEF TypeOK, ViewTypes, ViewInv, Fresh
<1>2. \A i \in Asks : running[i] # None => running[i] \in Tabs /\ shows[running[i]] # None
  BY DEF TypeOK, JobTypes, JobInv, JobsOK, RunningOK
<1>3. \A k \in DOMAIN refused : refused[k].tab \in Tabs \cup {None} /\ refused[k].ask \in Asks
  BY AnswerTypes DEF TypeOK, JobTypes
<1>4. RefusedOK(shows, nextTab, running, refused, fate)
  BY DEF JobInv, JobsOK
<1> QED BY <1>1, <1>2, <1>3, <1>4 DEF RefusedOK

LEMMA StaysAmends ==
  ASSUME TypeOK, ViewInv, JobInv
  PROVE  Amends(shows, kind, nextTab, nextBuffer, running, refused, fate)
<1>1. \A k \in DOMAIN refused :
        /\ refused[k].tab # None /\ refused[k].tab < nextTab
        /\ shows[refused[k].tab] = None => \A v \in Tabs : shows[v] # None =>
             shows[v] # shows[refused[k].tab]
  BY InUse, Numbers
<1>2. \A i \in Asks : running[i] # None =>
        running[i] \in Tabs /\ shows[running[i]] # None
  BY InUse
<1>3. nextTab >= nextTab /\ nextBuffer >= nextBuffer
  BY InUse
<1> QED BY <1>1, <1>2, <1>3 DEF Amends

LEMMA GrowthAmends ==
  ASSUME TypeOK, ViewInv, JobInv, NEW x \in Buffers, nextTab \in Tabs,
         x = nextBuffer \/ \E w \in Tabs : x = shows[w],
         NEW sh2, sh2 = [shows EXCEPT ![nextTab] = x],
         NEW kd2, \A b \in Buffers : b # nextBuffer => kd2[b] = kind[b],
         NEW nb2, nb2 \in {nextBuffer, nextBuffer + 1}
  PROVE  Amends(sh2, kd2, nextTab + 1, nb2, running, refused, fate)
<1>1. /\ sh2[nextTab] = x
      /\ \A v \in Tabs : v # nextTab => sh2[v] = shows[v]
  BY DEF TypeOK, ViewTypes
<1>2. nextTab + 1 >= nextTab /\ nb2 >= nextBuffer
  BY InUse
<1>3. ASSUME NEW i \in Asks, running[i] # None
      PROVE  running[i] \in Tabs /\ sh2[running[i]] = shows[running[i]]
  BY <1>1, <1>3, InUse
<1>4. ASSUME NEW k \in DOMAIN refused
      PROVE  /\ refused[k].tab # None /\ refused[k].tab < nextTab + 1
             /\ sh2[refused[k].tab] = shows[refused[k].tab]
  BY <1>1, InUse, Numbers
<1>5. \A v \in Tabs : \/ sh2[v] = None \/ sh2[v] >= nextBuffer
                      \/ \E w \in Tabs : sh2[v] = shows[w]
  BY <1>1, InUse
<1>6. \A b \in Buffers : b < nextBuffer => kd2[b] = kind[b]
  BY InUse
<1> QED BY <1>2, <1>3, <1>4, <1>5, <1>6 DEF Amends

LEMMA CancelAmends ==
  ASSUME TypeOK, ViewInv, JobInv, NEW t \in Tabs,
         NEW ft2, ft2 = [i \in Asks |-> IF running[i] = t THEN "cancelled" ELSE fate[i]]
  PROVE  Amends(shows, kind, nextTab, nextBuffer, Cancelled({t}).running, refused, ft2)
<1> DEFINE run2 == Cancelled({t}).running
<1>1. \A i \in Asks : run2[i] = IF running[i] = t THEN None ELSE running[i]
  BY CancelledIs
<1>2. \A i \in Asks : running[i] # None => fate[i] = "open"
  BY DEF JobInv, JobsOK, RunningOK
<1> HIDE DEF run2
<1>3. \A k \in DOMAIN refused :
        /\ refused[k].tab # None /\ refused[k].tab < nextTab
        /\ shows[refused[k].tab] = None => \A v \in Tabs : shows[v] # None =>
             shows[v] # shows[refused[k].tab]
  BY InUse, Numbers
<1>4. t # None
  BY Numbers
<1>5. \A i \in Asks :
       /\ run2[i] # None => /\ running[i] # None /\ run2[i] \in Tabs
                            /\ shows[run2[i]] = shows[running[i]] /\ ft2[i] = fate[i]
       /\ ft2[i] # fate[i] => running[i] # None /\ ft2[i] # "open"
       /\ running[i] # None /\ run2[i] = None /\ ft2[i] = fate[i] =>
            \A v \in Tabs : shows[v] # shows[running[i]]
  BY <1>1, <1>2, <1>4, InUse
<1>6. nextTab >= nextTab /\ nextBuffer >= nextBuffer
  BY InUse
<1> QED BY <1>3, <1>5, <1>6 DEF Amends, run2

LEMMA RemovedIs ==
  ASSUME TypeOK, NEW T, NEW b \in Buffers
  PROVE  /\ \A v \in Tabs :
              Removed(T, b).shows[v] = IF v \in T THEN None ELSE shows[v]
         /\ \A c \in Buffers :
              Removed(T, b).kind[c] = kind[c] \/ Removed(T, b).kind[c] = "editor"
BY DEF Removed, TypeOK, ViewTypes

LEMMA DroppedAmends ==
  ASSUME TypeOK, ViewInv, JobInv, NEW t \in Tabs, IsOpen(t),
         NEW sh2, \A v \in Tabs : sh2[v] = IF v = t THEN None ELSE shows[v],
         NEW kd2, \A c \in Buffers : kd2[c] = kind[c] \/ kd2[c] = "editor"
  PROVE  Amends(sh2, kd2, nextTab, nextBuffer,
                Dropped(t).running, Dropped(t).refused, Dropped(t).fate)
<1>1. /\ nextTab >= nextTab /\ nextBuffer >= nextBuffer /\ t # None
      /\ \A v \in Tabs : \/ sh2[v] = None \/ \E w \in Tabs : sh2[v] = shows[w]
      /\ shows[t] # None /\ t < nextTab
  BY InUse, Numbers DEF IsOpen
<1>2. CASE OtherViews(t) = {}
  <2>1. \A v \in Tabs : sh2[v] # None => sh2[v] # shows[t]
    BY <1>2 DEF OtherViews, Views
  <2> DEFINE run2 == Cancelled({t}).running
  <2>2. \A i \in Asks : run2[i] = IF running[i] = t THEN None ELSE running[i]
    BY CancelledIs
  <2> HIDE DEF run2
  <2>3. ASSUME NEW i \in Asks
        PROVE  /\ run2[i] # None => /\ running[i] # None /\ run2[i] \in Tabs
                                    /\ sh2[run2[i]] = shows[running[i]]
               /\ running[i] # None /\ run2[i] = None =>
                    \A v \in Tabs : sh2[v] # shows[running[i]]
    BY <2>1, <2>2, <1>1, InUse
  <2>4. ASSUME NEW k \in DOMAIN refused
        PROVE  /\ refused[k].tab # None /\ refused[k].tab < nextTab
               /\ sh2[refused[k].tab] # None => sh2[refused[k].tab] = shows[refused[k].tab]
               /\ sh2[refused[k].tab] = None => \A v \in Tabs : sh2[v] # None =>
                    sh2[v] # shows[refused[k].tab]
    BY <2>1, <1>1, InUse, Numbers
  <2>5. Amends(sh2, kd2, nextTab, nextBuffer, run2, refused, fate)
    BY <2>3, <2>4, <1>1 DEF Amends
  <2> QED BY <2>5, <1>2, CancelledIs DEF Dropped, run2
<1>3. CASE OtherViews(t) # {}
  <2> DEFINE u == LowestOther(t)
  <2>1. u \in Tabs /\ u # t /\ shows[u] = shows[t] /\ u # None /\ u < nextTab
    <3>1. u \in Tabs /\ u # t /\ shows[u] = shows[t]
      BY <1>3, OthersAreTabs DEF TypeOK
    <3> QED BY <3>1, <1>1, InUse, Numbers
  <2> HIDE DEF u
  <2> DEFINE run2 == HandedOver(t, u).running
             ref2 == HandedTo({t}, u)
  <2>2. \A i \in Asks : run2[i] = IF running[i] = t THEN u ELSE running[i]
    <3>1. run2 = [i \in Asks |-> IF running[i] = t THEN u ELSE running[i]]
      BY DEF HandedOver, Current
    <3> QED BY <3>1
  <2>3. /\ DOMAIN ref2 = DOMAIN refused
        /\ \A k \in DOMAIN refused :
             /\ ref2[k].ask = refused[k].ask
             /\ ref2[k].tab = IF refused[k].tab = t THEN u ELSE refused[k].tab
    BY <2>1, HandedToIs DEF TypeOK
  <2>4. HandedOver(t, u).refused = ref2 /\ HandedOver(t, u).fate = fate
    BY HandedOverIs
  <2>5. Dropped(t) = HandedOver(t, u)
    BY <1>3 DEF Dropped, u
  <2> HIDE DEF run2, ref2
  <2>6. ASSUME NEW i \in Asks
        PROVE  /\ run2[i] # None => /\ running[i] # None /\ run2[i] \in Tabs
                                    /\ sh2[run2[i]] = shows[running[i]]
               /\ ~ (running[i] # None /\ run2[i] = None)
    BY <2>1, <2>2, <1>1, InUse
  <2>7. ASSUME NEW k \in DOMAIN refused
        PROVE  /\ ref2[k].ask = refused[k].ask /\ ref2[k].tab # None /\ ref2[k].tab < nextTab
               /\ sh2[ref2[k].tab] # None => sh2[ref2[k].tab] = shows[refused[k].tab]
               /\ sh2[ref2[k].tab] = None => shows[refused[k].tab] = None
    BY <2>1, <2>3, <1>1, InUse, Numbers
  <2>8. Amends(sh2, kd2, nextTab, nextBuffer, run2, ref2, fate)
    BY <2>3, <2>6, <2>7, <1>1 DEF Amends
  <2> QED BY <2>4, <2>5, <2>8 DEF run2
<1> QED BY <1>2, <1>3

LEMMA KillAmends ==
  ASSUME TypeOK, ViewInv, JobInv, NEW t \in Tabs, IsOpen(t),
         NEW sh2, \A v \in Tabs : sh2[v] = IF v \in Views(shows[t]) THEN None ELSE shows[v],
         NEW kd2, \A c \in Buffers : kd2[c] = kind[c] \/ kd2[c] = "editor"
  PROVE  Amends(sh2, kd2, nextTab, nextBuffer, Cancelled(Views(shows[t])).running,
                HandedTo(Views(shows[t]), t), fate)
<1> DEFINE V == Views(shows[t])
           run2 == Cancelled(V).running
           ref2 == HandedTo(V, t)
<1>1. /\ nextTab >= nextTab /\ nextBuffer >= nextBuffer /\ t # None
      /\ \A v \in Tabs : \/ sh2[v] = None \/ \E w \in Tabs : sh2[v] = shows[w]
      /\ \A v \in Tabs : v \in V <=> shows[v] = shows[t]
      /\ shows[t] # None /\ t < nextTab
  BY InUse, Numbers DEF IsOpen, Views
<1>2. \A i \in Asks : run2[i] = IF running[i] \in V THEN None ELSE running[i]
  BY CancelledIs
<1>3. /\ DOMAIN ref2 = DOMAIN refused
      /\ \A k \in DOMAIN refused :
           /\ ref2[k].ask = refused[k].ask
           /\ ref2[k].tab = IF refused[k].tab \in V THEN t ELSE refused[k].tab
  BY HandedToIs DEF TypeOK
<1>4. \A v \in Tabs : sh2[v] # None => sh2[v] # shows[t]
  BY <1>1
<1> HIDE DEF V, run2, ref2
<1>5. ASSUME NEW i \in Asks
      PROVE  /\ run2[i] # None => /\ running[i] # None /\ run2[i] \in Tabs
                                  /\ sh2[run2[i]] = shows[running[i]]
             /\ running[i] # None /\ run2[i] = None =>
                  \A v \in Tabs : sh2[v] # shows[running[i]]
  BY <1>1, <1>2, <1>4, InUse DEF V
<1>6. ASSUME NEW k \in DOMAIN refused
      PROVE  /\ ref2[k].ask = refused[k].ask /\ ref2[k].tab # None /\ ref2[k].tab < nextTab
             /\ sh2[ref2[k].tab] # None => sh2[ref2[k].tab] = shows[refused[k].tab]
             /\ sh2[ref2[k].tab] = None => \A v \in Tabs : sh2[v] # None =>
                  sh2[v] # shows[refused[k].tab]
  BY <1>1, <1>3, <1>4, InUse, Numbers DEF V
<1>7. Amends(sh2, kd2, nextTab, nextBuffer, run2, ref2, fate)
  BY <1>1, <1>3, <1>5, <1>6 DEF Amends
<1> QED BY <1>7 DEF V, run2, ref2

-------------------------------------------------------------------------------
(* Every action keeps the types. *)

LEMMA LoadKeepsTypes ==
  ASSUME ViewTypes, NEW t \in Tabs, IsOpen(t), Load(t),
         UNCHANGED <<shows, nextTab, kind, nextBuffer>>,
         buried' \subseteq Tabs, hidden' \in [Buffers -> BOOLEAN]
  PROVE  ViewTypes'
BY LoadTypes, KeptTypes

LEMMA InBatch ==
  ASSUME JobTypes, batch # << >>
  PROVE  /\ Head(batch).tab \in Tabs \cup {None} /\ Head(batch).ask \in Asks
         /\ Tail(batch) \in Seq(Answers)
         /\ 1 \in DOMAIN batch /\ Head(batch) = batch[1]
         /\ DOMAIN Tail(batch) = 1..(Len(batch) - 1) /\ DOMAIN batch = 1..Len(batch)
         /\ Len(batch) \in Nat
         /\ \A k \in DOMAIN Tail(batch) : k + 1 \in DOMAIN batch /\ Tail(batch)[k] = batch[k + 1]
<1>1. batch \in Seq(Answers)
  BY DEF JobTypes
<1>2. Len(batch) \in Nat /\ DOMAIN batch = 1..Len(batch) /\ Len(batch) # 0
  BY <1>1, LenProperties, EmptySeq
<1>3. Head(batch) = batch[1] /\ 1 \in DOMAIN batch
  BY <1>1, <1>2, HeadTailProperties
<1>4. /\ Tail(batch) \in Seq(Answers) /\ Len(Tail(batch)) = Len(batch) - 1
      /\ \A k \in 1..Len(Tail(batch)) : Tail(batch)[k] = batch[k + 1]
  BY <1>1, HeadTailProperties
<1>5. DOMAIN Tail(batch) = 1..(Len(batch) - 1)
  BY <1>4, LenProperties
<1> QED BY <1>1, <1>2, <1>3, <1>4, <1>5, AnswerTypes

LEMMA DrainTypes ==
  ASSUME JobTypes, Drain
  PROVE  JobTypes'
<1>1. /\ DOMAIN rx = 1..Len(rx) /\ Len(rx) \in Nat /\ \A k \in 1..Len(rx) : rx[k] \in Asks
  BY LenProperties, ElementOfSeq DEF JobTypes
<1> DEFINE s == [k \in DOMAIN rx |-> [tab |-> running[rx[k]], ask |-> rx[k]]]
<1>2. s \in Seq(Answers)
  <2>1. \A k \in 1..Len(rx) : [tab |-> running[rx[k]], ask |-> rx[k]] \in Answers
    BY <1>1 DEF JobTypes, Answers
  <2>2. s \in [1..Len(rx) -> Answers]
    BY <1>1, <2>1
  <2> HIDE DEF s
  <2> QED BY <1>1, <2>2, SeqDef
<1>3. batch' = refused \o s
  BY DEF Drain
<1> HIDE DEF s
<1>4. batch' \in Seq(Answers)
  BY <1>2, <1>3, ConcatProperties DEF JobTypes
<1>5. << >> \in Seq(Answers) /\ << >> \in Seq(Asks)
  BY EmptySeq
<1>6. running' \in [Asks -> Tabs \cup {None}] /\ refused' = << >> /\ rx' = << >>
  BY DEF Drain, JobTypes
<1> QED BY <1>4, <1>5, <1>6 DEF Drain, JobTypes, told

LEMMA TypeStep ==
  ASSUME TypeOK, BuriedAreEditors, [Next]_vars
  PROVE  TypeOK'
<1> USE DEF TypeOK
<1>1. ASSUME NEW k \in Kinds, Open(k)
      PROVE  TypeOK'
  <2>1. nextTab \in Tabs /\ nextBuffer \in Buffers
    BY <1>1, Numbers DEF Open, Insert, ViewTypes
  <2>2. ViewTypes'
    BY <1>1, <2>1, AsTheyAreType, InsertTypes, Numbers DEF Open, ViewTypes
  <2>3. JobTypes'
    BY <1>1, <2>1, CurrentType, SpawnTypes DEF Open, MaySpawn, JobTypes
  <2> QED BY <2>2, <2>3
<1>2. ASSUME NEW t \in Tabs, AddView(t)
      PROVE  TypeOK'
  <2>1. ViewTypes'
    BY <1>2, Numbers DEF AddView, ViewTypes, IsOpen, buffers, views
  <2> QED BY <1>2, <2>1 DEF AddView, JobTypes, jobs, threads, told
<1>3. ASSUME NEW t \in Tabs, Ask(t)
      PROVE  TypeOK'
  <2>1. ViewTypes'
    BY <1>3, LoadKeepsTypes DEF Ask, ViewTypes, layout, buffers
  <2>2. shows[t] \in Buffers
    BY <1>3, ResumedType DEF Ask
  <2>3. JobTypes'
    BY <1>3, <2>2, CurrentType, SpawnTypes DEF Ask, MaySpawn, JobTypes
  <2> QED BY <2>1, <2>3
<1>4. ASSUME NEW t \in Tabs, CancelJobs(t)
      PROVE  TypeOK'
  <2>1. ViewTypes'
    BY <1>4, LoadKeepsTypes DEF CancelJobs, ViewTypes, layout, buffers
  <2>2. JobTypes'
    BY <1>4 DEF CancelJobs, JobTypes, NoSpawn, threads, Cancelled, Current
  <2> QED BY <2>1, <2>2
<1>5. ASSUME NEW t \in Tabs, StopTasks(t)
      PROVE  TypeOK'
  <2>1. ViewTypes'
    BY <1>5 DEF StopTasks, ViewTypes, layout, buffers, views
  <2>2. JobTypes'
    BY <1>5, StoppedForType DEF StopTasks, JobTypes, NoSpawn, threads, JobsType
  <2> QED BY <2>1, <2>2
<1>6. ASSUME NEW t \in Tabs, Bury(t)
      PROVE  TypeOK'
  <2>1. ViewTypes'
    BY <1>6, LoadKeepsTypes DEF Bury, ViewTypes
  <2> QED BY <1>6, <2>1 DEF Bury, JobTypes, jobs, threads, told
<1>7. ASSUME NEW t \in Tabs, Close(t)
      PROVE  TypeOK'
  <2>1. shows[t] \in Buffers
    BY <1>7, ResumedType DEF Close
  <2>2. ViewTypes'
    BY <1>7, <2>1, RemovedType, BecomeTypes DEF Close, ViewTypes
  <2>3. JobTypes'
    BY <1>7, DroppedType DEF Close, JobTypes, NoSpawn, threads, JobsType
  <2> QED BY <2>2, <2>3
<1>8. ASSUME NEW t \in Tabs, Kill(t)
      PROVE  TypeOK'
  <2>1. shows[t] \in Buffers
    BY <1>8, ResumedType DEF Kill
  <2>2. ViewTypes'
    BY <1>8, <2>1, RemovedType, BecomeTypes DEF Kill, ViewTypes
  <2>3. HandedTo(Views(shows[t]), t) \in Seq(Answers)
    BY HandedToType DEF JobTypes
  <2>4. JobTypes'
    BY <1>8, <2>3 DEF Kill, JobTypes, NoSpawn, threads, Cancelled, Current
  <2> QED BY <2>2, <2>4
<1>9. ASSUME NEW t \in Tabs, Show(t)
      PROVE  TypeOK'
  <2>1. IsOpen(t)
    BY <1>9 DEF Show, BuriedAreEditors
  <2>2. ViewTypes'
    BY <1>9, <2>1, LoadKeepsTypes DEF Show, ViewTypes
  <2>3. shows[t] \in Buffers
    BY <2>1, ResumedType
  <2>4. JobTypes'
    BY <1>9, <2>3, CurrentType, SpawnTypes DEF Show, JobTypes
  <2> QED BY <2>2, <2>4
<1>10. ASSUME NEW t \in Tabs, Replace(t)
       PROVE  TypeOK'
  <2>1. shows[t] \in Buffers /\ nextBuffer \in Buffers
    BY <1>10, ResumedType, Numbers DEF Replace, Insert, ViewTypes
  <2>2. ViewTypes'
    BY <1>10, <2>1, RemovedType, InsertTypes DEF Replace, ViewTypes, Kinds
  <2>3. JobTypes'
    BY <1>10, <2>1, DroppedType, SpawnTypes DEF Replace, JobTypes
  <2> QED BY <2>2, <2>3
<1>11. ASSUME NEW t \in Tabs, NEW p \in Places, Move(t, p)
       PROVE  TypeOK'
  <2>1. ViewTypes'
    BY <1>11, LoadAtTypes DEF Move, ViewTypes, layout, buffers
  <2> QED BY <1>11, <2>1 DEF Move, JobTypes, jobs, threads, told
<1>12. ASSUME NEW i \in Asks, Work(i) \/ Panic(i)
       PROVE  TypeOK'
  <2>1. ViewTypes'
    BY <1>12 DEF Work, Panic, ViewTypes, layout, buffers, views
  <2>2. rx' \in Seq(Asks)
    <3>1. rx \in Seq(Asks) /\ (rx' = rx \/ rx' = Append(rx, i))
      BY <1>12 DEF Work, Panic, JobTypes
    <3> QED BY <3>1, AppendProperties
  <2>3. JobTypes'
    BY <1>12, <2>2 DEF Work, Panic, JobTypes, jobs, told
  <2> QED BY <2>1, <2>3
<1>13. CASE Drain
  <2>1. ViewTypes'
    BY <1>13 DEF Drain, ViewTypes, layout, buffers, views
  <2> QED BY <1>13, <2>1, DrainTypes
<1>14. CASE Deliver
  <2> DEFINE t == Head(batch).tab
             i == Head(batch).ask
             j == [Current EXCEPT !.fate[i] = "heard"]
  <2>1. t \in Tabs /\ i \in Asks /\ IsOpen(t) /\ Tail(batch) \in Seq(Answers)
    BY <1>14, InBatch DEF Deliver, HasTab
  <2>2. Load(t) /\ MaySpawn(t, shows[t], j) /\ UNCHANGED <<layout, buffers>>
        /\ batch' = Tail(batch)
    BY <1>14 DEF Deliver
  <2>3. JobsType(j.running, j.refused, j.stop, j.fate)
    BY <2>1 DEF JobTypes, JobsType, Current
  <2> HIDE DEF t, i, j
  <2>4. ViewTypes'
    BY <2>1, <2>2, LoadKeepsTypes DEF ViewTypes, layout, buffers
  <2>5. shows[t] \in Buffers
    BY <2>1, ResumedType
  <2>6. JobTypes'
    BY <2>1, <2>2, <2>3, <2>5, SpawnTypes
  <2> QED BY <2>4, <2>6
<1>15. CASE Skip
  <2>1. Tail(batch) \in Seq(Answers)
    BY <1>15, InBatch DEF Skip
  <2>2. ViewTypes'
    BY <1>15 DEF Skip, ViewTypes, layout, buffers, views
  <2> QED BY <1>15, <2>1, <2>2 DEF Skip, JobTypes, jobs, threads, told
<1>16. CASE UNCHANGED vars
  <2>1. ViewTypes'
    BY <1>16 DEF vars, ViewTypes, layout, buffers, views
  <2> QED BY <1>16, <2>1 DEF vars, JobTypes, jobs, threads, told
<1> QED BY <1>1, <1>2, <1>3, <1>4, <1>5, <1>6, <1>7, <1>8, <1>9, <1>10, <1>11,
           <1>12, <1>13, <1>14, <1>15, <1>16 DEF Next

-------------------------------------------------------------------------------
(* Every action keeps what is known of jobs. *)

LEMMA OpenKeepsJobs ==
  ASSUME IInv, TypeOK', NEW k \in Kinds, Open(k)
  PROVE  JobInv'
<1>1. /\ nextTab \in Tabs /\ nextBuffer \in Buffers /\ nextTab \in Nat /\ nextBuffer \in Nat
      /\ nextTab' = nextTab + 1 /\ nextBuffer' = nextBuffer + 1
      /\ shows' = [shows EXCEPT ![nextTab] = nextBuffer]
      /\ kind' = [kind EXCEPT ![nextBuffer] = k]
      /\ batch' = batch /\ AtRest
  BY Numbers DEF IInv, TypeOK, Open, Insert, ViewTypes, Become, AsTheyAre
<1>2. /\ shows' \in [Tabs -> Buffers \cup {None}] /\ nextTab' \in Nat /\ nextBuffer' \in Nat
      /\ kind'[nextBuffer] = k /\ \A b \in Buffers : b # nextBuffer => kind'[b] = kind[b]
      /\ shows'[nextTab] = nextBuffer
  BY <1>1 DEF IInv, TypeOK, ViewTypes
<1>3. Amends(shows', kind', nextTab', nextBuffer', running, refused, fate)
  BY <1>1, <1>2, GrowthAmends DEF IInv
<1>4. JobsOK(shows', kind', nextTab', nextBuffer', running, refused, fate, batch')
  BY <1>1, <1>2, <1>3, AmendsKeeps DEF IInv
<1>5. CASE NoSpawn(Current)
  BY <1>4, <1>5, CurrentIs, NoSpawnKeeps
<1>6. CASE k # "launcher" /\ Spawn(nextTab, nextBuffer, Current)
  <2>1. /\ kind'[nextBuffer] = "editor" /\ nextTab < nextTab' /\ nextBuffer < nextBuffer'
        /\ MaySpawn(nextTab, nextBuffer, Current)
    BY <1>1, <1>2, <1>6 DEF Kinds, MaySpawn
  <2> QED BY <1>1, <1>2, <1>4, <2>1, CurrentIs, CurrentType, SpawnKeeps DEF IInv, TypeOK
<1> QED BY <1>5, <1>6 DEF Open

LEMMA AddViewKeepsJobs ==
  ASSUME IInv, TypeOK', NEW t \in Tabs, AddView(t)
  PROVE  JobInv'
<1>1. /\ nextTab \in Tabs /\ nextTab \in Nat /\ nextBuffer \in Nat /\ shows[t] \in Buffers
      /\ nextTab' = nextTab + 1 /\ nextBuffer' = nextBuffer /\ kind' = kind
      /\ shows' = [shows EXCEPT ![nextTab] = shows[t]]
      /\ batch' = batch /\ AtRest /\ running' = running /\ refused' = refused
      /\ fate' = fate /\ nextAsk' = nextAsk /\ worker' = worker /\ rx' = rx /\ asker' = asker
  BY Numbers, ResumedType DEF IInv, TypeOK, AddView, ViewTypes, buffers, jobs, threads, told
<1>2. shows' \in [Tabs -> Buffers \cup {None}] /\ nextTab' \in Nat /\ nextBuffer' \in Nat
  BY <1>1 DEF IInv, TypeOK, ViewTypes
<1>3. Amends(shows', kind', nextTab', nextBuffer', running, refused, fate)
  BY <1>1, GrowthAmends DEF IInv
<1>4. JobsOK(shows', kind', nextTab', nextBuffer', running, refused, fate, batch')
  BY <1>1, <1>2, <1>3, AmendsKeeps DEF IInv
<1>5. Arrived' = Arrived
  BY <1>1 DEF Arrived
<1> QED BY <1>1, <1>4, <1>5 DEF JobInv, JobsOK, RunningOK, RefusedOK, BatchOK, RxOK, AsksOK,
                               HeldOK

(* With the tabs as they are, before a request. *)
LEMMA StaysKeeps ==
  ASSUME IInv, AtRest, UNCHANGED <<shows, kind, nextTab, nextBuffer, batch>>
  PROVE  JobsOK(shows', kind', nextTab', nextBuffer', running, refused, fate, batch')
BY DEF IInv, JobInv

LEMMA AskOrShowKeepsJobs ==
  ASSUME IInv, TypeOK', NEW t \in Tabs, Ask(t) \/ Show(t)
  PROVE  JobInv'
<1>1. /\ UNCHANGED <<shows, kind, nextTab, nextBuffer, batch>> /\ AtRest
      /\ MaySpawn(t, shows[t], Current)
  BY DEF Ask, Show, layout, buffers, MaySpawn
<1>2. IsOpen(t) /\ kind[shows[t]] = "editor" /\ shows[t] \in Buffers
  <2>1. IsOpen(t)
    BY DEF Ask, Show, IInv, ViewInv, BuriedAreEditors
  <2>2. shows[t] \in Buffers
    BY <2>1, ResumedType DEF IInv, TypeOK
  <2>3. kind[shows[t]] \in Kinds
    BY <2>2 DEF IInv, TypeOK, ViewTypes
  <2> QED BY <2>1, <2>2, <2>3 DEF Ask, Show, IInv, ViewInv, BuriedAreEditors, Kinds
<1>3. t < nextTab' /\ shows[t] < nextBuffer' /\ shows'[t] = shows[t]
      /\ kind'[shows[t]] = "editor"
  BY <1>1, <1>2, InUse DEF IInv, IsOpen
<1> QED BY <1>1, <1>2, <1>3, StaysKeeps, CurrentIs, CurrentType, SpawnKeeps DEF IInv, TypeOK

LEMMA CancelKeepsJobs ==
  ASSUME IInv, NEW t \in Tabs, CancelJobs(t)
  PROVE  JobInv'
<1> DEFINE ft2 == [i \in Asks |-> IF running[i] = t THEN "cancelled" ELSE fate[i]]
           j == [Cancelled({t}) EXCEPT !.fate = ft2]
<1>1. /\ UNCHANGED <<shows, kind, nextTab, nextBuffer, batch>> /\ AtRest /\ NoSpawn(j)
  BY DEF CancelJobs, layout, buffers
<1>2. j.running = Cancelled({t}).running /\ j.refused = refused /\ j.fate = ft2
  BY DEF Cancelled, Current
<1>3. Amends(shows, kind, nextTab, nextBuffer, Cancelled({t}).running, refused, ft2)
  BY CancelAmends DEF IInv
<1> HIDE DEF j, ft2
<1>4. JobsOK(shows, kind, nextTab, nextBuffer, j.running, j.refused, j.fate, batch)
  BY <1>1, <1>2, <1>3, InUse, AmendsKeeps DEF IInv, TypeOK, ViewTypes
<1> QED BY <1>1, <1>4, NoSpawnKeeps

LEMMA StopKeepsJobs ==
  ASSUME IInv, NEW t \in Tabs, StopTasks(t)
  PROVE  JobInv'
<1>1. /\ UNCHANGED <<shows, kind, nextTab, nextBuffer, batch>> /\ AtRest
      /\ NoSpawn(StoppedFor(t))
  BY DEF StopTasks, layout, buffers
<1>2. StoppedFor(t).running = running /\ StoppedFor(t).refused = refused
      /\ StoppedFor(t).fate = fate
  BY DEF StoppedFor, Current
<1> QED BY <1>1, <1>2, StaysKeeps, NoSpawnKeeps

LEMMA CloseKeepsJobs ==
  ASSUME IInv, TypeOK', NEW t \in Tabs, Close(t)
  PROVE  JobInv'
<1>1. /\ IsOpen(t) /\ shows[t] \in Buffers /\ nextTab' = nextTab /\ nextBuffer' = nextBuffer
      /\ batch' = batch /\ AtRest /\ NoSpawn(Dropped(t))
      /\ shows' = Removed({t}, shows[t]).shows /\ kind' = Removed({t}, shows[t]).kind
  BY ResumedType DEF Close, Become, IInv, TypeOK
<1>2. /\ \A v \in Tabs : shows'[v] = IF v = t THEN None ELSE shows[v]
      /\ \A c \in Buffers : kind'[c] = kind[c] \/ kind'[c] = "editor"
  BY <1>1, RemovedIs DEF IInv
<1>3. Amends(shows', kind', nextTab, nextBuffer,
             Dropped(t).running, Dropped(t).refused, Dropped(t).fate)
  BY <1>1, <1>2, DroppedAmends DEF IInv
<1>4. JobsOK(shows', kind', nextTab, nextBuffer,
             Dropped(t).running, Dropped(t).refused, Dropped(t).fate, batch)
  BY <1>1, <1>3, InUse, AmendsKeeps DEF IInv, TypeOK, ViewTypes
<1> QED BY <1>1, <1>4, NoSpawnKeeps

LEMMA KillKeepsJobs ==
  ASSUME IInv, TypeOK', NEW t \in Tabs, Kill(t)
  PROVE  JobInv'
<1> DEFINE V == Views(shows[t])
           j == [Cancelled(V) EXCEPT !.refused = HandedTo(V, t)]
<1>1. /\ IsOpen(t) /\ shows[t] \in Buffers /\ nextTab' = nextTab /\ nextBuffer' = nextBuffer
      /\ batch' = batch /\ AtRest /\ NoSpawn(j)
      /\ shows' = Removed(V, shows[t]).shows /\ kind' = Removed(V, shows[t]).kind
  BY ResumedType DEF Kill, Become, IInv, TypeOK
<1>2. /\ \A v \in Tabs : shows'[v] = IF v \in V THEN None ELSE shows[v]
      /\ \A c \in Buffers : kind'[c] = kind[c] \/ kind'[c] = "editor"
  BY <1>1, RemovedIs DEF IInv
<1>3. Amends(shows', kind', nextTab, nextBuffer, Cancelled(V).running, HandedTo(V, t), fate)
  BY <1>1, <1>2, KillAmends DEF IInv
<1>4. j.running = Cancelled(V).running /\ j.refused = HandedTo(V, t) /\ j.fate = fate
  BY DEF Cancelled, Current
<1> HIDE DEF j, V
<1>5. JobsOK(shows', kind', nextTab, nextBuffer, j.running, j.refused, j.fate, batch)
  BY <1>1, <1>3, <1>4, InUse, AmendsKeeps DEF IInv, TypeOK, ViewTypes
<1> QED BY <1>1, <1>5, NoSpawnKeeps

(* Nobody asks for a launcher, so there is nothing to hand over with it.      *)
LEMMA LauncherHasNoJobs ==
  ASSUME IInv, NEW t \in Tabs, IsOpen(t), kind[shows[t]] = "launcher"
  PROVE  /\ \A i \in Asks : running[i] # t
         /\ \A k \in DOMAIN refused : refused[k].tab # t
<1>1. /\ RunningOK(shows, running, fate) /\ RefusedOK(shows, nextTab, running, refused, fate)
      /\ AsksOK(shows, kind, nextBuffer, fate)
  BY DEF IInv, JobInv, JobsOK
<1>2. t # None /\ shows[t] # None
  BY Numbers DEF IsOpen
<1>3. \A k \in DOMAIN refused : refused[k].ask \in Asks
  BY InUse DEF IInv
<1>4. \A i \in Asks : i < nextAsk => shows[t] # asker[i]
  BY <1>1 DEF AsksOK
<1>5. \A i \in Asks : running[i] # t
  BY <1>1, <1>2, <1>4 DEF RunningOK
<1>6. \A k \in DOMAIN refused : refused[k].tab # t
  BY <1>1, <1>2, <1>3, <1>4 DEF RefusedOK
<1> QED BY <1>5, <1>6

LEMMA DroppedIs ==
  ASSUME IInv, NEW t \in Tabs, IsOpen(t), kind[shows[t]] = "launcher"
  PROVE  /\ \A i \in Asks : Dropped(t).running[i] = running[i]
         /\ DOMAIN Dropped(t).refused = DOMAIN refused
         /\ \A k \in DOMAIN refused :
              /\ Dropped(t).refused[k].ask = refused[k].ask
              /\ Dropped(t).refused[k].tab = refused[k].tab
         /\ Dropped(t).fate = fate
<1>1. /\ \A i \in Asks : running[i] # t
      /\ \A k \in DOMAIN refused : refused[k].tab # t
  BY LauncherHasNoJobs
<1>2. CASE OtherViews(t) = {}
  <2>1. Dropped(t) = Cancelled({t})
    BY <1>2 DEF Dropped
  <2>2. \A i \in Asks : Cancelled({t}).running[i] = running[i]
    BY <1>1, CancelledIs
  <2>3. Cancelled({t}).refused = refused /\ Cancelled({t}).fate = fate
    BY CancelledIs
  <2> QED BY <2>1, <2>2, <2>3
<1>3. CASE OtherViews(t) # {}
  <2> DEFINE u == LowestOther(t)
  <2>1. Dropped(t) = HandedOver(t, u)
    BY <1>3 DEF Dropped
  <2>2. u \in Tabs
    BY <1>3, OthersAreTabs DEF IInv, TypeOK
  <2> HIDE DEF u
  <2>3. HandedOver(t, u).running = [i \in Asks |-> IF running[i] = t THEN u ELSE running[i]]
        /\ HandedOver(t, u).refused = HandedTo({t}, u) /\ HandedOver(t, u).fate = fate
    BY DEF HandedOver, Current
  <2>4. \A i \in Asks : HandedOver(t, u).running[i] = running[i]
    BY <1>1, <2>3
  <2>5. /\ DOMAIN HandedTo({t}, u) = DOMAIN refused
        /\ \A k \in DOMAIN refused :
             /\ HandedTo({t}, u)[k].ask = refused[k].ask
             /\ HandedTo({t}, u)[k].tab = refused[k].tab
    BY <1>1, <2>2, HandedToIs DEF IInv, TypeOK
  <2> QED BY <2>1, <2>3, <2>4, <2>5
<1> QED BY <1>2, <1>3

LEMMA ReplaceKeepsJobs ==
  ASSUME IInv, TypeOK', NEW t \in Tabs, Replace(t)
  PROVE  JobInv'
<1>1. /\ IsOpen(t) /\ kind[shows[t]] = "launcher" /\ shows[t] \in Buffers
      /\ nextBuffer \in Buffers /\ nextTab' = nextTab /\ nextBuffer' = nextBuffer + 1
      /\ batch' = batch /\ AtRest /\ MaySpawn(t, nextBuffer, Dropped(t))
      /\ shows' = [Removed({t}, shows[t]).shows EXCEPT ![t] = nextBuffer]
      /\ kind' = [Removed({t}, shows[t]).kind EXCEPT ![nextBuffer] = "editor"]
  BY ResumedType, Numbers DEF Replace, Insert, Become, IInv, TypeOK, ViewTypes
<1>2. ObjectsType(Removed({t}, shows[t]))
  BY <1>1, RemovedType DEF IInv, TypeOK
<1> DEFINE o == Removed({t}, shows[t])
<1>3. /\ \A v \in Tabs : v # t => o.shows[v] = shows[v]
      /\ \A c \in Buffers : o.kind[c] = kind[c] \/ o.kind[c] = "editor"
  BY <1>1, RemovedIs DEF IInv
<1> HIDE DEF o
<1>4. /\ \A v \in Tabs : shows'[v] = IF v = t THEN nextBuffer ELSE shows[v]
      /\ \A c \in Buffers : kind'[c] = kind[c] \/ kind'[c] = "editor"
      /\ kind'[nextBuffer] = "editor"
  BY <1>1, <1>2, <1>3 DEF o, ObjectsType
<1>5. /\ \A i \in Asks : running[i] # t
      /\ \A k \in DOMAIN refused : refused[k].tab # t
  BY <1>1, LauncherHasNoJobs
<1>6. /\ nextTab \in Nat /\ nextBuffer \in Nat /\ nextTab >= nextTab
      /\ nextBuffer' >= nextBuffer /\ t < nextTab
  BY <1>1, InUse DEF IInv, IsOpen
<1> DEFINE j == Dropped(t)
<1>7. /\ \A i \in Asks : j.running[i] = running[i]
      /\ DOMAIN j.refused = DOMAIN refused
      /\ \A k \in DOMAIN refused :
           j.refused[k].ask = refused[k].ask /\ j.refused[k].tab = refused[k].tab
      /\ j.fate = fate
  BY <1>1, DroppedIs
<1>8. JobsType(j.running, j.refused, j.stop, j.fate)
  BY DroppedType DEF IInv, TypeOK
<1> HIDE DEF j
<1>9. ASSUME NEW i \in Asks, running[i] # None
      PROVE  running[i] \in Tabs /\ shows'[running[i]] = shows[running[i]]
  BY <1>4, <1>5, <1>9, InUse DEF IInv
<1>10. ASSUME NEW k \in DOMAIN refused
       PROVE  /\ refused[k].tab # None /\ refused[k].tab < nextTab
              /\ shows'[refused[k].tab] = shows[refused[k].tab]
  BY <1>4, <1>5, InUse, Numbers DEF IInv
<1>11. \A v \in Tabs : \/ shows'[v] = None \/ shows'[v] >= nextBuffer
                       \/ \E w \in Tabs : shows'[v] = shows[w]
  BY <1>4, <1>6
<1>12. Amends(shows', kind', nextTab, nextBuffer', j.running, j.refused, j.fate)
  BY <1>4, <1>6, <1>7, <1>9, <1>10, <1>11 DEF Amends
<1>13. shows' \in [Tabs -> Buffers \cup {None}] /\ nextBuffer' \in Nat
  BY Numbers DEF TypeOK, ViewTypes
<1>14. JobsOK(shows', kind', nextTab, nextBuffer', j.running, j.refused, j.fate, batch)
  <2>1. AtRest /\ TypeOK /\ JobInv
    BY <1>1 DEF IInv
  <2> QED BY <1>6, <1>12, <1>13, <2>1, AmendsKeeps
<1>15. shows'[t] = nextBuffer /\ nextBuffer < nextBuffer'
  <2>1. shows'[t] = nextBuffer
    BY <1>4
  <2>2. nextBuffer' = nextBuffer + 1 /\ nextBuffer \in Nat
    BY <1>1, <1>6
  <2> QED BY <2>1, <2>2
<1>16. MaySpawn(t, nextBuffer, j)
  BY <1>1 DEF j
<1> QED BY <1>1, <1>4, <1>6, <1>8, <1>14, <1>15, <1>16, SpawnKeeps DEF IInv, TypeOK

(* The head of the batch taken, whether it is handed out or not.              *)
LEMMA TailKeeps ==
  ASSUME IInv, batch # << >>, NEW ft2,
         LET i == Head(batch).ask IN
           \/ ft2 = [fate EXCEPT ![i] = "heard"]
           \/ ~HasTab(Head(batch)) /\ ft2 = fate
  PROVE  JobsOK(shows, kind, nextTab, nextBuffer, running, refused, ft2, Tail(batch))
<1> DEFINE i == Head(batch).ask
           bt == Tail(batch)
<1>1. /\ RunningOK(shows, running, fate) /\ RefusedOK(shows, nextTab, running, refused, fate)
      /\ BatchOK(shows, nextTab, running, refused, fate, batch)
      /\ RxOK /\ AsksOK(shows, kind, nextBuffer, fate)
      /\ HeldOK(shows, running, refused, fate, batch)
  BY DEF IInv, JobInv, JobsOK
<1>2. /\ 1 \in DOMAIN batch /\ Head(batch) = batch[1] /\ i \in Asks /\ i = batch[1].ask
      /\ Head(batch).tab \in Tabs \cup {None}
      /\ Len(batch) \in Nat /\ DOMAIN batch = 1..Len(batch) /\ DOMAIN bt = 1..(Len(batch) - 1)
      /\ \A k \in DOMAIN bt : k + 1 \in DOMAIN batch /\ bt[k] = batch[k + 1]
  BY InBatch DEF IInv, TypeOK
<1>3. /\ i < nextAsk /\ running[i] = None
      /\ \A l \in DOMAIN refused : refused[l].ask # i
  BY <1>1, <1>2 DEF BatchOK
<1>4. /\ \A x \in Asks : x # i => ft2[x] = fate[x]
      /\ ft2[i] = "heard" \/ (~HasTab(batch[1]) /\ ft2[i] = fate[i])
      /\ \A x \in Asks : ft2[x] = "open" => fate[x] = "open"
  BY <1>2 DEF IInv, TypeOK, JobTypes
<1>5. \A k \in DOMAIN batch : batch[k].ask \in Asks
  BY AnswerTypes DEF IInv, TypeOK, JobTypes
<1>6. \A l \in DOMAIN refused : refused[l].ask \in Asks
  BY InUse DEF IInv
<1> HIDE DEF i, bt
<1>7. \A k \in DOMAIN bt : bt[k].ask # i /\ bt[k].ask \in Asks
  <2> SUFFICES ASSUME NEW k \in DOMAIN bt
               PROVE  bt[k].ask # i /\ bt[k].ask \in Asks
    OBVIOUS
  <2>1. k + 1 # 1 /\ k + 1 \in DOMAIN batch /\ bt[k] = batch[k + 1]
    BY <1>2
  <2>2. batch[k + 1].ask # batch[1].ask
    BY <1>1, <1>2, <2>1 DEF BatchOK
  <2> QED BY <1>2, <1>5, <2>1, <2>2
<1>8. RunningOK(shows, running, ft2)
  BY <1>1, <1>3, <1>4 DEF RunningOK
<1>9. RefusedOK(shows, nextTab, running, refused, ft2)
  BY <1>1, <1>3, <1>4, <1>6 DEF RefusedOK
<1>10. BatchOK(shows, nextTab, running, refused, ft2, bt)
  <2>1. ASSUME NEW k \in DOMAIN bt
        PROVE  /\ bt[k].ask < nextAsk /\ worker[bt[k].ask] \in {"none", "sent"}
               /\ running[bt[k].ask] = None /\ bt[k].ask \notin Arrived
               /\ \A l \in DOMAIN refused : refused[l].ask # bt[k].ask
               /\ bt[k].tab # None =>
                    /\ bt[k].tab < nextTab /\ ft2[bt[k].ask] = "open"
                    /\ shows[bt[k].tab] # None => shows[bt[k].tab] = asker[bt[k].ask]
    <3>1. k + 1 \in DOMAIN batch /\ bt[k] = batch[k + 1]
      BY <1>2
    <3>2. /\ bt[k].ask < nextAsk /\ worker[bt[k].ask] \in {"none", "sent"}
          /\ running[bt[k].ask] = None /\ bt[k].ask \notin Arrived
          /\ \A l \in DOMAIN refused : refused[l].ask # bt[k].ask
          /\ bt[k].tab # None =>
               /\ bt[k].tab < nextTab /\ fate[bt[k].ask] = "open"
               /\ shows[bt[k].tab] # None => shows[bt[k].tab] = asker[bt[k].ask]
      BY <1>1, <3>1 DEF BatchOK
    <3>3. ft2[bt[k].ask] = fate[bt[k].ask]
      BY <1>4, <1>7
    <3> QED BY <3>2, <3>3
  <2>2. \A k, l \in DOMAIN bt : bt[k].ask = bt[l].ask => k = l
    <3> SUFFICES ASSUME NEW k \in DOMAIN bt, NEW l \in DOMAIN bt, bt[k].ask = bt[l].ask
                 PROVE  k = l
      OBVIOUS
    <3>1. /\ k + 1 \in DOMAIN batch /\ bt[k] = batch[k + 1]
          /\ l + 1 \in DOMAIN batch /\ bt[l] = batch[l + 1]
      BY <1>2
    <3>2. k + 1 = l + 1
      BY <1>1, <3>1 DEF BatchOK
    <3> QED BY <1>2, <3>2
  <2> QED BY <2>1, <2>2 DEF BatchOK
<1>11. AsksOK(shows, kind, nextBuffer, ft2)
  BY <1>1, <1>3, <1>4, Numbers DEF AsksOK, IInv, TypeOK, JobTypes
<1>12. HeldOK(shows, running, refused, ft2, bt)
  <2> SUFFICES ASSUME NEW x \in Asks, ft2[x] = "open",
                      \E t \in Tabs : shows[t] = asker[x], running[x] = None,
                      ~ \E k \in DOMAIN refused :
                          refused[k].ask = x /\ shows[refused[k].tab] = asker[x]
               PROVE  \E k \in DOMAIN bt :
                        bt[k].ask = x /\ bt[k].tab # None /\ shows[bt[k].tab] = asker[x]
    BY DEF HeldOK
  <2>1. fate[x] = "open"
    BY <1>4
  <2>2. PICK k \in DOMAIN batch :
          batch[k].ask = x /\ batch[k].tab # None /\ shows[batch[k].tab] = asker[x]
    BY <1>1, <2>1 DEF HeldOK
  <2>3. asker[x] # None
    <3>1. ~ (x >= nextAsk)
      BY <1>1, <2>1 DEF AsksOK
    <3>2. x < nextAsk
      BY <3>1, Numbers DEF IInv, TypeOK, JobTypes
    <3> QED BY <1>1, <3>2, Numbers DEF AsksOK
  <2>4. k # 1
    <3> SUFFICES ASSUME k = 1 PROVE FALSE
      OBVIOUS
    <3>1. x = i /\ HasTab(batch[1])
      BY <1>2, <2>2, <2>3 DEF HasTab, IsOpen
    <3> QED BY <1>4, <3>1
  <2>5. k - 1 \in DOMAIN bt /\ bt[k - 1] = batch[k]
    <3>1. k - 1 \in DOMAIN bt /\ (k - 1) + 1 = k
      BY <1>2, <2>4
    <3> QED BY <1>2, <3>1
  <2> QED BY <2>2, <2>5
<1> QED BY <1>1, <1>8, <1>9, <1>10, <1>11, <1>12 DEF JobsOK, bt

LEMMA DeliverKeepsJobs ==
  ASSUME IInv, TypeOK', Deliver
  PROVE  JobInv'
<1> DEFINE t == Head(batch).tab
           i == Head(batch).ask
           j == [Current EXCEPT !.fate[i] = "heard"]
<1>1. /\ t \in Tabs /\ i \in Asks /\ IsOpen(t) /\ t # None
      /\ 1 \in DOMAIN batch /\ Head(batch) = batch[1]
  BY InBatch, Numbers DEF Deliver, HasTab, IInv, TypeOK
<1>2. /\ MaySpawn(t, shows[t], j) /\ UNCHANGED <<shows, nextTab, kind, nextBuffer>>
      /\ batch' = Tail(batch) /\ batch # << >>
  BY DEF Deliver, layout, buffers
<1>3. /\ j.running = running /\ j.refused = refused /\ j.stop = stop
      /\ j.fate = [fate EXCEPT ![i] = "heard"]
  BY DEF Current
<1>4. JobsType(j.running, j.refused, j.stop, j.fate)
  <2>1. /\ running \in [Asks -> Tabs \cup {None}] /\ stop \in [Asks -> BOOLEAN]
        /\ refused \in Seq(Answers)
        /\ fate \in [Asks -> {"unasked", "open", "heard", "cancelled"}]
    BY DEF IInv, TypeOK, JobTypes
  <2> HIDE DEF i, j
  <2>2. [fate EXCEPT ![i] = "heard"] \in [Asks -> {"unasked", "open", "heard", "cancelled"}]
    BY <2>1
  <2> QED BY <1>3, <2>1, <2>2 DEF JobsType
<1>5. JobsOK(shows, kind, nextTab, nextBuffer, running, refused,
             [fate EXCEPT ![i] = "heard"], Tail(batch))
  BY <1>2, TailKeeps
<1>6. JobsOK(shows', kind', nextTab', nextBuffer', j.running, j.refused, j.fate, batch')
  <2> HIDE DEF j, t, i
  <2> QED BY <1>2, <1>3, <1>5
<1>7. kind[shows[t]] = "editor"
  <2>1. BatchOK(shows, nextTab, running, refused, fate, batch)
        /\ AsksOK(shows, kind, nextBuffer, fate)
    BY DEF IInv, JobInv, JobsOK
  <2>2. i < nextAsk /\ shows[t] = asker[i]
    BY <1>1, <2>1 DEF BatchOK, IsOpen
  <2> QED BY <1>1, <2>1, <2>2 DEF AsksOK
<1>8. shows[t] \in Buffers /\ t < nextTab /\ shows[t] < nextBuffer
  BY <1>1, InUse DEF IInv, IsOpen
<1> HIDE DEF j, t, i
<1> QED BY <1>1, <1>2, <1>4, <1>6, <1>7, <1>8, SpawnKeeps DEF IInv, TypeOK

LEMMA SkipKeepsJobs ==
  ASSUME IInv, Skip
  PROVE  JobInv'
<1>1. /\ UNCHANGED <<shows, nextTab, kind, nextBuffer, running, refused, nextAsk, worker, rx,
                     asker, fate>>
      /\ batch' = Tail(batch) /\ batch # << >> /\ ~HasTab(Head(batch))
  BY DEF Skip, layout, buffers, jobs, threads, told
<1>2. JobsOK(shows, kind, nextTab, nextBuffer, running, refused, fate, Tail(batch))
  BY <1>1, TailKeeps
<1>3. Arrived' = Arrived
  BY <1>1 DEF Arrived
<1> QED BY <1>1, <1>2, <1>3 DEF JobInv, JobsOK, RunningOK, RefusedOK, BatchOK, RxOK, AsksOK,
                               HeldOK

LEMMA WorkerKeepsJobs ==
  ASSUME IInv, NEW i \in Asks, Work(i) \/ Panic(i)
  PROVE  JobInv'
<1>1. /\ RunningOK(shows, running, fate) /\ RefusedOK(shows, nextTab, running, refused, fate)
      /\ BatchOK(shows, nextTab, running, refused, fate, batch)
      /\ RxOK /\ AsksOK(shows, kind, nextBuffer, fate)
      /\ HeldOK(shows, running, refused, fate, batch)
  BY DEF IInv, JobInv, JobsOK
<1>2. /\ UNCHANGED <<shows, nextTab, kind, nextBuffer, running, refused, nextAsk, batch,
                     asker, fate>>
      /\ worker[i] = "works" /\ worker'[i] \in {"sent", "dead"}
      /\ \A x \in Asks : x # i => worker'[x] = worker[x]
      /\ \/ rx' = Append(rx, i) /\ worker'[i] = "sent"
         \/ rx' = rx /\ worker'[i] = "dead"
  BY DEF Work, Panic, layout, buffers, jobs, told, IInv, TypeOK, JobTypes
<1>3. i < nextAsk
  <2>1. ~ (i >= nextAsk)
    BY <1>1, <1>2 DEF AsksOK
  <2> QED BY <2>1, Numbers DEF IInv, TypeOK, JobTypes
<1>4. /\ DOMAIN rx = 1..Len(rx) /\ Len(rx) \in Nat /\ rx \in Seq(Asks)
      /\ \A k \in DOMAIN rx : rx[k] \in Asks /\ rx[k] # i
  <2>1. rx \in Seq(Asks) /\ DOMAIN rx = 1..Len(rx) /\ Len(rx) \in Nat
    BY LenProperties DEF IInv, TypeOK, JobTypes
  <2>2. \A k \in 1..Len(rx) : rx[k] \in Asks
    BY <2>1, ElementOfSeq
  <2> QED BY <1>1, <1>2, <2>1, <2>2 DEF RxOK
<1>5. /\ \A x \in Asks : x # i => (x \in Arrived' <=> x \in Arrived)
      /\ worker'[i] = "sent" => i \in Arrived'
  <2>1. CASE rx' = rx /\ worker'[i] = "dead"
    BY <2>1 DEF Arrived
  <2>2. CASE rx' = Append(rx, i) /\ worker'[i] = "sent"
    <3>1. /\ DOMAIN rx' = 1..(Len(rx) + 1) /\ rx'[Len(rx) + 1] = i
          /\ \A k \in 1..Len(rx) : rx'[k] = rx[k]
      BY <1>4, <2>2, AppendProperties, LenProperties
    <3> QED BY <1>4, <3>1 DEF Arrived
  <2> QED BY <1>2, <2>1, <2>2
<1>6. RxOK'
  <2>1. CASE rx' = rx /\ worker'[i] = "dead"
    BY <1>1, <1>2, <1>4, <2>1 DEF RxOK
  <2>2. CASE rx' = Append(rx, i) /\ worker'[i] = "sent"
    <3>1. /\ DOMAIN rx' = 1..(Len(rx) + 1) /\ rx'[Len(rx) + 1] = i
          /\ \A k \in 1..Len(rx) : rx'[k] = rx[k]
      BY <1>4, <2>2, AppendProperties, LenProperties
    <3>2. \A k \in 1..(Len(rx) + 1) : k \in 1..Len(rx) \/ k = Len(rx) + 1
      BY <1>4
    <3>3. \A k \in DOMAIN rx' : worker'[rx'[k]] = "sent" /\ rx'[k] < nextAsk'
      BY <1>1, <1>2, <1>3, <1>4, <2>2, <3>1, <3>2 DEF RxOK
    <3>4. \A k, l \in DOMAIN rx' : rx'[k] = rx'[l] => k = l
      BY <1>1, <1>4, <3>1, <3>2 DEF RxOK
    <3> QED BY <3>3, <3>4 DEF RxOK
  <2> QED BY <1>2, <2>1, <2>2
<1>7. \A k \in DOMAIN refused : refused[k].ask \in Asks /\ refused[k].ask # i
  BY <1>1, <1>2, InUse DEF IInv, RefusedOK
<1>8. \A k \in DOMAIN batch : batch[k].ask \in Asks /\ batch[k].ask # i
  <2>1. \A k \in DOMAIN batch : batch[k].ask \in Asks
    BY AnswerTypes DEF IInv, TypeOK, JobTypes
  <2> QED BY <1>1, <1>2, <2>1 DEF BatchOK
<1>9. RunningOK(shows, running, fate)'
  BY <1>1, <1>2, <1>5 DEF RunningOK
<1>10. RefusedOK(shows, nextTab, running, refused, fate)'
  BY <1>1, <1>2, <1>7 DEF RefusedOK
<1>11. BatchOK(shows, nextTab, running, refused, fate, batch)'
  BY <1>1, <1>2, <1>5, <1>8 DEF BatchOK
<1>12. AsksOK(shows, kind, nextBuffer, fate)'
  BY <1>1, <1>2, <1>3, Numbers DEF AsksOK, IInv, TypeOK, JobTypes
<1>13. HeldOK(shows, running, refused, fate, batch)'
  BY <1>1, <1>2 DEF HeldOK
<1> QED BY <1>6, <1>9, <1>10, <1>11, <1>12, <1>13 DEF JobInv, JobsOK

(* What drain puts together. *)
LEMMA DrainIs ==
  ASSUME JobTypes, Drain
  PROVE  /\ Len(refused) \in Nat /\ DOMAIN refused = 1..Len(refused)
         /\ Len(rx) \in Nat /\ DOMAIN rx = 1..Len(rx)
         /\ \A k \in DOMAIN rx : rx[k] \in Asks /\ rx[k] \in Arrived
         /\ DOMAIN batch' = 1..(Len(refused) + Len(rx))
         /\ \A k \in DOMAIN refused : batch'[k] = refused[k]
         /\ \A k \in DOMAIN rx :
              batch'[Len(refused) + k] = [tab |-> running[rx[k]], ask |-> rx[k]]
<1> DEFINE s == [k \in DOMAIN rx |-> [tab |-> running[rx[k]], ask |-> rx[k]]]
<1>1. /\ DOMAIN rx = 1..Len(rx) /\ Len(rx) \in Nat /\ \A k \in 1..Len(rx) : rx[k] \in Asks
      /\ DOMAIN refused = 1..Len(refused) /\ Len(refused) \in Nat /\ refused \in Seq(Answers)
  BY LenProperties, ElementOfSeq DEF JobTypes
<1>2. s \in Seq(Answers) /\ Len(s) = Len(rx)
  <2>1. \A k \in 1..Len(rx) : [tab |-> running[rx[k]], ask |-> rx[k]] \in Answers
    BY <1>1 DEF JobTypes, Answers
  <2>2. s \in [1..Len(rx) -> Answers]
    BY <1>1, <2>1
  <2> HIDE DEF s
  <2>3. s \in Seq(Answers)
    BY <1>1, <2>2, SeqDef
  <2>4. DOMAIN s = 1..Len(s) /\ DOMAIN s = 1..Len(rx) /\ Len(s) \in Nat
    BY <2>2, <2>3, LenProperties
  <2>5. ASSUME NEW a \in Nat, NEW b \in Nat, 1..a = 1..b
        PROVE  a = b
    <3>1. ~ (a < b)
      <4> SUFFICES ASSUME a < b PROVE FALSE
        OBVIOUS
      <4>1. b \in 1..b /\ b \notin 1..a
        OBVIOUS
      <4> QED BY <2>5, <4>1
    <3>2. ~ (b < a)
      <4> SUFFICES ASSUME b < a PROVE FALSE
        OBVIOUS
      <4>1. a \in 1..a /\ a \notin 1..b
        OBVIOUS
      <4> QED BY <2>5, <4>1
    <3> QED BY <3>1, <3>2
  <2>6. 1..Len(s) = 1..Len(rx)
    BY <2>4
  <2>7. Len(s) = Len(rx)
    BY <1>1, <2>4, <2>5, <2>6
  <2> QED BY <2>3, <2>7
<1>3. batch' = refused \o s
  BY DEF Drain
<1>4. \A k \in DOMAIN rx : s[k] = [tab |-> running[rx[k]], ask |-> rx[k]]
  OBVIOUS
<1> HIDE DEF s
<1>5. /\ batch' \in Seq(Answers) /\ Len(batch') = Len(refused) + Len(rx)
      /\ \A k \in 1..(Len(refused) + Len(rx)) :
           batch'[k] = IF k <= Len(refused) THEN refused[k] ELSE s[k - Len(refused)]
  <2>1. refused \in Seq(Answers) /\ s \in Seq(Answers)
    BY <1>1, <1>2
  <2>2. /\ refused \o s \in Seq(Answers) /\ Len(refused \o s) = Len(refused) + Len(s)
        /\ \A k \in 1..(Len(refused) + Len(s)) :
             (refused \o s)[k] = IF k <= Len(refused) THEN refused[k] ELSE s[k - Len(refused)]
    BY <2>1, ConcatProperties, Zenon
  <2>3. Len(s) = Len(rx)
    BY <1>2
  <2> HIDE <1>1, <1>2
  <2> QED BY <1>3, <2>2, <2>3, Zenon
<1>6. DOMAIN batch' = 1..(Len(refused) + Len(rx))
  BY <1>5, LenProperties
<1>7. \A k \in DOMAIN refused : batch'[k] = refused[k]
  BY <1>1, <1>5
<1>8. ASSUME NEW k \in DOMAIN rx
      PROVE  batch'[Len(refused) + k] = s[k]
  <2>1. /\ Len(refused) + k \in 1..(Len(refused) + Len(rx))
        /\ ~ (Len(refused) + k <= Len(refused)) /\ (Len(refused) + k) - Len(refused) = k
    BY <1>1
  <2> QED BY <1>5, <2>1
<1>9. \A k \in DOMAIN rx : rx[k] \in Asks /\ rx[k] \in Arrived
  BY <1>1 DEF Arrived
<1> QED BY <1>1, <1>4, <1>6, <1>7, <1>8, <1>9

LEMMA DrainKeepsJobs ==
  ASSUME IInv, TypeOK', Drain
  PROVE  JobInv'
<1> DEFINE m == Len(refused)
<1>1. /\ RunningOK(shows, running, fate) /\ RefusedOK(shows, nextTab, running, refused, fate)
      /\ RxOK /\ AsksOK(shows, kind, nextBuffer, fate)
      /\ HeldOK(shows, running, refused, fate, batch)
  BY DEF IInv, JobInv, JobsOK
<1>2. /\ UNCHANGED <<shows, nextTab, kind, nextBuffer, nextAsk, worker, asker, fate>>
      /\ refused' = << >> /\ rx' = << >> /\ batch = << >>
      /\ \A i \in Asks : running'[i] = IF i \in Arrived THEN None ELSE running[i]
  BY DEF Drain, layout, buffers, told, AtRest
<1>3. /\ m \in Nat /\ DOMAIN refused = 1..m
      /\ Len(rx) \in Nat /\ DOMAIN rx = 1..Len(rx)
      /\ \A k \in DOMAIN rx : rx[k] \in Asks /\ rx[k] \in Arrived
      /\ DOMAIN batch' = 1..(m + Len(rx))
      /\ \A k \in DOMAIN refused : batch'[k] = refused[k]
      /\ \A k \in DOMAIN rx : batch'[m + k] = [tab |-> running[rx[k]], ask |-> rx[k]]
  BY DrainIs DEF IInv, TypeOK
<1> HIDE DEF m
<1>4. Arrived' = {} /\ DOMAIN refused' = {} /\ DOMAIN rx' = {}
  BY <1>2 DEF Arrived
<1>5. \A k \in DOMAIN batch' : \/ k \in DOMAIN refused
                               \/ \E l \in DOMAIN rx : k = m + l
  <2> SUFFICES ASSUME NEW k \in DOMAIN batch', k \notin DOMAIN refused
               PROVE  \E l \in DOMAIN rx : k = m + l
    OBVIOUS
  <2>1. k - m \in DOMAIN rx /\ k = m + (k - m)
    BY <1>3
  <2> QED BY <2>1
<1>6. RunningOK(shows, running, fate)'
  BY <1>1, <1>2, <1>4 DEF RunningOK
<1>7. RefusedOK(shows, nextTab, running, refused, fate)'
  BY <1>4 DEF RefusedOK
<1>8. RxOK'
  BY <1>4 DEF RxOK
<1>9. AsksOK(shows, kind, nextBuffer, fate)'
  BY <1>1, <1>2 DEF AsksOK
<1>10. \A k \in DOMAIN refused : refused[k].ask \in Asks /\ refused[k].ask < nextAsk
                                 /\ worker[refused[k].ask] = "none"
                                 /\ running[refused[k].ask] = None
  BY <1>1, InUse DEF RefusedOK, IInv
<1>11. BatchOK(shows, nextTab, running, refused, fate, batch)'
  <2>1. ASSUME NEW k \in DOMAIN refused
        PROVE  /\ batch'[k].ask < nextAsk /\ worker[batch'[k].ask] \in {"none", "sent"}
               /\ running'[batch'[k].ask] = None
               /\ batch'[k].tab # None =>
                    /\ batch'[k].tab < nextTab /\ fate[batch'[k].ask] = "open"
                    /\ shows[batch'[k].tab] # None => shows[batch'[k].tab] = asker[batch'[k].ask]
    <3>1. batch'[k] = refused[k]
      BY <1>3
    <3>2. running'[refused[k].ask] = None
      BY <1>2, <1>10
    <3> QED BY <1>1, <1>10, <3>1, <3>2 DEF RefusedOK
  <2>2. ASSUME NEW l \in DOMAIN rx
        PROVE  LET a == [tab |-> running[rx[l]], ask |-> rx[l]] IN
               /\ a.ask < nextAsk /\ worker[a.ask] \in {"none", "sent"}
               /\ running'[a.ask] = None
               /\ a.tab # None => /\ a.tab < nextTab /\ fate[a.ask] = "open"
                                  /\ shows[a.tab] # None => shows[a.tab] = asker[a.ask]
    <3>1. rx[l] \in Asks /\ rx[l] \in Arrived /\ worker[rx[l]] = "sent" /\ rx[l] < nextAsk
      BY <1>1, <1>3 DEF RxOK
    <3>2. running'[rx[l]] = None
      BY <1>2, <3>1
    <3>3. running[rx[l]] # None =>
            /\ running[rx[l]] < nextTab /\ fate[rx[l]] = "open"
            /\ shows[running[rx[l]]] = asker[rx[l]]
      BY <1>1, <3>1, InUse DEF RunningOK, IInv
    <3> QED BY <3>1, <3>2, <3>3
  <2>3. ASSUME NEW k \in DOMAIN batch'
        PROVE  /\ batch'[k].ask < nextAsk' /\ worker'[batch'[k].ask] \in {"none", "sent"}
               /\ running'[batch'[k].ask] = None /\ batch'[k].ask \notin Arrived'
               /\ \A l \in DOMAIN refused' : refused'[l].ask # batch'[k].ask
               /\ batch'[k].tab # None =>
                    /\ batch'[k].tab < nextTab' /\ fate'[batch'[k].ask] = "open"
                    /\ shows'[batch'[k].tab] # None =>
                         shows'[batch'[k].tab] = asker'[batch'[k].ask]
    <3>1. CASE k \in DOMAIN refused
      BY <1>2, <1>4, <2>1, <3>1
    <3>2. CASE \E l \in DOMAIN rx : k = m + l
      <4>1. PICK l \in DOMAIN rx : k = m + l
        BY <3>2
      <4>2. batch'[k] = [tab |-> running[rx[l]], ask |-> rx[l]]
        BY <1>3, <4>1
      <4> QED BY <1>2, <1>4, <2>2, <4>2
    <3> QED BY <1>5, <3>1, <3>2
  <2>4. ASSUME NEW k \in DOMAIN batch', NEW l \in DOMAIN batch',
               batch'[k].ask = batch'[l].ask
        PROVE  k = l
    <3>1. \A x, y \in DOMAIN refused : refused[x].ask = refused[y].ask => x = y
      BY <1>1 DEF RefusedOK
    <3>2. /\ \A x, y \in DOMAIN rx : rx[x] = rx[y] => x = y
          /\ \A x \in DOMAIN rx : worker[rx[x]] = "sent"
      BY <1>1 DEF RxOK
    <3>3. \A x \in DOMAIN refused : batch'[x].ask = refused[x].ask
      BY <1>3
    <3>4. \A x \in DOMAIN rx : batch'[m + x].ask = rx[x]
      <4> SUFFICES ASSUME NEW x \in DOMAIN rx PROVE batch'[m + x].ask = rx[x]
        OBVIOUS
      <4>1. batch'[m + x] = [tab |-> running[rx[x]], ask |-> rx[x]]
        BY <1>3
      <4> DEFINE a == batch'[m + x]
      <4>2. a = [tab |-> running[rx[x]], ask |-> rx[x]]
        BY <4>1
      <4> HIDE DEF a
      <4>3. a.ask = rx[x]
        BY <4>2
      <4> QED BY <4>3 DEF a
    <3>5. CASE k \in DOMAIN refused /\ l \in DOMAIN refused
      BY <2>4, <3>1, <3>3, <3>5
    <3>6. CASE k \notin DOMAIN refused /\ l \notin DOMAIN refused
      <4>1. PICK x \in DOMAIN rx : k = m + x
        BY <1>5, <3>6
      <4>2. PICK y \in DOMAIN rx : l = m + y
        BY <1>5, <3>6
      <4>3. rx[x] = rx[y]
        BY <2>4, <3>4, <4>1, <4>2
      <4> QED BY <3>2, <4>1, <4>2, <4>3
    <3>7. CASE k \in DOMAIN refused /\ l \notin DOMAIN refused
      <4>1. PICK y \in DOMAIN rx : l = m + y
        BY <1>5, <3>7
      <4>2. refused[k].ask = rx[y]
        BY <2>4, <3>3, <3>4, <3>7, <4>1
      <4> QED BY <1>10, <3>2, <3>7, <4>2
    <3>8. CASE k \notin DOMAIN refused /\ l \in DOMAIN refused
      <4>1. PICK y \in DOMAIN rx : k = m + y
        BY <1>5, <3>8
      <4>2. refused[l].ask = rx[y]
        BY <2>4, <3>3, <3>4, <3>8, <4>1
      <4> QED BY <1>10, <3>2, <3>8, <4>2
    <3> QED BY <3>5, <3>6, <3>7, <3>8
  <2> QED BY <2>3, <2>4 DEF BatchOK
<1>12. HeldOK(shows, running, refused, fate, batch)'
  <2> SUFFICES ASSUME NEW i \in Asks, fate'[i] = "open",
                      \E t \in Tabs : shows'[t] = asker'[i], running'[i] = None
               PROVE  \E k \in DOMAIN batch' :
                        /\ batch'[k].ask = i /\ batch'[k].tab # None
                        /\ shows'[batch'[k].tab] = asker'[i]
    BY DEF HeldOK
  <2>1. CASE running[i] # None
    <3>1. i \in Arrived
      BY <1>2, <2>1
    <3>2. PICK l \in DOMAIN rx : rx[l] = i
      BY <3>1 DEF Arrived
    <3>3. m + l \in DOMAIN batch' /\ batch'[m + l] = [tab |-> running[i], ask |-> i]
      <4>1. l \in Nat /\ m + l \in DOMAIN batch'
        BY <1>3
      <4> QED BY <1>3, <3>2, <4>1
    <3>4. shows[running[i]] = asker[i]
      BY <1>1, <2>1 DEF RunningOK
    <3> QED BY <1>2, <2>1, <3>3, <3>4
  <2>2. CASE running[i] = None
    <3>1. DOMAIN batch = {}
      BY <1>2
    <3>2. PICK k \in DOMAIN refused :
            refused[k].ask = i /\ shows[refused[k].tab] = asker[i]
      BY <1>1, <1>2, <2>2, <3>1 DEF HeldOK
    <3>3. k \in DOMAIN batch' /\ batch'[k] = refused[k]
      BY <1>3
    <3>4. refused[k].tab # None
      BY <1>1 DEF RefusedOK
    <3> QED BY <1>2, <3>2, <3>3, <3>4
  <2> QED BY <2>1, <2>2
<1> QED BY <1>6, <1>7, <1>8, <1>9, <1>11, <1>12 DEF JobInv, JobsOK

LEMMA JobStep ==
  ASSUME IInv, TypeOK', [Next]_vars
  PROVE  JobInv'
<1>1. ASSUME NEW t \in Tabs, Bury(t)
      PROVE  JobInv'
  <2>1. /\ UNCHANGED <<shows, nextTab, kind, nextBuffer, running, refused, nextAsk, worker, rx,
                       asker, fate, batch>>
        /\ Arrived' = Arrived
    BY <1>1 DEF Bury, jobs, threads, told, Arrived
  <2> QED BY <2>1 DEF IInv, JobInv, JobsOK, RunningOK, RefusedOK, BatchOK, RxOK, AsksOK, HeldOK
<1>2. ASSUME NEW t \in Tabs, NEW p \in Places, Move(t, p)
      PROVE  JobInv'
  <2>1. /\ UNCHANGED <<shows, nextTab, kind, nextBuffer, running, refused, nextAsk, worker, rx,
                       asker, fate, batch>>
        /\ Arrived' = Arrived
    BY <1>2 DEF Move, layout, buffers, jobs, threads, told, Arrived
  <2> QED BY <2>1 DEF IInv, JobInv, JobsOK, RunningOK, RefusedOK, BatchOK, RxOK, AsksOK, HeldOK
<1>3. CASE UNCHANGED vars
  <2>1. /\ UNCHANGED <<shows, nextTab, kind, nextBuffer, running, refused, nextAsk, worker, rx,
                       asker, fate, batch>>
        /\ Arrived' = Arrived
    BY <1>3 DEF vars, layout, buffers, jobs, threads, told, Arrived
  <2> QED BY <2>1 DEF IInv, JobInv, JobsOK, RunningOK, RefusedOK, BatchOK, RxOK, AsksOK, HeldOK
<1> QED BY <1>1, <1>2, <1>3, OpenKeepsJobs, AddViewKeepsJobs, AskOrShowKeepsJobs,
           CancelKeepsJobs, StopKeepsJobs, CloseKeepsJobs, KillKeepsJobs, ReplaceKeepsJobs,
           WorkerKeepsJobs, DrainKeepsJobs, DeliverKeepsJobs, SkipKeepsJobs DEF Next

-------------------------------------------------------------------------------
(* Every action keeps what is known of tabs and buffers. *)

(* ViewInv of tabs and buffers as an action has them midway. *)
ViewsOK(o, bur, nt, nb) ==
  /\ \A t \in Tabs : t >= nt => o.shows[t] = None /\ o.where[t] = None
  /\ \A t \in Tabs : o.shows[t] < nb
  /\ \A b \in Buffers : o.loaded[b] # None => o.shows[o.loaded[b]] = b
  /\ \A t \in bur : o.shows[t] # None /\ o.kind[o.shows[t]] = "editor"
  /\ \A t \in Tabs : o.shows[t] # None /\ o.where[t] # None =>
       o.where[t] = IF o.loaded[o.shows[t]] = t THEN o.at[o.shows[t]] ELSE o.kept[t]
  /\ \A t \in bur : o.loaded[o.shows[t]] = t
                    /\ \A u \in Tabs : o.shows[u] = o.shows[t] => u = t
  /\ \A t \in Tabs : o.shows[t] # None => o.hidden[o.shows[t]] = (t \in bur)

LEMMA AsTheyAreOK ==
  ASSUME TypeOK
  PROVE  ViewInv <=> ViewsOK(AsTheyAre, buried, nextTab, nextBuffer)
<1> DEFINE o == AsTheyAre
<1>1. /\ o.shows = shows /\ o.kept = kept /\ o.where = where /\ o.loaded = loaded
      /\ o.at = at /\ o.kind = kind /\ o.hidden = hidden
  BY DEF AsTheyAre
<1> HIDE DEF o
<1>2. \A t \in buried : t \in Tabs
  BY DEF TypeOK, ViewTypes
<1>3. \A t \in Tabs : shows[t] # None =>
        (Views(shows[t]) = {t} <=> \A u \in Tabs : shows[u] = shows[t] => u = t)
  BY DEF Views
<1>4. BuriedAreEditors => \A t \in buried : shows[t] # None
  BY DEF BuriedAreEditors, IsOpen
<1>5. (BuriedAreEditors /\ BuriedAreSetAside) <=>
        /\ \A t \in buried : shows[t] # None /\ kind[shows[t]] = "editor"
        /\ \A t \in buried : loaded[shows[t]] = t
                             /\ \A u \in Tabs : shows[u] = shows[t] => u = t
        /\ \A t \in Tabs : shows[t] # None => hidden[shows[t]] = (t \in buried)
  BY <1>2, <1>3, <1>4 DEF BuriedAreEditors, BuriedAreSetAside, IsOpen
<1>6. ViewsKeepTheirPlace <=>
        \A t \in Tabs : shows[t] # None /\ where[t] # None =>
          where[t] = IF loaded[shows[t]] = t THEN at[shows[t]] ELSE kept[t]
  BY DEF ViewsKeepTheirPlace, IsOpen
<1>7. ViewInv <=> ViewsOK(o, buried, nextTab, nextBuffer)
  BY <1>1, <1>5, <1>6 DEF ViewInv, Fresh, LoadedAreViews, ViewsOK
<1> QED BY <1>7 DEF o

LEMMA AsTheyBecomeOK ==
  TypeOK' => (ViewInv <=> ViewsOK(AsTheyAre, buried, nextTab, nextBuffer))'
<1>1. TypeOK => (ViewInv <=> ViewsOK(AsTheyAre, buried, nextTab, nextBuffer))
  BY AsTheyAreOK
<1> QED BY <1>1, PTL

LEMMA BecomeOK ==
  ASSUME TypeOK', NEW o, Become(o), ViewsOK(o, buried', nextTab', nextBuffer')
  PROVE  ViewInv'
<1> DEFINE n == AsTheyAre'
<1>1. /\ n.shows = o.shows /\ n.kept = o.kept /\ n.where = o.where /\ n.loaded = o.loaded
      /\ n.at = o.at /\ n.kind = o.kind /\ n.hidden = o.hidden
  BY DEF AsTheyAre, Become
<1> HIDE DEF n
<1>2. ViewsOK(n, buried', nextTab', nextBuffer')
  BY <1>1 DEF ViewsOK
<1> QED BY <1>2, AsTheyBecomeOK DEF n

LEMMA RemovedOK ==
  ASSUME TypeOK, ViewInv, NEW b \in Buffers, NEW T, T \subseteq Views(b), T # {}
  PROVE  ViewsOK(Removed(T, b), buried \ T, nextTab, nextBuffer)
<1> DEFINE o == Removed(T, b)
<1>1. /\ \A v \in Tabs : /\ o.shows[v] = IF v \in T THEN None ELSE shows[v]
                         /\ o.kept[v] = IF v \in T THEN None ELSE kept[v]
                         /\ o.where[v] = IF v \in T THEN None ELSE where[v]
      /\ \A c \in Buffers : c # b => /\ o.loaded[c] = loaded[c] /\ o.at[c] = at[c]
                                     /\ o.hidden[c] = hidden[c]
      /\ \A c \in Buffers : o.kind[c] = kind[c] \/ o.kind[c] = "editor"
      /\ o.loaded[b] = IF loaded[b] \in T THEN None ELSE loaded[b]
      /\ (\E v \in Views(b) : v \notin T) => o.at[b] = at[b] /\ o.hidden[b] = hidden[b]
  BY DEF Removed, TypeOK, ViewTypes
<1> HIDE DEF o
<1>2. \A v \in Tabs : shows[v] = b /\ v \notin T => o.at[b] = at[b] /\ o.hidden[b] = hidden[b]
  BY <1>1 DEF Views
<1>3. /\ \A v \in T : v \in Tabs /\ shows[v] = b
      /\ None \notin Tabs /\ None \notin Buffers /\ b # None
      /\ \A v \in Tabs : shows[v] # None => shows[v] \in Buffers
      /\ \A v \in buried : v \in Tabs
      /\ \A c \in Buffers : loaded[c] # None => loaded[c] \in Tabs
  BY Numbers DEF Views, TypeOK, ViewTypes
<1>4. ViewsOK(AsTheyAre, buried, nextTab, nextBuffer)
  BY AsTheyAreOK
<1>5. ViewsOK([shows |-> shows, kept |-> kept, where |-> where, loaded |-> loaded,
               at |-> at, kind |-> kind, hidden |-> hidden], buried, nextTab, nextBuffer)
  BY <1>4 DEF AsTheyAre
<1>6. /\ \A t \in Tabs : t >= nextTab => shows[t] = None /\ where[t] = None
      /\ \A t \in Tabs : shows[t] < nextBuffer
      /\ \A c \in Buffers : loaded[c] # None => shows[loaded[c]] = c
      /\ \A t \in buried : shows[t] # None /\ kind[shows[t]] = "editor"
      /\ \A t \in Tabs : shows[t] # None /\ where[t] # None =>
           where[t] = IF loaded[shows[t]] = t THEN at[shows[t]] ELSE kept[t]
      /\ \A t \in buried : loaded[shows[t]] = t
                           /\ \A u \in Tabs : shows[u] = shows[t] => u = t
      /\ \A t \in Tabs : shows[t] # None => hidden[shows[t]] = (t \in buried)
  BY <1>5 DEF ViewsOK
<1>7. \A t \in buried : t \notin T => shows[t] # b
  BY <1>3, <1>6
<1>8. 0 < nextBuffer
  BY <1>3, <1>6 DEF TypeOK, ViewTypes
<1>9. /\ \A t \in Tabs : t >= nextTab => o.shows[t] = None /\ o.where[t] = None
      /\ \A t \in Tabs : o.shows[t] < nextBuffer
  BY <1>1, <1>6, <1>8 DEF None
<1>10. \A c \in Buffers : o.loaded[c] # None => o.shows[o.loaded[c]] = c
  BY <1>1, <1>3, <1>6
<1>11. \A t \in buried \ T : o.shows[t] # None /\ o.kind[o.shows[t]] = "editor"
  BY <1>1, <1>3, <1>6
<1>12. \A t \in Tabs : o.shows[t] # None /\ o.where[t] # None =>
         o.where[t] = IF o.loaded[o.shows[t]] = t THEN o.at[o.shows[t]] ELSE o.kept[t]
  BY <1>1, <1>2, <1>3, <1>6
<1>13. \A t \in buried \ T : o.loaded[o.shows[t]] = t
                             /\ \A u \in Tabs : o.shows[u] = o.shows[t] => u = t
  BY <1>1, <1>3, <1>6, <1>7
<1>14. \A t \in Tabs : o.shows[t] # None => o.hidden[o.shows[t]] = (t \in buried \ T)
  BY <1>1, <1>2, <1>3, <1>6
<1>15. ViewsOK(o, buried \ T, nextTab, nextBuffer)
  BY <1>9, <1>10, <1>11, <1>12, <1>13, <1>14 DEF ViewsOK
<1> QED BY <1>15 DEF o

LEMMA InsertOK ==
  ASSUME TypeOK, TypeOK', NEW t \in Tabs, NEW k \in Kinds, NEW o, ObjectsType(o),
         ViewsOK(o, buried', nextTab, nextBuffer), Insert(t, k, o),
         o.shows[t] = None, t \notin buried', nextTab' >= nextTab, t < nextTab'
  PROVE  ViewInv'
<1> DEFINE n == [shows  |-> [o.shows EXCEPT ![t] = nextBuffer],
                 kept   |-> [o.kept EXCEPT ![t] = None],
                 where  |-> [o.where EXCEPT ![t] = Top],
                 loaded |-> [o.loaded EXCEPT ![nextBuffer] = t],
                 at     |-> [o.at EXCEPT ![nextBuffer] = Top],
                 kind   |-> [o.kind EXCEPT ![nextBuffer] = k],
                 hidden |-> [o.hidden EXCEPT ![nextBuffer] = FALSE]]
           c == nextBuffer
<1>1. /\ Become(n) /\ c \in Buffers /\ c \in Nat /\ nextBuffer' = c + 1
      /\ nextTab \in Nat /\ nextTab' \in Nat /\ t \in Nat /\ Tabs \subseteq Nat
      /\ buried' \subseteq Tabs /\ None \notin Tabs /\ None \notin Buffers /\ t # None
  BY Numbers DEF Insert, TypeOK, ViewTypes
<1>2. /\ n.shows[t] = c /\ n.kept[t] = None /\ n.where[t] = Top
      /\ \A v \in Tabs : v # t => /\ n.shows[v] = o.shows[v] /\ n.kept[v] = o.kept[v]
                                  /\ n.where[v] = o.where[v]
      /\ n.loaded[c] = t /\ n.at[c] = Top /\ n.hidden[c] = FALSE
      /\ \A b \in Buffers : b # c => /\ n.loaded[b] = o.loaded[b] /\ n.at[b] = o.at[b]
                                     /\ n.kind[b] = o.kind[b] /\ n.hidden[b] = o.hidden[b]
  BY <1>1 DEF ObjectsType
<1> HIDE DEF n
<1>3. /\ \A v \in Tabs : v >= nextTab => o.shows[v] = None /\ o.where[v] = None
      /\ \A v \in Tabs : o.shows[v] < c
      /\ \A b \in Buffers : o.loaded[b] # None => o.shows[o.loaded[b]] = b
      /\ \A v \in buried' : o.shows[v] # None /\ o.kind[o.shows[v]] = "editor"
      /\ \A v \in Tabs : o.shows[v] # None /\ o.where[v] # None =>
           o.where[v] = IF o.loaded[o.shows[v]] = v THEN o.at[o.shows[v]] ELSE o.kept[v]
      /\ \A v \in buried' : o.loaded[o.shows[v]] = v
                            /\ \A u \in Tabs : o.shows[u] = o.shows[v] => u = v
      /\ \A v \in Tabs : o.shows[v] # None => o.hidden[o.shows[v]] = (v \in buried')
  BY DEF ViewsOK
<1>4. /\ \A v \in Tabs : o.shows[v] \in Buffers \cup {None}
      /\ \A v \in Tabs : o.shows[v] # c
      /\ \A b \in Buffers : o.loaded[b] \in Tabs \cup {None} /\ o.loaded[b] # t
  <2>1. /\ \A v \in Tabs : o.shows[v] \in Buffers \cup {None} /\ o.shows[v] \in Nat
        /\ \A b \in Buffers : o.loaded[b] \in Tabs \cup {None}
    BY Numbers DEF ObjectsType
  <2>2. \A b \in Buffers : o.loaded[b] # t
    BY <1>1, <1>3, <2>1
  <2>3. \A v \in Tabs : o.shows[v] # c
    BY <1>1, <1>3, <2>1
  <2> QED BY <2>1, <2>2, <2>3
<1>5. \A v \in Tabs : v >= nextTab' => n.shows[v] = None /\ n.where[v] = None
  BY <1>1, <1>2, <1>3
<1>6. \A v \in Tabs : n.shows[v] < c + 1
  <2>1. \A v \in Tabs : o.shows[v] \in Nat
    BY <1>4, Numbers
  <2> QED BY <1>1, <1>2, <1>3, <2>1
<1>7. \A b \in Buffers : n.loaded[b] # None => n.shows[n.loaded[b]] = b
  <2> SUFFICES ASSUME NEW b \in Buffers, n.loaded[b] # None
               PROVE  n.shows[n.loaded[b]] = b
    OBVIOUS
  <2>1. CASE b = c
    BY <1>2, <2>1
  <2>2. CASE b # c
    <3>1. n.loaded[b] = o.loaded[b] /\ o.loaded[b] \in Tabs /\ o.loaded[b] # t
      BY <1>2, <1>4, <2>2
    <3>2. o.shows[o.loaded[b]] = b
      BY <1>3, <3>1
    <3> QED BY <1>2, <3>1, <3>2
  <2> QED BY <2>1, <2>2
<1>8. \A v \in buried' : v # t /\ v \in Tabs /\ o.shows[v] \in Buffers /\ o.shows[v] # c
  BY <1>1, <1>3, <1>4
<1>9. \A v \in buried' : n.shows[v] # None /\ n.kind[n.shows[v]] = "editor"
  BY <1>2, <1>3, <1>8
<1>10. \A v \in Tabs : n.shows[v] # None /\ n.where[v] # None =>
         n.where[v] = IF n.loaded[n.shows[v]] = v THEN n.at[n.shows[v]] ELSE n.kept[v]
  BY <1>2, <1>3, <1>4
<1>11. \A v \in buried' : n.loaded[n.shows[v]] = v
                          /\ \A u \in Tabs : n.shows[u] = n.shows[v] => u = v
  BY <1>2, <1>3, <1>8
<1>12. \A v \in Tabs : n.shows[v] # None => n.hidden[n.shows[v]] = (v \in buried')
  <2> SUFFICES ASSUME NEW v \in Tabs, n.shows[v] # None
               PROVE  n.hidden[n.shows[v]] = (v \in buried')
    OBVIOUS
  <2>1. CASE v = t
    <3>1. n.hidden[n.shows[v]] = FALSE
      BY <1>2, <2>1
    <3>2. (v \in buried') = FALSE
      BY <2>1
    <3> QED BY <3>1, <3>2
  <2>2. CASE v # t
    <3>1. n.shows[v] = o.shows[v] /\ o.shows[v] # None
      BY <1>2, <2>2
    <3>2. o.shows[v] \in Buffers /\ o.shows[v] # c
      BY <1>4, <3>1
    <3>3. n.hidden[n.shows[v]] = o.hidden[o.shows[v]]
      BY <1>2, <3>1, <3>2
    <3>4. o.hidden[o.shows[v]] = (v \in buried')
      BY <1>3, <3>1
    <3> QED BY <3>3, <3>4
  <2> QED BY <2>1, <2>2
<1>13. ViewsOK(n, buried', nextTab', nextBuffer')
  BY <1>1, <1>5, <1>6, <1>7, <1>9, <1>10, <1>11, <1>12 DEF ViewsOK
<1> HIDE DEF n
<1> QED BY <1>1, <1>13, BecomeOK

(* A view loaded, and left at place p. *)
LEMMA LoadAtOK ==
  ASSUME TypeOK, ViewInv, NEW t \in Tabs, IsOpen(t), NEW p \in Places, LoadAt(t, p),
         where' = [where EXCEPT ![t] = p],
         UNCHANGED <<shows, kind, nextTab, nextBuffer>>
  PROVE  /\ Fresh' /\ LoadedAreViews' /\ ViewsKeepTheirPlace'
         /\ loaded'[shows[t]] = t
         /\ \A u \in Tabs : IsOpen(u) /\ shows[u] # shows[t] =>
              loaded'[shows[u]] = loaded[shows[u]]
<1> DEFINE b == shows[t]
           before == loaded[b]
<1>1. /\ b \in Buffers /\ b # None /\ t # None /\ t < nextTab /\ nextTab \in Nat /\ t \in Nat
      /\ None \notin Tabs /\ before \in Tabs \cup {None} /\ Tabs \subseteq Nat
      /\ \A u \in Tabs : shows[u] # None => shows[u] \in Buffers
  BY ResumedType, Numbers, InUse DEF TypeOK, ViewTypes, ViewInv, Fresh, IsOpen
<1>2. /\ loaded'[b] = t /\ at'[b] = p
      /\ \A c \in Buffers : c # b => loaded'[c] = loaded[c] /\ at'[c] = at[c]
      /\ where'[t] = p /\ \A u \in Tabs : u # t => where'[u] = where[u]
  BY <1>1 DEF LoadAt, TypeOK, ViewTypes
<1>3. before = t => kept' = kept
  BY DEF LoadAt
<1>4. before # t => /\ \A u \in Tabs : u # t /\ u # before => kept'[u] = kept[u]
                    /\ before # None => kept'[before] = at[b]
  BY <1>1 DEF LoadAt
<1>5. /\ \A u \in Tabs : u >= nextTab => shows[u] = None /\ where[u] = None
      /\ \A c \in Buffers : loaded[c] # None => shows[loaded[c]] = c
      /\ \A u \in Tabs : shows[u] # None /\ where[u] # None =>
           where[u] = IF loaded[shows[u]] = u THEN at[shows[u]] ELSE kept[u]
  BY DEF ViewInv, Fresh, LoadedAreViews, ViewsKeepTheirPlace, IsOpen
<1>6. shows' = shows /\ nextTab' = nextTab /\ nextBuffer' = nextBuffer
  OBVIOUS
<1> HIDE DEF b, before
<1>7. shows[t] = b /\ loaded[b] = before
  BY DEF b, before
<1>8. Fresh'
  <2>1. \A u \in Tabs : u >= nextTab => shows[u] = None /\ where'[u] = None
    BY <1>1, <1>2, <1>5
  <2> QED BY <1>6, <2>1 DEF Fresh, ViewInv
<1>9. LoadedAreViews'
  BY <1>1, <1>2, <1>5, <1>6, <1>7 DEF LoadedAreViews
<1>10. ViewsKeepTheirPlace'
  <2> SUFFICES ASSUME NEW u \in Tabs, shows[u] # None, where'[u] # None
               PROVE  where'[u] = IF loaded'[shows[u]] = u THEN at'[shows[u]] ELSE kept'[u]
    BY <1>6 DEF ViewsKeepTheirPlace, IsOpen
  <2>1. CASE u = t
    BY <1>2, <1>7, <2>1
  <2>2. CASE u # t /\ shows[u] = b
    <3>1. where[u] = IF before = u THEN at[b] ELSE kept[u]
      BY <1>2, <1>5, <1>7, <2>2
    <3>2. before = t => kept'[u] = kept[u]
      BY <1>3
    <3>3. before # t => kept'[u] = IF u = before THEN at[b] ELSE kept[u]
      BY <1>1, <1>4, <2>2
    <3> QED BY <1>2, <2>2, <3>1, <3>2, <3>3
  <2>3. CASE u # t /\ shows[u] # b
    <3>1. u # before
      BY <1>1, <1>5, <1>7, <2>3
    <3>2. kept'[u] = kept[u]
      BY <1>3, <1>4, <2>3, <3>1
    <3> QED BY <1>1, <1>2, <1>5, <2>3, <3>2
  <2> QED BY <2>1, <2>2, <2>3
<1> QED BY <1>1, <1>2, <1>7, <1>8, <1>9, <1>10 DEF IsOpen

LEMMA LoadOK ==
  ASSUME TypeOK, ViewInv, NEW t \in Tabs, IsOpen(t), Load(t),
         UNCHANGED <<shows, kind, nextTab, nextBuffer>>
  PROVE  /\ Fresh' /\ LoadedAreViews' /\ ViewsKeepTheirPlace'
         /\ loaded'[shows[t]] = t
         /\ \A u \in Tabs : IsOpen(u) /\ shows[u] # shows[t] =>
              loaded'[shows[u]] = loaded[shows[u]]
<1>1. Resumed(t) \in Places /\ None \notin Places
  BY ResumedType, Numbers DEF TypeOK
<1>2. where[t] # None => where[t] = Resumed(t)
  BY DEF ViewInv, ViewsKeepTheirPlace, Resumed
<1>3. where' = [where EXCEPT ![t] = Resumed(t)] /\ LoadAt(t, Resumed(t))
  <2>1. (IF where[t] = None THEN Resumed(t) ELSE where[t]) = Resumed(t)
    BY <1>2
  <2> QED BY <2>1 DEF Load, TypeOK, ViewTypes
<1> QED BY <1>1, <1>3, LoadAtOK

(* What is left to see to once a view t is loaded. *)
LEMMA SetAsideOK ==
  ASSUME TypeOK, ViewInv, NEW t \in Tabs, IsOpen(t),
         Fresh', LoadedAreViews', ViewsKeepTheirPlace', loaded'[shows[t]] = t,
         \A u \in Tabs : IsOpen(u) /\ shows[u] # shows[t] =>
           loaded'[shows[u]] = loaded[shows[u]] /\ hidden'[shows[u]] = hidden[shows[u]],
         UNCHANGED <<shows, kind>>, buried' \subseteq Tabs,
         \A u \in Tabs : u # t => (u \in buried' <=> u \in buried),
         hidden'[shows[t]] = (t \in buried'),
         t \in buried' => Views(shows[t]) = {t} /\ kind[shows[t]] = "editor"
  PROVE  ViewInv'
<1>1. /\ \A u \in buried : u \in Tabs /\ shows[u] # None /\ kind[shows[u]] = "editor"
      /\ \A u \in buried : loaded[shows[u]] = u /\ Views(shows[u]) = {u}
      /\ \A u \in Tabs : shows[u] # None => hidden[shows[u]] = (u \in buried)
  BY DEF TypeOK, ViewTypes, ViewInv, BuriedAreEditors, BuriedAreSetAside, IsOpen
<1>2. \A u \in Tabs : u # t /\ shows[u] = shows[t] => u \notin buried /\ t \notin buried'
  <2> SUFFICES ASSUME NEW u \in Tabs, u # t, shows[u] = shows[t]
               PROVE  u \notin buried /\ t \notin buried'
    OBVIOUS
  <2>1. u \in Views(shows[t]) /\ t \in Views(shows[u])
    BY DEF Views
  <2>2. u \notin buried
    BY <1>1, <2>1
  <2>3. t \notin buried'
    BY <2>1
  <2> QED BY <2>2, <2>3
<1>3. BuriedAreEditors'
  BY <1>1 DEF BuriedAreEditors, IsOpen
<1>4. ASSUME NEW u \in Tabs, shows[u] # None
      PROVE  /\ u \in buried' => Views(shows[u]) = {u} /\ loaded'[shows[u]] = u
             /\ hidden'[shows[u]] = (u \in buried')
  <2>1. CASE u = t
    BY <2>1
  <2>2. CASE u # t /\ shows[u] # shows[t]
    <3>1. hidden'[shows[u]] = (u \in buried)
      BY <1>1, <1>4, <2>2 DEF IsOpen
    <3>2. loaded'[shows[u]] = loaded[shows[u]]
      BY <1>4, <2>2 DEF IsOpen
    <3>3. (u \in buried) = (u \in buried')
      BY <2>2
    <3>4. u \in buried' => Views(shows[u]) = {u} /\ loaded[shows[u]] = u
      BY <1>1, <2>2
    <3> QED BY <3>1, <3>2, <3>3, <3>4
  <2>3. CASE u # t /\ shows[u] = shows[t]
    <3>1. u \notin buried' /\ t \notin buried'
      BY <1>2, <2>3
    <3>2. hidden'[shows[u]] = FALSE
      <4>1. hidden'[shows[u]] = hidden'[shows[t]]
        BY <2>3
      <4>2. (t \in buried') = FALSE
        BY <3>1
      <4> QED BY <4>1, <4>2
    <3>3. (u \in buried') = FALSE
      BY <3>1
    <3> QED BY <3>2, <3>3
  <2> QED BY <2>1, <2>2, <2>3
<1>5. Views(shows[t])' = Views(shows[t]) /\ \A u \in Tabs : Views(shows[u])' = Views(shows[u])
  BY DEF Views
<1>6. BuriedAreSetAside'
  BY <1>4, <1>5 DEF BuriedAreSetAside, IsOpen
<1> QED BY <1>3, <1>6 DEF ViewInv

LEMMA AddViewKeepsViews ==
  ASSUME TypeOK, ViewInv, NEW t \in Tabs, AddView(t)
  PROVE  ViewInv'
<1> DEFINE n == nextTab
           b == shows[t]
<1>1. /\ n \in Tabs /\ n \in Nat /\ nextTab' = n + 1 /\ b \in Buffers /\ b # None
      /\ None \notin Tabs /\ None \notin Buffers /\ Tabs \subseteq Nat
      /\ shows'[n] = b /\ (\A u \in Tabs : u # n => shows'[u] = shows[u])
      /\ UNCHANGED <<kind, hidden, nextBuffer, kept, loaded, at, where, buried>>
      /\ t \notin buried /\ t # n
  BY Numbers, ResumedType, InUse DEF AddView, TypeOK, ViewTypes, IsOpen, buffers, views,
     ViewInv, Fresh
<1> HIDE DEF n
<1>2. /\ \A u \in Tabs : u >= n => shows[u] = None /\ where[u] = None
      /\ \A u \in Tabs : shows[u] < nextBuffer
      /\ \A c \in Buffers : loaded[c] # None => shows[loaded[c]] = c
      /\ \A u \in buried : u \in Tabs /\ shows[u] # None /\ kind[shows[u]] = "editor"
      /\ \A u \in Tabs : shows[u] # None /\ where[u] # None =>
           where[u] = IF loaded[shows[u]] = u THEN at[shows[u]] ELSE kept[u]
      /\ \A u \in buried : loaded[shows[u]] = u /\ Views(shows[u]) = {u}
      /\ \A u \in Tabs : shows[u] # None => hidden[shows[u]] = (u \in buried)
  BY DEF ViewInv, Fresh, LoadedAreViews, BuriedAreEditors, ViewsKeepTheirPlace,
         BuriedAreSetAside, IsOpen, TypeOK, ViewTypes, n
<1>3. /\ shows[n] = None /\ where[n] = None /\ n \notin buried
      /\ \A c \in Buffers : loaded[c] # n
  BY <1>1, <1>2
<1>4. \A u \in buried : shows[u] # b
  <2> SUFFICES ASSUME NEW u \in buried, shows[u] = b PROVE FALSE
    OBVIOUS
  <2>1. t \in Views(shows[u])
    BY DEF Views
  <2> QED BY <1>1, <1>2, <2>1
<1>5. b < nextBuffer
  BY <1>2
<1> HIDE DEF b
<1>6. Fresh'
  <2>1. \A u \in Tabs : u >= n + 1 => shows'[u] = None /\ where[u] = None
    BY <1>1, <1>2
  <2>2. \A u \in Tabs : shows'[u] < nextBuffer
    BY <1>1, <1>2, <1>5
  <2> QED BY <1>1, <2>1, <2>2 DEF Fresh
<1>7. LoadedAreViews'
  <2>1. \A c \in Buffers : loaded[c] \in Tabs \cup {None}
    BY DEF TypeOK, ViewTypes
  <2> QED BY <1>1, <1>2, <1>3, <2>1 DEF LoadedAreViews
<1>8. BuriedAreEditors'
  <2>1. \A u \in buried : shows'[u] = shows[u]
    BY <1>1, <1>2, <1>3
  <2> QED BY <1>1, <1>2, <2>1 DEF BuriedAreEditors, IsOpen
<1>9. ViewsKeepTheirPlace'
  BY <1>1, <1>2, <1>3 DEF ViewsKeepTheirPlace, IsOpen
<1>10. BuriedAreSetAside'
  <2> SUFFICES ASSUME NEW u \in Tabs, shows'[u] # None
               PROVE  /\ u \in buried => Views(shows[u])' = {u} /\ loaded[shows'[u]] = u
                      /\ hidden[shows'[u]] = (u \in buried)
    BY <1>1 DEF BuriedAreSetAside, IsOpen, Views
  <2>1. CASE u = n
    <3>1. shows'[u] = shows[t] /\ shows[t] # None
      BY <1>1, <2>1 DEF b
    <3>2. hidden[shows[t]] = (t \in buried) /\ (t \in buried) = FALSE /\ (u \in buried) = FALSE
      BY <1>1, <1>2, <1>3, <2>1, <3>1
    <3> QED BY <3>1, <3>2
  <2>2. CASE u # n
    <3>1. shows'[u] = shows[u] /\ shows[u] # None
      BY <1>1, <2>2
    <3>2. ASSUME u \in buried
          PROVE  Views(shows[u])' = {u}
      <4>1. Views(shows[u]) = {u} /\ shows[u] # b
        BY <1>2, <1>4, <3>2
      <4>2. \A v \in Tabs : shows[v] = shows[u] <=> v = u
        BY <4>1 DEF Views
      <4>3. \A v \in Tabs : shows'[v] = shows[u] <=> v = u
        BY <1>1, <2>2, <4>1, <4>2
      <4> QED BY <3>1, <4>3 DEF Views
    <3> QED BY <1>2, <3>1, <3>2
  <2> QED BY <2>1, <2>2
<1> QED BY <1>6, <1>7, <1>8, <1>9, <1>10 DEF ViewInv

LEMMA ViewsUnchanged ==
  ASSUME ViewInv, UNCHANGED <<layout, buffers, views>>
  PROVE  ViewInv'
<1>1. UNCHANGED <<shows, kept, buried, nextTab, kind, loaded, at, hidden, nextBuffer, where>>
  BY DEF layout, buffers, views
<1> QED BY <1>1 DEF ViewInv, Fresh, LoadedAreViews, BuriedAreEditors, ViewsKeepTheirPlace,
                    BuriedAreSetAside, IsOpen, Views

(* A view loaded where nothing else changes of tabs and buffers.              *)
LEMMA LoadedKeepsViews ==
  ASSUME TypeOK, ViewInv, NEW t \in Tabs, IsOpen(t),
         \/ Load(t)
         \/ \E p \in Places : LoadAt(t, p) /\ where' = [where EXCEPT ![t] = p],
         UNCHANGED <<layout, buffers>>
  PROVE  ViewInv'
<1>1. UNCHANGED <<shows, kind, nextTab, nextBuffer, hidden, buried>>
  BY DEF layout, buffers
<1>2. /\ Fresh' /\ LoadedAreViews' /\ ViewsKeepTheirPlace'
      /\ loaded'[shows[t]] = t
      /\ \A u \in Tabs : IsOpen(u) /\ shows[u] # shows[t] =>
           loaded'[shows[u]] = loaded[shows[u]]
  <2>1. CASE Load(t)
    BY <1>1, <2>1, LoadOK
  <2>2. CASE \E p \in Places : LoadAt(t, p) /\ where' = [where EXCEPT ![t] = p]
    BY <1>1, <2>2, LoadAtOK
  <2> QED BY <2>1, <2>2
<1>3. /\ hidden'[shows[t]] = (t \in buried')
      /\ t \in buried' => Views(shows[t]) = {t} /\ kind[shows[t]] = "editor"
      /\ buried' \subseteq Tabs /\ \A u \in Tabs : u \in buried' <=> u \in buried
  BY <1>1 DEF ViewInv, BuriedAreSetAside, BuriedAreEditors, TypeOK, ViewTypes
<1>4. \A u \in Tabs : IsOpen(u) /\ shows[u] # shows[t] =>
        loaded'[shows[u]] = loaded[shows[u]] /\ hidden'[shows[u]] = hidden[shows[u]]
  BY <1>1, <1>2
<1> QED BY <1>1, <1>2, <1>3, <1>4, SetAsideOK

LEMMA BuryOrShowKeepsViews ==
  ASSUME TypeOK, ViewInv, TypeOK', NEW t \in Tabs, Bury(t) \/ Show(t)
  PROVE  ViewInv'
<1>1. IsOpen(t) /\ Load(t) /\ UNCHANGED <<shows, kind, nextTab, nextBuffer>>
  BY DEF Bury, Show, ViewInv, BuriedAreEditors
<1>2. /\ Fresh' /\ LoadedAreViews' /\ ViewsKeepTheirPlace'
      /\ loaded'[shows[t]] = t
      /\ \A u \in Tabs : IsOpen(u) /\ shows[u] # shows[t] =>
           loaded'[shows[u]] = loaded[shows[u]]
  BY <1>1, LoadOK
<1>3. shows[t] \in Buffers /\ \A u \in Tabs : IsOpen(u) => shows[u] \in Buffers
  BY <1>1, ResumedType DEF TypeOK
<1>4. \/ /\ hidden' = [hidden EXCEPT ![shows[t]] = TRUE] /\ buried' = buried \cup {t}
         /\ OtherViews(t) = {} /\ kind[shows[t]] = "editor"
      \/ hidden' = [hidden EXCEPT ![shows[t]] = FALSE] /\ buried' = buried \ {t}
  BY DEF Bury, Show
<1>5. /\ hidden'[shows[t]] = (t \in buried')
      /\ \A u \in Tabs : IsOpen(u) /\ shows[u] # shows[t] =>
           hidden'[shows[u]] = hidden[shows[u]]
      /\ \A u \in Tabs : u # t => (u \in buried' <=> u \in buried)
      /\ t \in buried' => OtherViews(t) = {} /\ kind[shows[t]] = "editor"
  <2>1. hidden \in [Buffers -> BOOLEAN]
    BY DEF TypeOK, ViewTypes
  <2>2. CASE /\ hidden' = [hidden EXCEPT ![shows[t]] = TRUE] /\ buried' = buried \cup {t}
             /\ OtherViews(t) = {} /\ kind[shows[t]] = "editor"
    <3>1. hidden'[shows[t]] = TRUE /\ (t \in buried') = TRUE
      BY <1>3, <2>1, <2>2
    <3>2. \A u \in Tabs : IsOpen(u) /\ shows[u] # shows[t] =>
            hidden'[shows[u]] = hidden[shows[u]]
      BY <1>3, <2>1, <2>2
    <3> QED BY <2>2, <3>1, <3>2
  <2>3. CASE hidden' = [hidden EXCEPT ![shows[t]] = FALSE] /\ buried' = buried \ {t}
    <3>1. hidden'[shows[t]] = FALSE /\ (t \in buried') = FALSE
      BY <1>3, <2>1, <2>3
    <3>2. \A u \in Tabs : IsOpen(u) /\ shows[u] # shows[t] =>
            hidden'[shows[u]] = hidden[shows[u]]
      BY <1>3, <2>1, <2>3
    <3> QED BY <2>3, <3>1, <3>2
  <2> QED BY <1>4, <2>2, <2>3
<1>6. OtherViews(t) = {} => Views(shows[t]) = {t}
  BY DEF OtherViews, Views
<1>7. buried' \subseteq Tabs
  BY DEF TypeOK, ViewTypes
<1> QED BY <1>1, <1>2, <1>5, <1>6, <1>7, SetAsideOK

LEMMA ClosingKeepsViews ==
  ASSUME TypeOK, ViewInv, TypeOK', NEW t \in Tabs, Close(t) \/ Kill(t)
  PROVE  ViewInv'
<1>1. shows[t] \in Buffers /\ t \in Views(shows[t]) /\ nextTab' = nextTab
      /\ nextBuffer' = nextBuffer
  BY ResumedType DEF Close, Kill, Views, TypeOK
<1>2. PICK T \in SUBSET Views(shows[t]) :
        T # {} /\ Become(Removed(T, shows[t])) /\ buried' = buried \ T
  <2>1. CASE Close(t)
    <3>1. {t} \in SUBSET Views(shows[t]) /\ {t} # {}
      BY <1>1
    <3> QED BY <2>1, <3>1 DEF Close
  <2>2. CASE Kill(t)
    <3>1. Views(shows[t]) \in SUBSET Views(shows[t]) /\ Views(shows[t]) # {}
      BY <1>1
    <3> QED BY <2>2, <3>1 DEF Kill
  <2> QED BY <2>1, <2>2
<1>3. ViewsOK(Removed(T, shows[t]), buried', nextTab', nextBuffer')
  BY <1>1, <1>2, RemovedOK
<1> QED BY <1>2, <1>3, BecomeOK

LEMMA OpenKeepsViews ==
  ASSUME TypeOK, ViewInv, TypeOK', NEW k \in Kinds, Open(k)
  PROVE  ViewInv'
<1>1. /\ nextTab \in Tabs /\ nextTab \in Nat /\ nextTab' = nextTab + 1 /\ buried' = buried
      /\ Insert(nextTab, k, AsTheyAre)
  BY Numbers DEF Open, TypeOK, ViewTypes
<1>2. AsTheyAre.shows[nextTab] = None /\ nextTab \notin buried
  BY <1>1 DEF AsTheyAre, ViewInv, Fresh, BuriedAreEditors, IsOpen
<1>3. ViewsOK(AsTheyAre, buried', nextTab, nextBuffer)
  BY <1>1, AsTheyAreOK
<1>4. nextTab' >= nextTab /\ nextTab < nextTab' /\ nextTab \notin buried'
  BY <1>1, <1>2
<1>5. ObjectsType(AsTheyAre)
  BY AsTheyAreType DEF TypeOK
<1> QED BY <1>1, <1>2, <1>3, <1>4, <1>5, InsertOK

LEMMA ReplaceKeepsViews ==
  ASSUME TypeOK, ViewInv, TypeOK', NEW t \in Tabs, Replace(t)
  PROVE  ViewInv'
<1> DEFINE o == Removed({t}, shows[t])
<1>1. /\ shows[t] \in Buffers /\ IsOpen(t) /\ kind[shows[t]] = "launcher"
      /\ nextTab' = nextTab /\ buried' = buried /\ Insert(t, "editor", o)
  BY ResumedType DEF Replace, TypeOK
<1>2. t \notin buried /\ buried \ {t} = buried
  BY <1>1 DEF ViewInv, BuriedAreEditors
<1>3. {t} \subseteq Views(shows[t]) /\ {t} # {}
  BY DEF Views
<1>4. ViewsOK(o, buried', nextTab, nextBuffer)
  BY <1>1, <1>2, <1>3, RemovedOK
<1>5. o.shows[t] = None
  BY <1>1, RemovedIs
<1>6. ObjectsType(o) /\ "editor" \in Kinds
  BY <1>1, RemovedType DEF TypeOK, Kinds
<1>7. nextTab' >= nextTab /\ t < nextTab'
  BY <1>1, Numbers DEF ViewInv, Fresh, IsOpen, TypeOK, ViewTypes
<1> HIDE DEF o
<1> QED BY <1>1, <1>2, <1>4, <1>5, <1>6, <1>7, InsertOK

LEMMA ViewStep ==
  ASSUME IInv, TypeOK', [Next]_vars
  PROVE  ViewInv'
<1> USE DEF IInv
<1>1. ASSUME NEW t \in Tabs, Ask(t) \/ CancelJobs(t)
      PROVE  ViewInv'
  BY <1>1, LoadedKeepsViews DEF Ask, CancelJobs
<1>2. ASSUME NEW t \in Tabs, NEW p \in Places, Move(t, p)
      PROVE  ViewInv'
  BY <1>2, LoadedKeepsViews DEF Move
<1>3. CASE Deliver
  <2>1. Head(batch).tab \in Tabs /\ IsOpen(Head(batch).tab) /\ Load(Head(batch).tab)
    BY <1>3, InBatch DEF Deliver, HasTab, TypeOK
  <2> QED BY <1>3, <2>1, LoadedKeepsViews DEF Deliver
<1>4. ASSUME NEW t \in Tabs, StopTasks(t)
      PROVE  ViewInv'
  BY <1>4, ViewsUnchanged DEF StopTasks
<1>5. ASSUME NEW i \in Asks, Work(i) \/ Panic(i)
      PROVE  ViewInv'
  BY <1>5, ViewsUnchanged DEF Work, Panic
<1>6. CASE Drain \/ Skip
  BY <1>6, ViewsUnchanged DEF Drain, Skip
<1>7. CASE UNCHANGED vars
  BY <1>7, ViewsUnchanged DEF vars
<1> QED BY <1>1, <1>2, <1>3, <1>4, <1>5, <1>6, <1>7, OpenKeepsViews, AddViewKeepsViews,
           BuryOrShowKeepsViews, ClosingKeepsViews, ReplaceKeepsViews DEF Next

-------------------------------------------------------------------------------
(* Theorems *)

LEMMA InitHolds == Init => IInv
<1> SUFFICES ASSUME Init PROVE IInv
  OBVIOUS
<1>1. TypeOK
  <2>1. ViewTypes
    BY Numbers DEF Init, ViewTypes, Kinds
  <2>2. JobTypes
    BY Numbers, EmptySeq DEF Init, JobTypes
  <2> QED BY <2>1, <2>2 DEF TypeOK
<1>2. ViewInv
  BY Numbers DEF Init, ViewInv, Fresh, LoadedAreViews, BuriedAreEditors, ViewsKeepTheirPlace,
     BuriedAreSetAside, IsOpen
<1>3. JobInv
  BY Numbers DEF Init, JobInv, JobsOK, RunningOK, RefusedOK, BatchOK, RxOK, AsksOK, HeldOK
<1> QED BY <1>1, <1>2, <1>3 DEF IInv

LEMMA StepHolds == IInv /\ [Next]_vars => IInv'
<1> SUFFICES ASSUME IInv, [Next]_vars PROVE IInv'
  OBVIOUS
<1>1. TypeOK'
  BY TypeStep DEF IInv, ViewInv
<1> QED BY <1>1, ViewStep, JobStep DEF IInv

(* The inductive invariant, of which the theorems below are consequences. *)
THEOREM Invariant == Spec => []IInv
BY InitHolds, StepHolds, PTL DEF Spec

(* Tabs, buffers, views, jobs and answers have their types. *)
THEOREM TypeCorrect == Spec => []TypeOK
<1>1. IInv => TypeOK
  BY DEF IInv
<1> QED BY <1>1, Invariant, PTL

(* No request of an open buffer is lost, whichever of its views close:        *)
(* spawn, hand_over, cancel_for and drain of jobs/mod.rs under drop_tab_state *)
(* and kill_buffer_now.                                                       *)
THEOREM HeldRequests == Spec => []RequestsAreHeld
<1>1. IInv => RequestsAreHeld
  <2> SUFFICES ASSUME IInv, NEW i \in Asks, fate[i] = "open", IsAlive(asker[i])
               PROVE  \/ /\ running[i] # None /\ shows[running[i]] = asker[i]
                         /\ worker[i] \in {"works", "dead"} \/ i \in Arrived
                      \/ Awaits(refused, i)
                      \/ Awaits(batch, i)
    BY DEF RequestsAreHeld
  <2>1. /\ RunningOK(shows, running, fate) /\ HeldOK(shows, running, refused, fate, batch)
        /\ RefusedOK(shows, nextTab, running, refused, fate)
        /\ worker[i] \in {"none", "works", "sent", "dead"}
    BY DEF IInv, JobInv, JobsOK, TypeOK, JobTypes
  <2>2. \E t \in Tabs : shows[t] = asker[i]
    BY DEF IsAlive, Views
  <2>3. CASE running[i] # None
    BY <2>1, <2>3 DEF RunningOK
  <2>4. CASE running[i] = None
    BY <2>1, <2>2, <2>4 DEF HeldOK, RefusedOK, Awaits
  <2> QED BY <2>3, <2>4
<1> QED BY <1>1, Invariant, PTL

(* An answer reaches only the buffer that asked, once, and not once called    *)
(* off: deliver_finished_jobs.                                                *)
THEOREM AnswersGoToTheAsker == Spec => AnswersReachTheAsker
<1>1. IInv /\ [Next]_vars => [Deliver => LET t == Head(batch).tab
                                             i == Head(batch).ask IN
        shows[t] = asker[i] /\ fate[i] = "open"]_vars
  <2> SUFFICES ASSUME IInv, Deliver
               PROVE  LET t == Head(batch).tab
                          i == Head(batch).ask IN
                      shows[t] = asker[i] /\ fate[i] = "open"
    OBVIOUS
  <2>1. BatchOK(shows, nextTab, running, refused, fate, batch)
    BY DEF IInv, JobInv, JobsOK
  <2>2. /\ 1 \in DOMAIN batch /\ Head(batch) = batch[1]
        /\ Head(batch).tab # None /\ shows[Head(batch).tab] # None
    BY InBatch DEF Deliver, HasTab, IsOpen, IInv, TypeOK
  <2> QED BY <2>1, <2>2 DEF BatchOK
<1> QED BY <1>1, Invariant, PTL DEF Spec, AnswersReachTheAsker

(* Each view is found where it was left: load_view of open_tabs.rs.           *)
THEOREM PlacesAreKept == Spec => []ViewsKeepTheirPlace
<1>1. IInv => ViewsKeepTheirPlace
  BY DEF IInv, ViewInv
<1> QED BY <1>1, Invariant, PTL

(* A buried tab is its buffer's only view, loaded and hidden: bury and        *)
(* unbury of open_tabs.rs, set_shown.                                         *)
THEOREM BuriedStayAside == Spec => []BuriedAreSetAside
<1>1. IInv => BuriedAreSetAside
  BY DEF IInv, ViewInv
<1> QED BY <1>1, Invariant, PTL
=============================================================================
