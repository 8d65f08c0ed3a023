------------------------------ MODULE RepoWatch ------------------------------
(***************************************************************************)
(* Git's status views of one repository and the watch they share: the      *)
(* registry of running watches, the watcher's thread, each view's own      *)
(* changes waiting, and the status reads the window runs for it.           *)
(*                                                                         *)
(* A start is the thread that sets a view's watch up.  It numbers the      *)
(* TreeWatch it makes, which follows the repository's watch for the view,  *)
(* and the RepoWatch it sets up where none runs.                           *)
(***************************************************************************)
EXTENDS Debounce, Sequences

CONSTANTS
    Views,
    MaxStarts,    \* bound: watches asked for
    MaxChanges    \* bound: changes made to the repository

ASSUME BoundsAssumption ==
    MaxStarts \in Nat /\ MaxChanges \in Nat

VARIABLES
    disk,     \* the changes made, whether the top-level directory they are in was,
              \* and whether git's lock is there
    starts,   \* the starts, in order, each with its thread's state and TreeWatch
    watches,  \* by start, the RepoWatch it set up: its platform's queue, the
              \* trees told and not yet flagged, whether the directory is watched
    registry, \* REPOS: the watch last noted for the repository, 0 for none
    views,    \* by view: shown, its tree and the one starting, what it reads
    jobs      \* by view, its status reads under way: what each holds at least

vars == <<disk, starts, watches, registry, views, jobs>>

Starts == 1 .. MaxStarts

\* What a status read holds at least: all there is; or all but what changed since
\* it was asked for, among the files alone or in git's directory too.
Reading == {"fresh", "oldFiles", "old"}
AfterChange(read, inGit) == IF inGit \/ read = "old" THEN "old" ELSE "oldFiles"

NoWatch == [queue |-> {}, telling |-> {}, covered |-> FALSE]
\* owed and owedGit say whether the tree's view is to read a change, and one in
\* git's directory; toldDir, whether the directory was made under it.
NewStart ==
    [pc |-> "look", repo |-> 0, look |-> "none", channel |-> {}, news |-> FALSE,
     burst |-> NoBurst, git |-> FALSE, owed |-> FALSE, owedGit |-> FALSE, toldDir |-> FALSE]
Ended == [NewStart EXCEPT !.pc = "ended"]

Ids == 1 .. Len(starts)
Pc(s) == starts[s].pc
\* A view holds the tree it follows, and the answer of the start it waits on.
HeldBy(s, V) == \E v \in Views : V[v].tree = s \/ V[v].starting = s
Following(s, V) == Pc(s) = "done" /\ HeldBy(s, V)

\* Arc: a watch runs while its setter-up, a thread about to subscribe, or a
\* tree follows it.
Runs(w, S) == w # 0 /\ \E s \in DOMAIN S :
    S[s].repo = w /\ S[s].pc \in {"insert", "subscribe", "done"}
Running(w) == Runs(w, starts)
Subscribers(w) == {s \in Ids : Pc(s) = "done" /\ starts[s].repo = w}

\* What a view or a thread let go of is gone, and a watch nobody holds with it.
Dropped(S, V) == [s \in DOMAIN S |->
    IF S[s].pc = "done" /\ ~HeldBy(s, V) THEN Ended ELSE S[s]]
Kept(W, S) == [w \in Starts |-> IF Runs(w, S) THEN W[w] ELSE NoWatch]

TypeOK ==
    /\ disk \in [changes : 0 .. MaxChanges, made : BOOLEAN, locked : BOOLEAN]
    /\ starts \in Seq([repo : 0 .. MaxStarts,
                       pc : {"look", "setup", "insert", "subscribe", "done", "ended"},
                       look : {"none", "drain", "decide"}, channel : SUBSET BOOLEAN,
                       news : BOOLEAN, burst : Bursts, git : BOOLEAN,
                       owed : BOOLEAN, owedGit : BOOLEAN, toldDir : BOOLEAN])
    /\ Len(starts) <= MaxStarts
    /\ watches \in [Starts -> [queue : SUBSET BOOLEAN, telling : SUBSET Starts,
                               covered : BOOLEAN]]
    /\ registry \in 0 .. MaxStarts
    /\ views \in [Views -> [shown : BOOLEAN, tree : 0 .. MaxStarts, starting : 0 .. MaxStarts,
                            watching : {"no", "status", "full"}]]
    /\ jobs \in [Views -> Seq(Reading)]

Init ==
    /\ disk \in [changes : {0}, made : BOOLEAN, locked : {FALSE}]
    /\ starts = <<>> /\ watches = [w \in Starts |-> NoWatch] /\ registry = 0
    /\ views = [v \in Views |-> [shown |-> FALSE, tree |-> 0, starting |-> 0, watching |-> "no"]]
    /\ jobs = [v \in Views |-> <<>>]

-------------------------------------------------------------------------------
(* The repository.                                                         *)

\* Whether a change reaches the watch: one inside the directory only where that
\* has a watch of its own.
Notified(w, where) == Running(w) /\ (where = "inside" => watches[w].covered)
\* A view is to read every change its watch is notified of, and those in a
\* directory whose making it was.
Owes(s, where) ==
    \/ Notified(starts[s].repo, where)
    \/ where = "inside" /\ starts[s].toldDir

Change(where) ==
    LET inGit == where = "git" IN
    /\ disk.changes < MaxChanges
    /\ where = "make" => ~disk.made
    /\ where = "inside" => disk.made
    /\ disk' = [disk EXCEPT !.changes = @ + 1, !.made = @ \/ where = "make"]
    /\ watches' = [w \in Starts |->
           IF Notified(w, where) THEN [watches[w] EXCEPT !.queue = @ \cup {inGit}]
           ELSE watches[w]]
    /\ starts' = [s \in Ids |->
           IF Pc(s) = "done" /\ Owes(s, where)
           THEN [starts[s] EXCEPT !.owed = TRUE, !.owedGit = @ \/ inGit,
                                  !.toldDir = @ \/ where = "make"]
           ELSE starts[s]]
    /\ jobs' = [v \in Views |-> [i \in DOMAIN jobs[v] |-> AfterChange(jobs[v][i], inGit)]]
    /\ UNCHANGED <<registry, views>>

\* Git takes its index lock and gives it back, or dies and leaves it.
SetLock(locked) ==
    /\ disk.locked = ~locked /\ (locked => disk.changes < MaxChanges)
    /\ disk' = [disk EXCEPT !.locked = locked]
    /\ UNCHANGED <<starts, watches, registry, views, jobs>>

\* Nothing is told apart past the oldest age.  A look takes no time.
Tick ==
    /\ \A s \in Ids : starts[s].look = "none"
    /\ starts' = [s \in Ids |-> [starts[s] EXCEPT !.burst = Aged(@)]]
    /\ starts' # starts
    /\ UNCHANGED <<disk, watches, registry, views, jobs>>

-------------------------------------------------------------------------------
(* The watcher's thread: under the subscribers' lock, every one is sent    *)
(* the change, then every one is flagged and the window woken.             *)

Tell(w, inGit) ==
    /\ inGit \in watches[w].queue /\ watches[w].telling = {} /\ Running(w)
    /\ watches' = [watches EXCEPT ![w].queue = @ \ {inGit}, ![w].telling = Subscribers(w)]
    /\ starts' = [s \in Ids |->
           IF s \in Subscribers(w) THEN [starts[s] EXCEPT !.channel = @ \cup {inGit}]
           ELSE starts[s]]
    /\ UNCHANGED <<disk, registry, views, jobs>>
Flag(w) ==
    /\ watches[w].telling # {}
    /\ watches' = [watches EXCEPT ![w].telling = {}]
    /\ starts' = [s \in Ids |->
           IF s \in watches[w].telling /\ Pc(s) = "done" THEN [starts[s] EXCEPT !.news = TRUE]
           ELSE starts[s]]
    /\ UNCHANGED <<disk, registry, views, jobs>>

-------------------------------------------------------------------------------
(* Setting a watch up, on a thread: TreeWatch::start.                      *)

\* running: the registry's watch, taken hold of, or its entry removed.
Look(s) ==
    /\ Pc(s) = "look"
    /\ IF Running(registry)
       THEN /\ starts' = [starts EXCEPT ![s].pc = "subscribe", ![s].repo = registry]
            /\ UNCHANGED registry
       ELSE /\ registry' = 0
            /\ starts' = [starts EXCEPT ![s].pc = "setup"]
    /\ UNCHANGED <<disk, watches, views, jobs>>
\* RepoWatch::start: what is there is watched; nobody is told yet.
SetUp(s) ==
    /\ Pc(s) = "setup"
    /\ starts' = [starts EXCEPT ![s].pc = "insert", ![s].repo = s]
    /\ watches' = [watches EXCEPT ![s].covered = disk.made]
    /\ UNCHANGED <<disk, registry, views, jobs>>
\* A watch another start set up meanwhile is the one kept.
ChosenFault(s) == s
Chosen(s) == IF Running(registry) THEN registry ELSE s
Insert(s) ==
    /\ Pc(s) = "insert"
    /\ registry' = Chosen(s)
    /\ starts' = [starts EXCEPT ![s].pc = "subscribe", ![s].repo = Chosen(s)]
    /\ watches' = Kept(watches, starts')
    /\ UNCHANGED <<disk, views, jobs>>
\* The watch was set up, or could not be, and a view gone meanwhile lets it go.
Answer(s, subscribed) ==
    /\ \/ subscribed /\ Pc(s) = "subscribe" /\ watches[starts[s].repo].telling = {}
       \/ ~subscribed /\ Pc(s) = "setup"
    /\ starts' = Dropped([starts EXCEPT ![s].pc = IF subscribed THEN "done" ELSE "ended"], views)
    /\ watches' = Kept(watches, starts')
    /\ UNCHANGED <<disk, registry, views, jobs>>

-------------------------------------------------------------------------------
(* The views, on the window's thread, which sees a look through.           *)

IsFree == \A s \in Ids : starts[s].look = "none"

\* A read of the status is asked of the window's jobs.
Asked(v) == jobs' = [jobs EXCEPT ![v] = Append(@, "fresh")]

\* The view is opened, or dug up again: a watch is set up on a thread, and the
\* status read.
Show(v) ==
    /\ ~views[v].shown /\ Len(starts) < MaxStarts /\ IsFree
    /\ starts' = Append(starts, NewStart)
    /\ views' = [views EXCEPT ![v].shown = TRUE, ![v].starting = Len(starts) + 1,
                              ![v].watching = "no"]
    /\ Asked(v)
    /\ UNCHANGED <<disk, watches, registry>>
Bury(v) ==
    /\ views[v].shown /\ IsFree
    /\ views' = [views EXCEPT ![v].shown = FALSE, ![v].tree = 0, ![v].starting = 0]
    /\ starts' = Dropped(starts, views')
    /\ watches' = Kept(watches, starts')
    /\ UNCHANGED <<disk, registry, jobs>>
\* adopt_started_watch, on a tick: a view whose watch could not be set up goes
\* unwatched.
Adopt(v) ==
    LET s == views[v].starting IN
    /\ s # 0 /\ Pc(s) \in {"done", "ended"} /\ IsFree
    /\ views' = [views EXCEPT ![v].starting = 0, ![v].tree = IF Pc(s) = "done" THEN s ELSE 0]
    /\ UNCHANGED <<disk, starts, watches, registry, jobs>>

\* changed, on a tick, where no read of the watch's is out.  The flag is cleared
\* first, the channel taken in next, and what to read decided last.
Tree(v) == starts[views[v].tree]
IsWatching(v) == views[v].tree # 0 /\ views[v].watching = "no" /\ IsFree
\* next_look: there is news, or a read falls due and git's lock does not hold it up.
MustLook(v) ==
    /\ IsWatching(v)
    /\ \/ Tree(v).news
       \/ IsDue(Tree(v).burst) /\ (disk.locked => IsOverdue(Tree(v).burst))
ClearNews(v) ==
    /\ IsWatching(v) /\ (MustLook(v) \/ Tree(v).channel # {})
    /\ starts' = [starts EXCEPT ![views[v].tree].news = FALSE, ![views[v].tree].look = "drain"]
    /\ UNCHANGED <<disk, watches, registry, views, jobs>>

MergedFault(git, channel) == IF channel = {} THEN git ELSE FALSE \notin channel
Merged(git, channel) == git \/ TRUE \in channel
\* A new top-level directory is watched once a change was taken in.
Drain(v) ==
    LET t == views[v].tree
        arrived == Tree(v).channel # {} IN
    /\ t # 0 /\ Tree(v).look = "drain"
    /\ starts' = [starts EXCEPT
           ![t].channel = {}, ![t].look = "decide",
           ![t].git = Merged(@, Tree(v).channel),
           ![t].burst = IF arrived THEN TakeChange(@) ELSE @]
    /\ watches' = [watches EXCEPT ![Tree(v).repo].covered = @ \/ (arrived /\ disk.made)]
    /\ UNCHANGED <<disk, registry, views, jobs>>

\* Nothing is read while git holds its lock, unless the burst has waited as long
\* as it may.
NewsLeftFault(t) == FALSE
NewsLeft(t) == t.news
Decide(v) ==
    LET t == views[v].tree
        b == Tree(v).burst IN
    /\ t # 0 /\ Tree(v).look = "decide"
    /\ IF IsDue(b) /\ (disk.locked => IsOverdue(b))
       THEN /\ starts' = [starts EXCEPT ![t].burst = MarkRead(b), ![t].git = FALSE,
                                        ![t].news = NewsLeft(Tree(v)), ![t].look = "none"]
            /\ views' = [views EXCEPT ![v].watching = IF Tree(v).git THEN "full" ELSE "status"]
            /\ Asked(v)
       ELSE /\ starts' = [starts EXCEPT ![t].news = NewsLeft(Tree(v)), ![t].look = "none"]
            /\ UNCHANGED <<views, jobs>>
    /\ UNCHANGED <<disk, watches, registry>>

-------------------------------------------------------------------------------
(* The status reads, each on a worker thread, answered as they end.        *)

Without(q, i) == SubSeq(q, 1, i - 1) \o SubSeq(q, i + 1, Len(q))
\* An answer is the watch's where a read of the watch's is out: then one for the
\* files alone reads no more than the status.
Answered(v, i) ==
    LET read == jobs[v][i]
        filesOnly == views[v].watching = "status" IN
    /\ IsFree
    /\ jobs' = [jobs EXCEPT ![v] = Without(@, i)]
    /\ views' = [views EXCEPT ![v].watching = "no"]
    /\ starts' = [s \in Ids |->
           IF s # views[v].tree THEN starts[s]
           ELSE [starts[s] EXCEPT !.owed = @ /\ read # "fresh",
                                  !.owedGit = @ /\ (read = "old" \/ filesOnly)]]
    /\ UNCHANGED <<disk, watches, registry>>

-------------------------------------------------------------------------------

StartSteps(s) == Look(s) \/ SetUp(s) \/ Insert(s) \/ Answer(s, TRUE)
WatcherSteps(w) == (\E inGit \in BOOLEAN : Tell(w, inGit)) \/ Flag(w)
JobSteps(v) == \E i \in DOMAIN jobs[v] : Answered(v, i)
UserSteps(v) == Show(v) \/ Bury(v)

Next ==
    \/ \E where \in {"git", "make", "inside"} : Change(where)
    \/ \E locked \in BOOLEAN : SetLock(locked)
    \/ Tick
    \/ \E w \in Starts : WatcherSteps(w)
    \/ \E s \in Ids : StartSteps(s) \/ Answer(s, FALSE)
    \/ \E v \in Views :
         \/ UserSteps(v) \/ JobSteps(v)
         \/ Adopt(v) \/ ClearNews(v) \/ Drain(v) \/ Decide(v)

\* Threads run on, time passes, and the window ticks a view when it asked to be.
\* Git may never give its lock back.
Fairness ==
    /\ SF_vars(Tick)
    /\ \A w \in Starts : WF_vars(WatcherSteps(w))
    /\ \A s \in Starts : WF_vars(s \in Ids /\ StartSteps(s))
    /\ \A v \in Views :
         /\ WF_vars(JobSteps(v)) /\ WF_vars(Adopt(v))
         /\ WF_vars(MustLook(v) /\ ClearNews(v)) /\ WF_vars(Drain(v)) /\ WF_vars(Decide(v))
Spec == Init /\ [][Next]_vars /\ Fairness

-------------------------------------------------------------------------------
(* Properties.                                                             *)

\* Every change told to a view's watch comes to be read by a status read that
\* began after it: no news is lost between the
\* watcher's thread and the window's, and a lock left behind holds up nothing.
HasRead(v) == views[v].tree # 0 => ~Tree(v).owed
ChangesAreRead == \A v \in Views : <>[]HasRead(v)

\* A change in git's own directory comes to be read in full, whichever of the
\* view's reads is taken for the watch's.
HasReadFull(v) == views[v].tree # 0 => ~Tree(v).owedGit
GitChangesAreReadInFull == \A v \in Views : <>[]HasReadFull(v)

\* What has come, or is to come, to the tree of a start, and is not yet taken in.
OnItsWay(s) == watches[starts[s].repo].queue \cup starts[s].channel
\* View v has a read out that began after the changes it is to read; and one
\* that began after those in git's directory, and is not to be cut short.
ReadsAll(v) == \E i \in DOMAIN jobs[v] : jobs[v][i] = "fresh"
ReadsGit(v) ==
    \E i \in DOMAIN jobs[v] :
        /\ jobs[v][i] # "old"
        /\ views[v].watching = "status" => \E j \in DOMAIN jobs[v] \ {i} : jobs[v][j] # "old"

IsRemembered(s) ==
    starts[s].owed =>
        \/ OnItsWay(s) # {} \/ starts[s].burst.pending
        \/ \E v \in Views : views[v].tree = s /\ ReadsAll(v)
GitIsRemembered(s) ==
    starts[s].owedGit =>
        \/ TRUE \in OnItsWay(s)
        \/ starts[s].git /\ starts[s].burst.pending
        \/ \E v \in Views : views[v].tree = s /\ ReadsGit(v)
IsWoken(s) ==
    starts[s].channel # {} =>
        \/ starts[s].news \/ starts[s].look = "drain"
        \/ s \in watches[starts[s].repo].telling

\* At every moment, what a view is still to read is on its way, or waits for its
\* burst to be due, or is being read, wherever threads and reads interleave; and
\* who has changes to take in was woken for them, or is about to be.
NothingIsForgotten ==
    \A s \in Ids : Pc(s) = "done" => IsRemembered(s) /\ GitIsRemembered(s) /\ IsWoken(s)

\* watch.rs:21 "One repository is watched once however many views follow it."
WatchedOnce ==
    \A s, t \in Ids :
        Pc(s) \in {"subscribe", "done"} /\ Pc(t) \in {"subscribe", "done"}
            => starts[s].repo = starts[t].repo

\* watch.rs:10 "So a burst is read twice at most": a view late to look, or held
\* up by a lock or by its own reads, does not read it more.
BurstsAreReadTwice == \A s \in Ids : starts[s].burst.early <= 1
===============================================================================
