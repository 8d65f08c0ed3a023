------------------------------ MODULE EditorJobs ------------------------------
(* Buffers, the tabs that are views of them, and the jobs they ask of worker  *)
(* threads: window/layout/open_tabs.rs, the closing paths of                  *)
(* window/layout/tabs.rs and window/editor/closing.rs, and                    *)
(* window/runtime/jobs/mod.rs of winter-term.                                 *)
(*                                                                            *)
(* The window's thread owns all of it; a worker only sends the number of its  *)
(* job. Jobs are kept under the tab that asked, not its buffer, while tabs    *)
(* close, hand over to other views, are buried and come back. Every action    *)
(* of the window is one step, but for the delivery of answers, between two of *)
(* which workers may answer and editors ask again.                            *)
EXTENDS Naturals, Sequences, FiniteSets

CONSTANTS
  MaxTabs,      \* tab ids ever allocated
  MaxBuffers,   \* buffers ever opened
  MaxAsks,      \* requests ever made
  MaxInFlight,  \* MAX_IN_FLIGHT
  Places        \* what a view keeps of its own: cursor and scroll

None == 0       \* no tab, no buffer, no view state
Tabs == 1..MaxTabs
Buffers == 1..MaxBuffers
Asks == 1..MaxAsks

ASSUME EditorJobsAssumption ==
  /\ MaxTabs \in Nat /\ MaxBuffers \in Nat /\ MaxAsks \in Nat
  /\ MaxInFlight \in Nat
  /\ Places # {} /\ None \notin Places

(* A launcher holds a pane's place: it asks for no jobs and is never buried.  *)
Kinds == {"editor", "launcher"}

Top == CHOOSE p \in Places : TRUE      \* where an editor opens

VARIABLES
  shows,       \* the buffer each tab is a view of; None for an id not in use
  kept,        \* EditorTab::state: a view's place while another is loaded
  buried,      \* OpenTabs::buried
  nextTab,
  kind,        \* of each buffer
  loaded,      \* Buffer::loaded: the tab whose view the editor holds
  at,          \* the place the editor holds
  hidden,      \* what set_shown last told the editor
  nextBuffer,
  running,     \* Jobs::running: the tab each job is for; None outside the map
  stop,        \* RunningJob::cancel
  refused,     \* Jobs::refused
  nextAsk,
  worker,      \* each job's thread
  rx,          \* the channel of finished jobs
  batch,       \* the answers deliver_finished_jobs still has to hand out
  asker,       \* history: the buffer that made each request
  fate,        \* history: what became of it
  where        \* history: where each view was left

layout == <<shows, buried, nextTab>>
buffers == <<kind, hidden, nextBuffer>>
views == <<kept, loaded, at, where>>
jobs == <<running, stop, refused, nextAsk>>
threads == <<worker, rx>>
told == <<asker, fate>>
vars == <<layout, buffers, views, jobs, threads, batch, told>>

Answers == [tab : Tabs \cup {None}, ask : Asks]

ViewTypes ==
  /\ shows \in [Tabs -> Buffers \cup {None}]
  /\ kept \in [Tabs -> Places \cup {None}]
  /\ buried \subseteq Tabs
  /\ nextTab \in 1..MaxTabs + 1
  /\ kind \in [Buffers -> Kinds]
  /\ loaded \in [Buffers -> Tabs \cup {None}]
  /\ at \in [Buffers -> Places]
  /\ hidden \in [Buffers -> BOOLEAN]
  /\ nextBuffer \in 1..MaxBuffers + 1
  /\ where \in [Tabs -> Places \cup {None}]

JobTypes ==
  /\ running \in [Asks -> Tabs \cup {None}]
  /\ stop \in [Asks -> BOOLEAN]
  /\ refused \in Seq(Answers)
  /\ nextAsk \in 1..MaxAsks + 1
  /\ worker \in [Asks -> {"none", "works", "sent", "dead"}]
  /\ rx \in Seq(Asks)
  /\ batch \in Seq(Answers)
  /\ asker \in [Asks -> Buffers \cup {None}]
  /\ fate \in [Asks -> {"unasked", "open", "heard", "cancelled"}]

TypeOK == ViewTypes /\ JobTypes

Init ==
  /\ shows = [t \in Tabs |-> None]
  /\ kept = [t \in Tabs |-> None]
  /\ buried = {}
  /\ nextTab = 1
  /\ kind = [b \in Buffers |-> "editor"]
  /\ loaded = [b \in Buffers |-> None]
  /\ at = [b \in Buffers |-> Top]
  /\ hidden = [b \in Buffers |-> FALSE]
  /\ nextBuffer = 1
  /\ running = [i \in Asks |-> None]
  /\ stop = [i \in Asks |-> FALSE]
  /\ refused = << >>
  /\ nextAsk = 1
  /\ worker = [i \in Asks |-> "none"]
  /\ rx = << >>
  /\ batch = << >>
  /\ asker = [i \in Asks |-> None]
  /\ fate = [i \in Asks |-> "unasked"]
  /\ where = [t \in Tabs |-> None]

-------------------------------------------------------------------------------
(* Tabs and buffers *)

IsOpen(t) == shows[t] # None
Views(b) == {t \in Tabs : shows[t] = b}
OtherViewsFault(t) == {u \in Tabs : IsOpen(u)} \ {t}
OtherViews(t) == Views(shows[t]) \ {t}
LowestOther(t) == CHOOSE u \in OtherViews(t) : \A v \in OtherViews(t) : u <= v

(* The window's thread is between two events, with no answers in its hands.   *)
AtRest == batch = << >>

(* load_view: the editor holds view t, which is left at place p. The view     *)
(* held before keeps its place in its own tab.                                *)
ResumedFault(t) == at[shows[t]]

Resumed(t) ==
  IF loaded[shows[t]] # t /\ kept[t] # None THEN kept[t] ELSE at[shows[t]]

LoadAt(t, p) ==
  LET b == shows[t]
      before == loaded[b] IN
  /\ loaded' = [loaded EXCEPT ![b] = t]
  /\ at' = [at EXCEPT ![b] = p]
  /\ kept' = IF before = t
             THEN kept
             ELSE [u \in Tabs |-> CASE u = t -> None
                                    [] u = before -> at[b]
                                    [] OTHER -> kept[u]]

(* What the user sees of a view is where it was left, from the first time it  *)
(* is loaded on.                                                              *)
Load(t) ==
  /\ LoadAt(t, Resumed(t))
  /\ where' = [where EXCEPT ![t] = IF @ = None THEN Resumed(t) ELSE @]

(* The buffers and their views once the views T of buffer b are removed, and  *)
(* b with the last of them: remove_view.                                      *)
Removed(T, b) ==
  LET drop(f, gone) == [f EXCEPT ![b] = IF Views(b) \subseteq T THEN gone ELSE @]
  IN [shows  |-> [u \in Tabs |-> IF u \in T THEN None ELSE shows[u]],
      kept   |-> [u \in Tabs |-> IF u \in T THEN None ELSE kept[u]],
      where  |-> [u \in Tabs |-> IF u \in T THEN None ELSE where[u]],
      loaded |-> [loaded EXCEPT ![b] = IF @ \in T THEN None ELSE @],
      at     |-> drop(at, Top),
      kind   |-> drop(kind, "editor"),
      hidden |-> drop(hidden, FALSE)]

AsTheyAre ==
  [shows |-> shows, kept |-> kept, where |-> where, loaded |-> loaded,
   at |-> at, kind |-> kind, hidden |-> hidden]

Become(o) ==
  /\ shows' = o.shows /\ kept' = o.kept /\ where' = o.where
  /\ loaded' = o.loaded /\ at' = o.at /\ kind' = o.kind /\ hidden' = o.hidden

(* insert_editor, with the tabs and buffers as o has them. *)
Insert(t, k, o) ==
  /\ nextBuffer <= MaxBuffers
  /\ nextBuffer' = nextBuffer + 1
  /\ Become([shows  |-> [o.shows EXCEPT ![t] = nextBuffer],
             kept   |-> [o.kept EXCEPT ![t] = None],
             where  |-> [o.where EXCEPT ![t] = Top],
             loaded |-> [o.loaded EXCEPT ![nextBuffer] = t],
             at     |-> [o.at EXCEPT ![nextBuffer] = Top],
             kind   |-> [o.kind EXCEPT ![nextBuffer] = k],
             hidden |-> [o.hidden EXCEPT ![nextBuffer] = FALSE]])

-------------------------------------------------------------------------------
(* Jobs *)

(* What the window's thread changes of Jobs, and of what is said of each ask. *)
Current ==
  [running |-> running, stop |-> stop, refused |-> refused, fate |-> fate]

InFlight(j) == {i \in Asks : j.running[i] # None}

(* spawn, with Jobs as j has them: the request of view t of buffer b runs, or *)
(* is turned away with an answer, at capacity or for want of a thread.        *)
Start(t, j) ==
  /\ Cardinality(InFlight(j)) < MaxInFlight
  /\ running' = [j.running EXCEPT ![nextAsk] = t]
  /\ worker' = [worker EXCEPT ![nextAsk] = "works"]
  /\ refused' = j.refused

Refuse(t, j) ==
  /\ refused' = Append(j.refused, [tab |-> t, ask |-> nextAsk])
  /\ running' = j.running
  /\ UNCHANGED worker

Spawn(t, b, j) ==
  /\ nextAsk <= MaxAsks
  /\ nextAsk' = nextAsk + 1
  /\ asker' = [asker EXCEPT ![nextAsk] = b]
  /\ fate' = [j.fate EXCEPT ![nextAsk] = "open"]
  /\ stop' = j.stop
  /\ Start(t, j) \/ Refuse(t, j)
  /\ UNCHANGED rx

NoSpawn(j) ==
  /\ running' = j.running
  /\ stop' = j.stop
  /\ refused' = j.refused
  /\ fate' = j.fate
  /\ UNCHANGED <<nextAsk, threads, asker>>

MaySpawn(t, b, j) == NoSpawn(j) \/ Spawn(t, b, j)

HandedToFault(T, to) == refused

HandedTo(T, to) ==
  [k \in DOMAIN refused |-> IF refused[k].tab \in T
                            THEN [refused[k] EXCEPT !.tab = to] ELSE refused[k]]

HandedOver(from, to) ==
  [Current EXCEPT
     !.running = [i \in Asks |-> IF running[i] = from THEN to ELSE running[i]],
     !.refused = HandedTo({from}, to)]

(* cancel_for the tabs T: their jobs leave the map, their refusals stay.      *)
Cancelled(T) ==
  [Current EXCEPT
     !.running = [i \in Asks |-> IF running[i] \in T THEN None ELSE running[i]],
     !.stop = [i \in Asks |-> stop[i] \/ running[i] \in T]]

StoppedForFault(t) == Cancelled({t})

StoppedFor(t) ==
  [Current EXCEPT !.stop = [i \in Asks |-> stop[i] \/ running[i] = t]]

(* drop_tab_state: to the first of the other views, if there is one.          *)
Dropped(t) ==
  IF OtherViews(t) # {} THEN HandedOver(t, LowestOther(t)) ELSE Cancelled({t})

-------------------------------------------------------------------------------
(* The window's actions, each with no answers still to hand out *)

(* show_editor, a split held by a launcher, open_git_view with its request.   *)
Open(k) ==
  /\ AtRest
  /\ nextTab <= MaxTabs
  /\ Insert(nextTab, k, AsTheyAre)
  /\ nextTab' = nextTab + 1
  /\ \/ NoSpawn(Current)
     \/ k # "launcher" /\ Spawn(nextTab, nextBuffer, Current)
  /\ UNCHANGED <<buried, batch>>

(* show_view_here: another view of a buffer other panes show. *)
AddView(t) ==
  /\ AtRest
  /\ IsOpen(t) /\ t \notin buried
  /\ nextTab <= MaxTabs
  /\ shows' = [shows EXCEPT ![nextTab] = shows[t]]
  /\ nextTab' = nextTab + 1
  /\ UNCHANGED <<buried, buffers, views, jobs, threads, batch, told>>

(* A key moves in view t. *)
Move(t, p) ==
  /\ AtRest
  /\ IsOpen(t) /\ t \notin buried
  /\ LoadAt(t, p)
  /\ where' = [where EXCEPT ![t] = p]
  /\ UNCHANGED <<layout, buffers, jobs, threads, batch, told>>

(* A key, or a tick, which buried buffers have too while work is under way.   *)
Ask(t) ==
  /\ AtRest
  /\ IsOpen(t) /\ kind[shows[t]] # "launcher"
  /\ Load(t)
  /\ Spawn(t, shows[t], Current)
  /\ UNCHANGED <<layout, buffers, batch>>

(* EditorOutcome::CancelJobs *)
CancelJobs(t) ==
  /\ AtRest
  /\ IsOpen(t) /\ t \notin buried
  /\ Load(t)
  /\ NoSpawn([Cancelled({t}) EXCEPT !.fate =
       [i \in Asks |-> IF running[i] = t THEN "cancelled" ELSE fate[i]]])
  /\ UNCHANGED <<layout, buffers, batch>>

(* The stop key, while the tab has tasks: what is stopped still answers.      *)
StopTasks(t) ==
  /\ AtRest
  /\ \E i \in Asks : running[i] = t
  /\ t \notin buried
  /\ NoSpawn(StoppedFor(t))
  /\ UNCHANGED <<layout, buffers, views, batch>>

BuryFault(t) ==
  /\ AtRest
  /\ IsOpen(t) /\ t \notin buried
  /\ OtherViews(t) = {} /\ kind[shows[t]] = "editor"
  /\ hidden' = [hidden EXCEPT ![shows[t]] = TRUE]
  /\ buried' = buried \cup {t}
  /\ UNCHANGED <<shows, nextTab, views, kind, nextBuffer, jobs, threads, batch,
                 told>>

(* close_tab_now and close_pane_now, of the last view of a buffer worth       *)
(* keeping.                                                                   *)
Bury(t) ==
  /\ AtRest
  /\ IsOpen(t) /\ t \notin buried
  /\ OtherViews(t) = {} /\ kind[shows[t]] = "editor"
  /\ Load(t)
  /\ hidden' = [hidden EXCEPT ![shows[t]] = TRUE]
  /\ buried' = buried \cup {t}
  /\ UNCHANGED <<shows, nextTab, kind, nextBuffer, jobs, threads, batch, told>>

(* The same, of one of several views, of an editor not worth keeping or with  *)
(* Closing::Forget: its work goes to another view, or is cancelled.           *)
Close(t) ==
  /\ AtRest
  /\ IsOpen(t) /\ t \notin buried
  /\ NoSpawn(Dropped(t))
  /\ Become(Removed({t}, shows[t]))
  /\ buried' = buried \ {t}
  /\ UNCHANGED <<nextTab, nextBuffer, batch>>

(* kill_buffer_now: every other view, whose work comes to be t's, then t.     *)
Kill(t) ==
  /\ AtRest
  /\ IsOpen(t)
  /\ NoSpawn([Cancelled(Views(shows[t])) EXCEPT
                !.refused = HandedTo(Views(shows[t]), t)])
  /\ Become(Removed(Views(shows[t]), shows[t]))
  /\ buried' = buried \ Views(shows[t])
  /\ UNCHANGED <<nextTab, nextBuffer, batch>>

(* show_buffer, show_buried_beside, show_buried_in_dock: back in a pane,      *)
(* and on_resume may read anew.                                               *)
Show(t) ==
  /\ AtRest
  /\ t \in buried
  /\ Load(t)
  /\ hidden' = [hidden EXCEPT ![shows[t]] = FALSE]
  /\ buried' = buried \ {t}
  /\ MaySpawn(t, shows[t], Current)
  /\ UNCHANGED <<shows, nextTab, kind, nextBuffer, batch>>

(* launch_from: an editor takes the launcher's place, under its tab id.       *)
Replace(t) ==
  /\ AtRest
  /\ IsOpen(t) /\ kind[shows[t]] = "launcher"
  /\ Insert(t, "editor", Removed({t}, shows[t]))
  /\ MaySpawn(t, nextBuffer, Dropped(t))
  /\ UNCHANGED <<buried, nextTab, batch>>

-------------------------------------------------------------------------------
(* Answers *)

(* The worker's thread. A panic ends it without an answer. *)
Work(i) ==
  /\ worker[i] = "works"
  /\ worker' = [worker EXCEPT ![i] = "sent"]
  /\ rx' = Append(rx, i)
  /\ UNCHANGED <<layout, buffers, views, jobs, batch, told>>

Panic(i) ==
  /\ worker[i] = "works"
  /\ worker' = [worker EXCEPT ![i] = "dead"]
  /\ UNCHANGED <<layout, buffers, views, jobs, rx, batch, told>>

(* drain: the refusals, then what has arrived, each for the tab it is for     *)
(* now. An answer outside the map is for no tab, and dropped.                 *)
Arrived == {i \in Asks : \E k \in DOMAIN rx : rx[k] = i}

Drain ==
  /\ AtRest
  /\ refused # << >> \/ rx # << >>
  /\ batch' = refused \o [k \in DOMAIN rx |->
                            [tab |-> running[rx[k]], ask |-> rx[k]]]
  /\ refused' = << >>
  /\ rx' = << >>
  /\ running' = [i \in Asks |-> IF i \in Arrived THEN None ELSE running[i]]
  /\ UNCHANGED <<layout, buffers, views, stop, nextAsk, worker, told>>

(* One turn of deliver_finished_jobs: a tab gone by now gets nothing; on_job  *)
(* may ask for more.                                                          *)
HasTab(answer) == answer.tab # None /\ IsOpen(answer.tab)

Deliver ==
  /\ batch # << >> /\ HasTab(Head(batch))
  /\ LET t == Head(batch).tab
         i == Head(batch).ask IN
     /\ Load(t)
     /\ MaySpawn(t, shows[t], [Current EXCEPT !.fate[i] = "heard"])
  /\ batch' = Tail(batch)
  /\ UNCHANGED <<layout, buffers>>

Skip ==
  /\ batch # << >> /\ ~HasTab(Head(batch))
  /\ batch' = Tail(batch)
  /\ UNCHANGED <<layout, buffers, views, jobs, threads, told>>

Next ==
  \/ \E k \in Kinds : Open(k)
  \/ \E t \in Tabs :
       \/ AddView(t) \/ Ask(t) \/ CancelJobs(t) \/ StopTasks(t) \/ Bury(t)
       \/ Close(t) \/ Kill(t) \/ Show(t) \/ Replace(t)
       \/ \E p \in Places : Move(t, p)
  \/ \E i \in Asks : Work(i) \/ Panic(i)
  \/ Drain \/ Deliver \/ Skip

(* The loop wakes at least once in every poll interval and drains; a worker   *)
(* told to stop looks at its flag and ends. Others may run for ever.          *)
Fairness ==
  /\ WF_vars(Drain \/ Deliver \/ Skip)
  /\ \A i \in Asks : WF_vars(stop[i] /\ (Work(i) \/ Panic(i)))

Spec == Init /\ [][Next]_vars /\ Fairness

-------------------------------------------------------------------------------
(* Properties *)

IsAlive(b) == b # None /\ Views(b) # {}

Awaits(s, i) == \E k \in DOMAIN s :
  s[k].ask = i /\ s[k].tab # None /\ shows[s[k].tab] = asker[i]

(* A request whose buffer is open and has not called it off is kept under a   *)
(* view of that buffer, through every closing of the view that asked: as a    *)
(* job whose answer is still to come or has come, or as an answer not yet     *)
(* handed out. No answer is lost with a tab, and none is left that nobody     *)
(* brings.                                                                    *)
RequestsAreHeld ==
  \A i \in Asks : fate[i] = "open" /\ IsAlive(asker[i]) =>
    \/ /\ running[i] # None /\ shows[running[i]] = asker[i]
       /\ worker[i] \in {"works", "dead"} \/ i \in Arrived
    \/ Awaits(refused, i)
    \/ Awaits(batch, i)

(* An answer is handed only to the buffer that asked, once, and not after it  *)
(* called its jobs off, whichever of its views are open by then and whoever   *)
(* has the tab it asked from.                                                 *)
AnswersReachTheAsker ==
  [][Deliver => LET t == Head(batch).tab
                    i == Head(batch).ask IN
       shows[t] = asker[i] /\ fate[i] = "open"]_vars

(* Each view is found where it was left: the editor holds one view's place    *)
(* and the tabs keep the others', through keys in any of them, answers        *)
(* handed to any of them, and the closing of the one that was loaded.         *)
ViewsKeepTheirPlace ==
  \A t \in Tabs : IsOpen(t) /\ where[t] # None =>
    where[t] = IF loaded[shows[t]] = t THEN at[shows[t]] ELSE kept[t]

(* A buried tab is the only view of its buffer, the one its editor holds      *)
(* (tick_editors goes by that to leave buried buffers alone), and the editor  *)
(* knows that it is hidden; an editor with any other view knows it is shown.  *)
BuriedAreSetAside ==
  \A t \in Tabs : IsOpen(t) =>
    /\ t \in buried => Views(shows[t]) = {t} /\ loaded[shows[t]] = t
    /\ hidden[shows[t]] = (t \in buried)

(* A request that was turned away, that is told to stop, or whose job is      *)
(* done, is answered, unless its buffer goes or its worker panicked.          *)
IsDue(i) == fate[i] = "open" /\ (stop[i] \/ worker[i] \in {"none", "sent"})

DueAreAnswered ==
  \A i \in Asks : IsDue(i) ~>
    (fate[i] # "open" \/ ~IsAlive(asker[i]) \/ worker[i] = "dead")

=============================================================================
