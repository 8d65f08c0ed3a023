------------------------------- MODULE LspHub ----------------------------------
(***************************************************************************)
(* The window's language servers: the Hub on the window's thread, each     *)
(* server's process with a thread writing to it, one reading it and, once  *)
(* it is being stopped, one seeing it out (the reaper), and the editor of  *)
(* one document that hands its text over.  One project is served, so one   *)
(* server at a time runs; a stopped one lives on with its threads.         *)
(*                                                                         *)
(* Times are left out: a wait that has a limit may end at any moment.  The *)
(* pipes are left out: a message leaves the queue as the process reads it, *)
(* and what a process says is chosen as the reader reads it, which may be  *)
(* after it ended.  A process is free in what it says and reads.           *)
(***************************************************************************)
EXTENDS Naturals, Sequences

CONSTANTS
    Capacity,     \* MAX_QUEUED_MESSAGES
    MaxServers,   \* bound: servers started
    MaxEdits,     \* bound: edits of the document
    MaxSaid,      \* bound: messages the servers send of their own accord
    MaxEvents     \* bound: events not yet drained

ASSUME BoundAssumption ==
    /\ {Capacity, MaxEvents} \subseteq Nat \ {0}
    /\ {MaxServers, MaxEdits, MaxSaid} \subseteq Nat

Servers == 1 .. MaxServers
Revisions == 0 .. MaxEdits
NoServer == 0
NotSynced == [server |-> NoServer, revision |-> 0]
NoText == MaxEdits + 1

VARIABLES
    window,      \* the window's thread: loop, delivering (in deliver_lsp), quitting, gone
    running,     \* Hub.servers
    started,     \* next_server - 1
    news,        \* whether Hub.generation moved since the editors were handed the servers
    busy,        \* the servers in Hub.progress
    events,      \* what the readers told and the hub has not drained
    ports,       \* the editor's ports
    synced,      \* the document's: the server that has it, the revision it has
    revision,    \* of the document's text
    shown,       \* the servers whose problems the editor shows
    problems,    \* the servers with problems in the diagnostics store
    ready,       \* the servers whose Shared.ready is set
    queue,       \* to each writer thread
    reader,      \* the reader threads: none, reading, readying, ended
    reaper,      \* none, waiting (for the answer to shutdown), exiting
    process,     \* none, up, ended
    text,        \* the document as the process last read it
    unanswered,  \* the servers that read `initialize' and whose answer was not read
    spoken       \* messages the servers sent of their own accord

hubVars == <<window, running, started, news, busy>>
editorVars == <<ports, synced, revision, shown>>
processVars == <<process, text, unanswered, spoken>>
vars == <<hubVars, editorVars, processVars, events, problems, ready, queue, reader, reaper>>

Document(r) == [type |-> "document", revision |-> r]   \* didOpen, didChange: the whole text
Message(t) == [type |-> t, revision |-> NoText]        \* other: replies, `shutdown', `exit'
Messages == {Message(t) : t \in {"initialize", "initialized", "other"}}
                \cup {Document(r) : r \in Revisions}
Events == [server : Servers, event : {"Ready", "Exited", "Diagnostics", "Progress", "ProgressEnd"}]

TypeOK ==
    /\ window \in {"loop", "delivering", "quitting", "gone"}
    /\ {running, busy, ports, shown, problems, ready, unanswered} \subseteq SUBSET Servers
    /\ started \in 0 .. MaxServers /\ spoken \in 0 .. MaxSaid
    /\ news \in BOOLEAN
    /\ events \in Seq(Events)
    /\ synced \in [server : Servers \cup {NoServer}, revision : Revisions]
    /\ revision \in Revisions
    /\ queue \in [Servers -> Seq(Messages)]
    /\ reader \in [Servers -> {"none", "reading", "readying", "ended"}]
    /\ reaper \in [Servers -> {"none", "waiting", "exiting"}]
    /\ process \in [Servers -> {"none", "up", "ended"}]
    /\ text \in [Servers -> Revisions \cup {NoText}]

Init ==
    /\ window = "loop" /\ running = {} /\ started = 0 /\ news = FALSE /\ busy = {}
    /\ events = <<>> /\ problems = {}
    /\ ports = {} /\ synced = NotSynced /\ revision = 0 /\ shown = {}
    /\ ready = {} /\ unanswered = {} /\ spoken = 0
    /\ queue = [s \in Servers |-> <<>>]
    /\ reader = [s \in Servers |-> "none"]
    /\ reaper = [s \in Servers |-> "none"]
    /\ process = [s \in Servers |-> "none"]
    /\ text = [s \in Servers |-> NoText]

-------------------------------------------------------------------------------
(* The queue to a server.  A message that finds no room is dropped.  What  *)
(* is queued to a process that ended is lost, and a message to it queued   *)
(* or dropped as the writer has failed already or not.                     *)

\* Shared.to_server: there until the server is stopped or its reader ends.
Open(s) == s \in running /\ reader[s] # "ended"

HasRoom(s) == process[s] = "up" /\ Len(queue[s]) < Capacity
Sent(s, m) == IF HasRoom(s) THEN [queue EXCEPT ![s] = Append(@, m)] ELSE queue
MaySend(s) == Open(s) /\ (HasRoom(s) \/ process[s] = "ended")
MayDrop(s) == ~(Open(s) /\ HasRoom(s))

\* What a reader tells the hub.  Once the hub is being dropped nobody drains it,
\* and what the readers and processes do until they end is left out.
InUse == window \in {"loop", "delivering"}
Tell(s, e) ==
    /\ Len(events) < MaxEvents
    /\ events' = Append(events, [server |-> s, event |-> e])

-------------------------------------------------------------------------------
(* The editor.                                                             *)

\* hand_over: what the editor takes server s to have, and had, once it sent the
\* text.  A change that was dropped is sent again by a later hand-over.
HandedOverFault(s, had) == {[server |-> s, revision |-> revision]}
HandedOver(s, had) ==
    {y \in {[server |-> s, revision |-> revision]} : MaySend(s)}
        \cup {y \in {IF had.server = s THEN had ELSE NotSynced} : MayDrop(s)}

SyncUnreadyFault(P, had) ==
    \/ P = {} /\ synced' = NotSynced /\ queue' = queue
    \/ \E s \in P :
         /\ synced' \in HandedOver(s, had)
         /\ queue' = IF Open(s) THEN Sent(s, Document(revision)) ELSE queue

\* sync_documents: the document as it now reads to the ready server that serves it.
Sync(P, had) ==
    \/ /\ P \cap ready = {}
       /\ synced' = NotSynced /\ queue' = queue
    \/ \E s \in P \cap ready :
         IF had = [server |-> s, revision |-> revision]
         THEN synced' = had /\ queue' = queue
         ELSE /\ synced' \in HandedOver(s, had)
              /\ queue' = IF Open(s) THEN Sent(s, Document(revision)) ELSE queue

Edit ==
    /\ window = "loop" /\ revision < MaxEdits
    /\ revision' = revision + 1
    /\ UNCHANGED <<hubVars, ports, synced, shown, processVars,
                   events, problems, ready, queue, reader, reaper>>

\* on_tick, and whatever else hands the documents over.
Tick ==
    /\ window = "loop"
    /\ Sync(ports, synced)
    /\ UNCHANGED <<hubVars, ports, revision, shown, processVars,
                   events, problems, ready, reader, reaper>>

-------------------------------------------------------------------------------
(* The hub.                                                                *)

\* start: the process and its threads, and `initialize' queued to it.  (A program
\* that cannot be run changes nothing.)
NewServer == started + 1
Started(queued) ==
    /\ NewServer \in Servers
    /\ started' = NewServer
    /\ running' = {NewServer}
    /\ queue' = [queued EXCEPT ![NewServer] = <<Message("initialize")>>]
    /\ reader' = [reader EXCEPT ![NewServer] = "reading"]
    /\ process' = [process EXCEPT ![NewServer] = "up"]

Start ==
    /\ window = "loop" /\ running = {}
    /\ Started(queue)
    /\ UNCHANGED <<window, news, busy, editorVars, text, unanswered, spoken,
                   events, problems, ready, reaper>>

\* reap, and shut_down's part on the window's thread: a ready server is asked to
\* shut down, and the queue passes to the reaper unless the reader closed it.
AskedToShutDown(s) == IF s \in ready /\ Open(s) THEN Sent(s, Message("other")) ELSE queue
ShutDown(s) ==
    /\ ready' = ready \ {s}
    /\ reaper' = [reaper EXCEPT ![s] = IF Open(s) THEN "waiting" ELSE "exiting"]

\* Hub::stop.
Stop(s) ==
    /\ busy' = busy \ {s}
    /\ problems' = problems \ {s}
    /\ ShutDown(s)

\* stop_lsp: stopped, and the editors told at once that nothing serves them.
StopLsp(s) ==
    /\ window = "loop" /\ s \in running
    /\ Stop(s)
    /\ running' = running \ {s}
    /\ queue' = AskedToShutDown(s)
    /\ news' = FALSE
    /\ ports' = {} /\ shown' = problems \ {s} /\ synced' = NotSynced
    /\ UNCHANGED <<window, started, revision, processVars, events, reader>>

\* restart_lsp: stopped and started again; the editors are told at the next delivery.
RestartLsp(s) ==
    /\ window = "loop" /\ s \in running
    /\ Stop(s)
    /\ Started(AskedToShutDown(s))
    /\ news' = TRUE
    /\ UNCHANGED <<window, editorVars, text, unanswered, spoken, events>>

DrainReadyFault ==
    UNCHANGED <<running, news, busy, problems, shown, ready, queue, reaper>>
DrainExitedFault(s) ==
    /\ running' = running \ {s} /\ busy' = busy \ {s} /\ problems' = problems \ {s}
    /\ news' = (news \/ s \in running)
    /\ UNCHANGED <<shown, ready, queue, reaper>>

\* drain and pass_on, one event.  The end of a server that was stopped is no news;
\* one that ended by itself, or refused to start, is stopped now.
DrainReady ==
    /\ news' = TRUE
    /\ UNCHANGED <<running, busy, problems, shown, ready, queue, reaper>>
DrainDiagnostics(s) ==
    /\ shown' = IF s \in ports THEN problems ELSE shown
    /\ UNCHANGED <<running, news, busy, problems, ready, queue, reaper>>
DrainProgress(s, going) ==
    /\ busy' = IF going THEN busy \cup {s} ELSE busy \ {s}
    /\ UNCHANGED <<running, news, problems, shown, ready, queue, reaper>>
DrainExited(s) ==
    \/ /\ s \in running
       /\ Stop(s)
       /\ running' = running \ {s}
       /\ queue' = AskedToShutDown(s)
       /\ news' = TRUE
       /\ UNCHANGED shown
    \/ /\ s \notin running
       /\ busy' = busy \ {s}
       /\ UNCHANGED <<running, news, problems, shown, ready, queue, reaper>>
Drain ==
    /\ InUse /\ events # <<>>
    /\ window' = "delivering" /\ events' = Tail(events)
    /\ LET s == Head(events).server
           e == Head(events).event
       IN \/ e = "Ready" /\ DrainReady
          \/ e = "Diagnostics" /\ DrainDiagnostics(s)
          \/ e = "Progress" /\ DrainProgress(s, TRUE)
          \/ e = "ProgressEnd" /\ DrainProgress(s, FALSE)
          \/ e = "Exited" /\ DrainExited(s)
    /\ UNCHANGED <<started, ports, synced, revision, processVars, reader>>

HandOverFault ==
    /\ InUse /\ events = <<>>
    /\ window' = "loop" /\ news' = FALSE
    /\ IF news
       THEN /\ ports' = running
            /\ Sync(running, IF synced.server \in running THEN synced ELSE NotSynced)
            /\ UNCHANGED shown
       ELSE UNCHANGED <<ports, synced, queue, shown>>
    /\ UNCHANGED <<running, started, busy, revision, processVars,
                   events, problems, ready, reader, reaper>>

\* hand_servers_over, at the end of deliver_lsp, and connect: a server the document
\* was handed to and that is gone is forgotten, the document handed to the one
\* there is, and the problems shown are read afresh from the store.
HandOver ==
    /\ InUse /\ events = <<>>
    /\ window' = "loop" /\ news' = FALSE
    /\ IF news
       THEN /\ ports' = running
            /\ Sync(running, IF synced.server \in running THEN synced ELSE NotSynced)
            /\ shown' = problems
       ELSE UNCHANGED <<ports, synced, queue, shown>>
    /\ UNCHANGED <<running, started, busy, revision, processVars,
                   events, problems, ready, reader, reaper>>

\* Dropping the hub: every server is stopped, its reaper hurried after a while, and
\* joined.  A reaper is done once it sees that the process has ended.
Quit ==
    /\ window = "loop"
    /\ window' = "quitting" /\ running' = {}
    /\ \/ running = {} /\ UNCHANGED <<busy, problems, queue, ready, reaper>>
       \/ \E s \in running : Stop(s) /\ queue' = AskedToShutDown(s)
    /\ UNCHANGED <<started, news, editorVars, processVars, events, reader>>
ReapedFault == TRUE
Reaped == \A s \in Servers : reaper[s] # "none" => process[s] = "ended"
Joined ==
    /\ window = "quitting" /\ Reaped
    /\ window' = "gone"
    /\ UNCHANGED <<running, started, news, busy, editorVars, processVars,
                   events, problems, ready, queue, reader, reaper>>

-------------------------------------------------------------------------------
(* The process of server s.                                                *)

\* It reads its next message, through the writer thread.
Reads(s) ==
    /\ InUse /\ process[s] = "up" /\ queue[s] # <<>>
    /\ LET m == Head(queue[s]) IN
         /\ text' = IF m.type = "document" THEN [text EXCEPT ![s] = m.revision] ELSE text
         /\ unanswered' = IF m.type = "initialize" THEN unanswered \cup {s} ELSE unanswered
    /\ queue' = [queue EXCEPT ![s] = Tail(@)]
    /\ UNCHANGED <<hubVars, editorVars, process, spoken,
                   events, problems, ready, reader, reaper>>

Ended(s) ==
    /\ process' = [process EXCEPT ![s] = "ended"]
    /\ text' = [text EXCEPT ![s] = NoText]
    /\ queue' = [queue EXCEPT ![s] = <<>>]
Ends(s) ==
    /\ InUse /\ process[s] = "up"
    /\ Ended(s)
    /\ UNCHANGED <<hubVars, editorVars, unanswered, spoken,
                   events, problems, ready, reader, reaper>>

-------------------------------------------------------------------------------
(* The threads of server s.                                                *)

Reading(s) == InUse /\ reader[s] = "reading"

\* `initialize' is answered: `initialized' is queued, and the port then ready.
ReaderGreets(s) ==
    /\ Reading(s) /\ s \in unanswered
    /\ unanswered' = unanswered \ {s}
    /\ queue' = Sent(s, Message("initialized"))
    /\ reader' = [reader EXCEPT ![s] = "readying"]
    /\ UNCHANGED <<hubVars, editorVars, process, text, spoken,
                   events, problems, ready, reaper>>
ReaderReadies(s) ==
    /\ InUse /\ reader[s] = "readying"
    /\ ready' = ready \cup {s}
    /\ Tell(s, "Ready")
    /\ reader' = [reader EXCEPT ![s] = "reading"]
    /\ UNCHANGED <<hubVars, editorVars, processVars, problems, queue, reaper>>

\* An answer that refuses to start is told as the server's end.
ReaderRefused(s) ==
    /\ Reading(s) /\ s \in unanswered
    /\ unanswered' = unanswered \ {s}
    /\ Tell(s, "Exited")
    /\ UNCHANGED <<hubVars, editorVars, process, text, spoken,
                   problems, ready, queue, reader, reaper>>

\* Anything the server says of its own accord.  The reader has a sender of its own,
\* so it answers the questions of a server that is being stopped too.
ReaderReads(s) ==
    /\ Reading(s) /\ spoken < MaxSaid
    /\ spoken' = spoken + 1
    /\ \/ /\ queue' = Sent(s, Message("other"))
          /\ UNCHANGED <<events, problems>>
       \/ /\ problems' \in {problems \cup {s}, problems \ {s}}
          /\ Tell(s, "Diagnostics")
          /\ UNCHANGED queue
       \/ /\ Tell(s, "Progress") \/ Tell(s, "ProgressEnd")
          /\ UNCHANGED <<problems, queue>>
    /\ UNCHANGED <<hubVars, editorVars, process, text, unanswered, ready, reader, reaper>>

\* The output has ended or cannot be framed (the process may be up): not ready any
\* more and the queue let go of, then told.
ReaderEnds(s) ==
    /\ Reading(s)
    /\ ready' = ready \ {s}
    /\ reader' = [reader EXCEPT ![s] = "ended"]
    /\ Tell(s, "Exited")
    /\ UNCHANGED <<hubVars, editorVars, processVars, problems, queue, reaper>>
ReaderCloses(s) == process[s] = "ended" /\ ReaderEnds(s)

\* The reaper: `exit' where it has the queue, then the kill if need be.
ReaperExits(s) ==
    /\ reaper[s] = "waiting"
    /\ queue' = Sent(s, Message("other"))
    /\ reaper' = [reaper EXCEPT ![s] = "exiting"]
    /\ UNCHANGED <<hubVars, editorVars, processVars, events, problems, ready, reader>>
ReaperKills(s) ==
    /\ reaper[s] = "exiting" /\ process[s] = "up"
    /\ Ended(s)
    /\ UNCHANGED <<hubVars, editorVars, unanswered, spoken,
                   events, problems, ready, reader, reaper>>

-------------------------------------------------------------------------------

Window == Edit \/ Tick \/ Start \/ Drain \/ HandOver \/ Quit \/ Joined
              \/ \E s \in Servers : StopLsp(s) \/ RestartLsp(s)
Reader(s) == ReaderGreets(s) \/ ReaderReadies(s) \/ ReaderRefused(s)
                 \/ ReaderReads(s) \/ ReaderEnds(s)
Reaper(s) == ReaperExits(s) \/ ReaperKills(s)
Next == Window \/ \E s \in Servers : Reads(s) \/ Ends(s) \/ Reader(s) \/ Reaper(s)

Fairness ==
    /\ WF_vars(Drain) /\ WF_vars(HandOver) /\ WF_vars(Joined)
    /\ \A s \in Servers :
         WF_vars(ReaderReadies(s)) /\ WF_vars(ReaderCloses(s)) /\ WF_vars(Reaper(s))
Spec == Init /\ [][Next]_vars /\ Fairness

-------------------------------------------------------------------------------
(* Properties.                                                             *)

IsDocument(m) == m.type = "document"

\* A server is handed no document before it was sent `initialized', though the
\* reader sends the one and the editor, on another thread, the other: where
\* `initialized' is still on its way, every document is behind it.
DocumentsFollowInitialized ==
    \A s \in Servers : \A i \in DOMAIN queue[s] :
        queue[s][i] = Message("initialized")
            => text[s] = NoText /\ \A j \in 1 .. i : ~IsDocument(queue[s][j])

\* What the editor takes a server to have is what it has, or has once it reads
\* what is queued, also when a full queue dropped changes.
LastTold(s, r) ==
    \/ \E i \in DOMAIN queue[s] :
         /\ queue[s][i] = Document(r)
         /\ \A j \in i + 1 .. Len(queue[s]) : ~IsDocument(queue[s][j])
    \/ /\ text[s] = r
       /\ \A i \in DOMAIN queue[s] : ~IsDocument(queue[s][i])
ServersHaveTheText ==
    synced.server # NoServer /\ process[synced.server] = "up"
        => LastTold(synced.server, synced.revision)

\* Between deliveries, the editor has every server that is ready, and no server
\* that is gone, whatever was started, stopped or ended meanwhile.
AtRest == window = "loop" /\ events = <<>> /\ ~news
EditorsKnowTheServers ==
    AtRest => ports \subseteq running /\ running \cap ready \subseteq ports

\* Between deliveries, the editor shows the problems of the servers it has just
\* when the store, which changes on the reader's thread, has some.
ShownAreTheProblems ==
    AtRest => shown \cap ports = problems \cap ports

\* No server's process outlives the hub.
NoServerOutlivesTheHub ==
    window = "gone" => \A s \in Servers : process[s] # "up"

\* A process that is up and not among the hub's servers has a reaper, which ends it
\* even if it ignores everything: also one that refused to start, or whose output
\* could not be read while it ran on.
StoppedServersAreReaped ==
    \A s \in Servers : process[s] = "up" /\ s \notin running => reaper[s] # "none"

\* What a server said it is busy with is not kept once the server is gone: while
\* the hub has it, the server runs or its last end is still to be told, also where
\* the hub hears of the work after the stop.
ProgressIsForgotten ==
    InUse => \A s \in busy \ running :
        \/ reader[s] # "ended"
        \/ \E i \in DOMAIN events : events[i] = [server |-> s, event |-> "Exited"]

\* diagnostics.rs:88 "Forget everything `backend` found: its checker has stopped."
\* Violated: the reader of a stopped server still publishes.
ProblemsAreOfServers ==
    \A s \in problems : s \in running \/ reader[s] # "ended"
===============================================================================
