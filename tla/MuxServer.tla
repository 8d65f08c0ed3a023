------------------------------ MODULE MuxServer ------------------------------
(***************************************************************************)
(* The headless session server of winter-mux: one event-loop thread that   *)
(* owns every client record and every PTY session, a reader and a writer   *)
(* thread per client connection, and a reader thread per session program.  *)
(*                                                                         *)
(* The threads feed one FIFO inbox.  An event is modelled where it is      *)
(* handled: its wait in the inbox is a delay of the thread that sent it,   *)
(* and every thread's own events keep their order.  Handling one event is  *)
(* several steps of the loop (`loop' is its position), so that writer      *)
(* threads and a crash can fall between them, but no second event is taken *)
(* before the first one's last step: the sizes it asked to be arbitrated   *)
(* (`arbitrating'), the doomed clients it left (`reaping'), and the save.  *)
(***************************************************************************)
EXTENDS MuxSize, Sequences, FiniteSets, Functions

CONSTANTS
    Name,             \* session names that pass validate_session_name
    Geometries,       \* geometries a client may ask for
    DefaultGeometry,  \* DEFAULT_COLS x DEFAULT_ROWS, cell size unknown
    MaxClients,       \* bound: connections accepted per run of the server
    MaxGeneration,    \* bound: sessions created per run of the server
    MaxOutput,        \* bound: chunks a program writes
    MaxRestarts,      \* bound: crashes of the server process
    HistoryCap,       \* SCROLLBACK_CAPACITY_BYTES, in chunks
    OutboxLimit,      \* CLIENT_OUTBOX_LIMIT, in frames
    ResizeMayFail,    \* whether the PTY's resize can report an error
    SaveMayFail       \* whether writing the defs file can fail

ASSUME NameAssumption == IsFiniteSet(Name)
ASSUME GeometryAssumption ==
    /\ Geometries \subseteq Geometry
    /\ DefaultGeometry \in Geometry
ASSUME BoundAssumption ==
    /\ MaxClients \in Nat
    /\ MaxGeneration \in Nat
    /\ MaxOutput \in Nat
    /\ MaxRestarts \in Nat
    /\ HistoryCap \in Nat \ {0}
    /\ OutboxLimit \in Nat
    /\ ResizeMayFail \in BOOLEAN
    /\ SaveMayFail \in BOOLEAN

Client == 1 .. MaxClients
SessionId == [generation : 1 .. MaxGeneration, name : Name]
\* One batch of output, identified by the incarnation that wrote it.
Chunk == [generation : 1 .. MaxGeneration, index : 1 .. MaxOutput]

ServerMessage ==
    [type : {"Answer"}]  \* Hello, Error, SessionList: about no session's stream
        \cup [type : {"Attached", "Resized"}, session : Name, grid : Grid]
        \cup [type : {"Scrollback"}, session : Name, bytes : Seq(Chunk)]
        \cup [type : {"Output"}, session : Name, bytes : Chunk]
        \cup [type : {"Exit"}, session : Name]

VARIABLES
    \* the event loop
    loop, nextClientId, arbitrating, reaping,
    \* Dispatcher and its clients (a client not in `clients' has no record)
    clients, doomed, attachments, wanted, outbox, sessionsChanged,
    \* SessionManager: the live generation of a name (0: none) and its state
    sessions, nextGeneration, geometry, history,
    \* the programs behind the sessions, and how much each has written
    program, produced,
    \* the connection threads, and what a client was handed by them
    reader, writer, view,
    \* the defs file, the recipes still to respawn, and crashes so far
    saved, respawning, restarts

loopVars == <<nextClientId, reaping>>
clientVars == <<clients, attachments, wanted>>
queueVars == <<doomed, outbox>>
managerVars == <<sessions, nextGeneration, geometry, history, program, produced>>
threadVars == <<reader, writer, view>>
fileVars == <<saved, respawning, restarts>>
vars == <<loop, loopVars, arbitrating, clientVars, queueVars, sessionsChanged,
          managerVars, threadVars, fileVars>>

-----------------------------------------------------------------------------
(* Sessions *)

\* (The variants of a definition named `...Fault' are mistakes the checks
\* must catch; nothing uses them.)
IdOf(n, g) == [generation |-> g, name |-> n]
Live(n) == sessions[n] # 0
LiveNames == {n \in Name : Live(n)}
Current(n) == IdOf(n, sessions[n])
IsCurrentByNameFault(id) == sessions[id.name] # 0
IsCurrent(id) == sessions[id.name] = id.generation
IsAttached(c, id) == id \in attachments[c]

\* The session `n' starts, running a fresh program, in the next generation.
CreateWith(n, g) ==
    /\ nextGeneration <= MaxGeneration
    /\ sessions' = [sessions EXCEPT ![n] = nextGeneration]
    /\ geometry' = [geometry EXCEPT ![n] = g]
    /\ history' = [history EXCEPT ![n] = <<>>]
    /\ program' = [program EXCEPT ![IdOf(n, nextGeneration)] = "running"]
    /\ nextGeneration' = nextGeneration + 1
    /\ UNCHANGED produced

-----------------------------------------------------------------------------
(* Outboxes *)

\* Frames a client's outbox still takes: none once it is doomed or its
\* writer thread is gone.
Room(c) ==
    IF c \in doomed \/ writer[c] # "writing" THEN 0
    ELSE OutboxLimit - Len(outbox[c])

\* The outboxes after queueing msgs[c] for every client c: a client takes
\* frames until the first that does not fit.
Queued(msgs) ==
    [c \in Client |->
        IF Len(msgs[c]) <= Room(c) THEN outbox[c] \o msgs[c]
        ELSE outbox[c] \o SubSeq(msgs[c], 1, Room(c))]
RefusingNobodyFault(msgs) == {}
Refusing(msgs) == {c \in Client : Len(msgs[c]) > Room(c)}

Enqueue(msgs) ==
    /\ outbox' = Queued(msgs)
    /\ doomed' = doomed \cup Refusing(msgs)

ToClient(c, msgs) == [d \in Client |-> IF d = c /\ d \in clients THEN msgs ELSE <<>>]
ToAttached(id, msg) ==
    [d \in Client |-> IF d \in clients /\ IsAttached(d, id) THEN <<msg>> ELSE <<>>]

Reply(c, msg) == Enqueue(ToClient(c, <<msg>>))
Answer == [type |-> "Answer"]
ReplyError(c) == Reply(c, Answer)

AttachReplies(n, g, bytes, replay) ==
    LET attached == [type |-> "Attached", session |-> n, grid |-> GridOf(g)]
        scrollback == [type |-> "Scrollback", session |-> n, bytes |-> bytes]
    IN  IF replay /\ bytes # <<>> THEN <<attached, scrollback>> ELSE <<attached>>

-----------------------------------------------------------------------------
(* Size arbitration *)

Wants(id) == {wanted[c][id] : c \in {d \in clients : id \in DOMAIN wanted[d]}}

\* sync_session_size: one session's turn, of those the event asked for.
SyncSizeFault(id) ==
    LET n == id.name
        g == EffectiveSize(Wants(id))
        told == ToAttached(id, [type |-> "Resized", session |-> n, grid |-> GridOf(g)])
        changes == IsCurrent(id) /\ Wants(id) # {} /\ g # geometry[n]
    IN  /\ id \in arbitrating
        /\ arbitrating' = arbitrating \ {id}
        /\ IF changes /\ GridOf(g) # GridOf(geometry[n]) THEN Enqueue(told) ELSE UNCHANGED queueVars
        /\ \/ changes /\ geometry' = [geometry EXCEPT ![n] = g]
           \/ (changes => ResizeMayFail) /\ UNCHANGED geometry
        /\ UNCHANGED <<loop, loopVars, clientVars, sessionsChanged, sessions,
                       nextGeneration, history, program, produced, threadVars, fileVars>>
SyncSize(id) ==
    LET n == id.name
        g == EffectiveSize(Wants(id))
        told == ToAttached(id, [type |-> "Resized", session |-> n, grid |-> GridOf(g)])
    IN  /\ id \in arbitrating
        /\ arbitrating' = arbitrating \ {id}
        /\ \/ /\ IsCurrent(id) /\ Wants(id) # {} /\ g # geometry[n]
              /\ geometry' = [geometry EXCEPT ![n] = g]
              /\ IF GridOf(g) # GridOf(geometry[n]) THEN Enqueue(told) ELSE UNCHANGED queueVars
           \/ /\ IsCurrent(id) /\ Wants(id) # {} /\ g # geometry[n] => ResizeMayFail
              /\ UNCHANGED <<geometry, queueVars>>
        /\ UNCHANGED <<loop, loopVars, clientVars, sessionsChanged, sessions,
                       nextGeneration, history, program, produced, threadVars, fileVars>>

-----------------------------------------------------------------------------
(* The event loop *)

\* The loop takes an event; what follows it is the rest of its iteration.
Handle == loop = "receive" /\ loop' = "handled"
\* It takes a frame of client c, which may have been removed meanwhile.
HandleFrame(c) ==
    /\ Handle
    /\ reader[c] = "reading"
    /\ UNCHANGED <<loopVars, threadVars, fileVars>>

\* Event::Connected: the threads start, or the connection cannot be served.
Connect(opened) ==
    /\ Handle
    /\ nextClientId <= MaxClients
    /\ nextClientId' = nextClientId + 1
    /\ IF opened
       THEN /\ clients' = clients \cup {nextClientId}
            /\ reader' = [reader EXCEPT ![nextClientId] = "reading"]
            /\ writer' = [writer EXCEPT ![nextClientId] = "writing"]
       ELSE UNCHANGED <<clients, reader, writer>>
    /\ UNCHANGED <<reaping, arbitrating, attachments, wanted, queueVars, sessionsChanged,
                   managerVars, view, fileVars>>

\* Client c no longer constrains the sessions it did: their turn to be
\* arbitrated comes.
UnconstrainFault(c) ==
    /\ attachments' = [attachments EXCEPT ![c] = {}]
    /\ wanted' = [wanted EXCEPT ![c] = <<>>]
    /\ arbitrating' = {}
Unconstrain(c) ==
    /\ attachments' = [attachments EXCEPT ![c] = {}]
    /\ wanted' = [wanted EXCEPT ![c] = <<>>]
    /\ arbitrating' = DOMAIN wanted[c]

\* remove_client: the record goes, then its sessions' sizes are arbitrated.
\* The queue stays behind for the writer thread to finish.
RemoveClient(c) ==
    /\ clients' = clients \ {c}
    /\ doomed' = doomed \ {c}
    /\ Unconstrain(c)
    /\ UNCHANGED outbox

\* Event::Closed, the last a connection's reader thread sends.
Closed(c) ==
    /\ Handle
    /\ reader[c] = "reading"
    /\ reader' = [reader EXCEPT ![c] = "done"]
    /\ RemoveClient(c)
    /\ UNCHANGED <<loopVars, sessionsChanged, managerVars, writer, view, fileVars>>

\* reap_doomed, first half: who is doomed is settled before anyone goes.
CollectDoomed ==
    /\ loop = "handled" /\ arbitrating = {}
    /\ reaping' = doomed
    /\ loop' = "reap"
    /\ UNCHANGED <<nextClientId, arbitrating, clientVars, queueVars, sessionsChanged,
                   managerVars, threadVars, fileVars>>

Reap(c) ==
    /\ loop = "reap" /\ arbitrating = {}
    /\ c \in reaping
    /\ reaping' = reaping \ {c}
    /\ RemoveClient(c)
    /\ UNCHANGED <<loop, nextClientId, sessionsChanged, managerVars, threadVars, fileVars>>

\* Nothing is left of the event, or of startup, but the save.
SettledFault == arbitrating = {} /\ reaping = {}
Settled == arbitrating = {} /\ reaping = {} /\ respawning = {}

\* persist_if_changed: the flag is consumed whether or not the write works.
Persist(written) ==
    /\ Settled
    /\ loop \in {"boot", "reap"}
    /\ loop' = "receive"
    /\ sessionsChanged' = FALSE
    /\ ~written => sessionsChanged /\ SaveMayFail
    /\ saved' = IF sessionsChanged /\ written THEN LiveNames ELSE saved
    /\ UNCHANGED <<loopVars, arbitrating, clientVars, queueVars, managerVars, threadVars,
                   respawning, restarts>>

\* One recipe of the defs file, at startup: a session of its own again, or
\* (a name or command that no longer works) a change to save.
RespawnFault(n, started) ==
    /\ loop = "boot" /\ n \in respawning
    /\ respawning' = respawning \ {n}
    /\ IF started THEN CreateWith(n, DefaultGeometry) ELSE UNCHANGED managerVars
    /\ UNCHANGED <<loop, loopVars, arbitrating, clientVars, queueVars, sessionsChanged,
                   threadVars, saved, restarts>>
Respawn(n, started) ==
    /\ loop = "boot" /\ n \in respawning
    /\ respawning' = respawning \ {n}
    /\ IF started
       THEN CreateWith(n, DefaultGeometry) /\ UNCHANGED sessionsChanged
       ELSE sessionsChanged' = TRUE /\ UNCHANGED managerVars
    /\ UNCHANGED <<loop, loopVars, arbitrating, clientVars, queueVars, threadVars,
                   saved, restarts>>

-----------------------------------------------------------------------------
(* Requests *)

\* A frame that does not decode, or names no valid session.
BadRequest(c) ==
    /\ HandleFrame(c)
    /\ ReplyError(c)
    /\ UNCHANGED <<arbitrating, clientVars, sessionsChanged, managerVars>>

Greet(c, supported) ==
    LET answer == ToClient(c, <<Answer>>)
    IN  /\ HandleFrame(c)
        /\ outbox' = Queued(answer)
        /\ doomed' = doomed \cup Refusing(answer)
                        \cup (IF supported THEN {} ELSE {c} \cap clients)
        /\ UNCHANGED <<arbitrating, clientVars, sessionsChanged, managerVars>>

ListSessions(c) ==
    /\ HandleFrame(c)
    /\ Reply(c, Answer)
    /\ UNCHANGED <<arbitrating, clientVars, sessionsChanged, managerVars>>

\* Attaching client c to id, when it still has a record.
AttachClient(c, id) ==
    attachments' = IF c \in clients THEN [attachments EXCEPT ![c] = @ \cup {id}]
                   ELSE attachments

Attach(c, n, replay) ==
    /\ HandleFrame(c)
    /\ \/ /\ Live(n)
          /\ AttachClient(c, Current(n))
          /\ Enqueue(ToClient(c, AttachReplies(n, geometry[n], history[n], replay)))
          /\ UNCHANGED <<managerVars, sessionsChanged>>
       \/ /\ ~Live(n)
          /\ CreateWith(n, DefaultGeometry)
          /\ sessionsChanged' = TRUE
          /\ AttachClient(c, IdOf(n, nextGeneration))
          /\ Enqueue(ToClient(c, AttachReplies(n, DefaultGeometry, <<>>, replay)))
       \/ /\ ~Live(n)   \* the shell cannot start
          /\ ReplyError(c)
          /\ UNCHANGED <<attachments, managerVars, sessionsChanged>>
    /\ UNCHANGED <<arbitrating, clients, wanted>>

Detach(c) ==
    /\ HandleFrame(c)
    /\ Unconstrain(c)
    /\ UNCHANGED <<clients, queueVars, sessionsChanged, managerVars>>

\* What the PTY's writer is handed has no bearing on this model; only who
\* may hand it something does.
Input(c, n) ==
    /\ HandleFrame(c)
    /\ IF Live(n) /\ IsAttached(c, Current(n)) THEN UNCHANGED queueVars ELSE ReplyError(c)
    /\ UNCHANGED <<arbitrating, clientVars, sessionsChanged, managerVars>>

\* Record what client c wants of id.
Want(c, id, g) ==
    wanted' = [wanted EXCEPT ![c] =
                  [i \in DOMAIN wanted[c] \cup {id} |-> IF i = id THEN g ELSE wanted[c][i]]]

Resize(c, n, g) ==
    /\ HandleFrame(c)
    /\ IF Live(n) /\ IsAttached(c, Current(n))
       THEN /\ Want(c, Current(n), g)
            /\ arbitrating' = {Current(n)}
            /\ UNCHANGED queueVars
       ELSE ReplyError(c) /\ UNCHANGED <<wanted, arbitrating>>
    /\ UNCHANGED <<clients, attachments, sessionsChanged, managerVars>>

Spawn(c, n, g) ==
    LET id == IdOf(n, nextGeneration)
        asked == [g EXCEPT !.cell = 0]
    IN  /\ HandleFrame(c)
        /\ \/ /\ ~Live(n)
              /\ CreateWith(n, asked)
              /\ sessionsChanged' = TRUE
              /\ AttachClient(c, id)
              /\ IF c \in clients THEN Want(c, id, asked) ELSE UNCHANGED wanted
              /\ Enqueue(ToClient(c, AttachReplies(n, asked, <<>>, TRUE)))
              /\ arbitrating' = {id}
           \/ /\ ReplyError(c)   \* the name is taken, or nothing starts
              /\ UNCHANGED <<arbitrating, attachments, wanted, managerVars, sessionsChanged>>
        /\ UNCHANGED clients

\* Every client forgets id.
ForgetFault(id) ==
    /\ attachments' = [c \in Client |-> attachments[c] \ {id}]
    /\ UNCHANGED wanted
Forget(id) ==
    /\ attachments' = [c \in Client |-> attachments[c] \ {id}]
    /\ wanted' = [c \in Client |-> Restrict(wanted[c], DOMAIN wanted[c] \ {id})]

\* id leaves the manager; its attached clients hear that it ended, and every client forgets it.
EndSession(id) ==
    /\ sessionsChanged' = TRUE
    /\ sessions' = [sessions EXCEPT ![id.name] = 0]
    /\ geometry' = [geometry EXCEPT ![id.name] = DefaultGeometry]
    /\ history' = [history EXCEPT ![id.name] = <<>>]
    /\ Enqueue(ToAttached(id, [type |-> "Exit", session |-> id.name]))
    /\ Forget(id)

Kill(c, n) ==
    /\ HandleFrame(c)
    /\ IF Live(n)
       THEN /\ EndSession(Current(n))
            /\ program' = [program EXCEPT ![Current(n)] = "signalled"]
       ELSE /\ ReplyError(c)
            /\ UNCHANGED <<attachments, wanted, sessionsChanged, sessions, geometry, history, program>>
    /\ UNCHANGED <<arbitrating, clients, nextGeneration, produced>>

-----------------------------------------------------------------------------
(* Session programs *)

\* A program that was signalled may go on writing until it is gone.
Runs(id) == program[id] \in {"running", "signalled"}

\* The retained output after `bytes' joins it.
RetainedFault(bytes) ==
    IF Len(bytes) > HistoryCap THEN SubSeq(bytes, 1, HistoryCap) ELSE bytes
Retained(bytes) ==
    IF Len(bytes) > HistoryCap THEN SubSeq(bytes, Len(bytes) - HistoryCap + 1, Len(bytes))
    ELSE bytes

SessionOutput(id) ==
    LET n == id.name
        bytes == [generation |-> id.generation, index |-> produced[id] + 1]
    IN  /\ Handle
        /\ Runs(id) /\ produced[id] < MaxOutput
        /\ produced' = [produced EXCEPT ![id] = @ + 1]
        /\ IF IsCurrent(id)
           THEN /\ history' = [history EXCEPT ![n] = Retained(Append(@, bytes))]
                /\ Enqueue(ToAttached(id, [type |-> "Output", session |-> n, bytes |-> bytes]))
           ELSE UNCHANGED <<history, queueVars>>
        /\ UNCHANGED <<loopVars, arbitrating, clientVars, sessionsChanged, sessions,
                       nextGeneration, geometry, program, threadVars, fileVars>>

SessionExit(id) ==
    /\ Handle
    /\ Runs(id)
    /\ program' = [program EXCEPT ![id] = "ended"]
    /\ IF IsCurrent(id) THEN EndSession(id)
       ELSE UNCHANGED <<sessionsChanged, sessions, geometry, history, queueVars, attachments,
                        wanted>>
    /\ UNCHANGED <<loopVars, arbitrating, clients, nextGeneration, produced, threadVars,
                   fileVars>>

-----------------------------------------------------------------------------
(* Connection threads *)

\* What a client knows of a session after taking one more message.
Seen(seen, msg) ==
    CASE msg.type = "Attached" -> [shown |-> TRUE, grid |-> msg.grid, text |-> <<>>]
      [] msg.type = "Scrollback" -> [seen EXCEPT !.text = @ \o msg.bytes]
      [] msg.type = "Output" -> [seen EXCEPT !.text = Append(@, msg.bytes)]
      [] msg.type = "Resized" -> [seen EXCEPT !.grid = msg.grid]
      [] msg.type = "Exit" -> [seen EXCEPT !.shown = FALSE]

\* The writer sends the oldest queued frame, and the client takes it.
WriteFrame(c) ==
    LET msg == Head(outbox[c])
    IN  /\ writer[c] = "writing" /\ outbox[c] # <<>>
        /\ outbox' = [outbox EXCEPT ![c] = Tail(@)]
        /\ view' = IF msg # Answer
                   THEN [view EXCEPT ![c][msg.session] = Seen(@, msg)] ELSE view
        /\ UNCHANGED <<loop, loopVars, arbitrating, clientVars, doomed, sessionsChanged,
                       managerVars, reader, writer, fileVars>>

\* The writer thread ends and shuts the socket down both ways.
ShutDownFault(c) == writer' = [writer EXCEPT ![c] = "none"]
ShutDown(c) == writer' = [writer EXCEPT ![c] = "closed"]

\* The client hung up, or took nothing for CLIENT_WRITE_TIMEOUT: the writer
\* gives up what is queued and shuts the connection down.
WriteFails(c) ==
    /\ writer[c] = "writing" /\ outbox[c] # <<>>
    /\ ShutDown(c)
    /\ outbox' = [outbox EXCEPT ![c] = <<>>]
    /\ UNCHANGED <<loop, loopVars, arbitrating, clientVars, doomed, sessionsChanged,
                   managerVars, reader, view, fileVars>>

\* The outbox was dropped with its client and is drained: shut down.
WriterDone(c) ==
    /\ writer[c] = "writing" /\ outbox[c] = <<>> /\ c \notin clients
    /\ ShutDown(c)
    /\ UNCHANGED <<loop, loopVars, arbitrating, clientVars, queueVars, sessionsChanged,
                   managerVars, reader, view, fileVars>>

-----------------------------------------------------------------------------
(* The process *)

Unseen == [shown |-> FALSE, grid |-> [cols |-> 0, rows |-> 0], text |-> <<>>]

\* A server process starts with nothing but its defs file.
Init ==
    /\ loop = "boot" /\ nextClientId = 1 /\ arbitrating = {} /\ reaping = {}
    /\ clients = {} /\ doomed = {} /\ sessionsChanged = FALSE
    /\ attachments = [c \in Client |-> {}]
    /\ wanted = [c \in Client |-> <<>>]
    /\ outbox = [c \in Client |-> <<>>]
    /\ sessions = [n \in Name |-> 0] /\ nextGeneration = 1
    /\ geometry = [n \in Name |-> DefaultGeometry]
    /\ history = [n \in Name |-> <<>>]
    /\ program = [id \in SessionId |-> "unused"]
    /\ produced = [id \in SessionId |-> 0]
    /\ reader = [c \in Client |-> "none"]
    /\ writer = [c \in Client |-> "none"]
    /\ view = [c \in Client |-> [n \in Name |-> Unseen]]
    /\ saved = {} /\ respawning = {} /\ restarts = 0

\* The process dies, its programs and connections with it, and is started
\* again: only the defs file survives.
Crash ==
    /\ restarts < MaxRestarts
    /\ restarts' = restarts + 1
    /\ loop' = "boot" /\ nextClientId' = 1 /\ arbitrating' = {} /\ reaping' = {}
    /\ clients' = {} /\ doomed' = {} /\ sessionsChanged' = FALSE
    /\ attachments' = [c \in Client |-> {}]
    /\ wanted' = [c \in Client |-> <<>>]
    /\ outbox' = [c \in Client |-> <<>>]
    /\ sessions' = [n \in Name |-> 0] /\ nextGeneration' = 1
    /\ geometry' = [n \in Name |-> DefaultGeometry]
    /\ history' = [n \in Name |-> <<>>]
    /\ program' = [id \in SessionId |-> "unused"]
    /\ produced' = [id \in SessionId |-> 0]
    /\ reader' = [c \in Client |-> "none"]
    /\ writer' = [c \in Client |-> "none"]
    /\ view' = [c \in Client |-> [n \in Name |-> Unseen]]
    /\ saved' = saved /\ respawning' = saved

-----------------------------------------------------------------------------
ClientRequest(c) ==
    \/ BadRequest(c)
    \/ ListSessions(c)
    \/ Detach(c)
    \/ \E supported \in BOOLEAN : Greet(c, supported)
    \/ \E n \in Name :
        \/ \E replay \in BOOLEAN : Attach(c, n, replay)
        \/ Input(c, n)
        \/ Kill(c, n)
        \/ \E g \in Geometries : Resize(c, n, g) \/ Spawn(c, n, g)

\* What the loop still owes the event it took, or startup.
Finish ==
    \/ \E id \in SessionId : SyncSize(id)
    \/ CollectDoomed
    \/ \E c \in Client : Reap(c)
    \/ \E written \in BOOLEAN : Persist(written)
    \/ \E n \in Name, started \in BOOLEAN : Respawn(n, started)

WriterStep(c) == WriteFrame(c) \/ WriteFails(c) \/ WriterDone(c)

Next ==
    \/ \E opened \in BOOLEAN : Connect(opened)
    \/ \E c \in Client : ClientRequest(c) \/ Closed(c) \/ WriterStep(c)
    \/ \E id \in SessionId : SessionOutput(id) \/ SessionExit(id)
    \/ Finish
    \/ Crash

Spec == Init /\ [][Next]_vars

\* The loop finishes what it starts, each writer thread runs, and a shut
\* connection's last event, once in the FIFO inbox, is reached.
Fairness ==
    /\ WF_vars(Finish)
    /\ \A c \in Client :
        /\ WF_vars(WriterStep(c))
        /\ SF_vars(writer[c] = "closed" /\ Closed(c))

FairSpec == Spec /\ Fairness

-----------------------------------------------------------------------------
(* Properties *)

LoopType ==
    /\ loop \in {"boot", "receive", "handled", "reap"}
    /\ nextClientId \in 1 .. MaxClients + 1
    /\ arbitrating \subseteq SessionId
    /\ reaping \subseteq Client

ClientType ==
    /\ clients \subseteq Client
    /\ attachments \in [Client -> SUBSET SessionId]
    /\ DOMAIN wanted = Client
    /\ \A c \in Client :
        /\ DOMAIN wanted[c] \subseteq SessionId
        /\ wanted[c] \in [DOMAIN wanted[c] -> Geometry]

QueueType ==
    /\ doomed \subseteq clients
    /\ outbox \in [Client -> Seq(ServerMessage)]
    /\ \A c \in Client : Len(outbox[c]) <= OutboxLimit

ManagerType ==
    /\ sessions \in [Name -> 0 .. MaxGeneration]
    /\ nextGeneration \in 1 .. MaxGeneration + 1
    /\ geometry \in [Name -> Geometry]
    /\ history \in [Name -> Seq(Chunk)]
    /\ program \in [SessionId -> {"unused", "running", "signalled", "ended"}]
    /\ produced \in [SessionId -> 0 .. MaxOutput]

ThreadType ==
    /\ reader \in [Client -> {"none", "reading", "done"}]
    /\ writer \in [Client -> {"none", "writing", "closed"}]
    /\ view \in [Client -> [Name -> [shown : BOOLEAN, grid : Grid, text : Seq(Chunk)]]]

FileType ==
    /\ sessionsChanged \in BOOLEAN
    /\ saved \subseteq Name
    /\ respawning \subseteq Name
    /\ restarts \in 0 .. MaxRestarts

\* Every variable has its type, no outbox holds more than its limit, and only
\* a tracked client can be doomed.
TypeOK == LoopType /\ ClientType /\ QueueType /\ ManagerType /\ ThreadType /\ FileType

\* A client is attached, and constrains the size of, only the incarnation of
\* a name that is live now: what it held of a killed or exited session never
\* carries over to the next session of that name.
AttachmentsAreLive ==
    \A c \in Client :
        /\ \A id \in attachments[c] : IsCurrent(id)
        /\ DOMAIN wanted[c] \subseteq attachments[c]
        /\ c \notin clients => attachments[c] = {}

\* A program the server has not signalled and has not seen end is the one
\* behind the live session of its name, and a live session's program is such
\* a one: no program runs on unseen, no session outlives its program's exit
\* report, whichever of a kill and an exit is handled first.
SessionsMatchPrograms ==
    \A id \in SessionId : program[id] = "running" <=> IsCurrent(id)

\* A session is as large as the smallest of the clients that reported a size
\* for it, each way, once its turn in the arbitration came.
SizeIsArbitrated ==
    \A n \in LiveNames :
        Current(n) \notin arbitrating /\ Wants(Current(n)) # {}
            => geometry[n] = EffectiveSize(Wants(Current(n)))

\* An attached client not marked for dropping, once it has taken everything
\* queued for it, draws the grid the session really has.
Drained(c) == c \in clients \ doomed /\ outbox[c] = <<>> /\ writer[c] = "writing"
ClientsKnowTheGrid ==
    \A c \in Client : Drained(c) =>
        \A id \in attachments[c] :
            view[c][id.name].shown /\ view[c][id.name].grid = GridOf(geometry[id.name])

\* What a client was handed of a session since it last attached is one
\* uninterrupted stretch of one incarnation's output, nothing missing,
\* repeated or mixed in, also for a client that is being dropped.
StreamsAreUnbroken ==
    \A c \in Client, n \in Name :
        LET text == view[c][n].text
        IN  \A i \in 1 .. Len(text) - 1 :
                text[i + 1] = [text[i] EXCEPT !.index = @ + 1]

\* ... and once drained it ends with the last output the program wrote.
StreamsAreComplete ==
    \A c \in Client : Drained(c) =>
        \A id \in attachments[c] :
            LET text == view[c][id.name].text
            IN  text # <<>> => text[Len(text)] = [generation |-> id.generation,
                                                  index |-> produced[id]]

\* When a session ends, by a kill or its program's exit, every client
\* attached to it is told, or is being dropped.
EndIsTold ==
    [][restarts' = restarts =>
        \A n \in Name, c \in clients :
            Live(n) /\ sessions'[n] # sessions[n] /\ IsAttached(c, Current(n))
                => \/ c \in doomed'
                   \/ outbox'[c] = Append(outbox[c], [type |-> "Exit", session |-> n])]_vars

\* A name comes back only as an incarnation no program ever ran under.
IncarnationsAreFresh ==
    [][\A n \in Name :
        sessions'[n] # sessions[n] /\ sessions'[n] # 0
            => sessions[n] = 0 /\ program[IdOf(n, sessions'[n])] = "unused"]_vars

\* Between events the defs file holds a recipe for exactly the live sessions.
SavedAtRest == loop = "receive" => saved = LiveNames

\* A save drops a session's recipe only when the session is gone for good:
\* not while it is live, and not while startup has yet to respawn it.
RecipesAreNotLost ==
    [][\A n \in saved \ saved' : ~Live(n) /\ n \notin respawning]_vars

\* How the server maps to MuxService: what has run, and what clients draw.
Started == {id \in SessionId : program[id] # "unused"}
Drawn == [c \in Client |-> [n \in Name |-> view[c][n].text]]
Service == INSTANCE MuxService WITH
    Generation <- 1 .. MaxGeneration, live <- sessions, started <- Started,
    follows <- attachments, written <- produced, drawn <- Drawn,
    kept <- saved, owed <- respawning

\* The server, with its threads, queues, event loop and crashes, implements
\* MuxService: sessions are of fresh incarnations, end for everyone at once, are
\* drawn as unbroken stretches of what was written, and come back from recipes.
ServesSessions == Service!Spec

\* A client marked for dropping is dropped once the event is handled
\* (dispatch.rs: "Drop every client marked doomed while handling the last
\* event").
NoOneStaysDoomed == loop = "receive" => doomed = {}

\* A connection the server no longer tracks is shut down and its reader
\* thread ends.
DroppedConnectionsEnd ==
    \A c \in Client :
        (reader[c] = "reading" /\ c \notin clients) ~> reader[c] # "reading"

\* A client whose connection broke, or took nothing for too long, is
\* eventually no longer tracked, even if no event ever mentions it.
DeadClientsAreRemoved ==
    \A c \in Client : (c \in clients /\ writer[c] # "writing") ~> c \notin clients
=============================================================================
