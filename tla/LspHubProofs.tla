------------------------------ MODULE LspHubProofs -----------------------------
(***************************************************************************)
(* Theorems about LspHub, for any number of servers, edits, messages and   *)
(* events, and any room in the queues: no process is left behind, a server *)
(* is spoken to in order and has the text it is taken to have, and the     *)
(* editor knows the servers and their problems.                            *)
(***************************************************************************)
EXTENDS LspHub, SequenceTheorems, TLAPS

-------------------------------------------------------------------------------
(* The invariant.                                                          *)

\* A number not yet given to a server is nothing's.
Unused ==
    \A s \in Servers : s > started =>
        /\ process[s] = "none" /\ reader[s] = "none" /\ reaper[s] = "none"
        /\ queue[s] = <<>> /\ text[s] = NoText
        /\ s \notin running \cup ports \cup ready \cup unanswered
        /\ synced.server # s

\* One server runs at a time, and none once the hub is dropped.
OneRuns ==
    /\ \A s, t \in running : s = t
    /\ window \in {"quitting", "gone"} => running = {}

Lives == Unused /\ OneRuns /\ StoppedServersAreReaped /\ NoServerOutlivesTheHub

\* `initialize' heads its queue; until the reader has its answer, the server was
\* handed no document, and is not ready.
NoDocument(s) == text[s] = NoText /\ \A i \in DOMAIN queue[s] : ~IsDocument(queue[s][i])
Greets ==
    \A s \in Servers :
        /\ \A i \in DOMAIN queue[s] : queue[s][i] = Message("initialize") =>
              i = 1 /\ s \notin unanswered \cup ready /\ reader[s] # "readying" /\ NoDocument(s)
        /\ s \in unanswered => s \notin ready /\ reader[s] # "readying" /\ NoDocument(s)

\* A server the editor does not know of is told of by an event or by news.
Awaited(s, e) == \E i \in DOMAIN events : events[i] = [server |-> s, event |-> e]
PortsAreTold ==
    window = "quitting" \/ window = "gone" \/ news \/
        /\ ports \subseteq running
        /\ \A s \in running \cap ready : s \in ports \/ Awaited(s, "Ready")
        /\ \A s \in ports : (s \in shown <=> s \in problems) \/ Awaited(s, "Diagnostics")

IInv == TypeOK /\ Lives /\ Greets /\ DocumentsFollowInitialized /\ ServersHaveTheText
            /\ PortsAreTold

-------------------------------------------------------------------------------
(* What the parts of the actions do.                                       *)

LEMMA ServersAreNumbers ==
    /\ Servers = 1 .. MaxServers /\ MaxServers \in Nat /\ NoServer \notin Servers
    /\ MaxEdits \in Nat /\ NoText \notin Revisions /\ MaxEvents \in Nat /\ Capacity \in Nat
  BY BoundAssumption DEF Servers, NoServer, NoText, Revisions

\* A message's type tells a document from the others.
LEMMA KindsOfMessages ==
    ASSUME NEW r, NEW t
    PROVE  /\ IsDocument(Document(r)) /\ Document(r).revision = r
           /\ t # "document" => ~IsDocument(Message(t)) /\ Document(r) # Message(t)
           /\ Message(t).type = t
<1>1. Document(r).type = "document" /\ Document(r).revision = r /\ Message(t).type = t
  BY DEF Document, Message
<1> QED BY <1>1 DEF IsDocument

LEMMA MessagesAreMessages ==
    /\ \A t \in {"initialize", "initialized", "other"} : Message(t) \in Messages
    /\ \A r \in Revisions : Document(r) \in Messages
    /\ \A m \in Messages : m.type = "document" => \E r \in Revisions : m = Document(r)
<1>1. \A t \in {"initialize", "initialized", "other"} : Message(t) \in Messages
  BY DEF Messages
<1>2. \A r \in Revisions : Document(r) \in Messages
  BY DEF Messages
<1>3. ASSUME NEW m \in Messages, m.type = "document"
      PROVE  \E r \in Revisions : m = Document(r)
  <2>1. CASE m \in {Message(t) : t \in {"initialize", "initialized", "other"}}
    BY <1>3, <2>1, KindsOfMessages
  <2>2. CASE m \in {Document(r) : r \in Revisions}
    BY <2>2
  <2> QED BY <2>1, <2>2 DEF Messages
<1> QED BY <1>1, <1>2, <1>3

\* Sending touches one queue, where there is room.
LEMMA SentTo ==
    ASSUME TypeOK, NEW s \in Servers, NEW m \in Messages
    PROVE  /\ Sent(s, m) \in [Servers -> Seq(Messages)]
           /\ \A t \in Servers \ {s} : Sent(s, m)[t] = queue[t]
           /\ HasRoom(s) => Sent(s, m)[s] = Append(queue[s], m)
           /\ ~HasRoom(s) => Sent(s, m) = queue
<1>1. queue \in [Servers -> Seq(Messages)] /\ Append(queue[s], m) \in Seq(Messages)
  BY DEF TypeOK
<1> QED BY <1>1 DEF Sent

\* An editor that hands its document over sends the text and takes the server to
\* have it, or leaves both, or forgets the server; the first only to a ready one.
LEMMA SyncDoes ==
    ASSUME TypeOK, NEW P \in SUBSET Servers, NEW had, Sync(P, had)
    PROVE  \/ queue' = queue /\ synced' \in {had, NotSynced}
           \/ \E s \in P \cap ready :
                /\ synced' = [server |-> s, revision |-> revision]
                /\ queue' = queue /\ process[s] = "ended"
           \/ \E s \in P \cap ready :
                /\ synced' = [server |-> s, revision |-> revision]
                /\ HasRoom(s) /\ queue' = Sent(s, Document(revision))
<1>0. revision \in Revisions /\ Document(revision) \in Messages
  BY MessagesAreMessages DEF TypeOK
<1>1. CASE P \cap ready = {}
  BY <1>1 DEF Sync
<1>2. CASE \E s \in P \cap ready :
             IF had = [server |-> s, revision |-> revision]
             THEN synced' = had /\ queue' = queue
             ELSE /\ synced' \in HandedOver(s, had)
                  /\ queue' = IF Open(s) THEN Sent(s, Document(revision)) ELSE queue
  <2>1. PICK s \in P \cap ready :
             IF had = [server |-> s, revision |-> revision]
             THEN synced' = had /\ queue' = queue
             ELSE /\ synced' \in HandedOver(s, had)
                  /\ queue' = IF Open(s) THEN Sent(s, Document(revision)) ELSE queue
    BY <1>2
  <2>2. CASE had = [server |-> s, revision |-> revision]
    BY <2>1, <2>2
  <2>3. CASE had # [server |-> s, revision |-> revision]
    <3>1. synced' \in HandedOver(s, had)
          /\ queue' = IF Open(s) THEN Sent(s, Document(revision)) ELSE queue
      BY <2>1, <2>3
    <3>2. CASE MaySend(s) /\ synced' = [server |-> s, revision |-> revision]
      <4>1. CASE HasRoom(s)
        BY <3>1, <3>2, <4>1 DEF MaySend
      <4>2. CASE ~HasRoom(s)
        <5>1. Open(s) /\ process[s] = "ended"
          BY <3>2, <4>2 DEF MaySend
        <5>2. queue' = queue
          BY <1>0, <3>1, <4>2, <5>1, SentTo
        <5> QED BY <3>2, <5>1, <5>2
      <4> QED BY <4>1, <4>2
    <3>3. CASE MayDrop(s) /\ synced' \in {had, NotSynced}
      <4>1. queue' = queue
        <5>1. Open(s) => ~HasRoom(s)
          BY <3>3 DEF MayDrop
        <5> QED BY <1>0, <3>1, <5>1, SentTo
      <4> QED BY <3>3, <4>1
    <3> QED BY <3>1, <3>2, <3>3 DEF HandedOver
  <2> QED BY <2>2, <2>3
<1> QED BY <1>1, <1>2 DEF Sync

-------------------------------------------------------------------------------
(* Types.                                                                  *)

LEMMA SyncTypes ==
    ASSUME TypeOK, NEW P \in SUBSET Servers, Sync(P, synced) \/ Sync(P, NotSynced)
    PROVE  /\ synced' \in [server : Servers \cup {NoServer}, revision : Revisions]
           /\ queue' \in [Servers -> Seq(Messages)]
<1> DEFINE D == [server : Servers \cup {NoServer}, revision : Revisions]
<1>0. NotSynced \in D /\ synced \in D /\ revision \in Revisions
      /\ queue \in [Servers -> Seq(Messages)]
  BY BoundAssumption DEF NotSynced, TypeOK, Revisions
<1>1. PICK had \in D : Sync(P, had)
  BY <1>0
<1>2. \A s \in P : /\ [server |-> s, revision |-> revision] \in D
                   /\ Sent(s, Document(revision)) \in [Servers -> Seq(Messages)]
  BY <1>0, MessagesAreMessages, SentTo
<1> HIDE DEF D
<1>3. synced' \in D /\ queue' \in [Servers -> Seq(Messages)]
  BY <1>0, <1>1, <1>2, SyncDoes
<1> QED BY <1>3 DEF D

LEMMA AskedTypes ==
    ASSUME TypeOK, NEW s \in Servers
    PROVE  AskedToShutDown(s) \in [Servers -> Seq(Messages)]
<1>1. Message("other") \in Messages
  BY MessagesAreMessages
<1> QED BY <1>1, SentTo DEF AskedToShutDown, TypeOK

LEMMA StopTypes ==
    ASSUME TypeOK, NEW s \in Servers, Stop(s)
    PROVE  /\ {busy', problems', ready'} \subseteq SUBSET Servers
           /\ reaper' \in [Servers -> {"none", "waiting", "exiting"}]
  BY DEF Stop, ShutDown, TypeOK

LEMMA StartedTypes ==
    ASSUME TypeOK, NEW q \in [Servers -> Seq(Messages)], Started(q)
    PROVE  /\ started' \in 0 .. MaxServers /\ running' \in SUBSET Servers
           /\ queue' \in [Servers -> Seq(Messages)]
           /\ reader' \in [Servers -> {"none", "reading", "readying", "ended"}]
           /\ process' \in [Servers -> {"none", "up", "ended"}]
<1>1. <<Message("initialize")>> \in Seq(Messages)
  BY MessagesAreMessages
<1>2. started' \in 0 .. MaxServers /\ running' \in SUBSET Servers
  BY ServersAreNumbers DEF Started, NewServer, TypeOK
<1>3. queue' \in [Servers -> Seq(Messages)]
  BY <1>1 DEF Started
<1> QED BY <1>2, <1>3 DEF Started, TypeOK

LEMMA TellTypes ==
    ASSUME TypeOK, NEW s \in Servers,
           NEW e \in {"Ready", "Exited", "Diagnostics", "Progress", "ProgressEnd"}, Tell(s, e)
    PROVE  events' \in Seq(Events)
<1>1. [server |-> s, event |-> e] \in Events
  BY DEF Events
<1> QED BY <1>1 DEF Tell, TypeOK

LEMMA TypeInductive == TypeOK /\ [Next]_vars => TypeOK'
<1> SUFFICES ASSUME TypeOK, [Next]_vars
             PROVE  TypeOK'
  OBVIOUS
<1>0. MaxEdits \in Nat /\ MaxSaid \in Nat /\ Message("other") \in Messages
      /\ Message("initialized") \in Messages
  BY BoundAssumption, MessagesAreMessages
<1>1. CASE Edit
  BY <1>0, <1>1 DEF Edit, TypeOK, Revisions, hubVars, processVars
<1>2. CASE Tick
  <2>1. ports \in SUBSET Servers
    BY DEF TypeOK
  <2>2. /\ synced' \in [server : Servers \cup {NoServer}, revision : Revisions]
        /\ queue' \in [Servers -> Seq(Messages)]
    BY <1>2, <2>1, SyncTypes DEF Tick
  <2> QED BY <1>2, <2>2 DEF Tick, TypeOK, hubVars, processVars
<1>3. CASE Start
  <2>1. queue \in [Servers -> Seq(Messages)]
    BY DEF TypeOK
  <2> QED BY <1>3, <2>1, StartedTypes DEF Start, TypeOK, editorVars
<1>4. CASE Drain
  <2> DEFINE h == Head(events)
  <2>0. events \in Seq(Events) /\ events # <<>> /\ events' = Tail(events)
    BY <1>4 DEF Drain, TypeOK
  <2>a. h \in Events /\ events' \in Seq(Events)
    BY <2>0
  <2>1. h \in Events /\ events' \in Seq(Events) /\ h.server \in Servers
    BY <2>a DEF Events
  <2>2. /\ {running', busy', problems', shown', ready'} \subseteq SUBSET Servers
        /\ news' \in BOOLEAN /\ queue' \in [Servers -> Seq(Messages)]
        /\ reaper' \in [Servers -> {"none", "waiting", "exiting"}]
    <3>1. CASE DrainReady
      BY <3>1 DEF DrainReady, TypeOK
    <3>2. CASE DrainDiagnostics(h.server)
      BY <2>1, <3>2 DEF DrainDiagnostics, TypeOK
    <3>3. CASE \E going \in BOOLEAN : DrainProgress(h.server, going)
      BY <2>1, <3>3 DEF DrainProgress, TypeOK
    <3>4. CASE DrainExited(h.server)
      <4>1. CASE h.server \in running
        <5>1. {busy', problems', ready'} \subseteq SUBSET Servers
              /\ reaper' \in [Servers -> {"none", "waiting", "exiting"}]
          BY <2>1, <3>4, <4>1, StopTypes DEF DrainExited
        <5>2. queue' \in [Servers -> Seq(Messages)]
          BY <2>1, <3>4, <4>1, AskedTypes DEF DrainExited
        <5>3. {running', shown'} \subseteq SUBSET Servers /\ news' \in BOOLEAN
          BY <3>4, <4>1 DEF DrainExited, TypeOK
        <5> QED BY <5>1, <5>2, <5>3
      <4>2. CASE h.server \notin running
        BY <2>1, <3>4, <4>2 DEF DrainExited, TypeOK
      <4> QED BY <4>1, <4>2
    <3> QED BY <1>4, <3>1, <3>2, <3>3, <3>4 DEF Drain
  <2> QED BY <1>4, <2>1, <2>2 DEF Drain, TypeOK, processVars
<1>5. CASE HandOver
  <2>1. ASSUME news
        PROVE  /\ synced' \in [server : Servers \cup {NoServer}, revision : Revisions]
               /\ queue' \in [Servers -> Seq(Messages)]
               /\ ports' \in SUBSET Servers /\ shown' \in SUBSET Servers
    <3>1. running \in SUBSET Servers /\ (Sync(running, synced) \/ Sync(running, NotSynced))
      BY <1>5, <2>1 DEF HandOver, TypeOK
    <3>2. /\ synced' \in [server : Servers \cup {NoServer}, revision : Revisions]
          /\ queue' \in [Servers -> Seq(Messages)]
      BY <3>1, SyncTypes
    <3>3. ports' \in SUBSET Servers /\ shown' \in SUBSET Servers
      BY <1>5, <2>1 DEF HandOver, TypeOK
    <3> QED BY <3>2, <3>3
  <2>2. ASSUME ~news
        PROVE  /\ synced' \in [server : Servers \cup {NoServer}, revision : Revisions]
               /\ queue' \in [Servers -> Seq(Messages)]
               /\ ports' \in SUBSET Servers /\ shown' \in SUBSET Servers
    BY <1>5, <2>2 DEF HandOver, TypeOK
  <2>3. /\ window' = "loop" /\ news' = FALSE
        /\ UNCHANGED <<running, started, busy, revision, events, problems, ready, reader, reaper>>
        /\ UNCHANGED <<process, text, unanswered, spoken>>
    BY <1>5 DEF HandOver, processVars
  <2>4. /\ synced' \in [server : Servers \cup {NoServer}, revision : Revisions]
        /\ queue' \in [Servers -> Seq(Messages)]
        /\ ports' \in SUBSET Servers /\ shown' \in SUBSET Servers
    BY <2>1, <2>2
  <2>5. {running, busy, ports, shown, problems, ready, unanswered}' \subseteq SUBSET Servers
    BY <2>3, <2>4 DEF TypeOK
  <2>6. /\ started' \in 0 .. MaxServers /\ spoken' \in 0 .. MaxSaid
        /\ events' \in Seq(Events) /\ revision' \in Revisions
        /\ reader' \in [Servers -> {"none", "reading", "readying", "ended"}]
        /\ reaper' \in [Servers -> {"none", "waiting", "exiting"}]
        /\ process' \in [Servers -> {"none", "up", "ended"}]
        /\ text' \in [Servers -> Revisions \cup {NoText}]
    BY <2>3 DEF TypeOK
  <2> QED BY <2>3, <2>4, <2>5, <2>6 DEF TypeOK
<1>6. CASE Quit
  <2>1. CASE UNCHANGED <<busy, problems, queue, ready, reaper>>
    BY <1>6, <2>1 DEF Quit, TypeOK, editorVars, processVars
  <2>2. CASE \E s \in running : Stop(s) /\ queue' = AskedToShutDown(s)
    <3>1. PICK s \in running : Stop(s) /\ queue' = AskedToShutDown(s)
      BY <2>2
    <3>2. s \in Servers
      BY DEF TypeOK
    <3> QED BY <1>6, <3>1, <3>2, StopTypes, AskedTypes DEF Quit, TypeOK, editorVars, processVars
  <2> QED BY <1>6, <2>1, <2>2 DEF Quit
<1>7. CASE Joined
  BY <1>7 DEF Joined, TypeOK, editorVars, processVars
<1>8. ASSUME NEW s \in Servers, StopLsp(s)
      PROVE  TypeOK'
  <2>1. NotSynced \in [server : Servers \cup {NoServer}, revision : Revisions]
    BY <1>0 DEF NotSynced, Revisions
  <2> QED BY <1>8, <2>1, StopTypes, AskedTypes DEF StopLsp, TypeOK, processVars
<1>9. ASSUME NEW s \in Servers, RestartLsp(s)
      PROVE  TypeOK'
  <2>1. AskedToShutDown(s) \in [Servers -> Seq(Messages)]
    BY AskedTypes
  <2> QED BY <1>9, <2>1, StopTypes, StartedTypes DEF RestartLsp, TypeOK, editorVars
<1>10. ASSUME NEW s \in Servers, Reads(s)
       PROVE  TypeOK'
  <2>1. queue[s] \in Seq(Messages) /\ queue[s] # <<>>
    BY <1>10 DEF Reads, TypeOK
  <2>2. Head(queue[s]) \in Messages /\ Tail(queue[s]) \in Seq(Messages)
    BY <2>1
  <2>3. text' \in [Servers -> Revisions \cup {NoText}]
    <3>1. CASE Head(queue[s]).type = "document"
      <4>1. Head(queue[s]).revision \in Revisions
        BY <2>2, <3>1, MessagesAreMessages, KindsOfMessages
      <4> QED BY <1>10, <3>1, <4>1 DEF Reads, TypeOK
    <3>2. CASE Head(queue[s]).type # "document"
      BY <1>10, <3>2 DEF Reads, TypeOK
    <3> QED BY <3>1, <3>2
  <2>4. unanswered' \in SUBSET Servers
    BY <1>10 DEF Reads, TypeOK
  <2>5. queue' \in [Servers -> Seq(Messages)]
    BY <1>10, <2>2 DEF Reads, TypeOK
  <2> QED BY <1>10, <2>3, <2>4, <2>5 DEF Reads, TypeOK, hubVars, editorVars
<1>11. ASSUME NEW s \in Servers, Ends(s) \/ ReaperKills(s)
       PROVE  TypeOK'
  <2>1. Ended(s)
    BY <1>11 DEF Ends, ReaperKills
  <2>2. queue' \in [Servers -> Seq(Messages)]
    <3>1. <<>> \in Seq(Messages)
      BY EmptySeq
    <3> QED BY <2>1, <3>1 DEF Ended, TypeOK
  <2>3. process' \in [Servers -> {"none", "up", "ended"}]
    BY <2>1 DEF Ended, TypeOK
  <2>4. text' \in [Servers -> Revisions \cup {NoText}]
    BY <2>1 DEF Ended, TypeOK
  <2> QED BY <1>11, <2>2, <2>3, <2>4 DEF Ends, ReaperKills, TypeOK, hubVars, editorVars
<1>12. ASSUME NEW s \in Servers, ReaderGreets(s)
       PROVE  TypeOK'
  <2>1. queue' \in [Servers -> Seq(Messages)]
    BY <1>0, <1>12, SentTo DEF ReaderGreets
  <2>2. reader' \in [Servers -> {"none", "reading", "readying", "ended"}]
    BY <1>12 DEF ReaderGreets, TypeOK
  <2>3. unanswered' \in SUBSET Servers
    BY <1>12 DEF ReaderGreets, TypeOK
  <2> QED BY <1>12, <2>1, <2>2, <2>3 DEF ReaderGreets, TypeOK, hubVars, editorVars
<1>13. ASSUME NEW s \in Servers, ReaderReadies(s)
       PROVE  TypeOK'
  BY <1>13, TellTypes DEF ReaderReadies, TypeOK, hubVars, editorVars, processVars
<1>14. ASSUME NEW s \in Servers, ReaderRefused(s)
       PROVE  TypeOK'
  BY <1>14, TellTypes DEF ReaderRefused, TypeOK, hubVars, editorVars
<1>15. ASSUME NEW s \in Servers, ReaderReads(s)
       PROVE  TypeOK'
  <2>1. spoken' \in 0 .. MaxSaid
    BY <1>0, <1>15 DEF ReaderReads, TypeOK
  <2>2. CASE queue' = Sent(s, Message("other")) /\ UNCHANGED <<events, problems>>
    BY <1>0, <1>15, <2>1, <2>2, SentTo DEF ReaderReads, TypeOK, hubVars, editorVars
  <2>3. CASE Tell(s, "Diagnostics") /\ problems' \in {problems \cup {s}, problems \ {s}}
             /\ UNCHANGED queue
    <3>1. events' \in Seq(Events)
      BY <2>3, TellTypes
    <3>2. problems' \in SUBSET Servers
      BY <2>3 DEF TypeOK
    <3> QED BY <1>15, <2>1, <2>3, <3>1, <3>2 DEF ReaderReads, TypeOK, hubVars, editorVars
  <2>4. CASE (Tell(s, "Progress") \/ Tell(s, "ProgressEnd")) /\ UNCHANGED <<problems, queue>>
    <3>1. events' \in Seq(Events)
      BY <2>4, TellTypes
    <3> QED BY <1>15, <2>1, <2>4, <3>1 DEF ReaderReads, TypeOK, hubVars, editorVars
  <2> QED BY <1>15, <2>2, <2>3, <2>4 DEF ReaderReads
<1>16. ASSUME NEW s \in Servers, ReaderEnds(s)
       PROVE  TypeOK'
  BY <1>16, TellTypes DEF ReaderEnds, TypeOK, hubVars, editorVars, processVars
<1>17. ASSUME NEW s \in Servers, ReaperExits(s)
       PROVE  TypeOK'
  BY <1>0, <1>17, SentTo DEF ReaperExits, TypeOK, hubVars, editorVars, processVars
<1>18. CASE UNCHANGED vars
  BY <1>18 DEF vars, TypeOK, hubVars, editorVars, processVars
<1> QED BY <1>1, <1>2, <1>3, <1>4, <1>5, <1>6, <1>7, <1>8, <1>9, <1>10, <1>11, <1>12, <1>13,
           <1>14, <1>15, <1>16, <1>17, <1>18 DEF Next, Window, Reader, Reaper

LEMMA InitTypes == Init => TypeOK
<1> SUFFICES ASSUME Init PROVE TypeOK
  OBVIOUS
<1>1. <<>> \in Seq(Events) /\ <<>> \in Seq(Messages)
  BY EmptySeq
<1>2. 0 \in Revisions /\ 0 \in 0 .. MaxServers /\ 0 \in 0 .. MaxSaid
  BY BoundAssumption DEF Revisions
<1> QED BY <1>1, <1>2 DEF Init, TypeOK, NotSynced

\* The hub, the editor, the threads and the queues keep their types.
THEOREM HubTypes == Spec => []TypeOK
  BY InitTypes, TypeInductive, PTL DEF Spec

-------------------------------------------------------------------------------
(* Lives of the processes.                                                 *)

LEMMA NewIsUnused ==
    ASSUME TypeOK, Unused
    PROVE  /\ started \in Nat /\ NewServer > started
           /\ \A s \in Servers : s \in Nat
           /\ \A s \in Servers :
                process[s] # "none" \/ reader[s] # "none" \/ reaper[s] # "none"
                  \/ s \in running \cup ports \cup ready \cup unanswered
                => ~(s > started) /\ s # NewServer
<1>1. started \in Nat /\ NewServer = started + 1 /\ \A s \in Servers : s \in Nat
  BY ServersAreNumbers DEF TypeOK, NewServer
<1>2. ASSUME NEW s \in Servers,
             process[s] # "none" \/ reader[s] # "none" \/ reaper[s] # "none"
               \/ s \in running \cup ports \cup ready \cup unanswered
      PROVE  ~(s > started)
  BY <1>2 DEF Unused
<1> QED BY <1>1, <1>2

LEMMA UnusedInductive == TypeOK /\ Unused /\ [Next]_vars => Unused'
<1> SUFFICES ASSUME TypeOK, Unused, [Next]_vars, NEW t \in Servers, t > started'
             PROVE  /\ process'[t] = "none" /\ reader'[t] = "none" /\ reaper'[t] = "none"
                    /\ queue'[t] = <<>> /\ text'[t] = NoText
                    /\ t \notin running' \cup ports' \cup ready' \cup unanswered'
                    /\ synced'.server # t
  BY DEF Unused
<1> DEFINE Free == /\ process[t] = "none" /\ reader[t] = "none" /\ reaper[t] = "none"
                   /\ queue[t] = <<>> /\ text[t] = NoText
                   /\ t \notin running \cup ports \cup ready \cup unanswered
                   /\ synced.server # t
<1>0. Message("other") \in Messages /\ Message("initialized") \in Messages
      /\ Document(revision) \in Messages
  BY MessagesAreMessages DEF TypeOK
<1>a. started' = started => Free
  BY DEF Unused
<1>b. ASSUME NEW s \in Servers, s \in running, started' = started \/ started' = NewServer
      PROVE  t # s /\ AskedToShutDown(s)[t] = queue[t]
  <2>1. t # s
    <3>1. ~(s > started) /\ NewServer > started /\ s \in Nat /\ started \in Nat
      BY <1>b, NewIsUnused
    <3>2. t > started \/ t > NewServer
      BY <1>b
    <3> QED BY <3>1, <3>2 DEF NewServer
  <2> QED BY <1>0, <2>1, SentTo DEF AskedToShutDown
<1>c. ASSUME NEW s \in Servers, s # t, Stop(s)
      PROVE  ready' = ready \ {s} /\ reaper'[t] = reaper[t]
  BY <1>c DEF Stop, ShutDown, TypeOK
<1>d. ASSUME NEW q \in [Servers -> Seq(Messages)], Started(q)
      PROVE  /\ t # NewServer /\ Free /\ started' = NewServer
             /\ queue'[t] = q[t] /\ running' = {NewServer}
             /\ reader'[t] = reader[t] /\ process'[t] = process[t]
  <2>1. t # NewServer /\ t > started
    BY <1>d, NewIsUnused DEF Started, NewServer
  <2> QED BY <1>d, <2>1 DEF Started, Unused, TypeOK
<1>e. ASSUME NEW P \in SUBSET Servers, P \subseteq running \cup ports, started' = started,
             Sync(P, synced) \/ Sync(P, NotSynced)
      PROVE  queue'[t] = queue[t] /\ synced'.server # t
  <2>1. t \notin P /\ NotSynced.server # t
    BY <1>e, <1>a, ServersAreNumbers DEF NotSynced
  <2>2. \A s \in P : Sent(s, Document(revision))[t] = queue[t]
    BY <1>0, <2>1, SentTo
  <2>3. \A s \in P : [server |-> s, revision |-> revision].server # t
    BY <2>1
  <2> QED BY <1>a, <1>e, <2>1, <2>2, <2>3, SyncDoes
<1>1. CASE Edit \/ Joined \/ UNCHANGED vars
  BY <1>1, <1>a DEF Edit, Joined, vars, hubVars, editorVars, processVars
<1>2. CASE Tick
  <2>1. ports \in SUBSET Servers
    BY DEF TypeOK
  <2> QED BY <1>2, <1>a, <1>e, <2>1 DEF Tick, hubVars, processVars
<1>3. CASE Start
  <2>1. queue \in [Servers -> Seq(Messages)]
    BY DEF TypeOK
  <2> QED BY <1>3, <1>d, <2>1 DEF Start, editorVars
<1>4. CASE Drain
  <2>1. started' = started /\ UNCHANGED <<ports, synced, process, text, unanswered, reader>>
    BY <1>4 DEF Drain, processVars
  <2>2. CASE UNCHANGED <<running, ready, queue, reaper>>
    BY <1>a, <2>1, <2>2
  <2>3. CASE \E s \in running : Stop(s) /\ running' = running \ {s}
                                /\ queue' = AskedToShutDown(s)
    <3>1. PICK s \in running : Stop(s) /\ running' = running \ {s}
                               /\ queue' = AskedToShutDown(s)
      BY <2>3
    <3>2. s \in Servers
      BY DEF TypeOK
    <3> QED BY <1>a, <1>b, <1>c, <2>1, <3>1, <3>2
  <2> QED BY <1>4, <2>2, <2>3
          DEF Drain, DrainReady, DrainDiagnostics, DrainProgress, DrainExited
<1>5. CASE HandOver
  <2>1. started' = started /\ running \in SUBSET Servers
        /\ UNCHANGED <<running, process, text, unanswered, ready, reader, reaper>>
    BY <1>5 DEF HandOver, processVars, TypeOK
  <2>2. CASE news
    BY <1>5, <1>a, <1>e, <2>1, <2>2 DEF HandOver
  <2>3. CASE ~news
    BY <1>5, <1>a, <2>1, <2>3 DEF HandOver
  <2> QED BY <2>2, <2>3
<1>6. CASE Quit
  <2>1. started' = started /\ running' = {}
        /\ UNCHANGED <<ports, synced, process, text, unanswered, reader>>
    BY <1>6 DEF Quit, editorVars, processVars
  <2>2. CASE UNCHANGED <<ready, queue, reaper>>
    BY <1>a, <2>1, <2>2
  <2>3. CASE \E s \in running : Stop(s) /\ queue' = AskedToShutDown(s)
    <3>1. PICK s \in running : Stop(s) /\ queue' = AskedToShutDown(s)
      BY <2>3
    <3>2. s \in Servers
      BY DEF TypeOK
    <3> QED BY <1>a, <1>b, <1>c, <2>1, <3>1, <3>2
  <2> QED BY <1>6, <2>2, <2>3 DEF Quit
<1>7. ASSUME NEW s \in Servers, StopLsp(s)
      PROVE  Free'
  <2>1. NotSynced.server # t
    BY ServersAreNumbers DEF NotSynced
  <2> QED BY <1>7, <1>a, <1>b, <1>c, <2>1 DEF StopLsp, processVars
<1>8. ASSUME NEW s \in Servers, RestartLsp(s)
      PROVE  Free'
  <2>1. AskedToShutDown(s) \in [Servers -> Seq(Messages)] /\ s \in running
    BY <1>8, AskedTypes DEF RestartLsp
  <2>2. started' = NewServer
    BY <1>8, <1>d, <2>1 DEF RestartLsp
  <2> QED BY <1>8, <1>b, <1>c, <1>d, <2>1, <2>2 DEF RestartLsp, editorVars
<1>9. ASSUME NEW s \in Servers, Reads(s) \/ Ends(s) \/ Reader(s) \/ Reaper(s)
      PROVE  Free'
  <2>1. started' = started /\ UNCHANGED <<running, ports, synced>>
    BY <1>9 DEF Reads, Ends, Reader, Reaper, ReaderGreets, ReaderReadies, ReaderRefused,
                ReaderReads, ReaderEnds, ReaperExits, ReaperKills, hubVars, editorVars
  <2>2. s # t
    BY <1>9, <1>a, <2>1
       DEF Reads, Ends, Reader, Reaper, Reading, ReaderGreets, ReaderReadies, ReaderRefused,
           ReaderReads, ReaderEnds, ReaperExits, ReaperKills
  <2>3. Sent(s, Message("other"))[t] = queue[t] /\ Sent(s, Message("initialized"))[t] = queue[t]
    BY <1>0, <2>2, SentTo
  <2>4. process'[t] = process[t] /\ text'[t] = text[t] /\ (t \in unanswered' => t \in unanswered)
    BY <1>9, <2>2
       DEF Reads, Ends, Ended, Reader, Reaper, ReaderGreets, ReaderReadies, ReaderRefused,
           ReaderReads, ReaderEnds, ReaperExits, ReaperKills, processVars, TypeOK
  <2>5. queue'[t] = queue[t]
    BY <1>9, <2>2, <2>3
       DEF Reads, Ends, Ended, Reader, Reaper, ReaderGreets, ReaderReadies, ReaderRefused,
           ReaderReads, ReaderEnds, ReaperExits, ReaperKills, TypeOK
  <2>6. reader'[t] = reader[t] /\ reaper'[t] = reaper[t] /\ (t \in ready' => t \in ready)
    BY <1>9, <2>2
       DEF Reads, Ends, Reader, Reaper, ReaderGreets, ReaderReadies, ReaderRefused,
           ReaderReads, ReaderEnds, ReaperExits, ReaperKills, TypeOK
  <2> QED BY <1>a, <2>1, <2>4, <2>5, <2>6
<1> QED BY <1>1, <1>2, <1>3, <1>4, <1>5, <1>6, <1>7, <1>8, <1>9 DEF Next, Window

\* What a server's own process and threads leave of the hub.
LEMMA ServerStepsKeep ==
    ASSUME TypeOK, NEW s \in Servers, Reads(s) \/ Ends(s) \/ Reader(s) \/ Reaper(s)
    PROVE  /\ UNCHANGED <<window, running, started, news, ports, synced, shown>>
           /\ \A t \in Servers : process'[t] = "up" => process[t] = "up"
           /\ \A t \in Servers : reaper[t] # "none" => reaper'[t] # "none"
<1>1. UNCHANGED <<window, running, started, news, ports, synced, shown>>
  BY DEF Reads, Ends, Reader, Reaper, ReaderGreets, ReaderReadies, ReaderRefused,
         ReaderReads, ReaderEnds, ReaperExits, ReaperKills, hubVars, editorVars
<1>2. \A t \in Servers : process'[t] = "up" => process[t] = "up"
  BY DEF Reads, Ends, Ended, Reader, Reaper, ReaderGreets, ReaderReadies, ReaderRefused,
         ReaderReads, ReaderEnds, ReaperExits, ReaperKills, processVars, TypeOK
<1>3. \A t \in Servers : reaper[t] # "none" => reaper'[t] # "none"
  BY DEF Reads, Ends, Reader, Reaper, ReaderGreets, ReaderReadies, ReaderRefused,
         ReaderReads, ReaderEnds, ReaperExits, ReaperKills, TypeOK
<1> QED BY <1>1, <1>2, <1>3

\* A server that is stopped gets its reaper, and none loses it.
LEMMA StopReaps ==
    ASSUME TypeOK, NEW s \in Servers, Stop(s)
    PROVE  reaper'[s] # "none" /\ \A t \in Servers : reaper[t] # "none" => reaper'[t] # "none"
  BY DEF Stop, ShutDown, TypeOK

\* Whatever leaves the hub's servers is being seen out.
LEMMA LivesInductive == TypeOK /\ Lives /\ [Next]_vars => Lives'
<1> SUFFICES ASSUME TypeOK, Lives, [Next]_vars
             PROVE  OneRuns' /\ StoppedServersAreReaped' /\ NoServerOutlivesTheHub'
  BY UnusedInductive DEF Lives
<1> USE DEF Lives, OneRuns, StoppedServersAreReaped, NoServerOutlivesTheHub
<1>1. CASE Edit \/ Tick \/ HandOver \/ UNCHANGED vars
  <2>1. UNCHANGED <<running, process, reaper>> /\ (window' = window \/ window' = "loop")
    BY <1>1 DEF Edit, Tick, HandOver, vars, hubVars, processVars
  <2> QED BY <2>1
<1>2. CASE Start
  <2>1. running' = {NewServer} /\ running = {} /\ window' = "loop" /\ reaper' = reaper
        /\ process' = [process EXCEPT ![NewServer] = "up"]
    BY <1>2 DEF Start, Started
  <2>2. \A s \in Servers : s # NewServer => process'[s] = process[s]
    BY <2>1 DEF TypeOK
  <2> QED BY <2>1, <2>2
<1>3. CASE Drain
  <2>1. process' = process /\ window' = "delivering" /\ running' \subseteq running
    BY <1>3 DEF Drain, processVars, DrainReady, DrainDiagnostics, DrainProgress, DrainExited
  <2>2. CASE UNCHANGED <<running, reaper>>
    BY <2>1, <2>2
  <2>3. CASE \E s \in running : Stop(s) /\ running' = running \ {s}
    <3>1. PICK s \in running : Stop(s) /\ running' = running \ {s}
      BY <2>3
    <3>2. s \in Servers
      BY DEF TypeOK
    <3> QED BY <2>1, <3>1, <3>2, StopReaps
  <2> QED BY <1>3, <2>2, <2>3
          DEF Drain, DrainReady, DrainDiagnostics, DrainProgress, DrainExited
<1>4. CASE Quit
  <2>1. process' = process /\ window' = "quitting" /\ running' = {}
    BY <1>4 DEF Quit, processVars
  <2>2. CASE running = {} /\ reaper' = reaper
    BY <2>1, <2>2
  <2>3. CASE \E s \in running : Stop(s)
    <3>1. PICK s \in running : Stop(s)
      BY <2>3
    <3>2. s \in Servers /\ running \subseteq {s}
      BY DEF TypeOK
    <3> QED BY <2>1, <3>1, <3>2, StopReaps
  <2> QED BY <1>4, <2>2, <2>3 DEF Quit
<1>5. CASE Joined
  BY <1>5 DEF Joined, Reaped, processVars
<1>6. ASSUME NEW s \in Servers, StopLsp(s)
      PROVE  OneRuns' /\ StoppedServersAreReaped' /\ NoServerOutlivesTheHub'
  BY <1>6, StopReaps DEF StopLsp, processVars
<1>7. ASSUME NEW s \in Servers, RestartLsp(s)
      PROVE  OneRuns' /\ StoppedServersAreReaped' /\ NoServerOutlivesTheHub'
  <2>1. running' = {NewServer} /\ running \subseteq {s} /\ window' = "loop" /\ Stop(s)
        /\ process' = [process EXCEPT ![NewServer] = "up"]
    BY <1>7 DEF RestartLsp, Started
  <2>2. \A t \in Servers : t # NewServer => process'[t] = process[t]
    BY <2>1 DEF TypeOK
  <2> QED BY <2>1, <2>2, StopReaps
<1>8. ASSUME NEW s \in Servers, Reads(s) \/ Ends(s) \/ Reader(s) \/ Reaper(s)
      PROVE  OneRuns' /\ StoppedServersAreReaped' /\ NoServerOutlivesTheHub'
  BY <1>8, ServerStepsKeep
<1> QED BY <1>1, <1>2, <1>3, <1>4, <1>5, <1>6, <1>7, <1>8 DEF Next, Window

LEMMA InitLives == Init => Lives
<1> SUFFICES ASSUME Init PROVE Lives
  OBVIOUS
<1>1. Unused
  BY ServersAreNumbers DEF Init, Unused, NotSynced
<1>2. OneRuns /\ StoppedServersAreReaped /\ NoServerOutlivesTheHub
  BY DEF Init, OneRuns, StoppedServersAreReaped, NoServerOutlivesTheHub
<1> QED BY <1>1, <1>2 DEF Lives

\* A process that is up and not among the hub's servers has a thread that ends it,
\* however it came to leave them: stopped, restarted, refused, or unreadable.
THEOREM StoppedAreReaped == Spec => []StoppedServersAreReaped
<1>1. Lives => StoppedServersAreReaped
  BY DEF Lives
<1> QED BY <1>1, InitTypes, InitLives, TypeInductive, LivesInductive, PTL DEF Spec

\* Once the hub is gone, every process it ever started has ended.
THEOREM NoneOutlivesTheHub == Spec => []NoServerOutlivesTheHub
<1>1. Lives => NoServerOutlivesTheHub
  BY DEF Lives
<1> QED BY <1>1, InitTypes, InitLives, TypeInductive, LivesInductive, PTL DEF Spec

-------------------------------------------------------------------------------
(* What a step is to one server.                                           *)

\* Nothing of what tells whether it was greeted comes back.
Keeps(t) ==
    /\ t \in ready' => t \in ready \/ reader[t] = "readying"
    /\ reader'[t] = "readying" => reader[t] = "readying"
    /\ t \in unanswered' => t \in unanswered
Left(t) == queue'[t] = queue[t] /\ text'[t] = text[t] /\ process'[t] = process[t]
Queued(t, m) ==
    queue'[t] = Append(queue[t], m) /\ text'[t] = text[t] /\ process'[t] = process[t]

IsGreeted(t) ==
    /\ t \in unanswered /\ t \notin unanswered'
    /\ t \in ready' => t \in ready
    /\ Left(t) \/ Queued(t, Message("initialized"))
IsHanded(t) ==
    Keeps(t) /\ t \in ready /\ synced' = [server |-> t, revision |-> revision]
        /\ HasRoom(t) /\ Queued(t, Document(revision))
HasRead(t) ==
    /\ t \in ready' => t \in ready
    /\ reader'[t] = reader[t]
    /\ t \in unanswered' => t \in unanswered \/ Head(queue[t]) = Message("initialize")
    /\ queue[t] # <<>> /\ queue'[t] = Tail(queue[t]) /\ process'[t] = process[t]
    /\ text'[t] = IF IsDocument(Head(queue[t])) THEN Head(queue[t]).revision ELSE text[t]
HasEnded(t) ==
    Keeps(t) /\ process'[t] = "ended" /\ queue'[t] = <<>> /\ text'[t] = NoText
IsStarted(t) ==
    /\ Keeps(t) /\ t = NewServer /\ queue'[t] = <<Message("initialize")>>
    /\ text'[t] = text[t] /\ started' = NewServer

\* Every step leaves a server, or is one of these to it.
ServerStep(t) ==
    \/ Keeps(t) /\ (Left(t) \/ Queued(t, Message("other")))
    \/ IsGreeted(t) \/ IsHanded(t) \/ HasRead(t) \/ HasEnded(t) \/ IsStarted(t)

\* A hand-over is one to the server it is to, and nothing to any other.
LEMMA SyncIsAStep ==
    ASSUME TypeOK, NEW P \in SUBSET Servers, NEW had, Sync(P, had), NEW t \in Servers,
           UNCHANGED <<ready, reader, unanswered, text, process>>
    PROVE  ServerStep(t)
<1>0. Document(revision) \in Messages /\ Keeps(t)
  BY MessagesAreMessages DEF TypeOK, Keeps
<1>1. CASE queue' = queue
  BY <1>0, <1>1 DEF ServerStep, Left
<1>2. CASE \E s \in P \cap ready :
             /\ synced' = [server |-> s, revision |-> revision]
             /\ HasRoom(s) /\ queue' = Sent(s, Document(revision))
  <2>1. PICK s \in P \cap ready :
             /\ synced' = [server |-> s, revision |-> revision]
             /\ HasRoom(s) /\ queue' = Sent(s, Document(revision))
    BY <1>2
  <2>2. CASE s = t
    <3>1. queue'[t] = Append(queue[t], Document(revision))
      BY <1>0, <2>1, <2>2, SentTo
    <3> QED BY <1>0, <2>1, <2>2, <3>1 DEF ServerStep, IsHanded, Queued
  <2>3. CASE s # t
    <3>1. queue'[t] = queue[t]
      BY <1>0, <2>1, <2>3, SentTo
    <3> QED BY <1>0, <3>1 DEF ServerStep, Left
  <2> QED BY <2>2, <2>3
<1> QED BY <1>1, <1>2, SyncDoes

\* A queue that some message may have been put in.
LEMMA SentIsAStep ==
    ASSUME TypeOK, NEW s \in Servers, NEW t \in Servers, NEW m \in Messages
    PROVE  Sent(s, m)[t] = queue[t] \/ (s = t /\ Sent(s, m)[t] = Append(queue[t], m))
  BY SentTo

LEMMA ServerSteps ==
    ASSUME TypeOK, Lives, [Next]_vars, NEW t \in Servers
    PROVE  ServerStep(t)
<1>0. Message("other") \in Messages /\ Message("initialized") \in Messages
  BY MessagesAreMessages
<1>a. ASSUME NEW s \in Servers
      PROVE  AskedToShutDown(s)[t] \in {queue[t], Append(queue[t], Message("other"))}
  BY <1>0, SentIsAStep DEF AskedToShutDown
<1>b. ASSUME NEW s \in Servers, Stop(s)
      PROVE  ready' \subseteq ready
  BY <1>b DEF Stop, ShutDown
<1>1. CASE Edit \/ Joined \/ UNCHANGED vars
  BY <1>1 DEF Edit, Joined, vars, hubVars, editorVars, processVars, ServerStep, Keeps, Left
<1>2. CASE Tick
  <2>1. ports \in SUBSET Servers
    BY DEF TypeOK
  <2> QED BY <1>2, <2>1, SyncIsAStep DEF Tick, hubVars, processVars
<1>3. CASE Start
  <2>1. reader' = [reader EXCEPT ![NewServer] = "reading"]
        /\ process' = [process EXCEPT ![NewServer] = "up"]
        /\ queue' = [queue EXCEPT ![NewServer] = <<Message("initialize")>>]
        /\ started' = NewServer /\ UNCHANGED <<text, unanswered, ready>>
    BY <1>3 DEF Start, Started
  <2>2. Keeps(t)
    BY <2>1 DEF Keeps, TypeOK
  <2>3. CASE t = NewServer
    BY <2>1, <2>2, <2>3 DEF ServerStep, IsStarted, TypeOK
  <2>4. CASE t # NewServer
    BY <2>1, <2>2, <2>4 DEF ServerStep, Left, TypeOK
  <2> QED BY <2>3, <2>4
<1>4. CASE Drain
  <2>1. UNCHANGED <<text, process, unanswered, reader>>
    BY <1>4 DEF Drain, processVars
  <2>2. CASE UNCHANGED <<ready, queue>>
    BY <2>1, <2>2 DEF ServerStep, Keeps, Left
  <2>3. CASE \E s \in running : Stop(s) /\ queue' = AskedToShutDown(s)
    <3>1. PICK s \in running : Stop(s) /\ queue' = AskedToShutDown(s)
      BY <2>3
    <3>2. s \in Servers
      BY DEF TypeOK
    <3> QED BY <1>a, <1>b, <2>1, <3>1, <3>2 DEF ServerStep, Keeps, Left, Queued
  <2> QED BY <1>4, <2>2, <2>3
          DEF Drain, DrainReady, DrainDiagnostics, DrainProgress, DrainExited
<1>5. CASE HandOver
  <2>1. running \in SUBSET Servers /\ UNCHANGED <<ready, reader, unanswered, text, process>>
    BY <1>5 DEF HandOver, processVars, TypeOK
  <2>2. CASE news
    BY <1>5, <2>1, <2>2, SyncIsAStep DEF HandOver
  <2>3. CASE ~news
    BY <1>5, <2>1, <2>3 DEF HandOver, ServerStep, Keeps, Left
  <2> QED BY <2>2, <2>3
<1>6. CASE Quit
  <2>1. UNCHANGED <<text, process, unanswered, reader>>
    BY <1>6 DEF Quit, processVars
  <2>2. CASE UNCHANGED <<ready, queue>>
    BY <2>1, <2>2 DEF ServerStep, Keeps, Left
  <2>3. CASE \E s \in running : Stop(s) /\ queue' = AskedToShutDown(s)
    <3>1. PICK s \in running : Stop(s) /\ queue' = AskedToShutDown(s)
      BY <2>3
    <3>2. s \in Servers
      BY DEF TypeOK
    <3> QED BY <1>a, <1>b, <2>1, <3>1, <3>2 DEF ServerStep, Keeps, Left, Queued
  <2> QED BY <1>6, <2>2, <2>3 DEF Quit
<1>7. ASSUME NEW s \in Servers, StopLsp(s)
      PROVE  ServerStep(t)
  BY <1>7, <1>a, <1>b DEF StopLsp, processVars, ServerStep, Keeps, Left, Queued
<1>8. ASSUME NEW s \in Servers, RestartLsp(s)
      PROVE  ServerStep(t)
  <2>1. AskedToShutDown(s) \in [Servers -> Seq(Messages)]
    BY AskedTypes
  <2>2. reader' = [reader EXCEPT ![NewServer] = "reading"]
        /\ process' = [process EXCEPT ![NewServer] = "up"]
        /\ queue' = [AskedToShutDown(s) EXCEPT ![NewServer] = <<Message("initialize")>>]
        /\ started' = NewServer /\ UNCHANGED <<text, unanswered>> /\ ready' \subseteq ready
    BY <1>8, <1>b DEF RestartLsp, Started
  <2>3. Keeps(t)
    BY <2>2 DEF Keeps, TypeOK
  <2>4. CASE t = NewServer
    BY <2>1, <2>2, <2>3, <2>4 DEF ServerStep, IsStarted, TypeOK
  <2>5. CASE t # NewServer
    <3>1. queue'[t] = AskedToShutDown(s)[t] /\ process'[t] = process[t] /\ text'[t] = text[t]
      BY <2>1, <2>2, <2>5 DEF TypeOK
    <3> QED BY <1>a, <2>3, <3>1 DEF ServerStep, Left, Queued
  <2> QED BY <2>4, <2>5
<1>9. ASSUME NEW s \in Servers, Reads(s)
      PROVE  ServerStep(t)
  <2>1. UNCHANGED <<ready, reader, process>> /\ queue[s] # <<>>
        /\ queue' = [queue EXCEPT ![s] = Tail(@)]
    BY <1>9 DEF Reads
  <2>2. CASE s = t
    <3>1. text'[t] = IF IsDocument(Head(queue[t])) THEN Head(queue[t]).revision ELSE text[t]
      BY <1>9, <2>2 DEF Reads, IsDocument, TypeOK
    <3>2. t \in unanswered' => t \in unanswered \/ Head(queue[t]) = Message("initialize")
      <4>1. queue[s] \in Seq(Messages) /\ Head(queue[s]) \in Messages
        BY <2>1 DEF TypeOK
      <4>2. Head(queue[s]).type = "initialize" => Head(queue[s]) = Message("initialize")
        <5>1. CASE Head(queue[s]) \in
                     {Message(k) : k \in {"initialize", "initialized", "other"}}
          <6>1. PICK k \in {"initialize", "initialized", "other"} :
                  Head(queue[s]) = Message(k)
            BY <5>1
          <6>2. Message(k).type = k
            BY KindsOfMessages
          <6> QED BY <6>1, <6>2
        <5>2. CASE Head(queue[s]) \in {Document(r) : r \in Revisions}
          BY <5>2 DEF Document
        <5> QED BY <4>1, <5>1, <5>2 DEF Messages
      <4>3. unanswered' = unanswered \/ Head(queue[s]).type = "initialize"
        BY <1>9 DEF Reads
      <4> QED BY <2>2, <4>2, <4>3
    <3>3. queue'[t] = Tail(queue[t]) /\ queue[t] # <<>>
      BY <2>1, <2>2 DEF TypeOK
    <3> QED BY <2>1, <3>1, <3>2, <3>3 DEF ServerStep, HasRead
  <2>3. CASE s # t
    <3>1. queue'[t] = queue[t] /\ text'[t] = text[t]
          /\ (t \in unanswered' => t \in unanswered)
      BY <1>9, <2>3 DEF Reads, TypeOK
    <3> QED BY <2>1, <3>1 DEF ServerStep, Keeps, Left
  <2> QED BY <2>2, <2>3
<1>10. ASSUME NEW s \in Servers, Ends(s) \/ ReaperKills(s)
       PROVE  ServerStep(t)
  <2>1. Ended(s) /\ UNCHANGED <<ready, reader, unanswered>>
    BY <1>10 DEF Ends, ReaperKills
  <2>2. CASE s = t
    BY <2>1, <2>2 DEF Ended, ServerStep, HasEnded, Keeps, TypeOK
  <2>3. CASE s # t
    BY <2>1, <2>3 DEF Ended, ServerStep, Keeps, Left, TypeOK
  <2> QED BY <2>2, <2>3
<1>11. ASSUME NEW s \in Servers, ReaderGreets(s)
       PROVE  ServerStep(t)
  <2>1. UNCHANGED <<ready, text, process>> /\ queue' = Sent(s, Message("initialized"))
        /\ s \in unanswered /\ unanswered' = unanswered \ {s}
        /\ reader' = [reader EXCEPT ![s] = "readying"]
    BY <1>11 DEF ReaderGreets
  <2>2. CASE s = t
    BY <1>0, <2>1, <2>2, SentIsAStep DEF ServerStep, IsGreeted, Left, Queued
  <2>3. CASE s # t
    BY <1>0, <2>1, <2>3, SentIsAStep DEF ServerStep, Keeps, Left, TypeOK
  <2> QED BY <2>2, <2>3
<1>12. ASSUME NEW s \in Servers, ReaderReadies(s) \/ ReaderRefused(s) \/ ReaderEnds(s)
       PROVE  ServerStep(t)
  <2>1. UNCHANGED <<queue, text, process>> /\ unanswered' \subseteq unanswered
    BY <1>12 DEF ReaderReadies, ReaderRefused, ReaderEnds, processVars
  <2>2. Keeps(t)
    BY <1>12 DEF ReaderReadies, ReaderRefused, ReaderEnds, Keeps, processVars, TypeOK
  <2> QED BY <2>1, <2>2 DEF ServerStep, Left
<1>13. ASSUME NEW s \in Servers, ReaderReads(s) \/ ReaperExits(s)
       PROVE  ServerStep(t)
  <2>1. UNCHANGED <<ready, reader, text, process, unanswered>>
        /\ (queue' = queue \/ queue' = Sent(s, Message("other")))
    BY <1>13 DEF ReaderReads, ReaperExits, processVars
  <2> QED BY <1>0, <2>1, SentIsAStep DEF ServerStep, Keeps, Left, Queued
<1> QED BY <1>1, <1>2, <1>3, <1>4, <1>5, <1>6, <1>7, <1>8, <1>9, <1>10, <1>11, <1>12, <1>13
        DEF Next, Window, Reader, Reaper

-------------------------------------------------------------------------------
(* What is said to a server.                                               *)

LEMMA QueueWithLast ==
    ASSUME NEW q \in Seq(Messages), NEW m \in Messages
    PROVE  /\ DOMAIN Append(q, m) = 1 .. Len(q) + 1 /\ DOMAIN q = 1 .. Len(q) /\ Len(q) \in Nat
           /\ \A i \in 1 .. Len(q) : Append(q, m)[i] = q[i]
           /\ Append(q, m)[Len(q) + 1] = m
  OBVIOUS

LEMMA QueueWithoutFirst ==
    ASSUME NEW q \in Seq(Messages), q # <<>>
    PROVE  /\ DOMAIN Tail(q) = 1 .. Len(q) - 1 /\ DOMAIN q = 1 .. Len(q)
           /\ Len(q) \in Nat \ {0} /\ Head(q) = q[1] /\ 1 \in DOMAIN q
           /\ \A i \in 1 .. Len(q) - 1 : Tail(q)[i] = q[i + 1] /\ i + 1 \in DOMAIN q
  OBVIOUS

\* What is not a document, and not `initialize'.
LEMMA Spoken ==
    /\ \A k \in {"initialize", "initialized", "other"} :
         Message(k) \in Messages /\ ~IsDocument(Message(k))
    /\ Message("other") # Message("initialize") /\ Message("initialized") # Message("initialize")
    /\ Message("other") # Message("initialized")
    /\ \A r : Document(r) # Message("initialize") /\ Document(r) # Message("initialized")
              /\ IsDocument(Document(r))
<1>1. \A k : Message(k).type = k
  BY KindsOfMessages
<1>2. \A r : Document(r).type = "document"
  BY DEF Document
<1>3. \A k \in {"initialize", "initialized", "other"} : Message(k) \in Messages
  BY MessagesAreMessages
<1> QED BY <1>1, <1>2, <1>3 DEF IsDocument

\* A server is greeted once, before it is ready, and not handed documents before.
LEMMA GreetsInductive == TypeOK /\ Lives /\ Greets /\ [Next]_vars => Greets'
<1> SUFFICES ASSUME TypeOK, Lives, Greets, [Next]_vars, NEW t \in Servers
             PROVE  /\ \A i \in DOMAIN queue'[t] : queue'[t][i] = Message("initialize") =>
                         i = 1 /\ t \notin unanswered' \cup ready' /\ reader'[t] # "readying"
                           /\ NoDocument(t)'
                    /\ t \in unanswered' =>
                         t \notin ready' /\ reader'[t] # "readying" /\ NoDocument(t)'
  BY DEF Greets
<1> DEFINE q == queue[t]
           HasInitialize == \E i \in DOMAIN q : q[i] = Message("initialize")
<1>0. q \in Seq(Messages) /\ Document(revision) \in Messages
  BY MessagesAreMessages DEF TypeOK
<1>a. /\ \A i \in DOMAIN q : q[i] = Message("initialize") =>
            i = 1 /\ t \notin unanswered \cup ready /\ reader[t] # "readying" /\ NoDocument(t)
      /\ t \in unanswered => t \notin ready /\ reader[t] # "readying" /\ NoDocument(t)
  BY DEF Greets
<1>1. ServerStep(t)
  BY ServerSteps
<1>2. CASE Keeps(t) /\ Left(t)
  BY <1>2, <1>a DEF Keeps, Left, NoDocument
<1>3. ASSUME NEW m \in {Message("other"), Message("initialized")}, Queued(t, m)
      PROVE  /\ NoDocument(t) => NoDocument(t)'
             /\ \A i \in DOMAIN queue'[t] :
                  queue'[t][i] = Message("initialize") => i \in DOMAIN q /\ q[i] = queue'[t][i]
  <2>1. m \in Messages /\ ~IsDocument(m) /\ m # Message("initialize")
    BY Spoken
  <2>2. DOMAIN queue'[t] = 1 .. Len(q) + 1 /\ DOMAIN q = 1 .. Len(q) /\ Len(q) \in Nat
        /\ (\A i \in 1 .. Len(q) : queue'[t][i] = q[i]) /\ queue'[t][Len(q) + 1] = m
    BY <1>0, <1>3, <2>1, QueueWithLast DEF Queued
  <2>3. \A i \in DOMAIN queue'[t] : i \in DOMAIN q \/ i = Len(q) + 1
    BY <2>2
  <2> QED BY <1>3, <2>1, <2>2, <2>3 DEF NoDocument, Queued
<1>4. CASE Keeps(t) /\ Queued(t, Message("other"))
  BY <1>4, <1>3, <1>a DEF Keeps
<1>5. CASE IsGreeted(t)
  <2>1. ~HasInitialize
    BY <1>5, <1>a DEF IsGreeted
  <2>2. \A i \in DOMAIN queue'[t] : queue'[t][i] # Message("initialize")
    <3>1. CASE Left(t)
      BY <2>1, <3>1 DEF Left
    <3>2. CASE Queued(t, Message("initialized"))
      BY <2>1, <3>2, <1>3
    <3> QED BY <1>5, <3>1, <3>2 DEF IsGreeted
  <2> QED BY <1>5, <2>2 DEF IsGreeted
<1>6. CASE IsHanded(t)
  <2>1. t \in ready /\ ~HasInitialize /\ t \notin unanswered
    BY <1>6, <1>a DEF IsHanded
  <2>2. DOMAIN queue'[t] = 1 .. Len(q) + 1 /\ DOMAIN q = 1 .. Len(q) /\ Len(q) \in Nat
        /\ (\A i \in 1 .. Len(q) : queue'[t][i] = q[i])
        /\ queue'[t][Len(q) + 1] = Document(revision)
    BY <1>0, <1>6, QueueWithLast DEF IsHanded, Queued
  <2>3. \A i \in DOMAIN queue'[t] : queue'[t][i] # Message("initialize")
    BY <2>1, <2>2, Spoken
  <2> QED BY <1>6, <2>1, <2>3 DEF IsHanded, Keeps
<1>7. CASE HasRead(t)
  <2>1. /\ DOMAIN queue'[t] = 1 .. Len(q) - 1 /\ DOMAIN q = 1 .. Len(q)
        /\ Len(q) \in Nat \ {0} /\ Head(q) = q[1] /\ 1 \in DOMAIN q
        /\ \A i \in 1 .. Len(q) - 1 : queue'[t][i] = q[i + 1] /\ i + 1 \in DOMAIN q
    BY <1>0, <1>7, QueueWithoutFirst DEF HasRead
  <2>2. \A i \in DOMAIN queue'[t] : queue'[t][i] # Message("initialize")
    <3> SUFFICES ASSUME NEW i \in DOMAIN queue'[t], queue'[t][i] = Message("initialize")
                 PROVE  FALSE
      OBVIOUS
    <3>1. i + 1 \in DOMAIN q /\ q[i + 1] = Message("initialize") /\ i + 1 # 1
      BY <2>1
    <3> QED BY <1>a, <3>1
  <2>3. NoDocument(t) => NoDocument(t)'
    BY <1>7, <2>1 DEF HasRead, NoDocument
  <2>4. t \in unanswered' => t \notin ready /\ reader[t] # "readying" /\ NoDocument(t)
    BY <1>7, <1>a, <2>1 DEF HasRead
  <2> QED BY <1>7, <2>2, <2>3, <2>4 DEF HasRead
<1>8. CASE HasEnded(t)
  BY <1>8, <1>a DEF HasEnded, Keeps, NoDocument
<1>9. CASE IsStarted(t)
  <2>1. t > started
    BY <1>9, NewIsUnused DEF IsStarted, Lives
  <2>2. t \notin ready \cup unanswered /\ reader[t] = "none" /\ text[t] = NoText
    BY <2>1 DEF Lives, Unused
  <2>3. DOMAIN queue'[t] = {1} /\ queue'[t][1] = Message("initialize")
    BY <1>9 DEF IsStarted
  <2>4. NoDocument(t)'
    BY <1>9, <2>2, <2>3, Spoken DEF IsStarted, NoDocument
  <2> QED BY <1>9, <2>2, <2>3, <2>4 DEF IsStarted, Keeps
<1> QED BY <1>1, <1>2, <1>4, <1>5, <1>6, <1>7, <1>8, <1>9 DEF ServerStep

\* So `initialized' is before every document, in what a server reads.
LEMMA OrderInductive ==
    TypeOK /\ Lives /\ Greets /\ DocumentsFollowInitialized /\ [Next]_vars
        => DocumentsFollowInitialized'
<1> SUFFICES ASSUME TypeOK, Lives, Greets, DocumentsFollowInitialized, [Next]_vars,
                    NEW t \in Servers, NEW i \in DOMAIN queue'[t],
                    queue'[t][i] = Message("initialized")
             PROVE  text'[t] = NoText /\ \A j \in 1 .. i : ~IsDocument(queue'[t][j])
  BY DEF DocumentsFollowInitialized, IsDocument
<1> DEFINE q == queue[t]
<1>0. q \in Seq(Messages) /\ Document(revision) \in Messages
  BY MessagesAreMessages DEF TypeOK
<1>a. \A k \in DOMAIN q : q[k] = Message("initialized") =>
        text[t] = NoText /\ \A j \in 1 .. k : ~IsDocument(q[j])
  BY DEF DocumentsFollowInitialized
<1>1. ServerStep(t)
  BY ServerSteps
<1>2. CASE Left(t)
  BY <1>2, <1>a DEF Left
<1>3. ASSUME NEW m \in Messages, Queued(t, m), m = Message("initialized") => NoDocument(t)
      PROVE  text'[t] = NoText /\ \A j \in 1 .. i : ~IsDocument(queue'[t][j])
  <2>1. DOMAIN queue'[t] = 1 .. Len(q) + 1 /\ DOMAIN q = 1 .. Len(q) /\ Len(q) \in Nat
        /\ (\A j \in 1 .. Len(q) : queue'[t][j] = q[j]) /\ queue'[t][Len(q) + 1] = m
    BY <1>0, <1>3, QueueWithLast DEF Queued
  <2>2. CASE i \in 1 .. Len(q)
    BY <1>3, <1>a, <2>1, <2>2 DEF Queued
  <2>3. CASE i = Len(q) + 1
    <3>1. m = Message("initialized") /\ NoDocument(t) /\ ~IsDocument(m)
      BY <1>3, <2>1, <2>3, Spoken
    <3>2. \A j \in 1 .. i : j \in DOMAIN q \/ j = Len(q) + 1
      BY <2>1, <2>3
    <3> QED BY <1>3, <2>1, <3>1, <3>2 DEF NoDocument, Queued
  <2> QED BY <2>1, <2>2, <2>3
<1>4. CASE Queued(t, Message("other"))
  BY <1>3, <1>4, Spoken
<1>5. CASE IsGreeted(t)
  <2>1. NoDocument(t)
    BY <1>5 DEF IsGreeted, Greets
  <2> QED BY <1>2, <1>3, <1>5, <2>1, Spoken DEF IsGreeted
<1>6. CASE IsHanded(t)
  BY <1>0, <1>3, <1>6, Spoken DEF IsHanded
<1>7. CASE HasRead(t)
  <2>1. /\ DOMAIN queue'[t] = 1 .. Len(q) - 1 /\ DOMAIN q = 1 .. Len(q)
        /\ Len(q) \in Nat \ {0} /\ Head(q) = q[1] /\ 1 \in DOMAIN q
        /\ \A k \in 1 .. Len(q) - 1 : queue'[t][k] = q[k + 1] /\ k + 1 \in DOMAIN q
    BY <1>0, <1>7, QueueWithoutFirst DEF HasRead
  <2>2. text[t] = NoText /\ \A j \in 1 .. i + 1 : ~IsDocument(q[j])
    BY <1>a, <2>1
  <2>3. ~IsDocument(Head(q)) /\ \A j \in 1 .. i : queue'[t][j] = q[j + 1] /\ j + 1 \in 1 .. i + 1
    BY <2>1, <2>2
  <2> QED BY <1>7, <2>2, <2>3 DEF HasRead
<1>8. CASE HasEnded(t)
  BY <1>8 DEF HasEnded
<1>9. CASE IsStarted(t)
  BY <1>9, Spoken DEF IsStarted
<1> QED BY <1>1, <1>2, <1>4, <1>5, <1>6, <1>7, <1>8, <1>9 DEF ServerStep

\* What a step does to what the editor takes a server to have.
LEMMA SyncedSteps ==
    ASSUME TypeOK, [Next]_vars
    PROVE  \/ synced' = synced
           \/ synced'.server = NoServer
           \/ \E s \in Servers :
                /\ synced' = [server |-> s, revision |-> revision]
                /\ \/ process'[s] = "ended"
                   \/ Queued(s, Document(revision))
<1>0. NotSynced.server = NoServer /\ Document(revision) \in Messages
  BY MessagesAreMessages DEF NotSynced, TypeOK
<1>a. ASSUME NEW P \in SUBSET Servers, Sync(P, synced) \/ Sync(P, NotSynced),
             UNCHANGED <<text, process>>
      PROVE  \/ synced' = synced
             \/ synced'.server = NoServer
             \/ \E s \in Servers :
                  /\ synced' = [server |-> s, revision |-> revision]
                  /\ \/ process'[s] = "ended"
                     \/ Queued(s, Document(revision))
  <2>1. PICK had \in {synced, NotSynced} : Sync(P, had)
    BY <1>a
  <2>2. CASE synced' \in {had, NotSynced}
    BY <1>0, <2>2
  <2>3. CASE \E s \in P \cap ready :
               /\ synced' = [server |-> s, revision |-> revision]
               /\ queue' = queue /\ process[s] = "ended"
    BY <1>a, <2>3
  <2>4. CASE \E s \in P \cap ready :
               /\ synced' = [server |-> s, revision |-> revision]
               /\ HasRoom(s) /\ queue' = Sent(s, Document(revision))
    <3>1. PICK s \in P \cap ready :
               /\ synced' = [server |-> s, revision |-> revision]
               /\ HasRoom(s) /\ queue' = Sent(s, Document(revision))
      BY <2>4
    <3>2. queue'[s] = Append(queue[s], Document(revision))
      BY <1>0, <3>1, SentTo
    <3> QED BY <1>a, <3>1, <3>2 DEF Queued
  <2> QED BY <2>1, <2>2, <2>3, <2>4, SyncDoes
<1>1. CASE Tick
  <2>1. ports \in SUBSET Servers
    BY DEF TypeOK
  <2> QED BY <1>1, <1>a, <2>1 DEF Tick, processVars
<1>2. CASE HandOver
  <2>1. running \in SUBSET Servers /\ UNCHANGED <<text, process>>
    BY <1>2 DEF HandOver, processVars, TypeOK
  <2> QED BY <1>2, <1>a, <2>1 DEF HandOver
<1>3. CASE \E s \in Servers : StopLsp(s)
  BY <1>0, <1>3 DEF StopLsp
<1>4. CASE Edit \/ Start \/ Drain \/ Quit \/ Joined \/ (\E s \in Servers : RestartLsp(s))
           \/ (\E s \in Servers : Reads(s) \/ Ends(s) \/ Reader(s) \/ Reaper(s))
           \/ UNCHANGED vars
  <2>1. UNCHANGED synced
    BY <1>4, ServerStepsKeep
       DEF Edit, Start, Drain, Quit, Joined, RestartLsp, vars, editorVars
  <2> QED BY <2>1
<1> QED BY <1>1, <1>2, <1>3, <1>4 DEF Next, Window

\* Whatever became of its messages, a server the editor takes to have a revision
\* has it, or reads it before anything newer.
LEMMA TextInductive ==
    TypeOK /\ Lives /\ ServersHaveTheText /\ [Next]_vars => ServersHaveTheText'
<1> SUFFICES ASSUME TypeOK, Lives, ServersHaveTheText, [Next]_vars,
                    NEW t, t = synced'.server, NEW r, r = synced'.revision,
                    t # NoServer, process'[t] = "up"
             PROVE  LastTold(t, r)'
  BY DEF ServersHaveTheText, LastTold, IsDocument
<1>0. t \in Servers /\ r \in Revisions
  BY TypeInductive DEF TypeOK
<1> DEFINE q == queue[t]
<1>a. q \in Seq(Messages) /\ \A x \in Revisions : Document(x) \in Messages
  BY <1>0, MessagesAreMessages DEF TypeOK
<1>1. CASE Queued(t, Document(r))
  <2>1. DOMAIN queue'[t] = 1 .. Len(q) + 1 /\ Len(q) \in Nat
        /\ queue'[t][Len(q) + 1] = Document(r)
    BY <1>0, <1>1, <1>a, QueueWithLast DEF Queued
  <2>2. DOMAIN queue'[t] = 1 .. Len(queue'[t]) /\ Len(queue'[t]) = Len(q) + 1
    BY <1>0, <1>1, <1>a DEF Queued
  <2>3. Len(q) + 1 \in DOMAIN queue'[t]
        /\ \A j \in Len(q) + 1 + 1 .. Len(queue'[t]) : ~IsDocument(queue'[t][j])
    BY <2>1, <2>2
  <2> QED BY <2>1, <2>3 DEF LastTold, IsDocument
<1>2. CASE synced' = synced /\ ~IsHanded(t)
  <2>1. t = synced.server /\ r = synced.revision /\ ~(t > started)
    BY <1>0, <1>2 DEF Lives, Unused
  <2>2. process[t] = "up" => LastTold(t, r)
    BY <2>1 DEF ServersHaveTheText
  <2>3. ServerStep(t)
    BY <1>0, ServerSteps
  <2>4. ~HasEnded(t) /\ ~IsStarted(t)
    <3>1. NewServer > started
      BY NewIsUnused DEF Lives
    <3> QED BY <2>1, <3>1 DEF HasEnded, IsStarted
  <2>5. CASE Left(t)
    BY <2>2, <2>5 DEF Left, LastTold, IsDocument
  <2>6. ASSUME NEW m \in {Message("other"), Message("initialized")}, Queued(t, m)
        PROVE  LastTold(t, r)'
    <3>1. m \in Messages /\ ~IsDocument(m)
      BY <2>6, Spoken
    <3>2. DOMAIN queue'[t] = 1 .. Len(q) + 1 /\ DOMAIN q = 1 .. Len(q) /\ Len(q) \in Nat
          /\ (\A j \in 1 .. Len(q) : queue'[t][j] = q[j]) /\ queue'[t][Len(q) + 1] = m
          /\ Len(queue'[t]) = Len(q) + 1
      BY <1>a, <2>6, <3>1, QueueWithLast DEF Queued
    <3>3. LastTold(t, r) /\ text'[t] = text[t]
      BY <2>2, <2>6 DEF Queued
    <3>4. CASE text[t] = r /\ \A i \in DOMAIN q : ~IsDocument(q[i])
      <4>1. \A i \in DOMAIN queue'[t] : ~IsDocument(queue'[t][i])
        <5> SUFFICES ASSUME NEW i \in 1 .. Len(q) + 1 PROVE ~IsDocument(queue'[t][i])
          BY <3>2
        <5>1. CASE i = Len(q) + 1
          BY <3>1, <3>2, <5>1
        <5>2. CASE i \in DOMAIN q
          BY <3>2, <3>4, <5>2
        <5> QED BY <3>2, <5>1, <5>2
      <4> QED BY <3>3, <3>4, <4>1 DEF LastTold, IsDocument
    <3>5. CASE \E i \in DOMAIN q : q[i] = Document(r)
                 /\ \A j \in i + 1 .. Len(q) : ~IsDocument(q[j])
      <4>1. PICK i \in DOMAIN q : q[i] = Document(r)
                 /\ \A j \in i + 1 .. Len(q) : ~IsDocument(q[j])
        BY <3>5
      <4>2. i \in DOMAIN queue'[t] /\ queue'[t][i] = Document(r)
            /\ \A j \in i + 1 .. Len(queue'[t]) : ~IsDocument(queue'[t][j])
        BY <3>1, <3>2, <4>1
      <4> QED BY <4>2 DEF LastTold, IsDocument
    <3> QED BY <3>3, <3>4, <3>5 DEF LastTold
  <2>7. CASE HasRead(t)
    <3>1. /\ DOMAIN queue'[t] = 1 .. Len(q) - 1 /\ DOMAIN q = 1 .. Len(q)
          /\ Len(q) \in Nat \ {0} /\ Head(q) = q[1] /\ 1 \in DOMAIN q
          /\ Len(queue'[t]) = Len(q) - 1
          /\ \A k \in 1 .. Len(q) - 1 : queue'[t][k] = q[k + 1] /\ k + 1 \in DOMAIN q
      BY <1>a, <2>7, QueueWithoutFirst DEF HasRead
    <3>2. LastTold(t, r)
      BY <2>2, <2>7 DEF HasRead
    <3>3. CASE text[t] = r /\ \A i \in DOMAIN q : ~IsDocument(q[i])
      <4>1. text'[t] = r /\ \A i \in DOMAIN queue'[t] : ~IsDocument(queue'[t][i])
        BY <2>7, <3>1, <3>3 DEF HasRead
      <4> QED BY <4>1 DEF LastTold, IsDocument
    <3>4. CASE \E i \in DOMAIN q : q[i] = Document(r)
                 /\ \A j \in i + 1 .. Len(q) : ~IsDocument(q[j])
      <4>1. PICK i \in DOMAIN q : q[i] = Document(r)
                 /\ \A j \in i + 1 .. Len(q) : ~IsDocument(q[j])
        BY <3>4
      <4>2. CASE i = 1
        <5>1. text'[t] = r
          BY <2>7, <3>1, <4>1, <4>2, KindsOfMessages DEF HasRead
        <5>2. \A k \in DOMAIN queue'[t] : ~IsDocument(queue'[t][k])
          BY <3>1, <4>1, <4>2
        <5> QED BY <5>1, <5>2 DEF LastTold, IsDocument
      <4>3. CASE i # 1
        <5> DEFINE k == i - 1
        <5>1. k \in 1 .. Len(q) - 1 /\ k + 1 = i
          BY <3>1, <4>1, <4>3
        <5>2. k \in DOMAIN queue'[t] /\ queue'[t][k] = Document(r)
          BY <3>1, <4>1, <5>1
        <5>3. \A j \in k + 1 .. Len(queue'[t]) : ~IsDocument(queue'[t][j])
          BY <3>1, <4>1, <5>1
        <5> HIDE DEF k
        <5> QED BY <5>2, <5>3 DEF LastTold, IsDocument
      <4> QED BY <4>2, <4>3
    <3> QED BY <3>2, <3>3, <3>4 DEF LastTold
  <2> QED BY <1>2, <2>3, <2>4, <2>5, <2>6, <2>7 DEF ServerStep, IsGreeted
<1>3. CASE IsHanded(t)
  <2>1. Queued(t, Document(r))
    BY <1>3 DEF IsHanded
  <2> QED BY <1>1, <2>1
<1>4. CASE \E s \in Servers : /\ synced' = [server |-> s, revision |-> revision]
                              /\ \/ process'[s] = "ended"
                                 \/ Queued(s, Document(revision))
  BY <1>1, <1>4
<1> QED BY <1>2, <1>3, <1>4, SyncedSteps

-------------------------------------------------------------------------------
(* What the editor knows.                                                  *)

\* An event stays awaited until it is drained, whatever is told meanwhile.
LEMMA AwaitedStays ==
    ASSUME TypeOK, NEW s, NEW e
    PROVE  /\ \A u, v : events' = Append(events, [server |-> u, event |-> v]) =>
                (Awaited(s, e) => Awaited(s, e)') /\ Awaited(u, v)'
           /\ events # <<>> /\ events' = Tail(events) /\ Head(events) # [server |-> s, event |-> e]
                => (Awaited(s, e) => Awaited(s, e)')
<1>0. events \in Seq(Events) /\ Len(events) \in Nat /\ DOMAIN events = 1 .. Len(events)
  BY DEF TypeOK
<1>1. ASSUME NEW u, NEW v, events' = Append(events, [server |-> u, event |-> v])
      PROVE  (Awaited(s, e) => Awaited(s, e)') /\ Awaited(u, v)'
  <2>1. DOMAIN events' = 1 .. Len(events) + 1
        /\ (\A i \in 1 .. Len(events) : events'[i] = events[i])
        /\ events'[Len(events) + 1] = [server |-> u, event |-> v]
    BY <1>0, <1>1
  <2> QED BY <1>0, <2>1 DEF Awaited
<1>2. ASSUME events # <<>>, events' = Tail(events),
             Head(events) # [server |-> s, event |-> e], Awaited(s, e)
      PROVE  Awaited(s, e)'
  <2>1. PICK i \in DOMAIN events : events[i] = [server |-> s, event |-> e]
    BY <1>2 DEF Awaited
  <2>2. i # 1 /\ DOMAIN events' = 1 .. Len(events) - 1
        /\ \A k \in 1 .. Len(events) - 1 : events'[k] = events[k + 1]
    BY <1>0, <1>2, <2>1
  <2> DEFINE k == i - 1
  <2>3. k \in DOMAIN events' /\ events'[k] = [server |-> s, event |-> e]
    BY <1>0, <2>1, <2>2
  <2> HIDE DEF k
  <2> QED BY <2>3 DEF Awaited
<1> QED BY <1>1, <1>2

LEMMA PortsInductive == TypeOK /\ Lives /\ PortsAreTold /\ [Next]_vars => PortsAreTold'
<1> SUFFICES ASSUME TypeOK, Lives, PortsAreTold, [Next]_vars,
                    window' # "quitting", window' # "gone", ~news'
             PROVE  /\ ports' \subseteq running'
                    /\ \A s \in running' \cap ready' : s \in ports' \/ Awaited(s, "Ready")'
                    /\ \A s \in ports' :
                         (s \in shown' <=> s \in problems') \/ Awaited(s, "Diagnostics")'
  BY DEF PortsAreTold, Awaited
<1>a. window \in {"loop", "delivering"} /\ ~news =>
        /\ ports \subseteq running
        /\ \A s \in running \cap ready : s \in ports \/ Awaited(s, "Ready")
        /\ \A s \in ports : (s \in shown <=> s \in problems) \/ Awaited(s, "Diagnostics")
  BY DEF PortsAreTold
<1>b. window \in {"loop", "delivering", "quitting", "gone"}
  BY DEF TypeOK
<1>1. CASE Edit \/ Tick \/ UNCHANGED vars
  <2>1. UNCHANGED <<window, news, running, ready, ports, shown, problems, events>>
    BY <1>1 DEF Edit, Tick, vars, hubVars, editorVars
  <2> QED BY <1>a, <1>b, <2>1 DEF Awaited
<1>2. CASE Start
  <2>1. window = "loop" /\ running = {} /\ running' = {NewServer} /\ NewServer \in Servers
        /\ UNCHANGED <<news, ports, ready>>
    BY <1>2 DEF Start, Started, editorVars
  <2>2. NewServer \notin ready /\ ports = {}
    BY <1>a, <2>1, NewIsUnused DEF Lives
  <2> QED BY <2>1, <2>2
<1>3. CASE Drain
  <2> DEFINE h == Head(events)
  <2>1. events # <<>> /\ events' = Tail(events) /\ InUse /\ UNCHANGED ports
        /\ h.server \in Servers /\ window \in {"loop", "delivering"}
    <3>1. events # <<>> /\ events' = Tail(events) /\ InUse /\ UNCHANGED ports
      BY <1>3 DEF Drain
    <3>2. h \in Events
      BY <3>1 DEF TypeOK
    <3>3. h.server \in Servers
      BY <3>2 DEF Events
    <3> QED BY <3>1, <3>3 DEF InUse
  <2>2. ~(h.event = "Ready")
    <3>1. CASE h.event = "Ready"
      BY <1>3, <3>1 DEF Drain, DrainReady
    <3> QED BY <3>1
  <2>3. UNCHANGED <<running, news, ready, problems>>
    BY <1>3, <2>2 DEF Drain, DrainDiagnostics, DrainProgress, DrainExited
  <2>4. \A s \in Servers : Awaited(s, "Ready") => Awaited(s, "Ready")'
    <3> TAKE s \in Servers
    <3>1. h # [server |-> s, event |-> "Ready"]
      BY <2>2
    <3> QED BY <2>1, <3>1, AwaitedStays
  <2>5. CASE h.event = "Diagnostics" /\ h.server \in ports /\ shown' = problems
    BY <1>a, <2>1, <2>3, <2>4, <2>5 DEF TypeOK
  <2>6. CASE UNCHANGED shown /\ (h.event # "Diagnostics" \/ h.server \notin ports)
    <3>1. \A s \in ports : Awaited(s, "Diagnostics") => Awaited(s, "Diagnostics")'
      <4> TAKE s \in ports
      <4>1. h # [server |-> s, event |-> "Diagnostics"]
        BY <2>6
      <4> QED BY <2>1, <4>1, AwaitedStays
    <3> QED BY <1>a, <2>1, <2>3, <2>4, <2>6, <3>1 DEF TypeOK
  <2> QED BY <1>3, <2>2, <2>5, <2>6
          DEF Drain, DrainDiagnostics, DrainProgress, DrainExited
<1>4. CASE HandOver
  <2>1. UNCHANGED <<running, ready, problems, events>> /\ window \in {"loop", "delivering"}
    BY <1>4 DEF HandOver, InUse
  <2>2. CASE news
    BY <1>4, <2>1, <2>2 DEF HandOver
  <2>3. CASE ~news
    BY <1>4, <1>a, <2>1, <2>3 DEF HandOver, Awaited
  <2> QED BY <2>2, <2>3
<1>5. CASE Quit \/ Joined \/ (\E s \in Servers : RestartLsp(s))
  BY <1>5 DEF Quit, Joined, RestartLsp
<1>6. CASE \E s \in Servers : StopLsp(s)
  <2>1. PICK s \in Servers : StopLsp(s)
    BY <1>6
  <2>2. running' = {} /\ ports' = {}
    BY <2>1 DEF StopLsp, Lives, OneRuns
  <2> QED BY <2>2
<1>7. ASSUME NEW u \in Servers, Reads(u) \/ Ends(u) \/ Reader(u) \/ Reaper(u)
      PROVE  /\ ports' \subseteq running'
             /\ \A s \in running' \cap ready' : s \in ports' \/ Awaited(s, "Ready")'
             /\ \A s \in ports' :
                  (s \in shown' <=> s \in problems') \/ Awaited(s, "Diagnostics")'
  <2>1. UNCHANGED <<window, running, news, ports, shown>>
    BY <1>7, ServerStepsKeep
  <2>2. \/ events' = events
        \/ \E e : events' = Append(events, [server |-> u, event |-> e])
    BY <1>7 DEF Reads, Ends, Reader, Reaper, Tell, ReaderGreets, ReaderReadies, ReaderRefused,
                ReaderReads, ReaderEnds, ReaperExits, ReaperKills
  <2>3. \A s, e : Awaited(s, e) => Awaited(s, e)'
    <3>1. CASE events' = events
      BY <3>1 DEF Awaited
    <3>2. CASE \E e : events' = Append(events, [server |-> u, event |-> e])
      BY <3>2, AwaitedStays
    <3> QED BY <2>2, <3>1, <3>2
  <2>4. \A s \in ready' : s \in ready \/ Awaited(s, "Ready")'
    <3>1. CASE ready' \subseteq ready
      BY <3>1
    <3>2. CASE ready' = ready \cup {u} /\ Tell(u, "Ready")
      BY <3>2, AwaitedStays DEF Tell
    <3> QED BY <1>7, <3>1, <3>2
            DEF Reads, Ends, Reader, Reaper, ReaderGreets, ReaderReadies, ReaderRefused,
                ReaderReads, ReaderEnds, ReaperExits, ReaperKills
  <2>5. \A s \in Servers : (s \in problems' <=> s \in problems) \/ Awaited(s, "Diagnostics")'
    <3>1. CASE problems' = problems
      BY <3>1
    <3>2. CASE problems' \in {problems \cup {u}, problems \ {u}} /\ Tell(u, "Diagnostics")
      <4>1. Awaited(u, "Diagnostics")'
        BY <3>2, AwaitedStays DEF Tell
      <4> QED BY <3>2, <4>1
    <3> QED BY <1>7, <3>1, <3>2
            DEF Reads, Ends, Reader, Reaper, ReaderGreets, ReaderReadies, ReaderRefused,
                ReaderReads, ReaderEnds, ReaperExits, ReaperKills
  <2>6. ports \subseteq Servers
    BY DEF TypeOK
  <2> QED BY <1>a, <1>b, <2>1, <2>3, <2>4, <2>5, <2>6
<1> QED BY <1>1, <1>2, <1>3, <1>4, <1>5, <1>6, <1>7 DEF Next, Window

-------------------------------------------------------------------------------
(* The theorems.                                                           *)

LEMMA InitIInv == Init => IInv
<1> SUFFICES ASSUME Init PROVE IInv
  OBVIOUS
<1>1. \A s \in Servers : queue[s] = <<>>
  BY DEF Init
<1>2. Greets /\ DocumentsFollowInitialized
  BY <1>1 DEF Init, Greets, DocumentsFollowInitialized
<1>3. ServersHaveTheText
  BY DEF Init, ServersHaveTheText, NotSynced
<1>4. PortsAreTold
  BY DEF Init, PortsAreTold
<1> QED BY <1>2, <1>3, <1>4, InitTypes, InitLives DEF IInv

LEMMA IInvInductive == IInv /\ [Next]_vars => IInv'
  BY TypeInductive, LivesInductive, GreetsInductive, OrderInductive, TextInductive,
     PortsInductive DEF IInv

\* A server hears `initialized' before the first document, though two threads send
\* them.
THEOREM DocumentOrder == Spec => []DocumentsFollowInitialized
<1>1. IInv => DocumentsFollowInitialized
  BY DEF IInv
<1> QED BY <1>1, InitIInv, IInvInductive, PTL DEF Spec

\* A server has the text the editor takes it to have, or is about to read it last,
\* however many changes a full queue dropped.
THEOREM TextIsHad == Spec => []ServersHaveTheText
<1>1. IInv => ServersHaveTheText
  BY DEF IInv
<1> QED BY <1>1, InitIInv, IInvInductive, PTL DEF Spec

\* Once all is delivered, the editor has the ready servers and no others.
THEOREM EditorsKnow == Spec => []EditorsKnowTheServers
<1>1. IInv => EditorsKnowTheServers
  <2>1. events = <<>> => \A s, e : ~Awaited(s, e)
    BY DEF Awaited
  <2> QED BY <2>1 DEF IInv, PortsAreTold, EditorsKnowTheServers, AtRest
<1> QED BY <1>1, InitIInv, IInvInductive, PTL DEF Spec

\* Once all is delivered, the problems shown are those in the store.
THEOREM ShownIsTheStore == Spec => []ShownAreTheProblems
<1>1. IInv => ShownAreTheProblems
  <2>1. events = <<>> => \A s, e : ~Awaited(s, e)
    BY DEF Awaited
  <2>2. IInv /\ AtRest => \A s \in ports : s \in shown <=> s \in problems
    BY <2>1 DEF IInv, PortsAreTold, AtRest
  <2> QED BY <2>2 DEF ShownAreTheProblems
<1> QED BY <1>1, InitIInv, IInvInductive, PTL DEF Spec
===============================================================================
