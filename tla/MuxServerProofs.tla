--------------------------- MODULE MuxServerProofs ---------------------------
(***************************************************************************)
(* Theorems about MuxServer for every choice of its constants.             *)
(***************************************************************************)
EXTENDS MuxServer, SequenceTheorems, WellFoundedInduction, TLAPS

-----------------------------------------------------------------------------
(* Size arbitration computes a geometry *)

\* The order of the natural numbers, as a relation, is well-founded.
LEMMA NatOrderIsWellFounded ==
    \E R : IsWellFoundedOn(R, Nat) /\ \A a, b \in Nat : a < b => <<a, b>> \in R
<1>1. \A a, b \in Nat : a < b => <<a, b>> \in OpToRel(<, Nat)
  BY DEF OpToRel
<1> QED BY <1>1, NatLessThanWellFounded

\* The minimum of natural numbers is one of them, and none is less.
LEMMA MinIsLeast ==
    ASSUME NEW S, S \subseteq Nat, S # {}
    PROVE  Min(S) \in S /\ \A y \in S : Min(S) =< y
<1>1. PICK R : IsWellFoundedOn(R, Nat) /\ \A a, b \in Nat : a < b => <<a, b>> \in R
  BY NatOrderIsWellFounded
<1>2. PICK x \in S : \A y \in S : ~ (<<y, x>> \in R)
  <2>1. IsWellFoundedOn(R, Nat)
    BY <1>1
  <2> HIDE <1>1
  <2> QED BY <2>1, WFMin
<1>3. ASSUME NEW y \in S
      PROVE  x =< y
  <2>1. ~ (y < x)
    BY <1>1, <1>2
  <2> QED BY <2>1
<1> QED BY <1>3 DEF Min

\* What the clients want, arbitrated, is a geometry again.
LEMMA EffectiveSizeType ==
    ASSUME NEW W, W \subseteq Geometry, W # {}
    PROVE  EffectiveSize(W) \in Geometry
<1>1. Min({g.cols : g \in W}) \in Nat /\ Min({g.rows : g \in W}) \in Nat
  <2>1. {g.cols : g \in W} \subseteq Nat /\ {g.cols : g \in W} # {}
    BY DEF Geometry
  <2>2. {g.rows : g \in W} \subseteq Nat /\ {g.rows : g \in W} # {}
    BY DEF Geometry
  <2> QED BY <2>1, <2>2, MinIsLeast
<1>2. SmallestCell(W) \in Nat
  <2>1. {g.cell : g \in W} \ {0} \subseteq Nat
    BY DEF Geometry
  <2> QED BY <2>1, MinIsLeast DEF SmallestCell
<1> QED BY <1>1, <1>2 DEF EffectiveSize, Geometry

-----------------------------------------------------------------------------
(* Queues *)

\* Queueing keeps every outbox a sequence of messages within its limit, and
\* refuses only frames of tracked clients.
LEMMA QueueingKeepsType ==
    ASSUME QueueType, ClientType, NEW msgs \in [Client -> Seq(ServerMessage)],
           \A c \in Client \ clients : msgs[c] = <<>>
    PROVE  /\ Queued(msgs) \in [Client -> Seq(ServerMessage)]
           /\ \A c \in Client : Len(Queued(msgs)[c]) <= OutboxLimit
           /\ Refusing(msgs) \subseteq clients
<1>1. \A c \in Client : Room(c) \in Nat /\ Len(outbox[c]) + Room(c) <= OutboxLimit
  BY BoundAssumption DEF Room, QueueType
<1>2. ASSUME NEW c \in Client
      PROVE  Queued(msgs)[c] \in Seq(ServerMessage) /\ Len(Queued(msgs)[c]) <= OutboxLimit
  <2>1. msgs[c] \in Seq(ServerMessage) /\ outbox[c] \in Seq(ServerMessage)
    BY DEF QueueType
  <2>2. CASE Len(msgs[c]) <= Room(c)
    <3>1. Queued(msgs)[c] = outbox[c] \o msgs[c]
      BY <2>2 DEF Queued
    <3> QED BY <1>1, <2>1, <2>2, <3>1, ConcatProperties, LenProperties, BoundAssumption
  <2>3. CASE ~ (Len(msgs[c]) <= Room(c))
    <3> DEFINE head == SubSeq(msgs[c], 1, Room(c))
    <3>1. Queued(msgs)[c] = outbox[c] \o head
      BY <2>3 DEF Queued
    <3>2. \A i \in 1 .. Room(c) : msgs[c][i] \in ServerMessage
      BY <1>1, <2>1, <2>3, LenProperties, ElementOfSeq
    <3>3. head \in Seq(ServerMessage) /\ Len(head) <= Room(c)
      BY <1>1, <3>2, SubSeqProperties
    <3> HIDE DEF head
    <3> QED BY <1>1, <2>1, <3>1, <3>3, ConcatProperties, LenProperties, BoundAssumption
  <2> QED BY <2>2, <2>3
<1>3. Refusing(msgs) \subseteq clients
  BY <1>1, EmptySeq DEF Refusing
<1> QED BY <1>2, <1>3 DEF Queued

\* Every message the server queues is one of the protocol.
LEMMA MessageTypes ==
    /\ Answer \in ServerMessage
    /\ \A n \in Name, g \in Geometry :
        /\ [type |-> "Attached", session |-> n, grid |-> GridOf(g)] \in ServerMessage
        /\ [type |-> "Resized", session |-> n, grid |-> GridOf(g)] \in ServerMessage
    /\ \A n \in Name, bytes \in Seq(Chunk) :
        [type |-> "Scrollback", session |-> n, bytes |-> bytes] \in ServerMessage
    /\ \A n \in Name, bytes \in Chunk :
        [type |-> "Output", session |-> n, bytes |-> bytes] \in ServerMessage
    /\ \A n \in Name : [type |-> "Exit", session |-> n] \in ServerMessage
<1>1. \A g \in Geometry : GridOf(g) \in Grid
  BY DEF GridOf, Grid, Geometry
<1> QED BY <1>1 DEF Answer, ServerMessage

LEMMA AttachRepliesType ==
    ASSUME NEW n \in Name, NEW g \in Geometry, NEW bytes \in Seq(Chunk), NEW replay \in BOOLEAN
    PROVE  AttachReplies(n, g, bytes, replay) \in Seq(ServerMessage)
<1> DEFINE attached == [type |-> "Attached", session |-> n, grid |-> GridOf(g)]
           scrollback == [type |-> "Scrollback", session |-> n, bytes |-> bytes]
<1>1. attached \in ServerMessage /\ scrollback \in ServerMessage
  BY MessageTypes
<1>2. AttachReplies(n, g, bytes, replay) \in {<<attached>>, <<attached, scrollback>>}
  BY DEF AttachReplies
<1> HIDE DEF attached, scrollback
<1>3. <<attached>> \in Seq(ServerMessage) /\ <<attached, scrollback>> \in Seq(ServerMessage)
  BY <1>1
<1> QED BY <1>2, <1>3

\* Nothing is queued for an untracked client, whether a reply or a broadcast.
LEMMA RecipientTypes ==
    /\ \A c \in Client, msgs \in Seq(ServerMessage) :
        /\ ToClient(c, msgs) \in [Client -> Seq(ServerMessage)]
        /\ \A d \in Client \ clients : ToClient(c, msgs)[d] = <<>>
    /\ \A id \in SessionId, msg \in ServerMessage :
        /\ ToAttached(id, msg) \in [Client -> Seq(ServerMessage)]
        /\ \A d \in Client \ clients : ToAttached(id, msg)[d] = <<>>
BY DEF ToClient, ToAttached

\* Queueing messages while no client comes or goes keeps the queues' type.
LEMMA EnqueueKeepsType ==
    ASSUME QueueType, ClientType, clients' = clients,
           NEW msgs \in [Client -> Seq(ServerMessage)],
           \A c \in Client \ clients : msgs[c] = <<>>,
           Enqueue(msgs)
    PROVE  QueueType'
BY QueueingKeepsType DEF Enqueue, QueueType

LEMMA BroadcastKeepsType ==
    ASSUME QueueType, ClientType, clients' = clients,
           NEW id \in SessionId, NEW msg \in ServerMessage, Enqueue(ToAttached(id, msg))
    PROVE  QueueType'
<1> DEFINE msgs == ToAttached(id, msg)
<1>1. msgs \in [Client -> Seq(ServerMessage)] /\ \A d \in Client \ clients : msgs[d] = <<>>
  BY RecipientTypes
<1> HIDE DEF msgs
<1> QED BY <1>1, EnqueueKeepsType DEF msgs

LEMMA RepliesKeepType ==
    ASSUME QueueType, ClientType, clients' = clients,
           NEW c \in Client, NEW replies \in Seq(ServerMessage), Enqueue(ToClient(c, replies))
    PROVE  QueueType'
<1> DEFINE msgs == ToClient(c, replies)
<1>1. msgs \in [Client -> Seq(ServerMessage)] /\ \A d \in Client \ clients : msgs[d] = <<>>
  BY RecipientTypes
<1> HIDE DEF msgs
<1> QED BY <1>1, EnqueueKeepsType DEF msgs

LEMMA ReplyErrorKeepsType ==
    ASSUME QueueType, ClientType, clients' = clients, NEW c \in Client, ReplyError(c)
    PROVE  QueueType'
<1>1. <<Answer>> \in Seq(ServerMessage)
  BY MessageTypes
<1> QED BY <1>1, RepliesKeepType DEF ReplyError, Reply

-----------------------------------------------------------------------------
(* Sessions *)

LEMMA IdType ==
    /\ \A n \in Name, g \in 1 .. MaxGeneration : IdOf(n, g) \in SessionId
    /\ \A id \in SessionId :
        /\ id.name \in Name /\ id.generation \in 1 .. MaxGeneration
        /\ id = IdOf(id.name, id.generation)
    /\ \A n, m \in Name, g, h \in 1 .. MaxGeneration : IdOf(n, g) = IdOf(m, h) <=> n = m /\ g = h
    /\ \A n \in Name, g \in 1 .. MaxGeneration : IdOf(n, g).name = n /\ IdOf(n, g).generation = g
BY DEF IdOf, SessionId

\* Creating a session keeps the manager's types.
LEMMA CreateKeepsType ==
    ASSUME ManagerType, NEW n \in Name, NEW g \in Geometry, CreateWith(n, g)
    PROVE  ManagerType' /\ nextGeneration \in 1 .. MaxGeneration
<1>1. nextGeneration \in 1 .. MaxGeneration
  BY BoundAssumption DEF CreateWith, ManagerType
<1>2. nextGeneration' \in 1 .. MaxGeneration + 1
  BY <1>1, BoundAssumption DEF CreateWith
<1>3. sessions' \in [Name -> 0 .. MaxGeneration]
  BY <1>1 DEF CreateWith, ManagerType
<1>4. geometry' \in [Name -> Geometry] /\ history' \in [Name -> Seq(Chunk)]
  BY DEF CreateWith, ManagerType
<1>5. program' \in [SessionId -> {"unused", "running", "signalled", "ended"}]
  BY <1>1, IdType DEF CreateWith, ManagerType
<1>6. produced' = produced
  BY DEF CreateWith
<1> QED BY <1>1, <1>2, <1>3, <1>4, <1>5, <1>6 DEF ManagerType

\* The retained output is a sequence of chunks no longer than the capacity.
LEMMA RetainedType ==
    ASSUME NEW bytes \in Seq(Chunk)
    PROVE  Retained(bytes) \in Seq(Chunk) /\ Len(Retained(bytes)) <= HistoryCap
<1>1. CASE Len(bytes) <= HistoryCap
  BY <1>1, BoundAssumption, LenProperties DEF Retained
<1>2. CASE Len(bytes) > HistoryCap
  <2> DEFINE first == Len(bytes) - HistoryCap + 1
  <2>1. Len(bytes) \in Nat /\ first \in 1 .. Len(bytes)
    BY <1>2, BoundAssumption, LenProperties
  <2>2. \A i \in first .. Len(bytes) : bytes[i] \in Chunk
    BY <2>1, ElementOfSeq
  <2>3. /\ SubSeq(bytes, first, Len(bytes)) \in Seq(Chunk)
        /\ Len(SubSeq(bytes, first, Len(bytes))) = Len(bytes) - first + 1
    <3> HIDE DEF first
    <3> QED BY <2>1, <2>2, SubSeqProperties
  <2> QED BY <1>2, <2>1, <2>3, BoundAssumption DEF Retained
<1> QED BY <1>1, <1>2, BoundAssumption, LenProperties

\* Ending a session keeps the types of all it touches.
LEMMA EndKeepsTypes ==
    ASSUME ManagerType, ClientType, QueueType, clients' = clients,
           NEW id \in SessionId, EndSession(id)
    PROVE  /\ sessions' \in [Name -> 0 .. MaxGeneration]
           /\ geometry' \in [Name -> Geometry]
           /\ history' \in [Name -> Seq(Chunk)]
           /\ ClientType'
           /\ QueueType'
           /\ sessionsChanged' \in BOOLEAN
<1>1. sessions' \in [Name -> 0 .. MaxGeneration]
  BY IdType, BoundAssumption DEF EndSession, ManagerType
<1>2. geometry' \in [Name -> Geometry] /\ history' \in [Name -> Seq(Chunk)]
  BY IdType, GeometryAssumption DEF EndSession, ManagerType
<1>3. QueueType'
  <2> DEFINE msg == [type |-> "Exit", session |-> id.name]
  <2>1. msg \in ServerMessage
    BY MessageTypes, IdType
  <2>2. Enqueue(ToAttached(id, msg))
    BY DEF EndSession
  <2> HIDE DEF msg
  <2> QED BY <2>1, <2>2, BroadcastKeepsType
<1>4. ClientType'
  <2>1. attachments' \in [Client -> SUBSET SessionId]
    BY DEF EndSession, Forget, ClientType
  <2>2. DOMAIN wanted' = Client
    BY DEF EndSession, Forget
  <2>3. ASSUME NEW c \in Client
        PROVE  /\ DOMAIN wanted'[c] \subseteq SessionId
               /\ wanted'[c] \in [DOMAIN wanted'[c] -> Geometry]
    <3>1. wanted'[c] = [i \in DOMAIN wanted[c] \ {id} |-> wanted[c][i]]
      BY DEF EndSession, Forget, Restrict
    <3> QED BY <3>1 DEF ClientType
  <2> QED BY <2>1, <2>2, <2>3 DEF ClientType
<1> QED BY <1>1, <1>2, <1>3, <1>4 DEF EndSession

-----------------------------------------------------------------------------
(* The inductive invariant *)

\* A generation a program ran under is behind the next one.
GenerationsAreUsed ==
    \A id \in SessionId : program[id] # "unused" => id.generation < nextGeneration

\* Recipes are left to respawn only at startup, and for names not yet live.
RespawningIsAtBoot ==
    \A n \in respawning : loop = "boot" /\ ~Live(n)

IInv ==
    /\ TypeOK
    /\ AttachmentsAreLive
    /\ SessionsMatchPrograms
    /\ GenerationsAreUsed
    /\ RespawningIsAtBoot

\* The server starts in the invariant.
LEMMA InitIInv == Init => IInv
<1> SUFFICES ASSUME Init PROVE IInv
  OBVIOUS
<1>1. LoopType /\ FileType
  <2>1. LoopType /\ restarts \in 0 .. MaxRestarts
    BY BoundAssumption DEF Init, LoopType
  <2>2. sessionsChanged \in BOOLEAN /\ saved \subseteq Name /\ respawning \subseteq Name
    BY DEF Init
  <2> QED BY <2>1, <2>2 DEF FileType
<1>2. ClientType /\ QueueType
  BY BoundAssumption DEF Init, ClientType, QueueType
<1>3. ManagerType
  BY BoundAssumption, GeometryAssumption DEF Init, ManagerType
<1>4. ThreadType
  BY DEF Init, ThreadType, Unseen, Grid
<1>5. AttachmentsAreLive
  BY DEF Init, AttachmentsAreLive
<1>6. SessionsMatchPrograms /\ GenerationsAreUsed
  <2>1. ASSUME NEW id \in SessionId
        PROVE  program[id] = "unused" /\ ~ IsCurrent(id)
    <3>1. sessions[id.name] = 0 /\ id.generation # 0
      BY IdType, BoundAssumption DEF Init
    <3> QED BY <3>1 DEF Init, IsCurrent
  <2> QED BY <2>1 DEF SessionsMatchPrograms, GenerationsAreUsed
<1>7. RespawningIsAtBoot
  BY DEF Init, RespawningIsAtBoot
<1> QED BY <1>1, <1>2, <1>3, <1>4, <1>5, <1>6, <1>7 DEF IInv, TypeOK

-----------------------------------------------------------------------------
(* Type correctness, action by action *)

\* What taking a frame leaves to each request to settle.
LEMMA FrameKeepsTypes ==
    ASSUME TypeOK, NEW c \in Client, HandleFrame(c), arbitrating' \subseteq SessionId,
           sessionsChanged' \in BOOLEAN
    PROVE  LoopType' /\ ThreadType' /\ FileType'
<1>1. LoopType'
  BY DEF TypeOK, LoopType, HandleFrame, Handle, loopVars
<1>2. ThreadType'
  BY DEF TypeOK, ThreadType, HandleFrame, threadVars
<1>3. FileType'
  BY DEF TypeOK, FileType, HandleFrame, fileVars
<1> QED BY <1>1, <1>2, <1>3

\* Requests that only answer.
LEMMA AnsweringKeepsType ==
    ASSUME TypeOK, NEW c \in Client,
           BadRequest(c) \/ ListSessions(c) \/ \E supported \in BOOLEAN : Greet(c, supported)
    PROVE  TypeOK'
<1> USE DEF TypeOK
<1>1. <<Answer>> \in Seq(ServerMessage)
  BY MessageTypes
<1>2. HandleFrame(c) /\ UNCHANGED <<arbitrating, clientVars, sessionsChanged, managerVars>>
  BY DEF BadRequest, ListSessions, Greet
<1>3. LoopType' /\ ThreadType' /\ FileType'
  BY <1>2, FrameKeepsTypes DEF LoopType, FileType
<1>4. ClientType' /\ ManagerType'
  BY <1>2 DEF clientVars, managerVars, ClientType, ManagerType
<1>5. clients' = clients
  BY <1>2 DEF clientVars
<1>6. QueueType'
  <2>1. CASE BadRequest(c)
    BY <1>5, <2>1, ReplyErrorKeepsType DEF BadRequest
  <2>2. CASE ListSessions(c)
    BY <1>1, <1>5, <2>2, RepliesKeepType DEF ListSessions, Reply
  <2>3. CASE \E supported \in BOOLEAN : Greet(c, supported)
    <3> DEFINE msgs == ToClient(c, <<Answer>>)
    <3>1. msgs \in [Client -> Seq(ServerMessage)] /\ \A d \in Client \ clients : msgs[d] = <<>>
      BY <1>1, RecipientTypes
    <3>2. /\ outbox' = Queued(msgs)
          /\ doomed' \subseteq doomed \cup Refusing(msgs) \cup clients
      BY <2>3 DEF Greet
    <3> HIDE DEF msgs
    <3> QED BY <1>5, <3>1, <3>2, QueueingKeepsType DEF QueueType
  <2> QED BY <2>1, <2>2, <2>3
<1> QED BY <1>3, <1>4, <1>6

\* Attaching a client to a session keeps its record's type.
LEMMA AttachClientKeepsType ==
    ASSUME ClientType, NEW c \in Client, NEW id \in SessionId, AttachClient(c, id)
    PROVE  attachments' \in [Client -> SUBSET SessionId]
BY DEF AttachClient, ClientType

LEMMA WantKeepsType ==
    ASSUME ClientType, NEW c \in Client, NEW id \in SessionId, NEW g \in Geometry, Want(c, id, g)
    PROVE  /\ DOMAIN wanted' = Client
           /\ \A d \in Client :
                /\ DOMAIN wanted'[d] \subseteq SessionId
                /\ wanted'[d] \in [DOMAIN wanted'[d] -> Geometry]
<1>1. DOMAIN wanted' = Client
  BY DEF Want, ClientType
<1>2. ASSUME NEW d \in Client
      PROVE  /\ DOMAIN wanted'[d] \subseteq SessionId
             /\ wanted'[d] \in [DOMAIN wanted'[d] -> Geometry]
  <2>1. CASE d = c
    <3>1. wanted'[d] = [i \in DOMAIN wanted[c] \cup {id} |-> IF i = id THEN g ELSE wanted[c][i]]
      BY <2>1 DEF Want, ClientType
    <3> QED BY <3>1 DEF ClientType
  <2>2. CASE d # c
    BY <2>2 DEF Want, ClientType
  <2> QED BY <2>1, <2>2
<1> QED BY <1>1, <1>2

LEMMA AttachKeepsType ==
    ASSUME TypeOK, NEW c \in Client, NEW n \in Name, NEW replay \in BOOLEAN,
           Attach(c, n, replay)
    PROVE  TypeOK'
<1> USE DEF TypeOK
<1>1. HandleFrame(c) /\ UNCHANGED <<arbitrating, clients, wanted>>
  BY DEF Attach
<1>2. CASE /\ Live(n)
           /\ AttachClient(c, Current(n))
           /\ Enqueue(ToClient(c, AttachReplies(n, geometry[n], history[n], replay)))
           /\ UNCHANGED <<managerVars, sessionsChanged>>
  <2>1. Current(n) \in SessionId
    BY <1>2, IdType DEF Current, Live, ManagerType
  <2>2. AttachReplies(n, geometry[n], history[n], replay) \in Seq(ServerMessage)
    BY AttachRepliesType DEF ManagerType
  <2>3. QueueType'
    BY <1>1, <1>2, <2>2, RepliesKeepType
  <2>4. ClientType'
    BY <1>1, <1>2, <2>1, AttachClientKeepsType DEF ClientType
  <2>5. ManagerType'
    BY <1>2 DEF managerVars, ManagerType
  <2>6. LoopType' /\ ThreadType' /\ FileType'
    BY <1>1, <1>2, FrameKeepsTypes DEF LoopType, FileType
  <2> QED BY <2>3, <2>4, <2>5, <2>6
<1>3. CASE /\ ~Live(n)
           /\ CreateWith(n, DefaultGeometry)
           /\ sessionsChanged' = TRUE
           /\ AttachClient(c, IdOf(n, nextGeneration))
           /\ Enqueue(ToClient(c, AttachReplies(n, DefaultGeometry, <<>>, replay)))
  <2>1. ManagerType' /\ nextGeneration \in 1 .. MaxGeneration
    BY <1>3, CreateKeepsType, GeometryAssumption
  <2>2. AttachReplies(n, DefaultGeometry, <<>>, replay) \in Seq(ServerMessage)
    <3>1. <<>> \in Seq(Chunk)
      OBVIOUS
    <3> QED BY <3>1, AttachRepliesType, GeometryAssumption
  <2>3. QueueType'
    BY <1>1, <1>3, <2>2, RepliesKeepType
  <2>4. ClientType'
    BY <1>1, <1>3, <2>1, IdType, AttachClientKeepsType DEF ClientType
  <2>5. LoopType' /\ ThreadType' /\ FileType'
    BY <1>1, <1>3, FrameKeepsTypes DEF LoopType
  <2> QED BY <2>1, <2>3, <2>4, <2>5
<1>4. CASE ReplyError(c) /\ UNCHANGED <<attachments, managerVars, sessionsChanged>>
  <2>1. QueueType'
    BY <1>1, <1>4, ReplyErrorKeepsType
  <2>2. ClientType' /\ ManagerType'
    BY <1>1, <1>4 DEF ClientType, managerVars, ManagerType
  <2>3. LoopType' /\ ThreadType' /\ FileType'
    BY <1>1, <1>4, FrameKeepsTypes DEF LoopType, FileType
  <2> QED BY <2>1, <2>2, <2>3
<1> QED BY <1>2, <1>3, <1>4 DEF Attach

LEMMA UnconstrainKeepsType ==
    ASSUME TypeOK, NEW c \in Client, Unconstrain(c), clients' \subseteq clients
    PROVE  ClientType' /\ arbitrating' \subseteq SessionId
<1>1. attachments' \in [Client -> SUBSET SessionId]
  BY DEF TypeOK, ClientType, Unconstrain
<1>2. DOMAIN wanted' = Client /\ clients' \subseteq Client
  BY DEF TypeOK, ClientType, Unconstrain
<1>3. ASSUME NEW d \in Client
      PROVE  /\ DOMAIN wanted'[d] \subseteq SessionId
             /\ wanted'[d] \in [DOMAIN wanted'[d] -> Geometry]
  <2>1. CASE d = c
    <3>1. wanted'[d] = <<>>
      BY <2>1 DEF Unconstrain, TypeOK, ClientType
    <3> QED BY <3>1
  <2>2. CASE d # c
    <3>1. wanted'[d] = wanted[d]
      BY <2>2 DEF Unconstrain, TypeOK, ClientType
    <3> QED BY <3>1 DEF TypeOK, ClientType
  <2> QED BY <2>1, <2>2
<1>4. arbitrating' \subseteq SessionId
  BY DEF TypeOK, ClientType, Unconstrain
<1> QED BY <1>1, <1>2, <1>3, <1>4 DEF ClientType

LEMMA RemoveClientKeepsType ==
    ASSUME TypeOK, NEW c \in Client, RemoveClient(c)
    PROVE  ClientType' /\ QueueType' /\ arbitrating' \subseteq SessionId
<1>1. ClientType' /\ arbitrating' \subseteq SessionId
  BY UnconstrainKeepsType DEF RemoveClient
<1>2. QueueType'
  BY DEF RemoveClient, TypeOK, QueueType
<1> QED BY <1>1, <1>2

LEMMA DetachKeepsType ==
    ASSUME TypeOK, NEW c \in Client, Detach(c)
    PROVE  TypeOK'
<1>1. HandleFrame(c) /\ UNCHANGED <<clients, queueVars, sessionsChanged, managerVars>>
  BY DEF Detach
<1>2. ClientType' /\ arbitrating' \subseteq SessionId
  BY <1>1, UnconstrainKeepsType DEF Detach
<1>3. LoopType' /\ ThreadType' /\ FileType'
  BY <1>1, <1>2, FrameKeepsTypes DEF TypeOK, FileType
<1>4. QueueType' /\ ManagerType'
  BY <1>1 DEF TypeOK, queueVars, QueueType, managerVars, ManagerType
<1> QED BY <1>2, <1>3, <1>4 DEF TypeOK

LEMMA InputKeepsType ==
    ASSUME TypeOK, NEW c \in Client, NEW n \in Name, Input(c, n)
    PROVE  TypeOK'
<1>1. HandleFrame(c) /\ UNCHANGED <<arbitrating, clientVars, sessionsChanged, managerVars>>
  BY DEF Input
<1>2. LoopType' /\ ThreadType' /\ FileType'
  BY <1>1, FrameKeepsTypes DEF TypeOK, LoopType, FileType
<1>3. ClientType' /\ ManagerType' /\ clients' = clients
  BY <1>1 DEF TypeOK, clientVars, ClientType, managerVars, ManagerType
<1>4. QueueType'
  <2>1. CASE UNCHANGED queueVars
    BY <1>3, <2>1 DEF TypeOK, queueVars, QueueType
  <2>2. CASE ReplyError(c)
    BY <1>3, <2>2, ReplyErrorKeepsType DEF TypeOK
  <2> QED BY <2>1, <2>2 DEF Input
<1> QED BY <1>2, <1>3, <1>4 DEF TypeOK

LEMMA ResizeKeepsType ==
    ASSUME TypeOK, NEW c \in Client, NEW n \in Name, NEW g \in Geometries, Resize(c, n, g)
    PROVE  TypeOK'
<1>1. HandleFrame(c) /\ UNCHANGED <<clients, attachments, sessionsChanged, managerVars>>
  BY DEF Resize
<1>2. ManagerType'
  BY <1>1 DEF TypeOK, managerVars, ManagerType
<1>3. CASE /\ Live(n) /\ Want(c, Current(n), g)
           /\ arbitrating' = {Current(n)} /\ UNCHANGED queueVars
  <2>1. Current(n) \in SessionId /\ g \in Geometry
    BY <1>3, IdType, GeometryAssumption DEF Current, Live, TypeOK, ManagerType
  <2>2. ClientType'
    BY <1>1, <1>3, <2>1, WantKeepsType DEF TypeOK, ClientType
  <2>3. QueueType'
    BY <1>1, <1>3 DEF TypeOK, queueVars, QueueType
  <2>4. LoopType' /\ ThreadType' /\ FileType'
    BY <1>1, <1>3, <2>1, FrameKeepsTypes DEF TypeOK, FileType
  <2> QED BY <1>2, <2>2, <2>3, <2>4 DEF TypeOK
<1>4. CASE ReplyError(c) /\ UNCHANGED <<wanted, arbitrating>>
  <2>1. QueueType' /\ ClientType'
    BY <1>1, <1>4, ReplyErrorKeepsType DEF TypeOK, ClientType
  <2>2. LoopType' /\ ThreadType' /\ FileType'
    BY <1>1, <1>4, FrameKeepsTypes DEF TypeOK, LoopType, FileType
  <2> QED BY <1>2, <2>1, <2>2 DEF TypeOK
<1> QED BY <1>3, <1>4 DEF Resize

LEMMA SpawnKeepsType ==
    ASSUME TypeOK, NEW c \in Client, NEW n \in Name, NEW g \in Geometries, Spawn(c, n, g)
    PROVE  TypeOK'
<1> DEFINE id == IdOf(n, nextGeneration)
           asked == [g EXCEPT !.cell = 0]
<1>1. HandleFrame(c) /\ clients' = clients
  BY DEF Spawn
<1>2. asked \in Geometry
  BY GeometryAssumption DEF Geometry
<1>3. CASE /\ CreateWith(n, asked)
           /\ sessionsChanged' = TRUE
           /\ AttachClient(c, id)
           /\ IF c \in clients THEN Want(c, id, asked) ELSE UNCHANGED wanted
           /\ Enqueue(ToClient(c, AttachReplies(n, asked, <<>>, TRUE)))
           /\ arbitrating' = {id}
  <2> HIDE DEF asked
  <2>1. ManagerType' /\ nextGeneration \in 1 .. MaxGeneration
    BY <1>2, <1>3, CreateKeepsType DEF TypeOK
  <2>2. id \in SessionId
    BY <2>1, IdType
  <2> HIDE DEF id
  <2>3. ClientType'
    <3>1. attachments' \in [Client -> SUBSET SessionId]
      BY <1>3, <2>2, AttachClientKeepsType DEF TypeOK
    <3>2. CASE Want(c, id, asked)
      BY <1>1, <1>2, <2>2, <3>1, <3>2, WantKeepsType DEF TypeOK, ClientType
    <3>3. CASE UNCHANGED wanted
      BY <1>1, <3>1, <3>3 DEF TypeOK, ClientType
    <3> QED BY <1>3, <3>2, <3>3
  <2>4. QueueType'
    <3>1. <<>> \in Seq(Chunk)
      OBVIOUS
    <3>2. AttachReplies(n, asked, <<>>, TRUE) \in Seq(ServerMessage)
      BY <1>2, <3>1, AttachRepliesType
    <3> QED BY <1>1, <1>3, <3>2, RepliesKeepType DEF TypeOK
  <2>5. LoopType' /\ ThreadType' /\ FileType'
    BY <1>1, <1>3, <2>2, FrameKeepsTypes
  <2> QED BY <2>1, <2>3, <2>4, <2>5 DEF TypeOK
<1>4. CASE /\ ReplyError(c)
           /\ UNCHANGED <<arbitrating, attachments, wanted, managerVars, sessionsChanged>>
  <2>1. QueueType' /\ ClientType' /\ ManagerType'
    BY <1>1, <1>4, ReplyErrorKeepsType DEF TypeOK, ClientType, managerVars, ManagerType
  <2>2. LoopType' /\ ThreadType' /\ FileType'
    BY <1>1, <1>4, FrameKeepsTypes DEF TypeOK, LoopType, FileType
  <2> QED BY <2>1, <2>2 DEF TypeOK
<1> QED BY <1>3, <1>4 DEF Spawn

LEMMA KillKeepsType ==
    ASSUME TypeOK, NEW c \in Client, NEW n \in Name, Kill(c, n)
    PROVE  TypeOK'
<1>1. /\ HandleFrame(c)
      /\ UNCHANGED <<arbitrating, clients, nextGeneration, produced>>
  BY DEF Kill
<1>2. CASE /\ Live(n)
           /\ EndSession(Current(n))
           /\ program' = [program EXCEPT ![Current(n)] = "signalled"]
  <2>1. Current(n) \in SessionId
    BY <1>2, IdType DEF Current, Live, TypeOK, ManagerType
  <2>2. /\ sessions' \in [Name -> 0 .. MaxGeneration]
        /\ geometry' \in [Name -> Geometry]
        /\ history' \in [Name -> Seq(Chunk)]
        /\ ClientType' /\ QueueType' /\ sessionsChanged' \in BOOLEAN
    BY <1>1, <1>2, <2>1, EndKeepsTypes DEF TypeOK
  <2>3. ManagerType'
    BY <1>1, <1>2, <2>1, <2>2 DEF TypeOK, ManagerType
  <2>4. LoopType' /\ ThreadType' /\ FileType'
    BY <1>1, <2>2, FrameKeepsTypes DEF TypeOK, LoopType
  <2> QED BY <2>2, <2>3, <2>4 DEF TypeOK
<1>3. CASE /\ ReplyError(c)
           /\ UNCHANGED <<attachments, wanted, sessionsChanged, sessions, geometry, history,
                          program>>
  <2>1. QueueType' /\ ClientType' /\ ManagerType'
    BY <1>1, <1>3, ReplyErrorKeepsType DEF TypeOK, ClientType, ManagerType
  <2>2. LoopType' /\ ThreadType' /\ FileType'
    BY <1>1, <1>3, FrameKeepsTypes DEF TypeOK, LoopType, FileType
  <2> QED BY <2>1, <2>2 DEF TypeOK
<1> QED BY <1>2, <1>3 DEF Kill

\* Arbitrating one session's size.
LEMMA SyncSizeKeepsType ==
    ASSUME TypeOK, NEW id \in SessionId, SyncSize(id)
    PROVE  TypeOK'
<1> DEFINE n == id.name
           g == EffectiveSize(Wants(id))
           msg == [type |-> "Resized", session |-> n, grid |-> GridOf(g)]
<1>1. /\ UNCHANGED <<loop, loopVars, clientVars, sessionsChanged, sessions,
                      nextGeneration, history, program, produced, threadVars, fileVars>>
      /\ arbitrating' = arbitrating \ {id}
  BY DEF SyncSize
<1>2. LoopType' /\ ThreadType' /\ FileType' /\ ClientType'
  BY <1>1 DEF TypeOK, loopVars, LoopType, threadVars, ThreadType, fileVars, FileType,
              clientVars, ClientType
<1>3. clients' = clients
  BY <1>1 DEF clientVars
<1>4. CASE UNCHANGED <<geometry, queueVars>>
  BY <1>1, <1>2, <1>3, <1>4 DEF TypeOK, ManagerType, queueVars, QueueType
<1>5. CASE /\ Wants(id) # {}
           /\ geometry' = [geometry EXCEPT ![n] = g]
           /\ Enqueue(ToAttached(id, msg)) \/ UNCHANGED queueVars
  <2>1. n \in Name
    BY IdType
  <2>2. g \in Geometry
    <3>1. Wants(id) \subseteq Geometry
      BY DEF Wants, TypeOK, ClientType
    <3> QED BY <1>5, <3>1, EffectiveSizeType
  <2>3. msg \in ServerMessage
    BY <2>1, <2>2, MessageTypes
  <2> HIDE DEF n, g, msg
  <2>4. ManagerType'
    BY <1>1, <1>5, <2>1, <2>2 DEF TypeOK, ManagerType
  <2>5. QueueType'
    <3>1. CASE Enqueue(ToAttached(id, msg))
      BY <1>3, <2>3, <3>1, BroadcastKeepsType DEF TypeOK
    <3>2. CASE UNCHANGED queueVars
      BY <1>3, <3>2 DEF TypeOK, queueVars, QueueType
    <3> QED BY <1>5, <3>1, <3>2
  <2> QED BY <1>2, <2>4, <2>5 DEF TypeOK
<1> QED BY <1>4, <1>5 DEF SyncSize

\* Connections coming and going.
LEMMA ConnectKeepsType ==
    ASSUME TypeOK, NEW opened \in BOOLEAN, Connect(opened)
    PROVE  TypeOK'
<1>1. /\ Handle
      /\ nextClientId \in Client
      /\ nextClientId' = nextClientId + 1
      /\ UNCHANGED <<reaping, arbitrating, attachments, wanted, queueVars, sessionsChanged,
                      managerVars, view, fileVars>>
  BY BoundAssumption DEF Connect, Client, TypeOK, LoopType
<1>2. LoopType'
  BY <1>1, BoundAssumption DEF Handle, TypeOK, LoopType, Client
<1>3. clients' \subseteq Client /\ clients \subseteq clients'
  BY <1>1 DEF Connect, TypeOK, ClientType
<1>4. ClientType' /\ QueueType'
  BY <1>1, <1>3 DEF TypeOK, ClientType, queueVars, QueueType
<1>5. ManagerType' /\ FileType'
  BY <1>1 DEF TypeOK, managerVars, ManagerType, fileVars, FileType
<1>6. ThreadType'
  BY <1>1 DEF Connect, TypeOK, ThreadType
<1> QED BY <1>2, <1>4, <1>5, <1>6 DEF TypeOK

LEMMA ClosedKeepsType ==
    ASSUME TypeOK, NEW c \in Client, Closed(c)
    PROVE  TypeOK'
<1>1. /\ Handle /\ RemoveClient(c)
      /\ reader' = [reader EXCEPT ![c] = "done"]
      /\ UNCHANGED <<loopVars, sessionsChanged, managerVars, writer, view, fileVars>>
  BY DEF Closed
<1>2. ClientType' /\ QueueType' /\ arbitrating' \subseteq SessionId
  BY <1>1, RemoveClientKeepsType
<1>3. LoopType' /\ ManagerType' /\ FileType' /\ ThreadType'
  BY <1>1, <1>2 DEF TypeOK, Handle, loopVars, LoopType, managerVars, ManagerType, fileVars,
                    FileType, ThreadType
<1> QED BY <1>2, <1>3 DEF TypeOK

LEMMA ReapingKeepsType ==
    ASSUME TypeOK, CollectDoomed \/ \E c \in Client : Reap(c)
    PROVE  TypeOK'
<1>1. CASE CollectDoomed
  BY <1>1 DEF CollectDoomed, TypeOK, LoopType, clientVars, ClientType, queueVars, QueueType,
              managerVars, ManagerType, threadVars, ThreadType, fileVars, FileType
<1>2. CASE \E c \in Client : Reap(c)
  <2>1. PICK c \in Client : Reap(c)
    BY <1>2
  <2>2. ClientType' /\ QueueType' /\ arbitrating' \subseteq SessionId
    BY <2>1, RemoveClientKeepsType DEF Reap
  <2>3. LoopType' /\ ManagerType' /\ ThreadType' /\ FileType'
    BY <2>1, <2>2 DEF Reap, TypeOK, LoopType, managerVars, ManagerType, threadVars, ThreadType,
                      fileVars, FileType
  <2> QED BY <2>2, <2>3 DEF TypeOK
<1> QED BY <1>1, <1>2

\* The save and startup.
LEMMA PersistKeepsType ==
    ASSUME TypeOK, NEW written \in BOOLEAN, Persist(written)
    PROVE  TypeOK'
<1>1. LoopType' /\ ClientType' /\ QueueType' /\ ManagerType' /\ ThreadType'
  BY DEF Persist, TypeOK, loopVars, LoopType, clientVars, ClientType, queueVars, QueueType,
         managerVars, ManagerType, threadVars, ThreadType
<1>2. saved' \subseteq Name
  BY DEF Persist, TypeOK, FileType, LiveNames
<1>3. FileType'
  BY <1>2 DEF Persist, TypeOK, FileType
<1> QED BY <1>1, <1>3 DEF TypeOK

LEMMA RespawnKeepsType ==
    ASSUME TypeOK, NEW n \in Name, NEW started \in BOOLEAN, Respawn(n, started)
    PROVE  TypeOK'
<1>1. LoopType' /\ ClientType' /\ QueueType' /\ ThreadType'
  BY DEF Respawn, TypeOK, loopVars, LoopType, clientVars, ClientType, queueVars, QueueType,
         threadVars, ThreadType
<1>2. ManagerType'
  <2>1. CASE CreateWith(n, DefaultGeometry)
    BY <2>1, CreateKeepsType, GeometryAssumption DEF TypeOK
  <2>2. CASE UNCHANGED managerVars
    BY <2>2 DEF TypeOK, managerVars, ManagerType
  <2> QED BY <2>1, <2>2 DEF Respawn
<1>3. sessionsChanged' \in BOOLEAN
  BY DEF Respawn, TypeOK, FileType
<1>4. FileType'
  BY <1>3 DEF Respawn, TypeOK, FileType
<1> QED BY <1>1, <1>2, <1>4 DEF TypeOK

\* What the sessions' programs do.
LEMMA SessionOutputKeepsType ==
    ASSUME TypeOK, NEW id \in SessionId, SessionOutput(id)
    PROVE  TypeOK'
<1> DEFINE n == id.name
           bytes == [generation |-> id.generation, index |-> produced[id] + 1]
           msg == [type |-> "Output", session |-> n, bytes |-> bytes]
<1>1. /\ Handle /\ produced[id] < MaxOutput
      /\ produced' = [produced EXCEPT ![id] = @ + 1]
      /\ UNCHANGED <<loopVars, arbitrating, clientVars, sessionsChanged, sessions,
                      nextGeneration, geometry, program, threadVars, fileVars>>
  BY DEF SessionOutput
<1>2. n \in Name /\ bytes \in Chunk /\ produced' \in [SessionId -> 0 .. MaxOutput]
  BY <1>1, IdType, BoundAssumption DEF Chunk, TypeOK, ManagerType
<1>3. msg \in ServerMessage
  BY <1>2, MessageTypes
<1>4. LoopType' /\ ThreadType' /\ FileType' /\ ClientType' /\ clients' = clients
  BY <1>1 DEF TypeOK, Handle, loopVars, LoopType, threadVars, ThreadType, fileVars, FileType,
              clientVars, ClientType
<1>5. CASE /\ history' = [history EXCEPT ![n] = Retained(Append(@, bytes))]
           /\ Enqueue(ToAttached(id, msg))
  <2> HIDE DEF msg, bytes, n
  <2>1. QueueType'
    BY <1>3, <1>4, <1>5, BroadcastKeepsType DEF TypeOK
  <2>2. Retained(Append(history[n], bytes)) \in Seq(Chunk)
    <3>1. Append(history[n], bytes) \in Seq(Chunk)
      BY <1>2 DEF TypeOK, ManagerType
    <3> QED BY <3>1, RetainedType
  <2>3. history' \in [Name -> Seq(Chunk)]
    BY <1>2, <1>5, <2>2 DEF TypeOK, ManagerType
  <2>4. ManagerType'
    BY <1>1, <1>2, <2>3 DEF TypeOK, ManagerType
  <2> QED BY <1>4, <2>1, <2>4 DEF TypeOK
<1>6. CASE UNCHANGED <<history, queueVars>>
  BY <1>1, <1>2, <1>4, <1>6 DEF TypeOK, ManagerType, queueVars, QueueType
<1> QED BY <1>5, <1>6 DEF SessionOutput

LEMMA SessionExitKeepsType ==
    ASSUME TypeOK, NEW id \in SessionId, SessionExit(id)
    PROVE  TypeOK'
<1>1. /\ Handle /\ program' = [program EXCEPT ![id] = "ended"]
      /\ UNCHANGED <<loopVars, arbitrating, clients, nextGeneration, produced, threadVars,
                      fileVars>>
  BY DEF SessionExit
<1>2. LoopType' /\ ThreadType'
  BY <1>1 DEF TypeOK, Handle, loopVars, LoopType, threadVars, ThreadType
<1>3. CASE EndSession(id)
  <2>1. /\ sessions' \in [Name -> 0 .. MaxGeneration]
        /\ geometry' \in [Name -> Geometry]
        /\ history' \in [Name -> Seq(Chunk)]
        /\ ClientType' /\ QueueType' /\ sessionsChanged' \in BOOLEAN
    BY <1>1, <1>3, EndKeepsTypes DEF TypeOK
  <2>2. ManagerType' /\ FileType'
    BY <1>1, <2>1 DEF TypeOK, ManagerType, fileVars, FileType
  <2> QED BY <1>2, <2>1, <2>2 DEF TypeOK
<1>4. CASE UNCHANGED <<sessionsChanged, sessions, geometry, history, queueVars, attachments,
                       wanted>>
  BY <1>1, <1>2, <1>4 DEF TypeOK, ManagerType, fileVars, FileType, queueVars, QueueType,
                          ClientType
<1> QED BY <1>3, <1>4 DEF SessionExit

\* Every message but an answer is about a session.
LEMMA SessionOfType ==
    ASSUME NEW msg \in ServerMessage, msg # Answer
    PROVE  msg.session \in Name
<1>1. CASE msg \in [type : {"Answer"}]
  BY <1>1 DEF Answer
<1>2. CASE msg \notin [type : {"Answer"}]
  BY <1>2 DEF ServerMessage
<1> QED BY <1>1, <1>2

\* What a client knows of a session keeps its type with every message.
LEMMA SeenType ==
    ASSUME NEW seen \in [shown : BOOLEAN, grid : Grid, text : Seq(Chunk)],
           NEW msg \in ServerMessage, msg # Answer
    PROVE  Seen(seen, msg) \in [shown : BOOLEAN, grid : Grid, text : Seq(Chunk)]
<1>1. CASE msg \in [type : {"Attached", "Resized"}, session : Name, grid : Grid]
  <2>1. msg.type = "Attached" \/ msg.type = "Resized"
    BY <1>1
  <2>2. CASE msg.type = "Attached"
    <3>1. Seen(seen, msg) = [shown |-> TRUE, grid |-> msg.grid, text |-> <<>>]
      BY <2>2 DEF Seen
    <3> QED BY <1>1, <3>1
  <2>3. CASE msg.type = "Resized"
    <3>1. Seen(seen, msg) = [seen EXCEPT !.grid = msg.grid]
      BY <2>3 DEF Seen
    <3> QED BY <1>1, <3>1
  <2> QED BY <2>1, <2>2, <2>3
<1>2. CASE msg \in [type : {"Scrollback"}, session : Name, bytes : Seq(Chunk)]
  <2>1. Seen(seen, msg) = [seen EXCEPT !.text = @ \o msg.bytes]
    BY <1>2 DEF Seen
  <2>2. seen.text \o msg.bytes \in Seq(Chunk)
    BY <1>2
  <2> QED BY <2>1, <2>2
<1>3. CASE msg \in [type : {"Output"}, session : Name, bytes : Chunk]
  <2>1. Seen(seen, msg) = [seen EXCEPT !.text = Append(@, msg.bytes)]
    BY <1>3 DEF Seen
  <2>2. Append(seen.text, msg.bytes) \in Seq(Chunk)
    BY <1>3
  <2> QED BY <2>1, <2>2
<1>4. CASE msg \in [type : {"Exit"}, session : Name]
  <2>1. Seen(seen, msg) = [seen EXCEPT !.shown = FALSE]
    BY <1>4 DEF Seen
  <2> QED BY <1>4, <2>1
<1>5. CASE msg \in [type : {"Answer"}]
  BY <1>5 DEF Answer
<1> QED BY <1>1, <1>2, <1>3, <1>4, <1>5 DEF ServerMessage

\* The writer threads.
LEMMA WriterKeepsType ==
    ASSUME TypeOK, NEW c \in Client, WriterStep(c)
    PROVE  TypeOK'
<1>1. /\ UNCHANGED <<loop, loopVars, arbitrating, clientVars, sessionsChanged, managerVars,
                      reader, fileVars>>
      /\ doomed' = doomed
  BY DEF WriterStep, WriteFrame, WriteFails, WriterDone, queueVars
<1>2. LoopType' /\ ClientType' /\ ManagerType' /\ FileType' /\ clients' = clients
  BY <1>1 DEF TypeOK, loopVars, LoopType, clientVars, ClientType, managerVars, ManagerType,
              fileVars, FileType
<1>3. CASE WriteFrame(c)
  <2> DEFINE msg == Head(outbox[c])
  <2>1. outbox[c] \in Seq(ServerMessage) /\ outbox[c] # <<>>
    BY <1>3 DEF WriteFrame, TypeOK, QueueType
  <2>2. /\ msg \in ServerMessage /\ Tail(outbox[c]) \in Seq(ServerMessage)
        /\ Len(Tail(outbox[c])) <= Len(outbox[c])
    BY <2>1, HeadTailProperties, LenProperties
  <2>3. QueueType'
    BY <1>1, <1>2, <1>3, <2>1, <2>2, BoundAssumption, LenProperties
       DEF WriteFrame, TypeOK, QueueType
  <2>4. view' \in [Client -> [Name -> [shown : BOOLEAN, grid : Grid, text : Seq(Chunk)]]]
    <3>1. CASE msg = Answer
      BY <1>3, <3>1 DEF WriteFrame, TypeOK, ThreadType
    <3>2. CASE msg # Answer
      <4> HIDE DEF msg
      <4>1. msg.session \in Name /\ view[c][msg.session]
                \in [shown : BOOLEAN, grid : Grid, text : Seq(Chunk)]
        BY <2>2, <3>2, SessionOfType DEF TypeOK, ThreadType
      <4>2. Seen(view[c][msg.session], msg)
                \in [shown : BOOLEAN, grid : Grid, text : Seq(Chunk)]
        BY <2>2, <3>2, <4>1, SeenType
      <4>3. view' = [view EXCEPT ![c][msg.session] = Seen(view[c][msg.session], msg)]
        BY <1>3, <3>2 DEF WriteFrame, msg
      <4> QED BY <4>1, <4>2, <4>3 DEF TypeOK, ThreadType
    <3> QED BY <3>1, <3>2
  <2>5. ThreadType'
    BY <1>1, <1>3, <2>4 DEF WriteFrame, TypeOK, ThreadType
  <2> QED BY <1>2, <2>3, <2>5 DEF TypeOK
<1>4. CASE WriteFails(c)
  <2>1. QueueType'
    BY <1>1, <1>2, <1>4, BoundAssumption DEF WriteFails, TypeOK, QueueType
  <2>2. ThreadType'
    BY <1>1, <1>4 DEF WriteFails, ShutDown, TypeOK, ThreadType
  <2> QED BY <1>2, <2>1, <2>2 DEF TypeOK
<1>5. CASE WriterDone(c)
  BY <1>1, <1>2, <1>5 DEF WriterDone, ShutDown, TypeOK, queueVars, QueueType, ThreadType
<1> QED BY <1>3, <1>4, <1>5 DEF WriterStep

LEMMA CrashKeepsType ==
    ASSUME TypeOK, Crash
    PROVE  TypeOK'
<1>1. LoopType'
  BY BoundAssumption DEF Crash, LoopType
<1>2. ClientType' /\ QueueType'
  BY BoundAssumption DEF Crash, ClientType, QueueType
<1>3. ManagerType'
  BY BoundAssumption, GeometryAssumption DEF Crash, ManagerType
<1>4. ThreadType'
  BY DEF Crash, ThreadType, Unseen, Grid
<1>5. FileType'
  <2>1. restarts' \in 0 .. MaxRestarts
    BY BoundAssumption DEF Crash, TypeOK, FileType
  <2>2. sessionsChanged' \in BOOLEAN /\ saved' \subseteq Name /\ respawning' \subseteq Name
    BY DEF Crash, TypeOK, FileType
  <2> QED BY <2>1, <2>2 DEF FileType
<1> QED BY <1>1, <1>2, <1>3, <1>4, <1>5 DEF TypeOK

\* No step takes a variable out of its type.
LEMMA NextKeepsType ==
    ASSUME TypeOK, [Next]_vars
    PROVE  TypeOK'
<1>1. CASE \E c \in Client : ClientRequest(c)
  <2>1. PICK c \in Client : ClientRequest(c)
    BY <1>1
  <2> QED BY <2>1, AnsweringKeepsType, AttachKeepsType, DetachKeepsType, InputKeepsType,
             KillKeepsType, ResizeKeepsType, SpawnKeepsType DEF ClientRequest
<1>2. CASE \E c \in Client : Closed(c) \/ WriterStep(c)
  BY <1>2, ClosedKeepsType, WriterKeepsType
<1>3. CASE \E opened \in BOOLEAN : Connect(opened)
  BY <1>3, ConnectKeepsType
<1>4. CASE \E id \in SessionId : SessionOutput(id) \/ SessionExit(id)
  BY <1>4, SessionOutputKeepsType, SessionExitKeepsType
<1>5. CASE Finish
  BY <1>5, SyncSizeKeepsType, ReapingKeepsType, PersistKeepsType, RespawnKeepsType DEF Finish
<1>6. CASE Crash
  BY <1>6, CrashKeepsType
<1>7. CASE UNCHANGED vars
  BY <1>7 DEF vars, TypeOK, loopVars, LoopType, clientVars, ClientType, queueVars, QueueType,
              managerVars, ManagerType, threadVars, ThreadType, fileVars, FileType
<1> QED BY <1>1, <1>2, <1>3, <1>4, <1>5, <1>6, <1>7 DEF Next

\* The type invariant holds in every reachable state: in particular no
\* client's outbox ever exceeds its limit, and none but a tracked client is
\* marked for dropping.
THEOREM TypeCorrect == Spec => []TypeOK
<1>1. Init => TypeOK
  BY InitIInv DEF IInv
<1>2. TypeOK /\ [Next]_vars => TypeOK'
  BY NextKeepsType
<1> QED BY <1>1, <1>2, PTL DEF Spec

-----------------------------------------------------------------------------
(* What the server promises about the sessions of a name: the inductive    *)
(* invariant IInv, and what follows from it.                               *)
\* What keeping the books of the sessions takes of a step, apart from who is
\* attached to what.
BooksAreKept ==
    /\ SessionsMatchPrograms' /\ GenerationsAreUsed'
    /\ \A id \in SessionId : IsCurrent(id) => IsCurrent(id)'

-----------------------------------------------------------------------------
(* Starting and ending a session *)

\* A name that is not live starts in a generation no program ran under.
LEMMA StartKeepsBooks ==
    ASSUME IInv, NEW n \in Name, ~Live(n), NEW g \in Geometry, CreateWith(n, g)
    PROVE  /\ BooksAreKept
           /\ \E id \in SessionId : id = IdOf(n, nextGeneration) /\ IsCurrent(id)'
<1> USE DEF IInv
<1>1. nextGeneration \in 1 .. MaxGeneration /\ nextGeneration' = nextGeneration + 1
  BY BoundAssumption DEF CreateWith, TypeOK, ManagerType
<1>2. PICK new \in SessionId : new = IdOf(n, nextGeneration)
  BY <1>1, IdType
<1>3. new.name = n /\ new.generation = nextGeneration
  BY <1>2 DEF IdOf
<1>4. sessions' = [sessions EXCEPT ![n] = nextGeneration] /\ sessions[n] = 0
  BY DEF CreateWith, Live
<1>5. program' = [program EXCEPT ![new] = "running"]
  BY <1>2 DEF CreateWith
<1>6. IsCurrent(new)'
  BY <1>3, <1>4 DEF IsCurrent, TypeOK, ManagerType
<1>7. ASSUME NEW id \in SessionId
      PROVE  /\ program'[id] = "running" <=> IsCurrent(id)'
             /\ program'[id] # "unused" => id.generation < nextGeneration'
             /\ IsCurrent(id) => IsCurrent(id)'
  <2>1. id.name \in Name /\ id.generation \in 1 .. MaxGeneration
    BY DEF SessionId
  <2>2. CASE id = new
    <3>1. program'[id] = "running"
      BY <1>5, <2>2 DEF TypeOK, ManagerType
    <3>2. id.generation < nextGeneration'
      BY <1>1, <1>3, <2>2
    <3> QED BY <1>6, <2>2, <3>1, <3>2
  <2>3. CASE id # new
    <3>1. program'[id] = program[id]
      BY <1>5, <2>3 DEF TypeOK, ManagerType
    <3>2. program[id] = "running" <=> IsCurrent(id)
      BY DEF SessionsMatchPrograms
    <3>3. program[id] # "unused" => id.generation < nextGeneration
      BY DEF GenerationsAreUsed
    <3>4. program'[id] # "unused" => id.generation < nextGeneration'
      BY <1>1, <2>1, <3>1, <3>3
    <3>5. CASE id.name # n
      BY <1>4, <2>1, <3>1, <3>2, <3>4, <3>5 DEF IsCurrent, TypeOK, ManagerType
    <3>6. CASE id.name = n
      <4>1. id.generation # nextGeneration
        BY <1>3, <2>3, <3>6 DEF SessionId
      <4>2. ~IsCurrent(id) /\ ~IsCurrent(id)'
        BY <1>4, <2>1, <3>6, <4>1 DEF IsCurrent, TypeOK, ManagerType
      <4> QED BY <3>1, <3>2, <3>4, <4>2
    <3> QED BY <3>5, <3>6
  <2> QED BY <2>2, <2>3
<1> QED BY <1>2, <1>6, <1>7 DEF BooksAreKept, SessionsMatchPrograms, GenerationsAreUsed

\* Ending the live session of a name, whose program has been dealt with,
\* leaves nobody attached to it.
LEMMA EndKeepsInvariants ==
    ASSUME IInv, NEW id \in SessionId, IsCurrent(id), EndSession(id),
           NEW end \in {"signalled", "ended"},
           program' = [program EXCEPT ![id] = end],
           UNCHANGED <<nextGeneration, clients>>
    PROVE  AttachmentsAreLive' /\ SessionsMatchPrograms' /\ GenerationsAreUsed'
<1> USE DEF IInv
<1>1. id.name \in Name /\ id.generation \in 1 .. MaxGeneration
  BY DEF SessionId
<1>2. /\ sessions' = [sessions EXCEPT ![id.name] = 0]
      /\ Forget(id)
  BY DEF EndSession
<1>3. ASSUME NEW i \in SessionId
      PROVE  /\ program'[i] = "running" <=> IsCurrent(i)'
             /\ program'[i] # "unused" => i.generation < nextGeneration'
             /\ i # id /\ IsCurrent(i) => IsCurrent(i)'
  <2>1. i.name \in Name /\ i.generation \in 1 .. MaxGeneration
    BY DEF SessionId
  <2>2. program[i] = "running" <=> IsCurrent(i)
    BY DEF SessionsMatchPrograms
  <2>3. program[i] # "unused" => i.generation < nextGeneration
    BY DEF GenerationsAreUsed
  <2>4. CASE i = id
    <3>1. program'[i] = end /\ program[i] = "running"
      BY <2>2, <2>4 DEF TypeOK, ManagerType
    <3>2. ~IsCurrent(i)'
      BY <1>1, <1>2, <2>4 DEF IsCurrent, TypeOK, ManagerType
    <3> QED BY <2>3, <2>4, <3>1, <3>2
  <2>5. CASE i # id
    <3>1. program'[i] = program[i]
      BY <2>5 DEF TypeOK, ManagerType
    <3>2. CASE i.name # id.name
      <4>1. IsCurrent(i)' <=> IsCurrent(i)
        BY <1>1, <1>2, <2>1, <3>2 DEF IsCurrent, TypeOK, ManagerType
      <4> QED BY <2>2, <2>3, <3>1, <4>1
    <3>3. CASE i.name = id.name
      <4>1. i.generation # id.generation
        BY <2>5, <3>3 DEF SessionId
      <4>2. ~IsCurrent(i)
        BY <3>3, <4>1 DEF IsCurrent
      <4>3. ~IsCurrent(i)'
        BY <1>1, <1>2, <2>1, <3>3 DEF IsCurrent, TypeOK, ManagerType
      <4> QED BY <2>2, <2>3, <3>1, <4>2, <4>3
    <3> QED BY <3>2, <3>3
  <2> QED BY <2>4, <2>5
<1>4. SessionsMatchPrograms' /\ GenerationsAreUsed'
  BY <1>3 DEF SessionsMatchPrograms, GenerationsAreUsed
<1>5. ASSUME NEW c \in Client
      PROVE  /\ \A i \in attachments'[c] : IsCurrent(i)'
             /\ DOMAIN wanted'[c] \subseteq attachments'[c]
             /\ c \notin clients' => attachments'[c] = {}
  <2>1. attachments'[c] = attachments[c] \ {id}
    BY <1>2 DEF Forget
  <2>2. DOMAIN wanted'[c] = DOMAIN wanted[c] \ {id}
    BY <1>2 DEF Forget, Restrict
  <2>3. /\ attachments[c] \subseteq SessionId
        /\ \A i \in attachments[c] : IsCurrent(i)
        /\ DOMAIN wanted[c] \subseteq attachments[c]
        /\ c \notin clients => attachments[c] = {}
    BY DEF AttachmentsAreLive, TypeOK, ClientType
  <2> QED BY <1>3, <2>1, <2>2, <2>3
<1>6. AttachmentsAreLive'
  BY <1>5 DEF AttachmentsAreLive
<1> QED BY <1>4, <1>6

-----------------------------------------------------------------------------
(* Who is attached to what *)

\* Attaching a client to a session that is live after the step, and with it
\* recording the size it wants, leaves everyone attached to live sessions.
LEMMA AttachingKeepsThemLive ==
    ASSUME IInv, BooksAreKept, NEW c \in Client, NEW id \in SessionId, IsCurrent(id)',
           AttachClient(c, id), clients' = clients,
           \/ wanted' = wanted
           \/ c \in clients /\ \E g \in Geometry : Want(c, id, g)
    PROVE  AttachmentsAreLive'
<1> USE DEF IInv
<1> SUFFICES ASSUME NEW d \in Client
             PROVE  /\ \A i \in attachments'[d] : IsCurrent(i)'
                    /\ DOMAIN wanted'[d] \subseteq attachments'[d]
                    /\ d \notin clients' => attachments'[d] = {}
  BY DEF AttachmentsAreLive
<1>1. /\ attachments[d] \subseteq SessionId
      /\ \A i \in attachments[d] : IsCurrent(i)
      /\ DOMAIN wanted[d] \subseteq attachments[d]
      /\ d \notin clients => attachments[d] = {}
  BY DEF AttachmentsAreLive, TypeOK, ClientType
<1>2. attachments'[d] = IF d = c /\ c \in clients THEN attachments[d] \cup {id}
                        ELSE attachments[d]
  BY DEF AttachClient, TypeOK, ClientType
<1>3. \/ DOMAIN wanted'[d] = DOMAIN wanted[d]
      \/ d = c /\ c \in clients /\ DOMAIN wanted'[d] = DOMAIN wanted[d] \cup {id}
  <2>1. CASE wanted' = wanted
    BY <2>1
  <2>2. CASE c \in clients /\ \E g \in Geometry : Want(c, id, g)
    BY <2>2 DEF Want, TypeOK, ClientType
  <2> QED BY <2>1, <2>2
<1> QED BY <1>1, <1>2, <1>3 DEF BooksAreKept

\* A client that lets go of its sessions, or is removed, holds none.
LEMMA UnconstrainKeepsThemLive ==
    ASSUME IInv, NEW c \in Client, Unconstrain(c), clients' = clients \/ clients' = clients \ {c},
           sessions' = sessions
    PROVE  AttachmentsAreLive'
<1> USE DEF IInv
<1> SUFFICES ASSUME NEW d \in Client
             PROVE  /\ \A i \in attachments'[d] : IsCurrent(i)'
                    /\ DOMAIN wanted'[d] \subseteq attachments'[d]
                    /\ d \notin clients' => attachments'[d] = {}
  BY DEF AttachmentsAreLive
<1>1. /\ \A i \in attachments[d] : IsCurrent(i) /\ IsCurrent(i)'
      /\ DOMAIN wanted[d] \subseteq attachments[d]
      /\ d \notin clients => attachments[d] = {}
  BY DEF AttachmentsAreLive, IsCurrent
<1>2. CASE d = c
  <2>1. attachments'[d] = {} /\ wanted'[d] = <<>>
    BY <1>2 DEF Unconstrain, TypeOK, ClientType
  <2> QED BY <2>1
<1>3. CASE d # c
  <2>1. attachments'[d] = attachments[d] /\ wanted'[d] = wanted[d]
    BY <1>3 DEF Unconstrain, TypeOK, ClientType
  <2> QED BY <1>1, <1>3, <2>1
<1> QED BY <1>2, <1>3

\* The books are kept by a step that starts, ends and signals nothing.
LEMMA IdleBooks ==
    ASSUME IInv, UNCHANGED <<sessions, program, nextGeneration>>
    PROVE  BooksAreKept
BY DEF IInv, BooksAreKept, SessionsMatchPrograms, GenerationsAreUsed, IsCurrent

\* A step that leaves every client as attached as it was.
LEMMA IdleAttachments ==
    ASSUME IInv, BooksAreKept, UNCHANGED <<attachments, wanted>>, clients \subseteq clients'
    PROVE  AttachmentsAreLive'
<1> SUFFICES ASSUME NEW d \in Client
             PROVE  /\ \A i \in attachments[d] : IsCurrent(i)'
                    /\ DOMAIN wanted[d] \subseteq attachments[d]
                    /\ d \notin clients' => attachments[d] = {}
  BY DEF AttachmentsAreLive
<1>1. /\ attachments[d] \subseteq SessionId
      /\ \A i \in attachments[d] : IsCurrent(i)
      /\ DOMAIN wanted[d] \subseteq attachments[d]
      /\ d \notin clients => attachments[d] = {}
  BY DEF IInv, AttachmentsAreLive, TypeOK, ClientType
<1> QED BY <1>1 DEF BooksAreKept

-----------------------------------------------------------------------------
(* Each step *)

SessionInv == AttachmentsAreLive /\ SessionsMatchPrograms /\ GenerationsAreUsed

\* Steps that neither start nor end a session, nor detach anyone.
LEMMA IdleKeepsInv ==
    ASSUME IInv, UNCHANGED <<sessions, program, nextGeneration, attachments, wanted>>,
           clients \subseteq clients'
    PROVE  SessionInv'
BY IdleBooks, IdleAttachments DEF BooksAreKept, SessionInv

\* Requests that start, end or detach from nothing.
LEMMA AnsweringKeepsInv ==
    ASSUME IInv, NEW c \in Client,
           \/ BadRequest(c)
           \/ ListSessions(c)
           \/ \E supported \in BOOLEAN : Greet(c, supported)
           \/ \E n \in Name : Input(c, n)
    PROVE  SessionInv'
<1>1. UNCHANGED <<clientVars, managerVars>>
  BY DEF BadRequest, ListSessions, Greet, Input
<1> QED BY <1>1, IdleKeepsInv DEF clientVars, managerVars

LEMMA DetachKeepsInv ==
    ASSUME IInv, NEW c \in Client, Detach(c)
    PROVE  SessionInv'
<1>1. Unconstrain(c) /\ UNCHANGED <<clients, managerVars>>
  BY DEF Detach
<1>2. BooksAreKept
  BY <1>1, IdleBooks DEF managerVars
<1> QED BY <1>1, <1>2, UnconstrainKeepsThemLive DEF managerVars, BooksAreKept, SessionInv

LEMMA AttachKeepsInv ==
    ASSUME IInv, NEW c \in Client, NEW n \in Name, NEW replay \in BOOLEAN,
           Attach(c, n, replay)
    PROVE  SessionInv'
<1>1. UNCHANGED <<clients, wanted>>
  BY DEF Attach
<1>2. CASE Live(n) /\ AttachClient(c, Current(n)) /\ UNCHANGED managerVars
  <2>1. BooksAreKept
    BY <1>2, IdleBooks DEF managerVars
  <2>2. PICK id \in SessionId : id = Current(n)
    BY <1>2, IdType DEF Live, Current, IInv, TypeOK, ManagerType
  <2>3. IsCurrent(id)
    BY <2>2 DEF IsCurrent, Current, IdOf
  <2> QED BY <1>1, <1>2, <2>1, <2>2, <2>3, AttachingKeepsThemLive DEF BooksAreKept, SessionInv
<1>3. CASE /\ ~Live(n) /\ CreateWith(n, DefaultGeometry)
           /\ AttachClient(c, IdOf(n, nextGeneration))
  <2>1. PICK id \in SessionId : id = IdOf(n, nextGeneration) /\ IsCurrent(id)'
    BY <1>3, GeometryAssumption, StartKeepsBooks
  <2>2. BooksAreKept
    BY <1>3, GeometryAssumption, StartKeepsBooks
  <2> QED BY <1>1, <1>3, <2>1, <2>2, AttachingKeepsThemLive DEF BooksAreKept, SessionInv
<1>4. CASE UNCHANGED <<attachments, managerVars>>
  BY <1>1, <1>4, IdleKeepsInv DEF managerVars
<1> QED BY <1>2, <1>3, <1>4 DEF Attach

LEMMA ResizeKeepsInv ==
    ASSUME IInv, NEW c \in Client, NEW n \in Name, NEW g \in Geometries, Resize(c, n, g)
    PROVE  SessionInv'
<1>1. UNCHANGED <<clients, attachments, managerVars>>
  BY DEF Resize
<1>2. BooksAreKept
  BY <1>1, IdleBooks DEF managerVars
<1>3. CASE Live(n) /\ IsAttached(c, Current(n)) /\ Want(c, Current(n), g)
  <2>1. PICK id \in SessionId : id = Current(n)
    BY <1>3, IdType DEF Live, Current, IInv, TypeOK, ManagerType
  <2>2. id \in attachments[c] /\ c \in clients
    BY <1>3, <2>1 DEF IsAttached, IInv, AttachmentsAreLive
  <2>3. AttachClient(c, id)
    <3>1. attachments = [attachments EXCEPT ![c] = @ \cup {id}]
      BY <2>2 DEF IInv, TypeOK, ClientType
    <3> QED BY <1>1, <2>2, <3>1 DEF AttachClient
  <2>4. IsCurrent(id)'
    BY <1>2, <2>2 DEF IInv, AttachmentsAreLive, BooksAreKept
  <2>5. g \in Geometry
    BY GeometryAssumption
  <2> QED BY <1>1, <1>2, <1>3, <2>1, <2>2, <2>3, <2>4, <2>5, AttachingKeepsThemLive
           DEF BooksAreKept, SessionInv
<1>4. CASE UNCHANGED wanted
  BY <1>1, <1>4, IdleKeepsInv DEF managerVars
<1> QED BY <1>3, <1>4 DEF Resize

LEMMA SpawnKeepsInv ==
    ASSUME IInv, NEW c \in Client, NEW n \in Name, NEW g \in Geometries, Spawn(c, n, g)
    PROVE  SessionInv'
<1> DEFINE asked == [g EXCEPT !.cell = 0]
<1>1. asked \in Geometry
  BY GeometryAssumption DEF Geometry
<1> HIDE DEF asked
<1>2. UNCHANGED clients
  BY DEF Spawn
<1>3. CASE /\ ~Live(n) /\ CreateWith(n, asked)
           /\ AttachClient(c, IdOf(n, nextGeneration))
           /\ IF c \in clients THEN Want(c, IdOf(n, nextGeneration), asked) ELSE UNCHANGED wanted
  <2>1. PICK id \in SessionId : id = IdOf(n, nextGeneration) /\ IsCurrent(id)'
    BY <1>1, <1>3, StartKeepsBooks
  <2>2. BooksAreKept
    BY <1>1, <1>3, StartKeepsBooks
  <2> QED BY <1>1, <1>2, <1>3, <2>1, <2>2, AttachingKeepsThemLive DEF BooksAreKept, SessionInv
<1>4. CASE UNCHANGED <<attachments, wanted, managerVars>>
  BY <1>2, <1>4, IdleKeepsInv DEF managerVars
<1> QED BY <1>3, <1>4 DEF Spawn, asked

LEMMA KillKeepsInv ==
    ASSUME IInv, NEW c \in Client, NEW n \in Name, Kill(c, n)
    PROVE  SessionInv'
<1>1. UNCHANGED <<clients, nextGeneration>>
  BY DEF Kill
<1>2. CASE Live(n)
  <2>1. PICK id \in SessionId : id = Current(n)
    BY <1>2, IdType DEF Live, Current, IInv, TypeOK, ManagerType
  <2>2. IsCurrent(id)
    BY <2>1 DEF IsCurrent, Current, IdOf
  <2>3. EndSession(id) /\ program' = [program EXCEPT ![id] = "signalled"]
    BY <1>2, <2>1 DEF Kill
  <2> QED BY <1>1, <2>2, <2>3, EndKeepsInvariants DEF SessionInv
<1>3. CASE ~Live(n)
  BY <1>1, <1>3, IdleKeepsInv DEF Kill
<1> QED BY <1>2, <1>3

LEMMA SessionExitKeepsInv ==
    ASSUME IInv, NEW id \in SessionId, SessionExit(id)
    PROVE  SessionInv'
<1>1. /\ UNCHANGED <<clients, nextGeneration>>
      /\ Runs(id) /\ program' = [program EXCEPT ![id] = "ended"]
  BY DEF SessionExit
<1>2. CASE IsCurrent(id)
  BY <1>1, <1>2, EndKeepsInvariants DEF SessionExit, SessionInv
<1>3. CASE ~IsCurrent(id)
  <2>1. UNCHANGED <<sessions, attachments, wanted>>
    BY <1>3 DEF SessionExit
  <2>2. program[id] = "signalled"
    BY <1>1, <1>3 DEF Runs, IInv, SessionsMatchPrograms
  <2>3. ASSUME NEW i \in SessionId
        PROVE  /\ program'[i] = "running" <=> program[i] = "running"
               /\ program'[i] # "unused" <=> program[i] # "unused"
    BY <1>1, <2>2 DEF IInv, TypeOK, ManagerType
  <2>4. BooksAreKept
    BY <1>1, <2>1, <2>3
       DEF IInv, SessionsMatchPrograms, GenerationsAreUsed, BooksAreKept, IsCurrent
  <2> QED BY <1>1, <2>1, <2>4, IdleAttachments DEF BooksAreKept, SessionInv
<1> QED BY <1>2, <1>3

\* The loop's own steps, and those of the connection threads.
LEMMA ThreadsKeepInv ==
    ASSUME IInv,
           \/ \E opened \in BOOLEAN : Connect(opened)
           \/ \E c \in Client : WriterStep(c)
           \/ \E id \in SessionId : SyncSize(id) \/ SessionOutput(id)
           \/ CollectDoomed
           \/ \E written \in BOOLEAN : Persist(written)
    PROVE  SessionInv'
<1>1. UNCHANGED <<sessions, program, nextGeneration, attachments, wanted>>
  BY DEF Connect, WriterStep, WriteFrame, WriteFails, WriterDone, SyncSize, SessionOutput,
         CollectDoomed, Persist, clientVars, managerVars
<1>2. clients \subseteq clients'
  BY DEF Connect, WriterStep, WriteFrame, WriteFails, WriterDone, SyncSize, SessionOutput,
         CollectDoomed, Persist, clientVars
<1> QED BY <1>1, <1>2, IdleKeepsInv

LEMMA RemovalKeepsInv ==
    ASSUME IInv, NEW c \in Client, Closed(c) \/ Reap(c)
    PROVE  SessionInv'
<1>1. Unconstrain(c) /\ clients' = clients \ {c} /\ UNCHANGED managerVars
  BY DEF Closed, Reap, RemoveClient
<1>2. BooksAreKept
  BY <1>1, IdleBooks DEF managerVars
<1> QED BY <1>1, <1>2, UnconstrainKeepsThemLive DEF managerVars, BooksAreKept, SessionInv

LEMMA RespawnKeepsInv ==
    ASSUME IInv, NEW n \in Name, NEW started \in BOOLEAN, Respawn(n, started)
    PROVE  SessionInv'
<1>1. UNCHANGED clientVars /\ ~Live(n)
  BY DEF Respawn, IInv, RespawningIsAtBoot
<1>2. BooksAreKept
  <2>1. CASE started
    BY <1>1, <2>1, GeometryAssumption, StartKeepsBooks DEF Respawn
  <2>2. CASE ~started
    BY <2>2, IdleBooks DEF Respawn, managerVars
  <2> QED BY <2>1, <2>2
<1> QED BY <1>1, <1>2, IdleAttachments DEF clientVars, BooksAreKept, SessionInv

\* A crash leaves nothing to keep.
LEMMA CrashKeepsInv ==
    ASSUME IInv, Crash
    PROVE  SessionInv' /\ RespawningIsAtBoot'
<1>1. ASSUME NEW id \in SessionId
      PROVE  program'[id] = "unused" /\ ~IsCurrent(id)'
  <2>1. sessions'[id.name] = 0 /\ id.generation # 0
    BY IdType, BoundAssumption DEF Crash
  <2> QED BY <2>1 DEF Crash, IsCurrent
<1>2. SessionsMatchPrograms' /\ GenerationsAreUsed'
  BY <1>1 DEF SessionsMatchPrograms, GenerationsAreUsed
<1>3. AttachmentsAreLive'
  BY DEF Crash, AttachmentsAreLive
<1>4. RespawningIsAtBoot'
  BY DEF Crash, RespawningIsAtBoot, IInv, TypeOK, FileType, Live
<1> QED BY <1>2, <1>3, <1>4 DEF SessionInv

\* Once startup is over there is nothing left to respawn, and no event is
\* taken before.
LEMMA RespawningEndsAtBoot ==
    ASSUME IInv, [Next]_vars, ~Crash
    PROVE  RespawningIsAtBoot'
<1>1. loop # "boot" => respawning = {}
  BY DEF IInv, RespawningIsAtBoot
<1>2. CASE Handle /\ UNCHANGED fileVars
  BY <1>1, <1>2 DEF Handle, fileVars, RespawningIsAtBoot
<1>3. CASE UNCHANGED <<loop, sessions, respawning>>
  BY <1>3 DEF IInv, RespawningIsAtBoot, Live
<1>4. CASE CollectDoomed
  BY <1>1, <1>4 DEF CollectDoomed, fileVars, RespawningIsAtBoot
<1>5. ASSUME NEW written \in BOOLEAN, Persist(written)
      PROVE  RespawningIsAtBoot'
  BY <1>5 DEF Persist, Settled, RespawningIsAtBoot
<1>6. ASSUME NEW n \in Name, NEW started \in BOOLEAN, Respawn(n, started)
      PROVE  RespawningIsAtBoot'
  <2>1. \A m \in Name \ {n} : sessions'[m] = sessions[m]
    BY <1>6 DEF Respawn, CreateWith, managerVars, IInv, TypeOK, ManagerType
  <2>2. loop' = loop /\ respawning' = respawning \ {n} /\ respawning \subseteq Name
    BY <1>6 DEF Respawn, IInv, TypeOK, FileType
  <2> QED BY <2>1, <2>2 DEF IInv, RespawningIsAtBoot, Live
<1>7. \/ Handle /\ UNCHANGED fileVars
      \/ UNCHANGED <<loop, sessions, respawning>>
      \/ CollectDoomed
      \/ \E written \in BOOLEAN : Persist(written)
      \/ \E n \in Name, started \in BOOLEAN : Respawn(n, started)
  <2>1. ASSUME NEW c \in Client, ClientRequest(c)
        PROVE  Handle /\ UNCHANGED fileVars
    BY <2>1 DEF ClientRequest, BadRequest, ListSessions, Detach, Greet, Attach, Input, Kill,
                Resize, Spawn, HandleFrame
  <2>2. ASSUME NEW c \in Client, Closed(c)
        PROVE  Handle /\ UNCHANGED fileVars
    BY <2>2 DEF Closed
  <2>3. ASSUME NEW c \in Client, WriterStep(c)
        PROVE  UNCHANGED <<loop, sessions, respawning>>
    BY <2>3 DEF WriterStep, WriteFrame, WriteFails, WriterDone, managerVars, fileVars
  <2>4. ASSUME NEW opened \in BOOLEAN, Connect(opened)
        PROVE  Handle /\ UNCHANGED fileVars
    BY <2>4 DEF Connect
  <2>5. ASSUME NEW id \in SessionId, SessionOutput(id) \/ SessionExit(id)
        PROVE  Handle /\ UNCHANGED fileVars
    BY <2>5 DEF SessionOutput, SessionExit
  <2>6. ASSUME NEW id \in SessionId, SyncSize(id)
        PROVE  UNCHANGED <<loop, sessions, respawning>>
    BY <2>6 DEF SyncSize, fileVars
  <2>7. ASSUME NEW c \in Client, Reap(c)
        PROVE  UNCHANGED <<loop, sessions, respawning>>
    BY <2>7 DEF Reap, managerVars, fileVars
  <2>8. CASE UNCHANGED vars
    BY <2>8 DEF vars, managerVars, fileVars
  <2> QED BY <2>1, <2>2, <2>3, <2>4, <2>5, <2>6, <2>7, <2>8 DEF Next, Finish
<1> QED BY <1>2, <1>3, <1>4, <1>5, <1>6, <1>7

\* IInv is inductive.
LEMMA NextKeepsIInv ==
    ASSUME IInv, [Next]_vars
    PROVE  IInv'
<1>1. TypeOK'
  BY NextKeepsType DEF IInv
<1>2. CASE \E c \in Client : ClientRequest(c)
  <2>1. PICK c \in Client : ClientRequest(c)
    BY <1>2
  <2>2. SessionInv'
    BY <2>1, AnsweringKeepsInv, AttachKeepsInv, DetachKeepsInv, KillKeepsInv, ResizeKeepsInv,
       SpawnKeepsInv DEF ClientRequest
  <2>3. ~Crash
    <3>1. fileVars' = fileVars
      BY <2>1 DEF ClientRequest, BadRequest, ListSessions, Detach, Greet, Attach, Input, Kill,
                  Resize, Spawn, HandleFrame
    <3> QED BY <3>1 DEF Crash, fileVars, IInv, TypeOK, FileType
  <2> QED BY <1>1, <2>2, <2>3, RespawningEndsAtBoot DEF IInv, SessionInv
<1>3. CASE Crash
  BY <1>1, <1>3, CrashKeepsInv DEF IInv, SessionInv
<1>4. CASE ~Crash /\ ~ \E c \in Client : ClientRequest(c)
  <2>1. SessionInv'
    <3>1. CASE UNCHANGED vars
      BY <3>1, IdleKeepsInv DEF vars, clientVars, managerVars
    <3>2. CASE Next
      BY <1>4, <3>2, ThreadsKeepInv, RemovalKeepsInv, RespawnKeepsInv, SessionExitKeepsInv
         DEF Next, Finish
    <3> QED BY <3>1, <3>2
  <2> QED BY <1>1, <1>4, <2>1, RespawningEndsAtBoot DEF IInv, SessionInv
<1> QED BY <1>2, <1>3, <1>4

-----------------------------------------------------------------------------
(* Theorems *)

\* The inductive invariant holds in every reachable state.
THEOREM Invariant == Spec => []IInv
BY InitIInv, NextKeepsIInv, PTL DEF Spec

\* No client is ever attached to, or constrains the size of, an incarnation
\* of a name other than the live one (session.rs `SessionId', dispatch.rs
\* `Client::forget').
THEOREM AttachedToLiveSessions == Spec => []AttachmentsAreLive
<1>1. IInv => AttachmentsAreLive
  BY DEF IInv
<1> QED BY <1>1, Invariant, PTL

\* The programs the server runs unsignalled are exactly those behind the
\* live sessions, in whichever order kills and exit reports are handled
\* (dispatch.rs `handle_session_event', `kill').
THEOREM NoProgramRunsUnseen == Spec => []SessionsMatchPrograms
<1>1. IInv => SessionsMatchPrograms
  BY DEF IInv
<1> QED BY <1>1, Invariant, PTL

-----------------------------------------------------------------------------
(* What a step may do to a session *)

SessionStarts(n) == ~Live(n) /\ \E g \in Geometry : CreateWith(n, g)
SessionEnds(id) == IsCurrent(id) /\ EndSession(id)

\* A name's session changes only by starting when there is none, by ending,
\* or with the whole process.
LEMMA SessionSteps ==
    ASSUME IInv, [Next]_vars, NEW n \in Name, sessions'[n] # sessions[n]
    PROVE  Crash \/ SessionStarts(n) \/ \E id \in SessionId : id.name = n /\ SessionEnds(id)
<1>1. ASSUME NEW m \in Name, NEW g \in Geometry, CreateWith(m, g)
      PROVE  m = n
  BY <1>1 DEF CreateWith, IInv, TypeOK, ManagerType
<1>2. ASSUME NEW id \in SessionId, EndSession(id)
      PROVE  id.name = n
  BY <1>2 DEF EndSession, IInv, TypeOK, ManagerType
<1>3. ASSUME NEW c \in Client, NEW m \in Name, NEW replay \in BOOLEAN, Attach(c, m, replay)
      PROVE  SessionStarts(n)
  <2>1. ~Live(m) /\ CreateWith(m, DefaultGeometry)
    BY <1>3 DEF Attach, managerVars
  <2> QED BY <1>1, <2>1, GeometryAssumption DEF SessionStarts
<1>4. ASSUME NEW c \in Client, NEW m \in Name, NEW g \in Geometries, Spawn(c, m, g)
      PROVE  SessionStarts(n)
  <2>1. ~Live(m) /\ CreateWith(m, [g EXCEPT !.cell = 0])
    BY <1>4 DEF Spawn, managerVars
  <2>2. [g EXCEPT !.cell = 0] \in Geometry
    BY GeometryAssumption DEF Geometry
  <2> QED BY <1>1, <2>1, <2>2 DEF SessionStarts
<1>5. ASSUME NEW c \in Client, NEW m \in Name, Kill(c, m)
      PROVE  \E id \in SessionId : id.name = n /\ SessionEnds(id)
  <2>1. Live(m) /\ EndSession(Current(m))
    BY <1>5 DEF Kill
  <2>2. PICK id \in SessionId : id = Current(m)
    BY <2>1, IdType DEF Live, Current, IInv, TypeOK, ManagerType
  <2>3. IsCurrent(id)
    BY <2>2 DEF IsCurrent, Current, IdOf
  <2> QED BY <1>2, <2>1, <2>2, <2>3 DEF SessionEnds
<1>6. ASSUME NEW id \in SessionId, SessionExit(id)
      PROVE  id.name = n /\ SessionEnds(id)
  BY <1>2, <1>6 DEF SessionExit, SessionEnds
<1>7. ASSUME NEW m \in Name, NEW started \in BOOLEAN, Respawn(m, started)
      PROVE  SessionStarts(n)
  <2>1. ~Live(m) /\ CreateWith(m, DefaultGeometry)
    BY <1>7 DEF Respawn, managerVars, IInv, RespawningIsAtBoot
  <2> QED BY <1>1, <2>1, GeometryAssumption DEF SessionStarts
<1>8. \/ Crash
      \/ \E c \in Client, m \in Name :
            \/ \E replay \in BOOLEAN : Attach(c, m, replay)
            \/ \E g \in Geometries : Spawn(c, m, g)
            \/ Kill(c, m)
      \/ \E id \in SessionId : SessionExit(id)
      \/ \E m \in Name, started \in BOOLEAN : Respawn(m, started)
  <2>1. ASSUME NEW c \in Client,
               \/ BadRequest(c) \/ ListSessions(c) \/ Detach(c)
               \/ \E supported \in BOOLEAN : Greet(c, supported)
               \/ \E m \in Name : Input(c, m) \/ \E g \in Geometries : Resize(c, m, g)
        PROVE  sessions' = sessions
    BY <2>1 DEF BadRequest, ListSessions, Detach, Greet, Input, Resize, managerVars
  <2>2. ASSUME NEW c \in Client, Closed(c) \/ WriterStep(c) \/ Reap(c)
        PROVE  sessions' = sessions
    BY <2>2 DEF Closed, WriterStep, WriteFrame, WriteFails, WriterDone, Reap, managerVars
  <2>3. ASSUME NEW id \in SessionId, SessionOutput(id) \/ SyncSize(id)
        PROVE  sessions' = sessions
    BY <2>3 DEF SessionOutput, SyncSize
  <2>4. ASSUME \/ \E opened \in BOOLEAN : Connect(opened)
               \/ CollectDoomed
               \/ \E written \in BOOLEAN : Persist(written)
        PROVE  sessions' = sessions
    BY <2>4 DEF Connect, CollectDoomed, Persist, managerVars
  <2>5. CASE UNCHANGED vars
    BY <2>5 DEF vars, managerVars
  <2> QED BY <2>1, <2>2, <2>3, <2>4, <2>5 DEF Next, ClientRequest, Finish
<1> QED BY <1>3, <1>4, <1>5, <1>6, <1>7, <1>8

\* A name only ever comes back under a generation no program ever ran under,
\* which is what lets a late report of an old program be told from one of the
\* new (session.rs `create_with', `is_current').
THEOREM FreshIncarnations == Spec => IncarnationsAreFresh
<1>1. ASSUME IInv, [Next]_vars, NEW n \in Name, sessions'[n] # sessions[n], sessions'[n] # 0
      PROVE  sessions[n] = 0 /\ program[IdOf(n, sessions'[n])] = "unused"
  <2>1. CASE Crash
    BY <1>1, <2>1 DEF Crash
  <2>2. CASE SessionStarts(n)
    <3>1. PICK g \in Geometry : CreateWith(n, g)
      BY <2>2 DEF SessionStarts
    <3>2. sessions'[n] = nextGeneration /\ nextGeneration \in 1 .. MaxGeneration
      BY <1>1, <3>1, CreateKeepsType DEF CreateWith, IInv, TypeOK, ManagerType
    <3>3. PICK id \in SessionId : id = IdOf(n, nextGeneration)
      BY <3>2, IdType
    <3>4. id.generation = nextGeneration
      BY <3>3 DEF IdOf
    <3>5. program[id] = "unused"
      BY <1>1, <3>2, <3>4 DEF IInv, GenerationsAreUsed
    <3> QED BY <2>2, <3>2, <3>3, <3>5 DEF SessionStarts, Live
  <2>3. ASSUME NEW id \in SessionId, id.name = n, SessionEnds(id)
        PROVE  FALSE
    BY <1>1, <2>3 DEF SessionEnds, EndSession, IInv, TypeOK, ManagerType
  <2> QED BY <1>1, <2>1, <2>2, <2>3, SessionSteps
<1>2. IInv /\ [Next]_vars
        => [\A n \in Name :
              sessions'[n] # sessions[n] /\ sessions'[n] # 0
                => sessions[n] = 0 /\ program[IdOf(n, sessions'[n])] = "unused"]_vars
  BY <1>1
<1> QED BY <1>2, Invariant, PTL DEF Spec, IncarnationsAreFresh

\* When a session ends, whoever is attached to it is told or dropped
\* (dispatch.rs `end_session').
THEOREM EndsAreTold == Spec => EndIsTold
<1>1. ASSUME IInv, [Next]_vars, restarts' = restarts, NEW n \in Name, NEW c \in clients,
             Live(n), sessions'[n] # sessions[n], IsAttached(c, Current(n))
      PROVE  \/ c \in doomed'
             \/ outbox'[c] = Append(outbox[c], [type |-> "Exit", session |-> n])
  <2>1. c \in Client
    BY <1>1 DEF IInv, TypeOK, ClientType
  <2>2. ~Crash
    BY <1>1 DEF Crash, IInv, TypeOK, FileType
  <2>3. PICK id \in SessionId : id.name = n /\ SessionEnds(id)
    BY <1>1, <2>2, SessionSteps DEF SessionStarts
  <2> DEFINE msg == [type |-> "Exit", session |-> n]
             msgs == ToAttached(id, msg)
  <2>4. id = Current(n)
    BY <2>3 DEF SessionEnds, IsCurrent, Current, IdOf, SessionId
  <2>5. msgs[c] = <<msg>>
    BY <1>1, <2>1, <2>4 DEF ToAttached
  <2>6. outbox' = Queued(msgs) /\ doomed' = doomed \cup Refusing(msgs)
    BY <2>3 DEF SessionEnds, EndSession, Enqueue
  <2>7. outbox[c] \in Seq(ServerMessage)
    BY <1>1, <2>1 DEF IInv, TypeOK, QueueType
  <2> HIDE DEF msgs, msg
  <2>8. Len(<<msg>>) = 1
    OBVIOUS
  <2>9. CASE 1 <= Room(c)
    <3>1. outbox'[c] = outbox[c] \o <<msg>>
      BY <2>1, <2>5, <2>6, <2>8, <2>9 DEF Queued
    <3> QED BY <2>7, <3>1, AppendIsConcat DEF msg
  <2>10. CASE ~(1 <= Room(c))
    <3>1. Room(c) \in Int
      BY <1>1, <2>1, <2>7, BoundAssumption DEF Room
    <3>2. 1 > Room(c)
      BY <2>10, <3>1
    <3>3. Len(msgs[c]) > Room(c)
      BY <2>5, <2>8, <3>2
    <3>4. c \in Refusing(msgs)
      BY <2>1, <3>3 DEF Refusing
    <3> QED BY <2>6, <3>4
  <2> QED BY <2>9, <2>10
<1>2. IInv /\ [Next]_vars
        => [restarts' = restarts =>
              \A n \in Name, c \in clients :
                Live(n) /\ sessions'[n] # sessions[n] /\ IsAttached(c, Current(n))
                    => \/ c \in doomed'
                       \/ outbox'[c] = Append(outbox[c], [type |-> "Exit", session |-> n])]_vars
  BY <1>1
<1> QED BY <1>2, Invariant, PTL DEF Spec, EndIsTold

\* A save never drops the recipe of a session that is live or still to be
\* respawned (mod.rs `run', `persist_if_changed').
THEOREM RecipesSurvive == Spec => RecipesAreNotLost
<1>1. ASSUME IInv, [Next]_vars, NEW n \in saved \ saved'
      PROVE  ~Live(n) /\ n \notin respawning
  <2>1. saved' # saved
    BY <1>1
  <2>2. PICK written \in BOOLEAN : Persist(written)
    <3>1. ASSUME NEW c \in Client, ClientRequest(c)
          PROVE  saved' = saved
      BY <3>1 DEF ClientRequest, BadRequest, ListSessions, Detach, Greet, Attach, Input, Kill,
                  Resize, Spawn, HandleFrame, fileVars
    <3>2. ASSUME NEW c \in Client, Closed(c) \/ WriterStep(c) \/ Reap(c)
          PROVE  saved' = saved
      BY <3>2 DEF Closed, WriterStep, WriteFrame, WriteFails, WriterDone, Reap, fileVars
    <3>3. ASSUME NEW id \in SessionId, SessionOutput(id) \/ SessionExit(id) \/ SyncSize(id)
          PROVE  saved' = saved
      BY <3>3 DEF SessionOutput, SessionExit, SyncSize, fileVars
    <3>4. ASSUME NEW m \in Name, NEW started \in BOOLEAN, Respawn(m, started)
          PROVE  saved' = saved
      BY <3>4 DEF Respawn
    <3>5. ASSUME (\E opened \in BOOLEAN : Connect(opened)) \/ CollectDoomed \/ Crash
          PROVE  saved' = saved
      BY <3>5 DEF Connect, CollectDoomed, Crash, fileVars
    <3>6. CASE UNCHANGED vars
      BY <3>6 DEF vars, fileVars
    <3> QED BY <1>1, <2>1, <3>1, <3>2, <3>3, <3>4, <3>5, <3>6 DEF Next, Finish
  <2>3. saved' = LiveNames /\ respawning = {}
    BY <2>1, <2>2 DEF Persist, Settled
  <2> QED BY <1>1, <2>3 DEF LiveNames, IInv, TypeOK, FileType
<1>2. IInv /\ [Next]_vars
        => [\A n \in saved \ saved' : ~Live(n) /\ n \notin respawning]_vars
  BY <1>1
<1> QED BY <1>2, Invariant, PTL DEF Spec, RecipesAreNotLost

-----------------------------------------------------------------------------
(* The sizes sessions have *)

\* What all clients want of id, tracked or not.
Asked(id) == {wanted[c][id] : c \in {d \in Client : id \in DOMAIN wanted[d]}}

SizeOf(id) ==
    IsCurrent(id) /\ id \notin arbitrating /\ Asked(id) # {}
        => geometry[id.name] = EffectiveSize(Asked(id))

\* Each session whose turn is not to come has the size asked for, and no turn
\* is to come when the next event is taken.
Sized ==
    /\ \A id \in SessionId : SizeOf(id)
    /\ loop = "receive" => arbitrating = {}

LEMMA SizedIsArbitrated ==
    ASSUME IInv, Sized
    PROVE  SizeIsArbitrated
<1> SUFFICES ASSUME NEW n \in LiveNames,
                    Current(n) \notin arbitrating, Wants(Current(n)) # {}
             PROVE  geometry[n] = EffectiveSize(Wants(Current(n)))
  BY DEF SizeIsArbitrated
<1> DEFINE id == Current(n)
<1>1. id \in SessionId /\ id.name = n /\ IsCurrent(id)
  BY IdType DEF LiveNames, Live, Current, IsCurrent, IInv, TypeOK, ManagerType
<1>2. Wants(id) = Asked(id)
  <2>1. {d \in clients : id \in DOMAIN wanted[d]} = {d \in Client : id \in DOMAIN wanted[d]}
    BY DEF IInv, AttachmentsAreLive, TypeOK, ClientType
  <2> QED BY <2>1 DEF Wants, Asked
<1> HIDE DEF id
<1>3. SizeOf(id)
  BY <1>1 DEF Sized
<1> QED BY <1>1, <1>2, <1>3 DEF SizeOf, id

\* What leaves a session's size right: its turn is to come, nobody wants it,
\* or nothing changed that bears on it.
SameWants(id) ==
    \A c \in Client :
        /\ id \in DOMAIN wanted'[c] <=> id \in DOMAIN wanted[c]
        /\ id \in DOMAIN wanted[c] => wanted'[c][id] = wanted[c][id]
KeepsSizeOf(id) ==
    \/ ~IsCurrent(id)'
    \/ id \in arbitrating'
    \/ \A c \in Client : id \notin DOMAIN wanted'[c]
    \/ /\ IsCurrent(id) /\ id \notin arbitrating
       /\ geometry'[id.name] = geometry[id.name]
       /\ SameWants(id)

LEMMA SizesAreKept ==
    ASSUME Sized, NEW id \in SessionId, KeepsSizeOf(id)
    PROVE  SizeOf(id)'
<1> SUFFICES ASSUME IsCurrent(id)', id \notin arbitrating', Asked(id)' # {}
             PROVE  geometry'[id.name] = EffectiveSize(Asked(id)')
  BY DEF SizeOf
<1>1. \E c \in Client : id \in DOMAIN wanted'[c]
  BY DEF Asked
<1>2. /\ IsCurrent(id) /\ id \notin arbitrating
      /\ geometry'[id.name] = geometry[id.name]
      /\ SameWants(id)
  BY <1>1 DEF KeepsSizeOf
<1>3. Asked(id)' = Asked(id)
  BY <1>2 DEF Asked, SameWants
<1>4. SizeOf(id)
  BY DEF Sized
<1> QED BY <1>2, <1>3, <1>4 DEF SizeOf

\* Nobody wants anything of a session that is not there.
LEMMA OnlyLiveAreWanted ==
    ASSUME IInv, NEW id \in SessionId, NEW c \in Client, id \in DOMAIN wanted[c]
    PROVE  IsCurrent(id)
BY DEF IInv, AttachmentsAreLive

\* A session's start changes no other session's size, and nobody wants the
\* new one yet.
LEMMA StartKeepsSizes ==
    ASSUME IInv, NEW n \in Name, ~Live(n), NEW g, CreateWith(n, g),
           wanted' = wanted, arbitrating' = arbitrating, NEW id \in SessionId
    PROVE  KeepsSizeOf(id)
<1>1. id.name \in Name /\ id.generation # 0
  BY IdType, BoundAssumption
<1>2. CASE id.name # n
  BY <1>1, <1>2 DEF CreateWith, IsCurrent, KeepsSizeOf, SameWants, IInv, TypeOK, ManagerType
<1>3. CASE id.name = n
  <2>1. ~IsCurrent(id)
    BY <1>1, <1>3 DEF IsCurrent, Live
  <2>2. \A c \in Client : id \notin DOMAIN wanted'[c]
    BY <2>1, OnlyLiveAreWanted
  <2> QED BY <2>2 DEF KeepsSizeOf
<1> QED BY <1>2, <1>3

\* A session's end changes no other session's size.
LEMMA EndKeepsSizes ==
    ASSUME IInv, NEW old \in SessionId, EndSession(old), arbitrating' = arbitrating,
           NEW id \in SessionId
    PROVE  KeepsSizeOf(id)
<1>1. old.name \in Name /\ id.name \in Name /\ id.generation # 0
  BY IdType, BoundAssumption
<1>2. CASE id.name = old.name
  <2>1. sessions'[id.name] = 0
    BY <1>1, <1>2 DEF EndSession, IInv, TypeOK, ManagerType
  <2> QED BY <1>1, <2>1 DEF KeepsSizeOf, IsCurrent
<1>3. CASE id.name # old.name
  <2>1. sessions'[id.name] = sessions[id.name] /\ geometry'[id.name] = geometry[id.name]
    BY <1>1, <1>3 DEF EndSession, IInv, TypeOK, ManagerType
  <2>2. SameWants(id)
    BY <1>3 DEF EndSession, Forget, Restrict, SameWants
  <2> QED BY <2>1, <2>2 DEF KeepsSizeOf, IsCurrent
<1> QED BY <1>2, <1>3

\* A client that lets go of its sessions leaves those it constrained to be
\* arbitrated.
LEMMA LettingGoKeepsSizes ==
    ASSUME IInv, NEW c \in Client, Unconstrain(c), arbitrating = {},
           UNCHANGED <<sessions, geometry>>, NEW id \in SessionId
    PROVE  KeepsSizeOf(id)
<1>1. CASE id \in DOMAIN wanted[c]
  BY <1>1 DEF Unconstrain, KeepsSizeOf
<1>2. CASE id \notin DOMAIN wanted[c]
  <2>1. wanted'[c] = <<>> /\ \A d \in Client \ {c} : wanted'[d] = wanted[d]
    BY DEF Unconstrain, IInv, TypeOK, ClientType
  <2>2. DOMAIN wanted'[c] = {}
    BY <2>1
  <2>3. SameWants(id)
    BY <1>2, <2>1, <2>2 DEF SameWants
  <2> QED BY <2>3 DEF KeepsSizeOf, IsCurrent
<1> QED BY <1>1, <1>2

\* What a client wants of one session, whose turn comes, is no other's
\* business.
LEMMA WantingKeepsSizes ==
    ASSUME IInv, NEW c \in Client, NEW old \in SessionId, NEW g, Want(c, old, g),
           NEW id \in SessionId, id # old
    PROVE  SameWants(id)
<1>1. DOMAIN wanted'[c] = DOMAIN wanted[c] \cup {old}
  BY DEF Want, IInv, TypeOK, ClientType
<1>2. id \in DOMAIN wanted[c] => wanted'[c][id] = wanted[c][id]
  BY DEF Want, IInv, TypeOK, ClientType
<1>3. \A d \in Client \ {c} : wanted'[d] = wanted[d]
  BY DEF Want, IInv, TypeOK, ClientType
<1> QED BY <1>1, <1>2, <1>3 DEF SameWants

\* No step of a client's frame puts a size wrong.
LEMMA RequestsKeepSizes ==
    ASSUME IInv, NEW c \in Client, ClientRequest(c), arbitrating = {}, NEW id \in SessionId
    PROVE  KeepsSizeOf(id)
<1>1. ASSUME UNCHANGED <<wanted, sessions, geometry>>
      PROVE  KeepsSizeOf(id)
  BY <1>1 DEF KeepsSizeOf, SameWants, IsCurrent
<1>2. CASE \/ BadRequest(c) \/ ListSessions(c) \/ \E supported \in BOOLEAN : Greet(c, supported)
           \/ \E n \in Name : Input(c, n)
  BY <1>1, <1>2 DEF BadRequest, ListSessions, Greet, Input, clientVars, managerVars
<1>3. CASE Detach(c)
  BY <1>3, LettingGoKeepsSizes DEF Detach, managerVars
<1>4. ASSUME NEW n \in Name, NEW replay \in BOOLEAN, Attach(c, n, replay)
      PROVE  KeepsSizeOf(id)
  <2>1. CASE ~Live(n) /\ CreateWith(n, DefaultGeometry)
    BY <1>4, <2>1, StartKeepsSizes DEF Attach
  <2>2. CASE UNCHANGED managerVars
    BY <1>1, <1>4, <2>2 DEF Attach, managerVars
  <2> QED BY <1>4, <2>1, <2>2 DEF Attach
<1>5. ASSUME NEW n \in Name, Kill(c, n)
      PROVE  KeepsSizeOf(id)
  <2>1. CASE Live(n)
    <3>1. Current(n) \in SessionId
      BY <2>1, IdType DEF Current, Live, IInv, TypeOK, ManagerType
    <3> QED BY <1>5, <2>1, <3>1, EndKeepsSizes DEF Kill
  <2>2. CASE ~Live(n)
    BY <1>1, <1>5, <2>2 DEF Kill
  <2> QED BY <2>1, <2>2
<1>6. ASSUME NEW n \in Name, NEW g \in Geometries, Resize(c, n, g)
      PROVE  KeepsSizeOf(id)
  <2>1. UNCHANGED <<sessions, geometry>>
    BY <1>6 DEF Resize, managerVars
  <2>2. CASE Live(n) /\ Want(c, Current(n), g) /\ arbitrating' = {Current(n)}
    <3>1. Current(n) \in SessionId
      BY <2>2, IdType DEF Current, Live, IInv, TypeOK, ManagerType
    <3>2. CASE id = Current(n)
      BY <2>2, <3>2 DEF KeepsSizeOf
    <3>3. CASE id # Current(n)
      BY <2>1, <2>2, <3>1, <3>3, WantingKeepsSizes DEF KeepsSizeOf, IsCurrent
    <3> QED BY <3>2, <3>3
  <2>3. CASE wanted' = wanted
    BY <1>1, <2>1, <2>3
  <2> QED BY <1>6, <2>2, <2>3 DEF Resize
<1>7. ASSUME NEW n \in Name, NEW g \in Geometries, Spawn(c, n, g)
      PROVE  KeepsSizeOf(id)
  <2> DEFINE new == IdOf(n, nextGeneration)
             asked == [g EXCEPT !.cell = 0]
  <2>1. CASE /\ ~Live(n) /\ CreateWith(n, asked) /\ arbitrating' = {new}
             /\ IF c \in clients THEN Want(c, new, asked) ELSE UNCHANGED wanted
    <3>1. nextGeneration \in 1 .. MaxGeneration
      BY <2>1, BoundAssumption DEF CreateWith, IInv, TypeOK, ManagerType
    <3>2. new \in SessionId /\ new.name = n
      BY <3>1, IdType
    <3>3. CASE id = new
      BY <2>1, <3>3 DEF KeepsSizeOf
    <3>4. CASE id # new
      <4>1. SameWants(id)
        <5>1. CASE c \in clients
          <6> HIDE DEF new, asked
          <6> QED BY <2>1, <3>2, <3>4, <5>1, WantingKeepsSizes
        <5>2. CASE c \notin clients
          BY <2>1, <5>2 DEF SameWants
        <5> QED BY <5>1, <5>2
      <4>2. id.name \in Name /\ id.generation # 0
        BY IdType, BoundAssumption
      <4>3. CASE id.name = n
        <5>1. ~IsCurrent(id)
          BY <2>1, <4>2, <4>3 DEF IsCurrent, Live
        <5>2. \A d \in Client : id \notin DOMAIN wanted'[d]
          BY <4>1, <5>1, OnlyLiveAreWanted DEF SameWants
        <5> QED BY <5>2 DEF KeepsSizeOf
      <4>4. CASE id.name # n
        <5>1. sessions'[id.name] = sessions[id.name] /\ geometry'[id.name] = geometry[id.name]
          BY <2>1, <4>2, <4>4 DEF CreateWith, IInv, TypeOK, ManagerType
        <5> QED BY <4>1, <5>1 DEF KeepsSizeOf, IsCurrent
      <4> QED BY <4>3, <4>4
    <3> QED BY <3>3, <3>4
  <2>2. CASE UNCHANGED <<wanted, managerVars>>
    BY <1>1, <2>2 DEF managerVars
  <2> QED BY <1>7, <2>1, <2>2 DEF Spawn
<1> QED BY <1>2, <1>3, <1>4, <1>5, <1>6, <1>7 DEF ClientRequest

\* A session's turn in the arbitration puts its size right, if the program
\* takes it.
LEMMA ArbitrationSetsSizes ==
    ASSUME IInv, Sized, ~ResizeMayFail, NEW old \in SessionId, SyncSize(old),
           NEW id \in SessionId
    PROVE  SizeOf(id)'
<1>1. /\ arbitrating' = arbitrating \ {old}
      /\ UNCHANGED <<clients, sessions, wanted>>
  BY DEF SyncSize, clientVars
<1>2. id.name \in Name /\ old.name \in Name
  BY IdType
<1>3. Asked(id)' = Asked(id) /\ (IsCurrent(id)' <=> IsCurrent(id))
  BY <1>1 DEF Asked, IsCurrent
<1>4. CASE id = old
  <2>1. Wants(id) = Asked(id)
    <3>1. {d \in clients : id \in DOMAIN wanted[d]} = {d \in Client : id \in DOMAIN wanted[d]}
      BY DEF IInv, AttachmentsAreLive, TypeOK, ClientType
    <3> QED BY <3>1 DEF Wants, Asked
  <2> SUFFICES ASSUME IsCurrent(id), Asked(id) # {}
               PROVE  geometry'[id.name] = EffectiveSize(Asked(id))
    BY <1>3 DEF SizeOf
  <2>2. CASE geometry' = [geometry EXCEPT ![id.name] = EffectiveSize(Wants(id))]
    BY <1>2, <2>1, <2>2 DEF IInv, TypeOK, ManagerType
  <2>3. CASE ~(IsCurrent(id) /\ Wants(id) # {} /\ EffectiveSize(Wants(id)) # geometry[id.name])
             /\ geometry' = geometry
    BY <2>1, <2>3
  <2> QED BY <1>4, <2>2, <2>3 DEF SyncSize
<1>5. CASE id # old
  <2>1. CASE IsCurrent(id)
    <3>1. geometry'[id.name] = geometry[id.name]
      <4>1. IsCurrent(old) => id.name # old.name
        BY <1>5, <2>1, IdType DEF IsCurrent
      <4> QED BY <1>2, <4>1 DEF SyncSize, IInv, TypeOK, ManagerType
    <3>2. SizeOf(id)
      BY DEF Sized
    <3> QED BY <1>1, <1>3, <1>5, <3>1, <3>2 DEF SizeOf
  <2>2. CASE ~IsCurrent(id)
    BY <1>3, <2>2 DEF SizeOf
  <2> QED BY <2>1, <2>2
<1> QED BY <1>4, <1>5

\* No step puts a size wrong.
LEMMA NextKeepsSizes ==
    ASSUME IInv, Sized, ~ResizeMayFail, [Next]_vars
    PROVE  Sized'
<1>1. ASSUME NEW id \in SessionId
      PROVE  SizeOf(id)'
  <2>1. ASSUME UNCHANGED <<wanted, sessions, geometry, arbitrating>>
        PROVE  SizeOf(id)'
    <3>1. SizeOf(id)
      BY DEF Sized
    <3> QED BY <2>1, <3>1 DEF SizeOf, Asked, IsCurrent
  <2>2. Handle => arbitrating = {}
    BY DEF Handle, Sized
  <2>3. CASE \E c \in Client : ClientRequest(c)
    <3>1. PICK c \in Client : ClientRequest(c)
      BY <2>3
    <3>2. Handle
      BY <3>1 DEF ClientRequest, BadRequest, ListSessions, Detach, Greet, Attach, Input, Kill,
                  Resize, Spawn, HandleFrame
    <3> QED BY <2>2, <3>1, <3>2, RequestsKeepSizes, SizesAreKept
  <2>4. CASE \E c \in Client : Closed(c) \/ Reap(c)
    <3>1. PICK c \in Client : Closed(c) \/ Reap(c)
      BY <2>4
    <3>2. Unconstrain(c) /\ arbitrating = {} /\ UNCHANGED <<sessions, geometry>>
      BY <2>2, <3>1 DEF Closed, Reap, RemoveClient, managerVars
    <3> QED BY <3>2, LettingGoKeepsSizes, SizesAreKept
  <2>5. CASE \E old \in SessionId : SessionExit(old)
    <3>1. PICK old \in SessionId : SessionExit(old)
      BY <2>5
    <3>2. CASE EndSession(old)
      BY <3>1, <3>2, EndKeepsSizes, SizesAreKept DEF SessionExit
    <3>3. CASE UNCHANGED <<sessions, geometry, wanted>>
      BY <2>1, <3>1, <3>3 DEF SessionExit
    <3> QED BY <3>1, <3>2, <3>3 DEF SessionExit
  <2>6. CASE \E n \in Name, started \in BOOLEAN : Respawn(n, started)
    <3>1. PICK n \in Name, started \in BOOLEAN : Respawn(n, started)
      BY <2>6
    <3>2. ~Live(n) /\ UNCHANGED <<wanted, arbitrating>>
      BY <3>1 DEF Respawn, clientVars, IInv, RespawningIsAtBoot
    <3>3. CASE CreateWith(n, DefaultGeometry)
      BY <3>2, <3>3, StartKeepsSizes, SizesAreKept
    <3>4. CASE UNCHANGED managerVars
      BY <2>1, <3>2, <3>4 DEF managerVars
    <3> QED BY <3>1, <3>3, <3>4 DEF Respawn
  <2>7. CASE \E old \in SessionId : SyncSize(old)
    BY <2>7, ArbitrationSetsSizes
  <2>8. CASE Crash
    <3>1. sessions'[id.name] = 0 /\ id.generation # 0
      BY <2>8, IdType, BoundAssumption DEF Crash
    <3> QED BY <3>1 DEF SizeOf, IsCurrent
  <2>9. CASE \/ \E opened \in BOOLEAN : Connect(opened)
             \/ \E c \in Client : WriterStep(c)
             \/ \E other \in SessionId : SessionOutput(other)
    BY <2>1, <2>9 DEF Connect, WriterStep, WriteFrame, WriteFails, WriterDone, SessionOutput,
                      clientVars, managerVars
  <2>10. CASE CollectDoomed \/ (\E written \in BOOLEAN : Persist(written)) \/ UNCHANGED vars
    BY <2>1, <2>10 DEF CollectDoomed, Persist, vars, clientVars, managerVars
  <2> QED BY <2>3, <2>4, <2>5, <2>6, <2>7, <2>8, <2>9, <2>10 DEF Next, Finish
<1>2. loop' = "receive" => arbitrating' = {}
  <2>1. CASE UNCHANGED <<loop, arbitrating>>
    BY <2>1 DEF Sized
  <2>2. CASE loop' # "receive"
    BY <2>2
  <2>3. CASE \E written \in BOOLEAN : Persist(written)
    BY <2>3 DEF Persist, Settled
  <2>4. CASE \E c \in Client : ClientRequest(c) \/ Closed(c)
    BY <2>2, <2>4 DEF ClientRequest, BadRequest, ListSessions, Detach, Greet, Attach, Input, Kill,
                      Resize, Spawn, HandleFrame, Handle, Closed
  <2>5. CASE \/ \E opened \in BOOLEAN : Connect(opened)
             \/ \E id \in SessionId : SessionOutput(id) \/ SessionExit(id)
    BY <2>2, <2>5 DEF Connect, SessionOutput, SessionExit, Handle
  <2>6. CASE \/ \E c \in Client : WriterStep(c)
             \/ \E n \in Name, started \in BOOLEAN : Respawn(n, started)
             \/ UNCHANGED vars
    BY <2>1, <2>6 DEF WriterStep, WriteFrame, WriteFails, WriterDone, Respawn, vars
  <2>7. CASE (\E c \in Client : Reap(c)) \/ CollectDoomed \/ Crash
    BY <2>2, <2>7 DEF Reap, CollectDoomed, Crash
  <2>8. CASE \E id \in SessionId : SyncSize(id)
    BY <2>8 DEF SyncSize, Sized
  <2> QED BY <2>3, <2>4, <2>5, <2>6, <2>7, <2>8 DEF Next, Finish
<1> QED BY <1>1, <1>2 DEF Sized

\* As long as programs take the sizes they are given, a session is as large
\* as the smallest of the clients that reported a size for it, whoever comes,
\* goes and reports meanwhile (dispatch.rs `sync_session_size',
\* `remove_client').
THEOREM SizesAreArbitrated ==
    ASSUME ~ResizeMayFail
    PROVE  Spec => []SizeIsArbitrated
<1>1. Init => Sized
  <2> SUFFICES ASSUME Init PROVE Sized
    OBVIOUS
  <2>1. ASSUME NEW id \in SessionId
        PROVE  ~IsCurrent(id)
    <3>1. sessions[id.name] = 0 /\ id.generation # 0
      BY IdType, BoundAssumption DEF Init
    <3> QED BY <3>1 DEF IsCurrent
  <2> QED BY <2>1 DEF Init, Sized, SizeOf
<1>2. IInv /\ Sized /\ [Next]_vars => Sized'
  BY NextKeepsSizes
<1>3. IInv /\ Sized => SizeIsArbitrated
  BY SizedIsArbitrated
<1> QED BY <1>1, <1>2, <1>3, Invariant, PTL DEF Spec

-----------------------------------------------------------------------------
(* The defs file *)

\* Unless a save is due, the file holds the live sessions and those startup
\* has yet to respawn; none is due when the next event is taken.
Accounted ==
    /\ sessionsChanged \/ saved = LiveNames \cup respawning
    /\ loop = "receive" => ~sessionsChanged

LEMMA StartIsAccounted ==
    ASSUME IInv, NEW n \in Name, NEW g, CreateWith(n, g)
    PROVE  LiveNames' = LiveNames \cup {n}
<1>1. nextGeneration # 0
  BY DEF IInv, TypeOK, ManagerType
<1>2. sessions' = [sessions EXCEPT ![n] = nextGeneration] /\ sessions \in [Name -> 0 .. MaxGeneration]
  BY DEF CreateWith, IInv, TypeOK, ManagerType
<1> QED BY <1>1, <1>2 DEF LiveNames, Live

LEMMA NextAccounts ==
    ASSUME IInv, Accounted, ~SaveMayFail, [Next]_vars
    PROVE  Accounted'
<1>1. ASSUME UNCHANGED <<sessions, saved, respawning, sessionsChanged>>,
             loop' # "receive" \/ loop' = loop
      PROVE  Accounted'
  BY <1>1 DEF Accounted, LiveNames, Live
<1>2. ASSUME sessionsChanged' = TRUE, loop' # "receive"
      PROVE  Accounted'
  BY <1>2 DEF Accounted
<1>3. ASSUME NEW c \in Client, ClientRequest(c)
      PROVE  Accounted'
  <2>1. loop' # "receive" /\ UNCHANGED <<saved, respawning>>
    BY <1>3 DEF ClientRequest, BadRequest, ListSessions, Detach, Greet, Attach, Input, Kill,
                Resize, Spawn, HandleFrame, Handle, fileVars
  <2>2. sessionsChanged' = TRUE \/ UNCHANGED <<sessions, sessionsChanged>>
    <3>1. CASE \/ BadRequest(c) \/ ListSessions(c) \/ Detach(c)
               \/ \E supported \in BOOLEAN : Greet(c, supported)
               \/ \E n \in Name : Input(c, n)
      BY <3>1 DEF BadRequest, ListSessions, Detach, Greet, Input, managerVars
    <3>2. CASE \E n \in Name : \E replay \in BOOLEAN : Attach(c, n, replay)
      BY <3>2 DEF Attach, managerVars
    <3>3. CASE \E n \in Name : \E g \in Geometries : Resize(c, n, g) \/ Spawn(c, n, g)
      BY <3>3 DEF Resize, Spawn, managerVars
    <3>4. CASE \E n \in Name : Kill(c, n)
      BY <3>4 DEF Kill, EndSession
    <3> QED BY <1>3, <3>1, <3>2, <3>3, <3>4 DEF ClientRequest
  <2> QED BY <1>1, <1>2, <2>1, <2>2
<1>4. ASSUME NEW id \in SessionId, SessionOutput(id) \/ SessionExit(id)
      PROVE  Accounted'
  <2>1. loop' # "receive" /\ UNCHANGED <<saved, respawning>>
    BY <1>4 DEF SessionOutput, SessionExit, Handle, fileVars
  <2>2. sessionsChanged' = TRUE \/ UNCHANGED <<sessions, sessionsChanged>>
    BY <1>4 DEF SessionOutput, SessionExit, EndSession
  <2> QED BY <1>1, <1>2, <2>1, <2>2
<1>5. ASSUME NEW written \in BOOLEAN, Persist(written)
      PROVE  Accounted'
  <2>1. /\ respawning = {} /\ respawning' = {} /\ sessions' = sessions
        /\ sessionsChanged' = FALSE
    BY <1>5 DEF Persist, Settled, managerVars
  <2>2. saved' = LiveNames
    BY <1>5, <2>1 DEF Persist, Accounted
  <2> QED BY <2>1, <2>2 DEF Accounted, LiveNames, Live
<1>6. ASSUME NEW n \in Name, NEW started \in BOOLEAN, Respawn(n, started)
      PROVE  Accounted'
  <2>1. loop' # "receive" /\ saved' = saved /\ n \in respawning /\ respawning' = respawning \ {n}
    BY <1>6 DEF Respawn
  <2>2. CASE started
    <3>1. CreateWith(n, DefaultGeometry) /\ sessionsChanged' = sessionsChanged
      BY <1>6, <2>2 DEF Respawn
    <3>2. LiveNames' = LiveNames \cup {n}
      BY <3>1, StartIsAccounted
    <3> QED BY <2>1, <3>1, <3>2 DEF Accounted
  <2>3. CASE ~started
    BY <1>2, <1>6, <2>1, <2>3 DEF Respawn
  <2> QED BY <2>2, <2>3
<1>7. CASE Crash
  BY <1>7 DEF Crash, Accounted, LiveNames, Live
<1>8. CASE \/ \E opened \in BOOLEAN : Connect(opened)
           \/ \E c \in Client : Closed(c) \/ Reap(c)
  BY <1>1, <1>8 DEF Connect, Closed, Reap, Handle, managerVars, fileVars
<1>9. CASE \/ \E c \in Client : WriterStep(c)
           \/ \E id \in SessionId : SyncSize(id)
           \/ CollectDoomed
           \/ UNCHANGED vars
  BY <1>1, <1>9 DEF WriterStep, WriteFrame, WriteFails, WriterDone, SyncSize, CollectDoomed, vars,
                    managerVars, fileVars
<1> QED BY <1>3, <1>4, <1>5, <1>6, <1>7, <1>8, <1>9 DEF Next, Finish

\* As long as the defs file can be written, it holds a recipe for exactly the
\* live sessions whenever the server waits for an event, however often it
\* crashed before (mod.rs `persist_if_changed').
THEOREM FileMatchesSessions ==
    ASSUME ~SaveMayFail
    PROVE  Spec => []SavedAtRest
<1>1. Init => Accounted
  BY DEF Init, Accounted, LiveNames, Live
<1>2. IInv /\ Accounted /\ [Next]_vars => Accounted'
  BY NextAccounts
<1>3. IInv /\ Accounted => SavedAtRest
  BY DEF IInv, RespawningIsAtBoot, Accounted, SavedAtRest
<1> QED BY <1>1, <1>2, <1>3, Invariant, PTL DEF Spec

-----------------------------------------------------------------------------
(* What is on its way to a client *)

\* Of the messages in q, the last in M is one of good; where q has none in M,
\* seen holds.
EndsIn(q, M, good, seen) ==
    \/ seen /\ \A i \in DOMAIN q : q[i] \notin M
    \/ \E i \in DOMAIN q : q[i] \in good /\ \A j \in DOMAIN q : i < j => q[j] \notin M

LEMMA EndsInAppend ==
    ASSUME NEW S, NEW q \in Seq(S), NEW m \in S, NEW M, NEW good, NEW seen \in BOOLEAN
    PROVE  /\ m \in good => EndsIn(Append(q, m), M, good, seen)
           /\ m \notin M /\ EndsIn(q, M, good, seen) => EndsIn(Append(q, m), M, good, seen)
<1> DEFINE t == Append(q, m)
           n == Len(q)
<1>1. /\ n \in Nat /\ DOMAIN q = 1 .. n /\ DOMAIN t = 1 .. n + 1
      /\ t[n + 1] = m /\ \A i \in 1 .. n : t[i] = q[i]
  OBVIOUS
<1> HIDE DEF t, n
<1>2. ASSUME m \in good PROVE EndsIn(t, M, good, seen)
  <2>1. \A j \in DOMAIN t : ~(n + 1 < j)
    BY <1>1
  <2>2. n + 1 \in DOMAIN t
    BY <1>1
  <2> QED BY <1>1, <1>2, <2>1, <2>2 DEF EndsIn
<1>3. ASSUME m \notin M, EndsIn(q, M, good, seen) PROVE EndsIn(t, M, good, seen)
  <2>1. CASE seen /\ \A i \in DOMAIN q : q[i] \notin M
    <3>1. ASSUME NEW i \in DOMAIN t PROVE t[i] \notin M
      <4>1. i \in 1 .. n \/ i = n + 1
        BY <1>1
      <4> QED BY <1>1, <1>3, <2>1, <4>1
    <3> QED BY <2>1, <3>1 DEF EndsIn
  <2>2. ASSUME NEW i \in DOMAIN q, q[i] \in good, \A j \in DOMAIN q : i < j => q[j] \notin M
        PROVE  EndsIn(t, M, good, seen)
    <3>1. i \in DOMAIN t /\ t[i] \in good
      BY <1>1, <2>2
    <3>2. ASSUME NEW j \in DOMAIN t, i < j PROVE t[j] \notin M
      <4>1. j \in 1 .. n \/ j = n + 1
        BY <1>1
      <4> QED BY <1>1, <1>3, <2>2, <3>2, <4>1
    <3> QED BY <3>1, <3>2 DEF EndsIn
  <2> QED BY <1>3, <2>1, <2>2 DEF EndsIn
<1> QED BY <1>2, <1>3 DEF t

\* The first message is taken.
LEMMA EndsInTail ==
    ASSUME NEW S, NEW q \in Seq(S), q # <<>>, NEW M, NEW good,
           NEW seen \in BOOLEAN, NEW later \in BOOLEAN,
           EndsIn(q, M, good, seen), good \subseteq M,
           Head(q) \in good => later,
           Head(q) \notin M /\ seen => later
    PROVE  EndsIn(Tail(q), M, good, later)
<1> DEFINE t == Tail(q)
           n == Len(q)
<1>1. /\ n \in Nat \ {0} /\ DOMAIN q = 1 .. n /\ DOMAIN t = 1 .. n - 1
      /\ Head(q) = q[1] /\ \A i \in 1 .. n - 1 : t[i] = q[i + 1]
  OBVIOUS
<1> HIDE DEF t, n
<1>2. CASE seen /\ \A i \in DOMAIN q : q[i] \notin M
  <2>1. Head(q) \notin M
    BY <1>1, <1>2
  <2>2. ASSUME NEW i \in DOMAIN t PROVE t[i] \notin M
    <3>1. i \in 1 .. n - 1 /\ i + 1 \in 1 .. n
      BY <1>1
    <3> QED BY <1>1, <1>2, <3>1
  <2> QED BY <1>2, <2>1, <2>2 DEF EndsIn
<1>3. ASSUME NEW i \in DOMAIN q, q[i] \in good, \A j \in DOMAIN q : i < j => q[j] \notin M
      PROVE  EndsIn(t, M, good, later)
  <2>1. CASE i = 1
    <3>1. ASSUME NEW j \in DOMAIN t PROVE t[j] \notin M
      <4>1. j \in 1 .. n - 1 /\ j + 1 \in 1 .. n /\ 1 < j + 1
        BY <1>1
      <4> QED BY <1>1, <1>3, <2>1, <4>1
    <3>2. later
      BY <1>1, <1>3, <2>1
    <3> QED BY <3>1, <3>2 DEF EndsIn
  <2>2. CASE i # 1
    <3> DEFINE k == i - 1
    <3>1. k \in 1 .. n - 1 /\ k + 1 = i
      BY <1>1, <2>2
    <3> HIDE DEF k
    <3>2. k \in DOMAIN t /\ t[k] \in good
      BY <1>1, <1>3, <3>1
    <3>3. ASSUME NEW j \in DOMAIN t, k < j PROVE t[j] \notin M
      <4>1. j \in 1 .. n - 1 /\ j + 1 \in 1 .. n /\ i < j + 1
        BY <1>1, <3>1, <3>3
      <4> QED BY <1>1, <1>3, <4>1
    <3> QED BY <3>2, <3>3 DEF EndsIn
  <2> QED BY <2>1, <2>2
<1> QED BY <1>2, <1>3 DEF EndsIn, t

\* The messages that tell a session's grid, whether it is shown, and its text.
GridMarks(n) == {m \in ServerMessage : m.type \in {"Attached", "Resized"} /\ m.session = n}
ShownMarks(n) == {m \in ServerMessage : m.type \in {"Attached", "Exit"} /\ m.session = n}
TextMarks(n) ==
    {m \in ServerMessage : m.type \in {"Attached", "Scrollback", "Output"} /\ m.session = n}

\* The end of the text a message leaves; what may follow a text.
Leaves(m) ==
    CASE m.type = "Attached" -> <<>>
      [] m.type = "Scrollback" -> m.bytes
      [] m.type = "Output" -> <<m.bytes>>
Following(chunk) == [chunk EXCEPT !.index = @ + 1]
Unbroken(text) == \A i \in 1 .. Len(text) - 1 : text[i + 1] = Following(text[i])
Joins(text, m) ==
    \/ m.type = "Scrollback" /\ text = <<>> /\ Unbroken(m.bytes)
    \/ m.type = "Output" /\ (text = <<>> \/ m.bytes = Following(text[Len(text)]))

\* Where the text of n stands when the message at i is taken: as the last of
\* those before it leaves it, or as it is now.
StandsAt(q, text, n, i, t) ==
    \/ t = text /\ \A k \in DOMAIN q : k < i => q[k] \notin TextMarks(n)
    \/ \E j \in DOMAIN q :
         /\ j < i /\ q[j] \in TextMarks(n) /\ t = Leaves(q[j])
         /\ \A k \in DOMAIN q : j < k /\ k < i => q[k] \notin TextMarks(n)

\* All of q about n continues the text.
Joined(q, text, n) ==
    \A i \in DOMAIN q : q[i] \in TextMarks(n) /\ q[i].type # "Attached" =>
        \E t \in Seq(Chunk) : StandsAt(q, text, n, i, t) /\ Joins(t, q[i])

LEMMA JoinedAppend ==
    ASSUME NEW q \in Seq(ServerMessage), NEW m \in ServerMessage, NEW text \in Seq(Chunk),
           NEW n, Joined(q, text, n),
           \/ m \notin TextMarks(n)
           \/ m.type = "Attached"
           \/ \E good \in SUBSET TextMarks(n), seen \in BOOLEAN :
                /\ EndsIn(q, TextMarks(n), good, seen)
                /\ \A g \in good : Leaves(g) \in Seq(Chunk) /\ Joins(Leaves(g), m)
                /\ seen => Joins(text, m)
    PROVE  Joined(Append(q, m), text, n)
<1> DEFINE s == Append(q, m)
           len == Len(q)
           M == TextMarks(n)
<1>1. /\ len \in Nat /\ DOMAIN q = 1 .. len /\ DOMAIN s = 1 .. len + 1
      /\ s[len + 1] = m /\ \A i \in 1 .. len : s[i] = q[i]
  OBVIOUS
<1> HIDE DEF s, len
<1> SUFFICES ASSUME NEW i \in DOMAIN s, s[i] \in M, s[i].type # "Attached"
             PROVE  \E t \in Seq(Chunk) : StandsAt(s, text, n, i, t) /\ Joins(t, s[i])
  BY DEF Joined, s
<1>2. ASSUME NEW h \in 1 .. len + 1, NEW t, StandsAt(q, text, n, h, t)
      PROVE  StandsAt(s, text, n, h, t)
  <2>1. \A k \in DOMAIN s : k < h => k \in DOMAIN q /\ s[k] = q[k]
    BY <1>1
  <2>2. \A k \in DOMAIN q : k \in DOMAIN s /\ s[k] = q[k]
    BY <1>1
  <2>3. CASE t = text /\ \A k \in DOMAIN q : k < h => q[k] \notin M
    <3>1. \A k \in DOMAIN s : k < h => s[k] \notin M
      BY <2>1, <2>3
    <3> QED BY <2>3, <3>1 DEF StandsAt
  <2>4. ASSUME NEW j \in DOMAIN q, j < h, q[j] \in M, t = Leaves(q[j]),
               \A k \in DOMAIN q : j < k /\ k < h => q[k] \notin M
        PROVE  StandsAt(s, text, n, h, t)
    <3>1. \A k \in DOMAIN s : j < k /\ k < h => s[k] \notin M
      BY <2>1, <2>4
    <3>2. j \in DOMAIN s /\ s[j] \in M /\ t = Leaves(s[j])
      BY <2>2, <2>4
    <3> QED BY <2>4, <3>1, <3>2 DEF StandsAt
  <2> QED BY <1>2, <2>3, <2>4 DEF StandsAt
<1>3. CASE i \in 1 .. len
  <2>1. i \in DOMAIN q /\ s[i] = q[i]
    BY <1>1, <1>3
  <2>2. PICK t \in Seq(Chunk) : StandsAt(q, text, n, i, t) /\ Joins(t, q[i])
    BY <2>1 DEF Joined
  <2> HIDE DEF M
  <2>3. StandsAt(s, text, n, i, t)
    BY <1>2, <1>3, <1>1, <2>2
  <2> QED BY <2>1, <2>2, <2>3
<1>4. CASE i = len + 1
  <2>1. s[i] = m /\ m \in M /\ m.type # "Attached"
    BY <1>1, <1>4
  <2>2. PICK good \in SUBSET M, seen \in BOOLEAN :
                /\ EndsIn(q, M, good, seen)
                /\ \A g \in good : Leaves(g) \in Seq(Chunk) /\ Joins(Leaves(g), m)
                /\ seen => Joins(text, m)
    BY <2>1
  <2> HIDE DEF M
  <2>3. CASE seen /\ \A k \in DOMAIN q : q[k] \notin M
    <3>1. StandsAt(q, text, n, i, text)
      BY <2>3 DEF StandsAt, M
    <3>2. StandsAt(s, text, n, i, text)
      BY <1>1, <1>2, <1>4, <3>1
    <3> QED BY <2>1, <2>2, <2>3, <3>2
  <2>4. ASSUME NEW j \in DOMAIN q, q[j] \in good, \A k \in DOMAIN q : j < k => q[k] \notin M
        PROVE  \E t \in Seq(Chunk) : StandsAt(s, text, n, i, t) /\ Joins(t, s[i])
    <3>1. j < i /\ q[j] \in M
      BY <1>1, <1>4, <2>2, <2>4
    <3>2. StandsAt(q, text, n, i, Leaves(q[j]))
      BY <2>4, <3>1 DEF StandsAt, M
    <3>3. StandsAt(s, text, n, i, Leaves(q[j]))
      BY <1>1, <1>2, <1>4, <3>2
    <3> QED BY <2>1, <2>2, <2>4, <3>3
  <2> QED BY <2>2, <2>3, <2>4 DEF EndsIn
<1> QED BY <1>1, <1>3, <1>4

\* The first message is taken.
LEMMA HeadJoins ==
    ASSUME NEW q \in Seq(ServerMessage), q # <<>>, NEW text, NEW n, Joined(q, text, n),
           Head(q) \in TextMarks(n), Head(q).type # "Attached"
    PROVE  Joins(text, Head(q))
<1>1. 1 \in DOMAIN q /\ Head(q) = q[1] /\ \A j \in DOMAIN q : ~(j < 1)
  OBVIOUS
<1>2. PICK t \in Seq(Chunk) : StandsAt(q, text, n, 1, t) /\ Joins(t, q[1])
  BY <1>1 DEF Joined
<1>3. t = text
  BY <1>1, <1>2 DEF StandsAt
<1> QED BY <1>1, <1>2, <1>3

LEMMA JoinedTail ==
    ASSUME NEW q \in Seq(ServerMessage), q # <<>>, NEW text \in Seq(Chunk),
           NEW later \in Seq(Chunk), NEW n, Joined(q, text, n),
           Head(q) \notin TextMarks(n) => later = text,
           Head(q) \in TextMarks(n) => \A m \in ServerMessage : Joins(Leaves(Head(q)), m) => Joins(later, m)
    PROVE  Joined(Tail(q), later, n)
<1> DEFINE s == Tail(q)
           len == Len(q)
           M == TextMarks(n)
<1>1. /\ len \in Nat \ {0} /\ DOMAIN q = 1 .. len /\ DOMAIN s = 1 .. len - 1
      /\ Head(q) = q[1] /\ \A i \in 1 .. len - 1 : s[i] = q[i + 1]
      /\ \A i \in 1 .. len : q[i] \in ServerMessage
  OBVIOUS
<1> HIDE DEF s, len
<1>2. ASSUME NEW i \in DOMAIN s, s[i] \in M, s[i].type # "Attached"
      PROVE  \E t \in Seq(Chunk) : StandsAt(s, later, n, i, t) /\ Joins(t, s[i])
  <2>1. i \in 1 .. len - 1 /\ i + 1 \in DOMAIN q /\ s[i] = q[i + 1]
    BY <1>1
  <2>2. PICK t \in Seq(Chunk) : StandsAt(q, text, n, i + 1, t) /\ Joins(t, q[i + 1])
    BY <1>2, <2>1 DEF Joined
  <2>3. \A k \in DOMAIN s : k + 1 \in DOMAIN q /\ s[k] = q[k + 1]
    BY <1>1
  <2>4. CASE t = text /\ \A k \in DOMAIN q : k < i + 1 => q[k] \notin M
    <3>1. Head(q) \notin M
      BY <1>1, <2>1, <2>4
    <3>2. \A k \in DOMAIN s : k < i => s[k] \notin M
      <4> TAKE k \in DOMAIN s
      <4> HAVE k < i
      <4>1. k + 1 < i + 1
        BY <1>1, <2>1
      <4> QED BY <2>3, <2>4, <4>1
    <3> QED BY <2>1, <2>2, <2>4, <3>1, <3>2 DEF StandsAt
  <2>5. ASSUME NEW j \in DOMAIN q, j < i + 1, q[j] \in M, t = Leaves(q[j]),
               \A k \in DOMAIN q : j < k /\ k < i + 1 => q[k] \notin M
        PROVE  \E u \in Seq(Chunk) : StandsAt(s, later, n, i, u) /\ Joins(u, s[i])
    <3>1. CASE j = 1
      <4>1. Head(q) \in M /\ t = Leaves(Head(q))
        BY <1>1, <2>5, <3>1
      <4>2. Joins(later, s[i])
        BY <1>1, <2>1, <2>2, <4>1
      <4>3. \A k \in DOMAIN s : k < i => s[k] \notin M
        <5> TAKE k \in DOMAIN s
        <5> HAVE k < i
        <5>1. j < k + 1 /\ k + 1 < i + 1
          BY <1>1, <2>1, <3>1
        <5> QED BY <2>3, <2>5, <5>1
      <4> QED BY <4>2, <4>3 DEF StandsAt
    <3>2. CASE j # 1
      <4> DEFINE h == j - 1
      <4>1. h \in 1 .. len - 1 /\ h + 1 = j /\ h < i
        BY <1>1, <2>1, <2>5, <3>2
      <4> HIDE DEF h
      <4>2. h \in DOMAIN s /\ s[h] = q[j]
        BY <1>1, <4>1
      <4>3. \A k \in DOMAIN s : h < k /\ k < i => s[k] \notin M
        <5> TAKE k \in DOMAIN s
        <5> HAVE h < k /\ k < i
        <5>1. j < k + 1 /\ k + 1 < i + 1
          BY <1>1, <2>1, <4>1
        <5> QED BY <2>3, <2>5, <5>1
      <4>4. StandsAt(s, later, n, i, t)
        BY <2>5, <4>1, <4>2, <4>3 DEF StandsAt
      <4> QED BY <2>1, <2>2, <4>4
    <3> QED BY <3>1, <3>2
  <2> QED BY <2>2, <2>4, <2>5 DEF StandsAt
<1> QED BY <1>2 DEF Joined, s

-----------------------------------------------------------------------------
(* What clients are told of their sessions *)

Listening(c) == c \in clients \ doomed /\ writer[c] = "writing"

Ends(text, last) == text = <<>> \/ text[Len(text)] = last

\* A client that knows `seen' of the session called n is, once it has taken
\* q, abreast of it: it has its grid g, shows it, and its text ends with last.
Abreast(q, seen, n, g, last) ==
    /\ EndsIn(q, GridMarks(n), {m \in GridMarks(n) : m.grid = g}, seen.grid = g)
    /\ EndsIn(q, ShownMarks(n), {m \in ShownMarks(n) : m.type = "Attached"}, seen.shown)
    /\ EndsIn(q, TextMarks(n), {m \in TextMarks(n) : Ends(Leaves(m), last)},
              Ends(seen.text, last))

LastOutput(id) == [generation |-> id.generation, index |-> produced[id]]
KeepsUp(c, id) ==
    Abreast(outbox[c], view[c][id.name], id.name, GridOf(geometry[id.name]), LastOutput(id))

ClientsAreCounted == \A c \in clients : c < nextClientId
ListenersKeepUp ==
    \A c \in Client : Listening(c) => \A id \in attachments[c] : KeepsUp(c, id)
TextsAreJoined ==
    \A c \in Client, n \in Name :
        Unbroken(view[c][n].text) /\ Joined(outbox[c], view[c][n].text, n)
HistoriesAreWhole ==
    \A n \in Name : Unbroken(history[n]) /\ (Live(n) => Ends(history[n], LastOutput(Current(n))))

Streams == ClientsAreCounted /\ ListenersKeepUp /\ TextsAreJoined /\ HistoriesAreWhole

\* Messages by their types.
LEMMA MessageParts ==
    ASSUME NEW m \in ServerMessage
    PROVE  /\ m.type \in {"Answer", "Attached", "Resized", "Scrollback", "Output", "Exit"}
           /\ m.type = "Answer" <=> m = Answer
           /\ m.type # "Answer" => m.session \in Name
           /\ m.type \in {"Attached", "Resized"} => m.grid \in Grid
           /\ m.type = "Scrollback" => m.bytes \in Seq(Chunk)
           /\ m.type = "Output" => m.bytes \in Chunk
<1>1. CASE m \in [type : {"Answer"}]
  BY <1>1 DEF Answer
<1>2. CASE m \in [type : {"Attached", "Resized"}, session : Name, grid : Grid]
  BY <1>2 DEF Answer
<1>3. CASE m \in [type : {"Scrollback"}, session : Name, bytes : Seq(Chunk)]
  BY <1>3 DEF Answer
<1>4. CASE m \in [type : {"Output"}, session : Name, bytes : Chunk]
  BY <1>4 DEF Answer
<1>5. CASE m \in [type : {"Exit"}, session : Name]
  BY <1>5 DEF Answer
<1> QED BY <1>1, <1>2, <1>3, <1>4, <1>5 DEF ServerMessage

LEMMA LeavesText ==
    ASSUME NEW n, NEW m \in TextMarks(n)
    PROVE  /\ Leaves(m) \in Seq(Chunk)
           /\ m.type = "Attached" => Leaves(m) = <<>>
           /\ m.type = "Scrollback" => Leaves(m) = m.bytes
           /\ m.type = "Output" => Leaves(m) = <<m.bytes>>
<1>1. m \in ServerMessage /\ m.type \in {"Attached", "Scrollback", "Output"}
  BY DEF TextMarks
<1>2. CASE m.type = "Attached"
  BY <1>2 DEF Leaves
<1>3. CASE m.type = "Scrollback"
  BY <1>1, <1>3, MessageParts DEF Leaves
<1>4. CASE m.type = "Output"
  <2>1. Leaves(m) = <<m.bytes>> /\ m.bytes \in Chunk
    BY <1>1, <1>4, MessageParts DEF Leaves
  <2>2. <<m.bytes>> \in Seq(Chunk)
    BY <2>1
  <2> QED BY <1>4, <2>1, <2>2
<1> QED BY <1>1, <1>2, <1>3, <1>4

LEMMA SeenAs ==
    ASSUME NEW seen \in [shown : BOOLEAN, grid : Grid, text : Seq(Chunk)],
           NEW m \in ServerMessage, m # Answer
    PROVE  /\ Seen(seen, m).grid = IF m.type \in {"Attached", "Resized"} THEN m.grid ELSE seen.grid
           /\ Seen(seen, m).shown = IF m.type = "Attached" THEN TRUE
                                    ELSE IF m.type = "Exit" THEN FALSE ELSE seen.shown
           /\ Seen(seen, m).text = IF m.type = "Attached" THEN <<>>
                                   ELSE IF m.type = "Scrollback" THEN seen.text \o m.bytes
                                   ELSE IF m.type = "Output" THEN Append(seen.text, m.bytes)
                                   ELSE seen.text
<1>1. m.type \in {"Attached", "Resized", "Scrollback", "Output", "Exit"}
  BY MessageParts
<1>2. CASE m.type = "Attached"
  <2>1. Seen(seen, m) = [shown |-> TRUE, grid |-> m.grid, text |-> <<>>]
    BY <1>2 DEF Seen
  <2> QED BY <1>2, <2>1
<1>3. CASE m.type = "Resized"
  <2>1. Seen(seen, m) = [seen EXCEPT !.grid = m.grid]
    BY <1>3 DEF Seen
  <2> QED BY <1>3, <2>1
<1>4. CASE m.type = "Scrollback"
  <2>1. Seen(seen, m) = [seen EXCEPT !.text = @ \o m.bytes]
    BY <1>4 DEF Seen
  <2> QED BY <1>4, <2>1
<1>5. CASE m.type = "Output"
  <2>1. Seen(seen, m) = [seen EXCEPT !.text = Append(@, m.bytes)]
    BY <1>5 DEF Seen
  <2> QED BY <1>5, <2>1
<1>6. CASE m.type = "Exit"
  <2>1. Seen(seen, m) = [seen EXCEPT !.shown = FALSE]
    BY <1>6 DEF Seen
  <2> QED BY <1>6, <2>1
<1> QED BY <1>1, <1>2, <1>3, <1>4, <1>5, <1>6

-----------------------------------------------------------------------------
(* How messages are queued *)

\* What queueing does with one message for c: it is queued, or c stops listening.
Receives(c, m) ==
    \/ outbox'[c] = outbox[c] /\ ~Listening(c)'
    \/ outbox'[c] = Append(outbox[c], m) /\ Listening(c)

LEMMA RoomType ==
    ASSUME IInv, NEW c \in Client
    PROVE  /\ Room(c) \in Nat
           /\ Room(c) # 0 => c \notin doomed /\ writer[c] = "writing"
           /\ outbox[c] \in Seq(ServerMessage)
BY BoundAssumption DEF Room, IInv, TypeOK, QueueType

LEMMA NothingQueued ==
    ASSUME IInv, NEW c \in Client, NEW msgs, outbox' = Queued(msgs), msgs[c] = <<>>
    PROVE  outbox'[c] = outbox[c]
<1>1. Room(c) \in Nat /\ outbox[c] \in Seq(ServerMessage)
  BY RoomType
<1>2. Len(<<>>) <= Room(c)
  BY <1>1
<1>3. outbox'[c] = outbox[c] \o <<>>
  BY <1>2 DEF Queued
<1> QED BY <1>1, <1>3

LEMMA OneQueued ==
    ASSUME IInv, NEW c \in clients, NEW m \in ServerMessage, NEW msgs,
           outbox' = Queued(msgs), Refusing(msgs) \subseteq doomed', msgs[c] = <<m>>
    PROVE  Receives(c, m)
<1>0. c \in Client
  BY DEF IInv, TypeOK, ClientType
<1>1. Room(c) \in Nat /\ outbox[c] \in Seq(ServerMessage)
  BY <1>0, RoomType
<1>2. Len(<<m>>) = 1
  OBVIOUS
<1>3. CASE 1 <= Room(c)
  <2>1. outbox'[c] = outbox[c] \o <<m>>
    BY <1>0, <1>2, <1>3 DEF Queued
  <2>2. outbox'[c] = Append(outbox[c], m)
    BY <1>1, <2>1, AppendIsConcat
  <2>3. Listening(c)
    BY <1>0, <1>1, <1>3, RoomType DEF Listening
  <2> QED BY <2>2, <2>3 DEF Receives
<1>4. CASE ~(1 <= Room(c))
  <2>1. Room(c) = 0 /\ Len(msgs[c]) > Room(c) /\ ~(Len(msgs[c]) <= Room(c))
    BY <1>1, <1>2, <1>4
  <2>2. c \in doomed'
    BY <1>0, <2>1 DEF Refusing
  <2>3. outbox'[c] = outbox[c] \o SubSeq(<<m>>, 1, 0)
    BY <1>0, <2>1 DEF Queued
  <2>4. SubSeq(<<m>>, 1, 0) = <<>>
    OBVIOUS
  <2>5. outbox'[c] = outbox[c]
    BY <1>1, <2>3, <2>4
  <2> QED BY <2>2, <2>5 DEF Receives, Listening
<1> QED BY <1>3, <1>4

LEMMA TwoQueued ==
    ASSUME IInv, NEW c \in clients, NEW m \in ServerMessage, NEW k \in ServerMessage, NEW msgs,
           outbox' = Queued(msgs), Refusing(msgs) \subseteq doomed', msgs[c] = <<m, k>>
    PROVE  \/ outbox'[c] = outbox[c] /\ ~Listening(c)'
           \/ outbox'[c] = Append(outbox[c], m) /\ ~Listening(c)'
           \/ outbox'[c] = Append(Append(outbox[c], m), k)
<1>0. c \in Client
  BY DEF IInv, TypeOK, ClientType
<1>1. Room(c) \in Nat /\ outbox[c] \in Seq(ServerMessage)
  BY <1>0, RoomType
<1>2. Len(<<m, k>>) = 2
  OBVIOUS
<1>3. CASE 2 <= Room(c)
  <2>1. outbox'[c] = outbox[c] \o <<m, k>>
    BY <1>0, <1>2, <1>3 DEF Queued
  <2>2. outbox[c] \o <<m, k>> = Append(Append(outbox[c], m), k)
    BY <1>1
  <2> QED BY <2>1, <2>2
<1>4. CASE ~(2 <= Room(c))
  <2>1. Room(c) \in {0, 1} /\ Len(msgs[c]) > Room(c) /\ ~(Len(msgs[c]) <= Room(c))
    BY <1>1, <1>2, <1>4
  <2>2. c \in doomed'
    BY <1>0, <2>1 DEF Refusing
  <2>3. outbox'[c] = outbox[c] \o SubSeq(<<m, k>>, 1, Room(c))
    BY <1>0, <2>1 DEF Queued
  <2>4. SubSeq(<<m, k>>, 1, 0) = <<>> /\ SubSeq(<<m, k>>, 1, 1) = <<m>>
    <3> DEFINE two == <<m, k>>
               head == SubSeq(two, 1, 1)
    <3>1. SubSeq(two, 1, 0) = <<>>
      OBVIOUS
    <3>2. two \in Seq(ServerMessage) /\ Len(two) = 2 /\ two[1] = m
      OBVIOUS
    <3> HIDE DEF two
    <3>3. head \in Seq(ServerMessage) /\ Len(head) = 1 /\ head[1] = m
      BY <3>2
    <3>4. <<m>> \in Seq(ServerMessage) /\ Len(<<m>>) = 1 /\ <<m>>[1] = m
      OBVIOUS
    <3> HIDE DEF head
    <3>5. head = <<m>>
      BY <3>3, <3>4, SeqEqual
    <3> QED BY <3>1, <3>5 DEF head, two
  <2>5. CASE Room(c) = 0
    <3>1. outbox'[c] = outbox[c]
      BY <1>1, <2>3, <2>4, <2>5
    <3> QED BY <2>2, <3>1 DEF Listening
  <2>6. CASE Room(c) = 1
    <3>1. outbox'[c] = outbox[c] \o <<m>>
      BY <2>3, <2>4, <2>6
    <3>2. outbox'[c] = Append(outbox[c], m)
      BY <1>1, <3>1, AppendIsConcat
    <3> QED BY <2>2, <3>2 DEF Listening
  <2> QED BY <2>1, <2>5, <2>6
<1> QED BY <1>3, <1>4

\* A broadcast reaches who is attached.
LEMMA Broadcast ==
    ASSUME IInv, NEW id \in SessionId, NEW m \in ServerMessage, Enqueue(ToAttached(id, m)),
           NEW c \in Client
    PROVE  /\ id \in attachments[c] => Receives(c, m)
           /\ id \notin attachments[c] => outbox'[c] = outbox[c]
           /\ Listening(c)' /\ clients' = clients /\ writer' = writer => Listening(c)
<1> DEFINE msgs == ToAttached(id, m)
<1>1. outbox' = Queued(msgs) /\ Refusing(msgs) \subseteq doomed' /\ doomed \subseteq doomed'
  BY DEF Enqueue
<1>2. CASE id \in attachments[c]
  <2>1. c \in clients
    BY <1>2 DEF IInv, AttachmentsAreLive
  <2>2. msgs[c] = <<m>>
    BY <1>2, <2>1 DEF ToAttached, IsAttached
  <2> HIDE DEF msgs
  <2>3. Receives(c, m)
    BY <1>1, <2>1, <2>2, OneQueued
  <2> QED BY <1>1, <1>2, <2>3 DEF Listening
<1>3. CASE id \notin attachments[c]
  <2>1. msgs[c] = <<>>
    BY <1>3 DEF ToAttached, IsAttached
  <2> HIDE DEF msgs
  <2> QED BY <1>1, <1>3, <2>1, NothingQueued DEF Listening
<1> QED BY <1>2, <1>3

-----------------------------------------------------------------------------
(* What one message does to what a client is to know *)

View == [shown : BOOLEAN, grid : Grid, text : Seq(Chunk)]

\* A message about something else.
LEMMA StaysAbreast ==
    ASSUME NEW q \in Seq(ServerMessage), NEW seen \in View, NEW n, NEW g, NEW last,
           Abreast(q, seen, n, g, last),
           NEW m \in ServerMessage, m = Answer \/ m.session # n
    PROVE  Abreast(Append(q, m), seen, n, g, last)
<1> DEFINE goodGrid == {k \in GridMarks(n) : k.grid = g}
           goodShown == {k \in ShownMarks(n) : k.type = "Attached"}
           goodText == {k \in TextMarks(n) : Ends(Leaves(k), last)}
           seenGrid == seen.grid = g
           seenShown == seen.shown
           seenText == Ends(seen.text, last)
<1>1. m \notin GridMarks(n) /\ m \notin ShownMarks(n) /\ m \notin TextMarks(n)
  BY MessageParts DEF GridMarks, ShownMarks, TextMarks
<1>2. /\ EndsIn(q, GridMarks(n), goodGrid, seenGrid)
      /\ EndsIn(q, ShownMarks(n), goodShown, seenShown)
      /\ EndsIn(q, TextMarks(n), goodText, seenText)
      /\ seenGrid \in BOOLEAN /\ seenShown \in BOOLEAN /\ seenText \in BOOLEAN
  BY DEF Abreast, View, Ends
<1>3. /\ EndsIn(Append(q, m), GridMarks(n), goodGrid, seenGrid)
      /\ EndsIn(Append(q, m), ShownMarks(n), goodShown, seenShown)
      /\ EndsIn(Append(q, m), TextMarks(n), goodText, seenText)
  <2> HIDE DEF goodGrid, goodShown, goodText, seenGrid, seenShown, seenText
  <2> QED BY <1>1, <1>2, EndsInAppend
<1> QED BY <1>3 DEF Abreast

\* The session takes another size, and the client is told its grid.
LEMMA ResizedAbreast ==
    ASSUME NEW q \in Seq(ServerMessage), NEW seen \in View, NEW n, NEW g, NEW last,
           Abreast(q, seen, n, g, last),
           NEW m \in ServerMessage, m.type = "Resized", m.session = n
    PROVE  Abreast(Append(q, m), seen, n, m.grid, last)
<1> DEFINE goodGrid == {k \in GridMarks(n) : k.grid = m.grid}
           goodShown == {k \in ShownMarks(n) : k.type = "Attached"}
           goodText == {k \in TextMarks(n) : Ends(Leaves(k), last)}
           seenGrid == seen.grid = m.grid
           seenShown == seen.shown
           seenText == Ends(seen.text, last)
<1>1. m \in goodGrid /\ m \notin ShownMarks(n) /\ m \notin TextMarks(n)
  BY DEF GridMarks, ShownMarks, TextMarks
<1>2. /\ EndsIn(q, ShownMarks(n), goodShown, seenShown)
      /\ EndsIn(q, TextMarks(n), goodText, seenText)
      /\ seenGrid \in BOOLEAN /\ seenShown \in BOOLEAN /\ seenText \in BOOLEAN
  BY DEF Abreast, View, Ends
<1>3. /\ EndsIn(Append(q, m), GridMarks(n), goodGrid, seenGrid)
      /\ EndsIn(Append(q, m), ShownMarks(n), goodShown, seenShown)
      /\ EndsIn(Append(q, m), TextMarks(n), goodText, seenText)
  <2> HIDE DEF goodGrid, goodShown, goodText, seenGrid, seenShown, seenText
  <2> QED BY <1>1, <1>2, EndsInAppend
<1> QED BY <1>3 DEF Abreast

\* The program writes, and the client is sent it.
LEMMA OutputAbreast ==
    ASSUME NEW q \in Seq(ServerMessage), NEW seen \in View, NEW n, NEW g, NEW last,
           Abreast(q, seen, n, g, last),
           NEW m \in ServerMessage, m.type = "Output", m.session = n
    PROVE  Abreast(Append(q, m), seen, n, g, m.bytes)
<1> DEFINE goodGrid == {k \in GridMarks(n) : k.grid = g}
           goodShown == {k \in ShownMarks(n) : k.type = "Attached"}
           goodText == {k \in TextMarks(n) : Ends(Leaves(k), m.bytes)}
           seenGrid == seen.grid = g
           seenShown == seen.shown
           seenText == Ends(seen.text, m.bytes)
<1>1. m \notin GridMarks(n) /\ m \notin ShownMarks(n) /\ m \in TextMarks(n)
  BY DEF GridMarks, ShownMarks, TextMarks
<1>2. m \in goodText
  <2>1. Leaves(m) = <<m.bytes>>
    BY <1>1, LeavesText
  <2>2. Ends(<<m.bytes>>, m.bytes)
    BY DEF Ends
  <2> QED BY <1>1, <2>1, <2>2
<1>3. /\ EndsIn(q, GridMarks(n), goodGrid, seenGrid)
      /\ EndsIn(q, ShownMarks(n), goodShown, seenShown)
      /\ seenGrid \in BOOLEAN /\ seenShown \in BOOLEAN /\ seenText \in BOOLEAN
  BY DEF Abreast, View, Ends
<1>4. /\ EndsIn(Append(q, m), GridMarks(n), goodGrid, seenGrid)
      /\ EndsIn(Append(q, m), ShownMarks(n), goodShown, seenShown)
      /\ EndsIn(Append(q, m), TextMarks(n), goodText, seenText)
  <2> HIDE DEF goodGrid, goodShown, goodText, seenGrid, seenShown, seenText
  <2> QED BY <1>1, <1>2, <1>3, EndsInAppend
<1> QED BY <1>4 DEF Abreast

\* The client attaches, or attaches again ...
LEMMA AttachedAbreast ==
    ASSUME NEW q \in Seq(ServerMessage), NEW seen \in View, NEW n, NEW last,
           NEW m \in ServerMessage, m.type = "Attached", m.session = n
    PROVE  Abreast(Append(q, m), seen, n, m.grid, last)
<1> DEFINE goodGrid == {k \in GridMarks(n) : k.grid = m.grid}
           goodShown == {k \in ShownMarks(n) : k.type = "Attached"}
           goodText == {k \in TextMarks(n) : Ends(Leaves(k), last)}
           seenGrid == seen.grid = m.grid
           seenShown == seen.shown
           seenText == Ends(seen.text, last)
<1>1. m \in goodGrid /\ m \in goodShown /\ m \in TextMarks(n)
  BY DEF GridMarks, ShownMarks, TextMarks
<1>2. m \in goodText
  BY <1>1, LeavesText DEF Ends
<1>3. seenGrid \in BOOLEAN /\ seenShown \in BOOLEAN /\ seenText \in BOOLEAN
  BY DEF View, Ends
<1>4. /\ EndsIn(Append(q, m), GridMarks(n), goodGrid, seenGrid)
      /\ EndsIn(Append(q, m), ShownMarks(n), goodShown, seenShown)
      /\ EndsIn(Append(q, m), TextMarks(n), goodText, seenText)
  <2> HIDE DEF goodGrid, goodShown, goodText, seenGrid, seenShown, seenText
  <2> QED BY <1>1, <1>2, <1>3, EndsInAppend
<1> QED BY <1>4 DEF Abreast

\* ... and is sent the history.
LEMMA ScrollbackAbreast ==
    ASSUME NEW q \in Seq(ServerMessage), NEW seen \in View, NEW n, NEW g, NEW last,
           Abreast(q, seen, n, g, last),
           NEW m \in ServerMessage, m.type = "Scrollback", m.session = n, Ends(m.bytes, last)
    PROVE  Abreast(Append(q, m), seen, n, g, last)
<1> DEFINE goodGrid == {k \in GridMarks(n) : k.grid = g}
           goodShown == {k \in ShownMarks(n) : k.type = "Attached"}
           goodText == {k \in TextMarks(n) : Ends(Leaves(k), last)}
           seenGrid == seen.grid = g
           seenShown == seen.shown
           seenText == Ends(seen.text, last)
<1>1. m \notin GridMarks(n) /\ m \notin ShownMarks(n) /\ m \in TextMarks(n)
  BY DEF GridMarks, ShownMarks, TextMarks
<1>2. m \in goodText
  BY <1>1, LeavesText
<1>3. /\ EndsIn(q, GridMarks(n), goodGrid, seenGrid)
      /\ EndsIn(q, ShownMarks(n), goodShown, seenShown)
      /\ seenGrid \in BOOLEAN /\ seenShown \in BOOLEAN /\ seenText \in BOOLEAN
  BY DEF Abreast, View, Ends
<1>4. /\ EndsIn(Append(q, m), GridMarks(n), goodGrid, seenGrid)
      /\ EndsIn(Append(q, m), ShownMarks(n), goodShown, seenShown)
      /\ EndsIn(Append(q, m), TextMarks(n), goodText, seenText)
  <2> HIDE DEF goodGrid, goodShown, goodText, seenGrid, seenShown, seenText
  <2> QED BY <1>1, <1>2, <1>3, EndsInAppend
<1> QED BY <1>4 DEF Abreast

-----------------------------------------------------------------------------
(* ... and to its text *)

\* No part of a text is queued, or a message that starts it anew.
LEMMA StaysJoined ==
    ASSUME NEW q \in Seq(ServerMessage), NEW text \in Seq(Chunk), NEW n, Joined(q, text, n),
           NEW m \in ServerMessage, m.type \notin {"Scrollback", "Output"} \/ m.session # n
    PROVE  Joined(Append(q, m), text, n)
<1>1. m \notin TextMarks(n) \/ m.type = "Attached"
  BY DEF TextMarks
<1> QED BY <1>1, JoinedAppend

\* Output continues the text of who is abreast.
LEMMA OutputJoins ==
    ASSUME NEW q \in Seq(ServerMessage), NEW seen \in View, NEW n, NEW g, NEW last,
           Abreast(q, seen, n, g, last), Joined(q, seen.text, n),
           NEW m \in ServerMessage, m.type = "Output", m.bytes = Following(last)
    PROVE  Joined(Append(q, m), seen.text, n)
<1> DEFINE text == seen.text
           good == {k \in TextMarks(n) : Ends(Leaves(k), last)}
           up == Ends(text, last)
<1>1. text \in Seq(Chunk) /\ up \in BOOLEAN /\ good \in SUBSET TextMarks(n)
  BY DEF View, Ends
<1>2. EndsIn(q, TextMarks(n), good, up)
  BY DEF Abreast
<1>3. ASSUME NEW t \in Seq(Chunk), Ends(t, last)
      PROVE  Joins(t, m)
  BY <1>3 DEF Ends, Joins
<1>4. \A k \in good : Leaves(k) \in Seq(Chunk) /\ Joins(Leaves(k), m)
  BY <1>3, LeavesText
<1>5. up => Joins(text, m)
  BY <1>1, <1>3
<1>6. Joined(q, text, n)
  OBVIOUS
<1> HIDE DEF good, up, text
<1>7. Joined(Append(q, m), text, n)
  BY <1>1, <1>2, <1>4, <1>5, <1>6, JoinedAppend
<1> QED BY <1>7 DEF text

\* A history follows the message it comes with.
LEMMA ScrollbackJoins ==
    ASSUME NEW q \in Seq(ServerMessage), NEW text \in Seq(Chunk), NEW x, Joined(q, text, x),
           NEW n, NEW m \in ServerMessage, m.type = "Attached", m.session = n,
           NEW k \in ServerMessage, k.type = "Scrollback", k.session = n, Unbroken(k.bytes)
    PROVE  Joined(Append(Append(q, m), k), text, x)
<1> DEFINE s == Append(q, m)
           good == {m}
<1>1. s \in Seq(ServerMessage)
  OBVIOUS
<1>2. Joined(s, text, x)
  BY StaysJoined
<1>3. CASE x # n
  <2> HIDE DEF s
  <2>1. Joined(Append(s, k), text, x)
    BY <1>1, <1>2, <1>3, StaysJoined
  <2> QED BY <2>1 DEF s
<1>4. CASE x = n
  <2>1. m \in TextMarks(x)
    BY <1>4 DEF TextMarks
  <2>2. EndsIn(s, TextMarks(x), good, FALSE)
    <3> DEFINE M == TextMarks(x)
    <3> HIDE DEF M
    <3>1. m \in good
      OBVIOUS
    <3> HIDE DEF good
    <3>2. EndsIn(s, M, good, FALSE)
      BY <3>1, EndsInAppend
    <3> QED BY <3>2 DEF M
  <2>3. \A j \in good : Leaves(j) \in Seq(Chunk) /\ Joins(Leaves(j), k)
    BY <2>1, LeavesText DEF Joins
  <2>4. good \in SUBSET TextMarks(x)
    BY <2>1
  <2> HIDE DEF good, s
  <2>5. Joined(Append(s, k), text, x)
    BY <1>1, <1>2, <2>2, <2>3, <2>4, JoinedAppend
  <2> QED BY <2>5 DEF s
<1> QED BY <1>3, <1>4

-----------------------------------------------------------------------------
(* What taking one message does *)

\* What a client knows of n after the message m.
After(seen, m, n) == IF m # Answer /\ m.session = n THEN Seen(seen, m) ELSE seen

LEMMA UnbrokenAppend ==
    ASSUME NEW text \in Seq(Chunk), Unbroken(text), NEW chunk \in Chunk,
           text = <<>> \/ chunk = Following(text[Len(text)])
    PROVE  Unbroken(Append(text, chunk))
<1> DEFINE t == Append(text, chunk)
           n == Len(text)
<1>1. n \in Nat /\ Len(t) = n + 1 /\ t[n + 1] = chunk /\ \A i \in 1 .. n : t[i] = text[i]
  OBVIOUS
<1>2. n = 0 \/ chunk = Following(text[n])
  OBVIOUS
<1>3. \A i \in 1 .. n - 1 : text[i + 1] = Following(text[i])
  BY DEF Unbroken
<1> HIDE DEF t, n
<1>4. ASSUME NEW i \in 1 .. n PROVE t[i + 1] = Following(t[i])
  <2>1. i = n \/ (i \in 1 .. n - 1 /\ i + 1 \in 1 .. n)
    BY <1>1
  <2> QED BY <1>1, <1>2, <1>3, <2>1
<1>5. Len(t) - 1 = n
  BY <1>1
<1>6. Unbroken(t)
  BY <1>4, <1>5 DEF Unbroken
<1> QED BY <1>6 DEF t

LEMMA TextAfter ==
    ASSUME NEW q \in Seq(ServerMessage), q # <<>>, NEW seen \in View, NEW n \in Name,
           Unbroken(seen.text), Joined(q, seen.text, n),
           NEW m, m = Head(q)
    PROVE  /\ m \in ServerMessage
           /\ After(seen, m, n) \in View
           /\ m \notin TextMarks(n) => After(seen, m, n).text = seen.text
           /\ m \in TextMarks(n) /\ m.type \in {"Attached", "Scrollback"} =>
                After(seen, m, n).text = Leaves(m)
           /\ m \in TextMarks(n) /\ m.type = "Output" =>
                /\ After(seen, m, n).text = Append(seen.text, m.bytes)
                /\ m.bytes \in Chunk
                /\ Joins(seen.text, m)
           /\ Unbroken(After(seen, m, n).text)
<1> DEFINE later == After(seen, m, n)
<1>1. m \in ServerMessage /\ seen.text \in Seq(Chunk)
  BY DEF View
<1>2. later \in View
  BY <1>1, SeenType DEF After, View
<1>3. ASSUME m \notin TextMarks(n) PROVE later.text = seen.text
  <2>1. CASE m # Answer /\ m.session = n
    <3>1. m.type \in {"Resized", "Exit"}
      BY <1>1, <1>3, <2>1, MessageParts DEF TextMarks
    <3> QED BY <1>1, <2>1, <3>1, SeenAs DEF After, View
  <2>2. CASE ~(m # Answer /\ m.session = n)
    BY <2>2 DEF After
  <2> QED BY <2>1, <2>2
<1>4. ASSUME m \in TextMarks(n) PROVE m # Answer /\ later = Seen(seen, m)
  BY <1>4, MessageParts DEF TextMarks, After
<1>b. ASSUME m # Answer
      PROVE  /\ m.type = "Attached" => Seen(seen, m).text = <<>>
             /\ m.type = "Scrollback" => Seen(seen, m).text = seen.text \o m.bytes
             /\ m.type = "Output" => Seen(seen, m).text = Append(seen.text, m.bytes)
  <2>1. seen \in [shown : BOOLEAN, grid : Grid, text : Seq(Chunk)]
    BY DEF View
  <2>2. Seen(seen, m).text = IF m.type = "Attached" THEN <<>>
                             ELSE IF m.type = "Scrollback" THEN seen.text \o m.bytes
                             ELSE IF m.type = "Output" THEN Append(seen.text, m.bytes)
                             ELSE seen.text
    BY <1>1, <1>b, <2>1, SeenAs
  <2> QED BY <2>2
<1>5. ASSUME m \in TextMarks(n), m.type = "Attached"
      PROVE  later.text = Leaves(m) /\ Unbroken(later.text)
  <2>1. later.text = <<>>
    BY <1>4, <1>5, <1>b
  <2> QED BY <1>5, <2>1, LeavesText DEF Unbroken
<1>6. ASSUME m \in TextMarks(n), m.type = "Scrollback"
      PROVE  later.text = Leaves(m) /\ Unbroken(later.text)
  <2>1. later.text = seen.text \o m.bytes
    BY <1>4, <1>6, <1>b
  <2>2. Joins(seen.text, m)
    BY <1>6, HeadJoins
  <2>3. seen.text = <<>> /\ Unbroken(m.bytes) /\ m.bytes \in Seq(Chunk)
    BY <1>1, <1>6, <2>2, MessageParts DEF Joins
  <2>4. later.text = m.bytes
    BY <2>1, <2>3
  <2> QED BY <1>6, <2>3, <2>4, LeavesText
<1>7. ASSUME m \in TextMarks(n), m.type = "Output"
      PROVE  /\ later.text = Append(seen.text, m.bytes) /\ m.bytes \in Chunk
             /\ Joins(seen.text, m) /\ Unbroken(later.text)
  <2>1. later.text = Append(seen.text, m.bytes)
    BY <1>4, <1>7, <1>b
  <2>2. Joins(seen.text, m)
    BY <1>7, HeadJoins
  <2>3. seen.text = <<>> \/ m.bytes = Following(seen.text[Len(seen.text)])
    BY <1>7, <2>2 DEF Joins
  <2>4. m.bytes \in Chunk
    BY <1>1, <1>7, MessageParts
  <2> QED BY <1>1, <2>1, <2>2, <2>3, <2>4, UnbrokenAppend
<1>8. m \in TextMarks(n) => m.type \in {"Attached", "Scrollback", "Output"}
  BY DEF TextMarks
<1> HIDE DEF later
<1>9. Unbroken(later.text)
  BY <1>3, <1>5, <1>6, <1>7, <1>8
<1> QED BY <1>1, <1>2, <1>3, <1>5, <1>6, <1>7, <1>9 DEF later

LEMMA TakenJoined ==
    ASSUME NEW q \in Seq(ServerMessage), q # <<>>, NEW seen \in View, NEW n \in Name,
           Unbroken(seen.text), Joined(q, seen.text, n)
    PROVE  Joined(Tail(q), After(seen, Head(q), n).text, n)
<1> DEFINE m == Head(q)
           later == After(seen, m, n).text
           text == seen.text
<1>1. /\ m \in ServerMessage /\ later \in Seq(Chunk) /\ text \in Seq(Chunk)
      /\ m \notin TextMarks(n) => later = text
  BY TextAfter DEF View
<1>2. ASSUME m \in TextMarks(n), NEW k \in ServerMessage, Joins(Leaves(m), k)
      PROVE  Joins(later, k)
  <2>1. CASE m.type \in {"Attached", "Scrollback"}
    <3>1. later = Leaves(m)
      BY <1>2, <2>1, TextAfter
    <3> QED BY <1>2, <3>1
  <2>2. CASE m.type = "Output"
    <3>1. later = Append(text, m.bytes) /\ Leaves(m) = <<m.bytes>>
      BY <1>2, <2>2, TextAfter, LeavesText
    <3>2. <<m.bytes>> # <<>> /\ <<m.bytes>>[Len(<<m.bytes>>)] = m.bytes
      OBVIOUS
    <3>3. k.type = "Output" /\ k.bytes = Following(m.bytes)
      BY <1>2, <3>1, <3>2 DEF Joins
    <3>4. later[Len(later)] = m.bytes
      BY <1>1, <3>1
    <3> QED BY <3>3, <3>4 DEF Joins
  <2> QED BY <1>2, <2>1, <2>2 DEF TextMarks
<1>3. Joined(q, text, n)
  OBVIOUS
<1> HIDE DEF later, text
<1>4. Joined(Tail(q), later, n)
  BY <1>1, <1>2, <1>3, JoinedTail
<1> QED BY <1>4 DEF later

LEMMA TakenAbreast ==
    ASSUME NEW q \in Seq(ServerMessage), q # <<>>, NEW seen \in View, NEW n \in Name,
           Unbroken(seen.text), Joined(q, seen.text, n), NEW g, NEW last,
           Abreast(q, seen, n, g, last)
    PROVE  Abreast(Tail(q), After(seen, Head(q), n), n, g, last)
<1> DEFINE m == Head(q)
           later == After(seen, m, n)
           goodGrid == {k \in GridMarks(n) : k.grid = g}
           goodShown == {k \in ShownMarks(n) : k.type = "Attached"}
           goodText == {k \in TextMarks(n) : Ends(Leaves(k), last)}
           seenGrid == seen.grid = g
           seenShown == seen.shown
           seenText == Ends(seen.text, last)
           laterGrid == later.grid = g
           laterShown == later.shown
           laterText == Ends(later.text, last)
<1>1. /\ m \in ServerMessage /\ later \in View /\ seen.text \in Seq(Chunk)
      /\ seenGrid \in BOOLEAN /\ seenShown \in BOOLEAN /\ seenText \in BOOLEAN
      /\ laterGrid \in BOOLEAN /\ laterShown \in BOOLEAN /\ laterText \in BOOLEAN
      /\ goodGrid \subseteq GridMarks(n) /\ goodShown \subseteq ShownMarks(n)
      /\ goodText \subseteq TextMarks(n)
  BY TextAfter DEF View, Ends
<1>2. ASSUME m # Answer, m.session = n
      PROVE  /\ later.grid = IF m.type \in {"Attached", "Resized"} THEN m.grid ELSE seen.grid
             /\ later.shown = IF m.type = "Attached" THEN TRUE
                              ELSE IF m.type = "Exit" THEN FALSE ELSE seen.shown
  BY <1>1, <1>2, SeenAs DEF After, View
<1>3. ASSUME m = Answer \/ m.session # n
      PROVE  later = seen
  BY <1>3 DEF After
<1>4. /\ m \in GridMarks(n) <=> m # Answer /\ m.session = n /\ m.type \in {"Attached", "Resized"}
      /\ m \in ShownMarks(n) <=> m # Answer /\ m.session = n /\ m.type \in {"Attached", "Exit"}
  BY <1>1, MessageParts DEF GridMarks, ShownMarks
<1>5. (m \in goodGrid => laterGrid) /\ (m \notin GridMarks(n) /\ seenGrid => laterGrid)
  BY <1>2, <1>3, <1>4
<1>6. (m \in goodShown => laterShown) /\ (m \notin ShownMarks(n) /\ seenShown => laterShown)
  BY <1>2, <1>3, <1>4
<1>7. m \notin TextMarks(n) /\ seenText => laterText
  BY TextAfter
<1>8. ASSUME m \in goodText PROVE laterText
  <2>1. CASE m.type \in {"Attached", "Scrollback"}
    <3>1. later.text = Leaves(m)
      BY <1>8, <2>1, TextAfter
    <3> QED BY <1>8, <3>1
  <2>2. CASE m.type = "Output"
    <3>1. later.text = Append(seen.text, m.bytes) /\ Leaves(m) = <<m.bytes>> /\ m.bytes \in Chunk
      BY <1>8, <2>2, TextAfter, LeavesText
    <3>2. Ends(<<m.bytes>>, last)
      BY <1>8, <3>1
    <3>3. m.bytes = last
      BY <3>2 DEF Ends
    <3> QED BY <1>1, <3>1, <3>3 DEF Ends
  <2> QED BY <1>8, <2>1, <2>2 DEF TextMarks
<1>9. /\ EndsIn(q, GridMarks(n), goodGrid, seenGrid)
      /\ EndsIn(q, ShownMarks(n), goodShown, seenShown)
      /\ EndsIn(q, TextMarks(n), goodText, seenText)
  BY DEF Abreast
<1>10. /\ EndsIn(Tail(q), GridMarks(n), goodGrid, laterGrid)
       /\ EndsIn(Tail(q), ShownMarks(n), goodShown, laterShown)
       /\ EndsIn(Tail(q), TextMarks(n), goodText, laterText)
  <2> HIDE DEF goodGrid, goodShown, goodText, seenGrid, seenShown, seenText, laterGrid,
               laterShown, laterText
  <2>1. EndsIn(Tail(q), GridMarks(n), goodGrid, laterGrid)
    BY <1>1, <1>5, <1>9, EndsInTail
  <2>2. EndsIn(Tail(q), ShownMarks(n), goodShown, laterShown)
    BY <1>1, <1>6, <1>9, EndsInTail
  <2>3. EndsIn(Tail(q), TextMarks(n), goodText, laterText)
    BY <1>1, <1>7, <1>8, <1>9, EndsInTail
  <2> QED BY <2>1, <2>2, <2>3
<1> QED BY <1>10 DEF Abreast

-----------------------------------------------------------------------------
(* The history *)

LEMMA RetainedIsWhole ==
    ASSUME NEW text \in Seq(Chunk), Unbroken(text), text # <<>>
    PROVE  Unbroken(Retained(text)) /\ Ends(Retained(text), text[Len(text)])
<1> DEFINE n == Len(text)
           h == n - HistoryCap
<1>1. n \in Nat \ {0} /\ HistoryCap \in Nat \ {0}
  BY BoundAssumption
<1>2. CASE ~(n > HistoryCap)
  <2>1. Retained(text) = text
    BY <1>2 DEF Retained
  <2> QED BY <2>1 DEF Ends
<1>3. CASE n > HistoryCap
  <2> DEFINE t == Retained(text)
  <2>1. h \in Nat /\ h + HistoryCap = n
    BY <1>1, <1>3
  <2>2. t = SubSeq(text, h + 1, n)
    BY <1>3 DEF Retained
  <2>3. Len(t) = HistoryCap /\ \A i \in 1 .. HistoryCap : t[i] = text[i + h]
    <3> HIDE DEF h, t
    <3>1. h + 1 \in 1 .. n + 1 /\ n - (h + 1) + 1 = HistoryCap
      BY <1>1, <2>1
    <3> QED BY <1>1, <2>1, <2>2, <3>1
  <2>4. \A i \in 1 .. n - 1 : text[i + 1] = Following(text[i])
    BY DEF Unbroken
  <2> HIDE DEF t, n, h
  <2>5. ASSUME NEW i \in 1 .. HistoryCap - 1 PROVE t[i + 1] = Following(t[i])
    <3>1. /\ i \in 1 .. HistoryCap /\ i + 1 \in 1 .. HistoryCap /\ i + h \in 1 .. n - 1
          /\ (i + 1) + h = (i + h) + 1
      BY <1>1, <2>1
    <3> QED BY <2>3, <2>4, <3>1
  <2>6. t[HistoryCap] = text[n]
    <3>1. HistoryCap \in 1 .. HistoryCap /\ HistoryCap + h = n
      BY <1>1, <2>1
    <3> QED BY <2>3, <3>1
  <2>7. Unbroken(t) /\ Ends(t, text[n])
    BY <2>3, <2>5, <2>6 DEF Unbroken, Ends
  <2> QED BY <2>7 DEF t, n
<1> QED BY <1>2, <1>3

-----------------------------------------------------------------------------
(* What the steps of the server do to the streams *)

LEMMA QueueAndView ==
    ASSUME IInv, NEW c \in Client
    PROVE  /\ outbox[c] \in Seq(ServerMessage)
           /\ \A n \in Name : view[c][n] \in View /\ view[c][n].text \in Seq(Chunk)
           /\ \A id \in attachments[c] : id \in SessionId /\ id.name \in Name /\ IsCurrent(id)
           /\ attachments[c] # {} => c \in clients
BY IdType DEF IInv, TypeOK, QueueType, ClientType, ThreadType, AttachmentsAreLive, View

LEMMA CurrentIsOne ==
    ASSUME NEW id \in SessionId, NEW i \in SessionId, IsCurrent(id), IsCurrent(i), i # id
    PROVE  i.name # id.name
BY IdType DEF IsCurrent

LEMMA CurrentIsLive ==
    ASSUME NEW id \in SessionId, IsCurrent(id)
    PROVE  Live(id.name) /\ id = Current(id.name)
BY IdType DEF IsCurrent, Live, Current

\* Nothing is queued, written or taken, and who listens was listening.
LEMMA QuietKeepsStreams ==
    ASSUME IInv, Streams, UNCHANGED <<outbox, view>>,
           \A c \in Client : \A id \in attachments'[c] :
               /\ id \in attachments[c] /\ geometry'[id.name] = geometry[id.name]
               /\ produced'[id] = produced[id]
               /\ Listening(c)' => Listening(c),
           ClientsAreCounted', HistoriesAreWhole'
    PROVE  Streams'
<1>1. ListenersKeepUp'
  <2> SUFFICES ASSUME NEW c \in Client, Listening(c)', NEW id \in attachments'[c]
               PROVE  KeepsUp(c, id)'
    BY DEF ListenersKeepUp
  <2>1. /\ id \in attachments[c] /\ Listening(c)
        /\ geometry'[id.name] = geometry[id.name] /\ produced'[id] = produced[id]
    OBVIOUS
  <2>2. KeepsUp(c, id)
    BY <2>1 DEF Streams, ListenersKeepUp
  <2> QED BY <2>1, <2>2 DEF KeepsUp, LastOutput
<1>2. TextsAreJoined'
  BY DEF Streams, TextsAreJoined
<1> QED BY <1>1, <1>2 DEF Streams

\* Client c is answered.
LEMMA AnswerKeepsStreams ==
    ASSUME IInv, Streams, NEW c \in Client,
           UNCHANGED <<clients, attachments, nextClientId, writer, view, managerVars>>,
           outbox' = Queued(ToClient(c, <<Answer>>)),
           Refusing(ToClient(c, <<Answer>>)) \subseteq doomed', doomed \subseteq doomed'
    PROVE  Streams'
<1> DEFINE msgs == ToClient(c, <<Answer>>)
<1>1. ASSUME NEW d \in Client
      PROVE  outbox'[d] = outbox[d] \/ outbox'[d] = Append(outbox[d], Answer)
  <2>1. CASE d = c /\ d \in clients
    <3>1. msgs[d] = <<Answer>>
      BY <2>1 DEF ToClient
    <3> HIDE DEF msgs
    <3> QED BY <2>1, <3>1, OneQueued, MessageTypes DEF Receives, msgs
  <2>2. CASE ~(d = c /\ d \in clients)
    <3>1. msgs[d] = <<>>
      BY <2>2 DEF ToClient
    <3> HIDE DEF msgs
    <3> QED BY <3>1, NothingQueued DEF msgs
  <2> QED BY <2>1, <2>2
<1>2. \A d \in Client : Listening(d)' => Listening(d)
  BY DEF Listening
<1>3. ListenersKeepUp'
  <2> SUFFICES ASSUME NEW d \in Client, Listening(d)', NEW id \in attachments[d]
               PROVE  KeepsUp(d, id)'
    BY DEF ListenersKeepUp
  <2> DEFINE n == id.name
  <2>1. Abreast(outbox[d], view[d][n], n, GridOf(geometry[n]), LastOutput(id))
    BY <1>2 DEF Streams, ListenersKeepUp, KeepsUp
  <2>2. Abreast(outbox'[d], view[d][n], n, GridOf(geometry[n]), LastOutput(id))
    <3>1. outbox[d] \in Seq(ServerMessage) /\ view[d][n] \in View /\ Answer \in ServerMessage
      BY QueueAndView, MessageTypes
    <3>2. CASE outbox'[d] = outbox[d]
      BY <2>1, <3>2
    <3>3. CASE outbox'[d] = Append(outbox[d], Answer)
      BY <2>1, <3>1, <3>3, StaysAbreast
    <3> QED BY <1>1, <3>2, <3>3
  <2> QED BY <2>2 DEF KeepsUp, LastOutput, managerVars
<1>4. TextsAreJoined'
  <2> SUFFICES ASSUME NEW d \in Client, NEW n \in Name
               PROVE  Unbroken(view[d][n].text) /\ Joined(outbox'[d], view[d][n].text, n)
    BY DEF TextsAreJoined
  <2>1. Unbroken(view[d][n].text) /\ Joined(outbox[d], view[d][n].text, n)
    BY DEF Streams, TextsAreJoined
  <2>2. Answer.type \notin {"Scrollback", "Output"}
    BY DEF Answer
  <2> QED BY <1>1, <2>1, <2>2, QueueAndView, MessageTypes, StaysJoined
<1>5. HistoriesAreWhole'
  BY DEF Streams, HistoriesAreWhole, managerVars, Live, Current, LastOutput
<1>6. ClientsAreCounted'
  BY DEF Streams, ClientsAreCounted
<1> QED BY <1>3, <1>4, <1>5, <1>6 DEF Streams

\* Whoever is attached to id is told m of it.
LEMMA BroadcastKeepsStreams ==
    ASSUME IInv, Streams, NEW id \in SessionId, IsCurrent(id),
           NEW m \in ServerMessage, m # Answer, m.session = id.name,
           Enqueue(ToAttached(id, m)), UNCHANGED <<clients, nextClientId, writer, view>>,
           \A c \in Client : attachments'[c] \subseteq attachments[c],
           \A i \in SessionId : i.name # id.name =>
               geometry'[i.name] = geometry[i.name] /\ produced'[i] = produced[i],
           \A c \in Client : Listening(c) /\ id \in attachments[c] =>
               /\ Joined(Append(outbox[c], m), view[c][id.name].text, id.name)
               /\ id \in attachments'[c] =>
                    Abreast(Append(outbox[c], m), view[c][id.name], id.name,
                            GridOf(geometry'[id.name]), LastOutput(id)'),
           HistoriesAreWhole'
    PROVE  Streams'
<1>1. ASSUME NEW c \in Client
      PROVE  /\ id \in attachments[c] => Receives(c, m)
             /\ id \notin attachments[c] => outbox'[c] = outbox[c]
             /\ Listening(c)' => Listening(c)
  BY Broadcast
<1>2. ListenersKeepUp'
  <2> SUFFICES ASSUME NEW c \in Client, Listening(c)', NEW i \in attachments'[c]
               PROVE  KeepsUp(c, i)'
    BY DEF ListenersKeepUp
  <2>1. i \in attachments[c] /\ Listening(c)
    BY <1>1
  <2>2. KeepsUp(c, i) /\ i \in SessionId /\ IsCurrent(i)
    BY <2>1, QueueAndView DEF Streams, ListenersKeepUp
  <2>3. id \in attachments[c] => outbox'[c] = Append(outbox[c], m)
    BY <1>1 DEF Receives
  <2>4. CASE i = id
    <3>1. Abreast(outbox'[c], view[c][id.name], id.name, GridOf(geometry'[id.name]), LastOutput(id)')
      BY <2>1, <2>3, <2>4
    <3> QED BY <2>4, <3>1 DEF KeepsUp
  <2>5. CASE i # id
    <3> DEFINE n == i.name
    <3>1. n # id.name
      BY <2>2, <2>5, CurrentIsOne
    <3>2. Abreast(outbox[c], view[c][n], n, GridOf(geometry[n]), LastOutput(i)) /\ n \in Name
      BY <2>2, IdType DEF KeepsUp
    <3>3. Abreast(outbox'[c], view[c][n], n, GridOf(geometry[n]), LastOutput(i))
      <4>1. CASE id \in attachments[c]
        BY <2>3, <3>1, <3>2, <4>1, QueueAndView, StaysAbreast
      <4>2. CASE id \notin attachments[c]
        BY <1>1, <3>2, <4>2
      <4> QED BY <4>1, <4>2
    <3>4. geometry'[n] = geometry[n] /\ produced'[i] = produced[i]
      BY <2>2, <3>1
    <3> QED BY <3>3, <3>4 DEF KeepsUp, LastOutput
  <2> QED BY <2>4, <2>5
<1>3. TextsAreJoined'
  <2> SUFFICES ASSUME NEW c \in Client, NEW n \in Name
               PROVE  Unbroken(view[c][n].text) /\ Joined(outbox'[c], view[c][n].text, n)
    BY DEF TextsAreJoined
  <2>1. Unbroken(view[c][n].text) /\ Joined(outbox[c], view[c][n].text, n)
    BY DEF Streams, TextsAreJoined
  <2>2. CASE outbox'[c] = outbox[c]
    BY <2>1, <2>2
  <2>3. CASE outbox'[c] # outbox[c]
    <3>1. id \in attachments[c] /\ outbox'[c] = Append(outbox[c], m) /\ Listening(c)
      BY <1>1, <2>3 DEF Receives
    <3>2. CASE n = id.name
      BY <2>1, <3>1, <3>2
    <3>3. CASE n # id.name
      BY <2>1, <3>1, <3>3, QueueAndView, StaysJoined
    <3> QED BY <3>2, <3>3
  <2> QED BY <2>2, <2>3
<1>4. ClientsAreCounted'
  BY DEF Streams, ClientsAreCounted
<1> QED BY <1>2, <1>3, <1>4 DEF Streams

\* Client c, when it still has a record, is attached to id, and is sent its
\* grid and, where it asks for it, the history in bytes.
LEMMA AttachingKeepsStreams ==
    ASSUME IInv, AttachmentsAreLive', Streams, NEW c \in Client,
           NEW id \in SessionId, IsCurrent(id)', AttachClient(c, id),
           NEW g \in Geometry, geometry'[id.name] = g, NEW bytes \in Seq(Chunk), Unbroken(bytes),
           Ends(bytes, LastOutput(id)), NEW replay \in BOOLEAN,
           Enqueue(ToClient(c, AttachReplies(id.name, g, bytes, replay))),
           UNCHANGED <<clients, nextClientId, writer, view, produced>>,
           \A i \in SessionId : IsCurrent(i) => geometry'[i.name] = geometry[i.name],
           HistoriesAreWhole'
    PROVE  Streams'
<1> DEFINE n == id.name
           m == [type |-> "Attached", session |-> n, grid |-> GridOf(g)]
           k == [type |-> "Scrollback", session |-> n, bytes |-> bytes]
           replies == AttachReplies(n, g, bytes, replay)
           msgs == ToClient(c, replies)
<1>1. m \in ServerMessage /\ k \in ServerMessage /\ n \in Name
  BY IdType, MessageTypes
<1>2. replies = <<m>> \/ replies = <<m, k>>
  BY DEF AttachReplies
<1>3. /\ m.type = "Attached" /\ m.session = n /\ m.grid = GridOf(g) /\ m # Answer
      /\ k.type = "Scrollback" /\ k.session = n /\ k.bytes = bytes
  BY DEF Answer
<1>4. outbox' = Queued(msgs) /\ Refusing(msgs) \subseteq doomed' /\ doomed \subseteq doomed'
  BY DEF Enqueue
<1> HIDE DEF m, k, replies
<1>5. ASSUME NEW d \in Client, ~(d = c /\ d \in clients) PROVE outbox'[d] = outbox[d]
  <2>1. msgs[d] = <<>>
    BY <1>5 DEF ToClient
  <2> HIDE DEF msgs
  <2> QED BY <1>4, <2>1, NothingQueued
<1>6. ASSUME c \in clients
      PROVE  \/ outbox'[c] = outbox[c] /\ ~Listening(c)'
             \/ outbox'[c] = Append(outbox[c], m)
             \/ outbox'[c] = Append(Append(outbox[c], m), k)
  <2>1. msgs[c] = replies
    BY <1>6 DEF ToClient
  <2> HIDE DEF msgs
  <2>2. CASE replies = <<m>>
    BY <1>1, <1>4, <1>6, <2>1, <2>2, OneQueued DEF Receives
  <2>3. CASE replies = <<m, k>>
    BY <1>1, <1>4, <1>6, <2>1, <2>3, TwoQueued
  <2> QED BY <1>2, <2>2, <2>3
<1>7. \A d \in Client : Listening(d)' => Listening(d)
  BY <1>4 DEF Listening
<1>8. ASSUME NEW d \in Client, NEW i \in attachments'[d]
      PROVE  (i = id /\ d = c /\ c \in clients) \/ i \in attachments[d]
  BY <1>8, QueueAndView DEF AttachClient, IInv, TypeOK, ClientType
<1>9. ListenersKeepUp'
  <2> SUFFICES ASSUME NEW d \in Client, Listening(d)', NEW i \in attachments'[d]
               PROVE  KeepsUp(d, i)'
    BY DEF ListenersKeepUp
  <2> DEFINE x == i.name
  <2>1. CASE d = c /\ i = id /\ c \in clients
    <3>1. outbox[c] \in Seq(ServerMessage) /\ view[c][n] \in View
      BY <1>1, QueueAndView
    <3>2. Abreast(Append(outbox[c], m), view[c][n], n, GridOf(g), LastOutput(id))
      BY <1>1, <1>3, <3>1, AttachedAbreast
    <3>3. Append(outbox[c], m) \in Seq(ServerMessage)
      BY <1>1, <3>1
    <3>4. Abreast(Append(Append(outbox[c], m), k), view[c][n], n, GridOf(g), LastOutput(id))
      BY <1>1, <1>3, <3>1, <3>2, <3>3, ScrollbackAbreast
    <3>5. Abreast(outbox'[c], view[c][n], n, GridOf(g), LastOutput(id))
      BY <1>6, <2>1, <3>2, <3>4
    <3> QED BY <2>1, <3>5 DEF KeepsUp, LastOutput
  <2>2. CASE i \in attachments[d] /\ ~(d = c /\ i = id)
    <3>1. i \in SessionId /\ IsCurrent(i) /\ x \in Name /\ IsCurrent(i)' /\ d \in clients
      BY <2>2, QueueAndView DEF AttachmentsAreLive
    <3>2. Abreast(outbox[d], view[d][x], x, GridOf(geometry[x]), LastOutput(i))
      BY <1>7, <2>2 DEF Streams, ListenersKeepUp, KeepsUp
    <3>3. Abreast(outbox'[d], view[d][x], x, GridOf(geometry[x]), LastOutput(i))
      <4>1. CASE d # c
        BY <1>5, <3>2, <4>1
      <4>2. CASE d = c
        <5>1. i # id /\ x # n
          BY <2>2, <3>1, <4>2, IdType DEF IsCurrent
        <5>2. outbox[c] \in Seq(ServerMessage) /\ view[c][x] \in View
          BY <3>1, QueueAndView
        <5>3. Abreast(Append(outbox[c], m), view[c][x], x, GridOf(geometry[x]), LastOutput(i))
          BY <1>1, <1>3, <3>2, <4>2, <5>1, <5>2, StaysAbreast
        <5>4. Append(outbox[c], m) \in Seq(ServerMessage)
          BY <1>1, <5>2
        <5>5. Abreast(Append(Append(outbox[c], m), k), view[c][x], x, GridOf(geometry[x]),
                      LastOutput(i))
          BY <1>1, <1>3, <5>1, <5>2, <5>3, <5>4, StaysAbreast
        <5> QED BY <1>6, <3>1, <3>2, <4>2, <5>3, <5>5
      <4> QED BY <4>1, <4>2
    <3>4. geometry'[x] = geometry[x]
      BY <3>1
    <3> QED BY <3>3, <3>4 DEF KeepsUp, LastOutput
  <2>3. d = c /\ i = id => c \in clients
    BY <1>8, QueueAndView
  <2> QED BY <1>8, <2>1, <2>2, <2>3
<1>10. TextsAreJoined'
  <2> SUFFICES ASSUME NEW d \in Client, NEW x \in Name
               PROVE  Unbroken(view[d][x].text) /\ Joined(outbox'[d], view[d][x].text, x)
    BY DEF TextsAreJoined
  <2>1. Unbroken(view[d][x].text) /\ Joined(outbox[d], view[d][x].text, x)
    BY DEF Streams, TextsAreJoined
  <2>2. CASE outbox'[d] = outbox[d]
    BY <2>1, <2>2
  <2>3. CASE outbox'[d] # outbox[d]
    <3>1. d = c /\ c \in clients
      BY <1>5, <2>3
    <3>2. outbox[c] \in Seq(ServerMessage) /\ view[c][x].text \in Seq(Chunk)
      BY QueueAndView
    <3>3. Joined(Append(outbox[c], m), view[c][x].text, x)
      BY <1>1, <1>3, <2>1, <3>1, <3>2, StaysJoined
    <3>4. Joined(Append(Append(outbox[c], m), k), view[c][x].text, x)
      BY <1>1, <1>3, <2>1, <3>1, <3>2, ScrollbackJoins
    <3> QED BY <1>6, <2>1, <3>1, <3>3, <3>4
  <2> QED BY <2>2, <2>3
<1>11. ClientsAreCounted'
  BY DEF Streams, ClientsAreCounted
<1> QED BY <1>9, <1>10, <1>11 DEF Streams

LEMMA HistoriesStay ==
    ASSUME IInv, HistoriesAreWhole, UNCHANGED <<sessions, history>>,
           \A id \in SessionId : IsCurrent(id) => produced'[id] = produced[id]
    PROVE  HistoriesAreWhole'
<1>1. \A n \in Name : Live(n) => Current(n) \in SessionId /\ IsCurrent(Current(n))
  BY IdType DEF IInv, TypeOK, ManagerType, Live, Current, IsCurrent, IdOf
<1>2. \A n \in Name : Live(n) => produced'[Current(n)] = produced[Current(n)]
  BY <1>1
<1> QED BY <1>2 DEF HistoriesAreWhole, Live, Current, LastOutput

LEMMA StartKeepsHistories ==
    ASSUME IInv, HistoriesAreWhole, NEW n \in Name, NEW g, CreateWith(n, g)
    PROVE  HistoriesAreWhole'
<1> SUFFICES ASSUME NEW m \in Name
             PROVE  Unbroken(history'[m]) /\ (Live(m)' => Ends(history'[m], LastOutput(Current(m))'))
  BY DEF HistoriesAreWhole
<1>1. CASE m = n
  <2>1. history'[m] = <<>>
    BY <1>1 DEF CreateWith, IInv, TypeOK, ManagerType
  <2> QED BY <2>1 DEF Unbroken, Ends
<1>2. CASE m # n
  <2>1. history'[m] = history[m] /\ sessions'[m] = sessions[m] /\ produced' = produced
    BY <1>2 DEF CreateWith, IInv, TypeOK, ManagerType
  <2> QED BY <2>1 DEF HistoriesAreWhole, Live, Current, LastOutput
<1> QED BY <1>1, <1>2

LEMMA EndKeepsHistories ==
    ASSUME IInv, HistoriesAreWhole, NEW id \in SessionId, EndSession(id), UNCHANGED produced
    PROVE  HistoriesAreWhole'
<1> SUFFICES ASSUME NEW m \in Name
             PROVE  Unbroken(history'[m]) /\ (Live(m)' => Ends(history'[m], LastOutput(Current(m))'))
  BY DEF HistoriesAreWhole
<1>1. CASE m = id.name
  <2>1. history'[m] = <<>>
    BY <1>1 DEF EndSession, IInv, TypeOK, ManagerType
  <2> QED BY <2>1 DEF Unbroken, Ends
<1>2. CASE m # id.name
  <2>1. history'[m] = history[m] /\ sessions'[m] = sessions[m]
    BY <1>2 DEF EndSession, IInv, TypeOK, ManagerType
  <2> QED BY <2>1 DEF HistoriesAreWhole, Live, Current, LastOutput
<1> QED BY <1>1, <1>2

\* A session starts with a client attached to it.
LEMMA StartingKeepsStreams ==
    ASSUME IInv, AttachmentsAreLive', Streams, NEW c \in Client, NEW n \in Name, ~Live(n),
           NEW g \in Geometry, CreateWith(n, g), AttachClient(c, IdOf(n, nextGeneration)),
           NEW replay \in BOOLEAN, Enqueue(ToClient(c, AttachReplies(n, g, <<>>, replay))),
           UNCHANGED <<clients, nextClientId, writer, view>>
    PROVE  Streams'
<1>1. PICK id \in SessionId : id = IdOf(n, nextGeneration) /\ IsCurrent(id)'
  BY StartKeepsBooks
<1>2. id.name = n
  BY <1>1 DEF IdOf
<1>3. geometry'[n] = g /\ produced' = produced
  BY DEF CreateWith, IInv, TypeOK, ManagerType
<1>4. \A i \in SessionId : IsCurrent(i) => geometry'[i.name] = geometry[i.name]
  BY CurrentIsLive, IdType DEF CreateWith, IInv, TypeOK, ManagerType
<1>5. <<>> \in Seq(Chunk) /\ Unbroken(<<>>) /\ Ends(<<>>, LastOutput(id))
  BY DEF Unbroken, Ends
<1>6. HistoriesAreWhole'
  BY StartKeepsHistories DEF Streams
<1> QED BY <1>1, <1>2, <1>3, <1>4, <1>5, <1>6, AttachingKeepsStreams

LEMMA AttachKeepsStreams ==
    ASSUME IInv, IInv', Streams, NEW c \in Client, NEW n \in Name, NEW replay \in BOOLEAN,
           Attach(c, n, replay)
    PROVE  Streams'
<1>1. /\ UNCHANGED <<clients, nextClientId, writer, view, reader>>
      /\ AttachmentsAreLive'
  BY DEF Attach, HandleFrame, loopVars, threadVars, IInv
<1>2. CASE /\ Live(n) /\ AttachClient(c, Current(n)) /\ UNCHANGED managerVars
           /\ Enqueue(ToClient(c, AttachReplies(n, geometry[n], history[n], replay)))
  <2>1. PICK id \in SessionId : id = Current(n)
    BY <1>2, IdType DEF Live, Current, IInv, TypeOK, ManagerType
  <2>2. IsCurrent(id)' /\ id.name = n /\ geometry'[n] = geometry[n] /\ geometry' = geometry
    BY <1>2, <2>1 DEF IsCurrent, Current, IdOf, managerVars
  <2>3. /\ history[n] \in Seq(Chunk) /\ geometry[n] \in Geometry /\ Unbroken(history[n])
        /\ Ends(history[n], LastOutput(id))
    BY <1>2, <2>1 DEF IInv, TypeOK, ManagerType, Streams, HistoriesAreWhole
  <2>4. HistoriesAreWhole' /\ produced' = produced
    BY <1>2, HistoriesStay DEF Streams, managerVars
  <2> QED BY <1>1, <1>2, <2>1, <2>2, <2>3, <2>4, AttachingKeepsStreams
<1>3. CASE /\ ~Live(n) /\ CreateWith(n, DefaultGeometry)
           /\ AttachClient(c, IdOf(n, nextGeneration))
           /\ Enqueue(ToClient(c, AttachReplies(n, DefaultGeometry, <<>>, replay)))
  BY <1>1, <1>3, GeometryAssumption, StartingKeepsStreams
<1>4. CASE ReplyError(c) /\ UNCHANGED <<attachments, managerVars>>
  BY <1>1, <1>4, AnswerKeepsStreams DEF ReplyError, Reply, Enqueue
<1> QED BY <1>2, <1>3, <1>4 DEF Attach

LEMMA SpawnKeepsStreams ==
    ASSUME IInv, IInv', Streams, NEW c \in Client, NEW n \in Name, NEW g \in Geometries,
           Spawn(c, n, g)
    PROVE  Streams'
<1> DEFINE asked == [g EXCEPT !.cell = 0]
<1>1. /\ UNCHANGED <<clients, nextClientId, writer, view, reader>>
      /\ AttachmentsAreLive'
  BY DEF Spawn, HandleFrame, loopVars, threadVars, IInv
<1>2. asked \in Geometry
  BY GeometryAssumption DEF Geometry
<1>3. CASE /\ ~Live(n) /\ CreateWith(n, asked)
           /\ AttachClient(c, IdOf(n, nextGeneration))
           /\ Enqueue(ToClient(c, AttachReplies(n, asked, <<>>, TRUE)))
  <2> HIDE DEF asked
  <2> QED BY <1>1, <1>2, <1>3, StartingKeepsStreams
<1>4. CASE ReplyError(c) /\ UNCHANGED <<attachments, managerVars>>
  BY <1>1, <1>4, AnswerKeepsStreams DEF ReplyError, Reply, Enqueue
<1> QED BY <1>3, <1>4 DEF Spawn

\* Requests about no session's text.
LEMMA AnsweringKeepsStreams ==
    ASSUME IInv, Streams, NEW c \in Client,
           \/ BadRequest(c)
           \/ ListSessions(c)
           \/ \E supported \in BOOLEAN : Greet(c, supported)
    PROVE  Streams'
<1>1. UNCHANGED <<clients, attachments, nextClientId, writer, view, managerVars>>
  BY DEF BadRequest, ListSessions, Greet, HandleFrame, loopVars, threadVars, clientVars
<1>2. /\ outbox' = Queued(ToClient(c, <<Answer>>))
      /\ Refusing(ToClient(c, <<Answer>>)) \subseteq doomed' /\ doomed \subseteq doomed'
  BY DEF BadRequest, ListSessions, Greet, ReplyError, Reply, Enqueue
<1> QED BY <1>1, <1>2, AnswerKeepsStreams

\* Steps that queue nothing and leave the sessions alone.
LEMMA IdleKeepsStreams ==
    ASSUME IInv, Streams, UNCHANGED <<outbox, view, sessions, geometry, history, produced>>,
           \A c \in Client :
               /\ attachments'[c] \subseteq attachments[c]
               /\ attachments'[c] # {} /\ Listening(c)' => Listening(c),
           ClientsAreCounted'
    PROVE  Streams'
<1>1. HistoriesAreWhole'
  BY HistoriesStay DEF Streams
<1>2. \A c \in Client : \A id \in attachments'[c] :
               /\ id \in attachments[c] /\ geometry'[id.name] = geometry[id.name]
               /\ produced'[id] = produced[id]
               /\ Listening(c)' => Listening(c)
  OBVIOUS
<1> QED BY <1>1, <1>2, QuietKeepsStreams

LEMMA InputAndResizeKeepStreams ==
    ASSUME IInv, Streams, NEW c \in Client, NEW n \in Name,
           Input(c, n) \/ \E g \in Geometries : Resize(c, n, g)
    PROVE  Streams'
<1>1. UNCHANGED <<clients, attachments, nextClientId, writer, view, managerVars>>
  BY DEF Input, Resize, HandleFrame, loopVars, threadVars, clientVars
<1>2. CASE UNCHANGED queueVars
  <2>1. ClientsAreCounted'
    BY <1>1 DEF Streams, ClientsAreCounted
  <2> QED BY <1>1, <1>2, <2>1, IdleKeepsStreams DEF queueVars, managerVars, Listening
<1>3. CASE ReplyError(c)
  BY <1>1, <1>3, AnswerKeepsStreams DEF ReplyError, Reply, Enqueue
<1> QED BY <1>2, <1>3 DEF Input, Resize

LEMMA LettingGoKeepsStreams ==
    ASSUME IInv, Streams, NEW c \in Client,
           Detach(c) \/ Closed(c) \/ Reap(c) \/ WriterDone(c)
    PROVE  Streams'
<1>1. UNCHANGED <<outbox, view, sessions, geometry, history, produced, nextClientId>>
  BY DEF Detach, Closed, Reap, WriterDone, RemoveClient, HandleFrame, queueVars, managerVars,
         loopVars, threadVars
<1>2. \A d \in Client : attachments'[d] \subseteq attachments[d]
  BY DEF Detach, Closed, Reap, WriterDone, RemoveClient, Unconstrain, clientVars, IInv, TypeOK,
         ClientType
<1>3. clients' \subseteq clients
  BY DEF Detach, Closed, Reap, WriterDone, RemoveClient, clientVars
<1>4. ASSUME NEW d \in Client, attachments'[d] # {}, Listening(d)'
      PROVE  Listening(d)
  <2>1. CASE Detach(c) \/ WriterDone(c)
    BY <1>4, <2>1 DEF Detach, WriterDone, HandleFrame, queueVars, clientVars, threadVars,
          Listening, ShutDown, IInv, TypeOK, ThreadType
  <2>2. CASE Closed(c) \/ Reap(c)
    <3>1. d # c /\ doomed' = doomed \ {c} /\ writer' = writer
      BY <1>4, <2>2 DEF Closed, Reap, RemoveClient, threadVars, Listening
    <3> QED BY <1>3, <1>4, <3>1 DEF Listening
  <2> QED BY <2>1, <2>2
<1>5. ClientsAreCounted'
  BY <1>1, <1>3 DEF Streams, ClientsAreCounted
<1> QED BY <1>1, <1>2, <1>4, <1>5, IdleKeepsStreams

LEMMA LoopKeepsStreams ==
    ASSUME IInv, Streams,
           \/ CollectDoomed
           \/ \E written \in BOOLEAN : Persist(written)
           \/ UNCHANGED vars
    PROVE  Streams'
<1>1. /\ UNCHANGED <<outbox, view, sessions, geometry, history, produced, nextClientId>>
      /\ UNCHANGED <<clients, attachments, doomed, writer>>
  BY DEF CollectDoomed, Persist, vars, queueVars, managerVars, loopVars, threadVars, clientVars
<1>2. ClientsAreCounted'
  BY <1>1 DEF Streams, ClientsAreCounted
<1> QED BY <1>1, <1>2, IdleKeepsStreams DEF Listening

LEMMA ConnectKeepsStreams ==
    ASSUME IInv, Streams, NEW opened \in BOOLEAN, Connect(opened)
    PROVE  Streams'
<1>1. /\ UNCHANGED <<outbox, doomed, view, sessions, geometry, history, produced, attachments>>
      /\ nextClientId' = nextClientId + 1 /\ nextClientId \in Nat
      /\ clients' \subseteq clients \cup {nextClientId} /\ clients \subseteq Client
  BY BoundAssumption DEF Connect, queueVars, managerVars, IInv, TypeOK, LoopType, ClientType
<1>2. \A d \in Client : d \in Int
  BY DEF Client
<1>3. ClientsAreCounted'
  BY <1>1, <1>2 DEF Streams, ClientsAreCounted
<1>4. nextClientId \notin clients
  BY <1>1, <1>2 DEF Streams, ClientsAreCounted
<1>5. ASSUME NEW d \in Client, attachments'[d] # {}, Listening(d)'
      PROVE  Listening(d)
  <2>1. d \in clients /\ d # nextClientId
    BY <1>1, <1>4, <1>5, QueueAndView
  <2>2. writer'[d] = writer[d]
    BY <2>1 DEF Connect, IInv, TypeOK, ThreadType
  <2> QED BY <1>1, <1>5, <2>1, <2>2 DEF Listening
<1> QED BY <1>1, <1>3, <1>5, IdleKeepsStreams

LEMMA RespawnKeepsStreams ==
    ASSUME IInv, Streams, NEW n \in Name, NEW started \in BOOLEAN, Respawn(n, started)
    PROVE  Streams'
<1>1. UNCHANGED <<outbox, doomed, view, writer, nextClientId, clients, attachments>>
  BY DEF Respawn, queueVars, threadVars, clientVars, loopVars
<1>2. ClientsAreCounted'
  BY <1>1 DEF Streams, ClientsAreCounted
<1>3. CASE UNCHANGED managerVars
  BY <1>1, <1>2, <1>3, IdleKeepsStreams DEF managerVars, Listening
<1>4. CASE CreateWith(n, DefaultGeometry)
  <2>1. ~Live(n)
    BY DEF Respawn, IInv, RespawningIsAtBoot
  <2>2. HistoriesAreWhole'
    BY <1>4, StartKeepsHistories DEF Streams
  <2>3. \A c \in Client : \A id \in attachments'[c] :
               /\ id \in attachments[c] /\ geometry'[id.name] = geometry[id.name]
               /\ produced'[id] = produced[id]
               /\ Listening(c)' => Listening(c)
    <3> TAKE c \in Client
    <3> TAKE id \in attachments'[c]
    <3>1. id \in attachments[c] /\ id.name \in Name /\ id.name # n
      BY <1>1, <2>1, QueueAndView, CurrentIsLive
    <3> QED BY <1>1, <1>4, <3>1 DEF CreateWith, Listening, IInv, TypeOK, ManagerType
  <2> QED BY <1>1, <1>2, <2>2, <2>3, QuietKeepsStreams
<1> QED BY <1>3, <1>4 DEF Respawn

\* A session ends.
LEMMA EndKeepsStreams ==
    ASSUME IInv, Streams, NEW id \in SessionId, IsCurrent(id), EndSession(id),
           UNCHANGED <<clients, nextClientId, writer, view, produced>>
    PROVE  Streams'
<1> DEFINE m == [type |-> "Exit", session |-> id.name]
<1>1. m \in ServerMessage /\ m # Answer /\ m.session = id.name /\ m.type = "Exit"
  BY MessageTypes, IdType DEF Answer
<1>2. Enqueue(ToAttached(id, m)) /\ \A c \in Client : attachments'[c] = attachments[c] \ {id}
  BY DEF EndSession, Forget
<1> HIDE DEF m
<1>3. \A i \in SessionId : i.name # id.name =>
               geometry'[i.name] = geometry[i.name] /\ produced'[i] = produced[i]
  BY IdType DEF EndSession, IInv, TypeOK, ManagerType
<1>4. ASSUME NEW c \in Client
      PROVE  Joined(Append(outbox[c], m), view[c][id.name].text, id.name)
  BY <1>1, IdType, QueueAndView, StaysJoined DEF Streams, TextsAreJoined
<1>5. HistoriesAreWhole'
  BY EndKeepsHistories DEF Streams
<1> QED BY <1>1, <1>2, <1>3, <1>4, <1>5, BroadcastKeepsStreams

LEMMA EndingsKeepStreams ==
    ASSUME IInv, Streams,
           \/ \E c \in Client, n \in Name : Kill(c, n)
           \/ \E id \in SessionId : SessionExit(id)
    PROVE  Streams'
<1>1. ASSUME NEW c \in Client, NEW n \in Name, Kill(c, n)
      PROVE  Streams'
  <2>1. UNCHANGED <<clients, nextClientId, writer, view, produced>>
    BY <1>1 DEF Kill, HandleFrame, loopVars, threadVars
  <2>2. CASE Live(n) /\ EndSession(Current(n))
    <3>1. PICK id \in SessionId : id = Current(n)
      BY <2>2, IdType DEF Live, Current, IInv, TypeOK, ManagerType
    <3>2. IsCurrent(id)
      BY <3>1 DEF IsCurrent, Current, IdOf
    <3> QED BY <2>1, <2>2, <3>1, <3>2, EndKeepsStreams
  <2>3. CASE ReplyError(c) /\ UNCHANGED <<attachments, wanted, sessionsChanged, sessions, geometry, history, program>>
    BY <1>1, <2>1, <2>3, AnswerKeepsStreams DEF Kill, ReplyError, Reply, Enqueue, managerVars
  <2> QED BY <1>1, <2>2, <2>3 DEF Kill
<1>2. ASSUME NEW id \in SessionId, SessionExit(id)
      PROVE  Streams'
  <2>1. UNCHANGED <<clients, nextClientId, writer, view, produced>>
    BY <1>2 DEF SessionExit, loopVars, threadVars
  <2>2. CASE IsCurrent(id) /\ EndSession(id)
    BY <2>1, <2>2, EndKeepsStreams
  <2>3. CASE UNCHANGED <<sessionsChanged, sessions, geometry, history, queueVars, attachments, wanted>>
    <3>1. ClientsAreCounted'
      BY <2>1 DEF Streams, ClientsAreCounted
    <3> QED BY <2>1, <2>3, <3>1, IdleKeepsStreams DEF queueVars, Listening
  <2> QED BY <1>2, <2>2, <2>3 DEF SessionExit
<1> QED BY <1>1, <1>2

\* A session takes another size.
LEMMA SyncSizeKeepsStreams ==
    ASSUME IInv, Streams, NEW id \in SessionId, SyncSize(id)
    PROVE  Streams'
<1> DEFINE n == id.name
           g == EffectiveSize(Wants(id))
           m == [type |-> "Resized", session |-> n, grid |-> GridOf(g)]
<1>1. /\ UNCHANGED <<clients, nextClientId, writer, view, attachments>>
      /\ UNCHANGED <<sessions, history, produced>>
  BY DEF SyncSize, loopVars, clientVars, threadVars
<1>2. ClientsAreCounted'
  BY <1>1 DEF Streams, ClientsAreCounted
<1>3. HistoriesAreWhole'
  BY <1>1, HistoriesStay DEF Streams
<1>4. CASE UNCHANGED <<geometry, queueVars>>
  BY <1>1, <1>2, <1>4, IdleKeepsStreams DEF queueVars, Listening
<1>5. CASE /\ IsCurrent(id) /\ Wants(id) # {}
           /\ geometry' = [geometry EXCEPT ![n] = g]
           /\ IF GridOf(g) # GridOf(geometry[n]) THEN Enqueue(ToAttached(id, m)) ELSE UNCHANGED queueVars
  <2>1. \A i \in SessionId : i.name # n => geometry'[i.name] = geometry[i.name]
    BY <1>5, IdType DEF IInv, TypeOK, ManagerType
  <2>2. geometry'[n] = g /\ n \in Name
    BY <1>5, IdType DEF IInv, TypeOK, ManagerType
  <2>3. CASE Enqueue(ToAttached(id, m))
    <3>1. g \in Geometry
      <4>1. Wants(id) \subseteq Geometry
        BY DEF Wants, IInv, TypeOK, ClientType
      <4> QED BY <1>5, <4>1, EffectiveSizeType
    <3> HIDE DEF g
    <3>2. /\ m \in ServerMessage /\ m # Answer /\ m.session = n /\ m.type = "Resized"
          /\ m.grid = GridOf(geometry'[n])
      BY <2>2, <3>1, MessageTypes DEF Answer
    <3> HIDE DEF m
    <3>3. ASSUME NEW c \in Client, Listening(c), id \in attachments[c]
          PROVE  /\ Joined(Append(outbox[c], m), view[c][n].text, n)
                 /\ Abreast(Append(outbox[c], m), view[c][n], n, GridOf(geometry'[n]), LastOutput(id)')
      <4>1. outbox[c] \in Seq(ServerMessage) /\ view[c][n] \in View /\ view[c][n].text \in Seq(Chunk)
        BY <2>2, QueueAndView
      <4>2. Joined(outbox[c], view[c][n].text, n)
        BY <2>2 DEF Streams, TextsAreJoined
      <4>3. Abreast(outbox[c], view[c][n], n, GridOf(geometry[n]), LastOutput(id))
        BY <3>3 DEF Streams, ListenersKeepUp, KeepsUp
      <4>4. LastOutput(id)' = LastOutput(id)
        BY <1>1 DEF LastOutput
      <4>5. Joined(Append(outbox[c], m), view[c][n].text, n)
        BY <3>2, <4>1, <4>2, StaysJoined
      <4>6. Abreast(Append(outbox[c], m), view[c][n], n, m.grid, LastOutput(id))
        BY <3>2, <4>1, <4>3, ResizedAbreast
      <4> QED BY <3>2, <4>4, <4>5, <4>6
    <3> QED BY <1>1, <1>3, <1>5, <2>1, <2>3, <3>2, <3>3, BroadcastKeepsStreams
  <2>4. CASE UNCHANGED queueVars /\ GridOf(g) = GridOf(geometry[n])
    <3>1. ListenersKeepUp'
      <4> SUFFICES ASSUME NEW c \in Client, Listening(c)', NEW i \in attachments'[c]
                   PROVE  KeepsUp(c, i)'
        BY DEF ListenersKeepUp
      <4>1. Listening(c) /\ i \in attachments[c] /\ i \in SessionId /\ outbox' = outbox
        BY <1>1, <2>4, QueueAndView DEF Listening, queueVars
      <4>2. GridOf(geometry'[i.name]) = GridOf(geometry[i.name])
        BY <2>1, <2>2, <2>4, <4>1
      <4> QED BY <1>1, <4>1, <4>2 DEF Streams, ListenersKeepUp, KeepsUp, LastOutput
    <3>2. TextsAreJoined'
      BY <1>1, <2>4 DEF Streams, TextsAreJoined, queueVars
    <3> QED BY <1>2, <1>3, <3>1, <3>2 DEF Streams
  <2> QED BY <1>5, <2>3, <2>4
<1> QED BY <1>4, <1>5 DEF SyncSize

\* A program writes.
LEMMA OutputKeepsHistories ==
    ASSUME IInv, Streams, NEW id \in SessionId, SessionOutput(id)
    PROVE  HistoriesAreWhole'
<1> DEFINE n == id.name
           bytes == [generation |-> id.generation, index |-> produced[id] + 1]
<1>1. /\ produced' = [produced EXCEPT ![id] = @ + 1] /\ produced[id] < MaxOutput
      /\ UNCHANGED sessions
  BY DEF SessionOutput
<1>2. CASE IsCurrent(id)
  <2>1. history' = [history EXCEPT ![n] = Retained(Append(@, bytes))]
    BY <1>2 DEF SessionOutput
  <2>2. n \in Name /\ Live(n) /\ id = Current(n)
    BY <1>2, IdType, CurrentIsLive
  <2>3. bytes \in Chunk
    BY <1>1, IdType, BoundAssumption DEF Chunk, IInv, TypeOK, ManagerType
  <2>4. /\ history[n] \in Seq(Chunk) /\ Unbroken(history[n]) /\ Ends(history[n], LastOutput(id))
    BY <2>2 DEF IInv, TypeOK, ManagerType, Streams, HistoriesAreWhole
  <2>5. bytes = Following(LastOutput(id)) /\ bytes = LastOutput(id)'
    BY <1>1 DEF Following, LastOutput, IInv, TypeOK, ManagerType
  <2> HIDE DEF bytes
  <2>6. Unbroken(Append(history[n], bytes))
    BY <2>3, <2>4, <2>5, UnbrokenAppend DEF Ends
  <2> DEFINE t == Append(history[n], bytes)
  <2>7. t \in Seq(Chunk) /\ t # <<>> /\ t[Len(t)] = bytes
    BY <2>3, <2>4
  <2>8. Unbroken(Retained(t)) /\ Ends(Retained(t), bytes)
    <3> HIDE DEF t
    <3> QED BY <2>6, <2>7, RetainedIsWhole DEF t
  <2>9. history'[n] = Retained(t)
    BY <2>1, <2>2 DEF IInv, TypeOK, ManagerType
  <2> HIDE DEF t
  <2>10. SUFFICES ASSUME NEW x \in Name
                  PROVE  Unbroken(history'[x]) /\ (Live(x)' => Ends(history'[x], LastOutput(Current(x))'))
    BY DEF HistoriesAreWhole
  <2>11. CASE x = n
    <3>1. Current(n)' = id
      BY <1>1, <2>2 DEF Current
    <3>2. LastOutput(Current(n))' = LastOutput(id)'
      BY <3>1 DEF LastOutput
    <3> QED BY <2>5, <2>8, <2>9, <2>11, <3>2
  <2>12. CASE x # n
    <3>1. history'[x] = history[x] /\ Current(x)' = Current(x) /\ Live(x)' = Live(x)
      BY <1>1, <2>1, <2>12 DEF IInv, TypeOK, ManagerType, Current, Live
    <3>2. produced'[Current(x)] = produced[Current(x)]
      BY <1>1, <2>12 DEF Current, IdOf, IInv, TypeOK, ManagerType
    <3> QED BY <3>1, <3>2 DEF Streams, HistoriesAreWhole, LastOutput
  <2> QED BY <2>11, <2>12
<1>3. CASE ~IsCurrent(id)
  <2>1. UNCHANGED history
    BY <1>3 DEF SessionOutput
  <2>2. \A i \in SessionId : IsCurrent(i) => produced'[i] = produced[i]
    BY <1>1, <1>3 DEF IInv, TypeOK, ManagerType
  <2> QED BY <1>1, <2>1, <2>2, HistoriesStay DEF Streams
<1> QED BY <1>2, <1>3

LEMMA SessionOutputKeepsStreams ==
    ASSUME IInv, Streams, NEW id \in SessionId, SessionOutput(id)
    PROVE  Streams'
<1> DEFINE n == id.name
           bytes == [generation |-> id.generation, index |-> produced[id] + 1]
           m == [type |-> "Output", session |-> n, bytes |-> bytes]
<1>1. /\ produced' = [produced EXCEPT ![id] = @ + 1] /\ produced[id] < MaxOutput
      /\ UNCHANGED <<clients, nextClientId, writer, view, attachments, geometry>>
  BY DEF SessionOutput, loopVars, clientVars, threadVars
<1>2. HistoriesAreWhole'
  BY OutputKeepsHistories
<1>3. ClientsAreCounted'
  BY <1>1 DEF Streams, ClientsAreCounted
<1>4. \A i \in SessionId : i # id => produced'[i] = produced[i]
  BY <1>1 DEF IInv, TypeOK, ManagerType
<1>5. CASE IsCurrent(id)
  <2>1. Enqueue(ToAttached(id, m))
    BY <1>5 DEF SessionOutput
  <2>2. bytes \in Chunk /\ n \in Name
    BY <1>1, IdType, BoundAssumption DEF Chunk, IInv, TypeOK, ManagerType
  <2>3. bytes = Following(LastOutput(id)) /\ bytes = LastOutput(id)'
    BY <1>1 DEF Following, LastOutput, IInv, TypeOK, ManagerType
  <2> HIDE DEF bytes
  <2>4. m \in ServerMessage /\ m # Answer /\ m.session = n /\ m.type = "Output" /\ m.bytes = bytes
    BY <2>2, MessageTypes DEF Answer
  <2> HIDE DEF m
  <2>5. ASSUME NEW c \in Client, Listening(c), id \in attachments[c]
        PROVE  /\ Joined(Append(outbox[c], m), view[c][n].text, n)
               /\ Abreast(Append(outbox[c], m), view[c][n], n, GridOf(geometry'[n]), LastOutput(id)')
    <3>1. outbox[c] \in Seq(ServerMessage) /\ view[c][n] \in View
      BY <2>2, QueueAndView
    <3>2. Joined(outbox[c], view[c][n].text, n)
      BY <2>2 DEF Streams, TextsAreJoined
    <3>3. Abreast(outbox[c], view[c][n], n, GridOf(geometry[n]), LastOutput(id))
      BY <2>5 DEF Streams, ListenersKeepUp, KeepsUp
    <3>4. Joined(Append(outbox[c], m), view[c][n].text, n)
      BY <2>3, <2>4, <3>1, <3>2, <3>3, OutputJoins
    <3>5. Abreast(Append(outbox[c], m), view[c][n], n, GridOf(geometry[n]), m.bytes)
      BY <2>4, <3>1, <3>3, OutputAbreast
    <3> QED BY <1>1, <2>3, <2>4, <3>4, <3>5
  <2> QED BY <1>1, <1>2, <1>4, <1>5, <2>1, <2>4, <2>5, BroadcastKeepsStreams
<1>6. CASE ~IsCurrent(id)
  <2>1. UNCHANGED queueVars
    BY <1>6 DEF SessionOutput
  <2>2. \A c \in Client : \A i \in attachments[c] : produced'[i] = produced[i]
    BY <1>4, <1>6, QueueAndView
  <2>3. \A c \in Client : Listening(c)' => Listening(c)
    BY <1>1, <2>1 DEF Listening, queueVars
  <2> QED BY <1>1, <1>2, <1>3, <2>1, <2>2, <2>3, QuietKeepsStreams DEF queueVars
<1> QED BY <1>5, <1>6

\* A writer thread sends a message, and its client takes it.
LEMMA WriteFrameKeepsStreams ==
    ASSUME IInv, Streams, NEW c \in Client, WriteFrame(c)
    PROVE  Streams'
<1> DEFINE m == Head(outbox[c])
<1>1. /\ UNCHANGED <<clients, doomed, attachments, nextClientId, writer>>
      /\ UNCHANGED <<sessions, geometry, history, produced>>
      /\ outbox[c] # <<>> /\ outbox' = [outbox EXCEPT ![c] = Tail(@)]
      /\ outbox[c] \in Seq(ServerMessage)
  BY QueueAndView DEF WriteFrame, clientVars, managerVars, loopVars
<1>2. /\ \A d \in Client \ {c} : outbox'[d] = outbox[d] /\ view'[d] = view[d]
      /\ outbox'[c] = Tail(outbox[c])
      /\ \A n \in Name : view'[c][n] = After(view[c][n], m, n)
  <2>1. \A d \in Client \ {c} : outbox'[d] = outbox[d] /\ view'[d] = view[d]
    BY <1>1 DEF WriteFrame, IInv, TypeOK, QueueType, ThreadType
  <2>2. outbox'[c] = Tail(outbox[c])
    BY <1>1 DEF IInv, TypeOK, QueueType
  <2>3. ASSUME NEW n \in Name PROVE view'[c][n] = After(view[c][n], m, n)
    <3>1. view' = IF m # Answer THEN [view EXCEPT ![c][m.session] = Seen(@, m)] ELSE view
      BY DEF WriteFrame
    <3>2. view \in [Client -> [Name -> View]]
      BY DEF IInv, TypeOK, ThreadType, View
    <3>3. m \in ServerMessage
      BY <1>1
    <3>4. m # Answer => m.session \in Name
      BY <3>3, MessageParts
    <3> HIDE DEF m
    <3> QED BY <3>1, <3>2, <3>4 DEF After
  <2> QED BY <2>1, <2>2, <2>3
<1>3. ListenersKeepUp'
  <2> SUFFICES ASSUME NEW d \in Client, Listening(d)', NEW id \in attachments'[d]
               PROVE  KeepsUp(d, id)'
    BY DEF ListenersKeepUp
  <2> DEFINE n == id.name
             g == GridOf(geometry[n])
             last == LastOutput(id)
  <2>1. Abreast(outbox[d], view[d][n], n, g, last) /\ id \in attachments[d] /\ n \in Name
    BY <1>1, QueueAndView DEF Listening, Streams, ListenersKeepUp, KeepsUp
  <2>2. g' = g /\ last' = last
    BY <1>1 DEF LastOutput
  <2> HIDE DEF g, last
  <2>3. Abreast(outbox'[d], view'[d][n], n, g, last)
    <3>1. CASE d # c
      BY <1>2, <2>1, <3>1
    <3>2. CASE d = c
      <4>1. view[c][n] \in View /\ Unbroken(view[c][n].text) /\ Joined(outbox[c], view[c][n].text, n)
        BY <2>1, QueueAndView DEF Streams, TextsAreJoined
      <4>2. Abreast(Tail(outbox[c]), After(view[c][n], m, n), n, g, last)
        BY <1>1, <2>1, <3>2, <4>1, TakenAbreast
      <4> QED BY <1>2, <2>1, <3>2, <4>2
    <3> QED BY <3>1, <3>2
  <2>4. Abreast(outbox'[d], view'[d][n], n, g', last')
    BY <2>2, <2>3
  <2> QED BY <2>4 DEF KeepsUp, g, last
<1>4. TextsAreJoined'
  <2> SUFFICES ASSUME NEW d \in Client, NEW n \in Name
               PROVE  Unbroken(view'[d][n].text) /\ Joined(outbox'[d], view'[d][n].text, n)
    BY DEF TextsAreJoined
  <2>1. view[d][n] \in View /\ Unbroken(view[d][n].text) /\ Joined(outbox[d], view[d][n].text, n)
    BY QueueAndView DEF Streams, TextsAreJoined
  <2>2. CASE d # c
    BY <1>2, <2>1, <2>2
  <2>3. CASE d = c
    <3>1. Unbroken(After(view[c][n], m, n).text)
      BY <1>1, <2>1, <2>3, TextAfter
    <3>2. Joined(Tail(outbox[c]), After(view[c][n], m, n).text, n)
      BY <1>1, <2>1, <2>3, TakenJoined
    <3> QED BY <1>2, <2>3, <3>1, <3>2
  <2> QED BY <2>2, <2>3
<1>5. HistoriesAreWhole'
  BY <1>1, HistoriesStay DEF Streams
<1>6. ClientsAreCounted'
  BY <1>1 DEF Streams, ClientsAreCounted
<1> QED BY <1>3, <1>4, <1>5, <1>6 DEF Streams

\* It gives up what is queued, and its client listens no more.
LEMMA WriteFailsKeepsStreams ==
    ASSUME IInv, Streams, NEW c \in Client, WriteFails(c)
    PROVE  Streams'
<1>1. /\ UNCHANGED <<clients, doomed, attachments, nextClientId, view>>
      /\ UNCHANGED <<sessions, geometry, history, produced>>
      /\ \A d \in Client \ {c} : outbox'[d] = outbox[d] /\ writer'[d] = writer[d]
      /\ outbox'[c] = <<>> /\ writer'[c] = "closed"
  BY DEF WriteFails, ShutDown, clientVars, managerVars, loopVars, threadVars, IInv, TypeOK,
         QueueType, ThreadType
<1>2. ListenersKeepUp'
  BY <1>1 DEF Streams, ListenersKeepUp, Listening, KeepsUp, LastOutput
<1>3. TextsAreJoined'
  BY <1>1 DEF Streams, TextsAreJoined, Joined
<1>4. HistoriesAreWhole'
  BY <1>1, HistoriesStay DEF Streams
<1>5. ClientsAreCounted'
  BY <1>1 DEF Streams, ClientsAreCounted
<1> QED BY <1>2, <1>3, <1>4, <1>5 DEF Streams

\* Nothing has been said when a server process starts.
LEMMA InitStreams == Init => Streams
<1> SUFFICES ASSUME Init PROVE Streams
  OBVIOUS
<1>1. ClientsAreCounted /\ ListenersKeepUp
  BY DEF Init, ClientsAreCounted, ListenersKeepUp, Listening
<1>2. TextsAreJoined
  BY DEF Init, Unseen, TextsAreJoined, Unbroken, Joined
<1>3. HistoriesAreWhole
  BY DEF Init, HistoriesAreWhole, Unbroken, Live
<1> QED BY <1>1, <1>2, <1>3 DEF Streams

LEMMA CrashKeepsStreams ==
    ASSUME Crash
    PROVE  Streams'
<1>1. ClientsAreCounted' /\ ListenersKeepUp'
  BY DEF Crash, ClientsAreCounted, ListenersKeepUp, Listening
<1>2. TextsAreJoined'
  BY DEF Crash, Unseen, TextsAreJoined, Unbroken, Joined
<1>3. HistoriesAreWhole'
  BY DEF Crash, HistoriesAreWhole, Unbroken, Live
<1> QED BY <1>1, <1>2, <1>3 DEF Streams

LEMMA NextKeepsStreams ==
    ASSUME IInv, Streams, [Next]_vars
    PROVE  Streams'
<1>1. IInv'
  BY NextKeepsIInv
<1>2. ASSUME NEW c \in Client, ClientRequest(c)
      PROVE  Streams'
  BY <1>1, <1>2, AnsweringKeepsStreams, LettingGoKeepsStreams, AttachKeepsStreams,
     InputAndResizeKeepStreams, EndingsKeepStreams, SpawnKeepsStreams DEF ClientRequest
<1>3. ASSUME NEW c \in Client, Closed(c) \/ WriterStep(c)
      PROVE  Streams'
  BY <1>3, LettingGoKeepsStreams, WriteFrameKeepsStreams, WriteFailsKeepsStreams DEF WriterStep
<1>4. ASSUME NEW id \in SessionId, SessionOutput(id) \/ SessionExit(id)
      PROVE  Streams'
  BY <1>4, SessionOutputKeepsStreams, EndingsKeepStreams
<1>5. CASE Finish
  BY <1>5, SyncSizeKeepsStreams, LoopKeepsStreams, LettingGoKeepsStreams, RespawnKeepsStreams
     DEF Finish
<1>6. CASE \E opened \in BOOLEAN : Connect(opened)
  BY <1>6, ConnectKeepsStreams
<1>7. CASE Crash
  BY <1>7, CrashKeepsStreams
<1>8. CASE UNCHANGED vars
  BY <1>8, LoopKeepsStreams
<1> QED BY <1>2, <1>3, <1>4, <1>5, <1>6, <1>7, <1>8 DEF Next

\* What a listening client was handed and what is queued for it, together,
\* are what the server said of each session it is attached to.
LEMMA StreamsInvariant == Spec => [](IInv /\ Streams)
<1>1. Init => IInv /\ Streams
  BY InitIInv, InitStreams
<1>2. IInv /\ Streams /\ [Next]_vars => (IInv /\ Streams)'
  BY NextKeepsIInv, NextKeepsStreams
<1> QED BY <1>1, <1>2, PTL DEF Spec

\* What the outbox of a drained client leaves it with.
LEMMA DrainedKeepsUp ==
    ASSUME IInv, Streams, NEW c \in Client, Drained(c), NEW id \in attachments[c]
    PROVE  /\ view[c][id.name].shown /\ view[c][id.name].grid = GridOf(geometry[id.name])
           /\ Ends(view[c][id.name].text, LastOutput(id))
<1>1. outbox[c] = <<>> /\ KeepsUp(c, id)
  BY DEF Drained, Listening, Streams, ListenersKeepUp
<1> DEFINE seen == view[c][id.name]
           g == GridOf(geometry[id.name])
           last == LastOutput(id)
<1>2. Abreast(<<>>, seen, id.name, g, last)
  BY <1>1 DEF KeepsUp
<1> HIDE DEF seen, g, last
<1>3. seen.shown /\ seen.grid = g /\ Ends(seen.text, last)
  BY <1>2 DEF Abreast, EndsIn
<1> QED BY <1>3 DEF seen, g, last

\* What a client was handed of a session since it last attached is an
\* uninterrupted stretch of one incarnation's output (outbox.rs, the FIFO the
\* writer thread drains; dispatch.rs `attach', `broadcast').
THEOREM StreamsUnbroken == Spec => []StreamsAreUnbroken
<1>1. IInv /\ Streams => StreamsAreUnbroken
  BY DEF Streams, TextsAreJoined, StreamsAreUnbroken, Unbroken, Following
<1> QED BY <1>1, StreamsInvariant, PTL

\* A client that has taken all that was queued for it has all its sessions'
\* programs wrote so far, up to the last.
THEOREM StreamsComplete == Spec => []StreamsAreComplete
<1>1. IInv /\ Streams => StreamsAreComplete
  BY DrainedKeepsUp DEF StreamsAreComplete, Ends, LastOutput
<1> QED BY <1>1, StreamsInvariant, PTL

\* ... and shows them in the grid they have, whoever's size it was that the
\* arbitration gave them.
THEOREM GridsAreKnown == Spec => []ClientsKnowTheGrid
<1>1. IInv /\ Streams => ClientsKnowTheGrid
  BY DrainedKeepsUp DEF ClientsKnowTheGrid
<1> QED BY <1>1, StreamsInvariant, PTL

-----------------------------------------------------------------------------
(* Nothing is handed on that was not written *)

\* What was ever written under a name, and the messages that carry no other
\* output.
Chunks(n) == {x \in Chunk : x.index <= produced[IdOf(n, x.generation)]}
Messages ==
    {m \in ServerMessage :
        /\ m.type = "Output" => m.bytes \in Chunks(m.session)
        /\ m.type = "Scrollback" => m.bytes \in Seq(Chunks(m.session))}

HistoriesAreWritten == \A n \in Name : history[n] \in Seq(Chunks(n))
ViewsAreWritten == \A c \in Client, n \in Name : view[c][n].text \in Seq(Chunks(n))
QueuesAreWritten == \A c \in Client : outbox[c] \in Seq(Messages)

\* Nothing is retained, queued or drawn that was not written.
Written == HistoriesAreWritten /\ ViewsAreWritten /\ QueuesAreWritten

LEMMA SeqGrows ==
    ASSUME NEW S, NEW T, S \subseteq T, NEW s \in Seq(S)
    PROVE  s \in Seq(T)
<1>1. s \in [1 .. Len(s) -> S] /\ Len(s) \in Nat
  BY LenProperties
<1>2. s \in [1 .. Len(s) -> T]
  BY <1>1
<1> QED BY <1>1, <1>2, SeqDef

LEMMA ShortSequences ==
    ASSUME NEW S
    PROVE  /\ <<>> \in Seq(S)
           /\ \A a \in S : <<a>> \in Seq(S) /\ \A b \in S : <<a, b>> \in Seq(S)
OBVIOUS

\* What was written stays written while the process lives.
LEMMA WritingGrows ==
    ASSUME IInv, IInv', \A id \in SessionId : produced[id] <= produced'[id]
    PROVE  /\ \A n \in Name : Chunks(n) \subseteq Chunks(n)'
           /\ \A n \in Name : \A s \in Seq(Chunks(n)) : s \in Seq(Chunks(n)')
           /\ Messages \subseteq Messages'
           /\ \A s \in Seq(Messages) : s \in Seq(Messages')
<1>1. ASSUME NEW n \in Name
      PROVE  Chunks(n) \subseteq Chunks(n)'
  <2> SUFFICES ASSUME NEW x \in Chunk, x.index <= produced[IdOf(n, x.generation)]
               PROVE  x.index <= produced'[IdOf(n, x.generation)]
    BY DEF Chunks
  <2> DEFINE id == IdOf(n, x.generation)
  <2>1. id \in SessionId /\ x.index \in Nat
    BY IdType, BoundAssumption DEF Chunk
  <2>2. produced[id] \in Nat /\ produced'[id] \in Nat
    BY <2>1, BoundAssumption DEF IInv, TypeOK, ManagerType
  <2>3. produced[id] <= produced'[id]
    BY <2>1
  <2> HIDE DEF id
  <2> QED BY <2>1, <2>2, <2>3 DEF id
<1>2. ASSUME NEW n \in Name, NEW s \in Seq(Chunks(n))
      PROVE  s \in Seq(Chunks(n)')
  BY <1>1, SeqGrows
<1>3. Messages \subseteq Messages'
  <2> SUFFICES ASSUME NEW m \in Messages
               PROVE  m \in Messages'
    OBVIOUS
  <2>1. m \in ServerMessage
    BY DEF Messages
  <2>2. CASE m.type = "Output"
    <3>1. m.bytes \in Chunks(m.session) /\ m.session \in Name
      BY <2>1, <2>2, MessageParts DEF Messages
    <3> QED BY <1>1, <2>1, <2>2, <3>1 DEF Messages
  <2>3. CASE m.type = "Scrollback"
    <3>1. m.bytes \in Seq(Chunks(m.session)) /\ m.session \in Name
      BY <2>1, <2>3, MessageParts DEF Messages
    <3> QED BY <1>2, <2>1, <2>3, <3>1 DEF Messages
  <2> QED BY <2>1, <2>2, <2>3 DEF Messages
<1>4. ASSUME NEW s \in Seq(Messages)
      PROVE  s \in Seq(Messages')
  BY <1>3, SeqGrows
<1> QED BY <1>1, <1>2, <1>3, <1>4

\* Queueing messages of a kind leaves only messages of that kind queued.
LEMMA QueuedOfKind ==
    ASSUME IInv, NEW S, \A c \in Client : outbox[c] \in Seq(S),
           NEW msgs, \A c \in Client : msgs[c] \in Seq(S),
           NEW c \in Client
    PROVE  Queued(msgs)[c] \in Seq(S)
<1>1. Room(c) \in Nat
  BY RoomType
<1>2. outbox[c] \in Seq(S) /\ msgs[c] \in Seq(S)
  OBVIOUS
<1>3. CASE Len(msgs[c]) <= Room(c)
  BY <1>2, <1>3, ConcatProperties DEF Queued
<1>4. CASE ~ (Len(msgs[c]) <= Room(c))
  <2> DEFINE head == SubSeq(msgs[c], 1, Room(c))
  <2>1. \A i \in 1 .. Room(c) : msgs[c][i] \in S
    BY <1>1, <1>2, <1>4, LenProperties, ElementOfSeq
  <2>2. head \in Seq(S)
    BY <1>1, <2>1, SubSeqProperties
  <2>3. Queued(msgs)[c] = outbox[c] \o head
    BY <1>4 DEF Queued
  <2> HIDE DEF head
  <2> QED BY <1>2, <2>2, <2>3, ConcatProperties
<1> QED BY <1>3, <1>4

\* Every message but one that carries output is of the kind.
LEMMA OtherMessages ==
    ASSUME NEW m \in ServerMessage, m.type \notin {"Output", "Scrollback"}
    PROVE  m \in Messages /\ m \in Messages'
BY DEF Messages

\* A step keeps what it does not say anew.
LEMMA WrittenStays ==
    ASSUME IInv, IInv', Written, \A id \in SessionId : produced[id] <= produced'[id],
           \A c \in Client : outbox'[c] \in Seq(Messages) \/ outbox'[c] \in Seq(Messages'),
           \A n \in Name : history'[n] \in Seq(Chunks(n)) \/ history'[n] \in Seq(Chunks(n)'),
           \A c \in Client, n \in Name : view'[c][n].text \in Seq(Chunks(n))
    PROVE  Written'
<1>1. HistoriesAreWritten'
  BY WritingGrows DEF HistoriesAreWritten
<1>2. ViewsAreWritten'
  BY WritingGrows DEF ViewsAreWritten
<1>3. QueuesAreWritten'
  BY WritingGrows DEF QueuesAreWritten
<1> QED BY <1>1, <1>2, <1>3 DEF Written

LEMMA ProducedIsNatural ==
    ASSUME IInv, NEW id \in SessionId
    PROVE  produced[id] \in Nat
BY BoundAssumption DEF IInv, TypeOK, ManagerType

\* Messages that carry no output may be queued for whom it be.
LEMMA SayingKeepsWritten ==
    ASSUME IInv, IInv', Written, UNCHANGED <<produced, view>>,
           \A n \in Name : history'[n] = history[n] \/ history'[n] = <<>>,
           \/ \A c \in Client : outbox'[c] = outbox[c] \/ outbox'[c] = <<>>
           \/ \E msgs : /\ outbox' = Queued(msgs)
                        /\ \A c \in Client : msgs[c] \in Seq(Messages)
    PROVE  Written'
<1>1. \A id \in SessionId : produced[id] <= produced'[id]
  BY ProducedIsNatural
<1>2. \A n \in Name : history'[n] \in Seq(Chunks(n))
  BY ShortSequences DEF Written, HistoriesAreWritten
<1>3. \A c \in Client, n \in Name : view'[c][n].text \in Seq(Chunks(n))
  BY DEF Written, ViewsAreWritten
<1>4. ASSUME NEW c \in Client
      PROVE  outbox'[c] \in Seq(Messages)
  <2>1. CASE \A d \in Client : outbox'[d] = outbox[d] \/ outbox'[d] = <<>>
    BY <2>1, ShortSequences DEF Written, QueuesAreWritten
  <2>2. CASE \E msgs : /\ outbox' = Queued(msgs)
                       /\ \A d \in Client : msgs[d] \in Seq(Messages)
    <3>1. PICK msgs : outbox' = Queued(msgs) /\ \A d \in Client : msgs[d] \in Seq(Messages)
      BY <2>2
    <3>2. Queued(msgs)[c] \in Seq(Messages)
      BY <3>1, QueuedOfKind DEF Written, QueuesAreWritten
    <3> QED BY <3>1, <3>2
  <2> QED BY <2>1, <2>2
<1> QED BY <1>1, <1>2, <1>3, <1>4, WrittenStays

\* What goes to one client, or to those attached, is of the kind it is.
LEMMA RecipientsOfKind ==
    ASSUME NEW S
    PROVE  /\ \A c \in Client, replies \in Seq(S), d \in Client : ToClient(c, replies)[d] \in Seq(S)
           /\ \A id \in SessionId, m \in S, d \in Client : ToAttached(id, m)[d] \in Seq(S)
BY DEF ToClient, ToAttached

LEMMA AnswersAreOfKind ==
    /\ \A c, d \in Client : ToClient(c, <<Answer>>)[d] \in Seq(Messages)
    /\ \A c \in Client : ReplyError(c) =>
         \E msgs : outbox' = Queued(msgs) /\ \A d \in Client : msgs[d] \in Seq(Messages)
<1>1. <<Answer>> \in Seq(Messages)
  BY MessageTypes, OtherMessages DEF Answer
<1>2. \A c, d \in Client : ToClient(c, <<Answer>>)[d] \in Seq(Messages)
  BY <1>1, RecipientsOfKind
<1> QED BY <1>2 DEF ReplyError, Reply, Enqueue

\* The steps that say nothing of a session's output.
LEMMA QuietKeepsWritten ==
    ASSUME IInv, IInv', Written,
           \/ \E c \in Client :
                \/ BadRequest(c) \/ ListSessions(c) \/ Detach(c) \/ Closed(c) \/ Reap(c)
                \/ WriteFails(c) \/ WriterDone(c)
                \/ \E supported \in BOOLEAN : Greet(c, supported)
                \/ \E n \in Name : Input(c, n) \/ \E g \in Geometries : Resize(c, n, g)
           \/ CollectDoomed
           \/ \E written \in BOOLEAN : Persist(written)
           \/ \E opened \in BOOLEAN : Connect(opened)
           \/ UNCHANGED vars
    PROVE  Written'
<1>1. UNCHANGED <<produced, view, history>>
  BY DEF BadRequest, ListSessions, Detach, Closed, Reap, WriteFails, WriterDone, Greet, Input, Resize,
         CollectDoomed, Persist, Connect, HandleFrame, vars, managerVars, threadVars
<1>2. \/ outbox' = outbox
      \/ \E c \in Client : WriteFails(c)
      \/ \E c \in Client : ReplyError(c) \/ outbox' = Queued(ToClient(c, <<Answer>>))
  BY DEF BadRequest, ListSessions, Detach, Closed, Reap, RemoveClient, WriterDone, Greet, Input,
         Resize, CollectDoomed, Persist, Connect, vars, queueVars, Reply, Enqueue
<1>3. \/ \A c \in Client : outbox'[c] = outbox[c] \/ outbox'[c] = <<>>
      \/ \E msgs : /\ outbox' = Queued(msgs)
                   /\ \A c \in Client : msgs[c] \in Seq(Messages)
  <2>1. CASE \E c \in Client : WriteFails(c)
    BY <2>1 DEF WriteFails, IInv, TypeOK, QueueType
  <2>2. CASE \E c \in Client : ReplyError(c) \/ outbox' = Queued(ToClient(c, <<Answer>>))
    BY <2>2, AnswersAreOfKind
  <2> QED BY <1>2, <2>1, <2>2
<1> QED BY <1>1, <1>3, SayingKeepsWritten

\* Attaching replays what was retained.
LEMMA RepliesAreOfKind ==
    ASSUME NEW n \in Name, NEW g \in Geometry, NEW bytes \in Seq(Chunks(n)),
           NEW replay \in BOOLEAN, NEW c \in Client, NEW d \in Client
    PROVE  ToClient(c, AttachReplies(n, g, bytes, replay))[d] \in Seq(Messages)
<1> DEFINE attached == [type |-> "Attached", session |-> n, grid |-> GridOf(g)]
           scrollback == [type |-> "Scrollback", session |-> n, bytes |-> bytes]
<1>1. attached \in Messages
  BY MessageTypes, OtherMessages
<1>2. bytes \in Seq(Chunk)
  BY SeqGrows DEF Chunks
<1>3. scrollback \in Messages
  BY <1>2, MessageTypes DEF Messages
<1>4. AttachReplies(n, g, bytes, replay) \in {<<attached>>, <<attached, scrollback>>}
  BY DEF AttachReplies
<1> HIDE DEF attached, scrollback
<1>5. AttachReplies(n, g, bytes, replay) \in Seq(Messages)
  BY <1>1, <1>3, <1>4, ShortSequences
<1> QED BY <1>5, RecipientsOfKind

LEMMA StartingHistory ==
    ASSUME IInv, NEW n \in Name, NEW g, CreateWith(n, g)
    PROVE  /\ produced' = produced
           /\ \A x \in Name : history'[x] = history[x] \/ history'[x] = <<>>
BY DEF CreateWith, IInv, TypeOK, ManagerType

LEMMA AttachKeepsWritten ==
    ASSUME IInv, IInv', Written, NEW c \in Client, NEW n \in Name, NEW replay \in BOOLEAN,
           Attach(c, n, replay)
    PROVE  Written'
<1>1. view' = view
  BY DEF Attach, HandleFrame, threadVars
<1>2. geometry[n] \in Geometry /\ DefaultGeometry \in Geometry
  BY GeometryAssumption DEF IInv, TypeOK, ManagerType
<1>3. history[n] \in Seq(Chunks(n)) /\ <<>> \in Seq(Chunks(n))
  BY DEF Written, HistoriesAreWritten
<1>4. CASE /\ UNCHANGED managerVars
           /\ Enqueue(ToClient(c, AttachReplies(n, geometry[n], history[n], replay)))
  <2>1. \A d \in Client : ToClient(c, AttachReplies(n, geometry[n], history[n], replay))[d] \in Seq(Messages)
    BY <1>2, <1>3, RepliesAreOfKind
  <2> QED BY <1>1, <1>4, <2>1, SayingKeepsWritten DEF Enqueue, managerVars
<1>5. CASE /\ CreateWith(n, DefaultGeometry)
           /\ Enqueue(ToClient(c, AttachReplies(n, DefaultGeometry, <<>>, replay)))
  <2>1. \A d \in Client : ToClient(c, AttachReplies(n, DefaultGeometry, <<>>, replay))[d] \in Seq(Messages)
    BY <1>2, <1>3, RepliesAreOfKind
  <2> QED BY <1>1, <1>5, <2>1, StartingHistory, SayingKeepsWritten DEF Enqueue
<1>6. CASE UNCHANGED managerVars /\ ReplyError(c)
  BY <1>1, <1>6, AnswersAreOfKind, SayingKeepsWritten DEF managerVars
<1> QED BY <1>4, <1>5, <1>6 DEF Attach

LEMMA SpawnKeepsWritten ==
    ASSUME IInv, IInv', Written, NEW c \in Client, NEW n \in Name, NEW g \in Geometries,
           Spawn(c, n, g)
    PROVE  Written'
<1> DEFINE asked == [g EXCEPT !.cell = 0]
<1>1. view' = view
  BY DEF Spawn, HandleFrame, threadVars
<1>2. asked \in Geometry /\ <<>> \in Seq(Chunks(n))
  BY GeometryAssumption DEF Geometry
<1>3. CASE CreateWith(n, asked) /\ Enqueue(ToClient(c, AttachReplies(n, asked, <<>>, TRUE)))
  <2> HIDE DEF asked
  <2>1. \A d \in Client : ToClient(c, AttachReplies(n, asked, <<>>, TRUE))[d] \in Seq(Messages)
    BY <1>2, RepliesAreOfKind
  <2> QED BY <1>1, <1>3, <2>1, StartingHistory, SayingKeepsWritten DEF Enqueue
<1>4. CASE UNCHANGED managerVars /\ ReplyError(c)
  BY <1>1, <1>4, AnswersAreOfKind, SayingKeepsWritten DEF managerVars
<1> QED BY <1>3, <1>4 DEF Spawn

LEMMA RespawnKeepsWritten ==
    ASSUME IInv, IInv', Written, NEW n \in Name, NEW started \in BOOLEAN, Respawn(n, started)
    PROVE  Written'
<1>1. UNCHANGED <<view, outbox>>
  BY DEF Respawn, threadVars, queueVars
<1>2. CASE CreateWith(n, DefaultGeometry)
  BY <1>1, <1>2, StartingHistory, SayingKeepsWritten
<1>3. CASE UNCHANGED managerVars
  BY <1>1, <1>3, SayingKeepsWritten DEF managerVars
<1> QED BY <1>2, <1>3 DEF Respawn

LEMMA SyncSizeKeepsWritten ==
    ASSUME IInv, IInv', Written, NEW id \in SessionId, SyncSize(id)
    PROVE  Written'
<1> DEFINE g == EffectiveSize(Wants(id))
           told == [type |-> "Resized", session |-> id.name, grid |-> GridOf(g)]
<1>1. UNCHANGED <<produced, view, history>>
  BY DEF SyncSize, threadVars
<1>2. CASE UNCHANGED queueVars
  BY <1>1, <1>2, SayingKeepsWritten DEF queueVars
<1>3. CASE Wants(id) # {} /\ Enqueue(ToAttached(id, told))
  <2>1. Wants(id) \subseteq Geometry
    BY DEF Wants, IInv, TypeOK, ClientType
  <2>2. g \in Geometry
    BY <1>3, <2>1, EffectiveSizeType
  <2> HIDE DEF g
  <2>3. told \in Messages
    BY <2>2, IdType, MessageTypes, OtherMessages
  <2> HIDE DEF told
  <2>4. \A d \in Client : ToAttached(id, told)[d] \in Seq(Messages)
    BY <2>3, RecipientsOfKind
  <2> QED BY <1>1, <1>3, <2>4, SayingKeepsWritten DEF Enqueue
<1> QED BY <1>2, <1>3 DEF SyncSize

LEMMA EndKeepsWritten ==
    ASSUME IInv, IInv', Written, UNCHANGED <<produced, view>>, NEW id \in SessionId, EndSession(id)
    PROVE  Written'
<1> DEFINE exit == [type |-> "Exit", session |-> id.name]
<1>1. exit \in Messages
  BY IdType, MessageTypes, OtherMessages
<1>2. outbox' = Queued(ToAttached(id, exit))
  BY DEF EndSession, Enqueue
<1> HIDE DEF exit
<1>3. \A d \in Client : ToAttached(id, exit)[d] \in Seq(Messages)
  BY <1>1, RecipientsOfKind
<1>4. \A n \in Name : history'[n] = history[n] \/ history'[n] = <<>>
  BY DEF EndSession, IInv, TypeOK, ManagerType
<1> QED BY <1>2, <1>3, <1>4, SayingKeepsWritten

LEMMA EndingsKeepWritten ==
    ASSUME IInv, IInv', Written,
           \/ \E c \in Client, n \in Name : Kill(c, n)
           \/ \E id \in SessionId : SessionExit(id)
    PROVE  Written'
<1>1. CASE \E c \in Client, n \in Name : Kill(c, n)
  <2>1. PICK c \in Client, n \in Name : Kill(c, n)
    BY <1>1
  <2>2. UNCHANGED <<produced, view>>
    BY <2>1 DEF Kill, HandleFrame, threadVars
  <2>3. CASE Live(n) /\ EndSession(Current(n))
    <3>1. Current(n) \in SessionId
      BY <2>3, IdType, BoundAssumption DEF Current, Live, IInv, TypeOK, ManagerType
    <3> QED BY <2>2, <2>3, <3>1, EndKeepsWritten
  <2>4. CASE UNCHANGED history /\ ReplyError(c)
    BY <2>2, <2>4, AnswersAreOfKind, SayingKeepsWritten
  <2> QED BY <2>1, <2>3, <2>4 DEF Kill
<1>2. CASE \E id \in SessionId : SessionExit(id)
  <2>1. PICK id \in SessionId : SessionExit(id)
    BY <1>2
  <2>2. UNCHANGED <<produced, view>>
    BY <2>1 DEF SessionExit, threadVars
  <2>3. CASE EndSession(id)
    BY <2>2, <2>3, EndKeepsWritten
  <2>4. CASE UNCHANGED <<history, queueVars>>
    BY <2>2, <2>4, SayingKeepsWritten DEF queueVars
  <2> QED BY <2>1, <2>3, <2>4 DEF SessionExit
<1> QED BY <1>1, <1>2

\* The retained output is of what joined it.
LEMMA RetainedOfKind ==
    ASSUME NEW S, NEW bytes \in Seq(S)
    PROVE  Retained(bytes) \in Seq(S)
<1>1. CASE ~ (Len(bytes) > HistoryCap)
  BY <1>1 DEF Retained
<1>2. CASE Len(bytes) > HistoryCap
  <2> DEFINE first == Len(bytes) - HistoryCap + 1
  <2>1. Len(bytes) \in Nat /\ first \in 1 .. Len(bytes)
    BY <1>2, BoundAssumption, LenProperties
  <2>2. \A i \in first .. Len(bytes) : bytes[i] \in S
    BY <2>1, ElementOfSeq
  <2>3. Retained(bytes) = SubSeq(bytes, first, Len(bytes))
    BY <1>2 DEF Retained
  <2> HIDE DEF first
  <2> QED BY <2>1, <2>2, <2>3, SubSeqProperties
<1> QED BY <1>1, <1>2

\* A frame changes what one client draws of one session, if that.
LEMMA FrameDraws ==
    ASSUME IInv, NEW c \in Client, WriteFrame(c), NEW d \in Client, NEW n \in Name
    PROVE  \/ view'[d][n] = view[d][n]
           \/ /\ d = c /\ Head(outbox[c]) # Answer /\ Head(outbox[c]).session = n
              /\ view'[d][n] = Seen(view[d][n], Head(outbox[c]))
<1> DEFINE m == Head(outbox[c])
<1>1. view' = IF m # Answer THEN [view EXCEPT ![c][m.session] = Seen(@, m)] ELSE view
  BY DEF WriteFrame
<1>2. view \in [Client -> [Name -> View]]
  BY DEF IInv, TypeOK, ThreadType, View
<1> HIDE DEF m
<1> QED BY <1>1, <1>2 DEF m

\* No chunk is anywhere when a server process starts.
LEMMA NothingIsWritten ==
    ASSUME history' = [n \in Name |-> <<>>], outbox' = [c \in Client |-> <<>>],
           view' = [c \in Client |-> [n \in Name |-> Unseen]]
    PROVE  Written'
BY ShortSequences DEF Unseen, Written, HistoriesAreWritten, ViewsAreWritten, QueuesAreWritten

\* A chunk is retained and queued once it is written.
LEMMA OutputKeepsWritten ==
    ASSUME IInv, IInv', Written, NEW id \in SessionId, SessionOutput(id)
    PROVE  Written'
<1> DEFINE n == id.name
           bytes == [generation |-> id.generation, index |-> produced[id] + 1]
           m == [type |-> "Output", session |-> n, bytes |-> bytes]
<1>1. /\ produced' = [produced EXCEPT ![id] = @ + 1] /\ produced[id] < MaxOutput
      /\ view' = view /\ n \in Name /\ id = IdOf(n, id.generation)
  BY IdType DEF SessionOutput, threadVars
<1>2. produced \in [SessionId -> Nat]
  BY BoundAssumption DEF IInv, TypeOK, ManagerType
<1>3. \A i \in SessionId : produced[i] <= produced'[i]
  BY <1>1, <1>2
<1>4. bytes \in Chunk /\ bytes.index = produced'[id] /\ bytes.generation = id.generation
  BY <1>1, <1>2, IdType, BoundAssumption DEF Chunk
<1>5. bytes \in Chunks(n)'
  <2>1. bytes.index <= produced'[IdOf(n, bytes.generation)]
    BY <1>1, <1>2, <1>4
  <2> HIDE DEF bytes
  <2> QED BY <1>4, <2>1 DEF Chunks
<1>6. \A c \in Client, x \in Name : view'[c][x].text \in Seq(Chunks(x))
  BY <1>1 DEF Written, ViewsAreWritten
<1>7. CASE IsCurrent(id)
  <2> HIDE DEF bytes
  <2>1. m \in Messages'
    BY <1>1, <1>4, <1>5, MessageTypes DEF Messages
  <2>2. /\ history' = [history EXCEPT ![n] = Retained(Append(@, bytes))]
        /\ outbox' = Queued(ToAttached(id, m))
    BY <1>7 DEF SessionOutput, Enqueue, bytes
  <2> HIDE DEF m
  <2>3. ASSUME NEW c \in Client
        PROVE  outbox'[c] \in Seq(Messages')
    <3>1. \A d \in Client : outbox[d] \in Seq(Messages')
      BY <1>3, WritingGrows DEF Written, QueuesAreWritten
    <3>2. \A d \in Client : ToAttached(id, m)[d] \in Seq(Messages')
      BY <2>1, RecipientsOfKind
    <3> QED BY <2>2, <3>1, <3>2, QueuedOfKind
  <2>4. history'[n] \in Seq(Chunks(n)')
    <3>1. history[n] \in Seq(Chunks(n)')
      BY <1>1, <1>3, WritingGrows DEF Written, HistoriesAreWritten
    <3>2. history'[n] = Retained(Append(history[n], bytes))
      BY <1>1, <2>2 DEF IInv, TypeOK, ManagerType
    <3>3. Append(history[n], bytes) \in Seq(Chunks(n)')
      BY <1>5, <3>1, AppendProperties
    <3> QED BY <3>2, <3>3, RetainedOfKind
  <2>5. \A x \in Name \ {n} : history'[x] \in Seq(Chunks(x))
    BY <2>2 DEF Written, HistoriesAreWritten, IInv, TypeOK, ManagerType
  <2> QED BY <1>3, <1>6, <2>3, <2>4, <2>5, WrittenStays
<1>8. CASE ~IsCurrent(id)
  <2>1. UNCHANGED <<history, queueVars>>
    BY <1>8 DEF SessionOutput
  <2>2. /\ \A c \in Client : outbox'[c] \in Seq(Messages)
        /\ \A x \in Name : history'[x] \in Seq(Chunks(x))
    BY <2>1 DEF queueVars, Written, QueuesAreWritten, HistoriesAreWritten
  <2> QED BY <1>3, <1>6, <2>2, WrittenStays
<1> QED BY <1>7, <1>8

\* What a client is handed was queued.
LEMMA WriteFrameKeepsWritten ==
    ASSUME IInv, IInv', Streams, Written, NEW c \in Client, WriteFrame(c)
    PROVE  Written'
<1> DEFINE m == Head(outbox[c])
<1>1. /\ produced' = produced /\ history' = history
      /\ outbox[c] # <<>> /\ outbox' = [outbox EXCEPT ![c] = Tail(@)]
  BY DEF WriteFrame, managerVars
<1>2. \A id \in SessionId : produced[id] <= produced'[id]
  BY <1>1, ProducedIsNatural
<1>3. \A n \in Name : history'[n] \in Seq(Chunks(n))
  BY <1>1 DEF Written, HistoriesAreWritten
<1>4. outbox[c] \in Seq(Messages)
  BY DEF Written, QueuesAreWritten
<1>5. m \in Messages /\ Tail(outbox[c]) \in Seq(Messages)
  BY <1>1, <1>4, HeadTailProperties
<1>6. \A d \in Client : outbox'[d] \in Seq(Messages)
  BY <1>1, <1>5 DEF Written, QueuesAreWritten, IInv, TypeOK, QueueType
<1>7. ASSUME NEW d \in Client, NEW n \in Name
      PROVE  view'[d][n].text \in Seq(Chunks(n))
  <2>1. view[d][n].text \in Seq(Chunks(n)) /\ view[d][n] \in View
    BY QueueAndView DEF Written, ViewsAreWritten
  <2>2. CASE view'[d][n].text = view[d][n].text
    BY <2>1, <2>2
  <2>3. CASE d = c /\ m # Answer /\ m.session = n /\ view'[d][n] = Seen(view[d][n], m)
    <3>1. m \in ServerMessage
      BY <1>5 DEF Messages
    <3> HIDE DEF m
    <3> DEFINE seen == view[d][n]
    <3>2. seen \in [shown : BOOLEAN, grid : Grid, text : Seq(Chunk)] /\ m # Answer
      BY <2>1, <2>3 DEF View
    <3> HIDE DEF seen
    <3>3. Seen(seen, m).text = IF m.type = "Attached" THEN <<>>
                               ELSE IF m.type = "Scrollback" THEN seen.text \o m.bytes
                               ELSE IF m.type = "Output" THEN Append(seen.text, m.bytes)
                               ELSE seen.text
      BY <3>1, <3>2, SeenAs
    <3>4. view'[d][n].text = Seen(seen, m).text
      BY <2>3 DEF seen
    <3> USE DEF seen
    <3>5. m.type = "Scrollback" => view[d][n].text \o m.bytes \in Seq(Chunks(n))
      BY <1>5, <2>1, <2>3, ConcatProperties DEF Messages
    <3>6. m.type = "Output" => Append(view[d][n].text, m.bytes) \in Seq(Chunks(n))
      BY <1>5, <2>1, <2>3, AppendProperties DEF Messages
    <3> QED BY <2>1, <3>3, <3>4, <3>5, <3>6, ShortSequences
  <2> QED BY <2>2, <2>3, FrameDraws
<1> QED BY <1>2, <1>3, <1>6, <1>7, WrittenStays

LEMMA NextKeepsWritten ==
    ASSUME IInv, Streams, Written, [Next]_vars
    PROVE  Written'
<1>1. IInv'
  BY NextKeepsIInv
<1>2. ASSUME NEW c \in Client, ClientRequest(c)
      PROVE  Written'
  BY <1>1, <1>2, QuietKeepsWritten, AttachKeepsWritten, SpawnKeepsWritten, EndingsKeepWritten
     DEF ClientRequest
<1>3. ASSUME NEW c \in Client, Closed(c) \/ WriterStep(c)
      PROVE  Written'
  BY <1>1, <1>3, QuietKeepsWritten, WriteFrameKeepsWritten DEF WriterStep
<1>4. ASSUME NEW id \in SessionId, SessionOutput(id) \/ SessionExit(id)
      PROVE  Written'
  BY <1>1, <1>4, OutputKeepsWritten, EndingsKeepWritten
<1>5. CASE Finish
  BY <1>1, <1>5, SyncSizeKeepsWritten, QuietKeepsWritten, RespawnKeepsWritten DEF Finish
<1>6. CASE Crash
  BY <1>6, NothingIsWritten DEF Crash
<1>7. CASE (\E opened \in BOOLEAN : Connect(opened)) \/ UNCHANGED vars
  BY <1>1, <1>7, QuietKeepsWritten
<1> QED BY <1>2, <1>3, <1>4, <1>5, <1>6, <1>7 DEF Next

LEMMA WrittenInvariant == Spec => [](IInv /\ Streams /\ Written)
<1>1. Init => Written
  <2> SUFFICES ASSUME Init PROVE Written
    OBVIOUS
  <2>1. HistoriesAreWritten /\ QueuesAreWritten
    BY ShortSequences DEF Init, HistoriesAreWritten, QueuesAreWritten
  <2>2. ViewsAreWritten
    BY ShortSequences DEF Init, Unseen, ViewsAreWritten
  <2> QED BY <2>1, <2>2 DEF Written
<1>2. Init => IInv /\ Streams
  BY InitIInv, InitStreams
<1>3. IInv /\ Streams /\ Written /\ [Next]_vars => (IInv /\ Streams /\ Written)'
  BY NextKeepsIInv, NextKeepsStreams, NextKeepsWritten
<1> QED BY <1>1, <1>2, <1>3, PTL DEF Spec

-----------------------------------------------------------------------------
(* The server implements MuxService *)

\* An unbroken text counts up from its first chunk.
LEMMA UnbrokenCounts ==
    ASSUME NEW text \in Seq(Chunk), Unbroken(text), text # <<>>, NEW i \in 1 .. Len(text)
    PROVE  text[i] = [generation |-> text[1].generation, index |-> text[1].index + i - 1]
<1> DEFINE At(k) == [generation |-> text[1].generation, index |-> text[1].index + k - 1]
           wrong == {k \in 1 .. Len(text) : text[k] # At(k)}
<1>1. Len(text) \in Nat /\ \A k \in 1 .. Len(text) : text[k] \in Chunk
  BY LenProperties, ElementOfSeq
<1>2. text[1] \in Chunk /\ text[1].index \in Nat
  BY <1>1, EmptySeq, BoundAssumption DEF Chunk
<1>3. text[1] = At(1)
  BY <1>2 DEF Chunk
<1>4. SUFFICES ASSUME wrong # {} PROVE FALSE
  OBVIOUS
<1>5. PICK k \in wrong : \A j \in wrong : k <= j
  <2>1. wrong \subseteq Nat
    BY <1>1
  <2> HIDE DEF wrong
  <2> QED BY <1>4, <2>1, MinIsLeast
<1>6. k \in 2 .. Len(text) /\ k - 1 \in 1 .. Len(text) - 1 /\ k - 1 \notin wrong
  BY <1>1, <1>3, <1>5
<1>7. text[k - 1] = At(k - 1)
  BY <1>1, <1>6
<1>8. text[k] = Following(text[k - 1])
  <2>1. text[(k - 1) + 1] = Following(text[k - 1])
    BY <1>6 DEF Unbroken
  <2>2. (k - 1) + 1 = k
    BY <1>1, <1>6
  <2> QED BY <2>1, <2>2
<1>9. text[k] = At(k)
  <2>1. text[k] = [generation |-> text[1].generation, index |-> (text[1].index + (k - 1) - 1) + 1]
    BY <1>7, <1>8 DEF Following
  <2>2. text[1].index \in Int /\ k \in Int
    BY <1>2, <1>6
  <2>3. ASSUME NEW a \in Int, NEW b \in Int
        PROVE  (a + (b - 1) - 1) + 1 = a + b - 1
    OBVIOUS
  <2> QED BY <2>1, <2>2, <2>3
<1> QED BY <1>5, <1>9

\* It is a stretch of what an incarnation of the name wrote.
LEMMA UnbrokenIsStretch ==
    ASSUME IInv, NEW n \in Name, NEW text \in Seq(Chunks(n)), Unbroken(text), text # <<>>
    PROVE  text \in Service!Stretches(n)
<1> DEFINE g == text[1].generation
           first == text[1].index
           last == first + Len(text) - 1
<1>1. text \in Seq(Chunk) /\ Len(text) \in Nat /\ Len(text) >= 1
  BY SeqGrows, LenProperties, EmptySeq DEF Chunks
<1>2. \A i \in 1 .. Len(text) : text[i] \in Chunks(n)
  BY <1>1, ElementOfSeq
<1>3. text[1] \in Chunk /\ g \in 1 .. MaxGeneration /\ first \in 1 .. MaxOutput
  BY <1>1, <1>2 DEF Chunks, Chunk
<1>4. \A i \in 1 .. Len(text) : text[i] = [generation |-> g, index |-> first + i - 1]
  BY <1>1, UnbrokenCounts
<1>5. last \in 0 .. produced[IdOf(n, g)]
  <2>1. text[Len(text)] \in Chunks(n) /\ text[Len(text)] = [generation |-> g, index |-> first + Len(text) - 1]
    BY <1>1, <1>2, <1>4
  <2>2. first + Len(text) - 1 <= produced[IdOf(n, g)]
    BY <2>1 DEF Chunks
  <2>3. produced[IdOf(n, g)] \in Nat
    BY <1>3, IdType, ProducedIsNatural
  <2> QED BY <1>1, <1>3, <2>2, <2>3, BoundAssumption
<1>6. text = Service!Stretch(g, first, last)
  <2>1. last + 1 - first = Len(text)
    BY <1>1, <1>3, BoundAssumption
  <2>2. Service!Stretch(g, first, last) =
            [i \in 1 .. Len(text) |-> [generation |-> g, index |-> first + i - 1]]
    BY <2>1 DEF Service!Stretch
  <2>3. text = [i \in 1 .. Len(text) |-> text[i]]
    BY <1>1, LenProperties
  <2> HIDE DEF g, first, last
  <2> QED BY <1>4, <2>2, <2>3
<1>7. Service!Id(n, g) = IdOf(n, g)
  BY DEF Service!Id, IdOf
<1> HIDE DEF g, first, last
<1> QED BY <1>3, <1>5, <1>6, <1>7 DEF Service!Stretches

-----------------------------------------------------------------------------
\* A step that touches none of these is one the service does not see.
Unseeing == UNCHANGED <<sessions, program, attachments, produced, view, saved, respawning>>

LEMMA MappedStays ==
    /\ view' = view => Drawn' = Drawn
    /\ program' = program => Started' = Started
BY DEF Drawn, Started

LEMMA UnseenStutters ==
    ASSUME Unseeing
    PROVE  UNCHANGED Service!vars
BY MappedStays DEF Unseeing, Service!vars

LEMMA QuietIsServed ==
    ASSUME IInv,
           \/ \E c \in Client :
                \/ BadRequest(c) \/ ListSessions(c) \/ WriteFails(c) \/ WriterDone(c)
                \/ \E supported \in BOOLEAN : Greet(c, supported)
                \/ \E n \in Name : Input(c, n) \/ \E g \in Geometries : Resize(c, n, g)
           \/ \E id \in SessionId : SyncSize(id)
           \/ CollectDoomed
           \/ \E opened \in BOOLEAN : Connect(opened)
           \/ UNCHANGED vars
    PROVE  [Service!Next]_(Service!vars)
<1>1. Unseeing
  BY DEF BadRequest, ListSessions, WriteFails, WriterDone, Greet, Input, Resize, SyncSize,
         CollectDoomed, Connect, HandleFrame, vars, managerVars, threadVars, clientVars, fileVars,
         Unseeing
<1> QED BY <1>1, UnseenStutters

\* A client lets go.
LEMMA LettingGoIsServed ==
    ASSUME IInv, NEW c \in Client, Detach(c) \/ Closed(c) \/ Reap(c)
    PROVE  [Service!Next]_(Service!vars)
<1>1. /\ attachments' = [attachments EXCEPT ![c] = {}]
      /\ UNCHANGED <<sessions, program, produced, view, saved, respawning>>
  BY DEF Detach, Closed, Reap, RemoveClient, Unconstrain, HandleFrame, managerVars, threadVars, fileVars
<1>2. Service!Leave(c)
  BY <1>1, MappedStays DEF Service!Leave
<1> QED BY <1>2 DEF Service!Next

\* The recipes are brought up to date, if they changed and could be written.
LEMMA PersistIsServed ==
    ASSUME IInv, NEW written \in BOOLEAN, Persist(written)
    PROVE  [Service!Next]_(Service!vars)
<1>1. UNCHANGED <<sessions, program, attachments, produced, view, respawning>>
  BY DEF Persist, managerVars, threadVars, clientVars
<1>2. CASE saved' = saved
  BY <1>1, <1>2, UnseenStutters DEF Unseeing
<1>3. CASE saved' = LiveNames
  <2>1. Service!Save
    BY <1>1, <1>3, MappedStays DEF Service!Save, Service!Live, Persist, Settled, LiveNames, Live
  <2> QED BY <2>1 DEF Service!Next
<1> QED BY <1>2, <1>3 DEF Persist

\* A session that starts is an incarnation that never ran.
LEMMA StartBegins ==
    ASSUME IInv, NEW n \in Name, ~Live(n), NEW g \in Geometry, CreateWith(n, g)
    PROVE  /\ Service!Begin(n, IdOf(n, nextGeneration))
           /\ IdOf(n, nextGeneration) \in Service!Incarnation
           /\ UNCHANGED produced
<1> DEFINE id == IdOf(n, nextGeneration)
<1>1. nextGeneration \in 1 .. MaxGeneration
  BY CreateKeepsType DEF IInv, TypeOK
<1>2. id \in SessionId /\ id.name = n /\ id.generation = nextGeneration
  BY <1>1, IdType
<1>3. program[id] = "unused"
  BY <1>1, <1>2 DEF IInv, GenerationsAreUsed
<1>4. /\ sessions' = [sessions EXCEPT ![n] = id.generation]
      /\ program' = [program EXCEPT ![id] = "running"]
      /\ program \in [SessionId -> {"unused", "running", "signalled", "ended"}]
  BY <1>2 DEF CreateWith, IInv, TypeOK, ManagerType
<1>5. Started' = Started \cup {id} /\ id \notin Started
  BY <1>2, <1>3, <1>4 DEF Started
<1>6. SessionId = Service!Incarnation
  BY DEF SessionId, Service!Incarnation
<1> HIDE DEF id
<1>7. Service!Begin(n, id)
  BY <1>2, <1>4, <1>5, <1>6 DEF Service!Begin, Service!Live, Live
<1> QED BY <1>2, <1>6, <1>7 DEF CreateWith, id

LEMMA AttachedFollows ==
    ASSUME NEW c \in Client, NEW id, AttachClient(c, id)
    PROVE  attachments' = attachments \/ Service!Follows(c, id)
BY DEF AttachClient, Service!Follows

LEMMA StartIsServed ==
    ASSUME IInv, NEW n \in Name, ~Live(n), NEW g \in Geometry, CreateWith(n, g), NEW c \in Client,
           AttachClient(c, IdOf(n, nextGeneration)), UNCHANGED <<view, saved, respawning>>
    PROVE  [Service!Next]_(Service!vars)
<1> DEFINE id == IdOf(n, nextGeneration)
<1>1. Service!Begin(n, id) /\ id \in Service!Incarnation /\ UNCHANGED produced
  BY StartBegins
<1>2. attachments' = attachments \/ Service!Follows(c, id)
  BY AttachedFollows
<1> HIDE DEF id
<1>3. Service!Start(n)
  BY <1>1, <1>2, MappedStays DEF Service!Start
<1> QED BY <1>3 DEF Service!Next

LEMMA RequestsAreServed ==
    ASSUME IInv, NEW c \in Client, NEW n \in Name,
           \/ \E replay \in BOOLEAN : Attach(c, n, replay)
           \/ \E g \in Geometries : Spawn(c, n, g)
    PROVE  [Service!Next]_(Service!vars)
<1>1. UNCHANGED <<view, saved, respawning>>
  BY DEF Attach, Spawn, HandleFrame, threadVars, fileVars
<1>2. CASE UNCHANGED <<managerVars, attachments>>
  BY <1>1, <1>2, UnseenStutters DEF Unseeing, managerVars
<1>3. CASE Live(n) /\ AttachClient(c, Current(n)) /\ UNCHANGED managerVars
  <2>1. attachments' = attachments \/ Service!Follows(c, Current(n))
    BY <1>3, AttachedFollows
  <2>2. Service!Follow(c, n) \/ UNCHANGED <<managerVars, attachments>>
    BY <1>1, <1>3, <2>1, MappedStays DEF Service!Follow, Service!Live, Service!Id, Live, Current, IdOf, managerVars
  <2> QED BY <1>2, <2>2 DEF Service!Next
<1>4. CASE /\ ~Live(n) /\ AttachClient(c, IdOf(n, nextGeneration))
           /\ \E g \in Geometry : CreateWith(n, g)
  BY <1>1, <1>4, StartIsServed
<1>5. DefaultGeometry \in Geometry /\ \A g \in Geometries : [g EXCEPT !.cell = 0] \in Geometry
  BY GeometryAssumption DEF Geometry
<1> QED BY <1>2, <1>3, <1>4, <1>5 DEF Attach, Spawn

\* A recipe's session is back, or the recipe is taken for nothing.
LEMMA RespawnIsServed ==
    ASSUME IInv, NEW n \in Name, NEW started \in BOOLEAN, Respawn(n, started)
    PROVE  [Service!Next]_(Service!vars)
<1>1. /\ n \in respawning /\ respawning' = respawning \ {n} /\ ~Live(n)
      /\ UNCHANGED <<attachments, view, saved>>
  BY DEF Respawn, threadVars, clientVars, IInv, RespawningIsAtBoot
<1>2. \/ UNCHANGED <<sessions, program, produced>>
      \/ CreateWith(n, DefaultGeometry)
  BY DEF Respawn, managerVars
<1>3. CASE UNCHANGED <<sessions, program, produced>>
  <2>1. Service!Restore(n)
    BY <1>1, <1>3, MappedStays DEF Service!Restore
  <2> QED BY <2>1 DEF Service!Next
<1>4. CASE CreateWith(n, DefaultGeometry)
  <2> DEFINE id == IdOf(n, nextGeneration)
  <2>1. Service!Begin(n, id) /\ id \in Service!Incarnation /\ UNCHANGED produced
    BY <1>1, <1>4, StartBegins, GeometryAssumption
  <2> HIDE DEF id
  <2>2. Service!Restore(n)
    BY <1>1, <2>1, MappedStays DEF Service!Restore
  <2> QED BY <2>2 DEF Service!Next
<1> QED BY <1>2, <1>3, <1>4

\* A session ends, whichever of a kill and an exit ends it.
LEMMA EndIsServed ==
    ASSUME IInv, NEW id \in SessionId, IsCurrent(id), EndSession(id), NEW end,
           end # "unused", program' = [program EXCEPT ![id] = end],
           UNCHANGED <<produced, view, saved, respawning>>
    PROVE  [Service!Next]_(Service!vars)
<1> DEFINE n == id.name
<1>1. n \in Name /\ Live(n) /\ id = Current(n)
  BY IdType, CurrentIsLive
<1>2. program[id] = "running" /\ program \in [SessionId -> {"unused", "running", "signalled", "ended"}]
  BY DEF IInv, SessionsMatchPrograms, TypeOK, ManagerType
<1>3. Started' = Started
  BY <1>2 DEF Started
<1>4. /\ sessions' = [sessions EXCEPT ![n] = 0]
      /\ attachments' = [c \in Client |-> attachments[c] \ {Service!Id(n, sessions[n])}]
  BY <1>1 DEF EndSession, Forget, Service!Id, Current, IdOf
<1>5. Service!End(n)
  BY <1>1, <1>3, <1>4, MappedStays DEF Service!End, Service!Live, Live
<1> QED BY <1>1, <1>5 DEF Service!Next

LEMMA EndingsAreServed ==
    ASSUME IInv,
           \/ \E c \in Client, n \in Name : Kill(c, n)
           \/ \E id \in SessionId : SessionExit(id)
    PROVE  [Service!Next]_(Service!vars)
<1>1. ASSUME NEW c \in Client, NEW n \in Name, Kill(c, n)
      PROVE  [Service!Next]_(Service!vars)
  <2>1. UNCHANGED <<produced, view, saved, respawning>>
    BY <1>1 DEF Kill, HandleFrame, threadVars, fileVars
  <2>2. CASE Live(n)
    <3>1. Current(n) \in SessionId /\ IsCurrent(Current(n))
      BY <2>2, BoundAssumption DEF Current, IdOf, SessionId, IsCurrent, Live, IInv, TypeOK, ManagerType
    <3>2. EndSession(Current(n)) /\ program' = [program EXCEPT ![Current(n)] = "signalled"]
      BY <1>1, <2>2 DEF Kill
    <3> QED BY <2>1, <3>1, <3>2, EndIsServed
  <2>3. CASE ~Live(n)
    BY <1>1, <2>1, <2>3, UnseenStutters DEF Kill, Unseeing
  <2> QED BY <2>2, <2>3
<1>2. ASSUME NEW id \in SessionId, SessionExit(id)
      PROVE  [Service!Next]_(Service!vars)
  <2>1. /\ UNCHANGED <<produced, view, saved, respawning>>
        /\ program' = [program EXCEPT ![id] = "ended"] /\ Runs(id)
    BY <1>2 DEF SessionExit, threadVars, fileVars
  <2>2. CASE IsCurrent(id)
    BY <1>2, <2>1, <2>2, EndIsServed DEF SessionExit
  <2>3. CASE ~IsCurrent(id)
    <3>1. Started' = Started
      BY <2>1 DEF Started, Runs, IInv, TypeOK, ManagerType
    <3>2. UNCHANGED <<sessions, attachments>>
      BY <1>2, <2>3 DEF SessionExit
    <3> QED BY <2>1, <3>1, <3>2, MappedStays DEF Service!vars
  <2> QED BY <2>2, <2>3
<1> QED BY <1>1, <1>2

LEMMA OutputIsServed ==
    ASSUME IInv, NEW id \in SessionId, SessionOutput(id)
    PROVE  [Service!Next]_(Service!vars)
<1>1. /\ produced[id] < MaxOutput /\ produced' = [produced EXCEPT ![id] = @ + 1]
      /\ id \in Started
      /\ UNCHANGED <<sessions, program, attachments, view, saved, respawning>>
  BY DEF SessionOutput, Runs, Started, threadVars, fileVars, clientVars
<1>2. id \in Service!Incarnation
  BY DEF SessionId, Service!Incarnation
<1>3. Service!Write(id)
  BY <1>1, MappedStays DEF Service!Write
<1> QED BY <1>2, <1>3 DEF Service!Next

\* What all draw, after one drew something else of one session.
LEMMA DrawnChanges ==
    ASSUME NEW c \in Client, NEW n \in Name,
           \A d \in Client, x \in Name : ~(d = c /\ x = n) => view'[d][x] = view[d][x]
    PROVE  Drawn' = [Drawn EXCEPT ![c][n] = view'[c][n].text]
<1> DEFINE after == view'[c][n].text
           changed == [Drawn EXCEPT ![c][n] = after]
<1>1. changed = [d \in Client |-> [x \in Name |-> IF d = c /\ x = n THEN after ELSE view[d][x].text]]
  <2> HIDE DEF after
  <2> QED BY DEF Drawn
<1>2. \A d \in Client, x \in Name :
        view'[d][x].text = IF d = c /\ x = n THEN after ELSE view[d][x].text
  OBVIOUS
<1> HIDE DEF after, changed
<1> QED BY <1>1, <1>2 DEF Drawn, after, changed

LEMMA DrawnStays ==
    ASSUME \A d \in Client, x \in Name : view'[d][x].text = view[d][x].text
    PROVE  Drawn' = Drawn
BY DEF Drawn

\* A frame hands a client a stretch, or the next chunk, or nothing yet.
LEMMA FrameIsServed ==
    ASSUME IInv, Streams, Written, (Streams /\ Written)', NEW c \in Client, WriteFrame(c)
    PROVE  [Service!Next]_(Service!vars)
<1> SUFFICES ASSUME NEW m, m = Head(outbox[c])
             PROVE  [Service!Next]_(Service!vars)
  OBVIOUS
<1>1. UNCHANGED <<sessions, program, attachments, produced, saved, respawning>>
  BY DEF WriteFrame, managerVars, clientVars, fileVars
<1>2. outbox[c] \in Seq(ServerMessage) /\ outbox[c] # <<>> /\ m \in ServerMessage
  BY QueueAndView DEF WriteFrame
<1>3. CASE m = Answer
  BY <1>1, <1>3, UnseenStutters DEF WriteFrame, Unseeing
<1>4. CASE m # Answer
  <2>1. PICK n \in Name : n = m.session
    BY <1>2, <1>4, SessionOfType
  <2> DEFINE text == view[c][n].text
             after == view'[c][n].text
             last == text[Len(text)]
  <2>2. /\ view[c][n] \in View /\ Unbroken(text) /\ Joined(outbox[c], text, n)
        /\ after \in Seq(Chunks(n)') /\ Unbroken(after)
    BY QueueAndView DEF Streams, TextsAreJoined, Written, ViewsAreWritten
  <2>3. after = <<>> \/ after \in Service!Stretches(n)
    <3>1. Chunks(n)' = Chunks(n)
      BY <1>1 DEF Chunks
    <3> HIDE DEF after
    <3> QED BY <2>1, <2>2, <3>1, UnbrokenIsStretch
  <2>4. \A d \in Client, x \in Name : ~(d = c /\ x = n) => view'[d][x] = view[d][x]
    BY <2>1, FrameDraws
  <2>5. view'[c][n] = After(view[c][n], m, n) \/ after = text
    BY <1>4, <2>1, FrameDraws DEF After
  <2>6. \/ after = <<>>
        \/ after = text
        \/ text = <<>>
        \/ text # <<>> /\ last.index < produced[IdOf(n, last.generation)]
           /\ after = Append(text, [last EXCEPT !.index = @ + 1])
    <3> DEFINE seen == view[c][n]
    <3>1. text = seen.text /\ seen \in View /\ Unbroken(seen.text) /\ Joined(outbox[c], seen.text, n)
      BY <2>2
    <3>2. view'[c][n] = After(seen, m, n) \/ after = text
      BY <2>5
    <3> HIDE DEF text, seen
    <3>3. /\ m \notin TextMarks(n) => After(seen, m, n).text = text
          /\ m \in TextMarks(n) /\ m.type = "Attached" => After(seen, m, n).text = Leaves(m)
          /\ m \in TextMarks(n) /\ m.type = "Output" =>
               After(seen, m, n).text = Append(text, m.bytes) /\ Joins(text, m)
      BY <1>2, <3>1, TextAfter
    <3>4. CASE m \in TextMarks(n) /\ m.type = "Output"
      <4>1. SUFFICES ASSUME text # <<>>
                     PROVE  /\ last.index < produced[IdOf(n, last.generation)]
                            /\ m.bytes = [last EXCEPT !.index = @ + 1]
        BY <3>2, <3>3, <3>4
      <4>2. text \in Seq(Chunk)
        BY <3>1 DEF View
      <4>3. last \in Chunk
        BY <4>1, <4>2, EmptySeq, LenProperties, ElementOfSeq
      <4>4. m.bytes = Following(last)
        BY <3>3, <3>4, <4>1 DEF Joins
      <4>5. m \in Messages
        BY <1>2 DEF Written, QueuesAreWritten
      <4>6. m.bytes.index <= produced[IdOf(n, m.bytes.generation)]
        BY <2>1, <3>4, <4>5 DEF Messages, Chunks
      <4> HIDE DEF last
      <4>7. m.bytes.index = last.index + 1 /\ m.bytes.generation = last.generation
        BY <4>3, <4>4 DEF Following, Chunk
      <4>8. last.index \in Nat /\ produced[IdOf(n, last.generation)] \in Nat
        BY <4>3, IdType, ProducedIsNatural, BoundAssumption DEF Chunk
      <4> QED BY <4>4, <4>6, <4>7, <4>8 DEF Following
    <3>5. CASE m \in TextMarks(n) /\ m.type = "Scrollback"
      <4>1. Joins(text, m)
        BY <1>2, <3>1, <3>5, HeadJoins
      <4> QED BY <3>5, <4>1 DEF Joins
    <3>6. CASE m \in TextMarks(n) /\ m.type = "Attached"
      BY <3>2, <3>3, <3>6, LeavesText
    <3>7. CASE m \notin TextMarks(n)
      BY <3>2, <3>3, <3>7
    <3> QED BY <3>4, <3>5, <3>6, <3>7 DEF TextMarks
  <2>7. Drawn[c][n] = text
    BY <2>1 DEF Drawn
  <2> HIDE DEF text, after, last
  <2>8. CASE after = text
    <3>1. Drawn' = Drawn
      BY <2>1, <2>4, <2>8, DrawnStays DEF text, after
    <3> QED BY <1>1, <3>1, MappedStays DEF Service!vars
  <2>9. CASE after # text
    <3>1. Drawn' = [Drawn EXCEPT ![c][n] = after]
      BY <2>1, <2>4, DrawnChanges DEF after
    <3>2. Service!Draw(c, n)
      BY <1>1, <2>3, <2>6, <2>7, <2>9, <3>1, MappedStays DEF Service!Draw, Service!Id, IdOf, last
    <3> QED BY <2>1, <3>2 DEF Service!Next
  <2> QED BY <2>8, <2>9
<1> QED BY <1>3, <1>4

\* The process is started again, with its recipes and nothing else.
LEMMA CrashIsServed ==
    ASSUME Crash
    PROVE  Service!Restart
<1>1. Started' = {}
  BY DEF Crash, Started
<1>2. Drawn' = [c \in Client |-> [n \in Name |-> <<>>]]
  BY DEF Crash, Unseen, Drawn
<1>3. produced' = [id \in Service!Incarnation |-> 0]
  BY DEF Crash, SessionId, Service!Incarnation
<1> QED BY <1>1, <1>2, <1>3 DEF Crash, Service!Restart, Service!NothingRuns

LEMMA InitIsServed ==
    ASSUME Init
    PROVE  Service!Init
<1>1. Started = {}
  BY DEF Init, Started
<1>2. Drawn = [c \in Client |-> [n \in Name |-> <<>>]]
  BY DEF Init, Unseen, Drawn
<1>3. produced = [id \in Service!Incarnation |-> 0]
  BY DEF Init, SessionId, Service!Incarnation
<1> QED BY <1>1, <1>2, <1>3 DEF Init, Service!Init, Service!NothingRuns

LEMMA NextIsServed ==
    ASSUME IInv, Streams, Written, [Next]_vars
    PROVE  [Service!Next]_(Service!vars)
<1>1. ASSUME NEW c \in Client, ClientRequest(c)
      PROVE  [Service!Next]_(Service!vars)
  BY <1>1, QuietIsServed, LettingGoIsServed, RequestsAreServed, EndingsAreServed DEF ClientRequest
<1>2. ASSUME NEW c \in Client, Closed(c) \/ WriterStep(c)
      PROVE  [Service!Next]_(Service!vars)
  BY <1>2, QuietIsServed, LettingGoIsServed, FrameIsServed, NextKeepsStreams, NextKeepsWritten
     DEF WriterStep
<1>3. ASSUME NEW id \in SessionId, SessionOutput(id) \/ SessionExit(id)
      PROVE  [Service!Next]_(Service!vars)
  BY <1>3, OutputIsServed, EndingsAreServed
<1>4. CASE Finish
  BY <1>4, QuietIsServed, LettingGoIsServed, PersistIsServed, RespawnIsServed DEF Finish
<1>5. CASE Crash
  BY <1>5, CrashIsServed DEF Service!Next
<1>6. CASE (\E opened \in BOOLEAN : Connect(opened)) \/ UNCHANGED vars
  BY <1>6, QuietIsServed
<1> QED BY <1>1, <1>2, <1>3, <1>4, <1>5, <1>6 DEF Next

\* The server implements the service: dispatch.rs, session.rs, connection.rs
\* and persist.rs together do, step by step, nothing MuxService does not allow.
THEOREM ServerServes == Spec => ServesSessions
<1>1. Init => Service!Init
  BY InitIsServed
<1>2. IInv /\ Streams /\ Written /\ [Next]_vars => [Service!Next]_(Service!vars)
  BY NextIsServed
<1> QED BY <1>1, <1>2, WrittenInvariant, PTL DEF Spec, ServesSessions, Service!Spec
=============================================================================
