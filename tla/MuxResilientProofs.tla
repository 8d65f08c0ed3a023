-------------------------- MODULE MuxResilientProofs --------------------------
(***************************************************************************)
(* Theorems about MuxResilient, for both transports and every choice of    *)
(* its constants.                                                          *)
(***************************************************************************)
EXTENDS MuxResilient, SequenceTheorems, TLAPS

-----------------------------------------------------------------------------
(* The retry budget *)

\* Every attempt since the last message has been paid for with a retry.
DialsArePaid == retries \in 0 .. MaxRetries /\ dials = retries

LEMMA NextPays ==
    ASSUME DialsArePaid, [Next]_vars
    PROVE  DialsArePaid'
<1> USE BoundAssumption DEF DialsArePaid
<1>1. CASE UNCHANGED retryVars
  BY <1>1 DEF retryVars
<1>2. CASE Receive
  BY <1>2 DEF Receive
<1>3. CASE Redial
  BY <1>3 DEF Redial, OutOfRetries, Spent, retryVars
<1>4. CASE Elapse
  BY <1>4 DEF Elapse
<1>5. CASE FindNothing \/ ReadFails \/ CheckEof \/ SendInput \/ \E size \in Sizes : Resize(size)
  BY <1>1, <1>5 DEF FindNothing, ReadFails, CheckEof, SendInput, Resize, retryVars
<1>6. CASE Pump \/ PumpEnds \/ ServeRequest \/ Produce \/ Lose \/ Restore \/ UNCHANGED vars
  BY <1>1, <1>6 DEF Pump, PumpEnds, ServeRequest, Produce, Lose, Restore, vars, clientVars
<1>7. CASE Close \/ End \/ StartElsewhere
  BY <1>1, <1>7 DEF Close, End, StartElsewhere, clientVars
<1> QED BY <1>2, <1>3, <1>4, <1>5, <1>6, <1>7 DEF Next, Poll

\* Between two messages a client dials at most MAX_RETRIES times, however
\* many of the dials succeed (resilience.rs `try_reconnect').
THEOREM RetriesBoundDials == Spec => []DialsAreSpent
<1>1. Init => DialsArePaid
  BY BoundAssumption DEF Init, DialsArePaid
<1>2. DialsArePaid => DialsAreSpent
  BY BoundAssumption DEF DialsArePaid, DialsAreSpent
<1> QED BY <1>1, <1>2, NextPays, PTL DEF Spec

-----------------------------------------------------------------------------
(* The size the server was told *)

ResizeAt(r, i) == r[i].type = "Resize"
AttachAt(r, i) == r[i].type = "Attach"

\* An attach is on its way.
Awaited(r) == \E i \in DOMAIN r : AttachAt(r, i)

\* An attach is ahead of every size.
Orderly(r) == \A i, j \in DOMAIN r : AttachAt(r, i) /\ ResizeAt(r, j) => i < j

\* The last size on its way is `size'.
Pending(r, size) ==
    \E i \in DOMAIN r :
        /\ ResizeAt(r, i) /\ r[i].size = size
        /\ \A j \in DOMAIN r : ResizeAt(r, j) => j =< i

NonePending(r) == \A i \in DOMAIN r : ~ResizeAt(r, i)

\* On a connection that reaches the server, the pane's size follows an attach
\* on its way, and is held or on its way once the server has it attached.
SizeIsUnderWay ==
    /\ requests \in Seq(Request) /\ Orderly(requests)
    /\ up => /\ Awaited(requests) => Pending(requests, lastResize)
             /\ attached => \/ Pending(requests, lastResize)
                            \/ wanted = lastResize /\ NonePending(requests)

\* What taking the oldest request leaves.
LEMMA TailFacts ==
    ASSUME NEW r \in Seq(Request), r # <<>>
    PROVE  /\ Tail(r) \in Seq(Request) /\ Len(r) \in Nat \ {0} /\ Head(r) = r[1]
           /\ DOMAIN r = 1 .. Len(r) /\ DOMAIN Tail(r) = 1 .. Len(r) - 1
           /\ \A i \in DOMAIN Tail(r) : i + 1 \in DOMAIN r /\ Tail(r)[i] = r[i + 1]
<1> QED BY HeadTailProperties

LEMMA TailKeepsOrder ==
    ASSUME NEW r \in Seq(Request), r # <<>>, Orderly(r)
    PROVE  Orderly(Tail(r)) /\ (Awaited(Tail(r)) => Awaited(r))
<1>1. \A i, j \in DOMAIN Tail(r) : AttachAt(Tail(r), i) /\ ResizeAt(Tail(r), j) => i < j
  <2> TAKE i, j \in DOMAIN Tail(r)
  <2> HAVE AttachAt(Tail(r), i) /\ ResizeAt(Tail(r), j)
  <2>1. i + 1 \in DOMAIN r /\ j + 1 \in DOMAIN r /\ i \in Nat /\ j \in Nat
    BY TailFacts
  <2>2. AttachAt(r, i + 1) /\ ResizeAt(r, j + 1)
    BY TailFacts DEF AttachAt, ResizeAt
  <2>3. i + 1 < j + 1
    BY <2>1, <2>2 DEF Orderly
  <2> QED BY <2>1, <2>3
<1>2. ASSUME Awaited(Tail(r))
      PROVE  Awaited(r)
  BY <1>2, TailFacts DEF Awaited, AttachAt
<1> QED BY <1>1, <1>2 DEF Orderly

\* A size that is last on its way still is, unless it is the one taken.
LEMMA TailKeepsPending ==
    ASSUME NEW r \in Seq(Request), r # <<>>, NEW size, Pending(r, size)
    PROVE  \/ Pending(Tail(r), size)
           \/ ResizeAt(r, 1) /\ r[1].size = size /\ NonePending(Tail(r))
<1>1. PICK i \in DOMAIN r : /\ ResizeAt(r, i) /\ r[i].size = size
                            /\ \A j \in DOMAIN r : ResizeAt(r, j) => j =< i
  BY DEF Pending
<1>2. \A j \in DOMAIN Tail(r) : j + 1 \in DOMAIN r /\ j \in Nat \ {0} /\ Tail(r)[j] = r[j + 1]
  BY TailFacts
<1>3. i \in Nat \ {0}
  BY TailFacts
<1>4. CASE i = 1
  <2>1. \A j \in DOMAIN Tail(r) : ~ResizeAt(r, j + 1)
    BY <1>1, <1>2, <1>4
  <2> QED BY <1>1, <1>2, <1>4, <2>1 DEF NonePending, ResizeAt
<1>5. CASE i # 1
  <2>1. i - 1 \in DOMAIN Tail(r) /\ ResizeAt(Tail(r), i - 1) /\ Tail(r)[i - 1].size = size
    BY <1>1, <1>3, <1>5, TailFacts DEF ResizeAt
  <2>2. \A j \in DOMAIN Tail(r) : ResizeAt(Tail(r), j) => j =< i - 1
    <3> TAKE j \in DOMAIN Tail(r)
    <3> HAVE ResizeAt(Tail(r), j)
    <3>1. j + 1 =< i
      BY <1>1, <1>2 DEF ResizeAt
    <3> QED BY <1>2, <1>3, <3>1
  <2> QED BY <2>1, <2>2 DEF Pending
<1> QED BY <1>4, <1>5

\* A size that is sent is the last on its way, behind any attach.
LEMMA AppendTells ==
    ASSUME NEW r \in Seq(Request), Orderly(r), NEW size \in Sizes
    PROVE  LET longer == Append(r, Report(size))
           IN  longer \in Seq(Request) /\ Orderly(longer) /\ Pending(longer, size)
<1> DEFINE longer == Append(r, Report(size))
           n == Len(r)
<1>1. Report(size) \in Request /\ Report(size).type = "Resize" /\ Report(size).size = size
  BY DEF Report, Request
<1>2. /\ n \in Nat /\ longer \in Seq(Request)
      /\ DOMAIN longer = 1 .. n + 1 /\ DOMAIN r = 1 .. n
      /\ longer[n + 1] = Report(size) /\ \A i \in 1 .. n : longer[i] = r[i]
  BY <1>1
<1> HIDE DEF longer, n
<1>3. \A i, j \in DOMAIN longer : AttachAt(longer, i) /\ ResizeAt(longer, j) => i < j
  <2> TAKE i, j \in DOMAIN longer
  <2> HAVE AttachAt(longer, i) /\ ResizeAt(longer, j)
  <2>1. i \in 1 .. n
    BY <1>1, <1>2 DEF AttachAt
  <2>2. CASE j = n + 1
    BY <1>2, <2>1, <2>2
  <2>3. CASE j \in 1 .. n
    BY <1>2, <2>1, <2>3 DEF Orderly, AttachAt, ResizeAt
  <2> QED BY <1>2, <2>2, <2>3
<1>4. Pending(longer, size)
  <2>1. n + 1 \in DOMAIN longer /\ ResizeAt(longer, n + 1) /\ longer[n + 1].size = size
    BY <1>1, <1>2 DEF ResizeAt
  <2>2. \A j \in DOMAIN longer : j =< n + 1
    BY <1>2
  <2> QED BY <2>1, <2>2 DEF Pending
<1> QED BY <1>2, <1>3, <1>4 DEF Orderly, longer

\* A connection opens with no size before its attach.
LEMMA OpeningIsOrderly ==
    ASSUME NEW replay \in BOOLEAN
    PROVE  Opening(replay) \in Seq(Request) /\ Orderly(Opening(replay))
<1> DEFINE hello == [type |-> "Hello"]
           attach == [type |-> "Attach", replay |-> replay]
<1>1. hello \in Request /\ attach \in Request
  BY DEF Request
<1>2. Opening(replay) \in {<<attach, hello>>, <<hello, attach>>}
  BY DEF Opening
<1>3. \A i \in DOMAIN Opening(replay) : Opening(replay)[i] \in {hello, attach}
  BY <1>2
<1> QED BY <1>1, <1>2, <1>3 DEF Orderly, ResizeAt

\* A fresh connection is told the size.
LEMMA DialTells ==
    ASSUME NEW replay \in BOOLEAN, Dial(replay), lastResize' = lastResize, lastResize \in Sizes
    PROVE  SizeIsUnderWay'
<1>1. CASE ~reachable
  <2>1. requests' = <<>> /\ ~up'
    BY <1>1 DEF Dial
  <2> QED BY <2>1 DEF SizeIsUnderWay, Orderly
<1>2. CASE reachable
  <2>1. requests' = Append(Opening(replay), Report(lastResize)) /\ ~attached'
    BY <1>2 DEF Dial
  <2> QED BY <2>1, OpeningIsOrderly, AppendTells DEF SizeIsUnderWay
<1> QED BY <1>1, <1>2

\* The server takes the oldest request: the size it holds is then the one
\* that was last on its way, or that one is on its way still.
LEMMA ServingTells ==
    ASSUME SizeIsUnderWay, ServeRequest
    PROVE  SizeIsUnderWay'
<1> DEFINE r == requests
<1>1. r \in Seq(Request) /\ r # <<>> /\ Orderly(r) /\ up /\ lastResize' = lastResize
  BY DEF SizeIsUnderWay, ServeRequest, clientVars
<1>2. Orderly(Tail(r)) /\ (Awaited(Tail(r)) => Awaited(r)) /\ Tail(r) \in Seq(Request)
  BY <1>1, TailKeepsOrder, TailFacts
<1>3. Head(r) = r[1] /\ 1 \in DOMAIN r /\ \A i \in DOMAIN r : ~(i < 1)
  BY <1>1, TailFacts
<1>4. ASSUME ~ResizeAt(r, 1)
      PROVE  /\ Pending(r, lastResize) => Pending(Tail(r), lastResize)
             /\ NonePending(r) => NonePending(Tail(r))
  BY <1>1, <1>4, TailKeepsPending, TailFacts DEF NonePending, ResizeAt
<1>5. CASE Head(r).type = "Hello" /\ Greet
  <2>1. CASE speaks
    <3>1. requests' = Tail(r) /\ UNCHANGED <<up, attached, wanted>> /\ ~ResizeAt(r, 1)
      BY <1>3, <1>5, <2>1 DEF Greet, ResizeAt
    <3> QED BY <1>1, <1>2, <1>4, <3>1 DEF SizeIsUnderWay
  <2>2. CASE ~speaks
    <3>1. requests' = <<>> /\ ~up'
      BY <1>5, <2>2 DEF Greet
    <3> QED BY <3>1 DEF SizeIsUnderWay, Orderly
  <2> QED BY <2>1, <2>2
<1>6. CASE Head(r).type = "Attach" /\ Attach(Head(r).replay)
  <2>1. requests' = Tail(r) /\ UNCHANGED <<up, wanted>> /\ ~ResizeAt(r, 1) /\ Awaited(r)
    BY <1>3, <1>6 DEF Attach, ResizeAt, Awaited, AttachAt
  <2>2. Pending(Tail(r), lastResize)
    BY <1>1, <1>4, <2>1 DEF SizeIsUnderWay
  <2> QED BY <1>1, <1>2, <2>1, <2>2 DEF SizeIsUnderWay
<1>7. CASE Head(r).type = "Resize" /\ TakeSize(Head(r).size)
  <2>1. requests' = Tail(r) /\ UNCHANGED <<up, attached>> /\ ResizeAt(r, 1)
    BY <1>3, <1>7 DEF TakeSize, ResizeAt
  <2>2. ~Awaited(r)
    BY <1>1, <1>3, <2>1 DEF Orderly, Awaited
  <2>3. ASSUME attached
        PROVE  \/ Pending(Tail(r), lastResize)
               \/ wanted' = lastResize /\ NonePending(Tail(r))
    <3>1. Pending(r, lastResize)
      BY <1>1, <1>3, <2>1, <2>3 DEF SizeIsUnderWay, NonePending
    <3>2. wanted' = r[1].size
      BY <1>3, <1>7, <2>3 DEF TakeSize
    <3> QED BY <1>1, <3>1, <3>2, TailKeepsPending
  <2> QED BY <1>1, <1>2, <2>1, <2>2, <2>3 DEF SizeIsUnderWay
<1> QED BY <1>5, <1>6, <1>7 DEF ServeRequest

\* The pane reports a size.
LEMMA ReportingTells ==
    ASSUME SizeIsUnderWay, NEW size \in Sizes, Resize(size)
    PROVE  SizeIsUnderWay'
<1>1. requests \in Seq(Request) /\ Orderly(requests) /\ lastResize' = size /\ up' = up
  BY DEF SizeIsUnderWay, Resize
<1>2. CASE up
  <2>1. requests' = Append(requests, Report(size))
    BY <1>2 DEF Resize
  <2> QED BY <1>1, <2>1, AppendTells DEF SizeIsUnderWay
<1>3. CASE ~up
  BY <1>1, <1>3 DEF SizeIsUnderWay, Resize
<1> QED BY <1>2, <1>3

LEMMA NextTells ==
    ASSUME SizeIsUnderWay, lastResize \in Sizes, [Next]_vars
    PROVE  SizeIsUnderWay' /\ lastResize' \in Sizes
<1>1. ASSUME UNCHANGED <<up, requests, attached, wanted, lastResize>>
      PROVE  SizeIsUnderWay' /\ lastResize' \in Sizes
  BY <1>1 DEF SizeIsUnderWay
<1>2. CASE Redial
  <2>1. lastResize' = lastResize
    BY <1>2 DEF Redial
  <2>2. CASE Dial(Replayed)
    BY <2>1, <2>2, DialTells DEF Replayed
  <2>3. CASE UNCHANGED lineVars
    BY <1>1, <2>1, <2>3 DEF lineVars
  <2> QED BY <1>2, <2>2, <2>3 DEF Redial
<1>3. CASE ServeRequest
  BY <1>3, ServingTells DEF ServeRequest, clientVars
<1>4. CASE \E size \in Sizes : Resize(size)
  BY <1>4, ReportingTells DEF Resize
<1>5. CASE Lose \/ Close
  <2>1. requests' = <<>> /\ ~up' /\ lastResize' = lastResize
    BY <1>5 DEF Lose, Close, clientVars
  <2> QED BY <2>1 DEF SizeIsUnderWay, Orderly
<1>6. CASE End
  BY <1>6 DEF End, SizeIsUnderWay, clientVars
<1>7. CASE Receive \/ FindNothing \/ ReadFails \/ CheckEof \/ SendInput \/ StartElsewhere
  BY <1>1, <1>7 DEF Receive, FindNothing, ReadFails, CheckEof, SendInput, StartElsewhere, lineVars,
     clientVars
<1>8. CASE Pump \/ PumpEnds \/ Produce \/ Restore \/ Elapse \/ UNCHANGED vars
  BY <1>1, <1>8 DEF Pump, PumpEnds, Produce, Restore, Elapse, vars, lineVars, clientVars
<1> QED BY <1>2, <1>3, <1>4, <1>5, <1>6, <1>7, <1>8 DEF Next, Poll

\* However often the connection is replaced, the server's arbitration sees
\* the pane's latest size, also of a session that was started anew
\* (resilience.rs:206).
THEOREM ConstraintSurvives == Spec => []ConstraintIsRestored
<1> DEFINE Tells == SizeIsUnderWay /\ lastResize \in Sizes
<1>1. Init => Tells
  <2> SUFFICES ASSUME Init
               PROVE  SizeIsUnderWay
    BY SizeAssumption DEF Init
  <2>1. CASE reachable
    BY <2>1, SizeAssumption, OpeningIsOrderly, AppendTells DEF Init, SizeIsUnderWay
  <2>2. CASE ~reachable
    BY <2>2 DEF Init, SizeIsUnderWay, Orderly
  <2> QED BY <2>1, <2>2
<1>2. Tells /\ [Next]_vars => Tells'
  BY NextTells
<1>3. Tells => ConstraintIsRestored
  BY DEF SizeIsUnderWay, Pending, ConstraintIsRestored
<1> QED BY <1>1, <1>2, <1>3, PTL DEF Spec

-----------------------------------------------------------------------------
(* Types *)

LEMMA MessageTypes ==
    /\ \A type \in {"Hello", "Attached", "Error", "Exit"} : [type |-> type] \in Message
    /\ \A upTo \in 1 .. MaxOutput : [type |-> "Output", upTo |-> upTo] \in Message
    /\ \A from, upTo \in 1 .. MaxOutput :
        [type |-> "Scrollback", from |-> from, upTo |-> upTo] \in Message
BY DEF Message

\* What the pane is given of a message.
LEMMA OutputsType ==
    ASSUME NEW m \in Message
    PROVE  Outputs(m) \in Seq(1 .. MaxOutput)
<1>1. CASE m.type = "Scrollback"
  <2>1. m.from \in 1 .. MaxOutput /\ m.upTo \in 1 .. MaxOutput
    BY <1>1 DEF Message
  <2>2. Outputs(m) = [i \in 1 .. m.upTo - m.from + 1 |-> m.from + i - 1]
    BY <1>1 DEF Outputs
  <2>3. CASE m.upTo - m.from + 1 \in Nat
    <3>1. \A i \in 1 .. m.upTo - m.from + 1 : m.from + i - 1 \in 1 .. MaxOutput
      BY <2>1, BoundAssumption
    <3> DEFINE n == m.upTo - m.from + 1
               f == [i \in 1 .. n |-> m.from + i - 1]
    <3>2. f \in [1 .. n -> 1 .. MaxOutput]
      BY <3>1
    <3>3. n \in Nat
      BY <2>3
    <3> HIDE DEF n
    <3>4. f \in Seq(1 .. MaxOutput)
      BY <3>2, <3>3, IsASeq
    <3> QED BY <2>2, <3>4 DEF n
  <2>4. CASE m.upTo - m.from + 1 \notin Nat
    <3>1. 1 .. m.upTo - m.from + 1 = {}
      BY <2>1, <2>4, BoundAssumption
    <3>2. Outputs(m) = <<>>
      BY <2>2, <3>1
    <3> QED BY <3>2
  <2> QED BY <2>3, <2>4
<1>2. CASE m.type = "Output"
  <2>1. m.upTo \in 1 .. MaxOutput
    BY <1>2 DEF Message
  <2> QED BY <1>2, <2>1 DEF Outputs
<1>3. CASE m.type # "Scrollback" /\ m.type # "Output"
  <2>1. Outputs(m) = <<>>
    BY <1>3 DEF Outputs
  <2> QED BY <2>1
<1> QED BY <1>1, <1>2, <1>3

\* The type invariant, in parts that a step changes or not.
SessionType ==
    ends \in 0 .. MaxEnds /\ alive \in BOOLEAN /\ produced \in 0 .. MaxOutput
    /\ started \in 0 .. produced
WorldType ==
    /\ bridged \in BOOLEAN /\ reachable \in BOOLEAN /\ speaks \in BOOLEAN
    /\ failures \in 0 .. MaxFailures
LineType ==
    /\ up \in BOOLEAN /\ attached \in BOOLEAN /\ wanted \in Sizes \cup {NoSize}
    /\ requests \in Seq(Request) /\ wire \in Seq(Message)
TransportType == channel \in Seq(Message) /\ eof \in BOOLEAN
RetryType ==
    /\ retries \in 0 .. MaxRetries /\ backoff \in 0 .. MaxBackoff /\ dials \in Nat
    /\ due \in {"never", "waiting", "passed"}
PaneType ==
    /\ phase \in {"idle", "asking", "redialing", "closed"} /\ connected \in BOOLEAN
    /\ lastResize \in Sizes /\ calls \in 0 .. MaxCalls
    /\ shown \in Seq(1 .. MaxOutput) /\ exited \in BOOLEAN

LEMMA TypeParts ==
    TypeOK <=> /\ WorldType /\ SessionType /\ LineType
               /\ TransportType /\ RetryType /\ PaneType
BY DEF TypeOK, WorldType, SessionType, LineType, TransportType, RetryType, PaneType

LEMMA UnchangedTypes ==
    ASSUME TypeOK
    PROVE  /\ UNCHANGED <<bridged, reachable, failures, speaks>> => WorldType'
           /\ UNCHANGED sessionVars => SessionType'
           /\ UNCHANGED worldVars => WorldType' /\ SessionType'
           /\ UNCHANGED lineVars => LineType'
           /\ UNCHANGED transportVars => TransportType'
           /\ UNCHANGED retryVars => RetryType'
           /\ UNCHANGED <<phase, connected, lastResize, calls, shown, exited>> => PaneType'
           /\ UNCHANGED clientVars => PaneType' /\ RetryType'
<1>1. WorldType /\ SessionType /\ LineType /\ TransportType /\ RetryType /\ PaneType
  BY TypeParts
<1>2. UNCHANGED <<bridged, reachable, failures, speaks>> => WorldType'
  BY <1>1 DEF WorldType
<1>3. UNCHANGED sessionVars => SessionType'
  BY <1>1 DEF SessionType, sessionVars
<1>4. UNCHANGED lineVars => LineType'
  BY <1>1 DEF LineType, lineVars
<1>5. UNCHANGED transportVars => TransportType'
  BY <1>1 DEF TransportType, transportVars
<1>6. UNCHANGED retryVars => RetryType'
  BY <1>1 DEF RetryType, retryVars
<1>7. UNCHANGED <<phase, connected, lastResize, calls, shown, exited>> => PaneType'
  BY <1>1 DEF PaneType
<1> QED BY <1>2, <1>3, <1>4, <1>5, <1>6, <1>7 DEF worldVars, clientVars

LEMMA Bounds ==
    /\ MaxRetries \in Nat \ {0} /\ MaxBackoff \in Nat \ {0}
    /\ MaxOutput \in Nat /\ MaxFailures \in Nat /\ MaxEnds \in Nat /\ MaxCalls \in Nat
BY BoundAssumption

LEMMA TypedTail ==
    ASSUME NEW s \in Seq(Message), s # <<>>
    PROVE  Head(s) \in Message /\ Tail(s) \in Seq(Message)
BY HeadTailProperties

LEMMA DialKeepsTypes ==
    ASSUME TypeOK, NEW replay \in BOOLEAN, Dial(replay)
    PROVE  LineType' /\ TransportType'
<1>1. requests' \in Seq(Request)
  BY OpeningIsOrderly, AppendTells DEF Dial, TypeOK
<1>2. up' \in BOOLEAN /\ attached' \in BOOLEAN /\ wanted' \in Sizes \cup {NoSize}
  BY DEF Dial, TypeOK
<1>3. wire' = <<>> /\ channel' = <<>> /\ eof' = FALSE
  BY DEF Dial
<1>4. <<>> \in Seq(Message)
  OBVIOUS
<1> QED BY <1>1, <1>2, <1>3, <1>4 DEF LineType, TransportType

LEMMA InitType == Init => TypeOK
<1> SUFFICES ASSUME Init PROVE TypeOK
  OBVIOUS
<1> USE Bounds
<1>1. requests \in Seq(Request)
  <2>1. Append(Opening(TRUE), Report(FirstSize)) \in Seq(Request)
    BY OpeningIsOrderly, AppendTells, SizeAssumption
  <2>2. requests = Append(Opening(TRUE), Report(FirstSize)) \/ requests = <<>>
    BY DEF Init
  <2>3. <<>> \in Seq(Request)
    OBVIOUS
  <2> QED BY <2>1, <2>2, <2>3
<1>2. WorldType /\ SessionType
  <2>1. bridged \in BOOLEAN /\ reachable \in BOOLEAN /\ speaks \in BOOLEAN /\ failures = 0
    BY DEF Init
  <2>2. ends = 0 /\ alive = FALSE /\ produced = 0 /\ started = 0
    BY DEF Init
  <2>3. WorldType
    BY <2>1 DEF WorldType
  <2>4. SessionType
    <3>1. alive \in BOOLEAN
      BY <2>2
    <3>2. ends \in 0 .. MaxEnds /\ produced \in 0 .. MaxOutput /\ started \in 0 .. produced
      BY <2>2
    <3> QED BY <3>1, <3>2 DEF SessionType
  <2> QED BY <2>3, <2>4
<1>3. LineType /\ TransportType
  <2>1. up \in BOOLEAN /\ attached \in BOOLEAN /\ wanted \in Sizes \cup {NoSize} /\ eof \in BOOLEAN
    BY DEF Init
  <2>2. wire = <<>> /\ channel = <<>>
    BY DEF Init
  <2> QED BY <1>1, <2>1, <2>2 DEF LineType, TransportType
<1>4. RetryType
  BY DEF Init, RetryType
<1>5. PaneType
  <2>1. shown = <<>>
    BY DEF Init
  <2>2. lastResize \in Sizes /\ calls \in 0 .. MaxCalls
    BY SizeAssumption DEF Init
  <2>3. phase = "idle" /\ connected = TRUE /\ exited = FALSE
    BY DEF Init
  <2>4. shown \in Seq(1 .. MaxOutput)
    BY <2>1
  <2> QED BY <2>2, <2>3, <2>4 DEF PaneType
<1> QED BY <1>2, <1>3, <1>4, <1>5, TypeParts

LEMMA ServingKeepsTypes ==
    ASSUME TypeOK, ServeRequest
    PROVE  TypeOK'
<1>1. /\ requests # <<>>
      /\ UNCHANGED <<bridged, reachable, failures, speaks>>
      /\ UNCHANGED transportVars /\ UNCHANGED clientVars
  BY DEF ServeRequest
<1>2. /\ requests \in Seq(Request) /\ wire \in Seq(Message)
      /\ produced \in 0 .. MaxOutput /\ started \in 0 .. produced /\ MaxOutput \in Nat
  BY Bounds DEF TypeOK
<1>3. Head(requests) \in Request /\ Tail(requests) \in Seq(Request)
  BY <1>1, <1>2, HeadTailProperties
<1>4. ASSUME LineType', SessionType'
      PROVE  TypeOK'
  <2>1. WorldType' /\ TransportType' /\ RetryType' /\ PaneType'
    BY <1>1, UnchangedTypes
  <2> QED BY <1>4, <2>1, TypeParts, PTL
<1>5. CASE Greet
  <2>1. CASE speaks
    <3>1. [type |-> "Hello"] \in Message
      BY MessageTypes
    <3>2. /\ wire' = Append(wire, [type |-> "Hello"]) /\ requests' = Tail(requests)
          /\ UNCHANGED <<up, attached, wanted>> /\ UNCHANGED sessionVars
      BY <1>5, <2>1 DEF Greet
    <3>3. wire' \in Seq(Message)
      BY <1>2, <3>1, <3>2
    <3>4. LineType'
      BY <1>3, <3>2, <3>3 DEF LineType, TypeOK
    <3> QED BY <1>4, <3>2, <3>4, UnchangedTypes
  <2>2. CASE ~speaks
    <3>1. [type |-> "Error"] \in Message
      BY MessageTypes
    <3>2. /\ wire' = Append(wire, [type |-> "Error"]) /\ requests' = <<>>
          /\ up' = FALSE /\ attached' = FALSE /\ wanted' = NoSize /\ UNCHANGED sessionVars
      BY <1>5, <2>2 DEF Greet
    <3>3. wire' \in Seq(Message) /\ requests' \in Seq(Request)
      BY <1>2, <3>1, <3>2
    <3>4. LineType'
      BY <3>2, <3>3 DEF LineType
    <3> QED BY <1>4, <3>2, <3>4, UnchangedTypes
  <2> QED BY <2>1, <2>2
<1>6. CASE Attach(Head(requests).replay)
  <2>1. SessionType'
    BY <1>2, <1>6 DEF Attach, SessionType, TypeOK
  <2>2. wire' \in Seq(Message)
    <3> DEFINE history == [type |-> "Scrollback", from |-> started' + 1, upTo |-> produced]
    <3>1. <<[type |-> "Attached"]>> \in Seq(Message)
      BY MessageTypes
    <3>2. CASE Head(requests).replay /\ produced > started'
      <4>1. started' + 1 \in 1 .. MaxOutput /\ produced \in 1 .. MaxOutput
        BY <1>2, <1>6, <3>2 DEF Attach
      <4>2. history \in Message
        BY <4>1, MessageTypes
      <4>3. wire' = wire \o <<[type |-> "Attached"]>> \o <<history>>
        BY <1>6, <3>2 DEF Attach
      <4> HIDE DEF history
      <4> QED BY <1>2, <3>1, <4>2, <4>3
    <3>3. CASE ~(Head(requests).replay /\ produced > started')
      <4>1. wire' = wire \o <<[type |-> "Attached"]>> \o <<>>
        BY <1>6, <3>3 DEF Attach
      <4> QED BY <1>2, <3>1, <4>1
    <3> QED BY <3>2, <3>3
  <2>3. LineType'
    BY <1>3, <1>6, <2>2 DEF Attach, LineType, TypeOK
  <2> QED BY <1>4, <2>1, <2>3
<1>7. CASE Head(requests).type = "Resize" /\ TakeSize(Head(requests).size)
  <2>1. Head(requests).size \in Sizes
    BY <1>3, <1>7 DEF Request
  <2>2. [type |-> "Error"] \in Message
    BY MessageTypes
  <2>3. wire' \in Seq(Message)
    BY <1>2, <1>7, <2>2 DEF TakeSize
  <2>4. LineType'
    BY <1>3, <1>7, <2>1, <2>3 DEF TakeSize, LineType, TypeOK
  <2> QED BY <1>4, <1>7, <2>4, UnchangedTypes DEF TakeSize
<1> QED BY <1>5, <1>6, <1>7 DEF ServeRequest

LEMMA NextKeepsTypes ==
    ASSUME TypeOK, [Next]_vars
    PROVE  TypeOK'
<1> USE Bounds
<1>0. WorldType /\ SessionType /\ LineType /\ TransportType /\ RetryType /\ PaneType
  BY TypeParts
<1>1. ASSUME WorldType', SessionType', LineType', TransportType', RetryType', PaneType'
      PROVE  TypeOK'
  BY <1>1, TypeParts, PTL
<1>2. CASE Receive
  <2>1. Readable \in Seq(Message) /\ Readable # <<>>
    BY <1>0, <1>2 DEF Receive, Readable, LineType, TransportType
  <2>2. Head(Readable) \in Message /\ Tail(Readable) \in Seq(Message)
    BY <2>1, TypedTail
  <2>3. PaneType'
    <3>1. Outputs(Head(Readable)) \in Seq(1 .. MaxOutput) /\ shown \in Seq(1 .. MaxOutput)
      BY <1>0, <2>2, OutputsType DEF PaneType
    <3>2. shown' = shown \o Outputs(Head(Readable))
      BY <1>2 DEF Receive
    <3>3. shown' \in Seq(1 .. MaxOutput)
      BY <3>1, <3>2, ConcatProperties
    <3>4. exited' \in BOOLEAN /\ UNCHANGED <<phase, connected, lastResize, calls>>
      BY <1>0, <1>2 DEF Receive, PaneType
    <3> QED BY <1>0, <3>3, <3>4 DEF PaneType
  <2>4. LineType' /\ TransportType'
    BY <1>0, <1>2, <2>2 DEF Receive, Readable, LineType, TransportType
  <2>5. RetryType'
    BY <1>0, <1>2 DEF Receive, RetryType
  <2> QED BY <1>1, <1>2, <2>3, <2>4, <2>5, UnchangedTypes DEF Receive
<1>3. CASE FindNothing
  <2>1. TransportType' /\ PaneType'
    BY <1>0, <1>3 DEF FindNothing, TransportType, PaneType, LineType
  <2> QED BY <1>1, <1>3, <2>1, UnchangedTypes DEF FindNothing
<1>4. CASE ReadFails
  <2>1. WorldType'
    BY <1>0, <1>4 DEF ReadFails, WorldType
  <2>2. PaneType'
    BY <1>0, <1>4 DEF ReadFails, PaneType
  <2> QED BY <1>1, <1>4, <2>1, <2>2, UnchangedTypes DEF ReadFails
<1>5. CASE CheckEof
  <2>1. PaneType'
    BY <1>0, <1>5 DEF CheckEof, PaneType
  <2> QED BY <1>1, <1>5, <2>1, UnchangedTypes DEF CheckEof
<1>6. CASE SendInput
  <2>1. PaneType'
    BY <1>0, <1>6 DEF SendInput, Sent, PaneType
  <2> QED BY <1>1, <1>6, <2>1, UnchangedTypes DEF SendInput
<1>7. CASE Redial
  <2>1. PaneType' /\ RetryType'
    <3>1. connected' \in BOOLEAN /\ phase' = "idle" /\ UNCHANGED <<lastResize, calls, shown, exited>>
      BY <1>0, <1>7 DEF Redial, PaneType
    <3>2. CASE UNCHANGED retryVars
      BY <1>0, <3>1, <3>2, UnchangedTypes DEF PaneType
    <3>3. CASE /\ ~OutOfRetries /\ due' = "waiting" /\ retries' = Spent /\ dials' = dials + 1
               /\ backoff' = IF due = "passed" /\ backoff < MaxBackoff THEN backoff + 1 ELSE backoff
      <4>1. retries' \in 0 .. MaxRetries /\ dials' \in Nat
        BY <1>0, <3>3 DEF OutOfRetries, Spent, RetryType
      <4>2. backoff' \in 0 .. MaxBackoff
        BY <1>0, <3>3 DEF RetryType
      <4> QED BY <1>0, <3>1, <3>3, <4>1, <4>2 DEF PaneType, RetryType
    <3> QED BY <1>7, <3>2, <3>3 DEF Redial
  <2>2. LineType' /\ TransportType'
    <3>1. Dial(Replayed) \/ UNCHANGED <<lineVars, transportVars>>
      BY <1>7 DEF Redial
    <3> QED BY <3>1, DialKeepsTypes, UnchangedTypes DEF Replayed
  <2> QED BY <1>1, <1>7, <2>1, <2>2, UnchangedTypes DEF Redial
<1>8. ASSUME NEW size \in Sizes, Resize(size)
      PROVE  TypeOK'
  <2>1. Report(size) \in Request
    BY DEF Report, Request
  <2>2. LineType'
    <3>1. requests' \in Seq(Request)
      BY <1>0, <1>8, <2>1 DEF Resize, LineType
    <3> QED BY <1>0, <1>8, <3>1 DEF Resize, LineType
  <2>3. PaneType'
    <3>1. /\ connected' \in BOOLEAN /\ lastResize' \in Sizes /\ calls' \in 0 .. MaxCalls
          /\ UNCHANGED <<phase, shown, exited>>
      <4>1. connected' \in BOOLEAN
        BY <1>0, <1>8 DEF Resize, Sent, PaneType
      <4>2. calls' \in 0 .. MaxCalls
        BY <1>0, <1>8 DEF Resize, PaneType
      <4> QED BY <1>8, <4>1, <4>2 DEF Resize
    <3> QED BY <1>0, <3>1 DEF PaneType
  <2> QED BY <1>1, <1>8, <2>2, <2>3, UnchangedTypes DEF Resize
<1>9. CASE Close
  <2>1. LineType' /\ TransportType'
    <3>1. /\ up' = FALSE /\ attached' = FALSE /\ wanted' = NoSize /\ eof' = TRUE
          /\ requests' = <<>> /\ wire' = <<>> /\ channel' = <<>>
      BY <1>9 DEF Close
    <3>2. requests' \in Seq(Request) /\ wire' \in Seq(Message) /\ channel' \in Seq(Message)
      BY <3>1
    <3> QED BY <3>1, <3>2 DEF LineType, TransportType
  <2>2. PaneType'
    BY <1>0, <1>9 DEF Close, PaneType
  <2> QED BY <1>1, <1>9, <2>1, <2>2, UnchangedTypes DEF Close
<1>10. CASE Pump
  <2>1. Head(wire) \in Message /\ Tail(wire) \in Seq(Message)
    BY <1>0, <1>10, TypedTail DEF Pump, LineType
  <2>2. channel' \in Seq(Message)
    BY <1>0, <1>10, <2>1 DEF Pump, TransportType
  <2>3. LineType' /\ TransportType'
    BY <1>0, <1>10, <2>1, <2>2 DEF Pump, LineType, TransportType
  <2> QED BY <1>1, <1>10, <2>3, UnchangedTypes DEF Pump
<1>11. CASE PumpEnds
  <2>1. TransportType'
    BY <1>0, <1>11 DEF PumpEnds, TransportType
  <2> QED BY <1>1, <1>11, <2>1, UnchangedTypes DEF PumpEnds
<1>12. CASE ServeRequest
  BY <1>12, ServingKeepsTypes
<1>13. CASE End
  <2>1. [type |-> "Exit"] \in Message
    BY MessageTypes
  <2>2. wire' \in Seq(Message)
    BY <1>0, <1>13, <2>1 DEF End, LineType
  <2>3. LineType'
    BY <1>0, <1>13, <2>2 DEF End, LineType
  <2>4. SessionType'
    <3>1. ends' \in 0 .. MaxEnds
      BY <1>0, <1>13 DEF End, SessionType
    <3>2. alive' \in BOOLEAN /\ UNCHANGED <<produced, started>>
      BY <1>13 DEF End
    <3> QED BY <1>0, <3>1, <3>2 DEF SessionType
  <2> QED BY <1>1, <1>13, <2>3, <2>4, UnchangedTypes DEF End
<1>14. CASE StartElsewhere
  <2>1. SessionType'
    BY <1>0, <1>14 DEF StartElsewhere, SessionType
  <2> QED BY <1>1, <1>14, <2>1, UnchangedTypes DEF StartElsewhere
<1>15. CASE Produce
  <2>1. produced' \in 1 .. MaxOutput /\ started' \in 0 .. produced' /\ produced' = produced + 1
    BY <1>0, <1>15 DEF Produce, SessionType
  <2>2. [type |-> "Output", upTo |-> produced + 1] \in Message
    BY <2>1, MessageTypes
  <2>3. wire' \in Seq(Message)
    BY <1>0, <1>15, <2>2 DEF Produce, LineType
  <2>4. LineType' /\ SessionType'
    BY <1>0, <1>15, <2>1, <2>3 DEF Produce, LineType, SessionType
  <2> QED BY <1>1, <1>15, <2>4, UnchangedTypes DEF Produce
<1>16. CASE Lose
  <2>1. wire' \in Seq(Message)
    <3>1. PICK k \in 0 .. Len(wire) : wire' = SubSeq(wire, 1, k)
      BY <1>16 DEF Lose
    <3>2. \A i \in 1 .. k : wire[i] \in Message
      BY <1>0, ElementOfSeq DEF LineType
    <3> QED BY <3>1, <3>2, SubSeqProperties
  <2>2. LineType'
    <3>1. requests' = <<>> /\ up' = FALSE /\ attached' = FALSE /\ wanted' = NoSize
      BY <1>16 DEF Lose
    <3>2. requests' \in Seq(Request)
      BY <3>1
    <3> QED BY <2>1, <3>1, <3>2 DEF LineType
  <2>3. WorldType'
    BY <1>0, <1>16 DEF Lose, WorldType
  <2> QED BY <1>1, <1>16, <2>2, <2>3, UnchangedTypes DEF Lose
<1>17. CASE Restore
  <2>1. WorldType'
    BY <1>0, <1>17 DEF Restore, WorldType
  <2> QED BY <1>1, <1>17, <2>1, UnchangedTypes DEF Restore
<1>18. CASE Elapse
  <2>1. RetryType'
    BY <1>0, <1>18 DEF Elapse, RetryType
  <2> QED BY <1>1, <1>18, <2>1, UnchangedTypes DEF Elapse
<1>19. CASE UNCHANGED vars
  BY <1>1, <1>19, UnchangedTypes DEF vars
<1> QED BY <1>2, <1>3, <1>4, <1>5, <1>6, <1>7, <1>8, <1>9, <1>10, <1>11, <1>12, <1>13, <1>14,
           <1>15, <1>16, <1>17, <1>18, <1>19 DEF Next, Poll

\* Every variable of the client, its transport and its server has its type.
THEOREM TypeCorrect == Spec => []TypeOK
BY InitType, NextKeepsTypes, PTL DEF Spec

-----------------------------------------------------------------------------
(* The order of the output *)

\* The output a message brings, and that messages under way do.
Given(m) ==
    {k \in Nat : \/ m.type = "Scrollback" /\ k \in m.from .. m.upTo
                 \/ m.type = "Output" /\ k = m.upTo}
Carried(s) == {k \in Nat : \E i \in DOMAIN s : k \in Given(s[i])}
Shown == {shown[i] : i \in DOMAIN shown}

Below(A, B) == \A a \in A, b \in B : a < b
Rising(s) == \A i, j \in DOMAIN s : i < j => Below(Given(s[i]), Given(s[j]))

ReplaysAt(r, i) == r[i].type = "Attach" /\ r[i].replay

\* What the pane shows, what the bridge's thread has read and what is still on
\* the wire follow each other in the order of their making.
Ordered ==
    /\ OutputIsNotRepeated
    /\ Rising(channel) /\ Rising(wire)
    /\ Below(Shown, Carried(channel)) /\ Below(Shown, Carried(wire))
    /\ Below(Carried(channel), Carried(wire))
    /\ Shown \cup Carried(channel) \cup Carried(wire) \subseteq 1 .. produced
    /\ bridged \/ channel = <<>>

\* A history is asked for only once, before there is anything to see.
HistoryIsFirst ==
    \A i \in DOMAIN requests : ReplaysAt(requests, i) =>
        /\ ~attached /\ Shown = {} /\ Carried(channel) = {} /\ Carried(wire) = {}
        /\ \A j \in DOMAIN requests : AttachAt(requests, j) => j = i

LEMMA NothingCarried == Carried(<<>>) = {} /\ Rising(<<>>)
BY DEF Carried, Rising

\* A message more at the end.
LEMMA AppendCarries ==
    ASSUME NEW s \in Seq(Message), NEW m \in Message
    PROVE  /\ Carried(Append(s, m)) = Carried(s) \cup Given(m)
           /\ Rising(s) /\ Below(Carried(s), Given(m)) => Rising(Append(s, m))
<1> DEFINE t == Append(s, m)
           n == Len(s)
<1>1. /\ n \in Nat /\ DOMAIN s = 1 .. n /\ DOMAIN t = 1 .. n + 1
      /\ t[n + 1] = m /\ \A i \in 1 .. n : t[i] = s[i]
  OBVIOUS
<1> HIDE DEF t, n
<1>2. Carried(t) = Carried(s) \cup Given(m)
  <2>1. ASSUME NEW k \in Carried(t)
        PROVE  k \in Carried(s) \cup Given(m)
    <3>1. PICK i \in 1 .. n + 1 : k \in Nat /\ k \in Given(t[i])
      BY <1>1, <2>1 DEF Carried
    <3>2. CASE i = n + 1
      BY <1>1, <3>1, <3>2
    <3>3. CASE i \in 1 .. n
      BY <1>1, <3>1, <3>3 DEF Carried
    <3> QED BY <1>1, <3>2, <3>3
  <2>2. ASSUME NEW k \in Carried(s)
        PROVE  k \in Carried(t)
    <3>1. PICK i \in 1 .. n : k \in Nat /\ k \in Given(s[i])
      BY <1>1, <2>2 DEF Carried
    <3>2. i \in 1 .. n + 1 /\ k \in Given(t[i])
      BY <1>1, <3>1
    <3> QED BY <1>1, <3>1, <3>2 DEF Carried
  <2>3. ASSUME NEW k \in Given(m)
        PROVE  k \in Carried(t)
    <3>1. k \in Nat
      BY DEF Given
    <3>2. n + 1 \in DOMAIN t /\ k \in Given(t[n + 1])
      BY <1>1
    <3> QED BY <3>1, <3>2 DEF Carried
  <2> QED BY <2>1, <2>2, <2>3
<1>3. ASSUME Rising(s), Below(Carried(s), Given(m)), NEW i \in 1 .. n + 1, NEW j \in 1 .. n + 1, i < j
      PROVE  Below(Given(t[i]), Given(t[j]))
  <2>1. i \in 1 .. n /\ t[i] = s[i]
    BY <1>1, <1>3
  <2>2. CASE j = n + 1
    <3>1. Given(s[i]) \subseteq Carried(s)
      BY <1>1, <2>1 DEF Carried, Given
    <3> QED BY <1>1, <1>3, <2>1, <2>2, <3>1 DEF Below
  <2>3. CASE j \in 1 .. n
    BY <1>1, <1>3, <2>1, <2>3 DEF Rising
  <2> QED BY <1>1, <2>2, <2>3
<1>4. Rising(s) /\ Below(Carried(s), Given(m)) => Rising(t)
  BY <1>1, <1>3 DEF Rising
<1> QED BY <1>2, <1>4 DEF t

\* The oldest message, and the others.
LEMMA TailCarries ==
    ASSUME NEW s \in Seq(Message), s # <<>>
    PROVE  /\ Given(Head(s)) \subseteq Carried(s) /\ Carried(Tail(s)) \subseteq Carried(s)
           /\ Rising(s) => Rising(Tail(s)) /\ Below(Given(Head(s)), Carried(Tail(s)))
<1> DEFINE t == Tail(s)
           n == Len(s)
<1>1. /\ n \in Nat \ {0} /\ DOMAIN s = 1 .. n /\ DOMAIN t = 1 .. n - 1
      /\ Head(s) = s[1] /\ \A i \in 1 .. n - 1 : t[i] = s[i + 1]
  BY HeadTailProperties
<1> HIDE DEF t, n
<1>2. 1 \in DOMAIN s /\ \A i \in DOMAIN t : i + 1 \in DOMAIN s /\ i \in Nat \ {0} /\ t[i] = s[i + 1]
  BY <1>1
<1>3. Given(s[1]) \subseteq Carried(s)
  BY <1>2 DEF Carried, Given
<1>4. Carried(t) \subseteq Carried(s)
  BY <1>2 DEF Carried
<1>5. ASSUME Rising(s)
      PROVE  Rising(t) /\ Below(Given(s[1]), Carried(t))
  <2>1. Rising(t)
    <3> SUFFICES ASSUME NEW i \in DOMAIN t, NEW j \in DOMAIN t, i < j
                 PROVE  Below(Given(t[i]), Given(t[j]))
      BY DEF Rising
    <3>1. i + 1 \in DOMAIN s /\ j + 1 \in DOMAIN s /\ i + 1 < j + 1
      BY <1>2
    <3>2. Below(Given(s[i + 1]), Given(s[j + 1]))
      BY <1>5, <3>1 DEF Rising
    <3> QED BY <1>2, <3>2
  <2>2. ASSUME NEW a \in Given(s[1]), NEW b \in Carried(t)
        PROVE  a < b
    <3>1. PICK i \in DOMAIN t : b \in Given(t[i])
      BY DEF Carried
    <3>2. i + 1 \in DOMAIN s /\ 1 < i + 1 /\ b \in Given(s[i + 1])
      BY <1>2, <3>1
    <3> QED BY <1>2, <1>5, <3>2 DEF Rising, Below
  <2> QED BY <2>1, <2>2 DEF Below
<1> QED BY <1>1, <1>3, <1>4, <1>5 DEF t

\* The first k messages.
LEMMA PrefixCarries ==
    ASSUME NEW s \in Seq(Message), NEW k \in 0 .. Len(s)
    PROVE  /\ Carried(SubSeq(s, 1, k)) \subseteq Carried(s)
           /\ Rising(s) => Rising(SubSeq(s, 1, k))
<1> DEFINE t == SubSeq(s, 1, k)
<1>1. DOMAIN t \subseteq DOMAIN s /\ \A i \in DOMAIN t : t[i] = s[i]
  <2>1. \A i \in 1 .. k : s[i] \in Message
    BY ElementOfSeq
  <2>2. DOMAIN t = 1 .. k /\ \A i \in 1 .. k : t[i] = s[i]
    BY <2>1, SubSeqProperties
  <2> QED BY <2>2
<1> HIDE DEF t
<1>2. Carried(t) \subseteq Carried(s)
  BY <1>1 DEF Carried
<1>3. Rising(s) => Rising(t)
  BY <1>1 DEF Rising
<1> QED BY <1>2, <1>3 DEF t

\* What the pane is given of a message is in order, and all the message's.
LEMMA OutputsAreGiven ==
    ASSUME NEW m \in Message
    PROVE  \A i \in DOMAIN Outputs(m) :
            /\ Outputs(m)[i] \in Given(m)
            /\ \A j \in DOMAIN Outputs(m) : i < j => Outputs(m)[i] < Outputs(m)[j]
<1> SUFFICES ASSUME NEW i \in DOMAIN Outputs(m)
             PROVE  /\ Outputs(m)[i] \in Given(m)
                    /\ \A j \in DOMAIN Outputs(m) : i < j => Outputs(m)[i] < Outputs(m)[j]
  OBVIOUS
<1>1. CASE m.type = "Scrollback"
  <2>1. m.from \in Nat /\ m.upTo \in Nat
    BY <1>1, BoundAssumption DEF Message
  <2>2. Outputs(m) = [p \in 1 .. m.upTo - m.from + 1 |-> m.from + p - 1]
    BY <1>1 DEF Outputs
  <2>3. /\ DOMAIN Outputs(m) = 1 .. m.upTo - m.from + 1
        /\ \A p \in DOMAIN Outputs(m) : Outputs(m)[p] = m.from + p - 1
    BY <2>2
  <2>4. i \in 1 .. m.upTo - m.from + 1 /\ Outputs(m)[i] = m.from + i - 1
    BY <2>3
  <2>5. Outputs(m)[i] \in m.from .. m.upTo /\ Outputs(m)[i] \in Nat
    BY <2>1, <2>4
  <2>6. ASSUME NEW j \in DOMAIN Outputs(m), i < j
        PROVE  Outputs(m)[i] < Outputs(m)[j]
    BY <2>1, <2>3, <2>4, <2>6
  <2> QED BY <1>1, <2>5, <2>6 DEF Given
<1>2. CASE m.type = "Output"
  <2>1. m.upTo \in Nat
    BY <1>2, BoundAssumption DEF Message
  <2>2. Outputs(m) = <<m.upTo>>
    BY <1>2 DEF Outputs
  <2>3. DOMAIN Outputs(m) = {1} /\ Outputs(m)[1] = m.upTo
    BY <2>2
  <2> QED BY <1>2, <2>1, <2>3 DEF Given
<1>3. CASE m.type # "Scrollback" /\ m.type # "Output"
  BY <1>3 DEF Outputs
<1> QED BY <1>1, <1>2, <1>3

\* A message that is not of output brings none.
LEMMA OthersGiveNothing ==
    \A m : m.type \notin {"Scrollback", "Output"} => Given(m) = {}
BY DEF Given

\* A wire with no more on it than before.
LEMMA WireKeepsOrder ==
    ASSUME Ordered, Rising(wire'), Carried(wire') \subseteq Carried(wire),
           UNCHANGED <<bridged, shown, channel, produced>>
    PROVE  Ordered'
BY DEF Ordered, OutputIsNotRepeated, Shown, Below

\* Nothing on the wire and in the channel.
LEMMA NewLineKeepsOrder ==
    ASSUME Ordered, wire' = <<>>, channel' = <<>>, UNCHANGED <<bridged, shown, produced>>
    PROVE  Ordered'
BY NothingCarried DEF Ordered, OutputIsNotRepeated, Shown, Below

\* A message of no output.
LEMMA NoticeKeepsOrder ==
    ASSUME TypeOK, Ordered, NEW m \in Message, m.type \notin {"Scrollback", "Output"},
           wire' = Append(wire, m), UNCHANGED <<bridged, shown, channel, produced>>
    PROVE  Ordered' /\ Carried(wire') = Carried(wire)
<1>1. Given(m) = {}
  BY OthersGiveNothing
<1>2. wire \in Seq(Message)
  BY DEF TypeOK
<1>3. Carried(wire') = Carried(wire) /\ Rising(wire')
  BY <1>1, <1>2, AppendCarries DEF Ordered, Below
<1> QED BY <1>3, WireKeepsOrder

\* The requests that are left after the oldest ask for no more than it.
LEMMA TailReplays ==
    ASSUME NEW r \in Seq(Request), r # <<>>,
           \A i, j \in DOMAIN r : ReplaysAt(r, i) /\ AttachAt(r, j) => j = i
    PROVE  /\ \A i \in DOMAIN Tail(r) : ReplaysAt(Tail(r), i) =>
                /\ i + 1 \in DOMAIN r /\ ReplaysAt(r, i + 1)
                /\ \A j \in DOMAIN Tail(r) : AttachAt(Tail(r), j) => j = i
           /\ AttachAt(r, 1) => \A i \in DOMAIN Tail(r) : ~ReplaysAt(Tail(r), i)
           /\ 1 \in DOMAIN r /\ Head(r) = r[1]
<1>1. 1 \in DOMAIN r /\ Head(r) = r[1]
  BY TailFacts
<1>2. \A i \in DOMAIN Tail(r) : i \in Nat \ {0} /\ i + 1 \in DOMAIN r /\ Tail(r)[i] = r[i + 1]
  BY TailFacts
<1>3. ASSUME NEW i \in DOMAIN Tail(r), ReplaysAt(Tail(r), i)
      PROVE  /\ i + 1 \in DOMAIN r /\ ReplaysAt(r, i + 1) /\ i + 1 # 1 /\ i \in Nat
             /\ \A j \in DOMAIN Tail(r) : AttachAt(Tail(r), j) => j = i
  <2>1. i + 1 \in DOMAIN r /\ ReplaysAt(r, i + 1) /\ i + 1 # 1 /\ i \in Nat
    BY <1>2, <1>3 DEF ReplaysAt
  <2>2. ASSUME NEW j \in DOMAIN Tail(r), AttachAt(Tail(r), j)
        PROVE  j = i
    <3>1. j + 1 \in DOMAIN r /\ AttachAt(r, j + 1) /\ j \in Nat
      BY <1>2, <2>2 DEF AttachAt
    <3>2. j + 1 = i + 1
      BY <2>1, <3>1
    <3> QED BY <2>1, <3>1, <3>2
  <2> QED BY <2>1, <2>2
<1>4. ASSUME AttachAt(r, 1), NEW i \in DOMAIN Tail(r), ReplaysAt(Tail(r), i)
      PROVE  FALSE
  <2>1. i + 1 \in DOMAIN r /\ ReplaysAt(r, i + 1) /\ i + 1 # 1
    BY <1>3, <1>4
  <2> QED BY <1>1, <1>4, <2>1
<1> QED BY <1>1, <1>3, <1>4

LEMMA ReceivingKeepsOrder ==
    ASSUME TypeOK, Ordered, HistoryIsFirst, Receive
    PROVE  Ordered' /\ HistoryIsFirst'
<1> DEFINE m == Head(Readable)
           o == Outputs(m)
<1>1. Readable \in Seq(Message) /\ Readable # <<>>
  BY DEF Receive, Readable, TypeOK
<1>2. m \in Message /\ o \in Seq(1 .. MaxOutput)
  BY <1>1, TypedTail, OutputsType
<1>3. /\ shown' = shown \o o /\ shown \in Seq(1 .. MaxOutput)
      /\ UNCHANGED <<bridged, produced, requests, attached>>
      /\ IF bridged THEN channel' = Tail(channel) /\ UNCHANGED wire
                    ELSE wire' = Tail(wire) /\ UNCHANGED channel
  BY DEF Receive, TypeOK, worldVars, sessionVars
<1>4. \A i \in DOMAIN o : /\ o[i] \in Given(m)
                          /\ \A j \in DOMAIN o : i < j => o[i] < o[j]
  BY <1>2, OutputsAreGiven
<1>5. /\ Given(m) \subseteq Carried(Readable) /\ Carried(Tail(Readable)) \subseteq Carried(Readable)
      /\ Rising(Tail(Readable)) /\ Below(Given(m), Carried(Tail(Readable)))
  BY <1>1, TailCarries DEF Ordered, Readable
<1> DEFINE n == Len(shown)
<1>6. /\ n \in Nat /\ DOMAIN shown = 1 .. n /\ DOMAIN o = 1 .. Len(o) /\ Len(o) \in Nat
      /\ DOMAIN shown' = 1 .. n + Len(o)
      /\ \A i \in 1 .. n : shown'[i] = shown[i]
      /\ \A i \in 1 .. n + Len(o) : i > n => i - n \in DOMAIN o /\ shown'[i] = o[i - n]
  BY <1>2, <1>3, ConcatProperties
<1> HIDE DEF m, o, n
<1>7. Below(Shown, Given(m))
  BY <1>5 DEF Ordered, Readable, Below
<1>8. Shown' \subseteq Shown \cup Given(m)
  <2> SUFFICES ASSUME NEW i \in DOMAIN shown'
               PROVE  shown'[i] \in Shown \cup Given(m)
    BY DEF Shown
  <2>1. CASE i \in 1 .. n
    BY <1>6, <2>1 DEF Shown
  <2>2. CASE i > n
    <3>1. i - n \in DOMAIN o /\ shown'[i] = o[i - n]
      BY <1>6, <2>2
    <3> QED BY <1>4, <3>1
  <2> QED BY <1>6, <2>1, <2>2
<1>9. OutputIsNotRepeated'
  <2> SUFFICES ASSUME NEW i \in DOMAIN shown', NEW j \in DOMAIN shown', i < j
               PROVE  shown'[i] < shown'[j]
    BY DEF OutputIsNotRepeated
  <2>1. CASE j \in 1 .. n
    BY <1>6, <2>1 DEF Ordered, OutputIsNotRepeated
  <2>2. CASE i \in 1 .. n /\ j > n
    <3>1. j - n \in DOMAIN o /\ shown'[j] = o[j - n]
      BY <1>6, <2>2
    <3>2. shown'[j] \in Given(m)
      BY <1>4, <3>1
    <3>3. shown'[i] \in Shown
      BY <1>6, <2>2 DEF Shown
    <3> QED BY <1>7, <3>2, <3>3 DEF Below
  <2>3. CASE i > n /\ j > n
    <3>1. /\ i - n \in DOMAIN o /\ shown'[i] = o[i - n]
          /\ j - n \in DOMAIN o /\ shown'[j] = o[j - n]
      BY <1>6, <2>3
    <3>2. i - n < j - n
      BY <1>6
    <3> QED BY <1>4, <3>1, <3>2
  <2> QED BY <1>6, <2>1, <2>2, <2>3
<1>10. Ordered'
  <2>1. CASE bridged
    <3>1. Readable = channel /\ channel' = Tail(channel) /\ wire' = wire
      BY <1>3, <2>1 DEF Readable
    <3> QED BY <1>3, <1>5, <1>8, <1>9, <2>1, <3>1 DEF Ordered, Below
  <2>2. CASE ~bridged
    <3>1. Readable = wire /\ wire' = Tail(wire) /\ channel' = <<>> /\ Carried(channel') = {}
      BY <1>3, <2>2, NothingCarried DEF Readable, Ordered
    <3> QED BY <1>3, <1>5, <1>8, <1>9, <3>1, NothingCarried DEF Ordered, Below
  <2> QED BY <2>1, <2>2
<1>11. HistoryIsFirst'
  <2> SUFFICES ASSUME NEW i \in DOMAIN requests, ReplaysAt(requests, i)
               PROVE  /\ ~attached /\ Shown' = {} /\ Carried(channel') = {} /\ Carried(wire') = {}
                      /\ \A j \in DOMAIN requests : AttachAt(requests, j) => j = i
    BY <1>3 DEF HistoryIsFirst
  <2>1. /\ ~attached /\ Shown = {} /\ Carried(channel) = {} /\ Carried(wire) = {}
        /\ \A j \in DOMAIN requests : AttachAt(requests, j) => j = i
    BY DEF HistoryIsFirst
  <2>2. Given(m) = {}
    BY <1>5, <2>1 DEF Readable
  <2>3. Carried(channel') = {} /\ Carried(wire') = {}
    BY <1>3, <1>5, <2>1 DEF Readable
  <2> QED BY <1>8, <2>1, <2>2, <2>3
<1> QED BY <1>10, <1>11

LEMMA PumpingKeepsOrder ==
    ASSUME TypeOK, Ordered, HistoryIsFirst, Pump
    PROVE  Ordered' /\ HistoryIsFirst'
<1> DEFINE m == Head(wire)
<1>1. /\ wire \in Seq(Message) /\ wire # <<>> /\ channel \in Seq(Message) /\ bridged
      /\ channel' = Append(channel, m) /\ wire' = Tail(wire)
      /\ UNCHANGED <<bridged, produced, requests, attached, shown>>
  BY DEF Pump, TypeOK, worldVars, sessionVars, clientVars
<1>2. m \in Message
  BY <1>1, TypedTail
<1>3. /\ Given(m) \subseteq Carried(wire) /\ Carried(wire') \subseteq Carried(wire)
      /\ Rising(wire') /\ Below(Given(m), Carried(wire'))
  BY <1>1, TailCarries DEF Ordered
<1> HIDE DEF m
<1>4. Carried(channel') = Carried(channel) \cup Given(m) /\ Rising(channel')
  <2>1. Below(Carried(channel), Given(m))
    BY <1>3 DEF Ordered, Below
  <2> QED BY <1>1, <1>2, <2>1, AppendCarries DEF Ordered
<1>5. Ordered'
  BY <1>1, <1>3, <1>4 DEF Ordered, OutputIsNotRepeated, Shown, Below
<1>6. HistoryIsFirst'
  BY <1>1, <1>3, <1>4 DEF HistoryIsFirst, Shown
<1> QED BY <1>5, <1>6

LEMMA ProducingKeepsOrder ==
    ASSUME TypeOK, Ordered, HistoryIsFirst, Produce
    PROVE  Ordered' /\ HistoryIsFirst'
<1> DEFINE m == [type |-> "Output", upTo |-> produced + 1]
<1>1. /\ wire \in Seq(Message) /\ produced \in Nat /\ produced' = produced + 1
      /\ produced' \in 1 .. MaxOutput
      /\ UNCHANGED <<bridged, channel, requests, attached, shown>>
  BY Bounds DEF Produce, TypeOK, transportVars, clientVars
<1>2. CASE ~(up /\ attached)
  <2>1. wire' = wire
    BY <1>2 DEF Produce
  <2>2. 1 .. produced \subseteq 1 .. produced'
    BY <1>1
  <2>3. Ordered'
    BY <1>1, <2>1, <2>2 DEF Ordered, OutputIsNotRepeated, Shown
  <2>4. HistoryIsFirst'
    BY <1>1, <2>1 DEF HistoryIsFirst, Shown
  <2> QED BY <2>3, <2>4
<1>3. CASE up /\ attached
  <2>1. wire' = Append(wire, m)
    BY <1>3 DEF Produce
  <2>2. m \in Message
    BY <1>1, MessageTypes
  <2>3. Given(m) = {produced + 1}
    BY <1>1 DEF Given
  <2> HIDE DEF m
  <2>4. \A k \in Shown \cup Carried(channel) \cup Carried(wire) : k \in 1 .. produced' /\ k < produced + 1
    BY <1>1 DEF Ordered
  <2>5. Carried(wire') = Carried(wire) \cup {produced + 1} /\ Rising(wire')
    <3>1. Below(Carried(wire), Given(m))
      BY <2>3, <2>4 DEF Below
    <3> QED BY <1>1, <2>1, <2>2, <2>3, <3>1, AppendCarries DEF Ordered
  <2>6. Ordered'
    <3>1. UNCHANGED <<Shown, Carried(channel), Rising(channel), OutputIsNotRepeated>>
      BY <1>1 DEF Shown, OutputIsNotRepeated
    <3>2. Shown \cup Carried(channel) \cup Carried(wire') \subseteq 1 .. produced'
      BY <1>1, <2>4, <2>5
    <3>3. Below(Shown, Carried(wire')) /\ Below(Carried(channel), Carried(wire'))
      BY <2>4, <2>5 DEF Ordered, Below
    <3> QED BY <1>1, <2>5, <3>1, <3>2, <3>3 DEF Ordered
  <2>7. HistoryIsFirst'
    BY <1>1, <1>3 DEF HistoryIsFirst
  <2> QED BY <2>6, <2>7
<1> QED BY <1>2, <1>3

\* What is replayed of a session that started when there were n outputs.
LEMMA HistoryType ==
    ASSUME NEW n \in Nat, NEW p \in 0 .. MaxOutput, p > n
    PROVE  LET history == [type |-> "Scrollback", from |-> n + 1, upTo |-> p]
           IN  history \in Message /\ Given(history) \subseteq 1 .. p
<1>1. n + 1 \in 1 .. MaxOutput /\ p \in 1 .. MaxOutput
  BY Bounds
<1> QED BY <1>1, MessageTypes DEF Given

\* The server attaches the client: a history that is asked for comes first.
LEMMA AttachingKeepsOrder ==
    ASSUME TypeOK, Ordered, HistoryIsFirst, requests # <<>>,
           Head(requests).type = "Attach", Attach(Head(requests).replay),
           UNCHANGED <<bridged, channel, shown>>
    PROVE  Ordered' /\ HistoryIsFirst'
<1> DEFINE r == requests
           greeting == [type |-> "Attached"]
           history == [type |-> "Scrollback", from |-> started' + 1, upTo |-> produced]
           greeted == Append(wire, greeting)
<1>1. /\ r \in Seq(Request) /\ wire \in Seq(Message) /\ requests' = Tail(r)
      /\ produced \in 0 .. MaxOutput /\ started' \in 0 .. produced /\ MaxOutput \in Nat
      /\ produced' = produced
  BY Bounds DEF Attach, TypeOK
<1>2. \A i, j \in DOMAIN r : ReplaysAt(r, i) /\ AttachAt(r, j) => j = i
  BY DEF HistoryIsFirst
<1>3. greeting \in Message /\ Given(greeting) = {}
  BY MessageTypes, OthersGiveNothing
<1>4. greeted \in Seq(Message) /\ Carried(greeted) = Carried(wire) /\ Rising(greeted)
  <2>1. Below(Carried(wire), Given(greeting))
    BY <1>3 DEF Below
  <2>2. wire \in Seq(Message) /\ Rising(wire)
    BY <1>1 DEF Ordered
  <2> HIDE DEF greeting
  <2>3. greeted \in Seq(Message)
    BY <1>3, <2>2
  <2> QED BY <1>3, <2>1, <2>2, <2>3, AppendCarries
<1>5. wire \o <<greeting>> = greeted
  BY <1>1
<1>6. 1 \in DOMAIN r /\ Head(r) = r[1] /\ AttachAt(r, 1)
  BY <1>1, TailFacts DEF AttachAt
<1>7. \A i \in DOMAIN Tail(r) : ~ReplaysAt(Tail(r), i)
  BY <1>1, <1>2, <1>6, TailReplays
<1>8. HistoryIsFirst'
  BY <1>1, <1>7 DEF HistoryIsFirst
<1>9. CASE Head(r).replay
  <2>1. ReplaysAt(r, 1)
    BY <1>6, <1>9 DEF ReplaysAt
  <2>2. Shown = {} /\ Carried(channel) = {} /\ Carried(wire) = {}
    BY <1>6, <2>1 DEF HistoryIsFirst
  <2>4. Rising(wire') /\ Carried(wire') \subseteq 1 .. produced
    <3>1. CASE produced > started'
      <4>2. history \in Message /\ Given(history) \subseteq 1 .. produced
        <5>1. started' \in Nat
          BY <1>1
        <5> QED BY <1>1, <3>1, <5>1, HistoryType
      <4>3. wire' = wire \o <<greeting>> \o <<history>>
        BY <1>9, <3>1 DEF Attach
      <4> HIDE DEF greeting, history, greeted
      <4>5. wire' = Append(greeted, history)
        BY <1>4, <1>5, <4>2, <4>3
      <4>6. Below(Carried(greeted), Given(history))
        BY <1>4, <2>2 DEF Below
      <4> QED BY <1>4, <2>2, <4>2, <4>5, <4>6, AppendCarries
    <3>2. CASE ~(produced > started')
      <4>1. wire' = wire \o <<greeting>> \o <<>>
        BY <3>2 DEF Attach
      <4> HIDE DEF greeting, greeted
      <4>2. wire' = greeted
        BY <1>4, <1>5, <4>1
      <4> QED BY <1>4, <2>2, <4>2
    <3> QED BY <3>1, <3>2
  <2>5. Shown' = {} /\ Carried(channel') = {} /\ Rising(channel') /\ OutputIsNotRepeated'
    BY <2>2 DEF Shown, Ordered, OutputIsNotRepeated
  <2> QED BY <1>1, <1>8, <2>4, <2>5 DEF Ordered, Below
<1>10. CASE ~Head(r).replay
  <2>1. wire' = wire \o <<greeting>> \o <<>>
    BY <1>10 DEF Attach
  <2>2. wire' = greeted
    <3> HIDE DEF greeting, greeted
    <3> QED BY <1>4, <1>5, <2>1
  <2>3. Ordered'
    BY <1>1, <1>4, <2>2, WireKeepsOrder
  <2> QED BY <1>8, <2>3
<1> QED BY <1>9, <1>10

LEMMA ServingKeepsOrder ==
    ASSUME TypeOK, Ordered, HistoryIsFirst, ServeRequest
    PROVE  Ordered' /\ HistoryIsFirst'
<1> DEFINE r == requests
<1>1. /\ r \in Seq(Request) /\ r # <<>> /\ wire \in Seq(Message)
      /\ UNCHANGED <<bridged, channel, shown>>
  BY DEF ServeRequest, TypeOK, transportVars, clientVars
<1>2. ASSUME requests' = Tail(r), attached' = attached, Carried(wire') = Carried(wire)
      PROVE  HistoryIsFirst'
  <2>1. \A i, j \in DOMAIN r : ReplaysAt(r, i) /\ AttachAt(r, j) => j = i
    BY DEF HistoryIsFirst
  <2> SUFFICES ASSUME NEW i \in DOMAIN Tail(r), ReplaysAt(Tail(r), i)
               PROVE  /\ ~attached /\ Shown = {} /\ Carried(channel) = {} /\ Carried(wire) = {}
                      /\ \A j \in DOMAIN Tail(r) : AttachAt(Tail(r), j) => j = i
    BY <1>1, <1>2 DEF HistoryIsFirst, Shown
  <2>2. i + 1 \in DOMAIN r /\ ReplaysAt(r, i + 1)
    BY <1>1, <2>1, TailReplays
  <2>3. \A j \in DOMAIN Tail(r) : AttachAt(Tail(r), j) => j = i
    BY <1>1, <2>1, TailReplays
  <2> QED BY <2>2, <2>3 DEF HistoryIsFirst
<1>3. CASE Greet /\ speaks
  <2> DEFINE m == [type |-> "Hello"]
  <2>1. /\ wire' = Append(wire, m) /\ requests' = Tail(r) /\ attached' = attached
        /\ produced' = produced
    BY <1>3 DEF Greet, sessionVars
  <2>2. m \in Message /\ m.type \notin {"Scrollback", "Output"}
    BY MessageTypes
  <2> HIDE DEF m
  <2>3. Ordered' /\ Carried(wire') = Carried(wire)
    BY <1>1, <2>1, <2>2, NoticeKeepsOrder
  <2> QED BY <1>2, <2>1, <2>3
<1>4. CASE Greet /\ ~speaks
  <2> DEFINE m == [type |-> "Error"]
  <2>1. wire' = Append(wire, m) /\ requests' = <<>> /\ produced' = produced
    BY <1>4 DEF Greet, sessionVars
  <2>2. m \in Message /\ m.type \notin {"Scrollback", "Output"}
    BY MessageTypes
  <2> HIDE DEF m
  <2>3. Ordered'
    BY <1>1, <2>1, <2>2, NoticeKeepsOrder
  <2> QED BY <2>1, <2>3 DEF HistoryIsFirst
<1>5. CASE Head(r).type = "Attach" /\ Attach(Head(r).replay)
  BY <1>1, <1>5, AttachingKeepsOrder
<1>6. CASE TakeSize(Head(r).size)
  <2>1. requests' = Tail(r) /\ attached' = attached /\ produced' = produced
    BY <1>6 DEF TakeSize, sessionVars
  <2>2. CASE attached
    <3>1. wire' = wire
      BY <1>6, <2>2 DEF TakeSize
    <3>2. Ordered'
      BY <1>1, <2>1, <3>1, WireKeepsOrder DEF Ordered
    <3> QED BY <1>2, <2>1, <3>1, <3>2
  <2>3. CASE ~attached
    <3> DEFINE m == [type |-> "Error"]
    <3>1. wire' = Append(wire, m)
      BY <1>6, <2>3 DEF TakeSize
    <3>2. m \in Message /\ m.type \notin {"Scrollback", "Output"}
      BY MessageTypes
    <3> HIDE DEF m
    <3>3. Ordered' /\ Carried(wire') = Carried(wire)
      BY <1>1, <2>1, <3>1, <3>2, NoticeKeepsOrder
    <3> QED BY <1>2, <2>1, <3>3
  <2> QED BY <2>2, <2>3
<1> QED BY <1>3, <1>4, <1>5, <1>6 DEF ServeRequest

\* A report at the end asks for no history.
LEMMA ReportingKeepsOrder ==
    ASSUME TypeOK, Ordered, HistoryIsFirst, NEW size \in Sizes, Resize(size)
    PROVE  Ordered' /\ HistoryIsFirst'
<1>1. UNCHANGED <<bridged, produced, attached, wire, channel, shown>>
  BY DEF Resize, worldVars, sessionVars, transportVars
<1>2. Ordered'
  BY <1>1, WireKeepsOrder DEF Ordered
<1>3. requests \in Seq(Request)
  BY DEF TypeOK
<1>4. CASE requests' = Append(requests, Report(size))
  <2> DEFINE n == Len(requests)
             longer == Append(requests, Report(size))
  <2>1. Report(size).type = "Resize"
    BY DEF Report
  <2>2. /\ DOMAIN requests = 1 .. n /\ DOMAIN longer = 1 .. n + 1 /\ n \in Nat
        /\ longer[n + 1] = Report(size) /\ \A i \in 1 .. n : longer[i] = requests[i]
    BY <1>3
  <2> HIDE DEF n, longer
  <2>3. \A i \in DOMAIN longer : AttachAt(longer, i) => i \in DOMAIN requests /\ AttachAt(requests, i)
    BY <2>1, <2>2 DEF AttachAt
  <2>4. \A i \in DOMAIN longer : ReplaysAt(longer, i) => i \in DOMAIN requests /\ ReplaysAt(requests, i)
    BY <2>2, <2>3 DEF AttachAt, ReplaysAt
  <2>5. requests' = longer
    BY <1>4 DEF longer
  <2> QED BY <1>1, <1>2, <2>3, <2>4, <2>5 DEF HistoryIsFirst, Shown
<1>5. CASE requests' = requests
  BY <1>1, <1>2, <1>5 DEF HistoryIsFirst, Shown
<1> QED BY <1>4, <1>5 DEF Resize

\* A new connection attaches once, as it is asked to.
LEMMA OpeningAttaches ==
    ASSUME NEW replay \in BOOLEAN, NEW size
    PROVE  \E a \in 1 .. 2 : \A i \in DOMAIN Append(Opening(replay), Report(size)) :
            AttachAt(Append(Opening(replay), Report(size)), i)
                => i = a /\ Append(Opening(replay), Report(size))[i].replay = replay
<1> DEFINE hello == [type |-> "Hello"]
           attach == [type |-> "Attach", replay |-> replay]
           t == Report(size)
           o == Opening(replay)
           r == Append(o, t)
<1>1. hello.type # "Attach" /\ t.type # "Attach" /\ attach.replay = replay
  BY DEF Report
<1>2. o = <<attach, hello>> \/ o = <<hello, attach>>
  BY DEF Opening
<1>3. o \in Seq(Request)
  BY OpeningIsOrderly
<1> HIDE DEF hello, attach, t, o
<1>4. /\ Len(o) = 2
      /\ (o[1] = attach /\ o[2] = hello) \/ (o[1] = hello /\ o[2] = attach)
  <2>1. \A a, b : Len(<<a, b>>) = 2 /\ <<a, b>>[1] = a /\ <<a, b>>[2] = b
    OBVIOUS
  <2>2. CASE o = <<attach, hello>>
    BY <2>1, <2>2
  <2>3. CASE o = <<hello, attach>>
    BY <2>1, <2>3
  <2> QED BY <1>2, <2>2, <2>3
<1>5. DOMAIN r = 1 .. 3 /\ r[1] = o[1] /\ r[2] = o[2] /\ r[3] = t
  <2>1. /\ DOMAIN r = 1 .. Len(o) + 1 /\ r[Len(o) + 1] = t
        /\ \A i \in 1 .. Len(o) : r[i] = o[i]
    BY <1>3
  <2> HIDE DEF r
  <2> QED BY <1>4, <2>1
<1> HIDE DEF r
<1>6. \A i \in DOMAIN r : i = 1 \/ i = 2 \/ i = 3
  BY <1>5
<1>7. CASE o[1] = attach /\ o[2] = hello
  <2>1. \A i \in DOMAIN r : AttachAt(r, i) => i = 1 /\ r[i].replay = replay
    BY <1>1, <1>5, <1>6, <1>7 DEF AttachAt
  <2> QED BY <2>1 DEF r, o, t
<1>8. CASE o[1] = hello /\ o[2] = attach
  <2>1. \A i \in DOMAIN r : AttachAt(r, i) => i = 2 /\ r[i].replay = replay
    BY <1>1, <1>5, <1>6, <1>8 DEF AttachAt
  <2> QED BY <2>1 DEF r, o, t
<1> QED BY <1>4, <1>7, <1>8

\* A connection made again asks for no history.
LEMMA RedialingKeepsOrder ==
    ASSUME TypeOK, Ordered, HistoryIsFirst, Redial
    PROVE  Ordered' /\ HistoryIsFirst'
<1>1. UNCHANGED <<bridged, produced, shown>>
  BY DEF Redial, worldVars, sessionVars
<1>2. CASE Dial(Replayed)
  <2>1. wire' = <<>> /\ channel' = <<>>
    BY <1>2 DEF Dial
  <2>2. Ordered'
    BY <1>1, <2>1, NewLineKeepsOrder
  <2>3. \A i \in DOMAIN requests' : ~ReplaysAt(requests', i)
    <3> DEFINE r == Append(Opening(FALSE), Report(lastResize))
    <3>1. requests' = r \/ requests' = <<>>
      BY <1>2 DEF Dial, Replayed
    <3>2. \A i \in DOMAIN r : AttachAt(r, i) => r[i].replay = FALSE
      BY OpeningAttaches
    <3> HIDE DEF r
    <3> QED BY <3>1, <3>2 DEF ReplaysAt, AttachAt
  <2> QED BY <2>2, <2>3 DEF HistoryIsFirst
<1>3. CASE UNCHANGED <<lineVars, transportVars>>
  <2>1. Ordered'
    BY <1>1, <1>3, WireKeepsOrder DEF lineVars, transportVars, Ordered
  <2> QED BY <1>1, <1>3, <2>1 DEF HistoryIsFirst, Shown, lineVars, transportVars
<1> QED BY <1>2, <1>3 DEF Redial

LEMMA NextKeepsOrder ==
    ASSUME TypeOK, Ordered, HistoryIsFirst, [Next]_vars
    PROVE  Ordered' /\ HistoryIsFirst'
<1>1. ASSUME UNCHANGED <<bridged, produced, requests, attached, wire, channel, shown>>
      PROVE  Ordered' /\ HistoryIsFirst'
  <2>1. Ordered'
    BY <1>1, WireKeepsOrder DEF Ordered
  <2> QED BY <1>1, <2>1 DEF HistoryIsFirst, Shown
<1>2. CASE Receive \/ Pump \/ Produce \/ ServeRequest \/ Redial
  BY <1>2, ReceivingKeepsOrder, PumpingKeepsOrder, ProducingKeepsOrder, ServingKeepsOrder,
     RedialingKeepsOrder
<1>3. CASE \E size \in Sizes : Resize(size)
  BY <1>3, ReportingKeepsOrder
<1>4. CASE Close
  <2>1. /\ requests' = <<>> /\ wire' = <<>> /\ channel' = <<>>
        /\ UNCHANGED <<bridged, produced, shown>>
    BY <1>4 DEF Close, worldVars, sessionVars
  <2> QED BY <2>1, NewLineKeepsOrder DEF HistoryIsFirst
<1>5. CASE Lose
  <2>1. requests' = <<>> /\ UNCHANGED <<bridged, produced, channel, shown>>
    BY <1>5 DEF Lose, sessionVars, transportVars, clientVars
  <2>2. PICK k \in 0 .. Len(wire) : wire' = SubSeq(wire, 1, k)
    BY <1>5 DEF Lose
  <2>3. Rising(wire') /\ Carried(wire') \subseteq Carried(wire)
    BY <2>2, PrefixCarries DEF Ordered, TypeOK
  <2> QED BY <2>1, <2>3, WireKeepsOrder DEF HistoryIsFirst
<1>6. CASE End
  <2> DEFINE m == [type |-> "Exit"]
  <2>1. /\ UNCHANGED <<bridged, produced, channel, shown, requests>> /\ attached' = FALSE
        /\ wire' = Append(wire, m) \/ wire' = wire
    BY <1>6 DEF End, transportVars, clientVars
  <2>2. m \in Message /\ m.type \notin {"Scrollback", "Output"}
    BY MessageTypes
  <2> HIDE DEF m
  <2>3. Ordered' /\ Carried(wire') = Carried(wire)
    <3>1. CASE wire' = Append(wire, m)
      BY <2>1, <2>2, <3>1, NoticeKeepsOrder
    <3>2. CASE wire' = wire
      BY <2>1, <3>2, WireKeepsOrder DEF Ordered
    <3> QED BY <2>1, <3>1, <3>2
  <2> QED BY <2>1, <2>3 DEF HistoryIsFirst, Shown
<1>7. CASE FindNothing \/ ReadFails \/ CheckEof \/ SendInput
  BY <1>1, <1>7 DEF FindNothing, ReadFails, CheckEof, SendInput, worldVars, sessionVars, lineVars,
     transportVars
<1>8. CASE PumpEnds \/ StartElsewhere \/ Restore \/ Elapse \/ UNCHANGED vars
  BY <1>1, <1>8 DEF PumpEnds, StartElsewhere, Restore, Elapse, vars, worldVars, sessionVars,
     lineVars, transportVars, clientVars
<1> QED BY <1>2, <1>3, <1>4, <1>5, <1>6, <1>7, <1>8 DEF Next, Poll

\* The pane is given no output twice and none out of order, however often its
\* connection is lost, cut short and made again, over either transport and
\* through any number of ends of the session (resilience.rs
\* `try_reconnect', client.rs `attach').
THEOREM OutputComesOnce == Spec => []OutputIsNotRepeated
<1>1. Init => Ordered /\ HistoryIsFirst
  <2> SUFFICES ASSUME Init PROVE Ordered /\ HistoryIsFirst
    OBVIOUS
  <2>1. /\ wire = <<>> /\ channel = <<>> /\ shown = <<>> /\ attached = FALSE
        /\ Shown = {} /\ Carried(wire) = {} /\ Carried(channel) = {}
    BY NothingCarried DEF Init, Shown
  <2>2. Ordered
    BY <2>1, NothingCarried DEF Ordered, OutputIsNotRepeated, Below
  <2>3. \A i, j \in DOMAIN requests : AttachAt(requests, i) /\ AttachAt(requests, j) => j = i
    <3> DEFINE r == Append(Opening(TRUE), Report(lastResize))
    <3>1. requests = r \/ requests = <<>>
      BY DEF Init
    <3>2. \E a \in 1 .. 2 : \A i \in DOMAIN r : AttachAt(r, i) => i = a
      BY OpeningAttaches
    <3> HIDE DEF r
    <3> QED BY <3>1, <3>2
  <2> QED BY <2>1, <2>2, <2>3 DEF HistoryIsFirst, ReplaysAt, AttachAt
<1>2. TypeOK /\ Ordered /\ HistoryIsFirst /\ [Next]_vars => Ordered' /\ HistoryIsFirst'
  BY NextKeepsOrder
<1>3. Ordered => OutputIsNotRepeated
  BY DEF Ordered
<1> QED BY <1>1, <1>2, <1>3, TypeCorrect, PTL DEF Spec
-----------------------------------------------------------------------------
(* Who is connected and not attached *)

\* A client on a connection that reaches the server is attached, or its Attach
\* is on the way to the server, or word of the session's end on the way to it, or
\* come: no client waits on a good connection for nothing.  (On one that does not,
\* recv finds the end and dials again: FindNothing and CheckEof wait for nobody.)
Has(messages, type) == \E i \in DOMAIN messages : messages[i].type = type
EndIsTold == exited \/ Has(wire, "Exit") \/ Has(channel, "Exit")
NobodyIsStranded == up /\ ~attached => Has(requests, "Attach") \/ EndIsTold

\* Who reads the oldest message leaves the others; who queues one leaves all.
LEMMA RestHas ==
    ASSUME NEW T, NEW s \in Seq(T), s # <<>>, NEW type, Has(s, type)
    PROVE  Head(s).type = type \/ Has(Tail(s), type)
<1>1. PICK i \in 1 .. Len(s) : s[i].type = type
  BY DEF Has
<1>2. CASE i = 1
  <2>1. Head(s) = s[1]
    BY HeadTailProperties
  <2> QED BY <1>1, <1>2, <2>1
<1>3. CASE i # 1
  <2>1. /\ Tail(s) \in Seq(T) /\ Len(Tail(s)) = Len(s) - 1
        /\ \A j \in 1 .. Len(Tail(s)) : Tail(s)[j] = s[j + 1]
    BY HeadTailProperties
  <2>2. i - 1 \in 1 .. Len(Tail(s)) /\ (i - 1) + 1 = i
    BY <1>1, <1>3, <2>1
  <2>3. Tail(s)[i - 1] = s[i]
    BY <2>1, <2>2
  <2>4. i - 1 \in DOMAIN Tail(s) /\ Tail(s)[i - 1].type = type
    BY <1>1, <2>1, <2>2, <2>3
  <2>5. Has(Tail(s), type)
    BY <2>4, Zenon DEF Has
  <2> QED BY <2>5
<1> QED BY <1>2, <1>3

LEMMA QueuedHas ==
    ASSUME NEW T, NEW s \in Seq(T), NEW m \in T, NEW type
    PROVE  Has(s, type) \/ m.type = type => Has(Append(s, m), type)
<1>1. /\ Append(s, m) \in Seq(T) /\ Len(Append(s, m)) = Len(s) + 1
      /\ \A i \in 1 .. Len(s) : Append(s, m)[i] = s[i]
      /\ Append(s, m)[Len(s) + 1] = m
  BY AppendProperties
<1> QED BY <1>1 DEF Has

\* A connection opens with an Attach, and goes on to report the size.
LEMMA OpeningHas ==
    \A replay : Has(Append(Opening(replay), Report(lastResize)), "Attach")
<1> TAKE replay
<1> DEFINE r == Append(Opening(replay), Report(lastResize))
<1>1. r[1].type = "Attach" \/ r[2].type = "Attach"
  BY DEF Opening, Report
<1>2. 1 \in DOMAIN r /\ 2 \in DOMAIN r
  BY DEF Opening, Report
<1> QED BY <1>1, <1>2 DEF Has

LEMMA NextStrandsNobody ==
    ASSUME TypeOK, NobodyIsStranded, [Next]_vars
    PROVE  NobodyIsStranded'
<1> USE DEF NobodyIsStranded, EndIsTold
<1>1. wire \in Seq(Message) /\ channel \in Seq(Message) /\ requests \in Seq(Request)
  BY DEF TypeOK
<1>2. CASE Receive
  <2>1. Has(Readable, "Exit") => Head(Readable).type = "Exit" \/ Has(Tail(Readable), "Exit")
    BY <1>1, <1>2, RestHas DEF Receive, Readable
  <2> QED BY <1>2, <2>1 DEF Receive, Readable
<1>3. CASE Redial
  <2>1. CASE Dial(Replayed)
    BY <2>1, OpeningHas DEF Dial
  <2>2. CASE UNCHANGED <<lineVars, transportVars>>
    BY <1>3, <2>2 DEF Redial, lineVars, transportVars
  <2> QED BY <1>3, <2>1, <2>2 DEF Redial
<1>4. CASE \E size \in Sizes : Resize(size)
  <2>1. PICK size \in Sizes : Resize(size)
    BY <1>4
  <2>2. Report(size) \in Request
    BY DEF Report, Request
  <2>3. Has(requests, "Attach") => Has(requests', "Attach")
    BY <1>1, <2>1, <2>2, QueuedHas DEF Resize
  <2> QED BY <2>1, <2>3 DEF Resize, transportVars
<1>5. CASE Pump
  <2>1. Head(wire) \in Message
    BY <1>1, <1>5, HeadTailProperties DEF Pump
  <2>2. Has(channel, "Exit") \/ Head(wire).type = "Exit" => Has(channel', "Exit")
    BY <1>1, <1>5, <2>1, QueuedHas DEF Pump
  <2>3. Has(wire, "Exit") => Head(wire).type = "Exit" \/ Has(wire', "Exit")
    BY <1>1, <1>5, RestHas DEF Pump
  <2> QED BY <1>5, <2>2, <2>3 DEF Pump, clientVars
<1>6. CASE ServeRequest
  <2>1. Has(requests, "Attach") => Head(requests).type = "Attach" \/ Has(Tail(requests), "Attach")
    BY <1>1, <1>6, RestHas DEF ServeRequest
  <2>2. \A m \in Message : Has(wire, "Exit") => Has(Append(wire, m), "Exit")
    BY <1>1, QueuedHas
  <2>3. [type |-> "Hello"] \in Message /\ [type |-> "Error"] \in Message
    BY DEF Message
  <2>4. CASE Head(requests).type = "Hello" /\ Greet
    BY <1>6, <2>1, <2>2, <2>3, <2>4 DEF ServeRequest, Greet, transportVars, clientVars
  <2>5. CASE Head(requests).type = "Attach" /\ Attach(Head(requests).replay)
    BY <2>5 DEF Attach
  <2>6. CASE Head(requests).type = "Resize" /\ TakeSize(Head(requests).size)
    BY <1>6, <2>1, <2>2, <2>3, <2>6 DEF ServeRequest, TakeSize, transportVars, clientVars
  <2> QED BY <1>6, <2>4, <2>5, <2>6 DEF ServeRequest
<1>7. CASE End
  <2>1. [type |-> "Exit"] \in Message
    BY DEF Message
  <2>2. Has(Append(wire, [type |-> "Exit"]), "Exit")
    BY <1>1, <2>1, QueuedHas
  <2> QED BY <1>7, <2>2 DEF End, transportVars, clientVars
<1>8. CASE Produce
  <2>1. CASE attached
    BY <1>8, <2>1 DEF Produce
  <2>2. CASE ~attached
    BY <1>8, <2>2 DEF Produce, transportVars, clientVars
  <2> QED BY <2>1, <2>2
<1>9. CASE Lose \/ Close
  BY <1>9 DEF Lose, Close
<1>10. CASE FindNothing \/ ReadFails \/ CheckEof \/ SendInput
  BY <1>10 DEF FindNothing, ReadFails, CheckEof, SendInput, lineVars, transportVars
<1>11. CASE PumpEnds \/ StartElsewhere \/ Restore \/ Elapse \/ UNCHANGED vars
  BY <1>11 DEF PumpEnds, StartElsewhere, Restore, Elapse, vars, lineVars, transportVars, clientVars
<1> QED BY <1>2, <1>3, <1>4, <1>5, <1>6, <1>7, <1>8, <1>9, <1>10, <1>11 DEF Next, Poll

\* Through lost connections, ends of the session and servers that come back, no
\* client stays on a connection that is up without being attached, on its way to
\* it, or told why not: with the polls, this is what Reattaches rests on
\* (resilience.rs `try_reconnect', client.rs `attach').
THEOREM NobodyStaysStranded == Spec => []NobodyIsStranded
<1>1. Init => NobodyIsStranded
  BY OpeningHas DEF Init, NobodyIsStranded
<1> QED BY <1>1, NextStrandsNobody, TypeCorrect, PTL DEF Spec
=============================================================================
