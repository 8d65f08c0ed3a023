---------------------------- MODULE MuxResilient ------------------------------
(***************************************************************************)
(* A pane's connection to its session: the ResilientClient that redials    *)
(* when a connection ends, over a transport that reads the local socket    *)
(* itself or has a thread pump an ssh bridge into a channel (bridged), and *)
(* as much of the server and of the network as the client can tell apart:  *)
(* a session that may end and be started anew, and a server that may be    *)
(* replaced by one of another protocol version.  Output is numbered from 1 *)
(* through all incarnations of the session.  A session always starts.      *)
(*                                                                         *)
(* One call of `recv' is three steps, for the pump runs between them: the  *)
(* transport's recv, its eof, and try_reconnect.                           *)
(***************************************************************************)
EXTENDS Naturals, Sequences

CONSTANTS
    Sizes,        \* sizes the pane reports
    FirstSize,    \* the one it is made with
    NoSize,       \* none reported
    MaxRetries,   \* MAX_RETRIES
    MaxBackoff,   \* doublings from INITIAL_BACKOFF to MAX_BACKOFF
    MaxOutput,    \* bound: batches the session's program writes
    MaxFailures,  \* bound: connections lost and reads failed
    MaxEnds,      \* bound: ends of the session
    MaxCalls      \* bound: the pane's later calls of resize

ASSUME SizeAssumption == FirstSize \in Sizes /\ NoSize \notin Sizes
ASSUME BoundAssumption ==
    /\ {MaxRetries, MaxBackoff} \subseteq Nat \ {0}
    /\ {MaxOutput, MaxFailures, MaxEnds, MaxCalls} \subseteq Nat

VARIABLES
    bridged,     \* whether the transport is the ssh bridge, for good
    reachable,   \* whether the server can be reached now
    failures,    \* failures so far
    speaks,      \* whether the server there is speaks the client's version
    ends,        \* ends of the session so far
    alive,       \* whether there is a session of the name
    started,     \* the output there was when it started
    produced,    \* all output so far
    up,          \* whether the client's connection reaches the server
    requests,    \* what the client sent on it and the server has not handled
    attached,    \* whether the server has it attached
    wanted,      \* the size the server was told on it
    wire,        \* what the server sent on it and nobody has read
    channel,     \* what the bridge's thread has read of that
    eof,         \* the transport's eof flag
    phase,       \* where recv is: idle, asking (for eof), redialing; closed
    connected,   \* the client's own view
    retries,
    backoff,     \* doublings of the backoff so far
    due,         \* last_attempt: never, waiting (for the backoff), passed
    lastResize,
    calls,       \* calls of resize after the first
    shown,       \* the output the pane has been given
    exited,      \* whether it was told that the session ended
    dials        \* attempts since a message arrived

sessionVars == <<ends, alive, started, produced>>
worldVars == <<bridged, reachable, failures, speaks, sessionVars>>
lineVars == <<up, requests, attached, wanted, wire>>
transportVars == <<channel, eof>>
retryVars == <<retries, backoff, due, dials>>
clientVars == <<phase, connected, lastResize, calls, shown, exited, retryVars>>
vars == <<worldVars, lineVars, transportVars, clientVars>>

Request ==
    [type : {"Hello"}] \cup [type : {"Attach"}, replay : BOOLEAN]
        \cup [type : {"Resize"}, size : Sizes]
Message ==
    [type : {"Hello", "Attached", "Error", "Exit"}]
        \cup [type : {"Scrollback"}, from : 1 .. MaxOutput, upTo : 1 .. MaxOutput]
        \cup [type : {"Output"}, upTo : 1 .. MaxOutput]

\* What the client finds to read.
Readable == IF bridged THEN channel ELSE wire

\* How a connection opens: with the version, except that over ssh the proxy
\* at the far end has attached before it forwards anything.
Opening(replay) ==
    LET hello == [type |-> "Hello"]
        attach == [type |-> "Attach", replay |-> replay]
    IN  IF bridged THEN <<attach, hello>> ELSE <<hello, attach>>

Report(size) == [type |-> "Resize", size |-> size]

\* A fresh connection: attached to the session, and told the pane's size. An
\* ssh bridge starts also towards a host that cannot be reached.
DialForgetsSizeFault(replay) ==
    /\ up' = reachable
    /\ requests' = IF reachable THEN Opening(replay) ELSE <<>>
    /\ attached' = FALSE /\ wanted' = NoSize /\ wire' = <<>>
    /\ channel' = <<>> /\ eof' = FALSE
Dial(replay) ==
    /\ up' = reachable
    /\ requests' = IF reachable THEN Append(Opening(replay), Report(lastResize)) ELSE <<>>
    /\ attached' = FALSE /\ wanted' = NoSize /\ wire' = <<>>
    /\ channel' = <<>> /\ eof' = FALSE

\* build: a terminal that finds no server gives up, so that every client that
\* lives on has connected once; and then it reports its size.
Init ==
    /\ bridged \in BOOLEAN /\ reachable \in BOOLEAN /\ (reachable \/ bridged)
    /\ failures = 0 /\ speaks \in BOOLEAN
    /\ ends = 0 /\ alive = FALSE /\ started = 0 /\ produced = 0
    /\ up = reachable
    /\ lastResize = FirstSize /\ calls = 0
    /\ requests = IF reachable THEN Append(Opening(TRUE), Report(lastResize)) ELSE <<>>
    /\ attached = FALSE /\ wanted = NoSize /\ wire = <<>>
    /\ channel = <<>> /\ eof = FALSE
    /\ phase = "idle" /\ connected = TRUE /\ shown = <<>> /\ exited = FALSE
    /\ retries = 0 /\ backoff = 0 /\ due = "never" /\ dials = 0

-----------------------------------------------------------------------------
(* The pane's calls *)

\* recv with a message at hand: the proof that the connection works.
Outputs(m) ==
    CASE m.type = "Scrollback" -> [i \in 1 .. m.upTo - m.from + 1 |-> m.from + i - 1]
      [] m.type = "Output" -> <<m.upTo>>
      [] OTHER -> <<>>

Receive ==
    /\ phase = "idle" /\ Readable # <<>>
    /\ shown' = shown \o Outputs(Head(Readable))
    /\ exited' = (exited \/ Head(Readable).type = "Exit")
    /\ IF bridged THEN channel' = Tail(channel) /\ UNCHANGED wire
                  ELSE wire' = Tail(wire) /\ UNCHANGED channel
    /\ retries' = 0 /\ backoff' = 0 /\ dials' = 0
    /\ UNCHANGED <<worldVars, up, requests, attached, wanted, eof, phase, connected, due,
                   lastResize, calls>>

\* recv with nothing at hand. Reading the local socket is what tells its end.
FindNothing ==
    /\ phase = "idle" /\ Readable = <<>>
    /\ phase' = "asking"
    /\ eof' = IF bridged THEN eof ELSE ~up
    /\ UNCHANGED <<worldVars, lineVars, channel, connected, lastResize, calls, shown, exited, retryVars>>

\* recv on a socket whose read fails otherwise.
ReadFails ==
    /\ phase = "idle" /\ ~bridged /\ failures < MaxFailures
    /\ failures' = failures + 1
    /\ connected' = FALSE /\ phase' = "redialing"
    /\ UNCHANGED <<bridged, reachable, speaks, sessionVars, lineVars, transportVars, lastResize,
                   calls, shown, exited, retryVars>>

CheckEofIgnoredFault ==
    /\ phase = "asking"
    /\ phase' = "idle"
    /\ UNCHANGED <<connected, worldVars, lineVars, transportVars, lastResize, calls, shown, exited, retryVars>>
CheckEof ==
    /\ phase = "asking"
    /\ IF eof THEN connected' = FALSE /\ phase' = "redialing"
              ELSE UNCHANGED connected /\ phase' = "idle"
    /\ UNCHANGED <<worldVars, lineVars, transportVars, lastResize, calls, shown, exited, retryVars>>

\* What a new connection asks and costs: no replay, and one more retry, for
\* connecting alone proves little.
ReplayedFault == TRUE
Replayed == FALSE
Spent == retries + 1
OutOfRetries == retries >= MaxRetries

\* try_reconnect.
Redial ==
    /\ phase = "redialing"
    /\ phase' = "idle"
    /\ IF OutOfRetries \/ due = "waiting"
       THEN UNCHANGED <<lineVars, transportVars, connected, retryVars>>
       ELSE /\ backoff' = IF due = "passed" /\ backoff < MaxBackoff THEN backoff + 1 ELSE backoff
            /\ due' = "waiting" /\ retries' = Spent /\ dials' = dials + 1
            /\ IF bridged \/ reachable
               THEN Dial(Replayed) /\ connected' = TRUE
               ELSE UNCHANGED <<lineVars, transportVars, connected>>
    /\ UNCHANGED <<worldVars, lastResize, calls, shown, exited>>

\* A request sent into a connection that ended: the socket refuses it, the
\* bridge's writer may not have noticed yet.
Sent == IF up THEN UNCHANGED connected ELSE connected' \in {connected, FALSE}

Resize(size) ==
    /\ phase = "idle" /\ calls < MaxCalls
    /\ calls' = calls + 1
    /\ lastResize' = size
    /\ requests' = IF up THEN Append(requests, Report(size)) ELSE requests
    /\ Sent
    /\ UNCHANGED <<worldVars, up, attached, wanted, wire, transportVars, phase, shown, exited, retryVars>>

\* The bytes themselves, and what the server answers to them, are left out.
SendInput ==
    /\ phase = "idle"
    /\ Sent
    /\ UNCHANGED <<worldVars, lineVars, transportVars, phase, lastResize, calls, shown, exited, retryVars>>

\* reap_dead_panes: a pane that was told the session ended goes, and its
\* client with it.
Close ==
    /\ phase = "idle" /\ exited
    /\ phase' = "closed" /\ connected' = FALSE
    /\ up' = FALSE /\ requests' = <<>> /\ attached' = FALSE /\ wanted' = NoSize /\ wire' = <<>>
    /\ channel' = <<>> /\ eof' = TRUE
    /\ UNCHANGED <<worldVars, lastResize, calls, shown, exited, retryVars>>

-----------------------------------------------------------------------------
(* The bridge's thread, the server and the network *)

\* pump_bridge_to_channel.
Pump ==
    /\ bridged /\ wire # <<>>
    /\ channel' = Append(channel, Head(wire)) /\ wire' = Tail(wire)
    /\ UNCHANGED <<worldVars, up, requests, attached, wanted, eof, clientVars>>

PumpEnds ==
    /\ bridged /\ wire = <<>> /\ ~up /\ ~eof
    /\ eof' = TRUE
    /\ UNCHANGED <<worldVars, lineVars, channel, clientVars>>

\* greet: a client of another version is told and hung up on.
Greet ==
    /\ IF speaks
       THEN /\ wire' = Append(wire, [type |-> "Hello"]) /\ requests' = Tail(requests)
            /\ UNCHANGED <<up, attached, wanted>>
       ELSE /\ wire' = Append(wire, [type |-> "Error"]) /\ requests' = <<>>
            /\ up' = FALSE /\ attached' = FALSE /\ wanted' = NoSize
    /\ UNCHANGED sessionVars

\* Attach starts the session if there is none.
Attach(replay) ==
    /\ requests' = Tail(requests)
    /\ alive' = TRUE /\ started' = (IF alive THEN started ELSE produced)
    /\ attached' = TRUE
    /\ wire' = wire \o <<[type |-> "Attached"]>>
                    \o (IF replay /\ produced > started'
                        THEN <<[type |-> "Scrollback", from |-> started' + 1, upTo |-> produced]>>
                        ELSE <<>>)
    /\ UNCHANGED <<ends, produced, up, wanted>>

\* A size counts only from a client that is attached.
TakeSize(size) ==
    /\ requests' = Tail(requests)
    /\ wanted' = IF attached THEN size ELSE wanted
    /\ wire' = IF attached THEN wire ELSE Append(wire, [type |-> "Error"])
    /\ UNCHANGED <<sessionVars, up, attached>>

ServeRequest ==
    /\ up /\ requests # <<>>
    /\ LET request == Head(requests)
       IN  \/ request.type = "Hello" /\ Greet
           \/ request.type = "Attach" /\ Attach(request.replay)
           \/ request.type = "Resize" /\ TakeSize(request.size)
    /\ UNCHANGED <<bridged, reachable, failures, speaks, transportVars, clientVars>>

\* The session's program exits, or the session is killed, or the server dies
\* with it: those attached are told.
End ==
    /\ alive /\ ends < MaxEnds
    /\ ends' = ends + 1 /\ alive' = FALSE
    /\ wire' = IF attached THEN Append(wire, [type |-> "Exit"]) ELSE wire
    /\ attached' = FALSE /\ wanted' = NoSize
    /\ UNCHANGED <<bridged, reachable, failures, speaks, started, produced, up, requests,
                   transportVars, clientVars>>

\* Another client attaches first, or a server that starts respawns it.
StartElsewhere ==
    /\ ~alive
    /\ alive' = TRUE /\ started' = produced
    /\ UNCHANGED <<bridged, reachable, failures, speaks, ends, produced, lineVars, transportVars,
                   clientVars>>

Produce ==
    /\ alive /\ produced < MaxOutput
    /\ produced' = produced + 1
    /\ wire' = IF up /\ attached THEN Append(wire, [type |-> "Output", upTo |-> produced + 1])
                                 ELSE wire
    /\ UNCHANGED <<bridged, reachable, failures, speaks, ends, alive, started, up, requests,
                   attached, wanted, transportVars, clientVars>>

\* The connection is lost, with some of what was on it, and perhaps the
\* server with it: the network fails, or the server hangs up.
Lose ==
    /\ up /\ failures < MaxFailures
    /\ failures' = failures + 1
    /\ reachable' \in BOOLEAN
    /\ up' = FALSE /\ attached' = FALSE /\ wanted' = NoSize /\ requests' = <<>>
    /\ \E k \in 0 .. Len(wire) : wire' = SubSeq(wire, 1, k)
    /\ UNCHANGED <<bridged, speaks, sessionVars, transportVars, clientVars>>

\* The network is back, or another server is up; one of another version is
\* another process, and started without the session.
Restore ==
    /\ ~reachable
    /\ reachable' = TRUE
    /\ speaks' \in BOOLEAN /\ (alive => speaks' = speaks)
    /\ UNCHANGED <<bridged, failures, sessionVars, lineVars, transportVars, clientVars>>

\* Time passes until the next attempt may be made.
Elapse ==
    /\ due = "waiting"
    /\ due' = "passed"
    /\ UNCHANGED <<worldVars, lineVars, transportVars, phase, connected, lastResize, calls, shown,
                   exited, retries, backoff, dials>>

\* The pane polls.
Poll == Receive \/ FindNothing \/ CheckEof \/ Redial

Next ==
    \/ Poll
    \/ ReadFails
    \/ \E size \in Sizes : Resize(size)
    \/ SendInput
    \/ Close
    \/ Pump
    \/ PumpEnds
    \/ ServeRequest
    \/ End
    \/ StartElsewhere
    \/ Produce
    \/ Lose
    \/ Restore
    \/ Elapse

Spec == Init /\ [][Next]_vars

FairSpec ==
    /\ Spec
    /\ WF_vars(Poll) /\ WF_vars(Elapse) /\ SF_vars(Close)
    /\ WF_vars(Pump) /\ WF_vars(PumpEnds)
    /\ WF_vars(ServeRequest) /\ WF_vars(Restore)

-----------------------------------------------------------------------------
(* Properties *)

TypeOK ==
    /\ bridged \in BOOLEAN /\ reachable \in BOOLEAN /\ up \in BOOLEAN /\ attached \in BOOLEAN /\ eof \in BOOLEAN
    /\ connected \in BOOLEAN /\ exited \in BOOLEAN /\ speaks \in BOOLEAN /\ alive \in BOOLEAN
    /\ failures \in 0 .. MaxFailures /\ ends \in 0 .. MaxEnds /\ calls \in 0 .. MaxCalls
    /\ produced \in 0 .. MaxOutput /\ started \in 0 .. produced
    /\ requests \in Seq(Request) /\ wire \in Seq(Message) /\ channel \in Seq(Message)
    /\ wanted \in Sizes \cup {NoSize} /\ lastResize \in Sizes
    /\ phase \in {"idle", "asking", "redialing", "closed"} /\ due \in {"never", "waiting", "passed"}
    /\ retries \in 0 .. MaxRetries /\ backoff \in 0 .. MaxBackoff /\ dials \in Nat
    /\ shown \in Seq(1 .. MaxOutput)

\* No output reaches the pane twice or out of order, however often the
\* connection is lost and the session started anew: the first connection
\* replays the history, the others do not (client.rs `attach').
OutputIsNotRepeated ==
    \A i, j \in DOMAIN shown : i < j => shown[i] < shown[j]

\* The server arbitrates with the size the pane reported last, on whichever
\* connection it did (resilience.rs `last_resize').
ConstraintIsRestored ==
    up /\ attached /\ requests = <<>> => wanted = lastResize

\* A server that never answers is dialed at most MAX_RETRIES times, also when
\* each dial seems to succeed (`try_reconnect').
DialsAreSpent == dials =< MaxRetries

\* Failures cease in the model.  The client is then attached again for good,
\* to the session it left or to a new one of its name, unless it ran out of
\* retries before, was told of the session's end and closed, or the server
\* speaks another version.
Reattaches ==
    \/ <>[](attached \/ retries = MaxRetries \/ phase = "closed")
    \/ <>[]~speaks

\* A client that is refused gives up (resilience.rs:186: an unreachable host is
\* not to be "redialed every few hundred milliseconds forever").
RefusalsAreFinal == <>[](attached \/ retries = MaxRetries \/ phase = "closed")

\* Who was told of the session's end does not start it again.
EndsAreFinal == [][exited /\ ServeRequest => alive' = alive]_vars

\* What the pane shows has no gap (resilience.rs:203: "The pane already shows
\* the session's history, so the new connection asks for no replay of it").
NothingIsSkipped == \A i \in DOMAIN shown : shown[i] = i
=============================================================================
