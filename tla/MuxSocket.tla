------------------------------ MODULE MuxSocket -------------------------------
(***************************************************************************)
(* How server processes (`winter mux serve') come by the one socket path   *)
(* clients connect to: bind it, or find out whether the file in the way is *)
(* a live server's or a crashed one's leftover.  A socket file stands for  *)
(* the process that bound it.                                              *)
(***************************************************************************)
EXTENDS Naturals, FiniteSets

CONSTANTS
    Server,       \* the processes that are ever started, one start each
    NoFile,       \* there is no socket file
    MaxStarting   \* bound: processes between their start and serving, at once

ASSUME ServerAssumption == IsFiniteSet(Server) /\ NoFile \notin Server
ASSUME StartingAssumption == MaxStarting \in Nat \ {0}

VARIABLES
    path,   \* whose socket the path names, or NoFile
    stage,  \* where a process is
    asked,  \* the server a probing process connected to
    overlapped   \* whether a process was ever started while another was starting

socketVars == <<path, stage, asked, overlapped>>

\* Where bind_socket can be: about to bind, finding the path taken, waiting
\* for the probed server to answer, about to unlink, about to bind again.
Binding == {"binding", "taken", "probing", "unlinking", "rebinding"}
\* Having bound, the process has permissions to set and sessions to respawn
\* before its loop serves anyone; "refused" is bind_socket's error on its way
\* through the MuxServer's Drop.
Stage == {"new"} \cup Binding \cup {"bound", "booting", "serving", "refused", "gone"}

Starting == {s \in Server : stage[s] \in Binding \cup {"bound", "booting", "refused"}}
\* A process whose listener is open: the kernel completes connects to it.
Listens(s) == stage[s] \in {"bound", "booting", "serving"}

Goto(s, p) == stage' = [stage EXCEPT ![s] = p]

SocketInit ==
    /\ path = NoFile
    /\ stage = [s \in Server |-> "new"]
    /\ asked = [s \in Server |-> s]
    /\ overlapped = FALSE

Start(s) ==
    /\ stage[s] = "new" /\ Cardinality(Starting) < MaxStarting
    /\ Goto(s, "binding")
    /\ overlapped' = (overlapped \/ Starting # {})
    /\ UNCHANGED <<path, asked>>

\* The first bind, which nothing but a file at the path stops.
Bind(s) ==
    /\ stage[s] = "binding"
    /\ IF path = NoFile THEN path' = s /\ Goto(s, "bound")
       ELSE UNCHANGED path /\ Goto(s, "taken")
    /\ UNCHANGED <<asked, overlapped>>

\* is_socket_live, up to the question: only a listening socket takes it.
ProbeNobodyFault(s) ==
    /\ stage[s] = "taken"
    /\ Goto(s, "unlinking")
    /\ UNCHANGED <<path, asked, overlapped>>
ProbeFileFault(s) ==
    /\ stage[s] = "taken"
    /\ Goto(s, IF path = NoFile THEN "unlinking" ELSE "refused")
    /\ UNCHANGED <<path, asked, overlapped>>
Probe(s) ==
    /\ stage[s] = "taken"
    /\ IF path # NoFile /\ Listens(path)
       THEN Goto(s, "probing") /\ asked' = [asked EXCEPT ![s] = path]
       ELSE Goto(s, "unlinking") /\ UNCHANGED asked
    /\ UNCHANGED <<path, overlapped>>

\* Only a server whose loop runs answers.
Answered(s) ==
    /\ stage[s] = "probing" /\ stage[asked[s]] = "serving"
    /\ Goto(s, "refused")
    /\ UNCHANGED <<path, asked, overlapped>>

\* LIVENESS_PROBE_TIMEOUT passes without an answer: of a server that is gone or
\* has not begun to serve, or of one whose loop is at something else until then.
TimedOutFault(s) ==
    /\ stage[s] = "probing" /\ stage[asked[s]] # "gone"
    /\ Goto(s, "unlinking")
    /\ UNCHANGED <<path, asked, overlapped>>
TimedOut(s) ==
    /\ stage[s] = "probing"
    /\ Goto(s, "unlinking")
    /\ UNCHANGED <<path, asked, overlapped>>

\* The leftover is removed, if somebody else has not done so.
Unlink(s) ==
    /\ stage[s] = "unlinking"
    /\ path' = NoFile
    /\ Goto(s, IF path = NoFile THEN "refused" ELSE "rebinding")
    /\ UNCHANGED <<asked, overlapped>>

Rebind(s) ==
    /\ stage[s] = "rebinding"
    /\ IF path = NoFile THEN path' = s /\ Goto(s, "bound")
       ELSE UNCHANGED path /\ Goto(s, "refused")
    /\ UNCHANGED <<asked, overlapped>>

\* The permissions are set on whatever file is at the path now.
SetPermissions(s) ==
    /\ stage[s] = "bound"
    /\ Goto(s, IF path = NoFile THEN "refused" ELSE "booting")
    /\ UNCHANGED <<path, asked, overlapped>>

\* The sessions of the defs file are respawned and the loop begins.
Serve(s) ==
    /\ stage[s] = "booting"
    /\ Goto(s, "serving")
    /\ UNCHANGED <<path, asked, overlapped>>

\* A refused process drops its MuxServer, which removes the file at the path.
Drop(s) ==
    /\ stage[s] = "refused"
    /\ path' = NoFile
    /\ Goto(s, "gone")
    /\ UNCHANGED <<asked, overlapped>>

\* A process is killed: nothing is dropped, its socket file stays.
Die(s) ==
    /\ stage[s] \notin {"new", "gone"}
    /\ Goto(s, "gone")
    /\ UNCHANGED <<path, asked, overlapped>>

Startup(s) ==
    \/ Bind(s)
    \/ Probe(s)
    \/ Answered(s)
    \/ TimedOut(s)
    \/ Unlink(s)
    \/ Rebind(s)
    \/ SetPermissions(s)
    \/ Serve(s)
    \/ Drop(s)

SocketNext == \E s \in Server : Start(s) \/ Startup(s) \/ Die(s)

SocketSpec == SocketInit /\ [][SocketNext]_socketVars
\* A started process runs.
Runs(s) == WF_socketVars(Startup(s))
FairSocketSpec == SocketSpec /\ \A s \in Server : Runs(s)

-----------------------------------------------------------------------------
(* Properties *)

\* The path names nobody but a process that bound it and listens on it, or is
\* gone.
SocketTypeOK ==
    /\ path \in Server \cup {NoFile}
    /\ stage \in [Server -> Stage]
    /\ asked \in [Server -> Server] /\ overlapped \in BOOLEAN
    /\ path # NoFile => Listens(path) \/ stage[path] = "gone"

\* A start that overlaps no other removes a crashed server's leftover, or the
\* socket of the very server it asked and that let the deadline pass: never that
\* of a listening process it has not asked, or that took the path since
\* (mod.rs `bind_socket', `is_socket_live').
OnlyTheSilentAreDisplaced ==
    [][\A s \in Server :
        Unlink(s) /\ ~overlapped =>
            path \in {NoFile, asked[s]} \/ ~Listens(path)]_socketVars

\* What mod.rs `bind_socket' says of itself, "Fails rather than displacing a
\* server that is still serving".  A server that answers late is displaced, and
\* of two starts at once the one may take the other's new socket for the leftover.
ServingAreNotDisplaced ==
    [][\A s \in Server : Unlink(s) => path = NoFile \/ stage[path] # "serving"]_socketVars

\* Such a start is refused only while another process serves: a crash never
\* leaves the path unusable, and no start fails for an unlucky look at it
\* (mod.rs `is_socket_live': a bare connect "would turn a legitimate restart
\* after a crash into \"already listening\"").
RefusedOnlyByServers ==
    [][\A s \in Server :
        ~overlapped /\ stage[s] # "refused" /\ stage'[s] = "refused"
            => \E t \in Server \ {s} : stage[t] = "serving"]_socketVars

\* The socket of a server that serves stays where clients look for it for as
\* long as the server runs.
ServersStayReachable ==
    [][\A t \in Server :
        path = t /\ stage[t] = "serving" => path' = t]_socketVars

\* Every start comes to serving or to an end, also when the server it asks
\* dies or never answers.
Settles(s) == stage[s] = "binding" ~> stage[s] \in {"serving", "gone"}
StartsSettle == \A s \in Server : Settles(s)
=============================================================================
