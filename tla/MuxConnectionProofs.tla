-------------------------- MODULE MuxConnectionProofs -------------------------
(***************************************************************************)
(* Theorems about how a connection to a mux server comes about, in         *)
(* MuxSocket, for any number of server processes, and about its frames, in *)
(* MuxFrames, for any messages, limits and cuts of the stream into reads.  *)
(***************************************************************************)
EXTENDS MuxSocket, MuxFrames, SequenceTheorems, WellFoundedInduction,
        TLAPS

-----------------------------------------------------------------------------
(* Whose socket the path names *)

\* Every step keeps the types, and the path's socket a listening or a dead
\* process's.
LEMMA StartsKeepType ==
    ASSUME SocketTypeOK, [SocketNext]_socketVars
    PROVE  SocketTypeOK'
<1> USE ServerAssumption DEF SocketTypeOK, Stage, Binding, Listens, Goto
<1>1. CASE UNCHANGED socketVars
  BY <1>1 DEF socketVars
<1>2. ASSUME NEW s \in Server, Start(s)
      PROVE  SocketTypeOK'
  BY <1>2 DEF Start
<1>3. ASSUME NEW s \in Server, Startup(s)
      PROVE  SocketTypeOK'
  <2>1. CASE Bind(s)
    BY <2>1 DEF Bind
  <2>2. CASE Probe(s)
    BY <2>2 DEF Probe
  <2>3. CASE Answered(s)
    BY <2>3 DEF Answered
  <2>4. CASE TimedOut(s)
    BY <2>4 DEF TimedOut
  <2>5. CASE Unlink(s)
    BY <2>5 DEF Unlink
  <2>6. CASE Rebind(s)
    BY <2>6 DEF Rebind
  <2>7. CASE SetPermissions(s)
    BY <2>7 DEF SetPermissions
  <2>8. CASE Serve(s)
    BY <2>8 DEF Serve
  <2>9. CASE Drop(s)
    BY <2>9 DEF Drop
  <2> QED BY <1>3, <2>1, <2>2, <2>3, <2>4, <2>5, <2>6, <2>7, <2>8, <2>9 DEF Startup
<1>4. ASSUME NEW s \in Server, Die(s)
      PROVE  SocketTypeOK'
  BY <1>4 DEF Die
<1> QED BY <1>1, <1>2, <1>3, <1>4 DEF SocketNext

\* The path never names a socket of a process that runs without listening
\* (bind_socket, and MuxServer's Drop).
THEOREM SocketType == SocketSpec => []SocketTypeOK
<1>1. SocketInit => SocketTypeOK
  BY ServerAssumption DEF SocketInit, SocketTypeOK, Stage
<1> QED BY <1>1, StartsKeepType, PTL DEF SocketSpec

-----------------------------------------------------------------------------
(* Starts that do not overlap *)

\* What holds between bind_socket's calls as long as no starts overlapped:
\* the file found stays the file that is probed and unlinked, and the path
\* stays free between the unlink and the second bind.
StartsAlone == \A s, t \in Starting : s = t
ProbesThePath ==
    \A s \in Server :
        /\ stage[s] \in {"taken", "probing", "unlinking"} => path # NoFile
        /\ stage[s] = "probing" => asked[s] = path
        /\ stage[s] = "unlinking" => path = asked[s] \/ ~Listens(path)
        /\ stage[s] = "rebinding" => path = NoFile
        /\ stage[s] = "bound" => path = s
SocketInv == SocketTypeOK /\ (~overlapped => StartsAlone /\ ProbesThePath)

\* A step of a starting process keeps it the only one.
LEMMA NextStartsAlone ==
    ASSUME SocketInv, [SocketNext]_socketVars, ~overlapped'
    PROVE  StartsAlone'
<1> USE DEF SocketInv, SocketTypeOK, StartsAlone, Starting, Stage, Binding, Goto
<1>1. CASE UNCHANGED socketVars
  BY <1>1 DEF socketVars
<1>2. ASSUME NEW s \in Server, Start(s)
      PROVE  StartsAlone'
  BY <1>2 DEF Start
<1>3. ASSUME NEW s \in Server, Startup(s)
      PROVE  StartsAlone'
  <2>1. stage[s] \in Binding \cup {"bound", "booting", "refused"}
    BY <1>3 DEF Startup, Bind, Probe, Answered, TimedOut, Unlink, Rebind, SetPermissions, Serve, Drop
  <2>2. \A t \in Server \ {s} : stage'[t] = stage[t]
    BY <1>3 DEF Startup, Bind, Probe, Answered, TimedOut, Unlink, Rebind, SetPermissions, Serve, Drop
  <2>3. ~overlapped
    BY <1>3 DEF Startup, Bind, Probe, Answered, TimedOut, Unlink, Rebind, SetPermissions, Serve, Drop
  <2> QED BY <2>1, <2>2, <2>3
<1>4. ASSUME NEW s \in Server, Die(s)
      PROVE  StartsAlone'
  BY <1>4 DEF Die
<1> QED BY <1>1, <1>2, <1>3, <1>4 DEF SocketNext

\* ... and what it found at the path true: nobody else moves the file, a server
\* found dead stays dead, and one that is asked is the path's.
LEMMA NextProbesThePath ==
    ASSUME SocketInv, [SocketNext]_socketVars, ~overlapped'
    PROVE  ProbesThePath'
<1> USE ServerAssumption DEF SocketInv, SocketTypeOK, StartsAlone, ProbesThePath, Starting, Stage,
                             Binding, Listens, Goto
<1>1. CASE UNCHANGED socketVars
  BY <1>1 DEF socketVars
<1>2. ASSUME NEW s \in Server, Start(s)
      PROVE  ProbesThePath'
  BY <1>2 DEF Start
<1>3. ASSUME NEW s \in Server, Startup(s)
      PROVE  ProbesThePath'
  <2>1. CASE Bind(s)
    BY <2>1 DEF Bind
  <2>2. CASE Probe(s)
    BY <2>2 DEF Probe
  <2>3. CASE Answered(s)
    BY <2>3 DEF Answered
  <2>4. CASE TimedOut(s)
    BY <2>4 DEF TimedOut
  <2>5. CASE Unlink(s)
    BY <2>5 DEF Unlink
  <2>6. CASE Rebind(s)
    BY <2>6 DEF Rebind
  <2>7. CASE SetPermissions(s)
    BY <2>7 DEF SetPermissions
  <2>8. CASE Serve(s)
    BY <2>8 DEF Serve
  <2>9. CASE Drop(s)
    BY <2>9 DEF Drop
  <2> QED BY <1>3, <2>1, <2>2, <2>3, <2>4, <2>5, <2>6, <2>7, <2>8, <2>9 DEF Startup
<1>4. ASSUME NEW s \in Server, Die(s)
      PROVE  ProbesThePath'
  BY <1>4 DEF Die
<1> QED BY <1>1, <1>2, <1>3, <1>4 DEF SocketNext

\* A start that overlaps no other finds the path as it was told it is, from the
\* first bind to the permissions.
THEOREM OneStartAtATime == SocketSpec => []SocketInv
<1>1. SocketInit => SocketInv
  BY ServerAssumption DEF SocketInit, SocketInv, SocketTypeOK, StartsAlone, ProbesThePath, Starting, Stage, Binding
<1>2. SocketInv /\ [SocketNext]_socketVars => SocketInv'
  <2> SUFFICES ASSUME SocketInv, [SocketNext]_socketVars
               PROVE  SocketInv'
    OBVIOUS
  <2>1. SocketTypeOK'
    BY StartsKeepType DEF SocketInv
  <2>2. ~overlapped' => StartsAlone' /\ ProbesThePath'
    BY NextStartsAlone, NextProbesThePath
  <2> QED BY <2>1, <2>2 DEF SocketInv
<1> QED BY <1>1, <1>2, PTL DEF SocketSpec

\* bind_socket of a start that overlaps no other unlinks only what a dead server
\* left, or the socket of the server it asked and that let the deadline pass
\* (mod.rs:188, 211-219).
THEOREM OnlyTheSilent == SocketSpec => OnlyTheSilentAreDisplaced
<1>1. SocketInv => \A s \in Server :
                      Unlink(s) /\ ~overlapped => path \in {NoFile, asked[s]} \/ ~Listens(path)
  BY DEF SocketInv, ProbesThePath, Unlink
<1>2. SocketInv /\ [SocketNext]_socketVars
          => [\A s \in Server :
                Unlink(s) /\ ~overlapped =>
                    path \in {NoFile, asked[s]} \/ ~Listens(path)]_socketVars
  BY <1>1
<1> QED BY <1>2, OneStartAtATime, PTL DEF SocketSpec, OnlyTheSilentAreDisplaced

\* A start that overlaps with no other fails only because a server is serving
\* (mod.rs:183).
THEOREM RefusalsAreDeserved == SocketSpec => RefusedOnlyByServers
<1> DEFINE Deserved ==
      \A s \in Server :
          ~overlapped /\ stage[s] # "refused" /\ stage'[s] = "refused"
              => \E t \in Server \ {s} : stage[t] = "serving"
<1>1. SocketInv /\ [SocketNext]_socketVars => [Deserved]_socketVars
  <2> SUFFICES ASSUME SocketInv, SocketNext
               PROVE  Deserved
    OBVIOUS
  <2> USE DEF SocketInv, SocketTypeOK, ProbesThePath, Stage, Binding, Goto
  <2>1. ASSUME NEW s \in Server, Start(s) \/ Die(s)
        PROVE  Deserved
    BY <2>1 DEF Start, Die
  <2>2. ASSUME NEW s \in Server, Startup(s)
        PROVE  Deserved
    <3>1. CASE Answered(s)
      BY <3>1 DEF Answered
    <3>2. CASE Unlink(s) \/ Rebind(s) \/ SetPermissions(s)
      BY <3>2, ServerAssumption DEF Unlink, Rebind, SetPermissions
    <3>3. CASE Bind(s) \/ Probe(s) \/ TimedOut(s) \/ Serve(s) \/ Drop(s)
      BY <3>3 DEF Bind, Probe, TimedOut, Serve, Drop
    <3> QED BY <2>2, <3>1, <3>2, <3>3 DEF Startup
  <2> QED BY <2>1, <2>2 DEF SocketNext
<1> QED BY <1>1, OneStartAtATime, PTL DEF SocketSpec, RefusedOnlyByServers

-----------------------------------------------------------------------------
(* Every start settles *)

\* The stages a process is in between its start and serving or its end, and
\* the ones a step of its own, or being killed, takes it to from each.
UnderWay == {"binding", "taken", "probing", "unlinking", "rebinding",
             "bound", "booting", "refused"}
Onward == [p \in UnderWay |->
              {"gone"} \cup
              CASE p = "binding"   -> {"bound", "taken"}
                [] p = "taken"     -> {"probing", "unlinking"}
                [] p = "probing"   -> {"refused", "unlinking"}
                [] p = "unlinking" -> {"refused", "rebinding"}
                [] p = "rebinding" -> {"refused", "bound"}
                [] p = "bound"     -> {"refused", "booting"}
                [] p = "booting"   -> {"serving"}
                [] p = "refused"   -> {}]

\* Nothing but a step of its own takes a starting process out of its stage,
\* except that it is killed.
LEMMA StagesArePassedInOrder ==
    ASSUME SocketTypeOK, [SocketNext]_socketVars,
           NEW s \in Server, stage[s] \in UnderWay
    PROVE  stage'[s] = stage[s] \/ stage'[s] \in Onward[stage[s]]
<1> USE DEF SocketTypeOK, Goto, UnderWay, Onward
<1>1. CASE UNCHANGED socketVars
  BY <1>1 DEF socketVars
<1>2. ASSUME NEW t \in Server, t # s, Start(t) \/ Startup(t) \/ Die(t)
      PROVE  stage'[s] = stage[s]
  BY <1>2 DEF Start, Startup, Die, Bind, Probe, Answered, TimedOut, Unlink, Rebind,
              SetPermissions, Serve, Drop
<1>3. CASE Start(s) \/ Die(s)
  BY <1>3 DEF Start, Die
<1>4. CASE Startup(s)
  BY <1>4 DEF Startup, Bind, Probe, Answered, TimedOut, Unlink, Rebind, SetPermissions,
              Serve, Drop
<1> QED BY <1>1, <1>2, <1>3, <1>4 DEF SocketNext

\* A step of a starting process takes it to a next stage: bind_socket and the
\* start behind it hold no loop.
LEMMA StartsGoOn ==
    ASSUME SocketTypeOK, NEW s \in Server, stage[s] \in UnderWay, Startup(s)
    PROVE  stage'[s] \in Onward[stage[s]]
BY DEF SocketTypeOK, Goto, UnderWay, Onward, Startup, Bind, Probe, Answered, TimedOut,
       Unlink, Rebind, SetPermissions, Serve, Drop

\* What the provers cannot see of Startup: a starting process always has a step
\* to take, whatever the path and the other processes are.
CanGoOn(s) == [](stage[s] \in UnderWay => ENABLED <<Startup(s)>>_socketVars)

\* A process that runs leaves the stage p of its start.
Leaves(s, p) == SocketSpec /\ Runs(s) /\ CanGoOn(s)
                    => (stage[s] = p ~> stage[s] \in Onward[p])

\* No stage of bind_socket is one to stay in.
LEMMA StagesEnd ==
    ASSUME NEW s \in Server, NEW p \in UnderWay
    PROVE  Leaves(s, p)
<1>1. SocketTypeOK /\ stage[s] = p /\ [SocketNext]_socketVars
          => (stage[s] = p)' \/ (stage[s] \in Onward[p])'
  BY StagesArePassedInOrder
<1>2. SocketTypeOK /\ stage[s] = p /\ <<Startup(s)>>_socketVars => (stage[s] \in Onward[p])'
  BY StartsGoOn
<1>3. stage[s] = p => stage[s] \in UnderWay
  OBVIOUS
<1> QED BY <1>1, <1>2, <1>3, SocketType, PTL DEF SocketSpec, Runs, CanGoOn, Leaves

\* A process that runs comes to serving or to an end.
Arrives(s) == SocketSpec /\ Runs(s) /\ CanGoOn(s) => Settles(s)

LEMMA StartArrives ==
    ASSUME NEW s \in Server
    PROVE  Arrives(s)
<1> DEFINE Ends == stage[s] \in {"serving", "gone"}
           On(p) == stage[s] \in Onward[p]
<1>1. /\ On("refused") => Ends
      /\ On("booting") => Ends
      /\ On("bound") => stage[s] = "refused" \/ stage[s] = "booting" \/ Ends
      /\ On("rebinding") => stage[s] = "refused" \/ stage[s] = "bound" \/ Ends
      /\ On("unlinking") => stage[s] = "refused" \/ stage[s] = "rebinding" \/ Ends
      /\ On("probing") => stage[s] = "refused" \/ stage[s] = "unlinking" \/ Ends
      /\ On("taken") => stage[s] = "probing" \/ stage[s] = "unlinking" \/ Ends
      /\ On("binding") => stage[s] = "bound" \/ stage[s] = "taken" \/ Ends
  BY DEF Onward, UnderWay
<1>2. /\ Leaves(s, "binding") /\ Leaves(s, "taken") /\ Leaves(s, "probing")
      /\ Leaves(s, "unlinking") /\ Leaves(s, "rebinding") /\ Leaves(s, "bound")
      /\ Leaves(s, "booting") /\ Leaves(s, "refused")
  BY StagesEnd DEF UnderWay
<1> QED BY <1>1, <1>2, PTL DEF Leaves, Arrives, Settles

\* Every start comes to serving or to an end (mod.rs:183): no start waits for
\* another that waits for it, since a probe that nobody answers times out.
THEOREM StartsDoSettle ==
    FairSocketSpec /\ (\A s \in Server : CanGoOn(s)) => StartsSettle
<1>1. ASSUME NEW s \in Server
      PROVE  SocketSpec /\ Runs(s) /\ CanGoOn(s) => Settles(s)
  BY StartArrives, PTL DEF Arrives
<1> QED BY <1>1 DEF FairSocketSpec, StartsSettle

-----------------------------------------------------------------------------
(* Frames: what each step does to the bytes *)

\* What is left of a stream without its n oldest bytes.
LEMMA RestIsBytes ==
    ASSUME NEW s \in Seq(Byte), NEW n \in Nat, n =< Len(s)
    PROVE  Without(n, s) \in Seq(Byte) /\ SubSeq(s, 1, n) \in Seq(Byte)
<1>1. n + 1 \in 1 .. Len(s) + 1 /\ Len(s) \in n .. Len(s)
  OBVIOUS
<1> QED BY <1>1, SubSeqProperties DEF Without

\* A message's length fits its prefix.
LEMMA EncodedIsBytes ==
    ASSUME NEW m \in Messages
    PROVE  Encode(m) \in Seq(Byte)
<1>1. m \in Seq(Byte) /\ Len(m) \in Nat /\ Len(m) < Base * Base /\ Base \in Nat \ {0}
  BY FramesAssumption
<1>2. Len(m) % Base \in Byte
  BY <1>1 DEF Byte
<1>3. Len(m) \div Base \in Byte
  <2> DEFINE q == Len(m) \div Base
  <2>1. q \in Nat /\ Base * q =< Len(m)
    BY <1>1
  <2>2. ~ (q >= Base)
    <3> HIDE DEF q
    <3>1. q >= Base => Base * q >= Base * Base
      BY <1>1, <2>1
    <3> QED BY <1>1, <2>1, <3>1
  <2> QED BY <1>1, <2>1, <2>2 DEF Byte
<1>4. <<Len(m) \div Base, Len(m) % Base>> \in Seq(Byte)
  BY <1>2, <1>3
<1> QED BY <1>1, <1>4 DEF Encode

\* The length at the front of the buffer.
LEMMA FrameLenIsNat ==
    ASSUME TypeOK, HasPrefix
    PROVE  FrameLen \in Nat /\ FrameLen >= PrefixBytes
<1>1. 1 \in DOMAIN buf /\ 2 \in DOMAIN buf /\ buf \in Seq(Byte)
  BY DEF TypeOK, HasPrefix, PrefixBytes
<1>2. buf[1] \in Nat /\ buf[2] \in Nat /\ Base \in Nat
  BY <1>1, FramesAssumption DEF Byte
<1>3. buf[1] * Base \in Nat
  BY <1>2
<1> QED BY <1>2, <1>3 DEF FrameLen, PrefixBytes

\* What a drain gives for one frame.
LEMMA ResultsAreResults ==
    ASSUME NEW m \in Seq(Byte)
    PROVE  Results(m) \in Seq([ok : BOOLEAN, body : Seq(Byte)])
<1> DEFINE Result == [ok : BOOLEAN, body : Seq(Byte)]
<1>1. <<>> \in Seq(Byte) /\ <<>> \in Seq(Result)
  BY EmptySeq
<1>2. Decoded(m) \in Result
  BY <1>1 DEF Decoded
<1>3. <<Decoded(m)>> \in Seq(Result)
  <2> HIDE DEF Result
  <2> QED BY <1>2
<1> QED BY <1>1, <1>3 DEF Results

\* Every step keeps the types.
LEMMA TypeInductive == TypeOK /\ [Next]_vars => TypeOK'
<1> SUFFICES ASSUME TypeOK, [Next]_vars
             PROVE  TypeOK'
  OBVIOUS
<1> USE DEF TypeOK
<1>1. CASE \E m \in Messages : Send(m)
  <2> PICK m \in Messages : Send(m)
    BY <1>1
  <2>1. wire' \in Seq(Byte)
    BY EncodedIsBytes DEF Send
  <2> QED BY <2>1 DEF Send
<1>2. CASE Shut
  BY <1>2 DEF Shut
<1>3. CASE HangUp
  BY <1>3 DEF HangUp
<1>4. CASE \E n \in 1 .. ChunkBytes : Read(n)
  <2> PICK n \in 1 .. ChunkBytes : Read(n)
    BY <1>4
  <2>1. n \in Nat /\ n =< Len(wire)
    BY FramesAssumption DEF Read
  <2>2. SubSeq(wire, 1, n) \in Seq(Byte) /\ Without(n, wire) \in Seq(Byte)
    BY <2>1, RestIsBytes
  <2>3. buf' \in Seq(Byte) /\ wire' \in Seq(Byte)
    BY <2>2 DEF Read, Extended
  <2> QED BY <2>3 DEF Read
<1>5. CASE ReadEnd
  BY <1>5 DEF ReadEnd
<1>6. CASE Break
  BY <1>6 DEF Break
<1>7. CASE DrainOne
  <2>1. FrameLen \in Nat /\ FrameLen >= PrefixBytes /\ FrameLen =< Len(buf)
    BY <1>7, FrameLenIsNat DEF DrainOne
  <2>2. Rest \in Seq(Byte)
    BY <2>1, RestIsBytes DEF Rest
  <2>3. PrefixBytes + 1 \in 1 .. Len(buf) + 1 /\ FrameLen \in PrefixBytes .. Len(buf)
    BY <2>1 DEF PrefixBytes
  <2>4. SubSeq(buf, PrefixBytes + 1, FrameLen) \in Seq(Byte)
    BY <2>3, SubSeqProperties
  <2>5. Results(SubSeq(buf, PrefixBytes + 1, FrameLen)) \in Seq([ok : BOOLEAN, body : Seq(Byte)])
    BY <2>4, ResultsAreResults
  <2>6. got' \in Seq([ok : BOOLEAN, body : Seq(Byte)])
    BY <1>7, <2>5 DEF DrainOne
  <2>7. found' \in BOOLEAN
    BY <1>7 DEF DrainOne
  <2> QED BY <1>7, <2>2, <2>6, <2>7 DEF DrainOne
<1>8. CASE EndDrain
  BY <1>8 DEF EndDrain
<1>9. CASE UNCHANGED vars
  BY <1>9 DEF vars
<1> QED BY <1>1, <1>2, <1>3, <1>4, <1>5, <1>6, <1>7, <1>8, <1>9 DEF Next, PeerStep, ReaderStep

\* The reader's variables keep their types, whatever a peer sends.
THEOREM FrameTypes == Spec => []TypeOK
<1>1. Init => TypeOK
  <2> DEFINE Result == [ok : BOOLEAN, body : Seq(Byte)]
  <2>1. <<>> \in Seq(Byte) /\ <<>> \in Seq(Messages) /\ <<>> \in Seq(Result)
    BY EmptySeq
  <2> QED BY <2>1 DEF Init, TypeOK
<1> QED BY <1>1, TypeInductive, PTL DEF Spec

\* Only a drain that left less than a frame, or discarded everything, lets the
\* next read happen.
LEMMA BoundInductive ==
    TypeOK /\ BufferIsBounded /\ [Next]_vars => BufferIsBounded'
<1> SUFFICES ASSUME TypeOK, BufferIsBounded, [Next]_vars
             PROVE  BufferIsBounded'
  OBVIOUS
<1>1. CASE EndDrain
  <2>1. MaxFrameBytes \in Nat /\ Len(buf) \in Nat /\ buf' = buf
    BY <1>1, FramesAssumption DEF EndDrain, TypeOK
  <2>2. CASE ~ HasPrefix
    BY <2>1, <2>2 DEF HasPrefix, BufferIsBounded, PrefixBytes
  <2>3. CASE HasPrefix
    <3>1. FrameLen > Len(buf) /\ ~ (FrameLen > MaxFrameBytes + PrefixBytes)
      BY <1>1, <2>3 DEF EndDrain, TooLarge
    <3>2. FrameLen \in Nat
      BY <2>3, FrameLenIsNat
    <3> QED BY <2>1, <3>1, <3>2 DEF BufferIsBounded, PrefixBytes
  <2> QED BY <2>2, <2>3
<1>2. CASE (\E m \in Messages : Send(m)) \/ Shut \/ HangUp \/ ReadEnd \/ UNCHANGED vars
  BY <1>2 DEF BufferIsBounded, Send, Shut, HangUp, ReadEnd, vars
<1>3. CASE (\E n \in 1 .. ChunkBytes : Read(n)) \/ Break \/ DrainOne
  BY <1>3 DEF BufferIsBounded, Read, Break, DrainOne
<1> QED BY <1>1, <1>2, <1>3 DEF Next, PeerStep, ReaderStep

\* Between reads less than one frame of the largest size is buffered: a length
\* prefix asks for no more memory than that, whatever it says (protocol.rs:24-27).
THEOREM BufferStaysBounded == Spec => []BufferIsBounded
<1>1. Init => BufferIsBounded
  BY FramesAssumption DEF Init, BufferIsBounded, PrefixBytes
<1> QED BY <1>1, FrameTypes, BoundInductive, PTL DEF Spec

-----------------------------------------------------------------------------
(* Too large a frame *)

\* A server's reader that broke its buffer never reads again
\* (connection.rs:120).
THEOREM BrokenIsGivenUp == Spec => []BrokenIsDropped
<1>1. Init => BrokenIsDropped
  BY DEF Init, BrokenIsDropped
<1>2. BrokenIsDropped /\ [Next]_vars => BrokenIsDropped'
  <2> SUFFICES ASSUME BrokenIsDropped, [Next]_vars
               PROVE  BrokenIsDropped'
    OBVIOUS
  <2> USE DEF BrokenIsDropped
  <2>1. CASE EndDrain
    BY <2>1 DEF EndDrain, Drops
  <2>2. CASE Break \/ DrainOne \/ ReadEnd \/ \E n \in 1 .. ChunkBytes : Read(n)
    BY <2>2 DEF Break, DrainOne, ReadEnd, Read
  <2>3. CASE PeerStep \/ UNCHANGED vars
    BY <2>3 DEF PeerStep, Send, Shut, HangUp, vars
  <2> QED BY <2>1, <2>2, <2>3 DEF Next, ReaderStep
<1> QED BY <1>1, <1>2, PTL DEF Spec

-----------------------------------------------------------------------------
(* Connections end *)

\* A broken buffer holds nothing, and takes nothing (FrameBuffer::extend).
BrokenIsEmpty == broken => buf = <<>>

LEMMA BrokenStaysEmpty == Spec => []BrokenIsEmpty
<1>1. Init => BrokenIsEmpty
  BY DEF Init, BrokenIsEmpty
<1>2. TypeOK /\ BrokenIsEmpty /\ [Next]_vars => BrokenIsEmpty'
  <2> SUFFICES ASSUME TypeOK, BrokenIsEmpty, [Next]_vars
               PROVE  BrokenIsEmpty'
    OBVIOUS
  <2> USE DEF BrokenIsEmpty
  <2>1. CASE DrainOne
    BY <2>1 DEF DrainOne, HasPrefix, PrefixBytes
  <2>2. CASE \E n \in 1 .. ChunkBytes : Read(n)
    BY <2>2 DEF Read, Extended
  <2>3. CASE Break \/ EndDrain \/ ReadEnd
    BY <2>3 DEF Break, EndDrain, ReadEnd
  <2>4. CASE PeerStep \/ UNCHANGED vars
    BY <2>4 DEF PeerStep, Send, Shut, HangUp, vars
  <2> QED BY <2>1, <2>2, <2>3, <2>4 DEF Next, ReaderStep
<1> QED BY <1>1, <1>2, FrameTypes, PTL DEF Spec

\* What the provers cannot see of ReaderStep: in a drain, and with bytes or the
\* stream's end to read, the reader has a step to take.
HasAStep ==
    phase = "drain" \/ (phase = "read" /\ (wire # <<>> \/ peer = "closed"))
ReaderCanGoOn == [](HasAStep => ENABLED <<ReaderStep>>_vars)

\* The server's end of a connection whose peer declared too large a frame is
\* dropped, also when the peer goes on sending (connection.rs:120).
THEOREM BrokenConnectionsEnd == FairSpec /\ ReaderCanGoOn => BrokenEnd
<1> DEFINE Dropping == phase = "drain" /\ broken /\ buf = <<>> /\ reader = "server"
           Done == phase = "done"
<1>1. BrokenIsEmpty /\ BrokenIsDropped /\ TypeOK /\ broken /\ reader = "server"
          => Dropping \/ Done
  BY DEF BrokenIsEmpty, BrokenIsDropped, TypeOK
<1>2. Dropping /\ ReaderStep => Done'
  BY DEF ReaderStep, Read, ReadEnd, Break, DrainOne, EndDrain, HasPrefix, PrefixBytes, Drops
<1>3. Dropping /\ (PeerStep \/ UNCHANGED vars) => Dropping'
  BY DEF PeerStep, Send, Shut, HangUp, vars
<1>4. /\ Dropping /\ [Next]_vars => Dropping' \/ Done'
      /\ Dropping /\ <<ReaderStep>>_vars => Done'
  BY <1>2, <1>3 DEF Next
<1>5. Dropping => HasAStep
  BY DEF HasAStep
<1> QED BY <1>1, <1>4, <1>5, BrokenStaysEmpty, BrokenIsGivenUp, FrameTypes, PTL
        DEF FairSpec, Spec, ReaderCanGoOn, BrokenEnd

\* What is left to do for the reader of a stream that ended: each byte on the
\* way is to be read, then to be taken out of the buffer; each drain is to end.
ToDo == 3 * Len(wire) + Len(buf) + (IF phase = "drain" THEN 1 ELSE 0)

LEMMA ToDoIsNat == TypeOK => ToDo \in Nat
  BY DEF TypeOK, ToDo

\* Every step of the reader leaves less to do, or ends the connection.
LEMMA ReadersDoIt ==
    ASSUME TypeOK, ReaderStep
    PROVE  phase' = "done" \/ ToDo' < ToDo
<1> USE DEF TypeOK, ToDo
<1>1. CASE \E n \in 1 .. ChunkBytes : Read(n)
  <2>1. PICK n \in 1 .. ChunkBytes : Read(n)
    BY <1>1
  <2>2. n \in Nat /\ n >= 1 /\ n =< Len(wire)
    BY <2>1, FramesAssumption DEF Read
  <2>3. Len(Without(n, wire)) = Len(wire) - n
    BY <2>2, RestIsBytes DEF Without
  <2>4. SubSeq(wire, 1, n) \in Seq(Byte) /\ Len(SubSeq(wire, 1, n)) = n
    BY <2>2, RestIsBytes
  <2>5. buf' \in Seq(Byte) /\ Len(buf') =< Len(buf) + n
    BY <2>1, <2>2, <2>4 DEF Read, Extended
  <2>6. wire' = Without(n, wire) /\ phase = "read" /\ phase' = "drain"
    BY <2>1 DEF Read
  <2> QED BY <2>2, <2>3, <2>5, <2>6
<1>2. CASE ReadEnd
  BY <1>2 DEF ReadEnd
<1>3. CASE Break
  BY <1>3 DEF Break, HasPrefix, PrefixBytes
<1>4. CASE DrainOne
  <2>1. FrameLen \in Nat /\ FrameLen >= 2 /\ FrameLen =< Len(buf)
    BY <1>4, FrameLenIsNat DEF DrainOne, PrefixBytes
  <2>2. Len(Without(FrameLen, buf)) = Len(buf) - FrameLen
    BY <2>1, RestIsBytes DEF Without
  <2>3. buf' = Without(FrameLen, buf) /\ wire' = wire /\ phase' = phase
    BY <1>4 DEF DrainOne, Rest
  <2> QED BY <2>1, <2>2, <2>3
<1>5. CASE EndDrain
  BY <1>5 DEF EndDrain
<1> QED BY <1>1, <1>2, <1>3, <1>4, <1>5 DEF ReaderStep

\* A connection whose peer closed it comes, from any amount left to do, to its
\* end or to less left to do (connection.rs:105).  That it ends follows by
\* induction over n, which is beyond the provers for a temporal formula.
THEOREM ClosedConnectionsComeToAnEnd ==
    ASSUME NEW n \in Nat
    PROVE  FairSpec /\ ReaderCanGoOn
               => (peer = "closed" /\ ToDo = n
                      ~> phase = "done" \/ (peer = "closed" /\ ToDo < n))
<1> DEFINE At == peer = "closed" /\ phase # "done" /\ ToDo = n
           On == phase = "done" \/ (peer = "closed" /\ ToDo < n)
<1>1. TypeOK /\ At /\ ReaderStep => On'
  <2> SUFFICES ASSUME TypeOK, At, ReaderStep
               PROVE  On'
    OBVIOUS
  <2>1. peer' = "closed"
    BY DEF ReaderStep, Read, ReadEnd, Break, DrainOne, EndDrain
  <2> QED BY <2>1, ReadersDoIt
<1>2. At /\ (PeerStep \/ UNCHANGED vars) => At'
  BY DEF PeerStep, Send, Shut, HangUp, vars, ToDo
<1>3. /\ TypeOK /\ At /\ [Next]_vars => At' \/ On'
      /\ TypeOK /\ At /\ <<ReaderStep>>_vars => On'
  BY <1>1, <1>2 DEF Next
<1>4. TypeOK /\ At => HasAStep
  BY DEF HasAStep, TypeOK
<1>5. peer = "closed" /\ ToDo = n => At \/ On
  OBVIOUS
<1> QED BY <1>3, <1>4, <1>5, FrameTypes, PTL DEF FairSpec, Spec, ReaderCanGoOn

-----------------------------------------------------------------------------
(* What is to come of the messages sent *)

Result == [ok : BOOLEAN, body : Seq(Byte)]

\* Of some natural numbers, one is the least.
LEMMA LeastNumber ==
    ASSUME NEW S, S \subseteq Nat, S # {}
    PROVE  \E x \in S : \A y \in S : x =< y
<1>1. PICK R : IsWellFoundedOn(R, Nat) /\ \A a, b \in Nat : a < b => <<a, b>> \in R
  <2>1. \A a, b \in Nat : a < b => <<a, b>> \in OpToRel(<, Nat)
    BY DEF OpToRel
  <2> QED BY <2>1, NatLessThanWellFounded
<1>2. PICK x \in S : \A y \in S : ~ (<<y, x>> \in R)
  <2>1. IsWellFoundedOn(R, Nat)
    BY <1>1
  <2> HIDE <1>1
  <2> QED BY <2>1, WFMin
<1>3. ASSUME NEW y \in S
      PROVE  x =< y
  <2>1. ~ (y < x)
    BY <1>1, <1>2
  <2> QED BY <2>1
<1> QED BY <1>3

\* A function from m on, up to n + 1, each of whose values is empty or goes before
\* the next.
Continues(f, R, n, ends, i) == f[i] = IF i > n \/ i \in ends THEN <<>> ELSE R[i] \o f[i + 1]
Continued(m, R, n, ends, S) ==
    \E f \in [m .. n + 1 -> Seq(S)] : \A i \in m .. n + 1 : Continues(f, R, n, ends, i)

LEMMA ContinuedOnce ==
    ASSUME NEW n \in Nat, NEW S, NEW R \in [1 .. n -> Seq(S)], NEW ends, NEW m \in 1 .. n,
           Continued(m + 1, R, n, ends, S)
    PROVE  Continued(m, R, n, ends, S)
<1>1. PICK f \in [m + 1 .. n + 1 -> Seq(S)] :
          \A i \in m + 1 .. n + 1 : Continues(f, R, n, ends, i)
  BY DEF Continued
<1> DEFINE first == IF m \in ends THEN <<>> ELSE R[m] \o f[m + 1]
           g == [i \in m .. n + 1 |-> IF i = m THEN first ELSE f[i]]
<1>2. first \in Seq(S)
  <2>1. f[m + 1] \in Seq(S) /\ R[m] \in Seq(S)
    OBVIOUS
  <2> QED BY <2>1, EmptySeq, ConcatProperties
<1> HIDE DEF first
<1>3. ASSUME NEW i \in m .. n + 1, i # m
      PROVE  i \in m + 1 .. n + 1
  BY <1>3
<1>4. g \in [m .. n + 1 -> Seq(S)]
  BY <1>2, <1>3
<1>5. ASSUME NEW i \in m .. n + 1
      PROVE  Continues(g, R, n, ends, i)
  <2>1. CASE i = m
    <3>1. g[i] = first /\ g[i + 1] = f[i + 1] /\ ~(i > n)
      BY <2>1
    <3> QED BY <2>1, <3>1 DEF Continues, first
  <2>2. CASE i # m
    <3>1. i \in m + 1 .. n + 1 /\ g[i] = f[i]
      BY <1>3, <2>2
    <3>2. ~(i > n) => g[i + 1] = f[i + 1]
      BY <3>1
    <3>3. Continues(f, R, n, ends, i)
      BY <1>1, <3>1
    <3> QED BY <3>1, <3>2, <3>3 DEF Continues
  <2> QED BY <2>1, <2>2
<1> HIDE DEF g
<1> QED BY <1>4, <1>5 DEF Continued

LEMMA FromTheEnd ==
    ASSUME NEW n \in Nat, NEW S, NEW R \in [1 .. n -> Seq(S)], NEW ends
    PROVE  Continued(1, R, n, ends, S)
<1> DEFINE Bad == {k \in 0 .. n : ~Continued(n + 1 - k, R, n, ends, S)}
<1>1. Continued(n + 1, R, n, ends, S)
  <2> DEFINE f == [i \in n + 1 .. n + 1 |-> <<>>]
  <2>1. f \in [n + 1 .. n + 1 -> Seq(S)]
    BY EmptySeq
  <2>2. \A i \in n + 1 .. n + 1 : i > n /\ f[i] = <<>>
    OBVIOUS
  <2> HIDE DEF f
  <2>3. \A i \in n + 1 .. n + 1 : Continues(f, R, n, ends, i)
    BY <2>2 DEF Continues
  <2> QED BY <2>1, <2>3 DEF Continued
<1>2. Bad = {}
  <2> SUFFICES ASSUME Bad # {} PROVE FALSE
    OBVIOUS
  <2>1. Bad \subseteq Nat
    OBVIOUS
  <2>2. PICK k \in Bad : \A y \in Bad : k =< y
    <3> HIDE DEF Bad
    <3> QED BY <2>1, LeastNumber
  <2>3. k \in 0 .. n /\ ~Continued(n + 1 - k, R, n, ends, S)
    OBVIOUS
  <2>4. k # 0
    <3>1. n + 1 - 0 = n + 1
      OBVIOUS
    <3> QED BY <1>1, <2>3, <3>1
  <2>5. k - 1 \in 0 .. n /\ n + 1 - k \in 1 .. n /\ n + 1 - (k - 1) = (n + 1 - k) + 1
    BY <2>3, <2>4
  <2>6. k - 1 \notin Bad
    <3>1. k - 1 \in Bad => k =< k - 1
      BY <2>2
    <3>2. ~ (k =< k - 1)
      BY <2>3
    <3> QED BY <3>1, <3>2
  <2>7. Continued((n + 1 - k) + 1, R, n, ends, S)
    BY <2>5, <2>6
  <2> QED BY <2>3, <2>5, <2>7, ContinuedOnce
<1>3. n \in 0 .. n /\ n + 1 - n = 1
  OBVIOUS
<1> QED BY <1>2, <1>3

LEMMA ExpectedIs ==
    ASSUME TypeOK
    PROVE  /\ ExpectedFrom \in [1 .. Len(sent) + 1 -> Seq(Result)]
           /\ \A i \in 1 .. Len(sent) + 1 :
                 ExpectedFrom[i] = IF i > Len(sent) \/ Len(sent[i]) > MaxFrameBytes THEN <<>>
                                   ELSE Results(sent[i]) \o ExpectedFrom[i + 1]
<1> DEFINE n == Len(sent)
           R == [i \in 1 .. n |-> Results(sent[i])]
           large == {i \in 1 .. n : Len(sent[i]) > MaxFrameBytes}
           Body(f) == [i \in 1 .. n + 1 |-> IF i > n THEN <<>>
                                            ELSE IF Len(sent[i]) > MaxFrameBytes THEN <<>>
                                            ELSE Results(sent[i]) \o f[i + 1]]
<1>1. n \in Nat /\ \A i \in 1 .. n : sent[i] \in Seq(Byte)
  BY LenProperties, ElementOfSeq, FramesAssumption DEF TypeOK
<1>2. R \in [1 .. n -> Seq(Result)]
  BY <1>1, ResultsAreResults DEF Result
<1>3. PICK f \in [1 .. n + 1 -> Seq(Result)] :
         \A i \in 1 .. n + 1 : Continues(f, R, n, large, i)
  <2>1. Continued(1, R, n, large, Result)
    <3>1. n \in Nat
      BY <1>1
    <3> HIDE DEF n, R, large
    <3> QED BY <1>2, <3>1, FromTheEnd
  <2> HIDE DEF n, R, large
  <2> QED BY <2>1 DEF Continued
<1>4. f = Body(f)
  <2>1. ASSUME NEW i \in 1 .. n + 1
        PROVE  f[i] = IF i > n THEN <<>> ELSE IF Len(sent[i]) > MaxFrameBytes THEN <<>>
                      ELSE Results(sent[i]) \o f[i + 1]
    <3>1. Continues(f, R, n, large, i)
      BY <1>3
    <3>2. i > n \/ i \in 1 .. n
      BY <1>1
    <3>3. i \in 1 .. n => R[i] = Results(sent[i])
      OBVIOUS
    <3> HIDE DEF R
    <3> QED BY <3>1, <3>2, <3>3 DEF Continues
  <2>2. f = [i \in 1 .. n + 1 |-> f[i]]
    BY <1>3
  <2> HIDE DEF n
  <2> QED BY <2>1, <2>2
<1>5. ExpectedFrom = CHOOSE g : g = Body(g)
  BY DEF ExpectedFrom
<1>6. ExpectedFrom = Body(ExpectedFrom)
  <2> HIDE DEF Body
  <2> QED BY <1>4, <1>5
<1>7. ASSUME NEW i \in 1 .. n + 1
      PROVE  ExpectedFrom[i] = IF i > n \/ Len(sent[i]) > MaxFrameBytes THEN <<>>
                               ELSE Results(sent[i]) \o ExpectedFrom[i + 1]
  <2>1. Body(ExpectedFrom)[i] = IF i > n \/ Len(sent[i]) > MaxFrameBytes THEN <<>>
                                ELSE Results(sent[i]) \o ExpectedFrom[i + 1]
    OBVIOUS
  <2> HIDE DEF Body
  <2> QED BY <1>6, <2>1
<1>8. ASSUME NEW i \in 1 .. n + 1
      PROVE  ExpectedFrom[i] \in Seq(Result)
  <2> DEFINE Bad == {k \in 0 .. n : ExpectedFrom[n + 1 - k] \notin Seq(Result)}
  <2>1. Bad = {}
    <3> SUFFICES ASSUME Bad # {} PROVE FALSE
      OBVIOUS
    <3>1. Bad \subseteq Nat
      OBVIOUS
    <3>2. PICK k \in Bad : \A y \in Bad : k =< y
      <4> HIDE DEF Bad
      <4> QED BY <3>1, LeastNumber
    <3> DEFINE j == n + 1 - k
    <3>3. k \in 0 .. n /\ ExpectedFrom[j] \notin Seq(Result)
      OBVIOUS
    <3>4. j \in 1 .. n + 1
      BY <1>1, <3>3
    <3>5. ~ (j > n \/ Len(sent[j]) > MaxFrameBytes)
      <4> HIDE DEF n, Bad
      <4> QED BY <1>7, <3>3, <3>4, EmptySeq
    <3>6. ExpectedFrom[j] = Results(sent[j]) \o ExpectedFrom[j + 1]
      <4> HIDE DEF n, Bad
      <4> QED BY <1>7, <3>4, <3>5
    <3>7. k - 1 \in 0 .. n /\ n + 1 - (k - 1) = j + 1 /\ j \in 1 .. n
      BY <1>1, <3>3, <3>5
    <3>8. k - 1 \notin Bad
      <4>1. k - 1 \in Bad => k =< k - 1
        BY <3>2
      <4>2. ~ (k =< k - 1)
        BY <3>3
      <4> QED BY <4>1, <4>2
    <3>9. ExpectedFrom[j + 1] \in Seq(Result)
      BY <3>7, <3>8
    <3>10. Results(sent[j]) \in Seq(Result)
      BY <1>1, <3>7, ResultsAreResults DEF Result
    <3> HIDE DEF j
    <3> QED BY <3>3, <3>6, <3>9, <3>10, ConcatProperties
  <2>2. n + 1 - i \in 0 .. n /\ n + 1 - (n + 1 - i) = i
    BY <1>1
  <2> QED BY <2>1, <2>2
<1>9. ExpectedFrom \in [1 .. n + 1 -> Seq(Result)]
  <2>1. ExpectedFrom = [i \in 1 .. n + 1 |-> ExpectedFrom[i]]
    <3>1. Body(ExpectedFrom) = [i \in 1 .. n + 1 |-> Body(ExpectedFrom)[i]]
      OBVIOUS
    <3> HIDE DEF Body
    <3> QED BY <1>6, <3>1
  <2> QED BY <1>8, <2>1
<1> QED BY <1>7, <1>9

-----------------------------------------------------------------------------
(* Where the reader is in what was sent *)

\* The first k messages are decoded, none of them too large.
TakenTo(k, taken) ==
    /\ taken \in [0 .. k -> Seq(Result)]
    /\ taken[0] = <<>> /\ taken[k] = got
    /\ \A i \in 1 .. k : /\ Len(sent[i]) =< MaxFrameBytes
                         /\ taken[i] = taken[i - 1] \o Results(sent[i])

\* The others, encoded, are what is buffered and what is on the way.
LeftFrom(k, left) ==
    /\ left \in [k .. Len(sent) -> Seq(Byte)]
    /\ left[k] = buf \o wire /\ left[Len(sent)] = <<>>
    /\ \A i \in k + 1 .. Len(sent) : left[i - 1] = Encode(sent[i]) \o left[i]

\* The next one was too large.
StoppedAt(k) == k < Len(sent) /\ Len(sent[k + 1]) > MaxFrameBytes /\ buf = <<>>

DecodedTo(k) ==
    /\ \E taken : TakenTo(k, taken)
    /\ broken => StoppedAt(k)
    /\ ~broken => \E left : LeftFrom(k, left)
Decoding == \E k \in 0 .. Len(sent) : DecodedTo(k)

\* A read only follows a drain that left less than a frame.
Drained == phase = "read" => (HasPrefix => ~TooLarge /\ FrameLen > Len(buf))

FramesInv == TypeOK /\ Decoding /\ Drained

\* Two ways to cut the same bytes in two.
LEMMA FrontOf ==
    ASSUME NEW S, NEW p \in Seq(S), NEW q \in Seq(S), NEW r \in Seq(S), NEW t \in Seq(S),
           p \o q = r \o t, Len(r) =< Len(p)
    PROVE  SubSeq(p, 1, Len(r)) = r /\ Without(Len(r), p) \o q = t
<1> DEFINE n == Len(r)
           front == SubSeq(p, 1, n)
           back == SubSeq(p, n + 1, Len(p))
<1>1. n \in Nat /\ Len(p) \in Nat /\ n =< Len(p)
  OBVIOUS
<1>2. /\ front \in Seq(S) /\ Len(front) = n
      /\ \A i \in 1 .. n : front[i] = p[i]
  <2>1. \A i \in 1 .. n : p[i] \in S
    BY <1>1
  <2>2. Len(front) = IF 1 =< n THEN n - 1 + 1 ELSE 0
    BY <1>1, <2>1, SubSeqProperties
  <2>3. front \in Seq(S) /\ \A i \in 1 .. n - 1 + 1 : front[i] = p[1 + i - 1]
    BY <1>1, <2>1, SubSeqProperties
  <2> HIDE DEF front, n
  <2> QED BY <1>1, <2>2, <2>3
<1>3. back \in Seq(S)
  <2>1. \A i \in n + 1 .. Len(p) : p[i] \in S
    BY <1>1
  <2> QED BY <1>1, <2>1, SubSeqProperties
<1>4. front = r
  <2>1. ASSUME NEW i \in 1 .. n
        PROVE  front[i] = r[i]
    <3>1. (p \o q)[i] = p[i]
      BY <1>1, ConcatProperties
    <3>2. (r \o t)[i] = r[i]
      BY <1>1, ConcatProperties
    <3> QED BY <1>2, <3>1, <3>2
  <2> HIDE DEF front
  <2> QED BY <1>2, <2>1, SeqEqual
<1>5. p = front \o back
  <2>1. 1 \in 1 .. Len(p) + 1 /\ n \in 1 - 1 .. Len(p) /\ Len(p) \in n .. Len(p)
    BY <1>1
  <2> QED BY <2>1, ConcatAdjacentSubSeq, SubSeqFull
<1>6. r \o (back \o q) = r \o t
  <2> HIDE DEF front, back
  <2>1. (r \o back) \o q = r \o (back \o q)
    BY <1>3, ConcatAssociative, SMTT(60)
  <2>2. r \o back = p
    BY <1>4, <1>5
  <2>3. (r \o back) \o q = p \o q
    BY <2>2
  <2> QED BY <2>1, <2>3
<1>7. back \o q = t
  <2> HIDE DEF back
  <2>1. back \o q \in Seq(S)
    BY <1>3, ConcatProperties
  <2> QED BY <1>6, <2>1, ConcatSimplifications
<1> QED BY <1>4, <1>7 DEF Without

\* The bytes of an encoded message: its length, and itself.
LEMMA EncodedHas ==
    ASSUME NEW m \in Messages
    PROVE  /\ Encode(m) \in Seq(Byte) /\ m \in Seq(Byte)
           /\ Len(Encode(m)) = PrefixBytes + Len(m)
           /\ Encode(m)[1] * Base + Encode(m)[2] = Len(m)
           /\ \A i \in 1 .. Len(m) : Encode(m)[PrefixBytes + i] = m[i]
<1> DEFINE q == Len(m) \div Base
           r == Len(m) % Base
<1>1. m \in Seq(Byte) /\ Len(m) \in Nat /\ Base \in Nat \ {0}
  BY FramesAssumption
<1>2. q \in Nat /\ r \in Nat /\ q * Base + r = Len(m)
  BY <1>1
<1>3. Encode(m) = <<q, r>> \o m
  BY DEF Encode
<1> HIDE DEF q, r
<1>4. <<q, r>> \in Seq(Nat) /\ m \in Seq(Nat) /\ Len(<<q, r>>) = 2
  BY <1>1, <1>2 DEF Byte
<1>5. /\ Len(Encode(m)) = 2 + Len(m)
      /\ \A i \in 1 .. 2 + Len(m) :
            Encode(m)[i] = IF i =< 2 THEN <<q, r>>[i] ELSE m[i - 2]
  BY <1>3, <1>4, ConcatProperties
<1>6. Encode(m)[1] = q /\ Encode(m)[2] = r
  BY <1>1, <1>5
<1>7. \A i \in 1 .. Len(m) : Encode(m)[2 + i] = m[i]
  BY <1>1, <1>5
<1> QED BY <1>1, <1>2, <1>5, <1>6, <1>7, EncodedIsBytes DEF PrefixBytes

\* The frame at the front of the buffer is the next message's.
LEMMA FrontFrame ==
    ASSUME TypeOK, NEW k \in 0 .. Len(sent), NEW left, LeftFrom(k, left), HasPrefix
    PROVE  /\ k < Len(sent) /\ sent[k + 1] \in Messages
           /\ FrameLen = PrefixBytes + Len(sent[k + 1])
           /\ FrameLen =< Len(buf) => /\ SubSeq(buf, PrefixBytes + 1, FrameLen) = sent[k + 1]
                                      /\ Rest \o wire = left[k + 1]
<1>1. buf \in Seq(Byte) /\ wire \in Seq(Byte) /\ sent \in Seq(Messages) /\ Len(sent) \in Nat /\ Len(buf) \in Nat
  BY DEF TypeOK
<1>2. /\ buf \o wire \in Seq(Byte) /\ Len(buf \o wire) = Len(buf) + Len(wire)
      /\ \A i \in 1 .. Len(buf) : (buf \o wire)[i] = buf[i]
  <2>1. /\ buf \o wire \in Seq(Byte) /\ Len(buf \o wire) = Len(buf) + Len(wire)
        /\ \A i \in 1 .. Len(buf) + Len(wire) :
              (buf \o wire)[i] = IF i =< Len(buf) THEN buf[i] ELSE wire[i - Len(buf)]
    BY <1>1, ConcatProperties
  <2>2. Len(buf) \in Nat /\ Len(wire) \in Nat
    BY <1>1
  <2> QED BY <2>1, <2>2
<1>3. Len(buf) >= 2
  BY DEF HasPrefix, PrefixBytes
<1>4. k < Len(sent)
  <2>1. buf \o wire # <<>>
    <3>1. Len(wire) \in Nat /\ Len(<<>>) = 0
      BY <1>1
    <3> QED BY <1>1, <1>2, <1>3, <3>1
  <2> QED BY <1>1, <2>1 DEF LeftFrom
<1> DEFINE m == sent[k + 1]
           t == left[k + 1]
<1>5. k + 1 \in 1 .. Len(sent) /\ k + 1 \in k + 1 .. Len(sent) /\ k + 1 \in k .. Len(sent) /\ (k + 1) - 1 = k
  BY <1>1, <1>4
<1>6. m \in Messages /\ t \in Seq(Byte)
  <2>1. m \in Messages
    BY <1>1, <1>5, ElementOfSeq
  <2>2. left \in [k .. Len(sent) -> Seq(Byte)]
    BY DEF LeftFrom
  <2>3. t \in Seq(Byte)
    BY <1>5, <2>2
  <2> QED BY <2>1, <2>3
<1>7. buf \o wire = Encode(m) \o t
  BY <1>5 DEF LeftFrom
<1> HIDE DEF m, t
<1>8. /\ Encode(m) \in Seq(Byte) /\ m \in Seq(Byte) /\ Len(m) \in Nat
      /\ Len(Encode(m)) = 2 + Len(m)
      /\ Encode(m)[1] * Base + Encode(m)[2] = Len(m)
      /\ \A i \in 1 .. Len(m) : Encode(m)[2 + i] = m[i]
  BY <1>6, EncodedHas DEF PrefixBytes
<1>9. \A i \in 1 .. 2 + Len(m) : (buf \o wire)[i] = Encode(m)[i]
  <2>1. \A i \in 1 .. Len(Encode(m)) + Len(t) :
           (Encode(m) \o t)[i] = IF i =< Len(Encode(m)) THEN Encode(m)[i] ELSE t[i - Len(Encode(m))]
    BY <1>6, <1>8, ConcatProperties
  <2>2. Len(t) \in Nat
    BY <1>6
  <2> QED BY <1>7, <1>8, <2>1, <2>2
<1>10. FrameLen = 2 + Len(m)
  <2>1. buf[1] = Encode(m)[1] /\ buf[2] = Encode(m)[2]
    BY <1>1, <1>2, <1>3, <1>8, <1>9
  <2>2. Encode(m)[1] \in Nat /\ Encode(m)[2] \in Nat
    <3>1. 1 \in 1 .. Len(Encode(m)) /\ 2 \in 1 .. Len(Encode(m))
      BY <1>8
    <3>2. Encode(m)[1] \in Byte /\ Encode(m)[2] \in Byte
      BY <1>8, <3>1
    <3> QED BY <3>2, FramesAssumption DEF Byte
  <2>3. FrameLen = 2 + Encode(m)[1] * Base + Encode(m)[2]
    BY <2>1 DEF FrameLen, PrefixBytes
  <2>4. Encode(m)[1] * Base \in Nat
    BY <2>2, FramesAssumption
  <2> QED BY <1>8, <2>2, <2>3, <2>4
<1>11. ASSUME FrameLen =< Len(buf)
       PROVE  SubSeq(buf, 3, FrameLen) = m /\ Rest \o wire = t
  <2>1. Rest \o wire = t
    <3>1. Len(Encode(m)) = FrameLen /\ Len(Encode(m)) =< Len(buf)
      BY <1>8, <1>10, <1>11
    <3>2. Without(Len(Encode(m)), buf) \o wire = t
      BY <1>1, <1>6, <1>7, <1>8, <3>1, FrontOf
    <3> QED BY <3>1, <3>2 DEF Rest
  <2> DEFINE body == SubSeq(buf, 3, FrameLen)
  <2>2. \A i \in 3 .. FrameLen : buf[i] \in Byte
    BY <1>1, <1>8, <1>10, <1>11
  <2>3. /\ body \in Seq(Byte) /\ Len(body) = IF 3 =< FrameLen THEN FrameLen - 3 + 1 ELSE 0
        /\ \A i \in 1 .. FrameLen - 3 + 1 : body[i] = buf[3 + i - 1]
    BY <1>8, <1>10, <2>2, SubSeqProperties
  <2> HIDE DEF body
  <2>4. Len(body) = Len(m)
    BY <1>8, <1>10, <2>3
  <2>5. ASSUME NEW i \in 1 .. Len(m)
        PROVE  body[i] = m[i]
    <3>1. body[i] = buf[2 + i]
      <4>1. FrameLen - 3 + 1 = Len(m) /\ 3 + i - 1 = 2 + i
        BY <1>8, <1>10
      <4> QED BY <2>3, <4>1
    <3>2. buf[2 + i] = (buf \o wire)[2 + i]
      BY <1>1, <1>2, <1>8, <1>10, <1>11
    <3>3. (buf \o wire)[2 + i] = Encode(m)[2 + i]
      <4>1. 2 + i \in 1 .. 2 + Len(m)
        BY <1>8
      <4> QED BY <1>9, <4>1
    <3> QED BY <1>8, <3>1, <3>2, <3>3
  <2>6. body = m
    BY <1>8, <2>3, <2>4, <2>5, SeqEqual
  <2> QED BY <2>1, <2>6 DEF body
<1> QED BY <1>4, <1>6, <1>10, <1>11 DEF m, t, PrefixBytes

\* What is decoded stays decoded while the messages before stay what they are.
LEMMA TakenStays ==
    ASSUME NEW k \in Nat, NEW taken, TakenTo(k, taken), got' = got, reader' = reader,
           \A i \in 1 .. k : sent'[i] = sent[i]
    PROVE  TakenTo(k, taken)'
<1>1. \A i \in 1 .. k : Results(sent[i])' = Results(sent[i])
  BY DEF Results
<1> QED BY <1>1 DEF TakenTo

\* One more message is decoded.
LEMMA TakenOneMore ==
    ASSUME TypeOK, NEW k \in Nat, NEW taken, TakenTo(k, taken), k < Len(sent),
           Len(sent[k + 1]) =< MaxFrameBytes, got' = got \o Results(sent[k + 1]),
           reader' = reader, sent' = sent
    PROVE  \E t : TakenTo(k + 1, t)'
<1> DEFINE more == got \o Results(sent[k + 1])
<1> SUFFICES ASSUME NEW t, t = [i \in 0 .. k + 1 |-> IF i = k + 1 THEN more ELSE taken[i]]
             PROVE  TakenTo(k + 1, t)'
  OBVIOUS
<1>1. more \in Seq(Result)
  <2>1. sent[k + 1] \in Seq(Byte)
    BY FramesAssumption DEF TypeOK
  <2>2. Results(sent[k + 1]) \in Seq(Result) /\ got \in Seq(Result)
    BY <2>1, ResultsAreResults DEF Result, TypeOK
  <2> QED BY <2>2, ConcatProperties
<1> HIDE DEF more
<1>2. taken \in [0 .. k -> Seq(Result)] /\ taken[0] = <<>> /\ taken[k] = got
  BY DEF TakenTo
<1>3. t \in [0 .. k + 1 -> Seq(Result)]
  BY <1>1, <1>2
<1>4. t[0] = <<>> /\ t[k + 1] = more /\ \A i \in 0 .. k : t[i] = taken[i]
  BY <1>2
<1>5. \A i \in 1 .. k + 1 : Results(sent[i])' = Results(sent[i])
  BY DEF Results
<1>6. ASSUME NEW i \in 1 .. k + 1
      PROVE  Len(sent[i]) =< MaxFrameBytes /\ t[i] = t[i - 1] \o Results(sent[i])
  <2>1. CASE i = k + 1
    <3>1. i - 1 = k /\ k \in 0 .. k
      BY <2>1
    <3> QED BY <1>2, <1>4, <2>1, <3>1 DEF more
  <2>2. CASE i # k + 1
    <3>1. i \in 1 .. k /\ i \in 0 .. k /\ i - 1 \in 0 .. k
      BY <2>2
    <3> QED BY <1>4, <3>1 DEF TakenTo
  <2> QED BY <2>1, <2>2
<1>7. got' = t[k + 1]
  BY <1>4 DEF more
<1> QED BY <1>3, <1>4, <1>5, <1>6, <1>7 DEF TakenTo

\* What is left stays left while its bytes only move.
LEMMA LeftStays ==
    ASSUME NEW k \in Nat, NEW left, LeftFrom(k, left), sent' = sent, buf' \o wire' = buf \o wire
    PROVE  LeftFrom(k, left)'
BY DEF LeftFrom, Encode

\* A message sent comes after everything left.
LEMMA LeftOneMore ==
    ASSUME TypeOK, NEW k \in 0 .. Len(sent), NEW left, LeftFrom(k, left),
           NEW m \in Messages, Send(m)
    PROVE  \E f : LeftFrom(k, f)'
<1> DEFINE n == Len(sent)
<1> SUFFICES ASSUME NEW f, f = [i \in k .. n + 1 |-> IF i = n + 1 THEN <<>> ELSE left[i] \o Encode(m)]
             PROVE  LeftFrom(k, f)'
  OBVIOUS
<1>1. n \in Nat /\ k \in 0 .. n /\ sent \in Seq(Messages) /\ buf \in Seq(Byte) /\ wire \in Seq(Byte)
  BY DEF TypeOK
<1>2. /\ sent' = Append(sent, m) /\ Len(sent') = n + 1 /\ sent'[n + 1] = m
      /\ \A i \in 1 .. n : sent'[i] = sent[i]
  BY <1>1, AppendProperties DEF Send
<1>3. Encode(m) \in Seq(Byte)
  BY EncodedIsBytes
<1>4. /\ left \in [k .. n -> Seq(Byte)] /\ left[k] = buf \o wire /\ left[n] = <<>>
      /\ \A i \in k + 1 .. n : left[i - 1] = Encode(sent[i]) \o left[i]
  BY DEF LeftFrom
<1> HIDE DEF n
<1>5. f \in [k .. n + 1 -> Seq(Byte)]
  <2>1. ASSUME NEW i \in k .. n + 1
        PROVE  f[i] \in Seq(Byte)
    <3>1. CASE i = n + 1
      BY <3>1, EmptySeq
    <3>2. CASE i # n + 1
      <4>1. i \in k .. n
        BY <1>1, <3>2
      <4>2. left[i] \o Encode(m) \in Seq(Byte)
        BY <1>3, <1>4, <4>1, ConcatProperties
      <4> QED BY <3>2, <4>2
    <3> QED BY <3>1, <3>2
  <2> QED BY <2>1
<1>6. f[n + 1] = <<>> /\ \A i \in k .. n : f[i] = left[i] \o Encode(m)
  BY <1>1
<1>7. f[k] = buf' \o wire'
  <2>1. k \in k .. n
    BY <1>1 DEF n
  <2>2. (buf \o wire) \o Encode(m) = buf \o (wire \o Encode(m))
    BY <1>1, <1>3, ConcatAssociative
  <2> QED BY <1>4, <1>6, <2>1, <2>2 DEF Send
<1>8. ASSUME NEW i \in k + 1 .. n + 1
      PROVE  f[i - 1] = Encode(sent'[i]) \o f[i]
  <2>1. CASE i = n + 1
    <3>1. i - 1 = n /\ n \in k .. n
      BY <1>1, <2>1
    <3>2. left[n] \o Encode(m) = Encode(m) /\ Encode(m) \o <<>> = Encode(m)
      BY <1>3, <1>4, ConcatEmptySeq
    <3> QED BY <1>2, <1>6, <2>1, <3>1, <3>2
  <2>2. CASE i # n + 1
    <3>1. i \in k + 1 .. n /\ i \in k .. n /\ i - 1 \in k .. n /\ i \in 1 .. n
      BY <1>1, <2>2
    <3>2. f[i - 1] = (Encode(sent[i]) \o left[i]) \o Encode(m)
      BY <1>4, <1>6, <3>1
    <3>3. Encode(sent[i]) \in Seq(Byte)
      BY <1>1, <3>1, EncodedIsBytes DEF n
    <3>4. left[i] \in Seq(Byte)
      BY <1>4, <3>1
    <3>5. (Encode(sent[i]) \o left[i]) \o Encode(m) = Encode(sent[i]) \o (left[i] \o Encode(m))
      <4>1. \A a, b, c \in Seq(Byte) : (a \o b) \o c = a \o (b \o c)
        BY ConcatAssociative
      <4> QED BY <1>3, <3>3, <3>4, <4>1
    <3> QED BY <1>2, <1>6, <3>1, <3>2, <3>5
  <2> QED BY <2>1, <2>2
<1> QED BY <1>2, <1>5, <1>6, <1>7, <1>8 DEF LeftFrom, Encode

\* A decoded message is no longer left.
LEMMA LeftOneLess ==
    ASSUME NEW k \in Nat, NEW left, LeftFrom(k, left), k < Len(sent), Len(sent) \in Nat,
           sent' = sent, buf' \o wire' = left[k + 1]
    PROVE  \E f : LeftFrom(k + 1, f)'
<1> DEFINE n == Len(sent)
<1> SUFFICES ASSUME NEW f, f = [i \in k + 1 .. n |-> left[i]]
             PROVE  LeftFrom(k + 1, f)'
  OBVIOUS
<1>1. \A i \in k + 1 .. n : f[i] = left[i] /\ i \in k .. n
  OBVIOUS
<1>2. n \in k + 1 .. n /\ k + 1 \in k + 1 .. n
  OBVIOUS
<1>3. \A i \in (k + 1) + 1 .. n : i \in k + 1 .. n /\ i - 1 \in k + 1 .. n
  OBVIOUS
<1>4. /\ left \in [k .. n -> Seq(Byte)] /\ left[n] = <<>>
      /\ \A i \in k + 1 .. n : left[i - 1] = Encode(sent[i]) \o left[i]
  BY DEF LeftFrom
<1>5. f \in [k + 1 .. n -> Seq(Byte)]
  BY <1>1, <1>4
<1>6. f[k + 1] = buf' \o wire' /\ f[n] = <<>>
  BY <1>1, <1>2, <1>4
<1>7. \A i \in (k + 1) + 1 .. n : f[i - 1] = Encode(sent[i]) \o f[i]
  BY <1>1, <1>3, <1>4
<1> HIDE DEF n
<1> QED BY <1>5, <1>6, <1>7 DEF LeftFrom, Encode, n

\* A step that decodes nothing and takes no byte off the front keeps the reader
\* where it is.
LEMMA NothingDecoded ==
    ASSUME TypeOK, Decoding, UNCHANGED <<reader, sent, broken, got>>,
           broken => buf' = buf, ~broken => buf' \o wire' = buf \o wire
    PROVE  Decoding'
<1>1. PICK k \in 0 .. Len(sent) : DecodedTo(k)
  BY DEF Decoding
<1>2. PICK taken : TakenTo(k, taken)
  BY <1>1 DEF DecodedTo
<1>3. TakenTo(k, taken)'
  BY <1>2, TakenStays
<1>4. broken' => StoppedAt(k)'
  BY <1>1 DEF DecodedTo, StoppedAt
<1>5. ASSUME ~broken'
      PROVE  \E left : LeftFrom(k, left)'
  <2>1. PICK left : LeftFrom(k, left)
    BY <1>1, <1>5 DEF DecodedTo
  <2>2. LeftFrom(k, left)'
    BY <1>5, <2>1, LeftStays
  <2> QED BY <2>2
<1>6. DecodedTo(k)'
  BY <1>3, <1>4, <1>5 DEF DecodedTo
<1>7. k \in 0 .. Len(sent')
  OBVIOUS
<1> QED BY <1>6, <1>7 DEF Decoding

LEMMA SendKeepsDecoding ==
    ASSUME TypeOK, Decoding, NEW m \in Messages, Send(m)
    PROVE  Decoding'
<1>1. PICK k \in 0 .. Len(sent) : DecodedTo(k)
  BY DEF Decoding
<1>2. PICK taken : TakenTo(k, taken)
  BY <1>1 DEF DecodedTo
<1>3. /\ sent' = Append(sent, m) /\ Len(sent') = Len(sent) + 1 /\ Len(sent) \in Nat
      /\ \A i \in 1 .. Len(sent) : sent'[i] = sent[i]
  BY AppendProperties DEF Send, TypeOK
<1>4. \A i \in 1 .. k : i \in 1 .. Len(sent)
  BY <1>3
<1>5. TakenTo(k, taken)'
  BY <1>2, <1>3, <1>4, TakenStays DEF Send
<1>6. broken' => StoppedAt(k)'
  <2>1. k < Len(sent) => k + 1 \in 1 .. Len(sent)
    BY <1>3
  <2> QED BY <1>1, <1>3, <2>1 DEF DecodedTo, StoppedAt, Send
<1>7. ASSUME ~broken'
      PROVE  \E left : LeftFrom(k, left)'
  <2>1. PICK left : LeftFrom(k, left)
    BY <1>1, <1>7 DEF DecodedTo, Send
  <2> QED BY <2>1, LeftOneMore
<1>8. DecodedTo(k)'
  BY <1>5, <1>6, <1>7 DEF DecodedTo
<1>9. k \in 0 .. Len(sent')
  BY <1>3
<1> QED BY <1>8, <1>9 DEF Decoding

LEMMA ReadKeepsDecoding ==
    ASSUME TypeOK, Decoding, NEW n \in 1 .. ChunkBytes, Read(n)
    PROVE  Decoding'
<1>1. n \in Nat /\ n =< Len(wire) /\ wire \in Seq(Byte) /\ Len(wire) \in Nat /\ buf \in Seq(Byte)
  BY FramesAssumption DEF Read, TypeOK
<1>2. SubSeq(wire, 1, n) \in Seq(Byte) /\ Without(n, wire) \in Seq(Byte)
  BY <1>1, RestIsBytes
<1>3. SubSeq(wire, 1, n) \o Without(n, wire) = wire
  <2>1. 1 \in 1 .. Len(wire) + 1 /\ n \in 1 - 1 .. Len(wire) /\ Len(wire) \in n .. Len(wire)
    BY <1>1
  <2> QED BY <1>1, <2>1, ConcatAdjacentSubSeq, SubSeqFull DEF Without
<1>4. (buf \o SubSeq(wire, 1, n)) \o Without(n, wire) = buf \o (SubSeq(wire, 1, n) \o Without(n, wire))
  <2>1. \A a, b, c \in Seq(Byte) : (a \o b) \o c = a \o (b \o c)
    BY ConcatAssociative, SMTT(60)
  <2>2. buf \in Seq(Byte)
    BY <1>1
  <2> QED BY <1>2, <2>1, <2>2
<1>5. broken => buf' = buf
  BY DEF Read, Extended
<1>6. ~broken => buf' \o wire' = buf \o wire
  BY <1>3, <1>4 DEF Read, Extended
<1> QED BY <1>5, <1>6, NothingDecoded DEF Read

LEMMA BreakKeepsDecoding ==
    ASSUME TypeOK, Decoding, Break
    PROVE  Decoding'
<1>1. PICK k \in 0 .. Len(sent) : DecodedTo(k)
  BY DEF Decoding
<1>2. PICK taken : TakenTo(k, taken)
  BY <1>1 DEF DecodedTo
<1>3. ~broken
  BY <1>1 DEF DecodedTo, StoppedAt, Break, HasPrefix, PrefixBytes
<1>4. PICK left : LeftFrom(k, left)
  BY <1>1, <1>3 DEF DecodedTo
<1>5. k < Len(sent) /\ FrameLen = PrefixBytes + Len(sent[k + 1]) /\ sent[k + 1] \in Messages
  BY <1>4, FrontFrame DEF Break
<1>6. Len(sent[k + 1]) > MaxFrameBytes
  <2>1. Len(sent[k + 1]) \in Nat
    BY <1>5, FramesAssumption
  <2> QED BY <1>5, <2>1, FramesAssumption DEF Break, TooLarge, PrefixBytes
<1>7. TakenTo(k, taken)'
  BY <1>2, TakenStays DEF Break
<1>8. StoppedAt(k)' /\ broken'
  BY <1>5, <1>6 DEF StoppedAt, Break
<1>9. DecodedTo(k)'
  BY <1>7, <1>8 DEF DecodedTo
<1>10. k \in 0 .. Len(sent')
  BY DEF Break
<1> QED BY <1>9, <1>10 DEF Decoding

LEMMA DrainKeepsDecoding ==
    ASSUME TypeOK, Decoding, DrainOne
    PROVE  Decoding'
<1>1. PICK k \in 0 .. Len(sent) : DecodedTo(k)
  BY DEF Decoding
<1>2. PICK taken : TakenTo(k, taken)
  BY <1>1 DEF DecodedTo
<1>3. ~broken
  BY <1>1 DEF DecodedTo, StoppedAt, DrainOne, HasPrefix, PrefixBytes
<1>4. PICK left : LeftFrom(k, left)
  BY <1>1, <1>3 DEF DecodedTo
<1>5. /\ k < Len(sent) /\ FrameLen = PrefixBytes + Len(sent[k + 1]) /\ sent[k + 1] \in Messages
      /\ SubSeq(buf, PrefixBytes + 1, FrameLen) = sent[k + 1]
      /\ Rest \o wire = left[k + 1]
  BY <1>4, FrontFrame DEF DrainOne
<1>6. Len(sent[k + 1]) =< MaxFrameBytes
  <2>1. Len(sent[k + 1]) \in Nat
    BY <1>5, FramesAssumption
  <2> QED BY <1>5, <2>1, FramesAssumption DEF DrainOne, TooLarge, PrefixBytes
<1>7. Len(sent) \in Nat
  BY DEF TypeOK
<1>8. got' = got \o Results(sent[k + 1]) /\ buf' \o wire' = left[k + 1]
  BY <1>5 DEF DrainOne
<1>9. UNCHANGED <<reader, sent, broken>>
  BY DEF DrainOne
<1>10. \E t : TakenTo(k + 1, t)'
  <2>1. k \in Nat /\ k < Len(sent) /\ reader' = reader /\ sent' = sent
    BY <1>5, <1>7, <1>9
  <2>2. got' = got \o Results(sent[k + 1])
    BY <1>8
  <2> QED BY <1>2, <1>6, <2>1, <2>2, TakenOneMore
<1>11. \E f : LeftFrom(k + 1, f)'
  BY <1>4, <1>5, <1>7, <1>8, <1>9, LeftOneLess
<1>12. DecodedTo(k + 1)'
  BY <1>3, <1>9, <1>10, <1>11 DEF DecodedTo
<1>13. k + 1 \in 0 .. Len(sent')
  BY <1>5, <1>7, <1>9
<1> QED BY <1>12, <1>13 DEF Decoding

\* Every step keeps the reader at a message's end, and between reads less than a
\* frame buffered.
LEMMA FramesInductive == FramesInv /\ [Next]_vars => FramesInv'
<1> SUFFICES ASSUME FramesInv, [Next]_vars
             PROVE  FramesInv'
  OBVIOUS
<1> USE DEF FramesInv
<1>1. TypeOK'
  BY TypeInductive
<1>2. Decoding'
  <2>1. CASE \E m \in Messages : Send(m)
    BY <2>1, SendKeepsDecoding
  <2>2. CASE \E n \in 1 .. ChunkBytes : Read(n)
    BY <2>2, ReadKeepsDecoding
  <2>3. CASE Break
    BY <2>3, BreakKeepsDecoding
  <2>4. CASE DrainOne
    BY <2>4, DrainKeepsDecoding
  <2>5. CASE Shut \/ HangUp \/ ReadEnd \/ EndDrain \/ UNCHANGED vars
    <3>1. UNCHANGED <<reader, sent, broken, got, buf, wire>>
      BY <2>5 DEF Shut, HangUp, ReadEnd, EndDrain, vars
    <3> QED BY <3>1, NothingDecoded
  <2> QED BY <2>1, <2>2, <2>3, <2>4, <2>5 DEF Next, PeerStep, ReaderStep
<1>3. Drained'
  <2>1. CASE EndDrain
    BY <2>1 DEF EndDrain, Drained, HasPrefix, TooLarge, FrameLen
  <2>2. CASE (\E m \in Messages : Send(m)) \/ Shut \/ HangUp \/ UNCHANGED vars
    BY <2>2 DEF Send, Shut, HangUp, vars, Drained, HasPrefix, TooLarge, FrameLen
  <2>3. CASE (\E n \in 1 .. ChunkBytes : Read(n)) \/ ReadEnd \/ Break \/ DrainOne
    BY <2>3 DEF Read, ReadEnd, Break, DrainOne, Drained
  <2> QED BY <2>1, <2>2, <2>3 DEF Next, PeerStep, ReaderStep
<1> QED BY <1>1, <1>2, <1>3

\* What is decoded, with what is to come, is what is expected.
LEMMA DecodedIsExpected ==
    ASSUME TypeOK, NEW k \in 0 .. Len(sent), NEW taken, TakenTo(k, taken)
    PROVE  Expected = got \o ExpectedFrom[k + 1]
<1> DEFINE n == Len(sent)
           Bad == {i \in 0 .. k : ExpectedFrom[1] # taken[i] \o ExpectedFrom[i + 1]}
<1>1. n \in Nat /\ sent \in Seq(Messages)
  BY DEF TypeOK
<1>2. ExpectedFrom \in [1 .. n + 1 -> Seq(Result)]
  BY ExpectedIs
<1>3. \A i \in 1 .. n + 1 :
         ExpectedFrom[i] = IF i > n \/ Len(sent[i]) > MaxFrameBytes THEN <<>>
                           ELSE Results(sent[i]) \o ExpectedFrom[i + 1]
  BY ExpectedIs
<1>4. /\ taken \in [0 .. k -> Seq(Result)] /\ taken[0] = <<>> /\ taken[k] = got
      /\ \A i \in 1 .. k : /\ Len(sent[i]) =< MaxFrameBytes
                           /\ taken[i] = taken[i - 1] \o Results(sent[i])
  BY DEF TakenTo
<1>5. Bad = {}
  <2> SUFFICES ASSUME Bad # {} PROVE FALSE
    OBVIOUS
  <2>1. Bad \subseteq Nat
    <3>1. Bad \subseteq 0 .. k
      OBVIOUS
    <3> HIDE DEF Bad
    <3> QED BY <3>1
  <2>2. PICK i \in Bad : \A y \in Bad : i =< y
    <3> HIDE DEF Bad
    <3> QED BY <2>1, LeastNumber
  <2>3. i \in 0 .. k /\ ExpectedFrom[1] # taken[i] \o ExpectedFrom[i + 1]
    OBVIOUS
  <2>4. i # 0
    <3>1. 1 \in 1 .. n + 1 /\ 0 + 1 = 1
      BY <1>1
    <3>2. ExpectedFrom[1] \in Seq(Result)
      BY <1>2, <3>1
    <3>3. <<>> \o ExpectedFrom[1] = ExpectedFrom[1]
      BY <3>2, ConcatEmptySeq
    <3> HIDE DEF Bad
    <3> QED BY <1>4, <2>3, <3>1, <3>3
  <2>5. i \in 1 .. k /\ i \in 1 .. n /\ i \in 1 .. n + 1 /\ i + 1 \in 1 .. n + 1 /\ i - 1 \in 0 .. k
        /\ (i - 1) + 1 = i
    BY <1>1, <2>3, <2>4
  <2>6. i - 1 \notin Bad
    <3>1. i - 1 \in Bad => i =< i - 1
      BY <2>2
    <3>2. ~ (i =< i - 1)
      BY <2>3
    <3> QED BY <3>1, <3>2
  <2>7. ExpectedFrom[1] = taken[i - 1] \o ExpectedFrom[i]
    BY <2>5, <2>6
  <2>8. ExpectedFrom[i] = Results(sent[i]) \o ExpectedFrom[i + 1]
    <3>1. ~ (i > n) /\ Len(sent[i]) =< MaxFrameBytes /\ sent[i] \in Messages
      <4>1. sent[i] \in Messages
        BY <1>1, <2>5, ElementOfSeq
      <4>2. Len(sent[i]) =< MaxFrameBytes
        BY <1>4, <2>5
      <4>3. ~ (i > n)
        <5> HIDE DEF n
        <5> QED BY <1>1, <2>5
      <4> HIDE DEF n
      <4> QED BY <4>1, <4>2, <4>3
    <3>2. ~ (Len(sent[i]) > MaxFrameBytes)
      <4>1. Len(sent[i]) \in Nat
        BY <3>1, FramesAssumption
      <4> QED BY <3>1, <4>1, FramesAssumption
    <3> HIDE DEF n, Bad
    <3> QED BY <1>3, <2>5, <3>1, <3>2
  <2>9. taken[i - 1] \in Seq(Result) /\ Results(sent[i]) \in Seq(Result) /\ ExpectedFrom[i + 1] \in Seq(Result)
    <3>1. sent[i] \in Seq(Byte)
      BY <1>1, <2>5, FramesAssumption
    <3> QED BY <1>2, <1>4, <2>5, <3>1, ResultsAreResults DEF Result
  <2>10. (taken[i - 1] \o Results(sent[i])) \o ExpectedFrom[i + 1]
           = taken[i - 1] \o (Results(sent[i]) \o ExpectedFrom[i + 1])
    <3>1. \A a, b, c \in Seq(Result) : (a \o b) \o c = a \o (b \o c)
      BY ConcatAssociative, SMTT(60)
    <3>2. ASSUME NEW a \in Seq(Result), NEW b \in Seq(Result), NEW c \in Seq(Result)
          PROVE  (a \o b) \o c = a \o (b \o c)
      BY <3>1
    <3> HIDE DEF Bad, n
    <3> QED BY <2>9, <3>2
  <2> HIDE DEF Bad, n
  <2> QED BY <1>4, <2>3, <2>5, <2>7, <2>8, <2>10
<1>6. k \in 0 .. k
  OBVIOUS
<1>7. ExpectedFrom[1] = taken[k] \o ExpectedFrom[k + 1]
  BY <1>5, <1>6
<1> QED BY <1>4, <1>7 DEF Expected

\* Once everything is read and drained nothing more is to come.
LEMMA NothingToCome ==
    ASSUME FramesInv, NEW k \in 0 .. Len(sent), DecodedTo(k),
           broken \/ (wire = <<>> /\ phase = "read")
    PROVE  ExpectedFrom[k + 1] = <<>>
<1>1. Len(sent) \in Nat /\ buf \in Seq(Byte) /\ k + 1 \in 1 .. Len(sent) + 1
  BY DEF FramesInv, TypeOK
<1>2. ExpectedFrom[k + 1] = IF k + 1 > Len(sent) \/ Len(sent[k + 1]) > MaxFrameBytes THEN <<>>
                            ELSE Results(sent[k + 1]) \o ExpectedFrom[(k + 1) + 1]
  BY <1>1, ExpectedIs DEF FramesInv
<1>3. CASE broken
  BY <1>2, <1>3 DEF DecodedTo, StoppedAt
<1>4. CASE k = Len(sent)
  BY <1>1, <1>2, <1>4
<1>5. CASE ~broken /\ k # Len(sent)
  <2>1. PICK left : LeftFrom(k, left)
    BY <1>5 DEF DecodedTo
  <2>2. wire = <<>> /\ phase = "read" /\ k + 1 \in k + 1 .. Len(sent) /\ (k + 1) - 1 = k
    BY <1>1, <1>5
  <2>3. buf = Encode(sent[k + 1]) \o left[k + 1]
    <3>1. buf \o <<>> = buf
      BY <1>1, ConcatEmptySeq
    <3> QED BY <2>1, <2>2, <3>1 DEF LeftFrom
  <2>4. sent[k + 1] \in Messages /\ left[k + 1] \in Seq(Byte)
    <3>1. k + 1 \in 1 .. Len(sent) /\ k + 1 \in k .. Len(sent)
      BY <1>1, <2>2
    <3>2. sent[k + 1] \in Messages
      BY <3>1, ElementOfSeq DEF FramesInv, TypeOK
    <3>3. left[k + 1] \in Seq(Byte)
      BY <2>1, <3>1 DEF LeftFrom
    <3> QED BY <3>2, <3>3
  <2>5. /\ Encode(sent[k + 1]) \in Seq(Byte)
        /\ Len(Encode(sent[k + 1])) = PrefixBytes + Len(sent[k + 1])
        /\ Len(sent[k + 1]) \in Nat
    BY <2>4, EncodedHas, FramesAssumption
  <2>6. Len(buf) = PrefixBytes + Len(sent[k + 1]) + Len(left[k + 1]) /\ Len(left[k + 1]) \in Nat
    <3>1. Len(Encode(sent[k + 1]) \o left[k + 1]) = Len(Encode(sent[k + 1])) + Len(left[k + 1])
      BY <2>4, <2>5, ConcatProperties
    <3>2. Len(left[k + 1]) \in Nat
      BY <2>4
    <3> QED BY <2>3, <2>5, <3>1, <3>2 DEF PrefixBytes
  <2>7. HasPrefix
    <3> DEFINE a == Len(sent[k + 1])
               b == Len(left[k + 1])
               c == Len(buf)
    <3>1. a \in Nat /\ b \in Nat /\ c = 2 + a + b
      BY <2>5, <2>6 DEF PrefixBytes
    <3> HIDE DEF a, b, c
    <3>2. c >= 2
      BY <3>1
    <3> QED BY <3>2 DEF HasPrefix, PrefixBytes, c
  <2>8. FrameLen = PrefixBytes + Len(sent[k + 1])
    BY <2>1, <2>7, FrontFrame DEF FramesInv
  <2>9. FrameLen > Len(buf)
    BY <2>2, <2>7 DEF FramesInv, Drained
  <2> DEFINE a == Len(sent[k + 1])
             b == Len(left[k + 1])
             c == Len(buf)
  <2>10. a \in Nat /\ b \in Nat /\ c = 2 + a + b /\ 2 + a > c
    BY <2>5, <2>6, <2>8, <2>9 DEF PrefixBytes
  <2> HIDE DEF a, b, c
  <2> QED BY <2>10
<1> QED BY <1>3, <1>4, <1>5

\* However the stream is cut into reads, a reader decodes what was sent, in order
\* and nothing else, and all of it once the stream is read (FrameBuffer, protocol.rs:264).
THEOREM MessagesWhole == Spec => []MessagesComeWhole
<1>1. Init => FramesInv
  <2> SUFFICES ASSUME Init PROVE FramesInv
    OBVIOUS
  <2> DEFINE t == [i \in 0 .. 0 |-> <<>>]
  <2>1. TypeOK
    <3>1. <<>> \in Seq(Byte) /\ <<>> \in Seq(Messages) /\ <<>> \in Seq([ok : BOOLEAN, body : Seq(Byte)])
      BY EmptySeq
    <3> QED BY <3>1 DEF Init, TypeOK
  <2>2. Len(sent) = 0 /\ got = <<>> /\ buf = <<>> /\ wire = <<>> /\ ~broken
    BY DEF Init
  <2>3. t \in [0 .. 0 -> Seq(Result)] /\ t \in [0 .. 0 -> Seq(Byte)] /\ t[0] = <<>>
    BY EmptySeq
  <2> HIDE DEF t
  <2>4. TakenTo(0, t)
    BY <2>2, <2>3 DEF TakenTo
  <2>5. LeftFrom(0, t)
    <3>1. <<>> \in Seq(Byte) /\ <<>> \o <<>> = <<>>
      BY EmptySeq, ConcatEmptySeq
    <3> QED BY <2>2, <2>3, <3>1 DEF LeftFrom
  <2>6. DecodedTo(0) /\ 0 \in 0 .. Len(sent)
    BY <2>2, <2>4, <2>5 DEF DecodedTo
  <2>7. Drained
    BY <2>2 DEF Drained, HasPrefix, PrefixBytes
  <2> QED BY <2>1, <2>6, <2>7 DEF FramesInv, Decoding
<1>2. FramesInv => MessagesComeWhole
  <2> SUFFICES ASSUME FramesInv PROVE MessagesComeWhole
    OBVIOUS
  <2>1. PICK k \in 0 .. Len(sent) : DecodedTo(k)
    BY DEF FramesInv, Decoding
  <2>2. Expected = got \o ExpectedFrom[k + 1]
    BY <2>1, DecodedIsExpected DEF DecodedTo, FramesInv
  <2>3. got \in Seq(Result) /\ ExpectedFrom[k + 1] \in Seq(Result)
    <3>1. k + 1 \in 1 .. Len(sent) + 1 /\ TypeOK
      BY DEF FramesInv, TypeOK
    <3> QED BY <3>1, ExpectedIs DEF TypeOK, Result
  <2>4. Expected \in Seq(Result) /\ Len(got) =< Len(Expected)
    <3>1. Len(got) \in Nat /\ Len(ExpectedFrom[k + 1]) \in Nat
      BY <2>3
    <3> QED BY <2>2, <2>3, <3>1, ConcatProperties
  <2>5. got = SubSeq(Expected, 1, Len(got))
    <3>1. Expected \o <<>> = got \o ExpectedFrom[k + 1] /\ <<>> \in Seq(Result)
      BY <2>2, <2>4, ConcatEmptySeq, EmptySeq
    <3> QED BY <2>3, <2>4, <3>1, FrontOf
  <2>6. wire = <<>> /\ phase = "read" => got = Expected
    <3>1. got \o <<>> = got
      BY <2>3, ConcatEmptySeq
    <3> QED BY <2>1, <2>2, <3>1, NothingToCome
  <2> QED BY <2>4, <2>5, <2>6 DEF MessagesComeWhole
<1> QED BY <1>1, <1>2, FramesInductive, PTL DEF Spec
=============================================================================
