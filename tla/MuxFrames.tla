------------------------------ MODULE MuxFrames -------------------------------
(***************************************************************************)
(* The framing of a mux connection in one direction (protocol.rs): a peer  *)
(* writes length-prefixed messages, the stream arrives in pieces of any    *)
(* size, and a FrameBuffer puts the messages together again, for the       *)
(* server's reader thread (connection.rs) or a client (client.rs).  A byte *)
(* is a digit in Base, and the length prefix two of them, enough for it to *)
(* be torn; a message is its encoded body.                                 *)
(***************************************************************************)
EXTENDS Naturals, Sequences

CONSTANTS
    Base,           \* how many values a byte has
    MaxFrameBytes,
    ChunkBytes,     \* the most one read takes
    Messages,       \* the bodies a peer may send, some not decodable
    MaxSent         \* bound: messages the peer sends

Byte == 0 .. Base - 1
PrefixBytes == 2

ASSUME FramesAssumption ==
    /\ Base \in Nat \ {0} /\ MaxFrameBytes \in Nat /\ ChunkBytes \in Nat \ {0}
    /\ Messages \subseteq Seq(Byte) /\ \A m \in Messages : Len(m) < Base * Base
    /\ MaxSent \in Nat

VARIABLES
    reader,   \* "server" (read_frames) or "client" (MuxClient), for good
    sent,     \* the messages the peer sent
    wire,     \* bytes on the way
    peer,     \* "open", or "closed": the peer sends nothing more
    buf, broken,   \* the FrameBuffer
    phase,    \* "read", "drain" (drain_results is under way) or "done" (dropped)
    found,    \* this drain gave a message
    eof,      \* MuxClient.eof, set early by a hang-up a write noticed
    got       \* what was decoded, in order

vars == <<reader, sent, wire, peer, buf, broken, phase, found, eof, got>>

Init ==
    /\ reader \in {"server", "client"}
    /\ sent = <<>> /\ wire = <<>> /\ peer = "open"
    /\ buf = <<>> /\ broken = FALSE
    /\ phase = "read" /\ found = FALSE /\ eof = FALSE /\ got = <<>>

-----------------------------------------------------------------------------
(* Encoding *)

\* A body decodes when it starts as a message does.
Decodes(m) == m # <<>> /\ m[1] = 1
Decoded(m) == IF Decodes(m) THEN [ok |-> TRUE, body |-> m] ELSE [ok |-> FALSE, body |-> <<>>]

\* drain_results gives a reason for a frame that does not decode, for the
\* server to tell its peer; drain, which a client uses, leaves it out.
Results(m) == IF reader = "client" /\ ~ Decodes(m) THEN <<>> ELSE <<Decoded(m)>>

\* The sender checks no limit.
Encode(m) == <<Len(m) \div Base, Len(m) % Base>> \o m

\* The bytes of the frame at the front, prefix included, once its prefix is there.
HasPrefix == Len(buf) >= PrefixBytes
FrameLen == PrefixBytes + buf[1] * Base + buf[2]

Without(n, s) == SubSeq(s, n + 1, Len(s))

-----------------------------------------------------------------------------
(* The peer and the connection *)

Send(m) ==
    /\ peer = "open" /\ Len(sent) < MaxSent
    /\ sent' = Append(sent, m) /\ wire' = wire \o Encode(m)
    /\ UNCHANGED <<reader, peer, buf, broken, phase, found, eof, got>>

Shut ==
    /\ peer = "open" /\ peer' = "closed"
    /\ UNCHANGED <<reader, sent, wire, buf, broken, phase, found, eof, got>>

\* A client's write meets the closed connection (flush_noting_hang_up).
HangUp ==
    /\ reader = "client" /\ peer = "closed" /\ phase = "read" /\ ~ eof
    /\ eof' = TRUE
    /\ UNCHANGED <<reader, sent, wire, peer, buf, broken, phase, found, got>>

-----------------------------------------------------------------------------
(* The reader *)

\* FrameBuffer::extend: a broken buffer takes no more.
ExtendedFault(chunk) == buf \o chunk
Extended(chunk) == IF broken THEN buf ELSE buf \o chunk

\* One read, of what has come by now.
Read(n) ==
    /\ phase = "read" /\ n =< Len(wire)
    /\ buf' = Extended(SubSeq(wire, 1, n)) /\ wire' = Without(n, wire)
    /\ phase' = "drain" /\ found' = FALSE
    /\ UNCHANGED <<reader, sent, peer, broken, eof, got>>

\* The stream's end; either reader drops the connection.
ReadEnd ==
    /\ phase = "read" /\ wire = <<>> /\ peer = "closed"
    /\ phase' = "done"
    /\ eof' = (eof \/ reader = "client")
    /\ UNCHANGED <<reader, sent, wire, peer, buf, broken, found, got>>

TooLarge == FrameLen > MaxFrameBytes + PrefixBytes

Break ==
    /\ phase = "drain" /\ HasPrefix /\ TooLarge
    /\ broken' = TRUE /\ buf' = <<>>
    /\ UNCHANGED <<reader, sent, wire, peer, phase, found, eof, got>>

\* The frame at the front, taken out of the buffer with its prefix.
Rest == Without(FrameLen, buf)

DrainOne ==
    /\ phase = "drain" /\ HasPrefix /\ ~ TooLarge /\ FrameLen =< Len(buf)
    /\ LET results == Results(SubSeq(buf, PrefixBytes + 1, FrameLen))
       IN  got' = got \o results /\ found' = (found \/ results # <<>>)
    /\ buf' = Rest
    /\ UNCHANGED <<reader, sent, wire, peer, broken, phase, eof>>

\* After the drain: read_frames drops a broken connection; a client only asks
\* whether the server hung up, and only when it has no message to hand out
\* (ResilientClient::recv).  What it decoded is handed out before it reads again.
DropsFault == ~ found /\ eof
Drops == IF reader = "server" THEN broken ELSE ~ found /\ eof

EndDrain ==
    /\ phase = "drain"
    /\ HasPrefix => ~ TooLarge /\ FrameLen > Len(buf)
    /\ phase' = IF Drops THEN "done" ELSE "read"
    /\ UNCHANGED <<reader, sent, wire, peer, buf, broken, found, eof, got>>

PeerStep == (\E m \in Messages : Send(m)) \/ Shut \/ HangUp
ReaderStep == (\E n \in 1 .. ChunkBytes : Read(n)) \/ ReadEnd \/ Break \/ DrainOne \/ EndDrain
Next == PeerStep \/ ReaderStep

Spec == Init /\ [][Next]_vars
FairSpec == Spec /\ WF_vars(ReaderStep)

-----------------------------------------------------------------------------
(* Properties *)

TypeOK ==
    /\ reader \in {"server", "client"}
    /\ sent \in Seq(Messages) /\ wire \in Seq(Byte) /\ peer \in {"open", "closed"}
    /\ buf \in Seq(Byte) /\ broken \in BOOLEAN
    /\ phase \in {"read", "drain", "done"} /\ found \in BOOLEAN /\ eof \in BOOLEAN
    /\ got \in Seq([ok : BOOLEAN, body : Seq(Byte)])

\* What a reader should see of the messages sent from the i-th on, the first too
\* large one ending it.
ExpectedFrom[i \in 1 .. Len(sent) + 1] ==
    IF i > Len(sent) THEN <<>>
    ELSE IF Len(sent[i]) > MaxFrameBytes THEN <<>>
    ELSE Results(sent[i]) \o ExpectedFrom[i + 1]
Expected == ExpectedFrom[1]

\* However the stream is cut into reads, the messages come out whole, in order
\* and once each, a junk one in its place and nothing after a too large one.
MessagesComeWhole ==
    /\ Len(got) =< Len(Expected) /\ got = SubSeq(Expected, 1, Len(got))
    /\ (wire = <<>> /\ phase = "read") => got = Expected

\* Between reads no more than one incomplete frame is buffered, whatever length
\* the peer declares (protocol.rs:24-26).
BufferIsBounded == phase # "drain" => Len(buf) < MaxFrameBytes + PrefixBytes

\* A client's connection whose peer declared too large a frame is dropped by
\* the server before it reads again (protocol.rs:283-284).
BrokenIsDropped == broken /\ reader = "server" => phase # "read"

\* A connection whose peer closed it ends, and the server's end of one that broke.
BrokenEnd == broken /\ reader = "server" ~> phase = "done"
ConnectionsEnd == (peer = "closed" ~> phase = "done") /\ BrokenEnd
=============================================================================
