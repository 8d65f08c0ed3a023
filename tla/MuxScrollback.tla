---------------------------- MODULE MuxScrollback -----------------------------
(***************************************************************************)
(* A session's history (session.rs ScrollbackRing): the last bytes its     *)
(* program wrote, and the part of them a fresh client is given.  A byte is *)
(* a newline or any other.                                                 *)
(***************************************************************************)
EXTENDS Naturals, Sequences

CONSTANTS
    Capacity,    \* SCROLLBACK_CAPACITY_BYTES
    MaxChunk,    \* READ_CHUNK_BYTES
    MaxWritten   \* bound: bytes the program writes

ASSUME CapacityAssumption ==
    Capacity \in Nat \ {0} /\ MaxChunk \in Nat \ {0} /\ MaxWritten \in Nat

VARIABLES
    written,  \* everything the program wrote
    buf,
    evicted

ringVars == <<written, buf, evicted>>

Byte == {"newline", "other"}
Chunk == UNION {[1 .. n -> Byte] : n \in 1 .. MaxChunk}

RingInit == written = <<>> /\ buf = <<>> /\ evicted = FALSE

\* What is left of s without its n oldest bytes.
Without(n, s) == SubSeq(s, n + 1, Len(s))

ExcessFault(s) == Len(s) - Capacity - 1
Excess(s) == Len(s) - Capacity

Push(data) ==
    LET all == buf \o data
    IN  /\ Len(written) + Len(data) =< MaxWritten
        /\ written' = written \o data
        /\ IF Len(all) > Capacity
           THEN buf' = Without(Excess(all), all) /\ evicted' = TRUE
           ELSE buf' = all /\ UNCHANGED evicted

RingNext == \E data \in Chunk : Push(data)

RingSpec == RingInit /\ [][RingNext]_ringVars

\* Once the head may be torn, from the first whole line on, if there is one.
FirstNewline == CHOOSE i \in DOMAIN buf : buf[i] = "newline"
                    /\ \A j \in 1 .. i - 1 : buf[j] # "newline"
HeadIsTornFault == Len(buf) = Capacity
HeadIsTorn == evicted
Snapshot ==
    IF HeadIsTorn /\ \E i \in DOMAIN buf : buf[i] = "newline"
    THEN Without(FirstNewline, buf)
    ELSE buf

-----------------------------------------------------------------------------
(* Properties *)

RingTypeOK ==
    /\ written \in Seq(Byte) /\ buf \in Seq(Byte) /\ evicted \in BOOLEAN
    /\ Len(buf) =< Capacity

\* The history is the last Capacity bytes of the output, or all of it.
KeepsTheTail ==
    /\ Len(buf) = IF Len(written) > Capacity THEN Capacity ELSE Len(written)
    /\ \A i \in DOMAIN buf : buf[i] = written[Len(written) - Len(buf) + i]
    /\ evicted <=> Len(written) > Capacity

\* A replay is the end of the output, from a line's start on unless no whole
\* line is left, and from its very start while nothing was lost.
ReplaysWholeLines ==
    LET skipped == Len(written) - Len(Snapshot)
    IN  /\ Snapshot = Without(skipped, written)
        /\ Len(written) =< Capacity => skipped = 0
        /\ skipped > 0 /\ (\E i \in DOMAIN buf : buf[i] = "newline")
               => written[skipped] = "newline"
=============================================================================
