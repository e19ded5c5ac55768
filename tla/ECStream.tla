------------------------------- MODULE ECStream -------------------------------
(***************************************************************************)
(* One direction of an EC connection: a writer that puts whole packets on  *)
(* the wire (src/amarr/jamule/connection.py, packet.py) and a parser that  *)
(* takes them off one by one.  The peer may also send packets that are     *)
(* framed correctly and malformed inside, and may close the connection in  *)
(* the middle of a packet.                                                 *)
(***************************************************************************)
EXTENDS ECCodec

CONSTANTS
    Packets,        \* packets the program may be asked to write
    MaxInFlight     \* bound: packets on the wire

ASSUME InFlightIsBounded == MaxInFlight \in Nat \ {0}

VARIABLES
    wire,       \* bytes written and not parsed yet
    sent,       \* what they are: per packet its bytes and what parse must give for it
    outcome,    \* the packet the step has given the reader, if any
    closed      \* the peer has closed the connection

vars == <<wire, sent, outcome, closed>>

Init == wire = << >> /\ sent = << >> /\ outcome = Raised /\ closed = FALSE

-----------------------------------------------------------------------------

\* What a complete packet is to the reader: itself without its identifier, which is not
\* written, or an exception if it expands beyond the limit.
Reading(packet) ==
    IF packet.flags.zlib /\ Len(EncodePayload(packet)) > MAX_DECOMPRESSED_SIZE
    THEN Raised ELSE <<[packet EXCEPT !.id = Absent]>>

Written == [packet \in Packets |-> Write(packet)]

\* The packets whose serialization does not raise.
Writable == {packet \in Packets : Written[packet] # Raised}

\* Mutant of Emitted: the packet is serialized straight to the socket, flags first.
EmittedInPieces(packet) ==
    IF Written[packet] = Raised THEN uint_to_bytes(ToUint(packet.flags)) ELSE Written[packet][1]

\* The packet is serialized into a buffer first, so that one that cannot be written
\* leaves nothing on the socket.
Emitted(packet) == IF Written[packet] = Raised THEN << >> ELSE Written[packet][1]

Put(bytes, reading) ==
    /\ ~closed /\ Len(sent) < MaxInFlight
    /\ wire' = wire \o bytes
    /\ sent' = Append(sent, [bytes |-> bytes, reading |-> reading])
    /\ outcome' = Raised
    /\ UNCHANGED closed

SendRequest(packet) == Put(Emitted(packet), Reading(packet))

SendRaises(packet) ==
    /\ ~closed
    /\ wire' = wire \o Emitted(packet)
    /\ outcome' = Raised
    /\ UNCHANGED <<sent, closed>>

\* Payloads that are not those of a packet: cut after any byte, one byte too long, or
\* with an op code nobody knows.
MalformedPayloads(packet) ==
    LET payload == EncodePayload(packet)
    IN  {SubSeq(payload, 1, n) : n \in 1..Len(payload) - 1}
            \cup {Append(payload, 0), <<0>> \o Tail(payload)}

\* Bound: one fault on the wire at a time.
NoFaultInFlight == \A i \in DOMAIN sent : sent[i].reading # Raised

PeerSendsMalformed(packet) ==
    /\ NoFaultInFlight
    /\ \E payload \in MalformedPayloads(packet) :
           Put(Frame(packet.flags, packet.accepts, payload), Raised)

\* The connection ends inside the last packet, before or after the parser has met it.
PeerCloses ==
    /\ ~closed /\ sent # << >> /\ NoFaultInFlight
    /\ \E n \in 1..Len(Last(sent).bytes) :
           /\ wire' = SubSeq(wire, 1, Len(wire) - n)
           /\ sent' = Append(Front(sent), [bytes   |-> SubSeq(Last(sent).bytes, 1,
                                                              Len(Last(sent).bytes) - n),
                                           reading |-> Raised])
    /\ closed' = TRUE
    /\ outcome' = Raised

Receive ==
    /\ sent # << >>
    /\ wire' = Parse(wire).rest
    /\ outcome' = Parse(wire).packet
    /\ sent' = Tail(sent)
    /\ UNCHANGED closed

Next ==
    \/ \E packet \in Writable : SendRequest(packet) \/ PeerSendsMalformed(packet)
    \/ \E packet \in Packets \ Writable : SendRaises(packet)
    \/ PeerCloses
    \/ Receive

Spec == Init /\ [][Next]_vars

-----------------------------------------------------------------------------
\* Properties

\* The parser never reads into the next packet nor leaves part of one behind, whatever
\* was wrong inside the last, and a packet that cannot be written leaves no byte: what
\* is on the wire is exactly the packets nobody has parsed yet (packet.py:207, the
\* payload is taken off the stream whole before it is looked at; connection.py:109).
WireHoldsWholePackets == wire = FlattenSeq([i \in DOMAIN sent |-> sent[i].bytes])

\* A packet arrives as it was written: tag trees, values and flags, in both encodings of
\* the header numbers and compressed or not (tag.py:418, the length is computed alike
\* by the encoder and the parser).  And no part of a packet is taken for a packet: a
\* payload cut after any byte, with a byte too many, over the size limit, or on a
\* connection that ends inside it raises (packet.py:249, 253, 275 and 296).
PacketsArriveIntact ==
    [][Len(sent') < Len(sent) => outcome' = Head(sent).reading]_vars

=============================================================================
