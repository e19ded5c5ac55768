------------------------------- MODULE ECCodec -------------------------------
(***************************************************************************)
(* Packets of the EC protocol as bytes (src/amarr/jamule/ec/tag.py,        *)
(* packet.py): the encoder of tag trees with its "theoretical" lengths,    *)
(* the packet writer, and the two parsers, with every check at which they  *)
(* raise.  As in ECTag an operation that may raise returns a sequence,     *)
(* empty when it raises.                                                   *)
(*                                                                         *)
(* A packet is a record of its op code, tags, flags, accepted flags and    *)
(* identifier; the last two are sequences, Absent when the code has None.  *)
(***************************************************************************)
EXTENDS ECTag

CONSTANTS
    KnownNames,             \* the values of ECTagName
    MAX_DECOMPRESSED_SIZE   \* bytes a compressed payload may expand to

ASSUME SizesAreNumbers == KnownNames \subseteq 0..32767 /\ MAX_DECOMPRESSED_SIZE \in Nat

Absent == << >>

EC_TAG_UNKNOWN == 65535

ECOpCode == (1..14) \cup {16, 17} \cup (22..32) \cup {34, 35} \cup (37..75) \cup (77..87)

\* An unknown name is not an error, an unknown op code is.
NameFromValue(value) == IF value \in KnownNames THEN value ELSE EC_TAG_UNKNOWN

-----------------------------------------------------------------------------
\* Flags

\* The bits of a flag word that mean something: ZLIB, UTF8_NUMBERS, HAS_ID, ACCEPTS
\* and those a peer may set without meaning, 0x20 among them.
KnownBits == {0, 1, 2, 4, 5, 6, 7, 15, 23}

Bit(word, k) == (word \div (2 ^ k)) % 2 = 1

ToUint(flags) == 32 + (IF flags.zlib THEN 1 ELSE 0) + (IF flags.utf8 THEN 2 ELSE 0)
                    + (IF flags.has_id THEN 4 ELSE 0) + (IF flags.accepts THEN 16 ELSE 0)

FromUint(word) == [zlib |-> Bit(word, 0), utf8 |-> Bit(word, 1), has_id |-> Bit(word, 2),
                   accepts |-> Bit(word, 4)]

HasUnknownFlags(word) == \E k \in (0..30) \ KnownBits : Bit(word, k)

-----------------------------------------------------------------------------
\* TagEncoder

RECURSIVE ComputeTagLength(_), EncodeTag(_, _), CanEncodeTag(_, _)

\* Mutant of HeaderSize: forgets that a subtag may have subtags, hence a count.
HeaderSizeWithoutCount(tag) == 2 + 1 + 4

\* What a subtag adds beside its own length: the fixed sizes of its header, whatever
\* the encoding of the numbers.
HeaderSize(tag) == 2 + 1 + 4 + (IF tag.subtags = << >> THEN 0 ELSE 2)

ComputeTagLength(tag) ==
    FoldLeft(LAMBDA n, sub : n + ComputeTagLength(sub) + HeaderSize(sub),
             Len(encode_value(tag)), tag.subtags)

NameAndSubtags(tag) == (2 * tag.name + (IF tag.subtags = << >> THEN 0 ELSE 1)) % 65536

EncodeTag(tag, utf) ==
    uint_to_bytes_utf(NameAndSubtags(tag), utf, 2)
    \o <<ECTagType[tag.type]>>
    \o uint_to_bytes_utf(ComputeTagLength(tag), utf, 4)
    \o (IF tag.subtags = << >> THEN << >> ELSE uint_to_bytes_utf(Len(tag.subtags), utf, 2))
    \o FlattenSeq([i \in DOMAIN tag.subtags |-> EncodeTag(tag.subtags[i], utf)])
    \o encode_value(tag)

\* Whether every header number of the tag can be written: a length or a count that is
\* a surrogate code point cannot.
CanEncodeTag(tag, utf) ==
    /\ \A n \in {NameAndSubtags(tag), ComputeTagLength(tag), Len(tag.subtags)} :
           HeaderEncodable(n, utf)
    /\ \A i \in DOMAIN tag.subtags : CanEncodeTag(tag.subtags[i], utf)

-----------------------------------------------------------------------------
\* zlib, and the writer

\* External: a compressed block announces what it expands to and is complete or cut.
Compress(data) == <<120>> \o uint_to_bytes(Len(data)) \o data

\* A block that is cut (no end of stream), that is not zlib's, or that expands too far raises;
\* what follows a complete block is ignored.
Decompress(block) ==
    LET size == Unsigned(SubSeq(block, 2, 5))
    IN  IF \/ Len(block) < 5 \/ block[1] # 120 \/ Len(block) < 5 + size
           \/ size > MAX_DECOMPRESSED_SIZE
        THEN Raised
        ELSE <<SubSeq(block, 6, 5 + size)>>

EncodePayload(packet) ==
    <<packet.op_code>> \o uint_to_bytes_utf(Len(packet.tags), packet.flags.utf8, 2)
    \o FlattenSeq([i \in DOMAIN packet.tags |-> EncodeTag(packet.tags[i], packet.flags.utf8)])

\* The flag words, the length and the payload, as _write_transport puts them.
Frame(flags, accepts, raw_payload) ==
    LET payload == IF flags.zlib THEN Compress(raw_payload) ELSE raw_payload
    IN  uint_to_bytes(ToUint(flags))
        \o (IF flags.accepts THEN uint_to_bytes(ToUint(accepts[1])) ELSE << >>)
        \o uint_to_bytes(Len(payload)) \o payload

\* PacketWriter.write into a buffer of its own.
Write(packet) ==
    IF \/ packet.flags.has_id /\ packet.id = Absent
       \/ packet.flags.accepts /\ packet.accepts = Absent
       \/ \E i \in DOMAIN packet.tags : ~CanEncodeTag(packet.tags[i], packet.flags.utf8)
    THEN Raised
    ELSE <<Frame(packet.flags, packet.accepts, EncodePayload(packet))>>

-----------------------------------------------------------------------------
\* TagParser

RECURSIVE ParseTag(_, _, _), ParseTags(_, _, _, _)

NoTags(index) == [tags |-> << >>, theoretical |-> 0, next |-> index]

\* count tags in a row from index on, with the sum of their theoretical lengths and the
\* index after the last one.
ParseTags(payload, index, utf, count) ==
    IF count = 0 THEN <<NoTags(index)>>
    ELSE LET first == ParseTag(payload, index, utf)
             rest  == ParseTags(payload, first[1].next, utf, count - 1)
         IN  IF first = Raised \/ rest = Raised THEN Raised
             ELSE <<[tags        |-> <<first[1].tag>> \o rest[1].tags,
                     theoretical |-> first[1].theoretical + rest[1].theoretical,
                     next        |-> rest[1].next]>>

\* Python's slice: it stops at the end of the payload without raising.
Slice(payload, first, last) ==
    SubSeq(payload, first, IF last > Len(payload) THEN Len(payload) ELSE last)

\* The length of the tag counts its value and its subtags at fixed header sizes: the
\* value is what is left of it after the subtags.
ParseTag(payload, index, utf) ==
    LET nameAndFlag == read_uint(payload, utf, index, 2)
        typeIndex   == index + number_length(payload[index], utf, 2)
        type        == TypeFromValue(payload[typeIndex])
        length      == read_uint(payload, utf, typeIndex + 1, 4)
        bodyIndex   == typeIndex + 1 + number_length(payload[typeIndex + 1], utf, 4)
        hasSubtags  == nameAndFlag % 2 = 1
        count       == read_uint(payload, utf, bodyIndex, 2)
        subtags     == IF ~hasSubtags THEN <<NoTags(bodyIndex)>>
                       ELSE IF count = NoNumber THEN Raised
                       ELSE ParseTags(payload,
                                      bodyIndex + number_length(payload[bodyIndex], utf, 2),
                                      utf, count)
        valueEnd    == subtags[1].next + length - subtags[1].theoretical - 1
        data        == Slice(payload, subtags[1].next, valueEnd)
        value       == parse_value(type[1], data)
    IN  IF \/ nameAndFlag = NoNumber
           \/ typeIndex > Len(payload) \/ type = Raised
           \/ length = NoNumber
           \/ subtags = Raised \/ value = Raised
        THEN Raised
        ELSE <<[tag |-> Tag(NameFromValue(nameAndFlag \div 2), type[1], value[1],
                            subtags[1].tags),
                theoretical |-> subtags[1].theoretical + (IF hasSubtags THEN 2 ELSE 0)
                                    + Len(data) + 2 + 1 + 4,
                next        |-> valueEnd + 1]>>

-----------------------------------------------------------------------------
\* PacketParser

\* The payload must end where its last tag ends.
EndsWithLastTag(payload, tags) == tags # Raised /\ tags[1].next = Len(payload) + 1

ParseApplication(flags, accepts, payload) ==
    LET count == read_uint(payload, flags.utf8, 2, 2)
        tags  == ParseTags(payload, 2 + number_length(payload[2], flags.utf8, 2),
                           flags.utf8, count)
    IN  IF \/ Len(payload) < 2 \/ count = NoNumber
           \/ payload[1] \notin ECOpCode
           \/ ~EndsWithLastTag(payload, tags)
        THEN Raised
        ELSE <<[op_code |-> payload[1], tags |-> tags[1].tags, flags |-> flags,
                accepts |-> accepts, id |-> Absent]>>

\* _read_n: the stream ends before n bytes have come.
Ended(stream, n) == Len(stream) < n

Word(stream, index) == Unsigned(SubSeq(stream, index, index + 3))

\* One call of parse on a stream: the packet, if it does not raise, and what it has left
\* unread.  A stream that ends too early is read to its end.
Parse(stream) ==
    LET From(i)     == SubSeq(stream, i, Len(stream))
        Raise(rest) == [packet |-> Raised, rest |-> rest]
        flags       == FromUint(Word(stream, 1))
        lengthIndex == IF flags.accepts THEN 9 ELSE 5
        accepts     == IF flags.accepts THEN <<FromUint(Word(stream, 5))>> ELSE Absent
        length      == Word(stream, lengthIndex)
        end         == lengthIndex + 3 + length
        block       == SubSeq(stream, lengthIndex + 4, end)
        payload     == IF flags.zlib THEN Decompress(block) ELSE <<block>>
    IN  IF Ended(stream, 4) THEN Raise(<< >>)
        ELSE IF HasUnknownFlags(Word(stream, 1)) THEN Raise(From(5))
        ELSE IF Ended(stream, lengthIndex + 3) THEN Raise(<< >>)
        ELSE IF flags.accepts /\ HasUnknownFlags(Word(stream, 5)) THEN Raise(From(9))
        ELSE IF length = 0 THEN Raise(From(lengthIndex + 4))
        ELSE IF Ended(stream, end) THEN Raise(<< >>)
        ELSE [packet |-> IF payload = Raised THEN Raised
                         ELSE ParseApplication(flags, accepts, payload[1]),
              rest   |-> From(end + 1)]

=============================================================================
