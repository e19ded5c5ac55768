-------------------------------- MODULE ECTag --------------------------------
(***************************************************************************)
(* Tags of the EC protocol (src/amarr/jamule/ec/tag.py, codes.py): a tag   *)
(* is a record of its name (a number), its type, its value and its         *)
(* subtags.  Here are the value codecs of the types, the accessors the     *)
(* responses are read with and the numeric getters.                        *)
(*                                                                         *)
(* Values: UINT8..UINT64 numbers below 2^30, UINT128 a signed number below *)
(* 2^22, CUSTOM and HASH16 bytes, STRING its bytes (UTF-8 decoding is not  *)
(* modelled: ASCII), DOUBLE the bytes of its decimal text, IPV4 an address *)
(* and a port.  An operation that may raise returns a sequence: empty when *)
(* it raises, else the result.                                             *)
(***************************************************************************)
EXTENDS ECEncoding, Comprehension

Raised == << >>

\* What follows a result; nothing does when it raised.
Then(result, next(_)) == IF result = Raised THEN Raised ELSE next(result[1])

Tag(name, type, value, subtags) ==
    [name |-> name, type |-> type, value |-> value, subtags |-> subtags]

ECTagType == [CUSTOM |-> 1, UINT8 |-> 2, UINT16 |-> 3, UINT32 |-> 4, UINT64 |-> 5,
              STRING |-> 6, DOUBLE |-> 7, IPV4 |-> 8, HASH16 |-> 9, UINT128 |-> 10]

\* The type of a byte: unknown bytes have no constructor, which raises.
TypeFromValue(byte) ==
    IF \E t \in DOMAIN ECTagType : ECTagType[t] = byte
    THEN <<CHOOSE t \in DOMAIN ECTagType : ECTagType[t] = byte>>
    ELSE Raised

\* The integer types and their size in bytes.
NumericSize == [UINT8 |-> 1, UINT16 |-> 2, UINT32 |-> 4, UINT64 |-> 8]

-----------------------------------------------------------------------------
\* Values

BitLength(value) ==
    CHOOSE k \in 0..22 : /\ value < 2 ^ k /\ -value < 2 ^ k
                         /\ k > 0 => ~(value < 2 ^ (k - 1) /\ -value < 2 ^ (k - 1))

\* Two's complement with room for the sign bit.
SignedBytes(value) ==
    LET size == (BitLength(value) + 8) \div 8
    IN  IF value = 0 THEN <<0>>
        ELSE BigEndian(IF value < 0 THEN value + 256 ^ size ELSE value, size)

Signed(data) ==
    IF data[1] < 128 THEN Unsigned(data) ELSE Unsigned(data) - 256 ^ Len(data)

\* A string ends in one null byte on the wire and loses all of them when read.
RightStripped(data) ==
    LET kept == {i \in DOMAIN data : data[i] # 0}
    IN  SubSeq(data, 1, IF kept = {} THEN 0 ELSE CHOOSE i \in kept : \A j \in kept : j <= i)

encode_value(tag) ==
    CASE tag.type \in DOMAIN NumericSize    -> BigEndian(tag.value, NumericSize[tag.type])
      [] tag.type \in {"CUSTOM", "HASH16"}  -> tag.value
      [] tag.type \in {"STRING", "DOUBLE"}  -> Append(tag.value, 0)
      [] tag.type = "IPV4"    -> tag.value.address \o ushort_to_bytes(tag.value.port)
      [] tag.type = "UINT128" -> SignedBytes(tag.value)

\* An empty integer is zero; any other length than the type's raises.
parse_value(type, data) ==
    CASE type \in DOMAIN NumericSize ->
             IF data = << >> THEN <<0>>
             ELSE IF Len(data) = NumericSize[type] THEN <<Unsigned(data)>> ELSE Raised
      [] type = "CUSTOM" -> <<data>>
      [] type = "HASH16" -> IF Len(data) = 16 THEN <<data>> ELSE Raised
      [] type = "STRING" ->
             IF data = << >> \/ Last(data) # 0 THEN Raised ELSE <<RightStripped(data)>>
      [] type = "DOUBLE" ->
             IF data = << >> \/ Last(data) # 0 \/ RightStripped(data) = << >>
             THEN Raised ELSE <<RightStripped(data)>>
      [] type = "IPV4" ->
             IF Len(data) # 6 THEN Raised
             ELSE <<[address |-> SubSeq(data, 1, 4), port |-> Unsigned(SubSeq(data, 5, 6))]>>
      [] type = "UINT128" -> IF data = << >> THEN <<0>> ELSE <<Signed(data)>>

-----------------------------------------------------------------------------
\* Accessors: the first tag of the name, if it is of one of the types

Named(tags, name) == Where(tags, LAMBDA t : t.name = name)

\* _first_of_type.  A tag of the name but of another type hides the later ones.
FirstOfType(tags, name, types) ==
    LET at    == {i \in DOMAIN tags : tags[i].name = name}
        first == tags[CHOOSE i \in at : \A j \in at : i <= j]
    IN  IF at # {} /\ first.type \in types THEN <<first>> ELSE << >>

find_numeric(tags, name) == FirstOfType(tags, name, DOMAIN NumericSize)
find_byte(tags, name)    == FirstOfType(tags, name, {"UINT8"})
find_short(tags, name)   == FirstOfType(tags, name, {"UINT16"})
find_int(tags, name)     == FirstOfType(tags, name, {"UINT32"})
find_long(tags, name)    == FirstOfType(tags, name, {"UINT64"})
find_string(tags, name)  == FirstOfType(tags, name, {"STRING"})
find_hash16(tags, name)  == FirstOfType(tags, name, {"HASH16"})
find_custom(tags, name)  == FirstOfType(tags, name, {"CUSTOM"})

\* Mutant of get_short: a wider type is cut to 16 bits.
get_short_cut(tag) == IF tag.type \in DOMAIN NumericSize THEN <<tag.value % 65536>> ELSE Raised

\* The getters narrow, never by truncating: a wider type raises, whatever its value.
get_short(tag) == IF tag.type \in {"UINT8", "UINT16"} THEN <<tag.value>> ELSE Raised
get_int(tag)   == IF tag.type \in {"UINT8", "UINT16", "UINT32"} THEN <<tag.value>> ELSE Raised
get_long(tag)  == IF tag.type \in DOMAIN NumericSize THEN <<tag.value>> ELSE Raised

=============================================================================
