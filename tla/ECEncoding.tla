----------------------------- MODULE ECEncoding -----------------------------
(***************************************************************************)
(* Integers of the EC protocol (src/amarr/jamule/ec/encoding.py): fixed    *)
(* big-endian fields, and the header numbers that a packet with the UTF-8  *)
(* flag carries as the UTF-8 sequence of a code point.  Bytes are 0..255,  *)
(* a buffer is a sequence of bytes and indices start at 1.                 *)
(*                                                                         *)
(* What raises in the code (struct.error, IndexError, ValueError,          *)
(* UnicodeError) is NoNumber here.                                         *)
(***************************************************************************)
EXTENDS Integers, Sequences

Byte == 0..255

NoNumber == -1

\* Bound: every number from here on is read as this one.  No length, count or
\* index of a packet comes near it, so all of them have the same effect.
Huge == 1073741824

-----------------------------------------------------------------------------
\* Fixed-size big-endian fields

BigEndian(value, size) ==
    [i \in 1..size |-> IF size - i > 3 THEN 0 ELSE (value \div (256 ^ (size - i))) % 256]

ushort_to_bytes(value) == BigEndian(value % 65536, 2)
uint_to_bytes(value)   == BigEndian(value, 4)

\* Two, four or eight bytes as an unsigned number.
Unsigned(data) ==
    LET n      == Len(data)
        Low(k) == IF k < n THEN data[n - k] ELSE 0
    IN  IF Low(3) > 63 \/ \E i \in 1..n - 4 : data[i] # 0
        THEN Huge
        ELSE Low(0) + 256 * Low(1) + 65536 * Low(2) + 16777216 * Low(3)

-----------------------------------------------------------------------------
\* Numbers as UTF-8

\* The code points chr(value).encode("utf-8") accepts: no surrogate, nothing
\* above U+10FFFF.
IsCodePoint(value) == 0 <= value /\ value <= 1114111 /\ ~(55296 <= value /\ value <= 57343)

Trailing(value) == 128 + (value % 64)

number_to_utf8(value) ==
    CASE value < 128                    -> <<value>>
      [] value >= 128   /\ value < 2048 -> <<192 + value \div 64, Trailing(value)>>
      [] value >= 2048  /\ value < 65536 ->
             <<224 + value \div 4096, Trailing(value \div 64), Trailing(value)>>
      [] value >= 65536 ->
             <<240 + value \div 262144, Trailing(value \div 4096), Trailing(value \div 64),
               Trailing(value)>>

\* Zero where the code raises: a continuation byte, or five leading ones.
utf8_sequence_length(first_byte) ==
    CASE first_byte < 128          -> 1
      [] first_byte \in 192..223   -> 2
      [] first_byte \in 224..239   -> 3
      [] first_byte \in 240..247   -> 4
      [] first_byte \in (128..191) \cup (248..255) -> 0

\* The payload bits of a sequence, whatever its bytes.
CodePointOf(s) ==
    CASE Len(s) = 1 -> s[1]
      [] Len(s) = 2 -> (s[1] - 192) * 64 + (s[2] - 128)
      [] Len(s) = 3 -> (s[1] - 224) * 4096 + (s[2] - 128) * 64 + (s[3] - 128)
      [] Len(s) = 4 -> (s[1] - 240) * 262144 + (s[2] - 128) * 4096
                          + (s[3] - 128) * 64 + (s[4] - 128)

\* Strict decoding: an overlong, cut or surrogate sequence raises.
Decoded(s) ==
    IF IsCodePoint(CodePointOf(s)) /\ number_to_utf8(CodePointOf(s)) = s
    THEN CodePointOf(s) ELSE NoNumber

read_utf8_number(data, offset) ==
    IF offset > Len(data) \/ utf8_sequence_length(data[offset]) = 0
    THEN NoNumber
    ELSE LET last == offset + utf8_sequence_length(data[offset]) - 1
         IN  IF last > Len(data) THEN NoNumber ELSE Decoded(SubSeq(data, offset, last))

-----------------------------------------------------------------------------
\* Header numbers, in the encoding the packet's flags ask for

number_length(first_byte, utf, size) ==
    IF utf THEN utf8_sequence_length(first_byte) ELSE size

\* read_uint16 and read_uint32, by the size of the fixed field.
read_uint(data, utf, index, size) ==
    IF utf THEN read_utf8_number(data, index)
    ELSE IF index + size - 1 > Len(data) THEN NoNumber
    ELSE Unsigned(SubSeq(data, index, index + size - 1))

\* ushort_to_bytes_utf and uint_to_bytes_utf.
uint_to_bytes_utf(value, utf, size) ==
    IF utf THEN number_to_utf8(value) ELSE BigEndian(value, size)

\* Whether the call above raises instead.
HeaderEncodable(value, utf) == utf => IsCodePoint(value)

=============================================================================
