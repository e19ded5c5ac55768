---------------------------- MODULE MCECStream ----------------------------
(* Packets as the program and the core exchange them, one for each thing the codec *)
(* treats differently.                                                             *)
EXTENDS ECStream

MCNames == {0, 6, 11, 17, 768, 769, 772, 1280, 3586, 4353, 4354}

Utf8   == [zlib |-> FALSE, utf8 |-> TRUE, has_id |-> FALSE, accepts |-> FALSE]
Binary == [Utf8 EXCEPT !.utf8 = FALSE]
Zlib   == [Utf8 EXCEPT !.zlib = TRUE]
Accept == [Utf8 EXCEPT !.accepts = TRUE]

Plain(n, ty, v)    == Tag(n, ty, v, << >>)
P(op, tags, flags)  == [op_code |-> op, tags |-> tags, flags |-> flags, accepts |-> Absent,
                        id |-> Absent]

Text(n) == [i \in 1..n |-> 65]
Hash    == [i \in 1..16 |-> i - 1]

\* EC_TAG_PARTFILE with its name, its size and a source count, two levels deep
PartFile == Tag(768, "HASH16", Hash,
                 <<Plain(769, "STRING", Text(2)),
                   Tag(772, "UINT64", 70000, <<Plain(4354, "STRING", << >>),
                                                Plain(6, "UINT8", 255)>>)>>)

Values == <<Plain(17, "UINT128", 200), Plain(17, "UINT128", -129), Plain(17, "CUSTOM", << >>),
            Plain(1280, "IPV4", [address |-> <<10, 0, 0, 255>>, port |-> 4661]),
            Plain(0, "DOUBLE", <<49, 46, 53>>), Plain(11, "UINT16", 65535),
            Plain(11, "UINT32", 16777217)>>

MCPackets ==
    {P(1, << >>, Utf8),
     P(31, <<PartFile, PartFile>>, Utf8),
     P(31, <<PartFile>>, Binary),
     P(40, <<PartFile>>, Zlib),
     P(40, <<PartFile, PartFile>>, Zlib),                      \* expands beyond the limit
     P(12, Values, Utf8),
     P(12, Values, Binary),
     P(6, <<Plain(0, "STRING", Text(127)), Plain(4353, "UINT8", 0)>>, Utf8),
     [P(2, <<Plain(6, "STRING", Text(1))>>, Accept) EXCEPT !.accepts = <<Utf8>>],
     [P(2, << >>, [Utf8 EXCEPT !.has_id = TRUE]) EXCEPT !.id = <<7>>],
     P(2, << >>, [Utf8 EXCEPT !.has_id = TRUE]),               \* no identifier to write
     P(2, << >>, Accept),                                      \* no accepted flags to write
     P(9, <<Plain(772, "STRING", Text(55296))>>, Utf8)}        \* its length is a surrogate

=============================================================================
