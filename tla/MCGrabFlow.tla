------------------------------ MODULE MCGrabFlow ------------------------------
(* Files and results for TLC: links that coincide between engines and between      *)
(* spellings, names with the symbols of links in them, and files that are no video. *)
EXTENDS GrabFlow

Hash(byte) == [i \in 1..16 |-> byte]

File(byte, name, size) ==
    [file_name |-> name, hash |-> Hash(byte), size_full |-> size,
     complete_source_count |-> 1, source_count |-> 2]

A == File("a1", <<"A", "&", "=", "|", ".", "mkv">>, 536870911)
B == File("b2", <<"B", "%", "7C">>, 70000)
C == File("c3", <<"C", ".", "avi">>, 1)
NoVideo == {File("a1", <<"A", ".", "nfo">>, 70000), File("d4", <<"D">>, 300)}

MCFiles == {A, B, C} \cup NoVideo

Lists(files, size) == {s \in UNION {[1..n -> files] : n \in 0..size} : IsInjective(s)}

\* One query and one or two engines, or three spellings of an episode and two engines.
MCFound ==
    {<<<<s>>>> : s \in Lists(MCFiles, 3)}
        \cup {<<<<s, t>>>> : s \in Lists({A, B, C}, 3), t \in Lists({A, B, C}, 3)}
        \cup {<<<<s, << >>>>, <<t, u>>, <<u, <<C>>>>>> :
                  s \in Lists({A, B, C}, 2), t \in Lists({A, B}, 2), u \in Lists({A, B}, 1)}

Request(query, tv, season, limit) ==
    [query |-> query, tv |-> tv, season |-> season, episode |-> <<"02">>, limit |-> limit]

MCRequests ==
    {Request(<<"q">>, FALSE, << >>, 1), Request(<<"q">>, TRUE, << >>, 2),
     Request(<<"q">>, TRUE, <<"01">>, 1), Request(<<"q">>, TRUE, <<"01">>, 2),
     Request(<< >>, TRUE, <<"01">>, 2)}
=============================================================================
