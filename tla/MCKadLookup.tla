----------------------------- MODULE MCKadLookup ------------------------------
EXTENDS KadLookup

(* Four contacts, numbered by their distance to the keyword; two files.    *)
MCSeeds == {3, 4}
MCDistance ==
    [g \in {"keyword", "f", "g"} |->
        [n \in Nodes |-> CASE g = "keyword" -> n [] g = "f" -> 5 - n [] g = "g" -> (2 * n) % 5]]

(* A chain from the farthest to the nearest, and a star around contact 3.  *)
MCNetworks ==
    {[n \in Nodes |-> {n - 1, n} \cap Nodes], [n \in Nodes |-> IF n = 3 THEN {1, 2} ELSE {}]}

(* f is published under two names, g with availabilities in either order.  *)
Result(h, s, ok) == [hash |-> h, sources |-> s, named |-> ok]
MCPublished ==
    [n \in Nodes |->
        CASE n = 1 -> <<Result("f", 2, TRUE), Result("g", 1, TRUE)>>
          [] n = 2 -> <<Result("g", 2, TRUE), Result("f", 1, FALSE)>>
          [] OTHER -> <<Result("f", 3, FALSE)>>]
MCSources ==
    [n \in Nodes |-> [f \in Files |->
        CASE n = 1 -> {"a"} [] n = 2 -> IF f = "f" THEN {"a", "b"} ELSE {} [] OTHER -> {"c"}]]
=============================================================================
