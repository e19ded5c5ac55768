---------------------------- MODULE Comprehension ----------------------------
(***************************************************************************)
(* Python's list with a condition, [x for x in s if Test(x)], and a record *)
(* made of two.  Sequences and TLC have operators that do the same,        *)
(* SelectSeq and @@; the proof system knows nothing about those two, so    *)
(* the modules that are proved about take these.                           *)
(***************************************************************************)
EXTENDS SequencesExt

\* The elements that pass the test, in their order.
Where(s, Test(_)) == FlattenSeq([i \in DOMAIN s |-> IF Test(s[i]) THEN <<s[i]>> ELSE << >>])

\* The fields of both, those of the first where they have the same.
Joined(f, g) ==
    [x \in DOMAIN f \cup DOMAIN g |-> IF x \in DOMAIN f THEN f[x] ELSE g[x]]

=============================================================================
