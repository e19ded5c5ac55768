---------------------------- MODULE GrabFlowProofs ----------------------------
(***************************************************************************)
(* What is passed on arrives, for every size, name, tag and list of it.    *)
(*                                                                         *)
(* The header numbers of EC packets, for every code point: what            *)
(* number_to_utf8 writes, read_utf8_number reads back, wherever it stands  *)
(* and whatever follows it, so that the next field is found where it       *)
(* begins (Utf8RoundTrip).                                                 *)
(*                                                                         *)
(* The figures of a download, for every size and speed (EtaAgrees,         *)
(* ProgressAgrees).                                                        *)
(*                                                                         *)
(* The pages of a search, for whatever the engines find, however many      *)
(* engines and spellings there are, whichever engines are down, and for    *)
(* every page size: page after page a client sees everything once and in   *)
(* order (PagesAreComplete).  Deduplicated is New with nothing seen yet;   *)
(* New goes through concatenations, so the beginning of what is merged     *)
(* depends on the beginning of each list only (MergeNeedsTops), and        *)
(* deduplicating a list first changes nothing (MergeOfDeduplicated).  So   *)
(* every page is cut from one and the same list.                           *)
(*                                                                         *)
(* The links of the feed, for every hash, every name and every size: the   *)
(* size is read back from its decimal digits (DecimalRoundTrip), the name  *)
(* from its escapes (EncodedText), and so the whole link from its parts    *)
(* (MagnetRoundTrip, Ed2kRoundTrip, GrabbedLink).                          *)
(*                                                                         *)
(* The way of a file from the network's search to the list of torrents,    *)
(* for every set of files: FlowInv says what each stage may hold, a        *)
(* listing is read back as the file it was written from (ListingOfFile),   *)
(* and the torrents shown are those files with the same figures            *)
(* (WhatIsGrabbedIsListed, ListedFiguresAgree).                            *)
(*                                                                         *)
(* The replies of aMule, for every list of tags: leaving tags out of what  *)
(* can be read leaves it readable (LeftOutTagsAreTolerated), and a number  *)
(* is read as it was sent or not at all, whatever type it comes in         *)
(* (NumbersAreExact).                                                      *)
(***************************************************************************)
EXTENDS GrabFlow, FiniteSetTheorems, SequenceTheorems, TLAPS

-----------------------------------------------------------------------------
\* Header numbers

\* The parts of a number in base 64, as the trailing bytes carry them.
LEMMA Base64 ==
    ASSUME NEW value \in Nat, value <= 1114111
    PROVE  /\ value = 64 * (value \div 64) + (value % 64)
           /\ value % 64 \in 0..63
           /\ value \div 64 \in Nat
           /\ value \div 64 = 64 * (value \div 4096) + ((value \div 64) % 64)
           /\ (value \div 64) % 64 \in 0..63
           /\ value \div 4096 \in 0..271
           /\ value \div 4096 = 64 * (value \div 262144) + ((value \div 4096) % 64)
           /\ (value \div 4096) % 64 \in 0..63
           /\ value \div 262144 \in 0..4
  BY SMT

\* How the first byte tells the length of a sequence.
LEMMA SequenceLength ==
    ASSUME NEW b \in Byte
    PROVE  /\ b \in 0..127 => utf8_sequence_length(b) = 1
           /\ b \in 192..223 => utf8_sequence_length(b) = 2
           /\ b \in 224..239 => utf8_sequence_length(b) = 3
           /\ b \in 240..247 => utf8_sequence_length(b) = 4
<1> USE DEF Byte
<1>1. ASSUME b \in 0..127 PROVE utf8_sequence_length(b) = 1
  BY <1>1, SMT DEF utf8_sequence_length
<1>2. ASSUME b \in 192..223 PROVE utf8_sequence_length(b) = 2
  BY <1>2, SMT DEF utf8_sequence_length
<1>3. ASSUME b \in 224..239 PROVE utf8_sequence_length(b) = 3
  BY <1>3, SMT DEF utf8_sequence_length
<1>4. ASSUME b \in 240..247 PROVE utf8_sequence_length(b) = 4
  BY <1>4, SMT DEF utf8_sequence_length
<1> QED
  BY <1>1, <1>2, <1>3, <1>4, SMT

\* The payload bits of what is written are the number, and its first byte tells how long
\* it is.
LEMMA Utf8Written ==
    ASSUME NEW value \in Nat, IsCodePoint(value)
    PROVE  /\ number_to_utf8(value) \in Seq(Byte)
           /\ CodePointOf(number_to_utf8(value)) = value
           /\ Len(number_to_utf8(value)) \in 1..4
           /\ utf8_sequence_length(number_to_utf8(value)[1]) = Len(number_to_utf8(value))
<1>1. value <= 1114111
  BY SMT DEF IsCodePoint
<1> USE <1>1, Base64 DEF Byte, Trailing
<1>2. CASE value < 128
  <2>1. number_to_utf8(value) = <<value>>
    BY <1>2, SMT DEF number_to_utf8
  <2>2. value \in 0..127
    BY <1>2, SMT
  <2>3. number_to_utf8(value) \in Seq(Byte) /\ Len(number_to_utf8(value)) = 1
    BY <2>1, <2>2, SMT
  <2>4. CodePointOf(number_to_utf8(value)) = value
    BY <2>1, <2>2, SMT DEF CodePointOf
  <2>5. utf8_sequence_length(number_to_utf8(value)[1]) = 1
    BY <2>1, <2>2, SequenceLength, SMT
  <2> QED
    BY <2>3, <2>4, <2>5, SMT
<1>3. CASE value >= 128 /\ value < 2048
  <2>1. number_to_utf8(value) = <<192 + value \div 64, Trailing(value)>>
    BY <1>3, SMT DEF number_to_utf8
  <2>2. 192 + value \div 64 \in 192..223
    BY <1>3, SMT
  <2>3. number_to_utf8(value) \in Seq(Byte) /\ Len(number_to_utf8(value)) = 2
    BY <2>1, <2>2, SMT
  <2>4. CodePointOf(number_to_utf8(value)) = value
    BY <2>1, <2>2, SMT DEF CodePointOf
  <2>5. utf8_sequence_length(number_to_utf8(value)[1]) = 2
    BY <2>1, <2>2, SequenceLength, SMT
  <2> QED
    BY <2>3, <2>4, <2>5, SMT
<1>4. CASE value >= 2048 /\ value < 65536
  <2>1. number_to_utf8(value) =
            <<224 + value \div 4096, Trailing(value \div 64), Trailing(value)>>
    BY <1>4, SMT DEF number_to_utf8
  <2>2. 224 + value \div 4096 \in 224..239
    BY <1>4, SMT
  <2>3. number_to_utf8(value) \in Seq(Byte) /\ Len(number_to_utf8(value)) = 3
    BY <2>1, <2>2, SMT
  <2>4. CodePointOf(number_to_utf8(value)) = value
    BY <2>1, <2>2, SMT DEF CodePointOf
  <2>5. utf8_sequence_length(number_to_utf8(value)[1]) = 3
    BY <2>1, <2>2, SequenceLength, SMT
  <2> QED
    BY <2>3, <2>4, <2>5, SMT
<1>5. CASE value >= 65536
  <2>1. number_to_utf8(value) =
            <<240 + value \div 262144, Trailing(value \div 4096), Trailing(value \div 64),
              Trailing(value)>>
    BY <1>5, SMT DEF number_to_utf8
  <2>2. 240 + value \div 262144 \in 240..244
    BY <1>5, SMT
  <2>3. number_to_utf8(value) \in Seq(Byte) /\ Len(number_to_utf8(value)) = 4
    BY <2>1, <2>2, SMT
  <2>4. CodePointOf(number_to_utf8(value)) = value
    BY <2>1, <2>2, SMT DEF CodePointOf
  <2>5. utf8_sequence_length(number_to_utf8(value)[1]) = 4
    BY <2>1, <2>2, SequenceLength, SMT
  <2> QED
    BY <2>3, <2>4, <2>5, SMT
<1> QED
  BY <1>2, <1>3, <1>4, <1>5, SMT

\* Where a whole sequence stands, it is decoded and nothing else.
LEMMA ReadsSequence ==
    ASSUME NEW data \in Seq(Byte), NEW n \in Nat, NEW s \in Seq(Byte), NEW length \in 1..4,
           data[n + 1] = s[1],
           utf8_sequence_length(s[1]) = length,
           n + length <= Len(data),
           SubSeq(data, n + 1, n + length) = s
    PROVE  read_utf8_number(data, n + 1) = Decoded(s)
<1>1. utf8_sequence_length(data[n + 1]) = length
  OBVIOUS
<1>2. n + 1 <= Len(data) /\ length # 0 /\ n + 1 + length - 1 = n + length
  BY SMT
<1>3. ~(n + 1 > Len(data) \/ utf8_sequence_length(data[n + 1]) = 0)
  BY <1>1, <1>2, SMT
<1>4. ~(n + length > Len(data))
  BY SMT
<1>5. read_utf8_number(data, n + 1) =
          IF n + 1 + utf8_sequence_length(data[n + 1]) - 1 > Len(data) THEN NoNumber
          ELSE Decoded(SubSeq(data, n + 1, n + 1 + utf8_sequence_length(data[n + 1]) - 1))
  BY <1>3, Zenon DEF read_utf8_number
<1>6. read_utf8_number(data, n + 1) = Decoded(SubSeq(data, n + 1, n + length))
  BY <1>1, <1>2, <1>4, <1>5, Zenon
<1> QED
  BY <1>6, Zenon

\* A sequence between others begins, and is found, where it was put.
LEMMA Between ==
    ASSUME NEW before \in Seq(Byte), NEW s \in Seq(Byte), NEW after \in Seq(Byte), s # << >>
    PROVE  /\ before \o s \o after \in Seq(Byte)
           /\ (before \o s \o after)[Len(before) + 1] = s[1]
           /\ Len(before) + Len(s) <= Len(before \o s \o after)
           /\ SubSeq(before \o s \o after, Len(before) + 1, Len(before) + Len(s)) = s
  BY SMT

\* So a sequence whose first byte tells its length is decoded wherever it stands.
LEMMA ReadsBetween ==
    ASSUME NEW before \in Seq(Byte), NEW s \in Seq(Byte), NEW after \in Seq(Byte),
           Len(s) \in 1..4, utf8_sequence_length(s[1]) = Len(s)
    PROVE  read_utf8_number(before \o s \o after, Len(before) + 1) = Decoded(s)
<1>1. s # << >>
  BY SMT
<1>2. Len(before) \in Nat
  BY SMT
<1>3. /\ before \o s \o after \in Seq(Byte)
      /\ (before \o s \o after)[Len(before) + 1] = s[1]
      /\ Len(before) + Len(s) <= Len(before \o s \o after)
      /\ SubSeq(before \o s \o after, Len(before) + 1, Len(before) + Len(s)) = s
  BY <1>1, Between, Zenon
<1> QED
  BY <1>2, <1>3, ReadsSequence, Zenon

\* A number is read back, and only the number, from where it was written.
THEOREM Utf8RoundTrip ==
    ASSUME NEW value \in Nat, IsCodePoint(value),
           NEW before \in Seq(Byte), NEW after \in Seq(Byte)
    PROVE  read_utf8_number(before \o number_to_utf8(value) \o after, Len(before) + 1) = value
<1>1. Decoded(number_to_utf8(value)) = value
  BY Utf8Written, SMT DEF Decoded
<1>2. /\ number_to_utf8(value) \in Seq(Byte)
      /\ Len(number_to_utf8(value)) \in 1..4
      /\ utf8_sequence_length(number_to_utf8(value)[1]) = Len(number_to_utf8(value))
  BY Utf8Written, SMT
<1> QED
  BY <1>1, <1>2, ReadsBetween, Zenon

-----------------------------------------------------------------------------
\* Figures

(* A quotient and a remainder. *)
LEMMA Quotient ==
    ASSUME NEW left \in Nat, NEW speed \in Nat, speed # 0
    PROVE  /\ left \div speed \in Nat
           /\ (left \div speed) * speed <= left
           /\ left < (left \div speed + 1) * speed
<1>1. left \div speed \in Int /\ left \div speed >= 0
  BY SMT
<1>2. (left \div speed) * speed <= left
  BY SMT
<1>3. left < (left \div speed + 1) * speed
  BY SMT
<1> QED BY <1>1, <1>2, <1>3

(* compute_eta (service.py:132-137), for every size and speed: what is     *)
(* left at this speed in whole seconds, never beyond the value that means  *)
(* "unknown".                                                              *)
THEOREM EtaAgrees ==
    ASSUME NEW done \in Nat, NEW size \in Nat, NEW speed \in Nat, done <= size,
           NEW eta, compute_eta(<<speed>>, <<size>>, <<done>>) = <<eta>>
    PROVE  /\ eta \in Nat /\ eta <= NO_ETA
           /\ eta < NO_ETA => eta * speed <= size - done /\ size - done < (eta + 1) * speed
           /\ size = done => eta = 0 \/ speed = 0
<1> DEFINE left == size - done
<1>1. left \in Nat
  BY SMT
<1>2. eta = IF speed = 0 THEN NO_ETA ELSE CappedETA(left, speed)
  BY DEF compute_eta, None
<1>3. CASE speed = 0
  BY <1>2, <1>3 DEF NO_ETA
<1>4. CASE speed # 0
  <2>1. /\ left \div speed \in Nat
        /\ (left \div speed) * speed <= left
        /\ left < (left \div speed + 1) * speed
    BY <1>1, <1>4, Quotient
  <2>2. eta = IF left \div speed < NO_ETA THEN left \div speed ELSE NO_ETA
    BY <1>2, <1>4 DEF CappedETA
  <2>3. size = done => left \div speed = 0
    BY <1>1, <1>4, SMT
  <2> HIDE DEF left
  <2>4. eta \in Nat /\ eta <= NO_ETA /\ (eta < NO_ETA => eta = left \div speed)
    BY <2>1, <2>2 DEF NO_ETA
  <2>5. size = done => eta = 0
    BY <2>2, <2>3 DEF NO_ETA
  <2> QED BY <2>1, <2>4, <2>5 DEF left
<1> QED BY <1>3, <1>4

(* compute_progress (service.py:139-152), for every size: a fraction of at *)
(* most 1, which is 1 for complete files only, and 0 for a file of no      *)
(* size.                                                                   *)
THEOREM ProgressAgrees ==
    ASSUME NEW done \in Nat, NEW size \in Nat, done <= size,
           NEW progress, progress = compute_progress(<<done>>, <<size>>)
    PROVE  /\ progress \in Nat \X (Nat \ {0})
           /\ progress[1] <= progress[2]
           /\ progress[1] = progress[2] <=> size = done /\ size # 0
           /\ progress[1] * size = done * progress[2]
<1>1. CASE size = 0 \/ done = 0
  <2>1. progress = <<0, 1>>
    BY <1>1 DEF compute_progress
  <2> QED BY <1>1, <2>1
<1>2. CASE size # 0 /\ done # 0
  <2>1. progress = <<done, size>>
    BY <1>2 DEF compute_progress, None
  <2> QED BY <1>2, <2>1
<1> QED BY <1>1, <1>2

-----------------------------------------------------------------------------
\* Sequences

(* A set of naturals that is not empty has a least element. *)
LEMMA LeastNatural ==
    ASSUME NEW S \in SUBSET Nat, S # {}
    PROVE  \E n \in S : \A m \in S : n <= m
<1> DEFINE R == StrictSubsetOrdering(Nat)
           T == {1 .. n : n \in S}
<1>1. T \subseteq FiniteSubsetsOf(Nat)
  <2> SUFFICES ASSUME NEW n \in S
               PROVE  1 .. n \in FiniteSubsetsOf(Nat)
    OBVIOUS
  <2>1. IsFiniteSet(1 .. n)
    BY FS_Interval
  <2> QED BY <2>1 DEF FiniteSubsetsOf
<1>2. IsWellFoundedOn(R, FiniteSubsetsOf(Nat))
  BY FS_StrictSubsetOrderingWellFounded
<1>3. PICK x \in T : \A y \in T : ~(<<y, x>> \in R)
  <2> HIDE DEF R, T
  <2>1. \A y : y \in S => 1 .. y \in T
    BY DEF T
  <2> QED BY <1>1, <1>2, <2>1, WFMin
<1>4. PICK n \in S : x = 1 .. n
  OBVIOUS
<1>5. ASSUME NEW m \in S, m < n PROVE FALSE
  <2>1. n \in 1 .. n /\ n \notin 1 .. m
    BY <1>5
  <2>2. 1 .. m \subseteq 1 .. n /\ 1 .. m # 1 .. n
    BY <1>5, <2>1
  <2>3. <<1 .. m, 1 .. n>> \in R
    BY <2>2 DEF StrictSubsetOrdering
  <2> QED BY <1>3, <1>4, <2>3
<1> QED BY <1>5

(* A set of sequences that has the empty one, and with a sequence those    *)
(* that are one element longer, has all.                                   *)
LEMMA SequencesByAppending ==
    ASSUME NEW I, NEW P \in SUBSET Seq(I), <<>> \in P,
           \A s \in P, x \in I : Append(s, x) \in P
    PROVE  P = Seq(I)
<1> DEFINE Bad == {Len(s) : s \in Seq(I) \ P}
<1>1. CASE Bad = {}
  BY <1>1
<1>2. CASE Bad # {}
  <2>1. PICK k \in Bad : \A m \in Bad : k <= m
    <3>1. Bad \in SUBSET Nat
      OBVIOUS
    <3> HIDE DEF Bad
    <3> QED BY <1>2, <3>1, LeastNatural
  <2>2. PICK s \in Seq(I) \ P : k = Len(s)
    OBVIOUS
  <2>3. PICK front \in Seq(I), last \in I : s = Append(front, last)
    BY <2>2, SequenceEmptyOrAppend
  <2>4. front \notin P
    BY <2>2, <2>3
  <2>5. Len(front) \in Bad
    BY <2>4
  <2>6. k = Len(front) + 1 /\ Len(front) \in Nat
    BY <2>2, <2>3, AppendProperties, LenProperties
  <2> HIDE DEF Bad
  <2>7. k <= Len(front)
    BY <2>1, <2>5
  <2> QED BY <2>6, <2>7
<1> QED BY <1>1, <1>2
-----------------------------------------------------------------------------
(* The concatenations of the first sequences of ss, up to the first N. *)
Flattening(f, ss, N) ==
    f = [i \in 1 .. N |-> IF i = 1 THEN ss[i] ELSE f[i - 1] \o ss[i]]

(* The next of them. *)
LEMMA FlatteningAt ==
    ASSUME NEW f, NEW ss, NEW N, Flattening(f, ss, N), NEW i \in 1 .. N
    PROVE  f[i] = IF i = 1 THEN ss[i] ELSE f[i - 1] \o ss[i]
  BY DEF Flattening

(* They exist. *)
LEMMA FlatteningExists ==
    ASSUME NEW ss, NEW N \in Nat
    PROVE  \E f : Flattening(f, ss, N)
<1> DEFINE Bad == {n \in 0 .. N : ~ \E f : Flattening(f, ss, n)}
<1>1. CASE Bad = {}
  <2>1. N \in 0 .. N
    OBVIOUS
  <2> QED BY <1>1, <2>1
<1>2. CASE Bad # {}
  <2>1. PICK k \in Bad : \A m \in Bad : k <= m
    <3>1. Bad \in SUBSET Nat
      OBVIOUS
    <3> HIDE DEF Bad
    <3> QED BY <1>2, <3>1, LeastNatural
  <2>2. k \in 0 .. N /\ ~ \E f : Flattening(f, ss, k)
    OBVIOUS
  <2>3. k # 0
    <3>1. Flattening([i \in 1 .. 0 |-> <<>>], ss, 0)
      BY DEF Flattening
    <3> QED BY <2>2, <3>1
  <2>4. PICK f : Flattening(f, ss, k - 1)
    <3>1. k - 1 \in 0 .. N /\ ~(k <= k - 1)
      BY <2>2, <2>3
    <3> QED BY <2>1, <3>1
  <2> DEFINE step == IF k = 1 THEN ss[k] ELSE f[k - 1] \o ss[k]
             g == [i \in 1 .. k |-> IF i = k THEN step ELSE f[i]]
  <2>5. \A i \in 1 .. k - 1 : f[i] = IF i = 1 THEN ss[i] ELSE f[i - 1] \o ss[i]
    BY <2>4 DEF Flattening
  <2>6. \A i \in 1 .. k : g[i] = IF i = 1 THEN ss[i] ELSE g[i - 1] \o ss[i]
    <3> SUFFICES ASSUME NEW i \in 1 .. k
                 PROVE  g[i] = IF i = 1 THEN ss[i] ELSE g[i - 1] \o ss[i]
      OBVIOUS
    <3>1. CASE i = k /\ i # 1
      <4>1. k - 1 \in 1 .. k /\ k - 1 # k
        BY <2>2, <2>3, <3>1
      <4>2. g[k - 1] = f[k - 1] /\ g[k] = step
        BY <4>1
      <4> QED BY <3>1, <4>2
    <3>2. CASE i # k
      <4>1. i \in 1 .. k - 1 /\ (i # 1 => i - 1 \in 1 .. k /\ i - 1 # k)
        BY <2>2, <3>2
      <4>2. g[i] = f[i] /\ (i # 1 => g[i - 1] = f[i - 1])
        BY <3>2, <4>1
      <4> QED BY <2>5, <4>1, <4>2
    <3>3. CASE i = k /\ i = 1
      BY <3>3
    <3> QED BY <3>1, <3>2, <3>3
  <2>7. g = [i \in 1 .. k |-> g[i]]
    OBVIOUS
  <2>8. Flattening(g, ss, k)
    <3> HIDE DEF g
    <3>1. g = [i \in 1 .. k |-> IF i = 1 THEN ss[i] ELSE g[i - 1] \o ss[i]]
      BY <2>6, <2>7
    <3> QED BY <3>1 DEF Flattening
  <2> QED BY <2>2, <2>8
<1> QED BY <1>1, <1>2

(* FlattenSeq returns the last of them. *)
LEMMA Flattens ==
    ASSUME NEW ss, Len(ss) \in Nat \ {0}
    PROVE  \E f : Flattening(f, ss, Len(ss)) /\ FlattenSeq(ss) = f[Len(ss)]
<1> DEFINE D(f) == [i \in 1 .. Len(ss) |-> IF i = 1 THEN ss[i] ELSE f[i - 1] \o ss[i]]
           c == CHOOSE f : f = D(f)
<1>1. \E f : f = D(f)
  BY FlatteningExists DEF Flattening
<1>2. c = D(c)
  <2> HIDE DEF D
  <2> QED BY <1>1
<1>3. Len(ss) # 0
  OBVIOUS
<1>4. FlattenSeq(ss) = c[Len(ss)]
  BY <1>3, Zenon DEF FlattenSeq
<1>5. Flattening(c, ss, Len(ss))
  BY <1>2, Zenon DEF Flattening
<1> QED BY <1>4, <1>5, Zenon

(* Two that begin alike go on alike. *)
LEMMA FlatteningAgrees ==
    ASSUME NEW N \in Nat, NEW M \in Nat, N <= M, NEW ss, NEW tt, NEW f, NEW g,
           Flattening(f, ss, N), Flattening(g, tt, M),
           \A i \in 1 .. N : ss[i] = tt[i]
    PROVE  \A i \in 1 .. N : f[i] = g[i]
<1> DEFINE Bad == {i \in 1 .. N : f[i] # g[i]}
<1>1. CASE Bad # {}
  <2>1. PICK k \in Bad : \A m \in Bad : k <= m
    <3>1. Bad \in SUBSET Nat
      OBVIOUS
    <3> HIDE DEF Bad
    <3> QED BY <1>1, <3>1, LeastNatural
  <2>2. k \in 1 .. N /\ f[k] # g[k] /\ k \in 1 .. M
    OBVIOUS
  <2>3. /\ f[k] = IF k = 1 THEN ss[k] ELSE f[k - 1] \o ss[k]
        /\ g[k] = IF k = 1 THEN tt[k] ELSE g[k - 1] \o tt[k]
    BY <2>2 DEF Flattening
  <2>4. k # 1 => f[k - 1] = g[k - 1]
    <3>1. k # 1 => k - 1 \in 1 .. N /\ ~(k <= k - 1)
      BY <2>2
    <3> QED BY <2>1, <3>1
  <2> QED BY <2>2, <2>3, <2>4
<1> QED BY <1>1

(* One more sequence is one more concatenation. *)
LEMMA FlattenAppend ==
    ASSUME NEW I, NEW ss \in Seq(Seq(I)), NEW s \in Seq(I)
    PROVE  FlattenSeq(Append(ss, s)) = FlattenSeq(ss) \o s
<1> DEFINE tt == Append(ss, s)
           N == Len(ss)
           M == Len(tt)
<1>1. /\ N \in Nat /\ M \in Nat \ {0} /\ M = N + 1 /\ M - 1 = N /\ N <= M
      /\ M \in 1 .. M /\ (N # 0 => N \in 1 .. N) /\ (N = 0 <=> M = 1)
      /\ tt[M] = s
      /\ \A i \in 1 .. N : ss[i] = tt[i]
  OBVIOUS
<1>2. N = 0 => ss = <<>>
  OBVIOUS
<1> HIDE DEF tt, N, M
<1>3. PICK g : Flattening(g, tt, M) /\ FlattenSeq(tt) = g[M]
  BY <1>1, Flattens DEF M
<1>4. g[M] = IF M = 1 THEN tt[M] ELSE g[M - 1] \o tt[M]
  BY <1>1, <1>3, FlatteningAt
<1>5. CASE N = 0
  <2>1. FlattenSeq(ss) = <<>>
    BY <1>2, <1>5, Zenon DEF FlattenSeq, N
  <2>2. <<>> \o s = s
    OBVIOUS
  <2> QED BY <1>1, <1>3, <1>4, <1>5, <2>1, <2>2 DEF tt
<1>6. CASE N # 0
  <2>1. PICK f : Flattening(f, ss, N) /\ FlattenSeq(ss) = f[N]
    BY <1>1, <1>6, Flattens DEF N
  <2>2. f[N] = g[N]
    <3>1. \A i \in 1 .. N : f[i] = g[i]
      BY <1>1, <1>3, <2>1, FlatteningAgrees
    <3> QED BY <1>1, <1>6, <3>1
  <2>3. FlattenSeq(tt) = g[N] \o s
    BY <1>1, <1>3, <1>4, <1>6
  <2> QED BY <2>1, <2>2, <2>3 DEF tt
<1> QED BY <1>5, <1>6

(* Flattening nothing, one sequence, any sequences. *)
LEMMA FlattenFacts ==
    ASSUME NEW I
    PROVE  /\ FlattenSeq(<<>>) = <<>>
           /\ \A s \in Seq(I) : FlattenSeq(<<s>>) = s
           /\ \A ss \in Seq(Seq(I)) : FlattenSeq(ss) \in Seq(I)
<1>1. FlattenSeq(<<>>) = <<>>
  <2>1. Len(<<>>) = 0
    OBVIOUS
  <2> QED BY <2>1, Zenon DEF FlattenSeq
<1>2. ASSUME NEW s \in Seq(I) PROVE FlattenSeq(<<s>>) = s
  <2>1. Append(<<>>, s) = <<s>> /\ <<>> \in Seq(Seq(I)) /\ <<>> \o s = s
    OBVIOUS
  <2>2. FlattenSeq(Append(<<>>, s)) = FlattenSeq(<<>>) \o s
    BY <2>1, FlattenAppend
  <2> QED BY <1>1, <2>1, <2>2
<1> DEFINE P == {ss \in Seq(Seq(I)) : FlattenSeq(ss) \in Seq(I)}
<1>3. P = Seq(Seq(I))
  <2>1. P \in SUBSET Seq(Seq(I)) /\ <<>> \in P
    <3>1. <<>> \in Seq(Seq(I)) /\ <<>> \in Seq(I)
      OBVIOUS
    <3> QED BY <1>1, <3>1
  <2>2. ASSUME NEW ss \in P, NEW s \in Seq(I) PROVE Append(ss, s) \in P
    <3>1. ss \in Seq(Seq(I)) /\ FlattenSeq(ss) \in Seq(I)
      OBVIOUS
    <3>2. Append(ss, s) \in Seq(Seq(I)) /\ FlattenSeq(ss) \o s \in Seq(I)
      BY <3>1
    <3> QED BY <3>1, <3>2, FlattenAppend
  <2> HIDE DEF P
  <2> QED BY <2>1, <2>2, SequencesByAppending
<1> QED BY <1>1, <1>2, <1>3
-----------------------------------------------------------------------------
(* The links of a list of items, and its items with a link that is not in  *)
(* L, the first of each.                                                   *)
Links(s) == {s[i].url : i \in DOMAIN s}

Piece(L, s, i) ==
    IF s[i].url \in L \/ \E j \in 1 .. i - 1 : s[j].url = s[i].url THEN <<>> ELSE <<s[i]>>

Pieces(L, s) == [i \in DOMAIN s |-> Piece(L, s, i)]

New(L, s) == FlattenSeq(Pieces(L, s))

Novelty(L, s, x) == IF x.url \in L \cup Links(s) THEN <<>> ELSE <<x>>

(* Deduplicated leaves out nothing but repetitions. *)
LEMMA DeduplicatedIsNew ==
    ASSUME NEW s
    PROVE  Deduplicated(s) = New({}, s)
  BY DEF Deduplicated, New, Pieces, Piece

(* The pieces of a list are sequences. *)
LEMMA PiecesType ==
    ASSUME NEW I, NEW s \in Seq(I), NEW L
    PROVE  Pieces(L, s) \in Seq(Seq(I)) /\ Len(Pieces(L, s)) = Len(s)
<1>1. Len(s) \in Nat /\ DOMAIN s = 1 .. Len(s) /\ \A i \in 1 .. Len(s) : s[i] \in I
  BY LenProperties, ElementOfSeq
<1>2. \A i \in 1 .. Len(s) : Piece(L, s, i) \in Seq(I)
  BY <1>1 DEF Piece
<1>3. Pieces(L, s) \in [1 .. Len(s) -> Seq(I)]
  BY <1>1, <1>2 DEF Pieces
<1> QED BY <1>1, <1>3

(* One item more: it comes last, if its link is new. *)
LEMMA NewAppend ==
    ASSUME NEW I, NEW s \in Seq(I), NEW x \in I, NEW L
    PROVE  /\ New(L, Append(s, x)) = New(L, s) \o Novelty(L, s, x)
           /\ Novelty(L, s, x) \in Seq(I)
<1> DEFINE t == Append(s, x)
           y == Novelty(L, s, x)
<1>1. /\ Len(s) \in Nat /\ DOMAIN s = 1 .. Len(s) /\ t \in Seq(I)
      /\ DOMAIN t = 1 .. Len(s) + 1 /\ Len(t) = Len(s) + 1 /\ t[Len(s) + 1] = x
      /\ \A i \in 1 .. Len(s) : t[i] = s[i]
  BY LenProperties, AppendProperties
<1>2. y \in Seq(I)
  BY DEF Novelty
<1>3. \A i \in 1 .. Len(s) : Pieces(L, t)[i] = Pieces(L, s)[i]
  <2> SUFFICES ASSUME NEW i \in 1 .. Len(s)
               PROVE  Pieces(L, t)[i] = Pieces(L, s)[i]
    OBVIOUS
  <2>1. i \in DOMAIN s /\ i \in DOMAIN t /\ t[i] = s[i]
    BY <1>1
  <2>2. \A j \in 1 .. i - 1 : t[j] = s[j]
    BY <1>1
  <2> HIDE DEF t
  <2>3. Piece(L, t, i) = Piece(L, s, i)
    BY <2>1, <2>2 DEF Piece
  <2> QED BY <2>1, <2>3 DEF Pieces
<1>4. Pieces(L, t)[Len(s) + 1] = y
  <2> DEFINE n == Len(s) + 1
  <2>1. n \in DOMAIN t /\ t[n] = x /\ n - 1 = Len(s)
    BY <1>1
  <2>2. Links(s) = {t[j].url : j \in 1 .. n - 1}
    BY <1>1, <2>1 DEF Links
  <2> HIDE DEF n, t
  <2>3. Pieces(L, t)[n] = Piece(L, t, n)
    BY <2>1 DEF Pieces
  <2>4. Piece(L, t, n) = y
    BY <2>1, <2>2 DEF Piece, Novelty
  <2> QED BY <2>3, <2>4 DEF n
<1>5. Pieces(L, t) = Append(Pieces(L, s), y)
  <2> DEFINE p == Pieces(L, s)
             q == Pieces(L, t)
  <2>1. p \in Seq(Seq(I)) /\ Len(p) = Len(s) /\ q \in Seq(Seq(I)) /\ Len(q) = Len(s) + 1
    BY <1>1, PiecesType
  <2>2. /\ Append(p, y) \in Seq(Seq(I)) /\ Len(Append(p, y)) = Len(p) + 1
        /\ \A i \in 1 .. Len(p) : Append(p, y)[i] = p[i]
        /\ Append(p, y)[Len(p) + 1] = y
    BY <1>2, <2>1, AppendProperties
  <2>3. \A i \in 1 .. Len(q) : q[i] = Append(p, y)[i]
    BY <1>1, <1>3, <1>4, <2>1, <2>2
  <2> HIDE DEF p, q, y
  <2> QED BY <2>1, <2>2, <2>3, SeqEqual DEF p, q
<1>6. FlattenSeq(Append(Pieces(L, s), y)) = FlattenSeq(Pieces(L, s)) \o y
  BY <1>2, PiecesType, FlattenAppend
<1> QED BY <1>2, <1>5, <1>6 DEF New

(* The links of longer lists. *)
LEMMA LinksFacts ==
    ASSUME NEW I
    PROVE  /\ Links(<<>>) = {}
           /\ \A s \in Seq(I), t \in Seq(I) : Links(s \o t) = Links(s) \cup Links(t)
           /\ \A s \in Seq(I), x \in I : Links(Append(s, x)) = Links(s) \cup {x.url}
<1>1. Links(<<>>) = {}
  BY DEF Links
<1>2. ASSUME NEW s \in Seq(I), NEW t \in Seq(I)
      PROVE  Links(s \o t) = Links(s) \cup Links(t)
  <2>1. \A r \in Seq(I) : Links(r) = {x.url : x \in Range(r)}
    BY DEF Links, Range
  <2>2. s \o t \in Seq(I) /\ Range(s \o t) = Range(s) \cup Range(t)
    BY ConcatProperties, RangeConcatenation
  <2>3. Links(s \o t) = {x.url : x \in Range(s) \cup Range(t)}
    BY <2>1, <2>2
  <2>4. Links(s) = {x.url : x \in Range(s)} /\ Links(t) = {x.url : x \in Range(t)}
    BY <2>1
  <2> HIDE DEF Links
  <2> QED BY <2>3, <2>4
<1>3. ASSUME NEW s \in Seq(I), NEW x \in I
      PROVE  Links(Append(s, x)) = Links(s) \cup {x.url}
  <2>1. Append(s, x) = s \o <<x>> /\ <<x>> \in Seq(I)
    BY AppendIsConcat
  <2>2. Links(<<x>>) = {x.url}
    BY DEF Links
  <2> QED BY <1>2, <2>1, <2>2
<1> QED BY <1>1, <1>2, <1>3

(* What is new are items, with the links that are not in L. *)
LEMMA NewFacts ==
    ASSUME NEW I, NEW L, NEW r \in Seq(I)
    PROVE  /\ New(L, <<>>) = <<>>
           /\ New(L, r) \in Seq(I)
           /\ Links(New(L, r)) = Links(r) \ L
<1>1. New(L, <<>>) = <<>>
  <2>1. Pieces(L, <<>>) = <<>>
    BY DEF Pieces
  <2> QED BY <2>1, FlattenFacts DEF New
<1> DEFINE P == {s \in Seq(I) : New(L, s) \in Seq(I) /\ Links(New(L, s)) = Links(s) \ L}
<1>2. P = Seq(I)
  <2>1. P \in SUBSET Seq(I) /\ <<>> \in P
    BY <1>1, LinksFacts, EmptySeq
  <2>2. ASSUME NEW s \in P, NEW x \in I PROVE Append(s, x) \in P
    <3>1. s \in Seq(I) /\ New(L, s) \in Seq(I) /\ Links(New(L, s)) = Links(s) \ L
      OBVIOUS
    <3>2. New(L, Append(s, x)) = New(L, s) \o Novelty(L, s, x) /\ Novelty(L, s, x) \in Seq(I)
      BY <3>1, NewAppend
    <3>3. Append(s, x) \in Seq(I) /\ New(L, s) \o Novelty(L, s, x) \in Seq(I)
      BY <3>1, <3>2, AppendProperties, ConcatProperties
    <3>4. Links(Append(s, x)) = Links(s) \cup {x.url}
      BY <3>1, LinksFacts
    <3>5. Links(New(L, Append(s, x))) = (Links(s) \ L) \cup Links(Novelty(L, s, x))
      BY <3>1, <3>2, LinksFacts
    <3>6. Links(Novelty(L, s, x)) = IF x.url \in L \cup Links(s) THEN {} ELSE {x.url}
      <4>1. Links(<<x>>) = {x.url} /\ Links(<<>>) = {}
        BY DEF Links
      <4> QED BY <4>1 DEF Novelty
    <3>7. Links(New(L, Append(s, x))) = Links(Append(s, x)) \ L
      BY <3>4, <3>5, <3>6
    <3> QED BY <3>2, <3>3, <3>7
  <2> HIDE DEF P
  <2> QED BY <2>1, <2>2, SequencesByAppending
<1> QED BY <1>1, <1>2

(* Concatenation by a name of its own, which no prover takes apart. *)
Cat(s, t) == s \o t

(* Concatenations are sequences and may be regrouped. *)
LEMMA Concatenations ==
    ASSUME NEW I, NEW a \in Seq(I), NEW b \in Seq(I), NEW c \in Seq(I)
    PROVE  /\ Cat(a, b) \in Seq(I)
           /\ Cat(Cat(a, b), c) = Cat(a, Cat(b, c))
<1>1. a \o b \in Seq(I)
  BY ConcatProperties
<1>2. (a \o b) \o c = a \o (b \o c)
  BY ConcatAssociative
<1> QED BY <1>1, <1>2, Zenon DEF Cat

(* A list that is merged with another goes before what is new of it. *)
LEMMA NewConcat ==
    ASSUME NEW I, NEW L, NEW s \in Seq(I), NEW t \in Seq(I),
           NEW M, M = L \cup Links(s)
    PROVE  New(L, Cat(s, t)) = Cat(New(L, s), New(M, t))
<1> DEFINE P == {r \in Seq(I) : New(L, Cat(s, r)) = Cat(New(L, s), New(M, r))}
<1>1. P \in SUBSET Seq(I) /\ <<>> \in P
  <2>1. <<>> \in Seq(I) /\ s \o <<>> = s
    BY EmptySeq, ConcatEmptySeq
  <2>2. New(L, s) \in Seq(I) /\ New(M, <<>>) = <<>>
    BY NewFacts
  <2>3. New(L, s) \o <<>> = New(L, s)
    BY <2>2, ConcatEmptySeq
  <2> QED BY <2>1, <2>2, <2>3 DEF Cat
<1>2. ASSUME NEW r \in P, NEW x \in I PROVE Append(r, x) \in P
  <2>1. r \in Seq(I) /\ New(L, Cat(s, r)) = Cat(New(L, s), New(M, r))
    OBVIOUS
  <2> DEFINE y == Novelty(M, r, x)
  <2> HIDE DEF P
  <2>2. New(M, Append(r, x)) = New(M, r) \o y /\ y \in Seq(I) /\ New(M, r) \in Seq(I)
    <3>1. New(M, r) \in Seq(I)
      BY <2>1, NewFacts
    <3>2. New(M, Append(r, x)) = New(M, r) \o y /\ y \in Seq(I)
      BY <2>1, NewAppend
    <3> QED BY <3>1, <3>2
  <2>3. s \o r \in Seq(I) /\ Append(r, x) \in Seq(I) /\ Append(s \o r, x) = s \o Append(r, x)
    <3>1. s \o r \in Seq(I) /\ Append(r, x) \in Seq(I) /\ <<x>> \in Seq(I)
      BY <2>1, ConcatProperties, AppendProperties
    <3>2. Append(s \o r, x) = (s \o r) \o <<x>> /\ Append(r, x) = r \o <<x>>
      BY <2>1, <3>1, AppendIsConcat
    <3> QED BY <2>1, <3>1, <3>2, ConcatAssociative, SMTT(40)
  <2>4. New(L, Append(s \o r, x)) = New(L, s \o r) \o Novelty(L, s \o r, x)
    BY <2>3, NewAppend
  <2>5. Novelty(L, s \o r, x) = y
    <3>1. L \cup Links(s \o r) = M \cup Links(r)
      BY <2>1, LinksFacts
    <3> QED BY <3>1 DEF Novelty
  <2>6. New(L, s) \in Seq(I)
    BY NewFacts
  <2> HIDE DEF y
  <2>7. New(L, Cat(s, Append(r, x))) = Cat(New(L, Cat(s, r)), y)
    BY <2>3, <2>4, <2>5 DEF Cat
  <2>8. New(M, Append(r, x)) = Cat(New(M, r), y)
    BY <2>2 DEF Cat
  <2>9. Cat(Cat(New(L, s), New(M, r)), y) = Cat(New(L, s), Cat(New(M, r), y))
    BY <2>2, <2>6, Concatenations
  <2> QED BY <2>1, <2>3, <2>7, <2>8, <2>9 DEF P
<1> HIDE DEF P
<1>3. P = Seq(I)
  BY <1>1, <1>2, SequencesByAppending
<1> QED BY <1>3 DEF P

(* So does a list that is deduplicated with another. *)
LEMMA DeduplicatedConcat ==
    ASSUME NEW I, NEW s \in Seq(I), NEW t \in Seq(I)
    PROVE  New({}, Cat(s, t)) = Cat(New({}, s), New(Links(s), t))
<1>1. Links(s) = {} \cup Links(s)
  OBVIOUS
<1> QED BY <1>1, NewConcat

(* A list that repeats no link, and one item more. *)
LEMMA NoLinkTwiceAppend ==
    ASSUME NEW I, NEW s \in Seq(I), NEW x \in I
    PROVE  NoLinkTwice(Append(s, x)) <=> NoLinkTwice(s) /\ x.url \notin Links(s)
<1> DEFINE t == Append(s, x)
           n == Len(s) + 1
<1>1. /\ Len(s) \in Nat /\ DOMAIN s = 1 .. Len(s) /\ DOMAIN t = 1 .. n /\ t[n] = x
      /\ \A i \in 1 .. Len(s) : t[i] = s[i]
      /\ 1 .. n = 1 .. Len(s) \cup {n} /\ n \notin 1 .. Len(s)
  BY LenProperties, AppendProperties
<1> HIDE DEF t, n
<1>2. Links(s) = {s[i].url : i \in 1 .. Len(s)}
  BY <1>1 DEF Links
<1> QED BY <1>1, <1>2 DEF NoLinkTwice, t

(* What is new repeats no link. *)
LEMMA NewTwice ==
    ASSUME NEW I, NEW L, NEW s \in Seq(I)
    PROVE  NoLinkTwice(New(L, s))
<1> DEFINE P == {r \in Seq(I) : NoLinkTwice(New(L, r))}
<1>1. P \in SUBSET Seq(I) /\ <<>> \in P
  <2>1. <<>> \in Seq(I) /\ New(L, <<>>) = <<>>
    BY NewFacts, EmptySeq
  <2>2. NoLinkTwice(<<>>)
    BY DEF NoLinkTwice
  <2> QED BY <2>1, <2>2
<1>2. ASSUME NEW r \in P, NEW x \in I PROVE Append(r, x) \in P
  <2>1. r \in Seq(I) /\ NoLinkTwice(New(L, r)) /\ Append(r, x) \in Seq(I)
    BY AppendProperties
  <2>2. New(L, Append(r, x)) = New(L, r) \o Novelty(L, r, x)
    BY <2>1, NewAppend
  <2>3. New(L, r) \in Seq(I) /\ Links(New(L, r)) = Links(r) \ L
    BY <2>1, NewFacts
  <2>4. CASE x.url \in L \cup Links(r)
    <3>1. New(L, Append(r, x)) = New(L, r)
      BY <2>2, <2>3, <2>4, ConcatEmptySeq DEF Novelty
    <3> QED BY <2>1, <3>1
  <2>5. CASE x.url \notin L \cup Links(r)
    <3>1. New(L, Append(r, x)) = Append(New(L, r), x)
      BY <2>2, <2>3, <2>5, AppendIsConcat DEF Novelty
    <3>2. NoLinkTwice(Append(New(L, r), x))
      BY <2>1, <2>3, <2>5, NoLinkTwiceAppend
    <3> QED BY <2>1, <3>1, <3>2
  <2> QED BY <2>4, <2>5
<1> HIDE DEF P
<1>3. P = Seq(I)
  BY <1>1, <1>2, SequencesByAppending
<1> QED BY <1>3 DEF P

(* To deduplicate what is deduplicated changes nothing, nor does to        *)
(* deduplicate a list before it is merged.                                 *)
LEMMA NewOfDeduplicated ==
    ASSUME NEW I, NEW L, NEW s \in Seq(I)
    PROVE  /\ New(L, New({}, s)) = New(L, s)
           /\ NoLinkTwice(s) => New({}, s) = s
<1> DEFINE P == {r \in Seq(I) : New(L, New({}, r)) = New(L, r)}
           Q == {r \in Seq(I) : NoLinkTwice(r) => New({}, r) = r}
<1>1. P \in SUBSET Seq(I) /\ <<>> \in P /\ Q \in SUBSET Seq(I) /\ <<>> \in Q
  BY NewFacts, EmptySeq
<1>2. ASSUME NEW r \in Seq(I), NEW x \in I
      PROVE  /\ x.url \in Links(r) => New({}, Append(r, x)) = New({}, r)
             /\ x.url \notin Links(r) => New({}, Append(r, x)) = Append(New({}, r), x)
  <2>1. New({}, Append(r, x)) = New({}, r) \o Novelty({}, r, x) /\ New({}, r) \in Seq(I)
    BY NewAppend, NewFacts
  <2>2. New({}, r) \o <<>> = New({}, r) /\ New({}, r) \o <<x>> = Append(New({}, r), x)
    BY <2>1, ConcatEmptySeq, AppendIsConcat
  <2> QED BY <2>1, <2>2 DEF Novelty
<1>3. ASSUME NEW r \in P, NEW x \in I PROVE Append(r, x) \in P
  <2>1. r \in Seq(I) /\ New(L, New({}, r)) = New(L, r) /\ Append(r, x) \in Seq(I)
    BY AppendProperties
  <2> HIDE DEF P
  <2>2. New(L, Append(r, x)) = New(L, r) \o Novelty(L, r, x) /\ New(L, r) \in Seq(I)
    BY <2>1, NewAppend, NewFacts
  <2>3. CASE x.url \in Links(r)
    <3>1. New(L, Append(r, x)) = New(L, r)
      BY <2>2, <2>3, ConcatEmptySeq DEF Novelty
    <3> QED BY <1>2, <2>1, <2>3, <3>1 DEF P
  <2>4. CASE x.url \notin Links(r)
    <3>1. New({}, r) \in Seq(I) /\ Links(New({}, r)) = Links(r)
      <4>1. New({}, r) \in Seq(I) /\ Links(New({}, r)) = Links(r) \ {}
        BY <2>1, NewFacts
      <4> QED BY <4>1
    <3>2. New(L, Append(New({}, r), x)) = New(L, New({}, r)) \o Novelty(L, New({}, r), x)
      BY <3>1, NewAppend
    <3>3. Novelty(L, New({}, r), x) = Novelty(L, r, x)
      BY <3>1 DEF Novelty
    <3>4. New(L, New({}, Append(r, x))) = New(L, Append(r, x))
      BY <1>2, <2>1, <2>2, <2>4, <3>2, <3>3
    <3> QED BY <2>1, <3>4 DEF P
  <2> QED BY <2>3, <2>4
<1>4. ASSUME NEW r \in Q, NEW x \in I PROVE Append(r, x) \in Q
  <2>1. r \in Seq(I) /\ (NoLinkTwice(r) => New({}, r) = r) /\ Append(r, x) \in Seq(I)
    BY AppendProperties
  <2>2. NoLinkTwice(Append(r, x)) => NoLinkTwice(r) /\ x.url \notin Links(r)
    BY <2>1, NoLinkTwiceAppend
  <2>3. NoLinkTwice(Append(r, x)) => New({}, Append(r, x)) = Append(r, x)
    BY <1>2, <2>1, <2>2
  <2> QED BY <2>1, <2>3
<1> HIDE DEF P, Q
<1>5. P = Seq(I)
  BY <1>1, <1>3, SequencesByAppending
<1>6. Q = Seq(I)
  BY <1>1, <1>4, SequencesByAppending
<1> QED BY <1>5, <1>6 DEF P, Q
-----------------------------------------------------------------------------
(* The first n of a list. *)
Top(n, s) == Slice(s, 0, n)

Least(m, n) == IF m < n THEN m ELSE n

(* They are as many as asked for, or the list is shorter. *)
LEMMA TopFacts ==
    ASSUME NEW I, NEW s \in Seq(I), NEW n \in Nat
    PROVE  /\ Top(n, s) \in Seq(I)
           /\ Len(Top(n, s)) = Least(n, Len(s))
           /\ \A i \in 1 .. Least(n, Len(s)) : Top(n, s)[i] = s[i]
           /\ Len(s) <= n => Top(n, s) = s
<1> DEFINE m == Least(n, Len(s))
<1>1. Len(s) \in Nat /\ \A i \in 1 .. Len(s) : s[i] \in I
  BY LenProperties, ElementOfSeq
<1>2. m \in Nat /\ m <= Len(s) /\ (Len(s) <= n => m = Len(s))
  BY <1>1 DEF Least
<1>3. Top(n, s) = SubSeq(s, 1, m)
  <2>1. 0 + 1 = 1 /\ 0 + n = n
    OBVIOUS
  <2> QED BY <2>1 DEF Top, Slice, Least
<1> HIDE DEF m
<1>4. \A i \in 1 .. m : s[i] \in I
  BY <1>1, <1>2
<1>5. /\ SubSeq(s, 1, m) \in Seq(I) /\ Len(SubSeq(s, 1, m)) = m
      /\ \A i \in 1 .. m : SubSeq(s, 1, m)[i] = s[i]
  <2>1. /\ SubSeq(s, 1, m) \in Seq(I)
        /\ Len(SubSeq(s, 1, m)) = IF 1 <= m THEN m - 1 + 1 ELSE 0
        /\ \A i \in 1 .. m - 1 + 1 : SubSeq(s, 1, m)[i] = s[1 + i - 1]
    BY <1>2, <1>4, SubSeqProperties
  <2> QED BY <1>2, <2>1
<1>6. SubSeq(s, 1, Len(s)) = s
  BY SubSeqFull
<1> QED BY <1>2, <1>3, <1>5, <1>6 DEF m

(* There are none in the empty list. *)
LEMMA TopOfNone ==
    ASSUME NEW n \in Nat
    PROVE  Top(n, <<>>) = <<>>
<1>1. <<>> \in Seq({}) /\ Len(<<>>) <= n
  BY EmptySeq
<1>2. \A s \in Seq({}) : Len(s) <= n => Top(n, s) = s
  BY TopFacts
<1> QED BY <1>1, <1>2

(* What comes after the first n does not change them. *)
LEMMA TopOfConcat ==
    ASSUME NEW I, NEW s \in Seq(I), NEW t \in Seq(I), NEW n \in Nat, n <= Len(s)
    PROVE  Top(n, s \o t) = Top(n, s)
<1>1. /\ Len(s) \in Nat /\ Len(t) \in Nat /\ s \o t \in Seq(I)
      /\ Len(s \o t) = Len(s) + Len(t)
      /\ \A i \in 1 .. Len(s) + Len(t) :
             (s \o t)[i] = IF i <= Len(s) THEN s[i] ELSE t[i - Len(s)]
  BY LenProperties, ConcatProperties
<1>2. Least(n, Len(s)) = n /\ Least(n, Len(s \o t)) = n
  BY <1>1 DEF Least
<1>3. /\ Top(n, s) \in Seq(I) /\ Len(Top(n, s)) = n
      /\ \A i \in 1 .. n : Top(n, s)[i] = s[i]
  BY <1>2, TopFacts
<1>4. /\ Top(n, s \o t) \in Seq(I) /\ Len(Top(n, s \o t)) = n
      /\ \A i \in 1 .. n : Top(n, s \o t)[i] = (s \o t)[i]
  BY <1>1, <1>2, TopFacts
<1>5. \A i \in 1 .. n : (s \o t)[i] = s[i]
  BY <1>1
<1>6. \A i \in 1 .. n : Top(n, s \o t)[i] = Top(n, s)[i]
  BY <1>3, <1>4, <1>5, SMTT(40)
<1> DEFINE p == Top(n, s \o t)
           q == Top(n, s)
<1> HIDE DEF p, q
<1>7. p = q
  BY <1>3, <1>4, <1>6, SeqEqual DEF p, q
<1> QED BY <1>7 DEF p, q

(* The rest of a longer list. *)
LEMMA TopAndRest ==
    ASSUME NEW I, NEW s \in Seq(I), NEW n \in Nat, n < Len(s)
    PROVE  \E r \in Seq(I) : s = Top(n, s) \o r
<1>1. Len(s) \in Nat /\ \A i \in 1 .. Len(s) : s[i] \in I
  BY LenProperties, ElementOfSeq
<1>2. Top(n, s) = SubSeq(s, 1, n)
  <2>1. 0 + 1 = 1 /\ 0 + n = n
    OBVIOUS
  <2> QED BY <2>1 DEF Top, Slice
<1>3. 1 \in 1 .. Len(s) + 1 /\ n \in 1 - 1 .. Len(s) /\ Len(s) \in n .. Len(s)
  BY <1>1
<1>4. SubSeq(s, 1, n) \o SubSeq(s, n + 1, Len(s)) = SubSeq(s, 1, Len(s))
  BY <1>3, ConcatAdjacentSubSeq
<1>5. SubSeq(s, 1, Len(s)) = s
  BY SubSeqFull
<1>6. SubSeq(s, n + 1, Len(s)) \in Seq(I)
  <2>1. \A i \in n + 1 .. Len(s) : s[i] \in I
    BY <1>1
  <2> QED BY <1>1, <2>1, SubSeqProperties
<1> QED BY <1>2, <1>4, <1>5, <1>6

(* A page is the same in lists with the same beginning. *)
LEMMA PageOfTop ==
    ASSUME NEW I, NEW s \in Seq(I), NEW t \in Seq(I), NEW offset \in Nat, NEW limit \in Nat,
           Top(offset + limit, s) = Top(offset + limit, t)
    PROVE  Slice(s, offset, limit) = Slice(t, offset, limit)
<1> DEFINE n == offset + limit
           m == Least(n, Len(s))
<1>1. n \in Nat /\ Len(s) \in Nat /\ Len(t) \in Nat
  BY LenProperties
<1>2. /\ Len(Top(n, s)) = Least(n, Len(s)) /\ Len(Top(n, t)) = Least(n, Len(t))
      /\ \A i \in 1 .. Least(n, Len(s)) : Top(n, s)[i] = s[i]
      /\ \A i \in 1 .. Least(n, Len(t)) : Top(n, t)[i] = t[i]
  BY <1>1, TopFacts
<1>3. /\ Least(n, Len(t)) = m /\ m \in Nat /\ m <= Len(s) /\ m <= Len(t)
      /\ \A i \in 1 .. m : s[i] = t[i]
  BY <1>1, <1>2 DEF Least
<1>4. /\ Slice(s, offset, limit) = SubSeq(s, offset + 1, m)
      /\ Slice(t, offset, limit) = SubSeq(t, offset + 1, m)
  BY <1>3 DEF Slice, Least
<1> HIDE DEF m
<1> DEFINE p == SubSeq(s, offset + 1, m)
           q == SubSeq(t, offset + 1, m)
           k == IF offset + 1 <= m THEN m - (offset + 1) + 1 ELSE 0
<1>5. \A i \in offset + 1 .. m : s[i] \in I /\ t[i] \in I
  <2>1. \A i \in offset + 1 .. m : i \in 1 .. Len(s) /\ i \in 1 .. Len(t)
    BY <1>1, <1>3
  <2> QED BY <2>1, ElementOfSeq
<1>6. /\ p \in Seq(I) /\ Len(p) = k
      /\ \A i \in 1 .. m - (offset + 1) + 1 : p[i] = s[offset + 1 + i - 1]
  BY <1>3, <1>5, SubSeqProperties
<1>7. /\ q \in Seq(I) /\ Len(q) = k
      /\ \A i \in 1 .. m - (offset + 1) + 1 : q[i] = t[offset + 1 + i - 1]
  BY <1>3, <1>5, SubSeqProperties
<1>8. \A i \in 1 .. k : p[i] = q[i]
  <2> SUFFICES ASSUME NEW i \in 1 .. k
               PROVE  p[i] = q[i]
    OBVIOUS
  <2>1. i \in 1 .. m - (offset + 1) + 1 /\ offset + 1 + i - 1 \in 1 .. m
    BY <1>3
  <2> HIDE DEF p, q, k
  <2> QED BY <1>3, <1>6, <1>7, <2>1
<1> HIDE DEF p, q, k
<1>9. p = q
  BY <1>6, <1>7, <1>8, SeqEqual
<1> QED BY <1>4, <1>9 DEF p, q

(* A list without repetitions is not longer than one with all its links. *)
LEMMA NotLonger ==
    ASSUME NEW I, NEW s \in Seq(I), NEW t \in Seq(I), NoLinkTwice(s), Links(s) \subseteq Links(t)
    PROVE  Len(s) <= Len(t)
<1> DEFINE f == [i \in 1 .. Len(s) |-> CHOOSE j \in 1 .. Len(t) : t[j].url = s[i].url]
<1>1. Len(s) \in Nat /\ Len(t) \in Nat /\ DOMAIN s = 1 .. Len(s) /\ DOMAIN t = 1 .. Len(t)
  BY LenProperties
<1>2. \A i \in 1 .. Len(s) : \E j \in 1 .. Len(t) : t[j].url = s[i].url
  BY <1>1 DEF Links
<1>3. \A i \in 1 .. Len(s) : f[i] \in 1 .. Len(t) /\ t[f[i]].url = s[i].url
  BY <1>2
<1>4. f \in Injection(1 .. Len(s), 1 .. Len(t))
  <2>1. f \in [1 .. Len(s) -> 1 .. Len(t)]
    BY <1>3
  <2> HIDE DEF f
  <2>2. \A i, j \in 1 .. Len(s) : f[i] = f[j] => i = j
    BY <1>1, <1>3 DEF NoLinkTwice
  <2> QED BY <2>1, <2>2 DEF Injection, IsInjective
<1>5. /\ IsFiniteSet(1 .. Len(s)) /\ Cardinality(1 .. Len(s)) = Len(s)
      /\ IsFiniteSet(1 .. Len(t)) /\ Cardinality(1 .. Len(t)) = Len(t)
  <2>1. \A n \in Nat : IsFiniteSet(1 .. n) /\ Cardinality(1 .. n) = n
    <3>1. \A n \in Nat : (1 > n => n = 0) /\ n - 1 + 1 = n
      OBVIOUS
    <3> QED BY <3>1, FS_Interval
  <2> QED BY <1>1, <2>1
<1> HIDE DEF f
<1>6. Cardinality(1 .. Len(s)) <= Cardinality(1 .. Len(t))
  BY <1>4, <1>5, FS_Injection
<1> QED BY <1>5, <1>6
-----------------------------------------------------------------------------
(* The first n of a merge need the first n of its last list only: without  *)
(* repetitions they are n links, and no more are needed.                   *)
LEMMA MergeNeedsTop ==
    ASSUME NEW I, NEW f \in Seq(I), NEW g \in Seq(I), NEW s \in Seq(I), NEW n \in Nat,
           NoLinkTwice(s), Top(n, New({}, f)) = Top(n, New({}, g))
    PROVE  Top(n, New({}, f \o s)) = Top(n, New({}, g \o Top(n, s)))
<1> DEFINE a == New({}, f)
           b == New({}, g)
           c == Top(n, s)
<1>1. /\ a \in Seq(I) /\ Links(a) = Links(f) /\ b \in Seq(I) /\ Links(b) = Links(g)
      /\ Len(a) \in Nat /\ Len(b) \in Nat /\ Len(s) \in Nat
  <2>1. a \in Seq(I) /\ Links(a) = Links(f) \ {} /\ b \in Seq(I) /\ Links(b) = Links(g) \ {}
    BY NewFacts
  <2> HIDE DEF a, b
  <2> QED BY <2>1, LenProperties
<1>2. /\ c \in Seq(I) /\ Len(c) = Least(n, Len(s)) /\ (Len(s) <= n => c = s)
  BY TopFacts
<1>3. /\ New({}, Cat(f, s)) = Cat(a, New(Links(f), s))
      /\ New({}, Cat(g, c)) = Cat(b, New(Links(g), c))
  <2> HIDE DEF c
  <2> QED BY <1>2, DeduplicatedConcat
<1>4. New(Links(f), s) \in Seq(I) /\ New(Links(g), c) \in Seq(I)
  BY <1>2, NewFacts
<1>5. Top(n, a) = Top(n, b)
  OBVIOUS
<1> HIDE DEF a, b, c
<1>6. /\ Len(Top(n, a)) = Least(n, Len(a)) /\ (Len(a) <= n => Top(n, a) = a)
      /\ Len(Top(n, b)) = Least(n, Len(b)) /\ (Len(b) <= n => Top(n, b) = b)
  BY <1>1, TopFacts
<1>7. CASE n <= Len(a)
  <2>1. n <= Len(b)
    BY <1>1, <1>5, <1>6, <1>7 DEF Least
  <2>2. Top(n, a \o New(Links(f), s)) = Top(n, a)
    BY <1>1, <1>4, <1>7, TopOfConcat
  <2>3. Top(n, b \o New(Links(g), c)) = Top(n, b)
    BY <1>1, <1>4, <2>1, TopOfConcat
  <2> QED BY <1>3, <1>5, <2>2, <2>3 DEF c, Cat
<1>8. CASE Len(a) < n
  <2>1. a = b
    <3>1. Least(n, Len(a)) = Len(a) /\ Len(b) < n
      BY <1>1, <1>5, <1>6, <1>8 DEF Least
    <3> QED BY <1>1, <1>5, <1>6, <1>8, <3>1
  <2> DEFINE L == Links(f)
  <2>2. Links(g) = L /\ Links(a) = L
    BY <1>1, <2>1
  <2> HIDE DEF L
  <2>3. CASE Len(s) <= n
    BY <1>2, <1>3, <2>1, <2>2, <2>3 DEF c, L, Cat
  <2>4. CASE n < Len(s)
    <3>1. PICK r \in Seq(I) : s = c \o r
      BY <2>4, TopAndRest DEF c
    <3>2. PICK M : M = L \cup Links(c)
      OBVIOUS
    <3> DEFINE d == New(L, c)
               e == New(M, r)
               ad == a \o d
    <3>3. d \in Seq(I) /\ e \in Seq(I) /\ Links(d) = Links(c) \ L
      BY <1>2, NewFacts
    <3>4. New(L, s) = Cat(d, e)
      <4>1. New(L, Cat(c, r)) = Cat(d, e)
        BY <1>2, <3>2, NewConcat
      <4> QED BY <3>1, <4>1 DEF Cat
    <3>5. New({}, f \o s) = Cat(a, Cat(d, e)) /\ New({}, g \o c) = ad
      BY <1>3, <2>1, <2>2, <3>4 DEF L, Cat
    <3>6. ad \in Seq(I) /\ ad = Cat(a, d) /\ Links(ad) = L \cup Links(c)
      <4>1. ad \in Seq(I) /\ Links(ad) = Links(a) \cup Links(d)
        BY <1>1, <3>3, ConcatProperties, LinksFacts
      <4> QED BY <2>2, <3>3, <4>1 DEF Cat
    <3> HIDE DEF d, e, ad
    <3>7. Cat(ad, e) = Cat(a, Cat(d, e))
      BY <1>1, <3>3, <3>6, Concatenations
    <3>8. n <= Len(ad)
      <4>1. Len(c) = n
        BY <1>1, <1>2, <2>4 DEF Least
      <4>2. NoLinkTwice(c)
        <5>1. /\ \A i \in 1 .. Least(n, Len(s)) : c[i] = s[i]
              /\ Least(n, Len(s)) = n
              /\ DOMAIN c = 1 .. Len(c) /\ DOMAIN s = 1 .. Len(s)
          BY <1>1, <1>2, <2>4, TopFacts, LenProperties DEF c, Least
        <5>2. \A i \in 1 .. n : c[i] = s[i] /\ i \in DOMAIN s
          BY <1>1, <2>4, <5>1
        <5> QED BY <4>1, <5>1, <5>2 DEF NoLinkTwice
      <4>3. Links(c) \subseteq Links(ad)
        BY <3>6
      <4> QED BY <1>2, <3>6, <4>1, <4>2, <4>3, NotLonger
    <3>9. Top(n, ad \o e) = Top(n, ad)
      BY <3>3, <3>6, <3>8, TopOfConcat
    <3> QED BY <3>5, <3>7, <3>9 DEF c, Cat
  <2> QED BY <1>1, <2>3, <2>4
<1> QED BY <1>1, <1>7, <1>8

(* A list for every list. *)
Mapped(g, ss) == [i \in DOMAIN ss |-> g[ss[i]]]

(* One list more, one image more. *)
LEMMA MappedAppend ==
    ASSUME NEW S, NEW g, NEW ss \in Seq(S), NEW s \in S
    PROVE  Mapped(g, Append(ss, s)) = Append(Mapped(g, ss), g[s])
<1> DEFINE T == {g[x] : x \in S}
           t == Append(ss, s)
           n == Len(ss)
           p == Mapped(g, ss)
<1>1. /\ n \in Nat /\ DOMAIN ss = 1 .. n /\ DOMAIN t = 1 .. n + 1
      /\ t[n + 1] = s /\ \A i \in 1 .. n : t[i] = ss[i] /\ ss[i] \in S
  BY LenProperties, AppendProperties, ElementOfSeq
<1> HIDE DEF t, n
<1>2. p \in Seq(T) /\ Len(p) = n /\ g[s] \in T /\ \A i \in 1 .. n : p[i] = g[ss[i]]
  <2>1. p \in [1 .. n -> T]
    BY <1>1 DEF Mapped
  <2>2. p \in Seq(T) /\ Len(p) = n
    BY <1>1, <2>1
  <2>3. \A i \in 1 .. n : p[i] = g[ss[i]]
    BY <1>1 DEF Mapped
  <2> QED BY <2>2, <2>3
<1> HIDE DEF p
<1>3. /\ Append(p, g[s]) \in Seq(T) /\ Len(Append(p, g[s])) = n + 1
      /\ \A i \in 1 .. n : Append(p, g[s])[i] = p[i]
      /\ Append(p, g[s])[n + 1] = g[s]
  BY <1>2, AppendProperties
<1>4. Mapped(g, t) = [i \in 1 .. n + 1 |-> g[t[i]]]
  BY <1>1 DEF Mapped
<1>5. \A i \in 1 .. n + 1 : g[t[i]] = Append(p, g[s])[i]
  BY <1>1, <1>2, <1>3
<1>6. DOMAIN Append(p, g[s]) = 1 .. n + 1
      /\ Append(p, g[s]) = [i \in 1 .. n + 1 |-> Append(p, g[s])[i]]
  BY <1>3, LenProperties
<1> QED BY <1>2, <1>4, <1>5, <1>6 DEF p, t

(* The first n of a merge need the first n of every list only. *)
LEMMA MergeNeedsTops ==
    ASSUME NEW I, NEW n \in Nat, NEW tt \in Seq({s \in Seq(I) : NoLinkTwice(s)}),
           NEW g, g = [s \in Seq(I) |-> Top(n, s)]
    PROVE  /\ FlattenSeq(tt) \in Seq(I) /\ FlattenSeq(Mapped(g, tt)) \in Seq(I)
           /\ Top(n, New({}, FlattenSeq(tt))) = Top(n, New({}, FlattenSeq(Mapped(g, tt))))
<1> DEFINE K == {s \in Seq(I) : NoLinkTwice(s)}
           P == {ss \in Seq(K) : /\ ss \in Seq(Seq(I)) /\ Mapped(g, ss) \in Seq(Seq(I))
                                 /\ Top(n, New({}, FlattenSeq(ss)))
                                        = Top(n, New({}, FlattenSeq(Mapped(g, ss))))}
<1>1. g \in [Seq(I) -> Seq(I)] /\ \A s \in Seq(I) : g[s] = Top(n, s)
  BY TopFacts
<1>2. P \in SUBSET Seq(K) /\ <<>> \in P
  <2>1. Mapped(g, <<>>) = <<>> /\ <<>> \in Seq(K) /\ <<>> \in Seq(Seq(I))
    BY DEF Mapped
  <2> HIDE DEF K
  <2> QED BY <2>1
<1>3. ASSUME NEW ss \in P, NEW s \in K PROVE Append(ss, s) \in P
  <2>1. /\ ss \in Seq(K) /\ ss \in Seq(Seq(I)) /\ Mapped(g, ss) \in Seq(Seq(I))
        /\ Top(n, New({}, FlattenSeq(ss))) = Top(n, New({}, FlattenSeq(Mapped(g, ss))))
        /\ s \in Seq(I) /\ NoLinkTwice(s) /\ s \in K
    OBVIOUS
  <2> HIDE DEF P, K
  <2> DEFINE t == Append(ss, s)
             p == Mapped(g, ss)
             q == Mapped(g, t)
             y == Top(n, s)
  <2>2. t \in Seq(K) /\ t \in Seq(Seq(I))
    BY <2>1, AppendProperties
  <2>3. y \in Seq(I) /\ g[s] = y
    BY <1>1, <2>1, TopFacts
  <2>4. q = Append(p, y)
    <3>1. Mapped(g, Append(ss, s)) = Append(Mapped(g, ss), g[s])
      BY <1>1, <2>1, MappedAppend
    <3> QED BY <2>3, <3>1
  <2> HIDE DEF p, q, y, t
  <2>5. FlattenSeq(t) = FlattenSeq(ss) \o s
    BY <2>1, FlattenAppend DEF t
  <2>6. FlattenSeq(q) = FlattenSeq(p) \o y /\ q \in Seq(Seq(I))
    BY <2>1, <2>3, <2>4, FlattenAppend, AppendProperties DEF p
  <2>7. FlattenSeq(ss) \in Seq(I) /\ FlattenSeq(p) \in Seq(I)
    BY <2>1, FlattenFacts DEF p
  <2>8. Top(n, New({}, FlattenSeq(ss) \o s)) = Top(n, New({}, FlattenSeq(p) \o Top(n, s)))
    BY <2>1, <2>7, MergeNeedsTop DEF p
  <2> QED BY <2>2, <2>5, <2>6, <2>8 DEF P, q, t, y
<1> HIDE DEF P, K
<1>4. P = Seq(K)
  BY <1>2, <1>3, SequencesByAppending
<1>5. tt \in P
  BY <1>4 DEF K
<1> QED BY <1>5, FlattenFacts DEF P

(* A merge of lists without their repetitions is the merge of the lists. *)
LEMMA MergeOfDeduplicated ==
    ASSUME NEW I, NEW tt \in Seq(Seq(I)), NEW g, g = [s \in Seq(I) |-> New({}, s)]
    PROVE  /\ Mapped(g, tt) \in Seq({s \in Seq(I) : NoLinkTwice(s)})
           /\ New({}, FlattenSeq(Mapped(g, tt))) = New({}, FlattenSeq(tt))
<1> DEFINE K == {s \in Seq(I) : NoLinkTwice(s)}
           P == {ss \in Seq(Seq(I)) : /\ Mapped(g, ss) \in Seq(Seq(I))
                                      /\ Mapped(g, ss) \in Seq(K)
                                      /\ Links(FlattenSeq(Mapped(g, ss))) = Links(FlattenSeq(ss))
                                      /\ New({}, FlattenSeq(Mapped(g, ss)))
                                             = New({}, FlattenSeq(ss))}
<1>1. g \in [Seq(I) -> Seq(I)] /\ g \in [Seq(I) -> K] /\ \A s \in Seq(I) : g[s] = New({}, s)
  BY NewFacts, NewTwice
<1>2. P \in SUBSET Seq(Seq(I)) /\ <<>> \in P
  <2>1. Mapped(g, <<>>) = <<>> /\ <<>> \in Seq(K) /\ <<>> \in Seq(Seq(I))
    BY DEF Mapped
  <2> HIDE DEF K
  <2> QED BY <2>1
<1>3. ASSUME NEW ss \in P, NEW s \in Seq(I) PROVE Append(ss, s) \in P
  <2> DEFINE t == Append(ss, s)
             p == Mapped(g, ss)
             q == Mapped(g, t)
             y == New({}, s)
             F == FlattenSeq(ss)
             G == FlattenSeq(p)
  <2>1. /\ ss \in Seq(Seq(I)) /\ p \in Seq(Seq(I)) /\ p \in Seq(K)
        /\ Links(G) = Links(F) /\ New({}, G) = New({}, F)
    OBVIOUS
  <2> HIDE DEF P, K
  <2>2. t \in Seq(Seq(I))
    BY <2>1, AppendProperties
  <2>3. y \in Seq(I) /\ y \in K /\ g[s] = y /\ Links(y) = Links(s)
    <3>1. y \in Seq(I) /\ Links(y) = Links(s) \ {} /\ NoLinkTwice(y)
      BY NewFacts, NewTwice
    <3> HIDE DEF y
    <3>2. g[s] = y
      BY <1>1 DEF y
    <3> QED BY <3>1, <3>2 DEF K
  <2>4. q = Append(p, y)
    <3>1. Mapped(g, Append(ss, s)) = Append(Mapped(g, ss), g[s])
      BY <1>1, <2>1, MappedAppend
    <3> QED BY <2>3, <3>1
  <2>5. F \in Seq(I) /\ G \in Seq(I)
    BY <2>1, FlattenFacts
  <2> HIDE DEF p, q, y, t, F, G
  <2>6. q \in Seq(Seq(I)) /\ q \in Seq(K)
    BY <2>1, <2>3, <2>4, AppendProperties
  <2>7. FlattenSeq(t) = Cat(F, s)
    BY <2>1, FlattenAppend DEF t, F, Cat
  <2>8. FlattenSeq(q) = Cat(G, y)
    BY <2>1, <2>3, <2>4, FlattenAppend DEF G, Cat
  <2>9. Links(Cat(G, y)) = Links(Cat(F, s))
    <3>1. /\ Links(Cat(G, y)) = Links(G) \cup Links(y)
          /\ Links(Cat(F, s)) = Links(F) \cup Links(s)
      BY <2>3, <2>5, LinksFacts DEF Cat
    <3> QED BY <2>1, <2>3, <3>1
  <2>10. New({}, Cat(G, y)) = New({}, Cat(F, s))
    <3>1. New({}, Cat(G, y)) = Cat(New({}, G), New(Links(G), y))
      BY <2>3, <2>5, DeduplicatedConcat
    <3>2. New({}, Cat(F, s)) = Cat(New({}, F), New(Links(F), s))
      BY <2>5, DeduplicatedConcat
    <3>3. New(Links(F), y) = New(Links(F), s)
      BY NewOfDeduplicated DEF y
    <3> QED BY <2>1, <3>1, <3>2, <3>3
  <2> QED BY <2>2, <2>6, <2>7, <2>8, <2>9, <2>10 DEF P, q, t
<1> HIDE DEF P, K
<1>4. P = Seq(Seq(I))
  BY <1>2, <1>3, SequencesByAppending
<1>5. tt \in P
  BY <1>4
<1> QED BY <1>5 DEF P, K
-----------------------------------------------------------------------------
ListItems == {Item(f) : f \in Files}

Lists == Seq(ListItems)

(* The items of files are a list of items. *)
LEMMA ItemsType ==
    ASSUME NEW files \in Seq(Files)
    PROVE  Items(files) \in Lists
<1> DEFINE pieces == [i \in DOMAIN files |->
                IF is_relevant_video_result(files[i]) THEN <<Item(files[i])>> ELSE << >>]
<1>1. /\ Len(files) \in Nat /\ DOMAIN files = 1 .. Len(files)
      /\ \A i \in 1 .. Len(files) : files[i] \in Files
  BY LenProperties, ElementOfSeq
<1>2. \A i \in 1 .. Len(files) : <<Item(files[i])>> \in Lists
  BY <1>1 DEF ListItems, Lists
<1>3. << >> \in Lists
  BY DEF Lists
<1>4. pieces \in [1 .. Len(files) -> Lists]
  BY <1>1, <1>2, <1>3
<1>5. pieces \in Seq(Lists)
  BY <1>1, <1>4
<1>6. Items(files) = FlattenSeq(pieces)
  BY DEF Items
<1> HIDE DEF pieces
<1> QED BY <1>5, <1>6, FlattenFacts DEF Lists

NoLists == {s \in Lists : NoLinkTwice(s)}

(* What the engines list for a spelling, without those that are down. *)
Seen(found, down, v) ==
    [e \in DOMAIN found[v] |-> IF e \in down THEN << >> ELSE Items(found[v][e])]

(* They are as many lists as there are engines, none with a link twice. *)
LEMMA SeenType ==
    ASSUME NEW found \in Found, NEW down, NEW v \in DOMAIN found
    PROVE  /\ Seen(found, down, v) \in Seq(NoLists)
           /\ Len(Seen(found, down, v)) = Len(found[1])
           /\ DOMAIN Seen(found, down, v) = DOMAIN found[v]
           /\ found[v] \in Seq(Seq(Files)) /\ Len(found[v]) = Len(found[1])
<1>1. found \in Seq(Seq(Seq(Files))) /\ Len(found[v]) = Len(found[1])
  BY FoundAssumption
<1>2. found[v] \in Seq(Seq(Files))
  BY <1>1
<1>3. /\ Len(found[v]) \in Nat /\ DOMAIN found[v] = 1 .. Len(found[v])
      /\ \A e \in DOMAIN found[v] : found[v][e] \in Seq(Files)
  BY <1>2, LenProperties, ElementOfSeq
<1>4. \A e \in DOMAIN found[v] : Items(found[v][e]) \in NoLists
  <2> SUFFICES ASSUME NEW e \in DOMAIN found[v]
               PROVE  Items(found[v][e]) \in NoLists
    OBVIOUS
  <2>1. NoLinkTwice(Items(found[v][e]))
    BY FoundAssumption
  <2>2. Items(found[v][e]) \in Lists
    BY <1>3, ItemsType
  <2> QED BY <2>1, <2>2 DEF NoLists
<1>5. << >> \in NoLists
  BY DEF NoLists, Lists, NoLinkTwice
<1>6. Seen(found, down, v) \in [1 .. Len(found[v]) -> NoLists]
  BY <1>3, <1>4, <1>5 DEF Seen
<1>7. DOMAIN Seen(found, down, v) = DOMAIN found[v]
  BY DEF Seen
<1> DEFINE A == Seen(found, down, v)
           n == Len(found[v])
<1>8. A \in [1 .. n -> NoLists] /\ n \in Nat
  BY <1>3, <1>6
<1> HIDE DEF A, n
<1>9. A \in Seq(NoLists) /\ Len(A) = n
  BY <1>8
<1> QED BY <1>1, <1>2, <1>7, <1>9 DEF A, n

(* A page of one spelling. *)
LEMMA VariantPage ==
    ASSUME NEW found \in Found, NEW down \in SUBSET DOMAIN found[1], NEW v \in DOMAIN found,
           NEW offset \in Nat, NEW limit \in Nat
    PROVE  /\ FlattenSeq(Seen(found, down, v)) \in Lists
           /\ IndexerFeed(found[v], down, offset, limit).items
                  = Slice(New({}, FlattenSeq(Seen(found, down, v))), offset, limit)
<1> DEFINE A == Seen(found, down, v)
           n == offset + limit
<1>1. /\ A \in Seq(NoLists) /\ Len(A) = Len(found[1]) /\ DOMAIN A = DOMAIN found[v]
      /\ found[v] \in Seq(Seq(Files)) /\ Len(found[v]) = Len(found[1])
      /\ \A e \in DOMAIN found[v] : A[e] = IF e \in down THEN << >> ELSE Items(found[v][e])
  <2>1. \A e \in DOMAIN found[v] : A[e] = IF e \in down THEN << >> ELSE Items(found[v][e])
    BY DEF Seen
  <2> HIDE DEF A
  <2> QED BY <2>1, SeenType DEF A
<1>2. /\ Len(A) \in Nat /\ DOMAIN found[v] = 1 .. Len(A) /\ DOMAIN found[1] = 1 .. Len(A)
      /\ \A e \in 1 .. Len(A) : A[e] \in Lists /\ NoLinkTwice(A[e])
  <2>1. 1 \in DOMAIN found
    <3>1. found \in Seq(Seq(Seq(Files))) /\ found # << >>
      BY FoundAssumption
    <3> QED BY <3>1
  <2>2. found[1] \in Seq(Seq(Files))
    BY <2>1, SeenType
  <2>3. \A e \in 1 .. Len(A) : A[e] \in NoLists
    BY <1>1, ElementOfSeq
  <2> HIDE DEF A
  <2> QED BY <1>1, <2>2, <2>3, LenProperties DEF NoLists
<1>3. A \in Seq(Lists)
  <2>1. NoLists \subseteq Lists
    BY DEF NoLists
  <2> HIDE DEF A
  <2> QED BY <1>1, <2>1, SeqMonotonic
<1> HIDE DEF A
<1>4. FlattenSeq(A) \in Lists
  BY <1>3, FlattenFacts DEF Lists
<1>5. CASE Len(found[v]) = 1
  <2> DEFINE files == IF down = {} THEN found[v][1] ELSE << >>
  <2>1. IndexerFeed(found[v], down, offset, limit).items = Slice(Items(files), offset, limit)
    BY <1>5, Zenon DEF IndexerFeed, EngineFeed, FeedOf
  <2>2. Items(files) = A[1]
    <3>1. 1 \in DOMAIN found[v] /\ (down = {} <=> 1 \notin down)
      BY <1>1, <1>2, <1>5
    <3>2. Items(<< >>) = << >>
      <4>1. [i \in DOMAIN << >> |->
                IF is_relevant_video_result(<< >>[i]) THEN <<Item(<< >>[i])>> ELSE << >>] = << >>
        OBVIOUS
      <4> QED BY <4>1, FlattenFacts DEF Items
    <3> QED BY <1>1, <3>1, <3>2
  <2>3. FlattenSeq(A) = A[1]
    <3>1. A = <<A[1]>> /\ A[1] \in Lists
      BY <1>1, <1>2, <1>3, <1>5
    <3>2. FlattenSeq(<<A[1]>>) = A[1]
      BY <3>1, FlattenFacts DEF Lists
    <3> QED BY <3>1, <3>2
  <2>4. New({}, A[1]) = A[1]
    <3>1. A[1] \in Seq(ListItems) /\ NoLinkTwice(A[1])
      BY <1>1, <1>2, <1>5 DEF Lists
    <3> QED BY <3>1, NewOfDeduplicated
  <2> HIDE DEF files
  <2> QED BY <1>4, <2>1, <2>2, <2>3, <2>4 DEF A
<1>6. CASE Len(found[v]) # 1
  <2> DEFINE feeds == [e \in DOMAIN found[v] |->
                           IF e \in down THEN FeedOf(<< >>, 0, 0)
                           ELSE EngineFeed(found[v][e], 0, RawLimit(offset, limit))]
             g == [s \in Lists |-> Top(n, s)]
             lists == [e \in DOMAIN feeds |-> feeds[e].items]
  <2>1. IndexerFeed(found[v], down, offset, limit).items
            = Slice(Deduplicated(FlattenSeq(lists)), offset, limit)
    BY <1>6, Zenon DEF IndexerFeed, AggregateFeed, Merged, FeedOf
  <2>2. lists = Mapped(g, A)
    <3>1. DOMAIN feeds = 1 .. Len(A) /\ DOMAIN A = 1 .. Len(A)
      BY <1>1, <1>2
    <3>2. \A e \in 1 .. Len(A) : feeds[e].items = g[A[e]]
      <4> SUFFICES ASSUME NEW e \in 1 .. Len(A)
                   PROVE  feeds[e].items = Top(n, A[e])
        BY <1>2
      <4>1. e \in DOMAIN found[v]
        BY <1>2
      <4>2. CASE e \in down
        <5>1. feeds[e].items = Slice(<< >>, 0, 0) /\ A[e] = << >>
          BY <1>1, <4>1, <4>2 DEF FeedOf
        <5>2. Top(0, << >>) = << >> /\ Top(n, << >>) = << >>
          BY TopOfNone
        <5> QED BY <5>1, <5>2 DEF Top
      <4>3. CASE e \notin down
        <5>1. feeds[e] = EngineFeed(found[v][e], 0, RawLimit(offset, limit))
              /\ A[e] = Items(found[v][e])
          BY <1>1, <4>1, <4>3
        <5>2. EngineFeed(found[v][e], 0, RawLimit(offset, limit)).items
                  = Slice(Items(found[v][e]), 0, RawLimit(offset, limit))
          BY DEF EngineFeed, FeedOf
        <5> QED BY <5>1, <5>2 DEF RawLimit, Top
      <4> QED BY <4>2, <4>3
    <3>3. lists = [e \in 1 .. Len(A) |-> feeds[e].items]
      BY <3>1
    <3>4. Mapped(g, A) = [e \in 1 .. Len(A) |-> g[A[e]]]
      BY <3>1 DEF Mapped
    <3> HIDE DEF lists, g, feeds
    <3> QED BY <3>2, <3>3, <3>4
  <2> HIDE DEF lists, feeds
  <2>3. /\ FlattenSeq(Mapped(g, A)) \in Lists
        /\ Top(n, New({}, FlattenSeq(A))) = Top(n, New({}, FlattenSeq(Mapped(g, A))))
    <3>1. n \in Nat /\ A \in Seq({s \in Seq(ListItems) : NoLinkTwice(s)})
      BY <1>1 DEF NoLists, Lists
    <3> HIDE DEF n
    <3>2. g = [s \in Seq(ListItems) |-> Top(n, s)]
      BY DEF Lists
    <3> HIDE DEF g
    <3> QED BY <3>1, <3>2, MergeNeedsTops DEF Lists
  <2> HIDE DEF g
  <2>4. /\ New({}, FlattenSeq(A)) \in Lists
        /\ New({}, FlattenSeq(Mapped(g, A))) \in Lists
    BY <1>4, <2>3, NewFacts DEF Lists
  <2>5. Slice(New({}, FlattenSeq(A)), offset, limit)
            = Slice(New({}, FlattenSeq(Mapped(g, A))), offset, limit)
    BY <2>3, <2>4, PageOfTop DEF Lists
  <2> QED BY <1>4, <2>1, <2>2, <2>5, DeduplicatedIsNew DEF A
<1> QED BY <1>5, <1>6

(* All there is to see, spelling by spelling. *)
LEMMA EverythingIsMerged ==
    ASSUME NEW found, NEW down
    PROVE  Everything(found, down)
               = New({}, FlattenSeq([v \in DOMAIN found |-> FlattenSeq(Seen(found, down, v))]))
<1>1. Everything(found, down)
          = Deduplicated(FlattenSeq([v \in DOMAIN found |-> FlattenSeq(Seen(found, down, v))]))
  BY DEF Everything, Seen
<1> QED BY <1>1, DeduplicatedIsNew

(* A page is cut from all there is to see. *)
LEMMA PageOfEverything ==
    ASSUME NEW found \in Found, NEW down \in SUBSET DOMAIN found[1],
           NEW offset \in Nat, NEW limit \in Nat
    PROVE  /\ Everything(found, down) \in Lists
           /\ PerformQueries(found, down, offset, limit).items
                  = Slice(Everything(found, down), offset, limit)
<1> DEFINE W == [v \in DOMAIN found |-> FlattenSeq(Seen(found, down, v))]
           n == offset + limit
<1>1. found \in Seq(Seq(Seq(Files))) /\ found # << >>
  BY FoundAssumption
<1>2. Len(found) \in Nat \ {0} /\ DOMAIN found = 1 .. Len(found)
  BY <1>1
<1>3. /\ \A v \in 1 .. Len(found) : W[v] \in Lists
      /\ \A v \in 1 .. Len(found) :
             \A k, l \in Nat : IndexerFeed(found[v], down, k, l).items = Slice(New({}, W[v]), k, l)
  BY <1>2, VariantPage
<1>4. W \in Seq(Lists) /\ Len(W) = Len(found) /\ DOMAIN W = 1 .. Len(found)
  <2>1. W \in [1 .. Len(found) -> Lists]
    BY <1>2, <1>3
  <2> HIDE DEF W
  <2> QED BY <1>2, <2>1
<1>5. Everything(found, down) = New({}, FlattenSeq(W))
  BY EverythingIsMerged
<1> HIDE DEF W
<1>6. FlattenSeq(W) \in Lists /\ New({}, FlattenSeq(W)) \in Lists
  BY <1>4, FlattenFacts, NewFacts DEF Lists
<1>7. CASE Len(found) = 1
  <2>1. PerformQueries(found, down, offset, limit).items
            = IndexerFeed(found[1], down, offset, limit).items
    BY <1>7, Zenon DEF PerformQueries
  <2>2. W = <<W[1]>> /\ W[1] \in Lists
    BY <1>3, <1>4, <1>7
  <2>3. FlattenSeq(<<W[1]>>) = W[1]
    BY <2>2, FlattenFacts DEF Lists
  <2>4. FlattenSeq(W) = W[1]
    BY <2>2, <2>3
  <2> QED BY <1>2, <1>3, <1>5, <1>6, <2>1, <2>4
<1>8. CASE Len(found) # 1
  <2> DEFINE feeds == [v \in DOMAIN found |->
                           IndexerFeed(found[v], down, 0, RawLimit(offset, limit))]
             lists == [v \in DOMAIN feeds |-> feeds[v].items]
             g == [s \in Lists |-> Top(n, s)]
             h == [s \in Lists |-> New({}, s)]
             D == Mapped(h, W)
  <2>1. PerformQueries(found, down, offset, limit).items
            = Slice(Deduplicated(FlattenSeq(lists)), offset, limit)
    BY <1>8, Zenon DEF PerformQueries, Merged, FeedOf
  <2>2. /\ D \in Seq(NoLists)
        /\ New({}, FlattenSeq(D)) = New({}, FlattenSeq(W))
    <3>1. h = [s \in Seq(ListItems) |-> New({}, s)] /\ W \in Seq(Seq(ListItems))
      BY <1>4 DEF Lists
    <3> HIDE DEF h
    <3>2. /\ Mapped(h, W) \in Seq({s \in Seq(ListItems) : NoLinkTwice(s)})
          /\ New({}, FlattenSeq(Mapped(h, W))) = New({}, FlattenSeq(W))
      BY <3>1, MergeOfDeduplicated
    <3> QED BY <3>2 DEF NoLists, Lists
  <2>3. DOMAIN D = 1 .. Len(found) /\ \A v \in 1 .. Len(found) : D[v] = New({}, W[v])
    BY <1>3, <1>4 DEF Mapped
  <2>4. \A v \in 1 .. Len(found) : D[v] \in Lists
    <3>1. \A v \in 1 .. Len(found) : New({}, W[v]) \in Lists
      BY <1>3, NewFacts DEF Lists
    <3> HIDE DEF D
    <3> QED BY <2>3, <3>1
  <2>5. lists = Mapped(g, D)
    <3>1. \A v \in 1 .. Len(found) : feeds[v].items = Slice(New({}, W[v]), 0, n)
      BY <1>2, <1>3 DEF RawLimit
    <3>2. \A v \in 1 .. Len(found) : feeds[v].items = g[D[v]]
      <4> HIDE DEF feeds, D
      <4> QED BY <2>3, <2>4, <3>1 DEF Top
    <3>3. lists = [v \in 1 .. Len(found) |-> feeds[v].items]
      BY <1>2
    <3>4. Mapped(g, D) = [v \in 1 .. Len(found) |-> g[D[v]]]
      <4> HIDE DEF D, g
      <4> QED BY <2>3 DEF Mapped
    <3> HIDE DEF lists, g, feeds, D
    <3> QED BY <3>2, <3>3, <3>4
  <2> HIDE DEF lists, feeds, D
  <2>6. /\ FlattenSeq(D) \in Lists
        /\ FlattenSeq(Mapped(g, D)) \in Lists
        /\ Top(n, New({}, FlattenSeq(D))) = Top(n, New({}, FlattenSeq(Mapped(g, D))))
    <3>1. n \in Nat /\ D \in Seq({s \in Seq(ListItems) : NoLinkTwice(s)})
      BY <2>2 DEF NoLists, Lists
    <3> HIDE DEF n
    <3>2. g = [s \in Seq(ListItems) |-> Top(n, s)]
      BY DEF Lists
    <3> HIDE DEF g
    <3> QED BY <3>1, <3>2, MergeNeedsTops DEF Lists
  <2> HIDE DEF g
  <2>7. /\ New({}, FlattenSeq(D)) \in Lists
        /\ New({}, FlattenSeq(Mapped(g, D))) \in Lists
    BY <2>6, NewFacts DEF Lists
  <2>8. Slice(New({}, FlattenSeq(D)), offset, limit)
            = Slice(New({}, FlattenSeq(Mapped(g, D))), offset, limit)
    BY <2>6, <2>7, PageOfTop DEF Lists
  <2> QED BY <1>5, <1>6, <2>1, <2>2, <2>5, <2>8, DeduplicatedIsNew
<1> QED BY <1>7, <1>8
-----------------------------------------------------------------------------
(* A search is for something that can be found, and has seen the beginning *)
(* of it; all of it when the last page was short.                          *)
Reading(s) ==
    /\ DOMAIN s = {"found", "down", "blank", "limit", "shown", "ended"}
    /\ s.found \in Found /\ s.down \in SUBSET DOMAIN s.found[1] /\ s.limit \in Nat
    /\ ~s.blank => LET all == Everything(s.found, s.down)
                   IN  /\ \E k \in 0 .. Len(all) : s.shown = SubSeq(all, 1, k)
                       /\ s.ended => s.shown = all

SearchInv == search # None => Reading(search[1])

(* One page more: the list goes on where it stopped, and when the page is  *)
(* short it is complete.                                                   *)
LEMMA PageGoesOn ==
    ASSUME NEW all \in Lists, NEW k \in 0 .. Len(all), NEW limit \in Nat
    PROVE  /\ Len(SubSeq(all, 1, k)) = k
           /\ \E m \in 0 .. Len(all) : SubSeq(all, 1, k) \o Slice(all, k, limit) = SubSeq(all, 1, m)
           /\ Len(Slice(all, k, limit)) < limit => SubSeq(all, 1, k) \o Slice(all, k, limit) = all
<1> DEFINE shown == SubSeq(all, 1, k)
           page == Slice(all, k, limit)
<1> DEFINE n == Len(all)
           m == IF k + limit < n THEN k + limit ELSE n
<1>1. n \in Nat /\ k \in Nat /\ k <= n /\ m \in Nat /\ k <= m /\ m <= n
  BY LenProperties DEF Lists
<1>2. \A i \in 1 .. n : all[i] \in ListItems
  BY ElementOfSeq DEF Lists
<1>3. Len(shown) = k
  <2>1. \A i \in 1 .. k : all[i] \in ListItems
    BY <1>1, <1>2
  <2>2. Len(shown) = IF 1 <= k THEN k - 1 + 1 ELSE 0
    BY <1>1, <2>1, SubSeqProperties
  <2> QED BY <1>1, <2>2
<1>4. page = SubSeq(all, k + 1, m)
  BY DEF Slice
<1> HIDE DEF page
<1>5. shown \o page = SubSeq(all, 1, m)
  <2>1. 1 \in 1 .. n + 1 /\ k \in 1 - 1 .. n /\ m \in k .. n
    BY <1>1
  <2> HIDE DEF m
  <2> QED BY <1>4, <2>1, ConcatAdjacentSubSeq DEF Lists
<1>6. ASSUME Len(page) < limit PROVE m = n
  <2>1. \A i \in k + 1 .. m : all[i] \in ListItems
    BY <1>1, <1>2
  <2>2. Len(page) = IF k + 1 <= m THEN m - (k + 1) + 1 ELSE 0
    <3> HIDE DEF m
    <3> QED BY <1>1, <1>4, <2>1, SubSeqProperties
  <2>3. Len(page) = m - k
    <3> HIDE DEF m
    <3> QED BY <1>1, <2>2
  <2> QED BY <1>1, <1>6, <2>3
<1>7. SubSeq(all, 1, n) = all
  BY SubSeqFull DEF Lists
<1>8. m \in 0 .. Len(all)
  BY <1>1
<1>9. \E i \in 0 .. Len(all) : shown \o page = SubSeq(all, 1, i)
  <2> HIDE DEF m, shown
  <2> QED BY <1>5, <1>8
<1>10. Len(page) < limit => shown \o page = all
  <2> HIDE DEF m, shown
  <2> QED BY <1>5, <1>6, <1>7
<1> QED BY <1>3, <1>9, <1>10 DEF page

(* So with the pages of a search. *)
LEMMA PageShown ==
    ASSUME NEW found \in Found, NEW down \in SUBSET DOMAIN found[1], NEW limit \in Nat, NEW shown,
           \E k \in 0 .. Len(Everything(found, down)) :
               shown = SubSeq(Everything(found, down), 1, k)
    PROVE  LET all  == Everything(found, down)
               page == PerformQueries(found, down, Len(shown), limit).items
           IN  /\ \E m \in 0 .. Len(all) : shown \o page = SubSeq(all, 1, m)
               /\ Len(page) < limit => shown \o page = all
<1> DEFINE all == Everything(found, down)
           page == PerformQueries(found, down, Len(shown), limit).items
<1>1. all \in Lists
  BY PageOfEverything DEF all
<1>2. PICK k \in 0 .. Len(all) : shown = SubSeq(all, 1, k)
  OBVIOUS
<1> HIDE DEF all
<1> DEFINE next == Slice(all, k, limit)
<1>3. /\ Len(SubSeq(all, 1, k)) = k
      /\ \E m \in 0 .. Len(all) : SubSeq(all, 1, k) \o next = SubSeq(all, 1, m)
      /\ Len(next) < limit => SubSeq(all, 1, k) \o next = all
  BY <1>1, PageGoesOn, Zenon
<1> HIDE DEF next
<1>4. /\ Len(shown) = k
      /\ \E m \in 0 .. Len(all) : shown \o next = SubSeq(all, 1, m)
      /\ Len(next) < limit => shown \o next = all
  BY <1>2, <1>3
<1>5. Len(shown) \in Nat
  BY <1>1, <1>4, LenProperties DEF Lists
<1>6. page = next
  BY <1>4, <1>5, PageOfEverything DEF next, all
<1> HIDE DEF page
<1> QED BY <1>4, <1>6 DEF all, page

(* The empty list is the beginning of all. *)
LEMMA SearchBegins ==
    ASSUME NEW request \in Requests, NEW found \in Found, NEW down,
           BeginSearch(request, found, down)
    PROVE  SearchInv'
<1> DEFINE s == [found |-> found, down |-> down, blank |-> request.query = << >>,
                 limit |-> request.limit, shown |-> << >>, ended |-> FALSE]
           all == Everything(found, down)
<1>1. search' = <<s>> /\ down \in SUBSET DOMAIN found[1]
  BY DEF BeginSearch
<1>2. request.limit \in Nat /\ (request.query = << >>) \in BOOLEAN
  BY RequestsAssumption
<1>3. all \in Lists
  BY <1>1, PageOfEverything
<1> HIDE DEF all
<1>4. \E k \in 0 .. Len(all) : << >> = SubSeq(all, 1, k)
  <2>1. 0 \in 0 .. Len(all) /\ SubSeq(all, 1, 0) = << >>
    BY <1>3, LenProperties, SubSeqEmpty DEF Lists
  <2> QED BY <2>1
<1>5. Reading(s)
  BY <1>1, <1>2, <1>4 DEF Reading, all
<1> HIDE DEF s
<1> QED BY <1>1, <1>5 DEF SearchInv

(* A page keeps the invariant. *)
LEMMA SearchGoesOn ==
    ASSUME SearchInv, NextPage
    PROVE  SearchInv'
<1> DEFINE s == search[1]
           all == Everything(s.found, s.down)
           feed == IF s.blank THEN empty_query_response
                   ELSE PerformQueries(s.found, s.down, Len(s.shown), s.limit)
           end == s.blank \/ Len(feed.items) < s.limit
           t == [s EXCEPT !.shown = @ \o feed.items, !.ended = end]
<1>1. search' = <<t>>
  BY DEF NextPage
<1>2. Reading(s)
  BY DEF NextPage, SearchInv
<1>3. /\ DOMAIN s = {"found", "down", "blank", "limit", "shown", "ended"}
      /\ s.found \in Found /\ s.down \in SUBSET DOMAIN s.found[1] /\ s.limit \in Nat
  BY <1>2 DEF Reading
<1>4. ASSUME ~s.blank
      PROVE  /\ \E m \in 0 .. Len(all) : s.shown \o feed.items = SubSeq(all, 1, m)
             /\ end => s.shown \o feed.items = all
  <2>1. \E k \in 0 .. Len(all) : s.shown = SubSeq(all, 1, k)
    BY <1>2, <1>4 DEF Reading
  <2> DEFINE page == PerformQueries(s.found, s.down, Len(s.shown), s.limit).items
  <2>2. feed.items = page
    BY <1>4
  <2> HIDE DEF page, feed
  <2>3. /\ \E m \in 0 .. Len(all) : s.shown \o page = SubSeq(all, 1, m)
        /\ Len(page) < s.limit => s.shown \o page = all
    <3> HIDE DEF s
    <3> QED BY <1>3, <2>1, PageShown, Zenon DEF page
  <2> QED BY <1>4, <2>2, <2>3
<1> HIDE DEF feed, end
<1>5. /\ DOMAIN t = {"found", "down", "blank", "limit", "shown", "ended"}
      /\ t.found = s.found /\ t.down = s.down /\ t.limit = s.limit /\ t.blank = s.blank
      /\ t.shown = s.shown \o feed.items /\ t.ended = end
  <2> HIDE DEF s
  <2> QED BY <1>3
<1>6. Reading(t)
  <2> HIDE DEF t, s
  <2> QED BY <1>3, <1>4, <1>5 DEF Reading
<1> HIDE DEF t
<1> QED BY <1>1, <1>6 DEF SearchInv

(* Every step keeps the invariant. *)
LEMMA SearchStep ==
    ASSUME SearchInv, [Next]_vars
    PROVE  SearchInv'
<1>1. CASE \E request \in Requests, found \in Found, down \in {{}, {1}, {2}} :
               BeginSearch(request, found, down)
  BY <1>1, SearchBegins
<1>2. CASE NextPage
  BY <1>2, SearchGoesOn
<1>3. CASE GrabShown
  <2>1. search' = None
    BY <1>3 DEF GrabShown, Grab
  <2> QED BY <2>1 DEF SearchInv
<1>4. CASE UNCHANGED search
  BY <1>4 DEF SearchInv
<1>5. CASE \/ \E done \in {0, 1} \cup Samples, speed \in Speeds, sources \in {0, 2},
                 status \in FileStatus : Transfer(done, speed, sources, status)
           \/ Complete
           \/ \E without \in {{}} \cup {{name} : name \in ListedTags} : ListTorrents(without)
           \/ Ask
           \/ UNCHANGED vars
  BY <1>4, <1>5 DEF Transfer, Complete, ListTorrents, Ask, vars
<1> QED BY <1>1, <1>2, <1>3, <1>5 DEF Next

(* Page after page a client sees everything once and in order, whatever is *)
(* found, whichever engines are down and however large a page is.          *)
THEOREM PagesAreComplete == Spec => []PagesTile
<1>1. Init => SearchInv
  BY DEF Init, SearchInv
<1>2. SearchInv /\ [Next]_vars => SearchInv'
  BY SearchStep
<1>3. SearchInv => PagesTile
  <2> SUFFICES ASSUME SearchInv, search # None, ~search[1].blank
               PROVE  LET s == search[1]
                      IN  IF s.ended THEN s.shown = Everything(s.found, s.down)
                          ELSE IsPrefix(s.shown, Everything(s.found, s.down))
    BY DEF PagesTile
  <2> DEFINE shown == search[1].shown
             found == search[1].found
             down == search[1].down
  <2>1. /\ found \in Found /\ down \in SUBSET DOMAIN found[1]
        /\ \E k \in 0 .. Len(Everything(found, down)) :
               shown = SubSeq(Everything(found, down), 1, k)
        /\ search[1].ended => shown = Everything(found, down)
    BY DEF SearchInv, Reading
  <2> DEFINE all == Everything(found, down)
  <2>2. all \in Lists
    BY <2>1, PageOfEverything
  <2>3. PICK k \in 0 .. Len(all) : shown = SubSeq(all, 1, k)
    BY <2>1
  <2> HIDE DEF all
  <2> HIDE DEF shown
  <2>4. IsPrefix(shown, all)
    <3>1. Len(all) \in Nat /\ Len(shown) = k
      BY <2>2, <2>3, LenProperties, PageGoesOn DEF Lists
    <3>2. shown \in Lists
      <4>1. \A i \in 1 .. k : all[i] \in ListItems
        BY <2>2, <3>1, ElementOfSeq DEF Lists
      <4> QED BY <2>3, <3>1, <4>1, SubSeqProperties DEF Lists
    <3>3. SubSeq(shown, 1, Len(shown)) = shown
      BY <3>2, SubSeqFull DEF Lists
    <3> QED BY <2>3, <3>1, <3>3 DEF IsPrefix
  <2> QED BY <2>1, <2>4 DEF all, shown
<1> QED BY <1>1, <1>2, <1>3, PTL DEF Spec

-----------------------------------------------------------------------------
\* Lists with a condition

(* The concatenations of two lists of sequences are concatenated. *)
LEMMA FlattenConcat ==
    ASSUME NEW I, NEW p \in Seq(Seq(I)), NEW q \in Seq(Seq(I))
    PROVE  FlattenSeq(p \o q) = FlattenSeq(p) \o FlattenSeq(q)
<1> DEFINE P == {r \in Seq(Seq(I)) : FlattenSeq(p \o r) = FlattenSeq(p) \o FlattenSeq(r)}
<1>0. FlattenSeq(p) \in Seq(I)
  BY FlattenFacts
<1>1. P \in SUBSET Seq(Seq(I)) /\ <<>> \in P
  <2>1. p \o <<>> = p /\ <<>> \in Seq(Seq(I)) /\ FlattenSeq(<<>>) = <<>>
    BY FlattenFacts
  <2>2. FlattenSeq(p) \o <<>> = FlattenSeq(p)
    BY <1>0, ConcatEmptySeq
  <2> QED BY <2>1, <2>2
<1>2. ASSUME NEW r \in P, NEW s \in Seq(I) PROVE Append(r, s) \in P
  <2>1. r \in Seq(Seq(I)) /\ FlattenSeq(p \o r) = FlattenSeq(p) \o FlattenSeq(r)
    OBVIOUS
  <2>2. p \o r \in Seq(Seq(I)) /\ Append(r, s) \in Seq(Seq(I))
    BY <2>1, ConcatProperties, AppendProperties
  <2>3. p \o Append(r, s) = Append(p \o r, s)
    <3>1. /\ Append(r, s) = r \o <<s>> /\ Append(p \o r, s) = (p \o r) \o <<s>>
          /\ <<s>> \in Seq(Seq(I))
      BY <2>1, <2>2, AppendIsConcat
    <3> QED BY <2>1, <3>1, ConcatAssociative
  <2>4. FlattenSeq(Append(p \o r, s)) = FlattenSeq(p \o r) \o s
    BY <2>2, FlattenAppend
  <2>5. FlattenSeq(Append(r, s)) = FlattenSeq(r) \o s /\ FlattenSeq(r) \in Seq(I)
    BY <2>1, FlattenAppend, FlattenFacts, SMTT(40)
  <2>6. (FlattenSeq(p) \o FlattenSeq(r)) \o s = FlattenSeq(p) \o (FlattenSeq(r) \o s)
    BY <1>0, <2>5, ConcatAssociative, SMTT(40)
  <2> QED BY <2>1, <2>2, <2>3, <2>4, <2>5, <2>6
<1> HIDE DEF P
<1>3. P = Seq(Seq(I))
  BY <1>1, <1>2, SequencesByAppending
<1> QED BY <1>3 DEF P

(* What a concatenation has is what its sequences have. *)
LEMMA FlattenRange ==
    ASSUME NEW I, NEW p \in Seq(Seq(I))
    PROVE  Range(FlattenSeq(p)) = UNION {Range(p[i]) : i \in DOMAIN p}
<1> DEFINE All(r) == UNION {Range(r[i]) : i \in DOMAIN r}
           P == {r \in Seq(Seq(I)) : Range(FlattenSeq(r)) = All(r)}
<1>1. P \in SUBSET Seq(Seq(I)) /\ <<>> \in P
  <2>1. <<>> \in Seq(Seq(I)) /\ FlattenSeq(<<>>) = <<>>
    BY FlattenFacts
  <2>2. Range(<<>>) = {} /\ All(<<>>) = {}
    BY DEF Range
  <2> QED BY <2>1, <2>2
<1>2. ASSUME NEW r \in P, NEW s \in Seq(I) PROVE Append(r, s) \in P
  <2>1. r \in Seq(Seq(I)) /\ Range(FlattenSeq(r)) = All(r)
    OBVIOUS
  <2>2. FlattenSeq(Append(r, s)) = FlattenSeq(r) \o s /\ FlattenSeq(r) \in Seq(I)
    BY <2>1, FlattenAppend, FlattenFacts
  <2>3. Range(FlattenSeq(r) \o s) = Range(FlattenSeq(r)) \cup Range(s)
    BY <2>2, RangeConcatenation
  <2>4. All(Append(r, s)) = All(r) \cup Range(s)
    <3> DEFINE n == Len(r) + 1
    <3>1. /\ DOMAIN r = 1 .. Len(r) /\ DOMAIN Append(r, s) = 1 .. n /\ n \in 1 .. n
          /\ 1 .. n = 1 .. Len(r) \cup {n}
          /\ Append(r, s)[n] = s /\ \A i \in 1 .. Len(r) : Append(r, s)[i] = r[i]
      BY <2>1, AppendProperties, LenProperties
    <3> HIDE DEF n
    <3>2. \A i \in DOMAIN r : i \in DOMAIN Append(r, s) /\ Append(r, s)[i] = r[i]
      BY <3>1
    <3>3. \A i \in DOMAIN Append(r, s) : i \in DOMAIN r \/ i = n
      BY <3>1
    <3> DEFINE a == Append(r, s)
    <3>4. n \in DOMAIN a /\ a[n] = s
      BY <3>1
    <3> HIDE DEF a
    <3> QED BY <3>2, <3>3, <3>4 DEF a
  <2>5. Append(r, s) \in Seq(Seq(I))
    BY <2>1, AppendProperties
  <2> HIDE DEF All
  <2> QED BY <2>1, <2>2, <2>3, <2>4, <2>5
<1> HIDE DEF P
<1>3. P = Seq(Seq(I))
  BY <1>1, <1>2, SequencesByAppending
<1> QED BY <1>3 DEF P

(* Nothing but empty sequences. *)
LEMMA FlattenNothing ==
    ASSUME NEW p \in Seq({<< >>})
    PROVE  FlattenSeq(p) = << >>
<1>1. p \in Seq(Seq({}))
  <2>1. Len(p) \in Nat /\ p \in [1 .. Len(p) -> {<< >>}]
    BY LenProperties
  <2>2. << >> \in Seq({}) /\ \A i \in 1 .. Len(p) : p[i] = << >>
    BY <2>1, EmptySeq
  <2>3. p \in [1 .. Len(p) -> Seq({})]
    BY <2>1, <2>2
  <2> QED BY <2>1, <2>3
<1>2. FlattenSeq(p) \in Seq({})
  BY <1>1, FlattenFacts
<1> QED BY <1>2

(* The elements that are in G, in their order: what Where gives. *)
Kept(s, G) == FlattenSeq([i \in DOMAIN s |-> IF s[i] \in G THEN <<s[i]>> ELSE << >>])

(* They are elements of the list, and all of it that are in G. *)
LEMMA KeptFacts ==
    ASSUME NEW I, NEW s \in Seq(I), NEW G
    PROVE  Kept(s, G) \in Seq(I) /\ Range(Kept(s, G)) = Range(s) \cap G
<1> DEFINE p == [i \in DOMAIN s |-> IF s[i] \in G THEN <<s[i]>> ELSE << >>]
<1>1. DOMAIN s = 1 .. Len(s) /\ Len(s) \in Nat /\ \A i \in DOMAIN s : s[i] \in I
  BY LenProperties, ElementOfSeq
<1>2. p \in [1 .. Len(s) -> Seq(I)]
  BY <1>1
<1>3. p \in Seq(Seq(I)) /\ DOMAIN p = DOMAIN s
  BY <1>1, <1>2
<1>4. \A i \in DOMAIN s : Range(p[i]) = {s[i]} \cap G
  <2>1. Range(<< >>) = {} /\ \A x : Range(<<x>>) = {x}
    BY DEF Range
  <2> QED BY <2>1
<1> HIDE DEF p
<1>5. Range(FlattenSeq(p)) = UNION {Range(p[i]) : i \in DOMAIN p}
  BY <1>3, FlattenRange
<1>6. Range(FlattenSeq(p)) = Range(s) \cap G
  <2>1. Range(s) = {s[i] : i \in DOMAIN s}
    BY DEF Range
  <2>2. UNION {Range(p[i]) : i \in DOMAIN p} = Range(s) \cap G
    <3>1. \A x : x \in UNION {Range(p[i]) : i \in DOMAIN p} <=>
                    \E i \in DOMAIN s : x \in Range(p[i])
      BY <1>3
    <3>2. \A x : (\E i \in DOMAIN s : x \in Range(p[i])) <=>
                    \E i \in DOMAIN s : x = s[i] /\ x \in G
      BY <1>4
    <3>3. \A x : x \in Range(s) \cap G <=> \E i \in DOMAIN s : x = s[i] /\ x \in G
      BY <2>1
    <3> DEFINE A == UNION {Range(p[i]) : i \in DOMAIN p}
               B == Range(s) \cap G
    <3>4. \A x : x \in A <=> x \in B
      BY <3>1, <3>2, <3>3, Zenon
    <3> HIDE DEF A, B
    <3>5. A = B
      BY <3>4
    <3> QED BY <3>5 DEF A, B
  <2> QED BY <1>5, <2>2
<1>7. FlattenSeq(p) \in Seq(I)
  BY <1>3, FlattenFacts
<1> QED BY <1>6, <1>7 DEF p, Kept

-----------------------------------------------------------------------------
\* Fields read from tags

(* No tag of the name, or tags of its name only in copies. *)
Lacks(tags, name) == \A i \in DOMAIN tags : tags[i].name # name

Holds(tags, t) ==
    /\ \E i \in DOMAIN tags : tags[i] = t
    /\ \A i \in DOMAIN tags : tags[i].name = t.name => tags[i] = t

(* The accessors find the tag that is there, if its type is one of those wanted. *)
LEMMA FirstFacts ==
    ASSUME NEW tags, DOMAIN tags \in SUBSET Nat, NEW types
    PROVE  /\ \A name : Lacks(tags, name) => FirstOfType(tags, name, types) = << >>
           /\ \A t : Holds(tags, t) => FirstOfType(tags, t.name, types) =
                                           IF t.type \in types THEN <<t>> ELSE << >>
<1>1. ASSUME NEW name, Lacks(tags, name) PROVE FirstOfType(tags, name, types) = << >>
  <2>1. {i \in DOMAIN tags : tags[i].name = name} = {}
    BY <1>1 DEF Lacks
  <2> QED BY <2>1 DEF FirstOfType
<1>2. ASSUME NEW t, Holds(tags, t)
      PROVE  FirstOfType(tags, t.name, types) = IF t.type \in types THEN <<t>> ELSE << >>
  <2> DEFINE at == {i \in DOMAIN tags : tags[i].name = t.name}
             first == CHOOSE i \in at : \A j \in at : i <= j
  <2>1. at # {} /\ at \in SUBSET Nat /\ \A i \in at : tags[i] = t
    BY <1>2 DEF Holds
  <2>2. FirstOfType(tags, t.name, types) =
            IF at # {} /\ tags[first].type \in types THEN <<tags[first]>> ELSE << >>
    BY Zenon DEF FirstOfType
  <2> HIDE DEF at
  <2>3. \E i \in at : \A j \in at : i <= j
    BY <2>1, LeastNatural
  <2>4. first \in at
    BY <2>3
  <2> HIDE DEF first
  <2>5. tags[first] = t
    BY <2>1, <2>4
  <2> QED BY <2>1, <2>2, <2>5
<1> QED BY <1>1, <1>2

(* What a field is when its tag is missing: the calls that wait for it raise, the others *)
(* have None or a default. *)
LEMMA ReadAbsent ==
    ASSUME NEW tags, DOMAIN tags \in SUBSET Nat, NEW name, Lacks(tags, name), NEW how
    PROVE  /\ how \in {"hash16?", "string?", "rating?", "short?", "int?", "long?", "uint32?",
                       "uint16?", "flag?", "buddy?", "static?"} => Read(how, tags, name) = <<None>>
           /\ how \in {"priority", "short", "int", "long"} => Read(how, tags, name) = <<0>>
           /\ how = "flag" => Read(how, tags, name) = <<FALSE>>
           /\ how \in {"hash16!", "string!", "byte!", "salt!", "int!"} =>
                  Read(how, tags, name) = Raised
<1>1. \A types : FirstOfType(tags, name, types) = << >>
  BY FirstFacts
<1>2. /\ find_numeric(tags, name) = << >> /\ find_byte(tags, name) = << >>
      /\ find_short(tags, name) = << >> /\ find_int(tags, name) = << >>
      /\ find_long(tags, name) = << >> /\ find_string(tags, name) = << >>
      /\ find_hash16(tags, name) = << >>
  BY <1>1, Zenon DEF find_numeric, find_byte, find_short, find_int, find_long,
                    find_string, find_hash16
<1>3. \A v : byte_or(tags, name, v) = <<v>>
  BY <1>2 DEF byte_or, Got
<1>4. to_signed_byte(0) = 0
  BY DEF to_signed_byte
<1> DEFINE r == Read(how, tags, name)
<1>5. /\ how = "hash16?" => r = <<None>>
      /\ how = "string?" => r = <<None>>
      /\ how = "rating?" => r = <<None>>
      /\ how = "short?"  => r = <<None>>
      /\ how = "int?"    => r = <<None>>
      /\ how = "long?"   => r = <<None>>
      /\ how = "uint32?" => r = <<None>>
      /\ how = "uint16?" => r = <<None>>
      /\ how = "flag?"   => r = <<None>>
      /\ how = "buddy?"  => r = <<None>>
      /\ how = "static?" => r = <<None>>
  BY <1>2 DEF Read, Got
<1>6. /\ how = "priority" => r = <<0>>
      /\ how = "short" => r = <<0>>
      /\ how = "int"   => r = <<0>>
      /\ how = "long"  => r = <<0>>
      /\ how = "flag"  => r = <<FALSE>>
  <2>1. <<0>> # << >> /\ <<0>>[1] = 0 /\ 0 # 1
    OBVIOUS
  <2>2. how = "priority" => r = <<0>>
    BY <1>3, <1>4, <2>1 DEF Read, Then, Raised
  <2>3. how = "flag" => r = <<FALSE>>
    BY <1>3, <2>1 DEF Read, Then, Raised
  <2>4. /\ how = "short" => r = <<0>>
        /\ how = "int"   => r = <<0>>
        /\ how = "long"  => r = <<0>>
    BY <1>2 DEF Read, Got
  <2> HIDE DEF r
  <2> QED BY <2>2, <2>3, <2>4
<1>7. /\ how = "hash16!" => r = Raised
      /\ how = "string!" => r = Raised
      /\ how = "byte!"   => r = Raised
      /\ how = "salt!"   => r = Raised
      /\ how = "int!"    => r = Raised
  BY <1>2 DEF Read, Must, Then, Raised
<1> HIDE DEF r
<1> QED BY <1>5, <1>6, <1>7 DEF r

(* Which types of tag the accessors find. *)
LEMMA FoundFacts ==
    ASSUME NEW tags, DOMAIN tags \in SUBSET Nat, NEW t, Holds(tags, t)
    PROVE  /\ find_numeric(tags, t.name) =
                  IF t.type \in {"UINT8", "UINT16", "UINT32", "UINT64"} THEN <<t>> ELSE << >>
           /\ find_byte(tags, t.name)   = IF t.type = "UINT8" THEN <<t>> ELSE << >>
           /\ find_short(tags, t.name)  = IF t.type = "UINT16" THEN <<t>> ELSE << >>
           /\ find_int(tags, t.name)    = IF t.type = "UINT32" THEN <<t>> ELSE << >>
           /\ find_long(tags, t.name)   = IF t.type = "UINT64" THEN <<t>> ELSE << >>
           /\ find_string(tags, t.name) = IF t.type = "STRING" THEN <<t>> ELSE << >>
           /\ find_hash16(tags, t.name) = IF t.type = "HASH16" THEN <<t>> ELSE << >>
<1>1. \A types : FirstOfType(tags, t.name, types) = IF t.type \in types THEN <<t>> ELSE << >>
  BY FirstFacts
<1>2. DOMAIN NumericSize = {"UINT8", "UINT16", "UINT32", "UINT64"}
  BY DEF NumericSize
<1>3. find_numeric(tags, t.name) = IF t.type \in DOMAIN NumericSize THEN <<t>> ELSE << >>
  BY <1>1, Zenon DEF find_numeric
<1>4. /\ find_byte(tags, t.name)   = IF t.type \in {"UINT8"} THEN <<t>> ELSE << >>
      /\ find_short(tags, t.name)  = IF t.type \in {"UINT16"} THEN <<t>> ELSE << >>
      /\ find_int(tags, t.name)    = IF t.type \in {"UINT32"} THEN <<t>> ELSE << >>
      /\ find_long(tags, t.name)   = IF t.type \in {"UINT64"} THEN <<t>> ELSE << >>
      /\ find_string(tags, t.name) = IF t.type \in {"STRING"} THEN <<t>> ELSE << >>
      /\ find_hash16(tags, t.name) = IF t.type \in {"HASH16"} THEN <<t>> ELSE << >>
  BY <1>1, Zenon DEF find_byte, find_short, find_int, find_long, find_string, find_hash16
<1>5. \A x : t.type \in {x} <=> t.type = x
  OBVIOUS
<1> QED BY <1>2, <1>3, <1>4, <1>5, Zenon

(* What the fields are that a listing is made of. *)
LEMMA ReadPresent ==
    ASSUME NEW tags, DOMAIN tags \in SUBSET Nat, NEW t, Holds(tags, t)
    PROVE  /\ t.type = "HASH16" => Read("hash16?", tags, t.name) = <<<<t.value>>>>
           /\ t.type = "STRING" => Read("string?", tags, t.name) = <<<<t.value>>>>
           /\ t.type \in {"UINT8", "UINT16", "UINT32", "UINT64"} =>
                  Read("long?", tags, t.name) = <<<<t.value>>>>
           /\ t.type \in {"UINT8", "UINT16"} => Read("short", tags, t.name) = <<t.value>>
           /\ t.type = "UINT8" => \A v : byte_or(tags, t.name, v) = <<t.value>>
<1> DEFINE numeric == find_numeric(tags, t.name)
           byte    == find_byte(tags, t.name)
           string  == find_string(tags, t.name)
           hash16  == find_hash16(tags, t.name)
<1>1. /\ t.type \in {"UINT8", "UINT16", "UINT32", "UINT64"} => numeric = <<t>>
      /\ t.type = "UINT8" => byte = <<t>>
      /\ t.type = "STRING" => string = <<t>>
      /\ t.type = "HASH16" => hash16 = <<t>>
  BY FoundFacts
<1>2. <<t>> # << >> /\ <<t>>[1] = t /\ <<t.value>> # << >>
  OBVIOUS
<1>3. DOMAIN NumericSize = {"UINT8", "UINT16", "UINT32", "UINT64"}
  BY DEF NumericSize
<1>4. /\ t.type \in {"UINT8", "UINT16", "UINT32", "UINT64"} =>
             OptionOf(get_long(t)) = <<<<t.value>>>>
      /\ t.type \in {"UINT8", "UINT16"} => get_short(t) = <<t.value>>
      /\ Some(t) = <<<<t.value>>>> /\ Value(t) = <<t.value>>
  BY <1>2, <1>3 DEF get_long, get_short, OptionOf, Some, Value, Raised
<1> DEFINE r(how) == Read(how, tags, t.name)
<1>5. /\ r("hash16?") = IF hash16 = << >> THEN <<None>> ELSE Some(hash16[1])
      /\ r("string?") = IF string = << >> THEN <<None>> ELSE Some(string[1])
  BY DEF Read, Got
<1>6. r("long?") = IF numeric = << >> THEN <<None>> ELSE OptionOf(get_long(numeric[1]))
  BY DEF Read, Got
<1>7. r("short") = IF numeric = << >> THEN <<0>> ELSE get_short(numeric[1])
  BY DEF Read, Got
<1>8. \A v : byte_or(tags, t.name, v) = IF byte = << >> THEN <<v>> ELSE Value(byte[1])
  BY DEF byte_or, Got
<1> HIDE DEF numeric, byte, string, hash16, r
<1>9. /\ t.type = "HASH16" => r("hash16?") = <<<<t.value>>>>
      /\ t.type = "STRING" => r("string?") = <<<<t.value>>>>
  BY <1>1, <1>2, <1>4, <1>5
<1>10. t.type \in {"UINT8", "UINT16", "UINT32", "UINT64"} => r("long?") = <<<<t.value>>>>
  BY <1>1, <1>2, <1>4, <1>6
<1>11. t.type \in {"UINT8", "UINT16"} => r("short") = <<t.value>>
  BY <1>1, <1>2, <1>4, <1>7
<1>12. t.type = "UINT8" => \A v : byte_or(tags, t.name, v) = <<t.value>>
  BY <1>1, <1>2, <1>4, <1>8
<1> QED BY <1>9, <1>10, <1>11, <1>12 DEF r

(* When a field raises on a tag that is there: when the tag is of a type the field does not *)
(* look for and cannot do without, or of one too wide for it. *)
LEMMA ReadRaises ==
    ASSUME NEW tags, DOMAIN tags \in SUBSET Nat, NEW t, Holds(tags, t)
    PROVE  \A how \in {"hash16?", "string?", "rating?", "long?", "uint32?", "uint16?", "flag?",
                       "priority", "buddy?", "flag", "long", "short?", "short", "int?", "int",
                       "static?", "hash16!", "string!", "byte!", "salt!", "int!"} :
               Read(how, tags, t.name) = Raised <=>
                   \/ how \in {"short?", "short"} /\ t.type \in {"UINT32", "UINT64"}
                   \/ how \in {"int?", "int", "static?"} /\ t.type = "UINT64"
                   \/ how = "hash16!" /\ t.type # "HASH16"
                   \/ how = "string!" /\ t.type # "STRING"
                   \/ how = "byte!" /\ t.type # "UINT8"
                   \/ how = "salt!" /\ t.type # "UINT64"
                   \/ how = "int!" /\ t.type \notin {"UINT8", "UINT16", "UINT32"}
<1> DEFINE numeric == find_numeric(tags, t.name)
           byte    == find_byte(tags, t.name)
           short   == find_short(tags, t.name)
           int     == find_int(tags, t.name)
           long    == find_long(tags, t.name)
           string  == find_string(tags, t.name)
           hash16  == find_hash16(tags, t.name)
           r(how)  == Read(how, tags, t.name)
<1>1. /\ numeric = IF t.type \in {"UINT8", "UINT16", "UINT32", "UINT64"} THEN <<t>> ELSE << >>
      /\ byte    = IF t.type = "UINT8" THEN <<t>> ELSE << >>
      /\ short   = IF t.type = "UINT16" THEN <<t>> ELSE << >>
      /\ int     = IF t.type = "UINT32" THEN <<t>> ELSE << >>
      /\ long    = IF t.type = "UINT64" THEN <<t>> ELSE << >>
      /\ string  = IF t.type = "STRING" THEN <<t>> ELSE << >>
      /\ hash16  = IF t.type = "HASH16" THEN <<t>> ELSE << >>
  BY FoundFacts, Zenon
<1>2. <<t>> # << >> /\ <<t>>[1] = t /\ \A v : <<v>> # << >>
  OBVIOUS
<1>3. DOMAIN NumericSize = {"UINT8", "UINT16", "UINT32", "UINT64"}
  BY DEF NumericSize
<1>4. /\ get_long(t)  = IF t.type \in {"UINT8", "UINT16", "UINT32", "UINT64"} THEN <<t.value>>
                         ELSE << >>
      /\ get_int(t)   = IF t.type \in {"UINT8", "UINT16", "UINT32"} THEN <<t.value>> ELSE << >>
      /\ get_short(t) = IF t.type \in {"UINT8", "UINT16"} THEN <<t.value>> ELSE << >>
      /\ \A v : OptionOf(v) = IF v = << >> THEN << >> ELSE <<v>>
  BY <1>3, Zenon DEF get_long, get_int, get_short, OptionOf, Raised
<1>5. \A v : byte_or(tags, t.name, v) # << >>
  BY <1>1, <1>2 DEF byte_or, Got, Value
<1> HIDE DEF numeric, byte, short, int, long, string, hash16
<1>6. /\ r("hash16?") # << >> /\ r("string?") # << >> /\ r("rating?") # << >>
      /\ r("uint32?") # << >> /\ r("uint16?") # << >> /\ r("flag?") # << >> /\ r("buddy?") # << >>
  BY <1>2 DEF Read, Got, Some, numeric, byte, short, int, long, string, hash16
<1>7. r("priority") # << >> /\ r("flag") # << >>
  BY <1>2, <1>5 DEF Read, Then, Raised
<1>8. r("long?") # << >> /\ r("long") # << >>
  BY <1>1, <1>2, <1>4 DEF Read, Got, numeric
<1>9. /\ r("short?") = << >> <=> t.type \in {"UINT32", "UINT64"}
      /\ r("short") = << >> <=> t.type \in {"UINT32", "UINT64"}
  BY <1>1, <1>2, <1>4 DEF Read, Got, numeric
<1>10. /\ r("int?") = << >> <=> t.type = "UINT64"
       /\ r("int") = << >> <=> t.type = "UINT64"
  BY <1>1, <1>2, <1>4 DEF Read, Got, numeric
<1>11. r("static?") = << >> <=> t.type = "UINT64"
  BY <1>1, <1>2, <1>4 DEF Read, Got, Then, Raised, numeric
<1>12. /\ r("hash16!") = << >> <=> t.type # "HASH16"
       /\ r("string!") = << >> <=> t.type # "STRING"
       /\ r("byte!") = << >> <=> t.type # "UINT8"
       /\ r("salt!") = << >> <=> t.type # "UINT64"
  BY <1>1, <1>2 DEF Read, Must, Value, Raised, byte, long, string, hash16
<1>13. r("int!") = << >> <=> t.type \notin {"UINT8", "UINT16", "UINT32"}
  BY <1>1, <1>2, <1>4 DEF Read, Then, Raised, numeric
<1> HIDE DEF r
<1> QED
  <2> TAKE how \in {"hash16?", "string?", "rating?", "long?", "uint32?", "uint16?", "flag?",
                       "priority", "buddy?", "flag", "long", "short?", "short", "int?", "int",
                       "static?", "hash16!", "string!", "byte!", "salt!", "int!"}
  <2>1. r(how) = << >> <=>
                   \/ how \in {"short?", "short"} /\ t.type \in {"UINT32", "UINT64"}
                   \/ how \in {"int?", "int", "static?"} /\ t.type = "UINT64"
                   \/ how = "hash16!" /\ t.type # "HASH16"
                   \/ how = "string!" /\ t.type # "STRING"
                   \/ how = "byte!" /\ t.type # "UINT8"
                   \/ how = "salt!" /\ t.type # "UINT64"
                   \/ how = "int!" /\ t.type \notin {"UINT8", "UINT16", "UINT32"}
    BY <1>6, <1>7, <1>8, <1>9, <1>10, <1>11, <1>12, <1>13
  <2> QED BY <2>1 DEF r, Raised

(* A list of tags in which each name occurs once. *)
Distinct(tags) == \A i, j \in DOMAIN tags : tags[i].name = tags[j].name => i = j

(* What a varied list holds and lacks. *)
LEMMA VariedFacts ==
    ASSUME NEW I, NEW tags \in Seq(I), Distinct(tags), NEW v, v.more \in Seq(I),
           \A i, j \in DOMAIN v.more : v.more[i] = v.more[j],
           \A i \in DOMAIN v.more, j \in DOMAIN tags : v.more[i].name # tags[j].name
    PROVE  LET T == Varied(tags, v) IN
           /\ DOMAIN T \in SUBSET Nat /\ T \in Seq(I)
           /\ \A i \in DOMAIN tags : tags[i].name \notin v.without => Holds(T, tags[i])
           /\ \A i \in DOMAIN tags : tags[i].name \in v.without => Lacks(T, tags[i].name)
           /\ \A i \in DOMAIN v.more : Holds(T, v.more[i])
           /\ \A name : /\ \A i \in DOMAIN tags : tags[i].name # name
                        /\ \A i \in DOMAIN v.more : v.more[i].name # name
                        => Lacks(T, name)
<1> DEFINE T == Varied(tags, v)
           G == {t \in I : t.name \notin v.without}
           K == Kept(tags, G)
           more == v.more
<1>1. \A i \in DOMAIN tags : tags[i] \in I
  BY ElementOfSeq, LenProperties
<1>2. Where(tags, LAMBDA t : t.name \notin v.without) = K
  <2>1. \A i \in DOMAIN tags : tags[i] \in G <=> tags[i].name \notin v.without
    BY <1>1
  <2>2. [i \in DOMAIN tags |-> IF tags[i].name \notin v.without THEN <<tags[i]>> ELSE << >>]
            = [i \in DOMAIN tags |-> IF tags[i] \in G THEN <<tags[i]>> ELSE << >>]
    BY <2>1
  <2> HIDE DEF G
  <2> QED BY <2>2, Zenon DEF Where, Kept
<1>3. T = K \o more
  BY <1>2, Zenon DEF Varied
<1>4. K \in Seq(I) /\ Range(K) = Range(tags) \cap G
  BY KeptFacts
<1>5. T \in Seq(I) /\ Range(T) = (Range(tags) \cap G) \cup Range(more)
  <2> HIDE DEF K, G, T
  <2> QED BY <1>3, <1>4, ConcatProperties, RangeConcatenation
<1>6. DOMAIN T \in SUBSET Nat
  <2> HIDE DEF T
  <2> QED BY <1>5, LenProperties
<1>7. /\ \A x : x \in Range(T) <=> \E i \in DOMAIN T : x = T[i]
      /\ \A x : x \in Range(tags) <=> \E i \in DOMAIN tags : x = tags[i]
      /\ \A x : x \in Range(more) <=> \E i \in DOMAIN more : x = more[i]
  <2> HIDE DEF T, more
  <2> QED BY DEF Range
<1>8. \A x : x \in G <=> x \in I /\ x.name \notin v.without
  OBVIOUS
<1>9. \A x : (\E i \in DOMAIN T : x = T[i]) <=>
                 \/ x.name \notin v.without /\ \E i \in DOMAIN tags : x = tags[i]
                 \/ \E i \in DOMAIN more : x = more[i]
  <2> HIDE DEF T, G, more
  <2> QED BY <1>1, <1>5, <1>7, <1>8
<1>10. \A i \in DOMAIN tags, j \in DOMAIN tags : tags[i].name = tags[j].name => tags[i] = tags[j]
  BY DEF Distinct
<1> HIDE DEF T
<1>11. \A i \in DOMAIN tags : tags[i].name \notin v.without => Holds(T, tags[i])
  BY <1>9, <1>10 DEF Holds
<1>12. \A i \in DOMAIN tags : tags[i].name \in v.without => Lacks(T, tags[i].name)
  BY <1>9 DEF Lacks
<1>13. \A i \in DOMAIN more : Holds(T, more[i])
  BY <1>9, SMTT(40) DEF Holds
<1>14. \A name : /\ \A i \in DOMAIN tags : tags[i].name # name
                 /\ \A i \in DOMAIN more : more[i].name # name
                 => Lacks(T, name)
  BY <1>9 DEF Lacks
<1> QED
  BY <1>5, <1>6, <1>11, <1>12, <1>13, <1>14 DEF T

(* A file as aMule has it. *)
IsFile(x) ==
    /\ x.size \in Nat /\ x.done \in Nat /\ x.done <= x.size /\ x.speed \in Nat
    /\ x.sources \in Nat /\ x.sources <= 65535 /\ x.status \in FileStatus

(* The tags of a file, each of its own name. *)
LEMMA FileTagsFacts ==
    ASSUME NEW f, IsFile(f)
    PROVE  LET tags == FileTags(f) IN
           /\ DOMAIN tags = 1 .. 7 /\ tags \in Seq(Range(tags)) /\ Distinct(tags)
           /\ tags[1] = Leaf("PARTFILE_HASH", "HASH16", f.hash)
           /\ tags[2] = Leaf("PARTFILE_NAME", "STRING", f.name)
           /\ tags[3] = Leaf("PARTFILE_SIZE_FULL", "UINT64", f.size)
           /\ tags[4] = Num("PARTFILE_SIZE_DONE", f.done)
           /\ tags[5] = Num("PARTFILE_SPEED", f.speed)
           /\ tags[6] = Leaf("PARTFILE_STATUS", "UINT8", f.status)
           /\ tags[7] = Num("PARTFILE_SOURCE_COUNT_XFER", f.sources)
           /\ tags[7].type \in {"UINT8", "UINT16"}
           /\ \A i \in {4, 5, 7} : tags[i].type \in {"UINT8", "UINT16", "UINT32", "UINT64"}
           /\ tags[1].name = "PARTFILE_HASH" /\ tags[2].name = "PARTFILE_NAME"
           /\ tags[3].name = "PARTFILE_SIZE_FULL" /\ tags[4].name = "PARTFILE_SIZE_DONE"
           /\ tags[5].name = "PARTFILE_SPEED" /\ tags[6].name = "PARTFILE_STATUS"
           /\ tags[7].name = "PARTFILE_SOURCE_COUNT_XFER"
<1> DEFINE tags == FileTags(f)
<1>1. DOMAIN tags = 1 .. 7 /\ Len(tags) = 7
  BY DEF FileTags
<1>2. tags \in Seq(Range(tags))
  BY <1>1 DEF Range, FileTags
<1>3. /\ tags[1] = Leaf("PARTFILE_HASH", "HASH16", f.hash)
      /\ tags[2] = Leaf("PARTFILE_NAME", "STRING", f.name)
      /\ tags[3] = Leaf("PARTFILE_SIZE_FULL", "UINT64", f.size)
      /\ tags[4] = Num("PARTFILE_SIZE_DONE", f.done)
      /\ tags[5] = Num("PARTFILE_SPEED", f.speed)
      /\ tags[6] = Num("PARTFILE_STATUS", f.status)
      /\ tags[7] = Num("PARTFILE_SOURCE_COUNT_XFER", f.sources)
  BY DEF FileTags
<1>4. \A name, value : /\ Num(name, value).name = name
                       /\ Num(name, value).type \in {"UINT8", "UINT16", "UINT32"}
                       /\ Leaf(name, "HASH16", value).name = name
                       /\ Leaf(name, "STRING", value).name = name
                       /\ Leaf(name, "UINT64", value).name = name
  BY DEF Num, Leaf, Tag
<1>5. Num("PARTFILE_STATUS", f.status) = Leaf("PARTFILE_STATUS", "UINT8", f.status)
  <2>0. \A s \in 0 .. 10 : s < 256
    OBVIOUS
  <2>1. f.status < 256
    BY <2>0 DEF IsFile, FileStatus
  <2>2. \A name, value : value < 256 => Num(name, value) = Leaf(name, "UINT8", value)
    BY DEF Num
  <2> QED BY <2>1, <2>2
<1>6. Num("PARTFILE_SOURCE_COUNT_XFER", f.sources).type \in {"UINT8", "UINT16"}
  <2>1. f.sources < 65536
    BY DEF IsFile
  <2>2. \A name, value : value < 65536 => Num(name, value).type \in {"UINT8", "UINT16"}
    BY DEF Num, Leaf, Tag
  <2> QED BY <2>1, <2>2
<1> HIDE DEF tags
<1>7. /\ tags[1].name = "PARTFILE_HASH" /\ tags[2].name = "PARTFILE_NAME"
      /\ tags[3].name = "PARTFILE_SIZE_FULL" /\ tags[4].name = "PARTFILE_SIZE_DONE"
      /\ tags[5].name = "PARTFILE_SPEED" /\ tags[6].name = "PARTFILE_STATUS"
      /\ tags[7].name = "PARTFILE_SOURCE_COUNT_XFER"
  BY <1>3, <1>4
<1>8. 1 .. 7 = {1, 2, 3, 4, 5, 6, 7}
  OBVIOUS
<1>9. Distinct(tags)
  BY <1>1, <1>7, <1>8 DEF Distinct
<1>11. tags[7].type \in {"UINT8", "UINT16"}
  BY <1>3, <1>6
<1>12. \A i \in {4, 5, 7} : tags[i].type \in {"UINT8", "UINT16", "UINT32", "UINT64"}
  BY <1>3, <1>4
<1>13. tags[6] = Leaf("PARTFILE_STATUS", "UINT8", f.status)
  BY <1>3, <1>5
<1> QED
  BY <1>1, <1>2, <1>3, <1>7, <1>9, <1>11, <1>12, <1>13 DEF tags

-----------------------------------------------------------------------------
\* The fields of a file

(* The ways of a field that no reply must have, and those that do not take every number. *)
Lenient == {"hash16?", "string?", "rating?", "long?", "priority", "flag", "long", "short?",
            "short", "int"}

Narrow == {"short?", "short", "int"}

(* No field of a listed file is one that must be there, and what a file of the model has *)
(* is read with room for every number, but for the sources. *)
Tolerant(fields) ==
    \A g \in DOMAIN fields :
        /\ fields[g][1] \in Lenient
        /\ fields[g][1] \in Narrow =>
               fields[g][2] \notin {"PARTFILE_HASH", "PARTFILE_NAME", "PARTFILE_SIZE_FULL",
                   "PARTFILE_SIZE_DONE", "PARTFILE_SPEED", "PARTFILE_STATUS"}
        /\ fields[g][2] = "PARTFILE_SOURCE_COUNT_XFER" => fields[g][1] # "int"

Names(fields) ==
    /\ fields["file_hash_hex_string"] = <<"hash16?", "PARTFILE_HASH">>
    /\ fields["file_name"] = <<"string?", "PARTFILE_NAME">>
    /\ fields["size_full"] = <<"long?", "PARTFILE_SIZE_FULL">>
    /\ {"file_hash_hex_string", "file_name", "size_full"} \subseteq DOMAIN fields

(* The fields of a shared file are such a table. *)
LEMMA SharedTable == Tolerant(SharedFields) /\ Names(SharedFields)
<1>1. Tolerant(SharedFields)
  BY DEF SharedFields, Lenient, Narrow, Tolerant
<1>2. Names(SharedFields)
  BY DEF SharedFields, Names
<1> QED BY <1>1, <1>2

(* Those of a download are one too, with what is done, the speed and the sources. *)
LEMMA PartTable ==
    /\ Tolerant(PartFields)
    /\ Names(PartFields)
    /\ PartFields["size_done"] = <<"long?", "PARTFILE_SIZE_DONE">>
    /\ PartFields["speed"] = <<"long?", "PARTFILE_SPEED">>
    /\ PartFields["source_xfer_count"] = <<"short", "PARTFILE_SOURCE_COUNT_XFER">>
    /\ {"size_done", "speed", "source_xfer_count"} \subseteq DOMAIN PartFields
<1>1. PICK x : /\ PartFields = Joined(SharedFields, x) /\ Tolerant(x)
               /\ x["size_done"] = <<"long?", "PARTFILE_SIZE_DONE">>
               /\ x["speed"] = <<"long?", "PARTFILE_SPEED">>
               /\ x["source_xfer_count"] = <<"short", "PARTFILE_SOURCE_COUNT_XFER">>
               /\ {"size_done", "speed", "source_xfer_count"} \subseteq DOMAIN x
  BY DEF PartFields, Tolerant, Lenient, Narrow
<1>2. "size_done" \notin DOMAIN SharedFields /\ "speed" \notin DOMAIN SharedFields
      /\ "source_xfer_count" \notin DOMAIN SharedFields
  BY DEF SharedFields
<1>3. /\ DOMAIN PartFields = DOMAIN SharedFields \cup DOMAIN x
      /\ \A g \in DOMAIN PartFields :
             PartFields[g] = IF g \in DOMAIN SharedFields THEN SharedFields[g] ELSE x[g]
  BY <1>1 DEF Joined
<1>4. Tolerant(PartFields)
  BY <1>1, <1>3, SharedTable DEF Tolerant
<1>5. Names(PartFields)
  BY <1>3, SharedTable DEF Names
<1> QED BY <1>1, <1>2, <1>3, <1>4, <1>5

(* The tags of a file in a reply, some left out. *)
Sent(f, W) == Varied(FileTags(f), [without |-> W, more |-> << >>])

(* What of a file is in them. *)
LEMMA SentFacts ==
    ASSUME NEW f, IsFile(f), NEW W
    PROVE  /\ DOMAIN Sent(f, W) \in SUBSET Nat
           /\ \A i \in 1 .. 7 :
                  IF FileTags(f)[i].name \in W THEN Lacks(Sent(f, W), FileTags(f)[i].name)
                  ELSE Holds(Sent(f, W), FileTags(f)[i])
           /\ \A name : (\A i \in 1 .. 7 : FileTags(f)[i].name # name) => Lacks(Sent(f, W), name)
<1> DEFINE v == [without |-> W, more |-> << >>]
           tags == FileTags(f)
<1>1. v.more = << >> /\ v.without = W
  OBVIOUS
<1>2. DOMAIN tags = 1 .. 7 /\ tags \in Seq(Range(tags)) /\ Distinct(tags)
  BY FileTagsFacts
<1>3. << >> \in Seq(Range(tags)) /\ DOMAIN << >> = {}
  OBVIOUS
<1> HIDE DEF v, tags
<1>4. LET T == Varied(tags, v) IN
           /\ DOMAIN T \in SUBSET Nat
           /\ \A i \in DOMAIN tags : tags[i].name \notin v.without => Holds(T, tags[i])
           /\ \A i \in DOMAIN tags : tags[i].name \in v.without => Lacks(T, tags[i].name)
           /\ \A i \in DOMAIN v.more : Holds(T, v.more[i])
           /\ \A name : /\ \A i \in DOMAIN tags : tags[i].name # name
                        /\ \A i \in DOMAIN v.more : v.more[i].name # name
                        => Lacks(T, name)
  <2>1. v.more \in Seq(Range(tags)) /\ \A i \in DOMAIN v.more : FALSE
    BY <1>1, <1>3
  <2> QED BY <1>2, <2>1, VariedFacts
<1>5. Sent(f, W) = Varied(tags, v)
  BY DEF Sent, tags, v
<1>6. \A i \in DOMAIN v.more : FALSE
  BY <1>1, <1>3
<1> QED BY <1>1, <1>2, <1>4, <1>5, <1>6 DEF tags

(* Whatever tags of a file are left out, none of its fields raises. *)
LEMMA TolerantRead ==
    ASSUME NEW f, IsFile(f), NEW W, NEW fields, Tolerant(fields)
    PROVE  /\ \A g \in DOMAIN fields : Read(fields[g][1], Sent(f, W), fields[g][2]) # Raised
           /\ ReadAll(fields, Sent(f, W)) =
                  <<[g \in DOMAIN fields |-> Read(fields[g][1], Sent(f, W), fields[g][2])[1]]>>
<1> DEFINE T == Sent(f, W)
           tags == FileTags(f)
<1>0. DOMAIN T \in SUBSET Nat
  BY SentFacts
<1>1. /\ \A i \in 1 .. 7 : IF tags[i].name \in W THEN Lacks(T, tags[i].name) ELSE Holds(T, tags[i])
      /\ \A name : (\A i \in 1 .. 7 : tags[i].name # name) => Lacks(T, name)
  BY SentFacts
<1>2. /\ tags[1].name = "PARTFILE_HASH" /\ tags[2].name = "PARTFILE_NAME"
      /\ tags[3].name = "PARTFILE_SIZE_FULL" /\ tags[4].name = "PARTFILE_SIZE_DONE"
      /\ tags[5].name = "PARTFILE_SPEED" /\ tags[6].name = "PARTFILE_STATUS"
      /\ tags[7].name = "PARTFILE_SOURCE_COUNT_XFER" /\ tags[7].type \in {"UINT8", "UINT16"}
      /\ 1 .. 7 = {1, 2, 3, 4, 5, 6, 7}
  <2>1. 1 .. 7 = {1, 2, 3, 4, 5, 6, 7}
    OBVIOUS
  <2> QED BY <2>1, FileTagsFacts
<1> HIDE DEF T, tags
<1>3. ASSUME NEW g \in DOMAIN fields PROVE Read(fields[g][1], T, fields[g][2]) # Raised
  <2> DEFINE how == fields[g][1]
             name == fields[g][2]
  <2>1. /\ how \in Lenient
        /\ how \in Narrow =>
               name \notin {"PARTFILE_HASH", "PARTFILE_NAME", "PARTFILE_SIZE_FULL",
                   "PARTFILE_SIZE_DONE", "PARTFILE_SPEED", "PARTFILE_STATUS"}
        /\ name = "PARTFILE_SOURCE_COUNT_XFER" => how # "int"
    BY DEF Tolerant
  <2> HIDE DEF how, name
  <2>2. CASE Lacks(T, name)
    <3>1. Read(how, T, name) \in {<<None>>, <<0>>, <<FALSE>>}
      BY <1>0, <2>1, <2>2, ReadAbsent DEF Lenient
    <3>2. <<None>> # << >> /\ <<0>> # << >> /\ <<FALSE>> # << >>
      OBVIOUS
    <3> QED BY <3>1, <3>2 DEF Raised, how, name
  <2>3. CASE ~Lacks(T, name)
    <3>1. PICK i \in 1 .. 7 : tags[i].name = name
      BY <1>1, <2>3
    <3>2. Holds(T, tags[i])
      BY <1>1, <2>3, <3>1
    <3>3. how \in Narrow => i = 7
      BY <1>2, <2>1, <3>1
    <3>4. how \in {"hash16?", "string?", "rating?", "long?", "uint32?", "uint16?", "flag?",
                       "priority", "buddy?", "flag", "long", "short?", "short", "int?", "int",
                       "static?", "hash16!", "string!", "byte!", "salt!", "int!"}
      BY <2>1 DEF Lenient
    <3>5. Read(how, T, tags[i].name) = Raised <=>
                   \/ how \in {"short?", "short"} /\ tags[i].type \in {"UINT32", "UINT64"}
                   \/ how \in {"int?", "int", "static?"} /\ tags[i].type = "UINT64"
                   \/ how = "hash16!" /\ tags[i].type # "HASH16"
                   \/ how = "string!" /\ tags[i].type # "STRING"
                   \/ how = "byte!" /\ tags[i].type # "UINT8"
                   \/ how = "salt!" /\ tags[i].type # "UINT64"
                   \/ how = "int!" /\ tags[i].type \notin {"UINT8", "UINT16", "UINT32"}
      BY <1>0, <3>2, <3>4, ReadRaises
    <3>6. Read(how, T, tags[i].name) # Raised
      BY <1>2, <2>1, <3>1, <3>3, <3>5 DEF Lenient, Narrow
    <3> QED BY <3>1, <3>6 DEF how, name
  <2> QED BY <2>2, <2>3
<1> DEFINE read == [g \in DOMAIN fields |-> Read(fields[g][1], T, fields[g][2])]
<1>4. ReadAll(fields, T) = Whole(read)
  BY DEF ReadAll
<1>5. DOMAIN read = DOMAIN fields
      /\ \A g \in DOMAIN fields : read[g] = Read(fields[g][1], T, fields[g][2])
  OBVIOUS
<1>6. \A g \in DOMAIN read : read[g] # Raised
  <2> HIDE DEF read
  <2> QED BY <1>3, <1>5
<1>7. Whole(read) = <<[g \in DOMAIN read |-> read[g][1]]>>
  <2> HIDE DEF read
  <2> QED BY <1>6 DEF Whole
<1>8. [g \in DOMAIN read |-> read[g][1]] =
          [g \in DOMAIN fields |-> Read(fields[g][1], T, fields[g][2])[1]]
  <2> HIDE DEF read
  <2> QED BY <1>5
<1> QED BY <1>3, <1>4, <1>7, <1>8 DEF T

(* A field that is None when its tag is left out. *)
Told(W, name, value) == IF name \in W THEN None ELSE <<value>>

(* What the fields of a file are, whatever is left out. *)
LEMMA FieldsRead ==
    ASSUME NEW f, IsFile(f), NEW W
    PROVE  LET T == Sent(f, W) IN
           /\ Read("hash16?", T, "PARTFILE_HASH") = <<Told(W, "PARTFILE_HASH", f.hash)>>
           /\ Read("string?", T, "PARTFILE_NAME") = <<Told(W, "PARTFILE_NAME", f.name)>>
           /\ Read("long?", T, "PARTFILE_SIZE_FULL") = <<Told(W, "PARTFILE_SIZE_FULL", f.size)>>
           /\ Read("long?", T, "PARTFILE_SIZE_DONE") = <<Told(W, "PARTFILE_SIZE_DONE", f.done)>>
           /\ Read("long?", T, "PARTFILE_SPEED") = <<Told(W, "PARTFILE_SPEED", f.speed)>>
           /\ Read("short", T, "PARTFILE_SOURCE_COUNT_XFER") =
                  <<IF "PARTFILE_SOURCE_COUNT_XFER" \in W THEN 0 ELSE f.sources>>
           /\ byte_or(T, "PARTFILE_STATUS", UNKNOWN) =
                  <<IF "PARTFILE_STATUS" \in W THEN UNKNOWN ELSE f.status>>
<1> DEFINE T == Sent(f, W)
           tags == FileTags(f)
<1>0. DOMAIN T \in SUBSET Nat
  BY SentFacts
<1>1. \A i \in 1 .. 7 : IF tags[i].name \in W THEN Lacks(T, tags[i].name) ELSE Holds(T, tags[i])
  BY SentFacts
<1>2. /\ tags[1].name = "PARTFILE_HASH" /\ tags[2].name = "PARTFILE_NAME"
      /\ tags[3].name = "PARTFILE_SIZE_FULL" /\ tags[4].name = "PARTFILE_SIZE_DONE"
      /\ tags[5].name = "PARTFILE_SPEED" /\ tags[6].name = "PARTFILE_STATUS"
      /\ tags[7].name = "PARTFILE_SOURCE_COUNT_XFER" /\ tags[7].type \in {"UINT8", "UINT16"}
      /\ \A i \in {4, 5, 7} : tags[i].type \in {"UINT8", "UINT16", "UINT32", "UINT64"}
  BY FileTagsFacts
<1>3. /\ tags[1].type = "HASH16" /\ tags[1].value = f.hash
      /\ tags[2].type = "STRING" /\ tags[2].value = f.name
      /\ tags[3].type = "UINT64" /\ tags[3].value = f.size
      /\ tags[4].value = f.done /\ tags[5].value = f.speed
      /\ tags[6].type = "UINT8" /\ tags[6].value = f.status
      /\ tags[7].value = f.sources
  <2>1. \A name, type, value : Leaf(name, type, value).type = type
                               /\ Leaf(name, type, value).value = value
    BY DEF Leaf, Tag
  <2>2. \A name, value : Num(name, value).value = value
    BY <2>1 DEF Num
  <2> QED BY <2>1, <2>2, FileTagsFacts
<1> HIDE DEF T, tags
<1>4. \A t : Holds(T, t) =>
           /\ t.type = "HASH16" => Read("hash16?", T, t.name) = <<<<t.value>>>>
           /\ t.type = "STRING" => Read("string?", T, t.name) = <<<<t.value>>>>
           /\ t.type \in {"UINT8", "UINT16", "UINT32", "UINT64"} =>
                  Read("long?", T, t.name) = <<<<t.value>>>>
           /\ t.type \in {"UINT8", "UINT16"} => Read("short", T, t.name) = <<t.value>>
           /\ t.type = "UINT8" => \A v : byte_or(T, t.name, v) = <<t.value>>
  BY <1>0, ReadPresent
<1>5. \A name : Lacks(T, name) =>
           /\ Read("hash16?", T, name) = <<None>> /\ Read("string?", T, name) = <<None>>
           /\ Read("long?", T, name) = <<None>> /\ Read("short", T, name) = <<0>>
  BY <1>0, ReadAbsent
<1>6. \A name : Lacks(T, name) => byte_or(T, name, UNKNOWN) = <<UNKNOWN>>
  <2> SUFFICES ASSUME NEW name, Lacks(T, name) PROVE byte_or(T, name, UNKNOWN) = <<UNKNOWN>>
    OBVIOUS
  <2>1. FirstOfType(T, name, {"UINT8"}) = << >>
    BY <1>0, FirstFacts
  <2> QED BY <2>1 DEF byte_or, find_byte, Got
<1>7. Read("hash16?", T, "PARTFILE_HASH") = <<Told(W, "PARTFILE_HASH", f.hash)>>
  BY <1>1, <1>2, <1>3, <1>4, <1>5 DEF Told
<1>8. Read("string?", T, "PARTFILE_NAME") = <<Told(W, "PARTFILE_NAME", f.name)>>
  BY <1>1, <1>2, <1>3, <1>4, <1>5 DEF Told
<1>9. Read("long?", T, "PARTFILE_SIZE_FULL") = <<Told(W, "PARTFILE_SIZE_FULL", f.size)>>
  BY <1>1, <1>2, <1>3, <1>4, <1>5 DEF Told
<1>10. Read("long?", T, "PARTFILE_SIZE_DONE") = <<Told(W, "PARTFILE_SIZE_DONE", f.done)>>
  BY <1>1, <1>2, <1>3, <1>4, <1>5 DEF Told
<1>11. Read("long?", T, "PARTFILE_SPEED") = <<Told(W, "PARTFILE_SPEED", f.speed)>>
  BY <1>1, <1>2, <1>3, <1>4, <1>5 DEF Told
<1>12. Read("short", T, "PARTFILE_SOURCE_COUNT_XFER") =
                  <<IF "PARTFILE_SOURCE_COUNT_XFER" \in W THEN 0 ELSE f.sources>>
  BY <1>1, <1>2, <1>3, <1>4, <1>5
<1>13. byte_or(T, "PARTFILE_STATUS", UNKNOWN) =
                  <<IF "PARTFILE_STATUS" \in W THEN UNKNOWN ELSE f.status>>
  BY <1>1, <1>2, <1>3, <1>4, <1>6
<1> QED
  BY <1>7, <1>8, <1>9, <1>10, <1>11, <1>12, <1>13 DEF T

(* The files of a listing that all came from the same tags. *)
SharedAs(f, W, r) ==
    /\ r.file_hash_hex_string = Told(W, "PARTFILE_HASH", f.hash)
    /\ r.file_name = Told(W, "PARTFILE_NAME", f.name)
    /\ r.size_full = Told(W, "PARTFILE_SIZE_FULL", f.size)

PartAs(f, W, r) ==
    /\ SharedAs(f, W, r)
    /\ r.size_done = Told(W, "PARTFILE_SIZE_DONE", f.done)
    /\ r.speed = Told(W, "PARTFILE_SPEED", f.speed)

(* A table of fields reads them. *)
TableOf(fields, T) == [g \in DOMAIN fields |-> Read(fields[g][1], T, fields[g][2])[1]]

(* A tolerant table reads whatever was sent, and names and sizes the file. *)
LEMMA TableRead ==
    ASSUME NEW f, IsFile(f), NEW W, NEW fields, Tolerant(fields), Names(fields)
    PROVE  /\ ReadAll(fields, Sent(f, W)) = <<TableOf(fields, Sent(f, W))>>
           /\ SharedAs(f, W, TableOf(fields, Sent(f, W)))
           /\ DOMAIN TableOf(fields, Sent(f, W)) = DOMAIN fields
           /\ \A g \in DOMAIN fields : TableOf(fields, Sent(f, W))[g] =
                                           Read(fields[g][1], Sent(f, W), fields[g][2])[1]
<1> DEFINE T == Sent(f, W)
           r == TableOf(fields, T)
<1>1. ReadAll(fields, T) = <<r>>
  BY TolerantRead DEF TableOf
<1>2. /\ DOMAIN r = DOMAIN fields
      /\ \A g \in DOMAIN fields : r[g] = Read(fields[g][1], T, fields[g][2])[1]
  BY DEF TableOf
<1>3. /\ Read("hash16?", T, "PARTFILE_HASH") = <<Told(W, "PARTFILE_HASH", f.hash)>>
      /\ Read("string?", T, "PARTFILE_NAME") = <<Told(W, "PARTFILE_NAME", f.name)>>
      /\ Read("long?", T, "PARTFILE_SIZE_FULL") = <<Told(W, "PARTFILE_SIZE_FULL", f.size)>>
  BY FieldsRead
<1>4. \A x : <<x>>[1] = x
  OBVIOUS
<1> HIDE DEF r, T
<1>5. SharedAs(f, W, r)
  BY <1>2, <1>3, <1>4 DEF SharedAs, Names
<1> QED BY <1>1, <1>2, <1>5 DEF r, T

(* A shared file as the client reads it. *)
LEMMA SharedRead ==
    ASSUME NEW f, IsFile(f), NEW W
    PROVE  \E r : SharedFileTag(Sent(f, W)) = <<r>> /\ SharedAs(f, W, r)
<1>1. \E r : ReadAll(SharedFields, Sent(f, W)) = <<r>> /\ SharedAs(f, W, r)
  BY SharedTable, TableRead
<1> QED BY <1>1 DEF SharedFileTag

(* A download as the client reads it. *)
LEMMA PartRead ==
    ASSUME NEW f, IsFile(f), NEW W
    PROVE  \E r : PartFileTag(Sent(f, W)) = <<r>> /\ PartAs(f, W, r)
<1> DEFINE T == Sent(f, W)
           s == TableOf(PartFields, T)
           status == IF "PARTFILE_STATUS" \in W THEN UNKNOWN ELSE f.status
           r == Joined([file_status |-> status], s)
<1>1. /\ ReadAll(PartFields, T) = <<s>> /\ SharedAs(f, W, s) /\ DOMAIN s = DOMAIN PartFields
      /\ \A g \in DOMAIN PartFields : s[g] = Read(PartFields[g][1], T, PartFields[g][2])[1]
  <2>1. Tolerant(PartFields) /\ Names(PartFields)
    BY PartTable
  <2> QED BY <2>1, TableRead
<1>2. /\ Read("long?", T, "PARTFILE_SIZE_DONE") = <<Told(W, "PARTFILE_SIZE_DONE", f.done)>>
      /\ Read("long?", T, "PARTFILE_SPEED") = <<Told(W, "PARTFILE_SPEED", f.speed)>>
      /\ byte_or(T, "PARTFILE_STATUS", UNKNOWN) = <<status>>
  BY FieldsRead
<1>3. \A x : <<x>>[1] = x /\ <<x>> # << >>
  OBVIOUS
<1>4. DOMAIN s = DOMAIN PartFields
  BY <1>1
<1>5. status \in FileStatus
  <2>1. UNKNOWN \in FileStatus
    BY DEF UNKNOWN, FileStatus
  <2> QED BY <2>1 DEF IsFile
<1> HIDE DEF s, T, status
<1>6. s.size_done = Told(W, "PARTFILE_SIZE_DONE", f.done)
      /\ s.speed = Told(W, "PARTFILE_SPEED", f.speed)
  BY <1>1, <1>2, <1>3, PartTable
<1>7. \A x \in DOMAIN s : x # "file_status" => r[x] = s[x]
  BY DEF Joined
<1>8. {"file_hash_hex_string", "file_name", "size_full", "size_done", "speed"} \subseteq DOMAIN s
  BY <1>4, PartTable DEF Names
<1>9. PartFileTag(T) = <<r>>
  <2>1. PartFileTag(T) =
            IF <<status>> = << >> THEN << >>
            ELSE IF <<status>>[1] \notin FileStatus THEN << >>
            ELSE IF <<s>> = << >> THEN << >>
            ELSE <<Joined([file_status |-> <<status>>[1]], <<s>>[1])>>
    BY <1>1, <1>2, Zenon DEF PartFileTag, Then, Raised
  <2> QED BY <1>3, <1>5, <2>1
<1> HIDE DEF r
<1>10. PartAs(f, W, r)
  BY <1>1, <1>6, <1>7, <1>8 DEF PartAs, SharedAs
<1> QED BY <1>9, <1>10 DEF T

-----------------------------------------------------------------------------
\* Listings

(* One tag, and none, of a name. *)
LEMMA NamedOne ==
    /\ \A t, name : t.name = name => Named(<<t>>, name) = <<t>>
    /\ \A name : Named(<< >>, name) = << >>
<1>1. ASSUME NEW t, NEW name, t.name = name PROVE Named(<<t>>, name) = <<t>>
  <2> DEFINE p == [i \in DOMAIN <<t>> |-> IF <<t>>[i].name = name THEN <<<<t>>[i]>> ELSE << >>]
  <2>1. p = <<<<t>>>>
    BY <1>1
  <2>2. Named(<<t>>, name) = FlattenSeq(p)
    BY Zenon DEF Named, Where
  <2>3. <<t>> \in Seq({t})
    OBVIOUS
  <2> HIDE DEF p
  <2>4. FlattenSeq(<<<<t>>>>) = <<t>>
    BY <2>3, FlattenFacts
  <2> QED BY <2>1, <2>2, <2>4
<1>2. ASSUME NEW name PROVE Named(<< >>, name) = << >>
  <2> DEFINE p == [i \in DOMAIN << >> |-> IF << >>[i].name = name THEN <<<< >>[i]>> ELSE << >>]
  <2>1. p = << >>
    OBVIOUS
  <2>2. Named(<< >>, name) = FlattenSeq(p)
    BY Zenon DEF Named, Where
  <2> HIDE DEF p
  <2> QED BY <2>1, <2>2, FlattenFacts
<1> QED BY <1>1, <1>2

(* How the listings are parsed. *)
LEMMA ListingsParsed ==
    ASSUME NEW tags, NEW N
    PROVE  /\ N = Named(tags, "PARTFILE") =>
                  parse(Packet("DLOAD_QUEUE", tags)) =
                      Response("DownloadQueue",
                               AllOf([i \in DOMAIN N |-> PartFileTag(N[i].subtags)]))
           /\ N = Named(tags, "KNOWNFILE") =>
                  parse(Packet("SHARED_FILES", tags)) =
                      Response("SharedFiles",
                               AllOf([i \in DOMAIN N |-> SharedFileTag(N[i].subtags)]))
  BY DEF parse, Packet, Each

(* What the two calls return for one file, or for none. *)
LEMMA ListingsReturned ==
    ASSUME NEW T
    PROVE  /\ \A r : PartFileTag(T) = <<r>> =>
                  Returned(download_queue_request,
                           Packet("DLOAD_QUEUE", <<Tag("PARTFILE", "UINT8", 1, T)>>)) = <<<<r>>>>
           /\ Returned(download_queue_request, Packet("DLOAD_QUEUE", << >>)) = <<<< >>>>
           /\ \A r : SharedFileTag(T) = <<r>> =>
                  Returned(shared_files_request,
                           Packet("SHARED_FILES", <<Tag("KNOWNFILE", "UINT8", 1, T)>>)) = <<<<r>>>>
<1>1. /\ download_queue_request.op_code = "GET_DLOAD_QUEUE"
      /\ shared_files_request.op_code = "GET_SHARED_FILES"
  BY DEF download_queue_request, shared_files_request, Packet
<1>2. /\ Awaited["GET_DLOAD_QUEUE"] = {"DownloadQueue"}
      /\ Awaited["GET_SHARED_FILES"] = {"SharedFiles"}
  BY DEF Awaited
<1>3. \A x : <<x>> # << >> /\ <<x>>[1] = x
  OBVIOUS
<1>4. \A name : Tag(name, "UINT8", 1, T).name = name /\ Tag(name, "UINT8", 1, T).subtags = T
  BY DEF Tag
<1>5. \A kind, is : Response(kind, <<is>>) = <<[kind |-> kind, is |-> is]>>
  BY <1>3 DEF Response, Then, Raised
<1>6. \A request, reply, kind, is :
          parse(reply) = Response(kind, <<is>>) /\ kind \in Awaited[request.op_code] =>
              Returned(request, reply) = <<is>>
  <2> TAKE request, reply, kind, is
  <2> HAVE parse(reply) = Response(kind, <<is>>) /\ kind \in Awaited[request.op_code]
  <2>1. Returned(request, reply) =
            IF parse(reply) = << >> THEN << >>
            ELSE IF parse(reply)[1].kind \in Awaited[request.op_code] THEN <<parse(reply)[1].is>>
            ELSE << >>
    BY Zenon DEF Returned, Then, Raised
  <2>2. parse(reply) # << >> /\ parse(reply)[1] = [kind |-> kind, is |-> is]
    BY <1>3, <1>5
  <2> QED BY <2>1, <2>2
<1>7. \A x, y : x = <<y>> => AllOf(<<x>>) = <<<<y>>>>
  <2> SUFFICES ASSUME NEW y PROVE AllOf(<<<<y>>>>) = <<<<y>>>>
    OBVIOUS
  <2>1. <<y>> # << >>
    OBVIOUS
  <2>2. ~ \E i \in DOMAIN <<<<y>>>> : <<<<y>>>>[i] = << >>
    BY <2>1
  <2>3. [i \in DOMAIN <<<<y>>>> |-> <<<<y>>>>[i][1]] = <<y>>
    OBVIOUS
  <2> QED BY <2>2, <2>3 DEF AllOf, Raised
<1>8. AllOf(<< >>) = <<<< >>>>
  <2>1. [i \in DOMAIN << >> |-> << >>[i][1]] = << >>
    OBVIOUS
  <2>2. ~ \E i \in DOMAIN << >> : << >>[i] = << >>
    OBVIOUS
  <2> QED BY <2>1, <2>2 DEF AllOf, Raised
<1>9. ASSUME NEW r, PartFileTag(T) = <<r>>
      PROVE  Returned(download_queue_request,
                      Packet("DLOAD_QUEUE", <<Tag("PARTFILE", "UINT8", 1, T)>>)) = <<<<r>>>>
  <2> DEFINE t == Tag("PARTFILE", "UINT8", 1, T)
             p == Packet("DLOAD_QUEUE", <<t>>)
  <2>1. Named(<<t>>, "PARTFILE") = <<t>>
    <3> HIDE DEF t
    <3>1. t.name = "PARTFILE"
      BY <1>4 DEF t
    <3> QED BY <3>1, NamedOne
  <2>2. t.subtags = T
    BY <1>4
  <2> HIDE DEF t
  <2>3. [i \in DOMAIN <<t>> |-> PartFileTag(<<t>>[i].subtags)] = <<PartFileTag(T)>>
    BY <2>2
  <2>4. parse(p) = Response("DownloadQueue", AllOf(<<PartFileTag(T)>>))
    <3>1. parse(p) = Response("DownloadQueue",
                              AllOf([i \in DOMAIN <<t>> |-> PartFileTag(<<t>>[i].subtags)]))
      BY <2>1, ListingsParsed
    <3> QED BY <2>3, <3>1
  <2> HIDE DEF p
  <2>5. parse(p) = Response("DownloadQueue", <<<<r>>>>)
    BY <1>7, <1>9, <2>4
  <2>6. "DownloadQueue" \in Awaited[download_queue_request.op_code]
    BY <1>1, <1>2
  <2>7. Returned(download_queue_request, p) = <<<<r>>>>
    BY <1>6, <2>5, <2>6
  <2> QED BY <2>7 DEF p, t
<1>10. Returned(download_queue_request, Packet("DLOAD_QUEUE", << >>)) = <<<< >>>>
  <2> DEFINE p == Packet("DLOAD_QUEUE", << >>)
  <2>1. Named(<< >>, "PARTFILE") = << >>
    BY NamedOne
  <2>2. [i \in DOMAIN << >> |-> PartFileTag(<< >>[i].subtags)] = << >>
    OBVIOUS
  <2>3. parse(p) = Response("DownloadQueue", <<<< >>>>)
    <3>1. parse(p) = Response("DownloadQueue",
                              AllOf([i \in DOMAIN << >> |-> PartFileTag(<< >>[i].subtags)]))
      BY <2>1, ListingsParsed
    <3>2. parse(p) = Response("DownloadQueue", AllOf(<< >>))
      BY <2>2, <3>1
    <3> QED BY <1>8, <3>2
  <2> HIDE DEF p
  <2>4. "DownloadQueue" \in Awaited[download_queue_request.op_code]
    BY <1>1, <1>2
  <2>5. Returned(download_queue_request, p) = <<<< >>>>
    BY <1>6, <2>3, <2>4
  <2> QED BY <2>5 DEF p
<1>11. ASSUME NEW r, SharedFileTag(T) = <<r>>
       PROVE  Returned(shared_files_request,
                       Packet("SHARED_FILES", <<Tag("KNOWNFILE", "UINT8", 1, T)>>)) = <<<<r>>>>
  <2> DEFINE t == Tag("KNOWNFILE", "UINT8", 1, T)
             p == Packet("SHARED_FILES", <<t>>)
  <2>1. Named(<<t>>, "KNOWNFILE") = <<t>>
    <3> HIDE DEF t
    <3>1. t.name = "KNOWNFILE"
      BY <1>4 DEF t
    <3> QED BY <3>1, NamedOne
  <2>2. t.subtags = T
    BY <1>4
  <2> HIDE DEF t
  <2>3. [i \in DOMAIN <<t>> |-> SharedFileTag(<<t>>[i].subtags)] = <<SharedFileTag(T)>>
    BY <2>2
  <2>4. parse(p) = Response("SharedFiles", AllOf(<<SharedFileTag(T)>>))
    <3>1. parse(p) = Response("SharedFiles",
                              AllOf([i \in DOMAIN <<t>> |-> SharedFileTag(<<t>>[i].subtags)]))
      BY <2>1, ListingsParsed
    <3> QED BY <2>3, <3>1
  <2> HIDE DEF p
  <2>5. parse(p) = Response("SharedFiles", <<<<r>>>>)
    BY <1>7, <1>11, <2>4
  <2>6. "SharedFiles" \in Awaited[shared_files_request.op_code]
    BY <1>1, <1>2
  <2>7. Returned(shared_files_request, p) = <<<<r>>>>
    BY <1>6, <2>5, <2>6
  <2> QED BY <2>7 DEF p, t
<1> QED BY <1>9, <1>10, <1>11

(* What an entry of the listing says of a file, in the queue and when it is shared. *)
QueuedAs(f, info) ==
    /\ info.hash = f.hash /\ info.name = f.name /\ info.size = f.size
    /\ info.downloaded = f.done /\ info.dlspeed = f.speed
    /\ info.progress = compute_progress(<<f.done>>, <<f.size>>)
    /\ <<info.eta>> = compute_eta(<<f.speed>>, <<f.size>>, <<f.done>>)

KeptAs(f, info) ==
    /\ info.hash = f.hash /\ info.name = f.name /\ info.size = f.size
    /\ info.downloaded = f.size /\ info.dlspeed = 0
    /\ info.progress = <<1, 1>> /\ info.eta = 0

KnownBy == {"PARTFILE_HASH", "PARTFILE_NAME", "PARTFILE_SIZE_FULL"}

(* The entry of a shared file: it needs the tags the file is known by. *)
LEMMA SharedEntry ==
    ASSUME NEW f, NEW W, NEW r, SharedAs(f, W, r)
    PROVE  IF W \cap KnownBy = {} THEN \E info : shared_to_info(r) = <<info>> /\ KeptAs(f, info)
           ELSE shared_to_info(r) = Raised
<1> DEFINE raw == [hash |-> r.file_hash_hex_string, name |-> r.file_name,
               size |-> r.size_full, downloaded |-> r.size_full,
               progress |-> <<1, 1>>, priority |-> 0, state |-> "uploading", dlspeed |-> <<0>>,
               num_seeds |-> 0, eta |-> 0]
           cooked == [raw EXCEPT !.hash = @[1], !.name = @[1], !.size = @[1], !.downloaded = @[1],
                        !.dlspeed = @[1]]
<1>1. shared_to_info(r) =
          IF \E g \in {"hash", "name", "size", "downloaded", "dlspeed"} : raw[g] = None
          THEN Raised ELSE <<cooked>>
  BY Zenon DEF shared_to_info, Validated
<1>2. /\ raw["hash"] = r.file_hash_hex_string /\ raw["name"] = r.file_name
      /\ raw["size"] = r.size_full /\ raw["downloaded"] = r.size_full /\ raw["dlspeed"] = <<0>>
  OBVIOUS
<1>3. /\ cooked.hash = raw["hash"][1] /\ cooked.name = raw["name"][1]
      /\ cooked.size = raw["size"][1] /\ cooked.downloaded = raw["downloaded"][1]
      /\ cooked.dlspeed = raw["dlspeed"][1] /\ cooked.progress = <<1, 1>> /\ cooked.eta = 0
  OBVIOUS
<1>4. \A x : <<x>> # << >> /\ <<x>>[1] = x
  OBVIOUS
<1> HIDE DEF raw, cooked
<1>5. CASE W \cap KnownBy = {}
  <2>1. /\ raw["hash"] = <<f.hash>> /\ raw["name"] = <<f.name>> /\ raw["size"] = <<f.size>>
        /\ raw["downloaded"] = <<f.size>>
    BY <1>2, <1>5 DEF SharedAs, Told, KnownBy
  <2>2. shared_to_info(r) = <<cooked>>
    BY <1>1, <1>2, <1>4, <2>1 DEF None
  <2>3. KeptAs(f, cooked)
    BY <1>2, <1>3, <1>4, <2>1 DEF KeptAs
  <2> QED BY <1>5, <2>2, <2>3
<1>6. CASE W \cap KnownBy # {}
  <2>1. raw["hash"] = None \/ raw["name"] = None \/ raw["size"] = None
    BY <1>2, <1>6 DEF SharedAs, Told, KnownBy
  <2> QED BY <1>1, <1>6, <2>1
<1> QED BY <1>5, <1>6

MovesBy == KnownBy \cup {"PARTFILE_SIZE_DONE", "PARTFILE_SPEED"}

(* The entry of a download: it needs what is done and the speed as well. *)
LEMMA QueuedEntry ==
    ASSUME NEW f, IsFile(f), NEW W, NEW r, PartAs(f, W, r)
    PROVE  IF W \cap MovesBy = {}
           THEN \E info : transferring_to_info(r) = <<info>> /\ QueuedAs(f, info)
           ELSE transferring_to_info(r) = Raised
<1> DEFINE eta == compute_eta(r.speed, r.size_full, r.size_done)
           raw == [hash |-> r.file_hash_hex_string, name |-> r.file_name,
                        size |-> r.size_full, downloaded |-> r.size_done,
                        progress |-> compute_progress(r.size_done, r.size_full),
                        priority |-> r.down_prio, state |-> StateOf(r), dlspeed |-> r.speed,
                        num_seeds |-> r.source_xfer_count, eta |-> eta[1]]
           cooked == [raw EXCEPT !.hash = @[1], !.name = @[1], !.size = @[1], !.downloaded = @[1],
                        !.dlspeed = @[1]]
<1>1. transferring_to_info(r) =
          IF eta = Raised THEN Raised
          ELSE IF \E g \in {"hash", "name", "size", "downloaded", "dlspeed"} : raw[g] = None
          THEN Raised ELSE <<cooked>>
  BY Zenon DEF transferring_to_info, Validated, Then
<1>2. /\ raw["hash"] = r.file_hash_hex_string /\ raw["name"] = r.file_name
      /\ raw["size"] = r.size_full /\ raw["downloaded"] = r.size_done /\ raw["dlspeed"] = r.speed
      /\ raw["progress"] = compute_progress(r.size_done, r.size_full) /\ raw["eta"] = eta[1]
  OBVIOUS
<1>3. /\ cooked.hash = raw["hash"][1] /\ cooked.name = raw["name"][1]
      /\ cooked.size = raw["size"][1] /\ cooked.downloaded = raw["downloaded"][1]
      /\ cooked.dlspeed = raw["dlspeed"][1] /\ cooked.progress = raw["progress"]
      /\ cooked.eta = raw["eta"]
  OBVIOUS
<1>4. \A x : <<x>> # << >> /\ <<x>>[1] = x
  OBVIOUS
<1>5. eta = IF r.speed = None \/ r.size_full = None \/ r.size_done = None THEN Raised
            ELSE <<IF r.speed[1] = 0 THEN NO_ETA
                   ELSE CappedETA(r.size_full[1] - r.size_done[1], r.speed[1])>>
  BY Zenon DEF compute_eta
<1> HIDE DEF raw, cooked, eta
<1>6. CASE W \cap MovesBy = {}
  <2>1. /\ r.file_hash_hex_string = <<f.hash>> /\ r.file_name = <<f.name>>
        /\ r.size_full = <<f.size>> /\ r.size_done = <<f.done>> /\ r.speed = <<f.speed>>
    BY <1>6 DEF PartAs, SharedAs, Told, MovesBy, KnownBy
  <2>2. eta = compute_eta(<<f.speed>>, <<f.size>>, <<f.done>>)
    BY <2>1 DEF eta
  <2>3. eta = <<eta[1]>> /\ eta # Raised
    BY <1>4, <1>5, <2>1 DEF None, Raised
  <2>4. transferring_to_info(r) = <<cooked>>
    BY <1>1, <1>2, <1>4, <2>1, <2>3 DEF None
  <2>5. QueuedAs(f, cooked)
    BY <1>2, <1>3, <1>4, <2>1, <2>2, <2>3 DEF QueuedAs
  <2> QED BY <1>6, <2>4, <2>5
<1>7. CASE W \cap MovesBy # {}
  <2>1. \/ r.file_hash_hex_string = None \/ r.file_name = None \/ r.size_full = None
        \/ r.size_done = None \/ r.speed = None
    BY <1>7 DEF PartAs, SharedAs, Told, MovesBy, KnownBy
  <2>2. transferring_to_info(r) = Raised
    BY <1>1, <1>2, <1>5, <2>1
  <2> QED BY <1>7, <2>2
<1> QED BY <1>6, <1>7

(* The list of one entry. *)
LEMMA ListOfOne ==
    ASSUME NEW x
    PROVE  AllOf(<<x>>) = IF x = Raised THEN Raised ELSE <<<<x[1]>>>>
<1>1. (\E i \in DOMAIN <<x>> : <<x>>[i] = Raised) <=> x = Raised
  OBVIOUS
<1>2. [i \in DOMAIN <<x>> |-> <<x>>[i][1]] = <<x[1]>>
  OBVIOUS
<1> QED BY <1>1, <1>2 DEF AllOf

(* A file that is both downloaded and shared is listed as a download, once. *)
LEMMA ListedOnce ==
    ASSUME NEW d, NEW s
    PROVE  /\ d.file_hash_hex_string = s.file_hash_hex_string =>
                  get_torrent_info(<<d>>, <<s>>) = AllOf(<<transferring_to_info(d)>>)
           /\ get_torrent_info(<< >>, <<s>>) = AllOf(<<shared_to_info(s)>>)
<1>1. ASSUME d.file_hash_hex_string = s.file_hash_hex_string
      PROVE  get_torrent_info(<<d>>, <<s>>) = AllOf(<<transferring_to_info(d)>>)
  <2> DEFINE p == [j \in DOMAIN <<s>> |->
                      IF \A i \in DOMAIN <<d>> :
                             <<d>>[i].file_hash_hex_string # <<s>>[j].file_hash_hex_string
                      THEN <<<<s>>[j]>> ELSE << >>]
             rest == FlattenSeq(p)
             all == [i \in DOMAIN rest |-> shared_to_info(rest[i])]
                        \o [i \in DOMAIN <<d>> |-> transferring_to_info(<<d>>[i])]
  <2>1. get_torrent_info(<<d>>, <<s>>) = AllOf(all)
    BY Zenon DEF get_torrent_info, Where
  <2>2. p = <<<< >>>>
    BY <1>1
  <2>3. rest = << >>
    <3>1. <<<< >>>> \in Seq({<< >>})
      OBVIOUS
    <3> HIDE DEF p
    <3> QED BY <2>2, <3>1, FlattenNothing
  <2> HIDE DEF rest
  <2>4. [i \in DOMAIN rest |-> shared_to_info(rest[i])] = << >>
    BY <2>3
  <2>5. [i \in DOMAIN <<d>> |-> transferring_to_info(<<d>>[i])] = <<transferring_to_info(d)>>
    OBVIOUS
  <2>6. all = <<transferring_to_info(d)>>
    <3>1. << >> \o <<transferring_to_info(d)>> = <<transferring_to_info(d)>>
      OBVIOUS
    <3> QED BY <2>4, <2>5, <3>1
  <2> HIDE DEF all
  <2> QED BY <2>1, <2>6
<1>2. get_torrent_info(<< >>, <<s>>) = AllOf(<<shared_to_info(s)>>)
  <2> DEFINE p == [j \in DOMAIN <<s>> |->
                      IF \A i \in DOMAIN << >> :
                             << >>[i].file_hash_hex_string # <<s>>[j].file_hash_hex_string
                      THEN <<<<s>>[j]>> ELSE << >>]
             rest == FlattenSeq(p)
             all == [i \in DOMAIN rest |-> shared_to_info(rest[i])]
                        \o [i \in DOMAIN << >> |-> transferring_to_info(<< >>[i])]
  <2>1. get_torrent_info(<< >>, <<s>>) = AllOf(all)
    BY Zenon DEF get_torrent_info, Where
  <2>2. p = <<<<s>>>>
    OBVIOUS
  <2>3. rest = <<s>>
    <3>1. <<s>> \in Seq({s})
      OBVIOUS
    <3>2. FlattenSeq(<<<<s>>>>) = <<s>>
      BY <3>1, FlattenFacts
    <3> HIDE DEF p
    <3> QED BY <2>2, <3>2
  <2> HIDE DEF rest
  <2>4. [i \in DOMAIN rest |-> shared_to_info(rest[i])] = <<shared_to_info(s)>>
    BY <2>3
  <2>5. [i \in DOMAIN << >> |-> transferring_to_info(<< >>[i])] = << >>
    OBVIOUS
  <2>6. all = <<shared_to_info(s)>>
    <3>1. <<shared_to_info(s)>> \o << >> = <<shared_to_info(s)>>
      OBVIOUS
    <3> QED BY <2>4, <2>5, <3>1
  <2> HIDE DEF all
  <2> QED BY <2>1, <2>6
<1> QED BY <1>1, <1>2

(* The entry of the file in a listing. *)
ListedAs(f, p, info) == IF p = "queue" THEN QueuedAs(f, info) ELSE KeptAs(f, info)

(* The whole listing: exactly one entry, or an exception when a tag is missing that it *)
(* cannot do without. *)
LEMMA ListingOfFile ==
    ASSUME NEW W, ListTorrents(W), IsFile(file[1]), place \in {"queue", "shared"}
    PROVE  /\ answer'.of = "list"
           /\ answer'.got # Raised <=> W \cap ListingNeeds = {}
           /\ answer'.got # Raised =>
                  \E info : answer'.got = <<<<info>>>> /\ ListedAs(file[1], place, info)
<1> DEFINE f == file[1]
           T == Sent(f, W)
           queue  == Returned(download_queue_request,
                              Packet("DLOAD_QUEUE", IF place = "queue"
                                                    THEN <<Tag("PARTFILE", "UINT8", 1, T)>>
                                                    ELSE << >>))
           shared == Returned(shared_files_request,
                              Packet("SHARED_FILES", <<Tag("KNOWNFILE", "UINT8", 1, T)>>))
           entries == IF queue = Raised THEN Raised
                      ELSE IF shared = Raised THEN Raised
                      ELSE get_torrent_info(queue[1], shared[1])
           due == IF W \cap ListingNeeds = {} THEN "return" ELSE "any"
<1>1. answer' = [Exchange("list", due, entries) EXCEPT !.without = W]
  BY Zenon DEF ListTorrents, Sent, Then
<1>2. answer'.of = "list" /\ answer'.got = entries
  <2> HIDE DEF entries, due
  <2> QED BY <1>1 DEF Exchange
<1>3. answer'.got = IF queue = Raised THEN Raised
                    ELSE IF shared = Raised THEN Raised
                    ELSE get_torrent_info(queue[1], shared[1])
  BY <1>2
<1> HIDE DEF entries, due
<1>4. PICK s : SharedFileTag(T) = <<s>> /\ SharedAs(f, W, s)
  BY SharedRead
<1>5. shared = <<<<s>>>>
  BY <1>4, ListingsReturned
<1>6. \A x : <<x>> # << >> /\ <<x>>[1] = x
  OBVIOUS
<1>7. CASE place = "queue"
  <2>1. PICK d : PartFileTag(T) = <<d>> /\ PartAs(f, W, d)
    BY PartRead
  <2>2. queue = <<<<d>>>>
    BY <1>7, <2>1, ListingsReturned
  <2> HIDE DEF queue, shared, f, T
  <2>3. d.file_hash_hex_string = s.file_hash_hex_string
    BY <1>4, <2>1 DEF PartAs, SharedAs
  <2>4. answer'.got = AllOf(<<transferring_to_info(d)>>)
    <3>1. answer'.got = get_torrent_info(<<d>>, <<s>>)
      BY <1>3, <1>5, <1>6, <2>2 DEF Raised
    <3> QED BY <2>3, <3>1, ListedOnce
  <2>5. ListingNeeds = MovesBy
    BY <1>7 DEF ListingNeeds, MovesBy, KnownBy
  <2>6. IsFile(f)
    BY DEF f
  <2>7. CASE W \cap MovesBy = {}
    <3>1. PICK info : transferring_to_info(d) = <<info>> /\ QueuedAs(f, info)
      BY <2>1, <2>6, <2>7, QueuedEntry
    <3>2. answer'.got = <<<<info>>>>
      BY <1>6, <2>4, <3>1, ListOfOne DEF Raised
    <3> QED BY <1>2, <1>6, <1>7, <2>5, <2>7, <3>1, <3>2 DEF ListedAs, f, Raised
  <2>8. CASE W \cap MovesBy # {}
    <3>1. transferring_to_info(d) = Raised
      BY <2>1, <2>6, <2>8, QueuedEntry
    <3>2. answer'.got = Raised
      BY <2>4, <3>1, ListOfOne
    <3> QED BY <1>2, <2>5, <2>8, <3>2
  <2> QED BY <2>7, <2>8
<1>8. CASE place # "queue"
  <2>2. queue = <<<< >>>>
    BY <1>8, ListingsReturned
  <2> HIDE DEF queue, shared, f, T
  <2>4. answer'.got = AllOf(<<shared_to_info(s)>>)
    <3>1. answer'.got = get_torrent_info(<< >>, <<s>>)
      BY <1>3, <1>5, <1>6, <2>2 DEF Raised
    <3> QED BY <3>1, ListedOnce
  <2>5. ListingNeeds = KnownBy
    BY <1>8 DEF ListingNeeds, KnownBy
  <2>7. CASE W \cap KnownBy = {}
    <3>1. PICK info : shared_to_info(s) = <<info>> /\ KeptAs(f, info)
      BY <1>4, <2>7, SharedEntry
    <3>2. answer'.got = <<<<info>>>>
      BY <1>6, <2>4, <3>1, ListOfOne DEF Raised
    <3> QED BY <1>2, <1>6, <1>8, <2>5, <2>7, <3>1, <3>2 DEF ListedAs, f, Raised
  <2>8. CASE W \cap KnownBy # {}
    <3>1. shared_to_info(s) = Raised
      BY <1>4, <2>8, SharedEntry
    <3>2. answer'.got = Raised
      BY <2>4, <3>1, ListOfOne
    <3> QED BY <1>2, <2>5, <2>8, <3>2
  <2> QED BY <2>7, <2>8
<1> QED BY <1>7, <1>8

-----------------------------------------------------------------------------
\* Decimal numbers

(* The equation of a function that is defined on D by recursion to smaller numbers. *)
Recurs(f, stops, first, step, before, n) ==
    f[n] = IF n \in stops THEN first[n] ELSE step[n][f[before[n]]]

Below(D, N) == {n \in D : n < N}

(* There is such a function. *)
LEMMA RecursionExists ==
    ASSUME NEW S, NEW D \in SUBSET Nat, NEW stops, NEW first \in [D -> S],
           NEW step \in [D -> [S -> S]], NEW before \in [D -> D],
           \A n \in D : n \notin stops => before[n] < n
    PROVE  \E f \in [D -> S] : \A n \in D : Recurs(f, stops, first, step, before, n)
<1> DEFINE Good(f, N) == /\ f \in [D -> S]
                         /\ \A n \in D : n < N => Recurs(f, stops, first, step, before, n)
<1>0. \A N \in Nat : \A f, g :
          /\ \A n \in Below(D, N) : Recurs(f, stops, first, step, before, n)
          /\ \A n \in Below(D, N) : Recurs(g, stops, first, step, before, n)
          => \A n \in Below(D, N) : f[n] = g[n]
  <2> HIDE DEF Good
  <2> SUFFICES ASSUME NEW N \in Nat, NEW f, NEW g,
                      \A n \in Below(D, N) : Recurs(f, stops, first, step, before, n),
                      \A n \in Below(D, N) : Recurs(g, stops, first, step, before, n)
               PROVE  \A n \in Below(D, N) : f[n] = g[n]
    OBVIOUS
  <2> USE DEF Below
  <2> DEFINE Bad == {n \in D : n < N /\ f[n] # g[n]}
  <2>1. CASE Bad # {}
    <3>1. PICK k \in Bad : \A m \in Bad : k <= m
      <4>1. Bad \in SUBSET Nat
        OBVIOUS
      <4> HIDE DEF Bad
      <4> QED BY <2>1, <4>1, LeastNatural
    <3>2. k \in D /\ k < N /\ f[k] # g[k] /\ k \in Nat
      OBVIOUS
    <3>3. /\ f[k] = IF k \in stops THEN first[k] ELSE step[k][f[before[k]]]
          /\ g[k] = IF k \in stops THEN first[k] ELSE step[k][g[before[k]]]
      BY <3>2 DEF Recurs
    <3>4. k \notin stops => f[before[k]] = g[before[k]]
      <4>1. before[k] \in D /\ before[k] \in Nat
        BY <3>2
      <4>2. k \notin stops => before[k] < k /\ before[k] < N
        BY <3>2, <4>1
      <4>3. k \notin stops => before[k] \notin Bad
        <5> HIDE DEF Bad
        <5>1. Bad \subseteq Nat
          BY DEF Bad
        <5> QED BY <3>1, <3>2, <4>1, <4>2, <5>1
      <4> QED BY <4>1, <4>2, <4>3
    <3> QED BY <3>2, <3>3, <3>4
  <2> QED BY <2>1
<1>1. \A N \in Nat : \E f : Good(f, N)
  <2> DEFINE Bad == {N \in Nat : ~ \E f : Good(f, N)}
  <2>1. CASE Bad # {}
    <3>1. PICK k \in Bad : \A m \in Bad : k <= m
      <4>1. Bad \in SUBSET Nat
        OBVIOUS
      <4> HIDE DEF Bad
      <4> QED BY <2>1, <4>1, LeastNatural
    <3>2. k \in Nat /\ ~ \E f : Good(f, k)
      OBVIOUS
    <3>3. Good(first, 0)
      OBVIOUS
    <3>4. k # 0
      BY <3>2, <3>3
    <3>5. PICK f : Good(f, k - 1)
      <4>1. k - 1 \in Nat /\ ~(k <= k - 1)
        BY <3>2, <3>4
      <4> QED BY <3>1, <4>1
    <3> DEFINE n == k - 1
               value == IF n \in stops THEN first[n] ELSE step[n][f[before[n]]]
               g == [f EXCEPT ![n] = value]
    <3>6. n \in D => value \in S
      <4>1. n \in D => before[n] \in D /\ step[n] \in [S -> S] /\ first[n] \in S
        OBVIOUS
      <4>2. f \in [D -> S]
        BY <3>5
      <4> HIDE DEF Good, n
      <4>3. n \in D => step[n][f[before[n]]] \in S
        BY <4>1, <4>2
      <4> QED BY <4>1, <4>3
    <3>7. g \in [D -> S]
      BY <3>5, <3>6
    <3>8. \A m \in D : m # n => g[m] = f[m]
      BY <3>5
    <3>9. n \in D => g[n] = value
      BY <3>5
    <3>10. ASSUME NEW m \in D, m < k PROVE Recurs(g, stops, first, step, before, m)
      <4>1. m \in Nat /\ before[m] \in D /\ before[m] \in Nat
        OBVIOUS
      <4>2. m \notin stops => before[m] < m
        OBVIOUS
      <4> HIDE DEF g, Good
      <4>3. m \notin stops => before[m] # n /\ g[before[m]] = f[before[m]]
        BY <3>2, <3>8, <3>10, <4>1, <4>2
      <4>4. CASE m = n
        BY <3>9, <4>3, <4>4 DEF Recurs
      <4>5. CASE m # n
        <5>1. m < k - 1
          BY <3>2, <3>10, <4>1, <4>5
        <5>2. Recurs(f, stops, first, step, before, m)
          BY <3>5, <5>1 DEF Good
        <5> QED BY <3>8, <4>3, <4>5, <5>2 DEF Recurs
      <4> QED BY <4>4, <4>5
    <3> HIDE DEF g
    <3>11. Good(g, k)
      BY <3>7, <3>10
    <3> QED BY <3>2, <3>11
  <2>2. CASE Bad = {}
    BY <2>2
  <2> QED BY <2>1, <2>2
<1> DEFINE pick(N) == CHOOSE f : Good(f, N)
           h == [n \in D |-> pick(n + 1)[n]]
<1>2. \A N \in Nat : Good(pick(N), N)
  <2> HIDE DEF Good
  <2> QED BY <1>1
<1> HIDE DEF pick
<1>3. \A n \in D : n \in Nat /\ n + 1 \in Nat /\ n < n + 1
  OBVIOUS
<1>4. h \in [D -> S]
  <2>1. \A n \in D : pick(n + 1)[n] \in S
    BY <1>2, <1>3
  <2> QED BY <2>1
<1>5. ASSUME NEW n \in D PROVE Recurs(h, stops, first, step, before, n)
  <2> DEFINE f == pick(n + 1)
  <2>1. Recurs(f, stops, first, step, before, n)
    BY <1>2, <1>3
  <2>2. h[n] = f[n]
    OBVIOUS
  <2>3. n \notin stops => h[before[n]] = f[before[n]]
    <3> DEFINE m == before[n]
    <3>1. m \in D /\ m \in Nat /\ n \in Nat
      OBVIOUS
    <3> SUFFICES ASSUME n \notin stops PROVE h[m] = f[m]
      OBVIOUS
    <3>2. m < n /\ m < m + 1 /\ m < n + 1 /\ m + 1 <= n + 1
      BY <3>1
    <3> HIDE DEF m
    <3>3. \A i \in D : i < m + 1 => Recurs(pick(m + 1), stops, first, step, before, i)
      BY <1>2, <3>1
    <3>4. \A i \in D : i < m + 1 => Recurs(f, stops, first, step, before, i)
      <4>1. \A i \in D : i < m + 1 => i < n + 1
        BY <3>1, <3>2
      <4>2. \A i \in D : i < n + 1 => Recurs(pick(n + 1), stops, first, step, before, i)
        BY <1>2, <3>1
      <4> QED BY <4>1, <4>2
    <3> HIDE DEF f
    <3>5. \A i \in D : i < m + 1 => pick(m + 1)[i] = f[i]
      <4>1. m + 1 \in Nat
        BY <3>1
      <4> DEFINE a == pick(m + 1)
                 N == m + 1
      <4> HIDE DEF Good, h, a, N
      <4>2. \A i \in Below(D, N) : Recurs(a, stops, first, step, before, i)
        BY <3>3 DEF a, N, Below
      <4>3. \A i \in Below(D, N) : Recurs(f, stops, first, step, before, i)
        BY <3>4 DEF N, Below
      <4>4. \A i \in Below(D, N) : a[i] = f[i]
        <5>1. N \in Nat
          BY <4>1 DEF N
        <5> QED BY <1>0, <4>2, <4>3, <5>1
      <4> QED BY <4>4 DEF a, N, Below
    <3>6. h[m] = pick(m + 1)[m]
      BY <3>1
    <3> QED BY <3>1, <3>2, <3>5, <3>6
  <2> HIDE DEF h, f
  <2> QED BY <2>1, <2>2, <2>3 DEF Recurs
<1> HIDE DEF h
<1> QED BY <1>4, <1>5

Digit(d) == Digits[d + 1]

DigitSymbols == {Digits[i] : i \in 1..10}

(* The ten digits differ. *)
LEMMA TenDigits ==
    \A i, j \in 1..10 : Digits[i] = Digits[j] => i = j
<1>1. /\ Digits[1] = "0" /\ Digits[2] = "1" /\ Digits[3] = "2" /\ Digits[4] = "3"
      /\ Digits[5] = "4" /\ Digits[6] = "5" /\ Digits[7] = "6" /\ Digits[8] = "7"
      /\ Digits[9] = "8" /\ Digits[10] = "9"
  BY DEF Digits
<1>2. \A i \in 1..10 : i \in {1, 2, 3, 4, 5, 6, 7, 8, 9, 10}
  OBVIOUS
<1>4. ASSUME NEW i \in {1, 2, 3, 4, 5, 6, 7, 8, 9, 10}, NEW j \in {1, 2, 3, 4, 5, 6, 7, 8, 9, 10},
             Digits[i] = Digits[j]
      PROVE  i = j
  <2>1. CASE i = 1
    BY <1>1, <1>4, <2>1
  <2>2. CASE i = 2
    BY <1>1, <1>4, <2>2
  <2>3. CASE i = 3
    BY <1>1, <1>4, <2>3
  <2>4. CASE i = 4
    BY <1>1, <1>4, <2>4
  <2>5. CASE i = 5
    BY <1>1, <1>4, <2>5
  <2>6. CASE i = 6
    BY <1>1, <1>4, <2>6
  <2>7. CASE i = 7
    BY <1>1, <1>4, <2>7
  <2>8. CASE i = 8
    BY <1>1, <1>4, <2>8
  <2>9. CASE i = 9
    BY <1>1, <1>4, <2>9
  <2>10. CASE i = 10
    BY <1>1, <1>4, <2>10
  <2> QED BY <2>1, <2>2, <2>3, <2>4, <2>5, <2>6, <2>7, <2>8, <2>9, <2>10
<1> QED BY <1>2, <1>4

(* The digits of a number: the last behind those of a tenth of it. *)
LEMMA DecimalFacts ==
    \A n \in Nat : /\ n < 10 => Decimal(n) = <<Digit(n)>>
                   /\ n >= 10 => Decimal(n) = Append(Decimal(n \div 10), Digit(n % 10))
                   /\ Decimal(n) \in Seq(DigitSymbols)
<1> DEFINE digits[m \in Nat] == IF m < 10 THEN <<Digits[m + 1]>>
                                ELSE Append(digits[m \div 10], Digits[(m % 10) + 1])
           Unfolded(f) == [m \in Nat |-> IF m < 10 THEN <<Digits[m + 1]>>
                                         ELSE Append(f[m \div 10], Digits[(m % 10) + 1])]
<1>1. \A n \in Nat : Decimal(n) = digits[n]
  BY DEF Decimal
<1>2. \E f : f = Unfolded(f) /\ f \in [Nat -> Seq(DigitSymbols)]
  <2> DEFINE S == Seq(DigitSymbols)
             stops == 0..9
             last == [m \in Nat |-> Digits[(m % 10) + 1]]
             first == [m \in Nat |-> <<last[m]>>]
             step == [m \in Nat |-> [t \in S |-> Append(t, last[m])]]
             before == [m \in Nat |-> m \div 10]
  <2>1. \A m \in Nat : last[m] \in DigitSymbols
    <3>1. \A m \in Nat : (m % 10) + 1 \in 1..10
      OBVIOUS
    <3> QED BY <3>1 DEF DigitSymbols
  <2>2. first \in [Nat -> S] /\ step \in [Nat -> [S -> S]]
    <3> HIDE DEF last
    <3> QED BY <2>1
  <2>3. before \in [Nat -> Nat] /\ \A n \in Nat : n \notin stops => before[n] < n
    OBVIOUS
  <2>4. \E f \in [Nat -> S] : \A n \in Nat : Recurs(f, stops, first, step, before, n)
    <3> HIDE DEF S, stops, first, step, before
    <3> QED BY <2>2, <2>3, RecursionExists
  <2>5. PICK f \in [Nat -> S] : \A n \in Nat : Recurs(f, stops, first, step, before, n)
    BY <2>4
  <2>6. ASSUME NEW m \in Nat PROVE f[m] = Unfolded(f)[m]
    <3>1. f[m] = IF m \in stops THEN first[m] ELSE step[m][f[before[m]]]
      BY <2>5 DEF Recurs
    <3>2. m \in stops <=> m < 10
      OBVIOUS
    <3>3. m < 10 => first[m] = <<Digits[m + 1]>>
      <4>1. m < 10 => m % 10 = m
        OBVIOUS
      <4> QED BY <4>1
    <3>4. step[m][f[before[m]]] = Append(f[m \div 10], Digits[(m % 10) + 1])
      <4>1. m \div 10 \in Nat /\ f[m \div 10] \in S
        OBVIOUS
      <4> QED BY <4>1
    <3> HIDE DEF stops, first, step, before
    <3> QED BY <3>1, <3>2, <3>3, <3>4
  <2>7. f = Unfolded(f)
    <3> HIDE DEF S
    <3>1. f = [m \in Nat |-> f[m]]
      OBVIOUS
    <3> QED BY <2>6, <3>1
  <2> QED BY <2>7
<1>3. digits = Unfolded(digits)
  <2>1. digits = CHOOSE f : f = Unfolded(f)
    OBVIOUS
  <2> HIDE DEF digits, Unfolded
  <2> QED BY <1>2, <2>1
<1>4. \A n \in Nat : digits[n] = IF n < 10 THEN <<Digits[n + 1]>>
                              ELSE Append(digits[n \div 10], Digits[(n % 10) + 1])
  <2> HIDE DEF digits
  <2> QED BY <1>3
<1> HIDE DEF digits, Unfolded
<1>5. \A n \in Nat : digits[n] \in Seq(DigitSymbols)
  <2> DEFINE Bad == {n \in Nat : digits[n] \notin Seq(DigitSymbols)}
  <2>1. CASE Bad # {}
    <3>1. PICK n \in Bad : \A m \in Bad : n <= m
      <4>1. Bad \in SUBSET Nat
        OBVIOUS
      <4> HIDE DEF Bad
      <4> QED BY <2>1, <4>1, LeastNatural
    <3>2. n \in Nat /\ digits[n] \notin Seq(DigitSymbols)
      OBVIOUS
    <3>3. (n % 10) + 1 \in 1..10 /\ n \div 10 \in Nat /\ (n >= 10 => n \div 10 < n)
          /\ (n < 10 => n + 1 \in 1..10)
      BY <3>2
    <3>4. n >= 10 => digits[n \div 10] \in Seq(DigitSymbols)
      BY <3>1, <3>2, <3>3
    <3>5. Digits[(n % 10) + 1] \in DigitSymbols /\ (n < 10 => Digits[n + 1] \in DigitSymbols)
      BY <3>3 DEF DigitSymbols
    <3>6. CASE n < 10
      <4>1. digits[n] = <<Digits[n + 1]>> /\ Digits[n + 1] \in DigitSymbols
        BY <1>4, <3>2, <3>5, <3>6
      <4> QED BY <3>2, <4>1
    <3>7. CASE n >= 10
      <4>1. digits[n] = Append(digits[n \div 10], Digits[(n % 10) + 1])
        <5>1. ~(n < 10)
          BY <3>2, <3>7
        <5> QED BY <1>4, <3>2, <5>1, Zenon
      <4> QED BY <3>2, <3>4, <3>5, <3>7, <4>1
    <3> QED BY <3>2, <3>6, <3>7
  <2>2. CASE Bad = {}
    BY <2>2
  <2> QED BY <2>1, <2>2
<1>6. ASSUME NEW n \in Nat
      PROVE  /\ n < 10 => Decimal(n) = <<Digit(n)>>
             /\ n >= 10 => Decimal(n) = Append(Decimal(n \div 10), Digit(n % 10))
             /\ Decimal(n) \in Seq(DigitSymbols)
  <2>1. n \div 10 \in Nat
    OBVIOUS
  <2>2. Decimal(n) = digits[n] /\ Decimal(n \div 10) = digits[n \div 10]
    BY <1>1, <2>1
  <2>3. digits[n] \in Seq(DigitSymbols)
    BY <1>5
  <2>4. n < 10 => digits[n] = <<Digits[n + 1]>>
    BY <1>4
  <2>5. n >= 10 => digits[n] = Append(digits[n \div 10], Digits[(n % 10) + 1])
    <3>1. n >= 10 => ~(n < 10)
      OBVIOUS
    <3> QED BY <1>4, <3>1, Zenon
  <2> QED BY <2>2, <2>3, <2>4, <2>5 DEF Digit
<1> QED BY <1>6

DigitOf(x) == (CHOOSE d \in 1..10 : Digits[d] = x) - 1

IsValue(text, f) ==
    /\ f[0] = 0
    /\ \A k \in 1..Len(text) : f[k] = 10 * f[k - 1] + DigitOf(text[k])

(* A text of digits is read as the value that such a function has at its end. *)
LEMMA ReadDigits ==
    \A text \in Seq(DigitSymbols) :
        text # << >> => \E f : IsValue(text, f) /\ FromDecimal(text) = <<f[Len(text)]>>
<1> SUFFICES ASSUME NEW text \in Seq(DigitSymbols), text # << >>
             PROVE  \E f : IsValue(text, f) /\ FromDecimal(text) = <<f[Len(text)]>>
  OBVIOUS
<1> DEFINE K == 0..Len(text)
           value[k \in K] == IF k = 0 THEN 0 ELSE 10 * value[k - 1] + DigitOf(text[k])
           Unfolded(f) == [k \in K |-> IF k = 0 THEN 0 ELSE 10 * f[k - 1] + DigitOf(text[k])]
<1>1. \A x \in DigitSymbols : Contains(Digits, x) /\ DigitOf(x) \in Nat
  <2> SUFFICES ASSUME NEW i \in 1..10
               PROVE  Contains(Digits, Digits[i]) /\ DigitOf(Digits[i]) \in Nat
    BY DEF DigitSymbols
  <2>1. Len(Digits) = 10
    BY DEF Digits
  <2>2. Contains(Digits, Digits[i])
    BY <2>1 DEF Contains
  <2>3. \E d \in 1..10 : Digits[d] = Digits[i]
    OBVIOUS
  <2>4. (CHOOSE d \in 1..10 : Digits[d] = Digits[i]) \in 1..10
    BY <2>3
  <2> QED BY <2>2, <2>4 DEF DigitOf
<1>2. FromDecimal(text) = <<value[Len(text)]>>
  <2>1. ~ \E i \in DOMAIN text : ~Contains(Digits, text[i])
    BY <1>1
  <2> QED BY <2>1 DEF FromDecimal, DigitOf
<1>3. \E f : f = Unfolded(f)
  <2> DEFINE stops == {0}
             first == [k \in K |-> 0]
             before == [k \in K |-> IF k = 0 THEN 0 ELSE k - 1]
  <2>1. K \in SUBSET Nat
    OBVIOUS
  <2>2. before \in [K -> K] /\ \A k \in K : k \notin stops => before[k] < k
    OBVIOUS
  <2> DEFINE add == [k \in K |-> IF k = 0 THEN 0 ELSE DigitOf(text[k])]
             plus == [k \in K |-> [v \in Nat |-> 10 * v + add[k]]]
  <2>3. \A k \in K : add[k] \in Nat
    <3>1. \A k \in K : k # 0 => k \in 1..Len(text)
      OBVIOUS
    <3>2. \A k \in 1..Len(text) : text[k] \in DigitSymbols
      OBVIOUS
    <3> QED BY <1>1, <3>1, <3>2
  <2>4. first \in [K -> Nat] /\ plus \in [K -> [Nat -> Nat]]
    <3> HIDE DEF add
    <3> QED BY <2>3
  <2>5. \E f \in [K -> Nat] : \A k \in K : Recurs(f, stops, first, plus, before, k)
    <3> HIDE DEF K, stops, first, plus, before
    <3> QED BY <2>1, <2>2, <2>4, RecursionExists, ZenonT(60)
  <2>6. PICK f \in [K -> Nat] : \A k \in K : Recurs(f, stops, first, plus, before, k)
    BY <2>5
  <2>7. ASSUME NEW k \in K PROVE f[k] = Unfolded(f)[k]
    <3>1. f[k] = IF k \in stops THEN first[k] ELSE plus[k][f[before[k]]]
      BY <2>6 DEF Recurs
    <3>2. k # 0 => before[k] = k - 1 /\ k - 1 \in K /\ f[k - 1] \in Nat /\ add[k] = DigitOf(text[k])
      OBVIOUS
    <3>3. k # 0 => plus[k][f[before[k]]] = 10 * f[k - 1] + DigitOf(text[k])
      BY <3>2
    <3> HIDE DEF plus, before, add
    <3> QED BY <3>1, <3>3
  <2>8. f = [k \in K |-> f[k]]
    OBVIOUS
  <2>9. f = Unfolded(f)
    BY <2>7, <2>8
  <2> QED BY <2>9
<1>4. value = Unfolded(value)
  <2>1. value = CHOOSE f : f = Unfolded(f)
    OBVIOUS
  <2> HIDE DEF value, Unfolded
  <2> QED BY <1>3, <2>1
<1>5. IsValue(text, value)
  <2> HIDE DEF value
  <2>1. \A k \in K : value[k] = IF k = 0 THEN 0 ELSE 10 * value[k - 1] + DigitOf(text[k])
    BY <1>4
  <2>2. 0 \in K /\ \A k \in 1..Len(text) : k \in K /\ k # 0
    OBVIOUS
  <2> QED BY <2>1, <2>2 DEF IsValue
<1> HIDE DEF value
<1> QED BY <1>2, <1>5

(* A number is read from its own digits. *)
LEMMA DecimalRoundTrip ==
    \A n \in Nat : FromDecimal(Decimal(n)) = <<n>> /\ Decimal(n) # << >>
<1> DEFINE Claim(n) == \A f : IsValue(Decimal(n), f) => f[Len(Decimal(n))] = n
           Bad == {n \in Nat : ~Claim(n)}
<1>1. \A d \in 0..9 : DigitOf(Digit(d)) = d
  <2> SUFFICES ASSUME NEW d \in 0..9 PROVE DigitOf(Digit(d)) = d
    OBVIOUS
  <2>1. d + 1 \in 1..10
    OBVIOUS
  <2> DEFINE c == CHOOSE e \in 1..10 : Digits[e] = Digits[d + 1]
  <2>2. c = d + 1
    BY <2>1, TenDigits
  <2>3. DigitOf(Digit(d)) = c - 1
    BY Zenon DEF DigitOf, Digit
  <2> HIDE DEF c
  <2> QED BY <2>2, <2>3
<1>2. CASE Bad # {}
  <2>1. PICK n \in Bad : \A m \in Bad : n <= m
    <3>1. Bad \in SUBSET Nat
      OBVIOUS
    <3> HIDE DEF Bad
    <3> QED BY <1>2, <3>1, LeastNatural
  <2>2. n \in Nat /\ ~Claim(n)
    OBVIOUS
  <2>3. PICK f : IsValue(Decimal(n), f) /\ f[Len(Decimal(n))] # n
    BY <2>2
  <2>4. CASE n < 10
    <3>1. Decimal(n) = <<Digit(n)>>
      BY <2>2, <2>4, DecimalFacts
    <3>2. f[0] = 0 /\ f[1] = 10 * f[0] + DigitOf(Digit(n))
      <4>1. f[0] = 0 /\ \A k \in 1..1 : f[k] = 10 * f[k - 1] + DigitOf(<<Digit(n)>>[k])
        BY <2>3, <3>1 DEF IsValue
      <4> QED BY <4>1
    <3>3. n \in 0..9
      BY <2>2, <2>4
    <3>4. Len(Decimal(n)) = 1
      BY <3>1
    <3> QED BY <1>1, <2>3, <3>2, <3>3, <3>4
  <2>5. CASE n >= 10
    <3> DEFINE m == n \div 10
               d == n % 10
               t == Decimal(m)
    <3>1. m \in Nat /\ m < n /\ d \in 0..9 /\ n = 10 * m + d
      BY <2>2, <2>5
    <3> HIDE DEF m, d
    <3>2. Decimal(n) = Append(t, Digit(d)) /\ t \in Seq(DigitSymbols)
      BY <2>2, <2>5, <3>1, DecimalFacts DEF m, d
    <3>3. Claim(m)
      <4>1. m \notin Bad
        <5>1. Bad \subseteq Nat
          OBVIOUS
        <5> HIDE DEF Bad
        <5> QED BY <2>1, <2>2, <3>1, <5>1
      <4> QED BY <3>1, <4>1
    <3> HIDE DEF Bad, t
    <3>4. Len(Decimal(n)) = Len(t) + 1 /\ Decimal(n)[Len(t) + 1] = Digit(d)
          /\ \A k \in 1..Len(t) : Decimal(n)[k] = t[k]
      BY <3>2
    <3>5. Len(t) \in Nat
      BY <3>2
    <3>6. /\ f[0] = 0
          /\ \A k \in 1..Len(t) + 1 : f[k] = 10 * f[k - 1] + DigitOf(Decimal(n)[k])
      BY <2>3, <3>4 DEF IsValue
    <3>7. IsValue(t, f)
      BY <3>4, <3>5, <3>6 DEF IsValue
    <3>8. f[Len(t)] = m
      BY <3>3, <3>7 DEF t
    <3>9. f[Len(t) + 1] = 10 * f[Len(t) + 1 - 1] + DigitOf(Digit(d))
      BY <3>4, <3>5, <3>6
    <3>10. Len(t) + 1 - 1 = Len(t)
      BY <3>5
    <3> QED BY <1>1, <2>3, <3>1, <3>4, <3>8, <3>9, <3>10
  <2> QED BY <2>2, <2>4, <2>5
<1>3. CASE Bad = {}
  <2> SUFFICES ASSUME NEW n \in Nat PROVE FromDecimal(Decimal(n)) = <<n>> /\ Decimal(n) # << >>
    OBVIOUS
  <2>1. Claim(n)
    BY <1>3
  <2>2. Decimal(n) # << >> /\ Decimal(n) \in Seq(DigitSymbols)
    <3>1. Decimal(n) \in Seq(DigitSymbols)
      BY DecimalFacts
    <3>2. CASE n < 10
      BY <3>2, DecimalFacts
    <3>3. CASE n >= 10
      <4>1. n \div 10 \in Nat
        OBVIOUS
      <4>2. Decimal(n) = Append(Decimal(n \div 10), Digit(n % 10))
              /\ Decimal(n \div 10) \in Seq(DigitSymbols)
        BY <3>3, <4>1, DecimalFacts
      <4> QED BY <3>1, <4>2
    <3> QED BY <3>1, <3>2, <3>3
  <2>3. PICK f : IsValue(Decimal(n), f) /\ FromDecimal(Decimal(n)) = <<f[Len(Decimal(n))]>>
    BY <2>2, ReadDigits
  <2> QED BY <2>1, <2>2, <2>3
<1> QED BY <1>2, <1>3

-----------------------------------------------------------------------------
\* The parts of a link

Free(text, separator) == \A i \in 1..Len(text) : text[i] # separator

IsNext(text, separator, i, j) ==
    /\ j \in i..Len(text) + 1
    /\ j <= Len(text) => text[j] = separator
    /\ \A k \in i..j - 1 : text[k] # separator

(* The next separator is where none is before it. *)
LEMMA NextAtIs ==
    ASSUME NEW I, NEW text \in Seq(I), NEW separator, NEW i \in 1..Len(text) + 1,
           NEW j, IsNext(text, separator, i, j)
    PROVE  NextAt(text, separator, i) = j
<1> DEFINE n == NextAt(text, separator, i)
<1>1. n = CHOOSE m \in i..Len(text) + 1 : IsNext(text, separator, i, m)
  <2>1. \A m : m \in i..Len(text) + 1 => (IsNext(text, separator, i, m) <=>
             /\ m <= Len(text) => text[m] = separator
             /\ \A k \in i..m - 1 : text[k] # separator)
    BY DEF IsNext
  <2> QED BY <2>1 DEF NextAt
<1>2. j \in i..Len(text) + 1
  BY DEF IsNext
<1> HIDE DEF n
<1>3. IsNext(text, separator, i, n)
  BY <1>1, <1>2
<1>4. Len(text) \in Nat
  OBVIOUS
<1>5. n \in Int /\ j \in Int /\ i <= n /\ i <= j /\ n <= Len(text) + 1 /\ j <= Len(text) + 1
  BY <1>3, <1>4 DEF IsNext
<1>6. CASE n < j
  <2>1. n \in i..j - 1 /\ n <= Len(text)
    BY <1>4, <1>5, <1>6
  <2> QED BY <1>3, <2>1 DEF IsNext
<1>7. CASE j < n
  <2>1. j \in i..n - 1 /\ j <= Len(text)
    BY <1>4, <1>5, <1>7
  <2> QED BY <1>3, <2>1 DEF IsNext
<1> QED BY <1>5, <1>6, <1>7 DEF n

(* There is a next separator, or the end of the text. *)
LEMMA NextAtFacts ==
    ASSUME NEW I, NEW text \in Seq(I), NEW separator, NEW i \in 1..Len(text) + 1
    PROVE  IsNext(text, separator, i, NextAt(text, separator, i))
<1> DEFINE At == {j \in i..Len(text) + 1 : j <= Len(text) => text[j] = separator}
<1>1. Len(text) \in Nat
  OBVIOUS
<1>2. At \in SUBSET Nat /\ Len(text) + 1 \in At
  BY <1>1
<1>3. PICK j \in At : \A m \in At : j <= m
  <2> HIDE DEF At
  <2>1. At # {}
    BY <1>2
  <2> QED BY <1>2, <2>1, LeastNatural
<1>4. \A k \in i..j - 1 : text[k] # separator
  <2> SUFFICES ASSUME NEW k \in i..j - 1, text[k] = separator PROVE FALSE
    OBVIOUS
  <2>1. j \in Nat /\ j <= Len(text) + 1
    BY <1>1
  <2>2. k \in i..Len(text) + 1 /\ k < j
    BY <1>1, <2>1
  <2>3. k \in At
    BY <2>2
  <2> QED BY <1>3, <2>1, <2>2, <2>3
<1>5. IsNext(text, separator, i, j)
  BY <1>4 DEF IsNext
<1> QED BY <1>5, NextAtIs

Part(text, separator, i) ==
    IF i > 1 /\ text[i - 1] # separator THEN << >>
    ELSE <<SubSeq(text, i, NextAt(text, separator, i) - 1)>>

(* One part may begin at each place. *)
LEMMA PartType ==
    ASSUME NEW I, NEW text \in Seq(I), NEW separator, NEW i \in 1..Len(text) + 1
    PROVE  Part(text, separator, i) \in Seq(Seq(I))
<1>1. NextAt(text, separator, i) \in i..Len(text) + 1
  BY NextAtFacts DEF IsNext
<1>2. Len(text) \in Nat
  OBVIOUS
<1> DEFINE n == NextAt(text, separator, i)
<1> HIDE DEF n
<1>3. SubSeq(text, i, n - 1) \in Seq(I)
  <2>1. n \in Int /\ i <= n /\ n <= Len(text) + 1
    BY <1>1, <1>2 DEF n
  <2>2. \A k \in i..n - 1 : k \in 1..Len(text)
    BY <1>2, <2>1
  <2> QED BY <2>1, <2>2, SubSeqProperties
<1> QED BY <1>3 DEF Part, n

(* A text without the separator is one part. *)
LEMMA OnePart ==
    ASSUME NEW I, NEW text \in Seq(I), NEW separator, Free(text, separator),
           NEW q, q = [i \in 1..Len(text) + 1 |-> Part(text, separator, i)]
    PROVE  FlattenSeq(q) = <<text>> /\ Split(text, separator) = <<text>>
<1>1. Len(text) \in Nat
  OBVIOUS
<1>2. NextAt(text, separator, 1) = Len(text) + 1
  <2>1. IsNext(text, separator, 1, Len(text) + 1)
    BY <1>1 DEF IsNext, Free
  <2> QED BY <1>1, <2>1, NextAtIs
<1>3. Part(text, separator, 1) = <<text>>
  <2>1. SubSeq(text, 1, Len(text) + 1 - 1) = text
    BY <1>1, SubSeqFull
  <2> QED BY <1>2, <2>1 DEF Part
<1>4. \A i \in 2..Len(text) + 1 : Part(text, separator, i) = << >>
  BY <1>1 DEF Part, Free
<1> DEFINE none == [i \in 1..Len(text) |-> << >>]
<1>5. none \in Seq({<< >>}) /\ none \in Seq(Seq(Seq(I)))
  BY <1>1
<1>6. FlattenSeq(none) = << >>
  BY <1>5, FlattenNothing
<1>7. q = << <<text>> >> \o none
  <2>1. Len(none) = Len(text) /\ Len(<< <<text>> >>) = 1
    BY <1>1
  <2>2. \A i \in 1..Len(text) + 1 : q[i] = IF i <= 1 THEN <<text>> ELSE none[i - 1]
    BY <1>1, <1>3, <1>4
  <2> HIDE DEF none
  <2>3. << <<text>> >> \o none =
            [i \in 1..Len(text) + 1 |-> IF i <= 1 THEN <<text>> ELSE none[i - 1]]
    BY <1>1, <1>5, <2>1
  <2> QED BY <2>2, <2>3
<1>8. FlattenSeq(<< <<text>> >>) = <<text>> /\ << <<text>> >> \in Seq(Seq(Seq(I)))
  <2>1. <<text>> \in Seq(Seq(I)) /\ << >> \in Seq(Seq(Seq(I))) /\ FlattenSeq(<< >>) = << >>
    BY FlattenFacts
  <2>2. << <<text>> >> = Append(<< >>, <<text>>)
    OBVIOUS
  <2>3. FlattenSeq(Append(<< >>, <<text>>)) = << >> \o <<text>>
    <3>1. FlattenSeq(Append(<< >>, <<text>>)) = FlattenSeq(<< >>) \o <<text>>
      BY <2>1, FlattenAppend
    <3> QED BY <2>1, <3>1
  <2> QED BY <2>1, <2>2, <2>3
<1>9. FlattenSeq(q) = <<text>>
  <2>1. FlattenSeq(q) = <<text>> \o << >>
    <3> HIDE DEF none
    <3>1. FlattenSeq(<< <<text>> >> \o none) = FlattenSeq(<< <<text>> >>) \o FlattenSeq(none)
      BY <1>5, <1>8, FlattenConcat
    <3> QED BY <1>6, <1>7, <1>8, <3>1
  <2> QED BY <2>1
<1>10. Split(text, separator) = FlattenSeq(q)
  BY DEF Split, Part
<1> QED BY <1>9, <1>10

(* A sequence that begins with one and goes on with another is their concatenation. *)
LEMMA ConcatIs ==
    ASSUME NEW S, NEW p \in Seq(S), NEW q \in Seq(S), NEW r \in Seq(S),
           Len(r) = Len(p) + Len(q),
           \A i \in 1..Len(p) : r[i] = p[i],
           \A i \in 1..Len(q) : r[Len(p) + i] = q[i]
    PROVE  r = p \o q
<1>1. Len(p) \in Nat /\ Len(q) \in Nat
  OBVIOUS
<1>2. p \o q \in Seq(S) /\ Len(p \o q) = Len(r)
  BY ConcatProperties
<1>3. ASSUME NEW i \in 1..Len(r) PROVE r[i] = (p \o q)[i]
  <2>1. CASE i <= Len(p)
    <3>1. i \in 1..Len(p)
      BY <1>1, <2>1
    <3> QED BY <2>1, <3>1, ConcatProperties
  <2>2. CASE ~(i <= Len(p))
    <3>1. i - Len(p) \in 1..Len(q) /\ Len(p) + (i - Len(p)) = i
      BY <1>1, <2>2
    <3>2. r[Len(p) + (i - Len(p))] = q[i - Len(p)]
      BY <3>1
    <3> QED BY <2>2, <3>1, <3>2, ConcatProperties
  <2> QED BY <2>1, <2>2
<1> QED BY <1>2, <1>3, SeqEqual

(* A function on the first numbers is a sequence. *)
LEMMA FunctionIsSeq ==
    ASSUME NEW S, NEW k \in Nat, NEW p \in [1..k -> S]
    PROVE  p \in Seq(S) /\ Len(p) = k
OBVIOUS

(* What is behind a text and a separator is one more part, if it has no separator. *)
LEMMA OneMorePart ==
    ASSUME NEW I, NEW text \in Seq(I), NEW separator \in I, NEW last \in Seq(I),
           Free(last, separator)
    PROVE  Split((text \o <<separator>>) \o last, separator) = Split(text, separator) \o <<last>>
<1> DEFINE whole == (text \o <<separator>>) \o last
           n == Len(text)
           m == Len(last)
           p == [i \in 1..n + 1 |-> Part(text, separator, i)]
           q == [i \in 1..m + 1 |-> Part(last, separator, i)]
           r == [i \in 1..Len(whole) + 1 |-> Part(whole, separator, i)]
<1>1. n \in Nat /\ m \in Nat
  OBVIOUS
<1>2. /\ whole \in Seq(I) /\ Len(whole) = n + 1 + m
      /\ \A i \in 1..n : whole[i] = text[i]
      /\ whole[n + 1] = separator
      /\ \A i \in 1..m : whole[n + 1 + i] = last[i]
  <2> DEFINE front == text \o <<separator>>
  <2>1. front \in Seq(I) /\ Len(front) = n + 1 /\ front[n + 1] = separator
        /\ \A i \in 1..n : front[i] = text[i]
    OBVIOUS
  <2> HIDE DEF front
  <2>2. front \o last \in Seq(I) /\ Len(front \o last) = n + 1 + m
    BY <2>1, SMTT(40)
  <2>3. \A i \in 1..n + 1 : (front \o last)[i] = front[i]
    BY <1>1, <2>1, ConcatProperties
  <2>4. \A i \in 1..m : (front \o last)[n + 1 + i] = last[i]
    <3> SUFFICES ASSUME NEW i \in 1..m PROVE (front \o last)[n + 1 + i] = last[i]
      OBVIOUS
    <3>1. n + 1 + i \in 1..Len(front) + Len(last) /\ ~(n + 1 + i <= Len(front))
          /\ (n + 1 + i) - Len(front) = i
      BY <1>1, <2>1
    <3> QED BY <2>1, <3>1, ConcatProperties
  <2>5. \A i \in 1..n : i \in 1..n + 1
    BY <1>1
  <2>6. n + 1 \in 1..n + 1
    BY <1>1
  <2> QED BY <2>1, <2>2, <2>3, <2>4, <2>5, <2>6 DEF front
<1> HIDE DEF whole
<1>3. \A i \in 1..n + 1 : Part(whole, separator, i) = Part(text, separator, i)
  <2> SUFFICES ASSUME NEW i \in 1..n + 1
               PROVE  Part(whole, separator, i) = Part(text, separator, i)
    OBVIOUS
  <2> DEFINE j == NextAt(text, separator, i)
  <2>1. IsNext(text, separator, i, j)
    BY NextAtFacts
  <2> HIDE DEF j
  <2>2. j \in Int /\ i <= j /\ j <= n + 1
    BY <1>1, <2>1 DEF IsNext
  <2>3. IsNext(whole, separator, i, j)
    <3>1. j \in i..Len(whole) + 1
      BY <1>1, <1>2, <2>2
    <3>2. j <= Len(whole) => whole[j] = separator
      <4>1. CASE j = n + 1
        BY <1>2, <4>1
      <4>2. CASE j <= n
        <5>1. j \in 1..n
          BY <1>1, <2>2, <4>2
        <5> QED BY <1>2, <2>1, <4>2, <5>1 DEF IsNext
      <4> QED BY <1>1, <2>2, <4>1, <4>2
    <3>3. \A k \in i..j - 1 : whole[k] # separator
      <4>1. \A k \in i..j - 1 : k \in 1..n
        BY <1>1, <2>2
      <4> QED BY <1>2, <2>1, <4>1 DEF IsNext
    <3> QED BY <3>1, <3>2, <3>3 DEF IsNext
  <2>4. NextAt(whole, separator, i) = j
    <3>1. i \in 1..Len(whole) + 1
      BY <1>1, <1>2
    <3> QED BY <1>2, <2>3, <3>1, NextAtIs
  <2>5. SubSeq(whole, i, j - 1) = SubSeq(text, i, j - 1)
    <3> DEFINE u == SubSeq(whole, i, j - 1)
               v == SubSeq(text, i, j - 1)
    <3>1. \A k \in i..j - 1 : k \in 1..n /\ whole[k] = text[k] /\ text[k] \in I
      BY <1>1, <1>2, <2>2
    <3>2. i \in Int /\ j - 1 \in Int
      BY <1>1, <2>2
    <3>3. /\ u \in Seq(I) /\ v \in Seq(I) /\ Len(u) = Len(v)
          /\ Len(u) = IF i <= j - 1 THEN (j - 1) - i + 1 ELSE 0
          /\ \A k \in 1..(j - 1) - i + 1 : u[k] = whole[i + k - 1] /\ v[k] = text[i + k - 1]
      BY <3>1, <3>2, SubSeqProperties
    <3>4. \A k \in 1..Len(u) : k \in 1..(j - 1) - i + 1 /\ i + k - 1 \in i..j - 1
      BY <3>2, <3>3
    <3> HIDE DEF u, v
    <3>5. \A k \in 1..Len(u) : u[k] = v[k]
      BY <3>1, <3>3, <3>4
    <3>6. u = v
      BY <3>3, <3>5, SeqEqual
    <3> QED BY <3>6 DEF u, v
  <2>6. (i > 1 /\ whole[i - 1] # separator) <=> (i > 1 /\ text[i - 1] # separator)
    <3>1. i > 1 => i - 1 \in 1..n
      BY <1>1
    <3> QED BY <1>2, <3>1
  <2> QED BY <2>4, <2>5, <2>6 DEF Part, j
<1>4. \A i \in 1..m + 1 : Part(whole, separator, n + 1 + i) = Part(last, separator, i)
  <2> SUFFICES ASSUME NEW i \in 1..m + 1
               PROVE  Part(whole, separator, n + 1 + i) = Part(last, separator, i)
    OBVIOUS
  <2>1. CASE i > 1
    <3>1. i - 1 \in 1..m /\ (n + 1 + i) - 1 = n + 1 + (i - 1) /\ n + 1 + i > 1
      BY <1>1, <2>1
    <3>2. whole[(n + 1 + i) - 1] = last[i - 1] /\ last[i - 1] # separator
      BY <1>2, <3>1 DEF Free
    <3> QED BY <2>1, <3>1, <3>2 DEF Part
  <2>2. CASE i = 1
    <3>1. NextAt(last, separator, 1) = m + 1
      <4>1. IsNext(last, separator, 1, m + 1)
        BY <1>1 DEF IsNext, Free
      <4> QED BY <1>1, <4>1, NextAtIs
    <3>2. NextAt(whole, separator, n + 2) = n + 1 + m + 1
      <4>1. \A k \in n + 2..(n + 1 + m + 1) - 1 : whole[k] # separator
        <5> SUFFICES ASSUME NEW k \in n + 2..(n + 1 + m + 1) - 1 PROVE whole[k] # separator
          OBVIOUS
        <5>1. k - (n + 1) \in 1..m /\ n + 1 + (k - (n + 1)) = k
          BY <1>1
        <5>2. whole[n + 1 + (k - (n + 1))] = last[k - (n + 1)]
          BY <1>2, <5>1
        <5> QED BY <5>1, <5>2 DEF Free
      <4>2. IsNext(whole, separator, n + 2, n + 1 + m + 1)
        BY <1>1, <1>2, <4>1 DEF IsNext
      <4>3. n + 2 \in 1..Len(whole) + 1
        BY <1>1, <1>2
      <4> QED BY <1>2, <4>2, <4>3, NextAtIs
    <3> DEFINE u == SubSeq(whole, n + 2, (n + 1 + m + 1) - 1)
               v == SubSeq(last, 1, (m + 1) - 1)
    <3>3. \A k \in n + 2..(n + 1 + m + 1) - 1 : whole[k] \in I
      BY <1>1, <1>2
    <3>4. /\ u \in Seq(I) /\ Len(u) = m
          /\ \A k \in 1..m : u[k] = whole[n + 2 + k - 1]
      <4>1. /\ u \in Seq(I)
            /\ Len(u) = IF n + 2 <= (n + 1 + m + 1) - 1
                        THEN ((n + 1 + m + 1) - 1) - (n + 2) + 1 ELSE 0
            /\ \A k \in 1..((n + 1 + m + 1) - 1) - (n + 2) + 1 : u[k] = whole[n + 2 + k - 1]
        <5>1. n + 2 \in Int /\ (n + 1 + m + 1) - 1 \in Int
          BY <1>1
        <5> QED BY <3>3, <5>1, SubSeqProperties
      <4>2. ((n + 1 + m + 1) - 1) - (n + 2) + 1 = m
        BY <1>1
      <4>3. (IF n + 2 <= (n + 1 + m + 1) - 1
             THEN ((n + 1 + m + 1) - 1) - (n + 2) + 1 ELSE 0) = m
        BY <1>1
      <4> HIDE DEF u
      <4> QED BY <4>1, <4>2, <4>3
    <3>5. v = last
      <4>1. (m + 1) - 1 = m
        BY <1>1
      <4> QED BY <4>1, SubSeqFull
    <3>6. u = last
      <4> HIDE DEF u
      <4>1. \A k \in 1..m : n + 2 + k - 1 = n + 1 + k
        BY <1>1
      <4>2. \A k \in 1..m : u[k] = last[k]
        BY <1>2, <3>4, <4>1
      <4> QED BY <3>4, <4>2, SeqEqual
    <3>7. Part(last, separator, 1) = <<v>>
      BY <3>1 DEF Part
    <3>8. Part(whole, separator, n + 2) = <<u>>
      <4>1. (n + 2) - 1 = n + 1
        BY <1>1
      <4> HIDE DEF u
      <4>2. ~(n + 2 > 1 /\ whole[(n + 2) - 1] # separator)
        BY <1>2, <4>1
      <4>3. SubSeq(whole, n + 2, NextAt(whole, separator, n + 2) - 1) = u
        BY <3>2 DEF u
      <4> QED BY <4>2, <4>3 DEF Part
    <3>9. n + 1 + i = n + 2
      BY <1>1, <2>2
    <3> HIDE DEF u, v
    <3> QED BY <2>2, <3>5, <3>6, <3>7, <3>8, <3>9
  <2>3. i = 1 \/ i > 1
    BY <1>1
  <2> QED BY <2>1, <2>2, <2>3
<1> DEFINE S == Seq(Seq(I))
<1>5. /\ p \in Seq(S) /\ Len(p) = n + 1
      /\ q \in Seq(S) /\ Len(q) = m + 1
      /\ r \in Seq(S) /\ Len(r) = Len(p) + Len(q)
  <2>1. /\ p \in [1..n + 1 -> S] /\ q \in [1..m + 1 -> S]
        /\ r \in [1..Len(whole) + 1 -> S]
    BY <1>2, PartType
  <2>2. n + 1 \in Nat /\ m + 1 \in Nat /\ Len(whole) + 1 = (n + 1) + (m + 1)
    BY <1>1, <1>2
  <2> HIDE DEF p, q, r, n, m, S
  <2>3. p \in Seq(S) /\ Len(p) = n + 1
    BY <2>1, <2>2, FunctionIsSeq
  <2>4. q \in Seq(S) /\ Len(q) = m + 1
    BY <2>1, <2>2, FunctionIsSeq
  <2>5. r \in Seq(S) /\ Len(r) = (n + 1) + (m + 1)
    <3>1. Len(whole) + 1 \in Nat
      BY <1>1, <2>2 DEF n, m
    <3> QED BY <2>1, <2>2, <3>1, FunctionIsSeq
  <2> QED BY <2>3, <2>4, <2>5
<1>6. r = p \o q
  <2>1. \A i \in 1..n + 1 : i \in 1..Len(whole) + 1 /\ r[i] = p[i]
    <3>1. \A i \in 1..n + 1 : i \in 1..Len(whole) + 1
      BY <1>1, <1>2
    <3> QED BY <1>3, <3>1
  <2>2. \A i \in 1..m + 1 : r[n + 1 + i] = q[i]
    <3>1. \A i \in 1..m + 1 : n + 1 + i \in 1..Len(whole) + 1
      BY <1>1, <1>2
    <3> QED BY <1>4, <3>1
  <2> HIDE DEF p, q, r, n, m, S
  <2>3. \A i \in 1..Len(p) : r[i] = p[i]
    BY <1>5, <2>1
  <2>4. \A i \in 1..Len(q) : r[Len(p) + i] = q[i]
    BY <1>5, <2>2
  <2> QED BY <1>5, <2>3, <2>4, ConcatIs
<1>7. FlattenSeq(r) = FlattenSeq(p) \o FlattenSeq(q)
  <2> HIDE DEF p, q, r, n, m
  <2> QED BY <1>5, <1>6, FlattenConcat
<1>8. FlattenSeq(q) = <<last>>
  BY OnePart
<1>9. Split(text, separator) = FlattenSeq(p) /\ Split(whole, separator) = FlattenSeq(r)
  BY DEF Split, Part
<1> QED BY <1>7, <1>8, <1>9 DEF whole

(* One element and then others: without the element the others remain, and each of
   them is one place earlier. *)
LEMMA BehindOne ==
    ASSUME NEW I, NEW x \in I, NEW rest \in Seq(I), NEW whole, whole = <<x>> \o rest
    PROVE  /\ whole \in Seq(I) /\ Len(whole) = Len(rest) + 1 /\ whole[1] = x
           /\ \A i \in 1..Len(rest) : whole[i + 1] = rest[i]
           /\ SubSeq(whole, 2, Len(whole)) = rest
<1>1. Len(rest) \in Nat /\ <<x>> \in Seq(I) /\ Len(<<x>>) = 1
  OBVIOUS
<1>2. whole \in Seq(I) /\ Len(whole) = Len(rest) + 1
  BY <1>1, ConcatProperties
<1>3. whole[1] = x
  BY <1>1
<1>4. \A i \in 1..Len(rest) : whole[i + 1] = rest[i]
  <2> SUFFICES ASSUME NEW i \in 1..Len(rest) PROVE whole[i + 1] = rest[i]
    OBVIOUS
  <2>1. i + 1 \in 1..Len(<<x>>) + Len(rest) /\ ~(i + 1 <= Len(<<x>>)) /\ (i + 1) - Len(<<x>>) = i
    BY <1>1
  <2> QED BY <1>1, <2>1, ConcatProperties
<1>5. SubSeq(whole, 2, Len(whole)) = rest
  <2> DEFINE u == SubSeq(whole, 2, Len(whole))
  <2>1. \A i \in 2..Len(whole) : whole[i] \in I
    BY <1>1, <1>2
  <2>2. /\ u \in Seq(I) /\ Len(u) = IF 2 <= Len(whole) THEN Len(whole) - 2 + 1 ELSE 0
        /\ \A i \in 1..Len(whole) - 2 + 1 : u[i] = whole[2 + i - 1]
    <3>1. 2 \in Int /\ Len(whole) \in Int
      BY <1>1, <1>2
    <3> QED BY <2>1, <3>1, SubSeqProperties
  <2> HIDE DEF u
  <2>3. Len(u) = Len(rest) /\ Len(whole) - 2 + 1 = Len(rest)
    BY <1>1, <1>2, <2>2
  <2>4. \A i \in 1..Len(rest) : u[i] = rest[i]
    <3>1. \A i \in 1..Len(rest) : 2 + i - 1 = i + 1
      BY <1>1
    <3> QED BY <1>4, <2>2, <2>3, <3>1
  <2> QED BY <2>2, <2>3, <2>4, SeqEqual DEF u
<1> QED BY <1>2, <1>3, <1>4, <1>5

(* What is behind a separator that comes first. *)
LEMMA AfterFirst ==
    ASSUME NEW I, NEW separator \in I, NEW rest \in Seq(I)
    PROVE  After(<<separator>> \o rest, separator) = rest
<1> DEFINE whole == <<separator>> \o rest
<1>1. /\ whole \in Seq(I) /\ Len(whole) = Len(rest) + 1 /\ whole[1] = separator
      /\ SubSeq(whole, 2, Len(whole)) = rest /\ Len(rest) \in Nat
  BY BehindOne
<1> HIDE DEF whole
<1>2. IsNext(whole, separator, 1, 1)
  BY <1>1 DEF IsNext
<1>3. NextAt(whole, separator, 1) = 1
  BY <1>1, <1>2, NextAtIs
<1>4. ~(1 > Len(whole)) /\ 1 + 1 = 2
  BY <1>1
<1>5. After(whole, separator) = SubSeq(whole, 2, Len(whole))
  BY <1>3, <1>4 DEF After
<1> QED BY <1>1, <1>5 DEF whole

(* A key, a separator and a value are taken apart at the separator. *)
LEMMA KeyAndValue ==
    ASSUME NEW I, NEW separator \in I, NEW key \in I, NEW value \in Seq(I), key # separator
    PROVE  /\ Before(<<key, separator>> \o value, separator) = <<key>>
           /\ After(<<key, separator>> \o value, separator) = value
           /\ Len(<<key, separator>> \o value) = Len(value) + 2
           /\ (<<key, separator>> \o value)[2] = separator
<1> DEFINE back == <<separator>> \o value
           whole == <<key>> \o back
<1>1. whole = <<key, separator>> \o value
  <2>1. <<key>> \in Seq(I) /\ <<separator>> \in Seq(I)
    OBVIOUS
  <2>2. <<key, separator>> = <<key>> \o <<separator>>
    OBVIOUS
  <2>3. (<<key>> \o <<separator>>) \o value = <<key>> \o (<<separator>> \o value)
    BY <2>1, ConcatAssociative
  <2> QED BY <2>2, <2>3
<1>2. /\ back \in Seq(I) /\ Len(back) = Len(value) + 1 /\ back[1] = separator
      /\ \A i \in 1..Len(value) : back[i + 1] = value[i]
      /\ SubSeq(back, 2, Len(back)) = value
  BY BehindOne
<1> HIDE DEF back
<1>3. /\ whole \in Seq(I) /\ Len(whole) = Len(back) + 1 /\ whole[1] = key
      /\ \A i \in 1..Len(back) : whole[i + 1] = back[i]
      /\ SubSeq(whole, 2, Len(whole)) = back
  BY <1>2, BehindOne
<1> HIDE DEF whole
<1>4. Len(value) \in Nat
  OBVIOUS
<1>5. whole[2] = separator /\ Len(whole) = Len(value) + 2
  <2>1. 1 \in 1..Len(back) /\ 1 + 1 = 2
    BY <1>2, <1>4
  <2> QED BY <1>2, <1>3, <1>4, <2>1
<1>6. NextAt(whole, separator, 1) = 2
  <2>1. \A k \in 1..2 - 1 : k = 1
    OBVIOUS
  <2>2. IsNext(whole, separator, 1, 2)
    BY <1>3, <1>4, <1>5, <2>1 DEF IsNext
  <2>3. 1 \in 1..Len(whole) + 1
    BY <1>4, <1>5
  <2> QED BY <1>3, <2>2, <2>3, NextAtIs
<1>7. Before(whole, separator) = <<key>>
  <2>1. Before(whole, separator) = SubSeq(whole, 1, 1)
    <3>1. 2 - 1 = 1
      OBVIOUS
    <3> QED BY <1>6, <3>1 DEF Before
  <2>2. SubSeq(whole, 1, 1) = <<key>>
    <3>1. 1 \in 1..Len(whole) /\ 1 \in 1..1
      BY <1>4, <1>5
    <3>2. SubSeq(whole, 1, 1) = <<whole[1]>> \o SubSeq(whole, 1 + 1, 1)
      BY <1>3, <3>1, SubSeqRecursiveFirst
    <3>3. SubSeq(whole, 1 + 1, 1) = << >>
      BY SubSeqEmpty
    <3>4. <<key>> \in Seq(I)
      OBVIOUS
    <3>5. <<key>> \o << >> = <<key>>
      BY <3>4, ConcatEmptySeq
    <3> QED BY <1>3, <3>2, <3>3, <3>5
  <2> QED BY <1>3, <2>1, <2>2
<1>8. After(whole, separator) = value
  <2>1. After(whole, separator) = SubSeq(whole, 3, Len(whole))
    <3>1. ~(2 > Len(whole)) /\ 2 + 1 = 3
      BY <1>4, <1>5
    <3> QED BY <1>6, <3>1 DEF After
  <2> DEFINE u == SubSeq(whole, 3, Len(whole))
  <2>2. \A i \in 3..Len(whole) : whole[i] \in I
    BY <1>3, <1>4, <1>5
  <2>3. /\ u \in Seq(I) /\ Len(u) = IF 3 <= Len(whole) THEN Len(whole) - 3 + 1 ELSE 0
        /\ \A i \in 1..Len(whole) - 3 + 1 : u[i] = whole[3 + i - 1]
    <3>1. 3 \in Int /\ Len(whole) \in Int
      BY <1>4, <1>5
    <3> QED BY <2>2, <3>1, SubSeqProperties
  <2> HIDE DEF u
  <2>4. Len(u) = Len(value) /\ Len(whole) - 3 + 1 = Len(value)
    BY <1>4, <1>5, <2>3
  <2>5. \A i \in 1..Len(value) : u[i] = value[i]
    <3> SUFFICES ASSUME NEW i \in 1..Len(value) PROVE u[i] = value[i]
      OBVIOUS
    <3>1. 3 + i - 1 = (i + 1) + 1 /\ i + 1 \in 1..Len(back)
      BY <1>2, <1>4
    <3>2. whole[(i + 1) + 1] = back[i + 1] /\ back[i + 1] = value[i]
      BY <1>2, <1>3, <3>1
    <3> QED BY <2>3, <2>4, <3>1, <3>2
  <2> QED BY <2>1, <2>3, <2>4, <2>5, SeqEqual DEF u
<1> QED BY <1>1, <1>5, <1>7, <1>8

IsFour(list, a, b, c, d, S) ==
    list \in Seq(S) /\ Len(list) = 4
        /\ list[1] = a /\ list[2] = b /\ list[3] = c /\ list[4] = d

(* A list that is put together of four elements. *)
LEMMA FourInARow ==
    ASSUME NEW S, NEW a \in S, NEW b \in S, NEW c \in S, NEW d \in S
    PROVE  IsFour(<<a>> \o <<b>> \o <<c>> \o <<d>>, a, b, c, d, S)
<1> DEFINE two == <<a>> \o <<b>>
           three == two \o <<c>>
           four == three \o <<d>>
<1>1. <<a>> \in Seq(S) /\ <<b>> \in Seq(S) /\ <<c>> \in Seq(S) /\ <<d>> \in Seq(S)
  OBVIOUS
<1>2. two \in Seq(S) /\ Len(two) = 2 /\ two[1] = a /\ two[2] = b
  BY <1>1
<1> HIDE DEF two
<1>3. three \in Seq(S) /\ Len(three) = 3 /\ three[1] = a /\ three[2] = b /\ three[3] = c
  <2>1. Append(two, c) = three
    BY <1>2, AppendIsConcat
  <2>2. Append(two, c) \in Seq(S) /\ Len(Append(two, c)) = 3 /\ Append(two, c)[3] = c
        /\ Append(two, c)[1] = two[1] /\ Append(two, c)[2] = two[2]
    <3>1. 1 \in 1..Len(two) /\ 2 \in 1..Len(two) /\ Len(two) + 1 = 3
      BY <1>2
    <3>2. /\ Append(two, c) \in Seq(S) /\ Len(Append(two, c)) = Len(two) + 1
          /\ Append(two, c)[Len(two) + 1] = c
          /\ \A i \in 1..Len(two) : Append(two, c)[i] = two[i]
      <4>1. two \in Seq(S)
        BY <1>2
      <4> QED BY <4>1, AppendProperties
    <3> QED BY <1>2, <3>1, <3>2
  <2> HIDE DEF three
  <2> QED BY <1>2, <2>1, <2>2
<1> HIDE DEF three
<1>4. four \in Seq(S) /\ Len(four) = 4 /\ four[1] = a /\ four[2] = b /\ four[3] = c /\ four[4] = d
  <2>1. Append(three, d) = four
    BY <1>3, AppendIsConcat
  <2>2. Append(three, d) \in Seq(S) /\ Len(Append(three, d)) = 4 /\ Append(three, d)[4] = d
        /\ Append(three, d)[1] = three[1] /\ Append(three, d)[2] = three[2]
        /\ Append(three, d)[3] = three[3]
    <3>1. /\ 1 \in 1..Len(three) /\ 2 \in 1..Len(three) /\ 3 \in 1..Len(three)
          /\ Len(three) + 1 = 4
      BY <1>3
    <3>2. /\ Append(three, d) \in Seq(S) /\ Len(Append(three, d)) = Len(three) + 1
          /\ Append(three, d)[Len(three) + 1] = d
          /\ \A i \in 1..Len(three) : Append(three, d)[i] = three[i]
      <4>1. three \in Seq(S)
        BY <1>3
      <4> QED BY <4>1, AppendProperties
    <3> QED BY <1>3, <3>1, <3>2
  <2> HIDE DEF four
  <2> QED BY <1>3, <2>1, <2>2
<1> QED BY <1>4 DEF IsFour, two, three, four

(* Four sequences in a row. *)
LEMMA FlattenFour ==
    ASSUME NEW I, NEW a \in Seq(I), NEW b \in Seq(I), NEW c \in Seq(I), NEW d \in Seq(I),
           NEW list, IsFour(list, a, b, c, d, Seq(I))
    PROVE  FlattenSeq(list) = a \o b \o c \o d
<1> DEFINE S == Seq(I)
<1>1. << >> \in Seq(S) /\ FlattenSeq(<< >>) = << >>
  BY FlattenFacts
<1>2. <<a>> \in Seq(S) /\ <<a, b>> \in Seq(S) /\ <<a, b, c>> \in Seq(S)
  <2> HIDE DEF S
  <2> QED BY DEF S
<1>3. /\ <<a>> = Append(<< >>, a) /\ <<a, b>> = Append(<<a>>, b)
      /\ <<a, b, c>> = Append(<<a, b>>, c) /\ <<a, b, c, d>> = Append(<<a, b, c>>, d)
  OBVIOUS
<1>4. FlattenSeq(<<a>>) = a
  <2>1. FlattenSeq(Append(<< >>, a)) = FlattenSeq(<< >>) \o a
    BY <1>1, FlattenAppend
  <2>2. << >> \o a = a
    BY ConcatEmptySeq
  <2> QED BY <1>1, <1>3, <2>1, <2>2
<1>5. FlattenSeq(<<a, b>>) = a \o b
  <2>1. FlattenSeq(Append(<<a>>, b)) = FlattenSeq(<<a>>) \o b
    BY <1>2, FlattenAppend
  <2> QED BY <1>3, <1>4, <2>1
<1>6. FlattenSeq(<<a, b, c>>) = a \o b \o c
  <2>1. FlattenSeq(Append(<<a, b>>, c)) = FlattenSeq(<<a, b>>) \o c
    BY <1>2, FlattenAppend
  <2> QED BY <1>3, <1>5, <2>1
<1>7. FlattenSeq(Append(<<a, b, c>>, d)) = FlattenSeq(<<a, b, c>>) \o d
  BY <1>2, FlattenAppend
<1>8. <<a, b, c, d>> = list
  <2>1. <<a, b, c, d>> \in Seq(S) /\ Len(<<a, b, c, d>>) = 4
    <3>1. a \in S /\ b \in S /\ c \in S /\ d \in S
      OBVIOUS
    <3> HIDE DEF S
    <3> QED BY <3>1
  <2>2. \A i \in 1..4 : <<a, b, c, d>>[i] = list[i]
    BY DEF IsFour
  <2>3. list \in Seq(S) /\ Len(list) = 4
    BY DEF IsFour
  <2> HIDE DEF S
  <2> QED BY <2>1, <2>2, <2>3, SeqEqual
<1> QED BY <1>3, <1>6, <1>7, <1>8

-----------------------------------------------------------------------------
\* Escapes

Special == {"&", "=", "|", "%", "/", ":"}

Codes == {"26", "3D", "7C", "25", "2F", "3A"}

(* What stands for one symbol in a link. *)
Escape(x) == IF x \in DOMAIN Escapes THEN <<"%", Escapes[x]>> ELSE <<x>>

(* Each special symbol has a code of its own, which is no special symbol. *)
LEMMA EscapeCodes ==
    /\ DOMAIN Escapes = Special
    /\ \A x \in Special : Escapes[x] \in Codes
    /\ \A x, y \in Special : Escapes[x] = Escapes[y] => x = y
    /\ Special \cap Codes = {}
<1>1. DOMAIN Escapes = Special
  BY DEF Escapes, Special
<1>2. /\ Escapes["&"] = "26" /\ Escapes["="] = "3D" /\ Escapes["|"] = "7C"
      /\ Escapes["%"] = "25" /\ Escapes["/"] = "2F" /\ Escapes[":"] = "3A"
  <2>1. Escapes["&"] = "26"
    BY DEF Escapes
  <2>2. Escapes["="] = "3D"
    BY DEF Escapes
  <2>3. Escapes["|"] = "7C"
    BY DEF Escapes
  <2>4. Escapes["%"] = "25"
    BY DEF Escapes
  <2>5. Escapes["/"] = "2F"
    BY DEF Escapes
  <2>6. Escapes[":"] = "3A"
    BY DEF Escapes
  <2> QED BY <2>1, <2>2, <2>3, <2>4, <2>5, <2>6
<1>3. ASSUME NEW x \in Special PROVE Escapes[x] \in Codes
  BY <1>2 DEF Special, Codes
<1>4. ASSUME NEW x \in Special, NEW y \in Special, Escapes[x] = Escapes[y] PROVE x = y
  <2>1. CASE x = "&"
    BY <1>2, <1>4, <2>1 DEF Special
  <2>2. CASE x = "="
    BY <1>2, <1>4, <2>2 DEF Special
  <2>3. CASE x = "|"
    BY <1>2, <1>4, <2>3 DEF Special
  <2>4. CASE x = "%"
    BY <1>2, <1>4, <2>4 DEF Special
  <2>5. CASE x = "/"
    BY <1>2, <1>4, <2>5 DEF Special
  <2>6. CASE x = ":"
    BY <1>2, <1>4, <2>6 DEF Special
  <2> QED BY <2>1, <2>2, <2>3, <2>4, <2>5, <2>6 DEF Special
<1>5. Special \cap Codes = {}
  BY DEF Special, Codes
<1> QED BY <1>1, <1>3, <1>4, <1>5

(* One symbol more is its escape more. *)
LEMMA EncodeAppend ==
    ASSUME NEW I, Codes \cup {"%"} \subseteq I
    PROVE  /\ encode_url(<< >>) = << >>
           /\ \A x \in I : Escape(x) \in Seq(I)
           /\ \A text \in Seq(I) : encode_url(text) \in Seq(I)
           /\ \A text \in Seq(I), x \in I :
                  encode_url(Append(text, x)) = encode_url(text) \o Escape(x)
<1> DEFINE p(text) == [i \in DOMAIN text |-> Escape(text[i])]
<1>1. \A text : encode_url(text) = FlattenSeq(p(text))
  BY DEF encode_url, Escape
<1>2. \A x \in I : Escape(x) \in Seq(I)
  <2> SUFFICES ASSUME NEW x \in I PROVE Escape(x) \in Seq(I)
    OBVIOUS
  <2>1. CASE x \in DOMAIN Escapes
    <3>1. Escapes[x] \in I /\ "%" \in I
      BY <2>1, EscapeCodes
    <3>2. <<"%", Escapes[x]>> \in Seq(I)
      BY <3>1
    <3> QED BY <2>1, <3>2 DEF Escape
  <2>2. CASE x \notin DOMAIN Escapes
    BY <2>2 DEF Escape
  <2> QED BY <2>1, <2>2
<1> DEFINE S == Seq(I)
<1>3. ASSUME NEW text \in Seq(I) PROVE p(text) \in Seq(S) /\ Len(p(text)) = Len(text)
  <2>1. DOMAIN text = 1..Len(text) /\ Len(text) \in Nat /\ \A i \in 1..Len(text) : text[i] \in I
    BY LenProperties, ElementOfSeq
  <2>2. p(text) \in [1..Len(text) -> S]
    BY <1>2, <2>1
  <2> HIDE DEF p, S
  <2> QED BY <2>1, <2>2, FunctionIsSeq
<1>4. ASSUME NEW text \in Seq(I), NEW x \in I
      PROVE  p(Append(text, x)) = Append(p(text), Escape(x))
  <2>1. Append(text, x) \in Seq(I) /\ Len(Append(text, x)) = Len(text) + 1 /\ Len(text) \in Nat
        /\ Append(text, x)[Len(text) + 1] = x
        /\ \A i \in 1..Len(text) : Append(text, x)[i] = text[i]
    OBVIOUS
  <2> DEFINE t == Append(text, x)
  <2> HIDE DEF t
  <2>2. DOMAIN t = 1..Len(text) + 1 /\ DOMAIN text = 1..Len(text)
    BY <2>1, LenProperties DEF t
  <2>3. \A i \in 1..Len(text) : p(t)[i] = p(text)[i]
    BY <2>1, <2>2 DEF t
  <2>4. p(t)[Len(text) + 1] = Escape(x)
    BY <2>1, <2>2 DEF t
  <2>5. /\ p(t) \in Seq(S) /\ Len(p(t)) = Len(text) + 1
        /\ p(text) \in Seq(S) /\ Len(p(text)) = Len(text) /\ Escape(x) \in S
    BY <1>2, <1>3, <2>1 DEF t
  <2> DEFINE a == p(t)
             b == p(text)
             e == Escape(x)
             n == Len(text)
  <2> HIDE DEF a, b, e, n, p, S
  <2>6. /\ Append(b, e) \in Seq(S) /\ Len(Append(b, e)) = n + 1 /\ n \in Nat
        /\ \A i \in 1..n : Append(b, e)[i] = b[i]
        /\ Append(b, e)[n + 1] = e
    <3>1. b \in Seq(S) /\ e \in S /\ Len(b) = n
      BY <2>5 DEF b, e, n
    <3> QED BY <3>1, AppendProperties
  <2>7. a \in Seq(S) /\ Len(a) = n + 1 /\ a[n + 1] = e /\ \A i \in 1..n : a[i] = b[i]
    BY <2>3, <2>4, <2>5 DEF a, b, e, n
  <2>8. \A i \in 1..Len(a) : a[i] = Append(b, e)[i]
    <3>1. \A i \in 1..n + 1 : i \in 1..n \/ i = n + 1
      BY <2>6
    <3> QED BY <2>6, <2>7, <3>1
  <2>9. a = Append(b, e)
    BY <2>6, <2>7, <2>8, SeqEqual
  <2> QED BY <2>9 DEF a, b, e, t
<1>5. p(<< >>) = << >>
  OBVIOUS
<1>6. FlattenSeq(<< >>) = << >>
  BY FlattenFacts
<1>7. ASSUME NEW text \in Seq(I) PROVE encode_url(text) \in Seq(I)
  <2>1. p(text) \in Seq(Seq(I))
    BY <1>3
  <2> HIDE DEF p
  <2> QED BY <1>1, <2>1, FlattenFacts
<1>8. ASSUME NEW text \in Seq(I), NEW x \in I
      PROVE  encode_url(Append(text, x)) = encode_url(text) \o Escape(x)
  <2>1. p(text) \in Seq(Seq(I)) /\ Escape(x) \in Seq(I)
    BY <1>2, <1>3
  <2>2. p(Append(text, x)) = Append(p(text), Escape(x))
    BY <1>4
  <2> HIDE DEF p
  <2>3. FlattenSeq(Append(p(text), Escape(x))) = FlattenSeq(p(text)) \o Escape(x)
    BY <2>1, FlattenAppend
  <2> QED BY <1>1, <2>2, <2>3
<1> HIDE DEF p
<1> QED BY <1>1, <1>2, <1>5, <1>6, <1>7, <1>8

Escaped(text, i) ==
    i \in 1..Len(text) - 1 /\ text[i] = "%" /\ \E x \in DOMAIN Escapes : Escapes[x] = text[i + 1]

ReadAt(text, i) ==
    IF Escaped(text, i - 1) THEN << >>
    ELSE IF Escaped(text, i) THEN <<CHOOSE x \in DOMAIN Escapes : Escapes[x] = text[i + 1]>>
    ELSE <<text[i]>>

NoOpenEscape(text) == text # << >> => text[Len(text)] # "%"

(* Decoding gives at each place one symbol or none. *)
LEMMA ReadAtType ==
    ASSUME NEW I, Special \subseteq I, NEW text \in Seq(I)
    PROVE  \A i \in 1..Len(text) : ReadAt(text, i) \in Seq(I)
<1> SUFFICES ASSUME NEW i \in 1..Len(text) PROVE ReadAt(text, i) \in Seq(I)
  OBVIOUS
<1>1. CASE Escaped(text, i - 1)
  BY <1>1 DEF ReadAt
<1>2. CASE ~Escaped(text, i - 1) /\ Escaped(text, i)
  <2> DEFINE c == CHOOSE x \in DOMAIN Escapes : Escapes[x] = text[i + 1]
  <2>1. c \in DOMAIN Escapes
    BY <1>2 DEF Escaped
  <2> HIDE DEF c
  <2>2. c \in I
    BY <2>1, EscapeCodes
  <2>3. ReadAt(text, i) = <<c>>
    BY <1>2 DEF ReadAt, c
  <2> QED BY <2>2, <2>3
<1>3. CASE ~Escaped(text, i - 1) /\ ~Escaped(text, i)
  BY <1>3 DEF ReadAt
<1> QED BY <1>1, <1>2, <1>3

(* Decoding is over the places of the text. *)
LEMMA DecodeIs ==
    ASSUME NEW I, Special \subseteq I, NEW text \in Seq(I),
           NEW p, p = [i \in 1..Len(text) |-> ReadAt(text, i)]
    PROVE  /\ decode_url(text) = FlattenSeq(p)
           /\ p \in Seq(Seq(I)) /\ Len(p) = Len(text)
<1>1. DOMAIN text = 1..Len(text) /\ Len(text) \in Nat
  BY LenProperties
<1>2. p = [i \in DOMAIN text |-> ReadAt(text, i)]
  BY <1>1
<1>3. decode_url(text) = FlattenSeq([i \in DOMAIN text |-> ReadAt(text, i)])
  BY DEF decode_url, ReadAt, Escaped
<1>4. p \in [1..Len(text) -> Seq(I)]
  BY ReadAtType
<1> QED BY <1>1, <1>2, <1>3, <1>4, FunctionIsSeq

(* Two texts are decoded one after the other, if no escape is across their border. *)
LEMMA DecodeConcat ==
    ASSUME NEW I, Special \subseteq I, NEW text \in Seq(I), NEW more \in Seq(I),
           NoOpenEscape(text)
    PROVE  decode_url(text \o more) = decode_url(text) \o decode_url(more)
<1> DEFINE n == Len(text)
           m == Len(more)
           whole == text \o more
           p == [i \in 1..Len(text) |-> ReadAt(text, i)]
           q == [i \in 1..Len(more) |-> ReadAt(more, i)]
           r == [i \in 1..Len(whole) |-> ReadAt(whole, i)]
<1>1. n \in Nat /\ m \in Nat /\ whole \in Seq(I) /\ Len(whole) = n + m
  OBVIOUS
<1>2. /\ \A i \in 1..n : whole[i] = text[i]
      /\ \A i \in 1..m : whole[n + i] = more[i]
  <2>1. \A i \in 1..n : i \in 1..n + m /\ i <= n
    BY <1>1
  <2>2. \A i \in 1..m : n + i \in 1..n + m /\ ~(n + i <= n) /\ (n + i) - n = i
    BY <1>1
  <2> QED BY <2>1, <2>2, ConcatProperties
<1> HIDE DEF whole
<1>3. n > 0 => text[n] # "%"
  BY <1>1 DEF NoOpenEscape
<1>4. \A i \in 0..n : Escaped(whole, i) <=> Escaped(text, i)
  <2> SUFFICES ASSUME NEW i \in 0..n PROVE Escaped(whole, i) <=> Escaped(text, i)
    OBVIOUS
  <2>1. CASE i = 0
    BY <2>1 DEF Escaped
  <2>2. CASE i = n /\ i # 0
    <3>1. whole[i] # "%" /\ text[i] # "%"
      BY <1>1, <1>2, <1>3, <2>2
    <3> QED BY <3>1 DEF Escaped
  <2>3. CASE i # 0 /\ i # n
    <3>1. /\ i \in 1..n /\ i + 1 \in 1..n
          /\ i \in 1..Len(whole) - 1 /\ i \in 1..Len(text) - 1
      BY <1>1, <2>3
    <3>2. whole[i] = text[i] /\ whole[i + 1] = text[i + 1]
      BY <1>2, <3>1
    <3> QED BY <3>1, <3>2 DEF Escaped
  <2> QED BY <2>1, <2>2, <2>3
<1>5. \A i \in 0..m : Escaped(whole, n + i) <=> Escaped(more, i)
  <2> SUFFICES ASSUME NEW i \in 0..m PROVE Escaped(whole, n + i) <=> Escaped(more, i)
    OBVIOUS
  <2>1. CASE i = 0
    <3>1. ~Escaped(more, 0)
      BY DEF Escaped
    <3>2. Escaped(whole, n) <=> Escaped(text, n)
      BY <1>1, <1>4
    <3>3. ~Escaped(text, n)
      <4>1. n \notin 1..Len(text) - 1
        BY <1>1
      <4> QED BY <4>1 DEF Escaped
    <3>4. n + 0 = n
      BY <1>1
    <3> QED BY <2>1, <3>1, <3>2, <3>3, <3>4
  <2>2. CASE i = m /\ i # 0
    <3>1. n + i \notin 1..Len(whole) - 1 /\ i \notin 1..Len(more) - 1
      BY <1>1, <2>2
    <3> QED BY <3>1 DEF Escaped
  <2>3. CASE i # 0 /\ i # m
    <3>1. /\ i \in 1..m /\ i + 1 \in 1..m /\ (n + i) + 1 = n + (i + 1)
          /\ n + i \in 1..Len(whole) - 1 /\ i \in 1..Len(more) - 1
      BY <1>1, <2>3
    <3>2. whole[n + i] = more[i] /\ whole[(n + i) + 1] = more[i + 1]
      BY <1>2, <3>1
    <3> QED BY <3>1, <3>2 DEF Escaped
  <2> QED BY <2>1, <2>2, <2>3
<1>6. \A i \in 1..n : ReadAt(whole, i) = ReadAt(text, i)
  <2> SUFFICES ASSUME NEW i \in 1..n PROVE ReadAt(whole, i) = ReadAt(text, i)
    OBVIOUS
  <2>1. (Escaped(whole, i) <=> Escaped(text, i)) /\ (Escaped(whole, i - 1) <=> Escaped(text, i - 1))
    <3>1. i \in 0..n /\ i - 1 \in 0..n
      BY <1>1
    <3> QED BY <1>4, <3>1
  <2>2. whole[i] = text[i]
    BY <1>2
  <2>3. Escaped(text, i) => whole[i + 1] = text[i + 1]
    <3>1. Escaped(text, i) => i + 1 \in 1..n
      BY <1>1 DEF Escaped
    <3> QED BY <1>2, <3>1
  <2>4. CASE Escaped(text, i)
    <3>1. whole[i + 1] = text[i + 1]
      BY <2>3, <2>4
    <3> DEFINE x == whole[i + 1]
               y == text[i + 1]
    <3>2. x = y
      BY <3>1
    <3>3. /\ ReadAt(whole, i) = IF Escaped(whole, i - 1) THEN << >>
                                ELSE <<CHOOSE c \in DOMAIN Escapes : Escapes[c] = x>>
          /\ ReadAt(text, i) = IF Escaped(text, i - 1) THEN << >>
                               ELSE <<CHOOSE c \in DOMAIN Escapes : Escapes[c] = y>>
      BY <2>1, <2>4 DEF ReadAt
    <3> HIDE DEF x, y
    <3> QED BY <2>1, <3>2, <3>3
  <2>5. CASE ~Escaped(text, i)
    BY <2>1, <2>2, <2>5 DEF ReadAt
  <2> QED BY <2>4, <2>5
<1>7. \A i \in 1..m : ReadAt(whole, n + i) = ReadAt(more, i)
  <2> SUFFICES ASSUME NEW i \in 1..m PROVE ReadAt(whole, n + i) = ReadAt(more, i)
    OBVIOUS
  <2>1. (Escaped(whole, n + i) <=> Escaped(more, i))
        /\ (Escaped(whole, (n + i) - 1) <=> Escaped(more, i - 1))
    <3>1. i \in 0..m /\ i - 1 \in 0..m /\ (n + i) - 1 = n + (i - 1)
      BY <1>1
    <3>2. Escaped(whole, n + (i - 1)) <=> Escaped(more, i - 1)
      BY <1>5, <3>1
    <3> QED BY <1>5, <3>1, <3>2
  <2>2. whole[n + i] = more[i]
    BY <1>2
  <2>3. Escaped(more, i) => whole[(n + i) + 1] = more[i + 1]
    <3>1. Escaped(more, i) => i + 1 \in 1..m
      BY <1>1 DEF Escaped
    <3>2. (n + i) + 1 = n + (i + 1)
      BY <1>1
    <3> QED BY <1>2, <3>1, <3>2
  <2>4. CASE Escaped(more, i)
    <3> DEFINE x == whole[(n + i) + 1]
               y == more[i + 1]
    <3>2. x = y
      BY <2>3, <2>4
    <3>3. /\ ReadAt(whole, n + i) = IF Escaped(whole, (n + i) - 1) THEN << >>
                                ELSE <<CHOOSE c \in DOMAIN Escapes : Escapes[c] = x>>
          /\ ReadAt(more, i) = IF Escaped(more, i - 1) THEN << >>
                               ELSE <<CHOOSE c \in DOMAIN Escapes : Escapes[c] = y>>
      BY <2>1, <2>4 DEF ReadAt
    <3> HIDE DEF x, y
    <3> QED BY <2>1, <3>2, <3>3
  <2>5. CASE ~Escaped(more, i)
    BY <2>1, <2>2, <2>5 DEF ReadAt
  <2> QED BY <2>4, <2>5
<1>8. /\ decode_url(text) = FlattenSeq(p) /\ p \in Seq(Seq(I)) /\ Len(p) = n
      /\ decode_url(more) = FlattenSeq(q) /\ q \in Seq(Seq(I)) /\ Len(q) = m
      /\ decode_url(whole) = FlattenSeq(r) /\ r \in Seq(Seq(I)) /\ Len(r) = Len(p) + Len(q)
  <2>1. decode_url(text) = FlattenSeq(p) /\ p \in Seq(Seq(I)) /\ Len(p) = n
    BY DecodeIs
  <2>2. decode_url(more) = FlattenSeq(q) /\ q \in Seq(Seq(I)) /\ Len(q) = m
    BY DecodeIs
  <2>3. decode_url(whole) = FlattenSeq(r) /\ r \in Seq(Seq(I)) /\ Len(r) = Len(whole)
    BY <1>1, DecodeIs
  <2> QED BY <1>1, <2>1, <2>2, <2>3
<1>9. \A i \in 1..Len(p) : r[i] = p[i]
  <2>1. \A i \in 1..n : i \in 1..Len(whole) /\ r[i] = p[i]
    <3>1. \A i \in 1..n : i \in 1..Len(whole)
      BY <1>1
    <3> QED BY <1>6, <3>1
  <2> HIDE DEF p, r
  <2> QED BY <1>8, <2>1
<1>10. \A i \in 1..Len(q) : r[Len(p) + i] = q[i]
  <2>1. \A i \in 1..m : r[n + i] = q[i]
    <3>1. \A i \in 1..m : n + i \in 1..Len(whole)
      BY <1>1
    <3> QED BY <1>7, <3>1
  <2> HIDE DEF p, q, r
  <2> QED BY <1>8, <2>1
<1> HIDE DEF p, q, r
<1>11. r = p \o q
  BY <1>8, <1>9, <1>10, ConcatIs
<1>12. FlattenSeq(p \o q) = FlattenSeq(p) \o FlattenSeq(q)
  BY <1>8, FlattenConcat
<1> QED BY <1>8, <1>11, <1>12 DEF whole

(* An escape is read back. *)
LEMMA DecodeEscape ==
    ASSUME NEW I, Special \cup Codes \subseteq I, NEW x \in I
    PROVE  decode_url(Escape(x)) = <<x>> /\ NoOpenEscape(Escape(x)) /\ Escape(x) \in Seq(I)
           /\ Escape(x) # << >>
<1>1. << >> \in Seq(Seq(I)) /\ FlattenSeq(<< >>) = << >>
  BY FlattenFacts
<1>2. FlattenSeq(<< <<x>> >>) = <<x>>
  <2>1. <<x>> \in Seq(I) /\ << <<x>> >> = Append(<< >>, <<x>>)
    OBVIOUS
  <2>2. FlattenSeq(Append(<< >>, <<x>>)) = FlattenSeq(<< >>) \o <<x>>
    BY <1>1, <2>1, FlattenAppend
  <2>3. << >> \o <<x>> = <<x>>
    BY <2>1, ConcatEmptySeq
  <2> QED BY <1>1, <2>1, <2>2, <2>3
<1>3. "%" \in I /\ "%" \in Special
  BY DEF Special
<1>4. CASE x \in Special
  <2> DEFINE c == Escapes[x]
             t == <<"%", c>>
  <2>1. Escape(x) = t /\ c \in I /\ c \in Codes /\ c # "%"
    BY <1>3, <1>4, EscapeCodes DEF Escape
  <2>2. t \in Seq(I) /\ Len(t) = 2 /\ t[1] = "%" /\ t[2] = c
    BY <1>3, <2>1
  <2>3. x \in DOMAIN Escapes /\ Escapes[x] = c
    BY <1>4, EscapeCodes
  <2>4. (CHOOSE y \in DOMAIN Escapes : Escapes[y] = c) = x
    <3>1. \A y \in DOMAIN Escapes : Escapes[y] = c => y = x
      BY <1>4, EscapeCodes
    <3> QED BY <2>3, <3>1
  <2> HIDE DEF c, t
  <2>5. Escaped(t, 1) /\ ~Escaped(t, 0) /\ ~Escaped(t, 2)
    BY <2>2, <2>3 DEF Escaped
  <2>6. ReadAt(t, 1) = <<x>> /\ ReadAt(t, 2) = << >>
    <3>1. 1 - 1 = 0 /\ 2 - 1 = 1 /\ 1 + 1 = 2
      OBVIOUS
    <3> QED BY <2>2, <2>4, <2>5, <3>1 DEF ReadAt
  <2> DEFINE p == [i \in 1..Len(t) |-> ReadAt(t, i)]
  <2>7. p = << <<x>>, << >> >>
    <3>1. p = [i \in 1..2 |-> IF i = 1 THEN <<x>> ELSE << >>]
      BY <2>2, <2>6
    <3> HIDE DEF p
    <3> QED BY <3>1
  <2>8. decode_url(t) = FlattenSeq(p)
    BY <2>2, DecodeIs
  <2>9. FlattenSeq(<< <<x>>, << >> >>) = <<x>>
    <3>1. << <<x>> >> \in Seq(Seq(I)) /\ << >> \in Seq(I) /\ <<x>> \in Seq(I)
      OBVIOUS
    <3>2. << <<x>>, << >> >> = Append(<< <<x>> >>, << >>)
      OBVIOUS
    <3>3. FlattenSeq(Append(<< <<x>> >>, << >>)) = FlattenSeq(<< <<x>> >>) \o << >>
      BY <3>1, FlattenAppend
    <3>4. <<x>> \o << >> = <<x>>
      BY <3>1, ConcatEmptySeq
    <3> QED BY <1>2, <3>2, <3>3, <3>4
  <2> HIDE DEF p
  <2> QED BY <2>1, <2>2, <2>7, <2>8, <2>9 DEF NoOpenEscape
<1>5. CASE x \notin Special
  <2> DEFINE t == <<x>>
  <2>1. Escape(x) = t /\ x # "%"
    BY <1>3, <1>5, EscapeCodes DEF Escape
  <2>2. t \in Seq(I) /\ Len(t) = 1 /\ t[1] = x
    OBVIOUS
  <2> HIDE DEF t
  <2>3. ~Escaped(t, 0) /\ ~Escaped(t, 1)
    BY <2>2 DEF Escaped
  <2>4. ReadAt(t, 1) = <<x>>
    BY <2>2, <2>3 DEF ReadAt
  <2> DEFINE p == [i \in 1..Len(t) |-> ReadAt(t, i)]
  <2>5. p = << <<x>> >>
    <3>1. p = [i \in 1..1 |-> <<x>>]
      BY <2>2, <2>4
    <3> HIDE DEF p
    <3> QED BY <3>1
  <2>6. decode_url(t) = FlattenSeq(p)
    BY <2>2, DecodeIs, ZenonT(60)
  <2> HIDE DEF p
  <2> QED BY <1>2, <2>1, <2>2, <2>5, <2>6 DEF NoOpenEscape
<1> QED BY <1>4, <1>5

(* What is encoded is read back, and has none of the symbols that mean something. *)
LEMMA EncodedText ==
    ASSUME NEW I, Special \cup Codes \subseteq I, NEW text \in Seq(I)
    PROVE  decode_url(encode_url(text)) = text /\ encode_url(text) \in Seq(I)
           /\ \A x \in Special \ {"%"} : Free(encode_url(text), x)
<1> DEFINE Fine(t) == /\ decode_url(encode_url(t)) = t
                      /\ NoOpenEscape(encode_url(t))
                      /\ \A x \in Special \ {"%"} : Free(encode_url(t), x)
           P == {t \in Seq(I) : Fine(t)}
<1>0. Codes \cup {"%"} \subseteq I
  BY DEF Special
<1>1. P \in SUBSET Seq(I) /\ << >> \in P
  <2>1. encode_url(<< >>) = << >>
    BY <1>0, EncodeAppend
  <2>2. decode_url(<< >>) = << >>
    <3>1. << >> \in Seq(I) /\ Special \subseteq I
      OBVIOUS
    <3>2. ASSUME NEW e \in Seq(I), e = << >> PROVE decode_url(e) = << >>
      <4> DEFINE p == [i \in 1..Len(e) |-> ReadAt(e, i)]
      <4>1. decode_url(e) = FlattenSeq(p) /\ p \in Seq(Seq(I)) /\ Len(p) = Len(e)
        BY <3>1, DecodeIs
      <4> HIDE DEF p
      <4>2. p = << >>
        BY <3>2, <4>1
      <4> QED BY <4>1, <4>2, FlattenFacts
    <3> QED BY <3>1, <3>2
  <2> QED BY <2>1, <2>2 DEF NoOpenEscape, Free
<1>2. ASSUME NEW t \in P, NEW x \in I PROVE Append(t, x) \in P
  <2> DEFINE a == encode_url(t)
             b == Escape(x)
  <2>1. t \in Seq(I) /\ Fine(t) /\ Append(t, x) \in Seq(I)
    OBVIOUS
  <2>2. a \in Seq(I) /\ encode_url(Append(t, x)) = a \o b
    BY <1>0, <2>1, EncodeAppend
  <2>3. decode_url(b) = <<x>> /\ NoOpenEscape(b) /\ b \in Seq(I) /\ b # << >>
    BY DecodeEscape
  <2>4. decode_url(a) = t /\ NoOpenEscape(a) /\ \A y \in Special \ {"%"} : Free(a, y)
    BY <2>1
  <2>5. \A y \in Special \ {"%"} : Free(b, y)
    <3>1. CASE x \in Special
      <4>1. b = <<"%", Escapes[x]>> /\ Escapes[x] \in Codes
        BY <3>1, EscapeCodes DEF Escape
      <4> QED BY <4>1, EscapeCodes DEF Free
    <3>2. CASE x \notin Special
      BY <3>2, EscapeCodes DEF Escape, Free
    <3> QED BY <3>1, <3>2
  <2> HIDE DEF a, b
  <2>6. decode_url(a \o b) = t \o <<x>>
    <3>1. decode_url(a \o b) = decode_url(a) \o decode_url(b)
      BY <2>2, <2>3, <2>4, DecodeConcat
    <3> QED BY <2>3, <2>4, <3>1
  <2>7. t \o <<x>> = Append(t, x)
    BY <2>1, AppendIsConcat
  <2>8. /\ a \o b \in Seq(I) /\ Len(a \o b) = Len(a) + Len(b)
        /\ \A i \in 1..Len(a) + Len(b) :
               (a \o b)[i] = IF i <= Len(a) THEN a[i] ELSE b[i - Len(a)]
        /\ Len(a) \in Nat /\ Len(b) \in Nat
    BY <2>2, <2>3, ConcatProperties
  <2> DEFINE w == a \o b
  <2> HIDE DEF w
  <2>9. ASSUME NEW y \in Special \ {"%"} PROVE Free(w, y)
    <3> SUFFICES ASSUME NEW i \in 1..Len(w) PROVE w[i] # y
      BY DEF Free
    <3>1. CASE i <= Len(a)
      <4>1. i \in 1..Len(a)
        BY <2>8, <3>1
      <4> QED BY <2>4, <2>8, <3>1, <4>1 DEF Free, w
    <3>2. CASE ~(i <= Len(a))
      <4>1. i - Len(a) \in 1..Len(b)
        BY <2>8, <3>2 DEF w
      <4> QED BY <2>5, <2>8, <3>2, <4>1 DEF Free, w
    <3> QED BY <3>1, <3>2
  <2>10. NoOpenEscape(w)
    <3>1. Len(b) > 0
      BY <2>3, <2>8, EmptySeq
    <3>2. ~(Len(w) <= Len(a)) /\ Len(w) - Len(a) = Len(b) /\ Len(w) \in 1..Len(a) + Len(b)
      BY <2>8, <3>1 DEF w
    <3>3. w[Len(w)] = b[Len(b)]
      BY <2>8, <3>2 DEF w
    <3> QED BY <2>3, <3>3 DEF NoOpenEscape
  <2>11. Fine(Append(t, x))
    BY <2>2, <2>6, <2>7, <2>9, <2>10 DEF w
  <2> QED BY <2>1, <2>11
<1> HIDE DEF P
<1>3. P = Seq(I)
  BY <1>1, <1>2, SequencesByAppending
<1>4. encode_url(text) \in Seq(I)
  BY <1>0, EncodeAppend
<1> QED BY <1>3, <1>4 DEF P

-----------------------------------------------------------------------------
\* Magnet links

Words == {"magnet:?", "xt", "urn:btih:", "dn", "xl", "tr", "ed2k://", "file", "http",
          "amarr-reserved", "00"}

\* The symbols of texts.  To the provers a literal is not known to be a string.
Symbols == STRING \cup Special \cup Codes \cup DigitSymbols \cup Words

Text == Seq(Symbols)

(* Texts without a separator have none together. *)
LEMMA FreeConcat ==
    ASSUME NEW I, NEW x \in Seq(I), NEW y \in Seq(I), NEW s, Free(x, s), Free(y, s)
    PROVE  Free(x \o y, s)
<1> DEFINE w == x \o y
<1>1. Len(x) \in Nat /\ Len(y) \in Nat /\ Len(w) = Len(x) + Len(y)
      /\ \A i \in 1..Len(x) + Len(y) : w[i] = IF i <= Len(x) THEN x[i] ELSE y[i - Len(x)]
  BY ConcatProperties
<1> HIDE DEF w
<1>2. ASSUME NEW i \in 1..Len(w) PROVE w[i] # s
  <2>1. CASE i <= Len(x)
    <3>1. i \in 1..Len(x)
      BY <1>1, <2>1
    <3> QED BY <1>1, <2>1, <3>1 DEF Free
  <2>2. CASE ~(i <= Len(x))
    <3>1. i - Len(x) \in 1..Len(y)
      BY <1>1, <2>2
    <3> QED BY <1>1, <2>2, <3>1 DEF Free
  <2> QED BY <2>1, <2>2
<1> QED BY <1>2 DEF Free, w

(* Four parts between separators. *)
LEMMA FourParts ==
    ASSUME NEW I, NEW s \in I, NEW a \in Seq(I), NEW b \in Seq(I), NEW c \in Seq(I),
           NEW d \in Seq(I),
           Free(a, s), Free(b, s), Free(c, s), Free(d, s), NEW text,
           text = (((((a \o <<s>>) \o b) \o <<s>>) \o c) \o <<s>>) \o d
    PROVE  IsFour(Split(text, s), a, b, c, d, Seq(I))
<1> DEFINE ab == (a \o <<s>>) \o b
           abc == (ab \o <<s>>) \o c
<1>0. <<s>> \in Seq(I)
  OBVIOUS
<1>1. ab \in Seq(I) /\ abc \in Seq(I)
  <2>1. a \o <<s>> \in Seq(I)
    BY <1>0, ConcatProperties
  <2>2. ab \in Seq(I)
    BY <2>1, ConcatProperties
  <2> HIDE DEF ab
  <2>3. ab \o <<s>> \in Seq(I)
    BY <1>0, <2>2, ConcatProperties
  <2> QED BY <2>2, <2>3, ConcatProperties
<1>2. Split(a, s) = <<a>>
  <2> DEFINE q == [i \in 1..Len(a) + 1 |-> Part(a, s, i)]
  <2>1. q = [i \in 1..Len(a) + 1 |-> Part(a, s, i)]
    OBVIOUS
  <2> HIDE DEF q
  <2> QED BY <2>1, OnePart
<1>3. \A x, y \in Seq(I) : Free(y, s) => Split((x \o <<s>>) \o y, s) = Split(x, s) \o <<y>>
  BY OneMorePart, ZenonT(60)
<1>4. Split(ab, s) = Split(a, s) \o <<b>>
  BY <1>3
<1>5. Split(abc, s) = Split(ab, s) \o <<c>>
      /\ Split((abc \o <<s>>) \o d, s) = Split(abc, s) \o <<d>>
  <2>1. Split((ab \o <<s>>) \o c, s) = Split(ab, s) \o <<c>>
    <3> HIDE DEF ab
    <3> QED BY <1>1, <1>3
  <2>2. Split((abc \o <<s>>) \o d, s) = Split(abc, s) \o <<d>>
    <3> HIDE DEF abc
    <3> QED BY <1>1, <1>3
  <2> QED BY <2>1, <2>2
<1> HIDE DEF ab, abc
<1>6. Split((abc \o <<s>>) \o d, s) = <<a>> \o <<b>> \o <<c>> \o <<d>>
  BY <1>2, <1>4, <1>5
<1>7. IsFour(<<a>> \o <<b>> \o <<c>> \o <<d>>, a, b, c, d, Seq(I))
  BY FourInARow
<1>8. text = (abc \o <<s>>) \o d
  BY DEF ab, abc
<1> QED BY <1>6, <1>7, <1>8

(* What is made of each of four elements. *)
LEMMA FourPieces ==
    ASSUME NEW S, NEW T, NEW list, NEW a, NEW b, NEW c, NEW d, IsFour(list, a, b, c, d, S),
           NEW f, f = [i \in DOMAIN list |-> f[i]],
           f[1] \in T, f[2] \in T, f[3] \in T, f[4] \in T
    PROVE  IsFour(f, f[1], f[2], f[3], f[4], T)
<1>1. DOMAIN list = 1..4
  BY LenProperties DEF IsFour
<1>2. \A i \in 1..4 : i = 1 \/ i = 2 \/ i = 3 \/ i = 4
  OBVIOUS
<1>3. f \in [1..4 -> T]
  BY <1>1, <1>2
<1>4. 4 \in Nat
  OBVIOUS
<1> QED BY <1>3, <1>4, FunctionIsSeq DEF IsFour

Keyed(params, key) == Where(params, LAMBDA p : p[1] = <<key>>)

(* The parameters that have a key, of four. *)
LEMMA KeyedFour ==
    ASSUME NEW I, NEW a \in I, NEW b \in I, NEW c \in I, NEW d \in I, NEW key,
           NEW params, IsFour(params, a, b, c, d, I)
    PROVE  Keyed(params, key) =
               (IF a[1] = <<key>> THEN <<a>> ELSE << >>)
               \o (IF b[1] = <<key>> THEN <<b>> ELSE << >>)
               \o (IF c[1] = <<key>> THEN <<c>> ELSE << >>)
               \o (IF d[1] = <<key>> THEN <<d>> ELSE << >>)
<1> DEFINE One(x) == IF x[1] = <<key>> THEN <<x>> ELSE << >>
           pieces == [i \in DOMAIN params |-> One(params[i])]
<1>1. Keyed(params, key) = FlattenSeq(pieces)
  BY DEF Keyed, Where
<1>2. \A x \in I : One(x) \in Seq(I)
  OBVIOUS
<1> HIDE DEF One
<1>3. IsFour(pieces, One(a), One(b), One(c), One(d), Seq(I))
  <2>1. pieces = [i \in DOMAIN params |-> pieces[i]]
        /\ pieces[1] = One(a) /\ pieces[2] = One(b) /\ pieces[3] = One(c) /\ pieces[4] = One(d)
    <3>1. DOMAIN params = 1..4
      BY LenProperties DEF IsFour
    <3> QED BY <3>1 DEF IsFour
  <2>2. One(a) \in Seq(I) /\ One(b) \in Seq(I) /\ One(c) \in Seq(I) /\ One(d) \in Seq(I)
    BY <1>2
  <2> HIDE DEF pieces
  <2>3. IsFour(pieces, pieces[1], pieces[2], pieces[3], pieces[4], Seq(I))
    BY <2>1, <2>2, FourPieces
  <2> QED BY <2>1, <2>3
<1> HIDE DEF pieces
<1>4. One(a) \in Seq(I) /\ One(b) \in Seq(I) /\ One(c) \in Seq(I) /\ One(d) \in Seq(I)
  BY <1>2
<1>5. FlattenSeq(pieces) = One(a) \o One(b) \o One(c) \o One(d)
  BY <1>3, <1>4, FlattenFour
<1> QED BY <1>1, <1>5 DEF One

Valued(part, key, value, I) ==
    key \in I /\ key # "=" /\ value \in Seq(I) /\ value # << >> /\ part = <<key, "=">> \o value

KeyValue(key, value) == <<<<key>>, value>>

(* Four parts that have a value are four parameters. *)
LEMMA FourParams ==
    ASSUME NEW I, "=" \in I, NEW a, NEW b, NEW c, NEW d, NEW k1, NEW k2, NEW k3, NEW k4,
           NEW v1, NEW v2, NEW v3, NEW v4,
           Valued(a, k1, v1, I), Valued(b, k2, v2, I), Valued(c, k3, v3, I), Valued(d, k4, v4, I),
           NEW text, IsFour(Split(After(text, "magnet:?"), "&"), a, b, c, d, Seq(I))
    PROVE  IsFour(Params(text), KeyValue(k1, v1), KeyValue(k2, v2), KeyValue(k3, v3),
                  KeyValue(k4, v4), Seq(I) \X Seq(I))
<1> DEFINE Counts(p) == \E i \in 2..Len(p) - 1 : p[i] = "="
           One(p) == IF Counts(p) THEN <<p>> ELSE << >>
           all == Split(After(text, "magnet:?"), "&")
           pieces == [i \in DOMAIN all |-> One(all[i])]
           parts == FlattenSeq(pieces)
           Pair(p) == <<Before(p, "="), After(p, "=")>>
<1>1. Params(text) = [i \in DOMAIN parts |-> Pair(parts[i])]
  BY DEF Params, Where
<1>2. ASSUME NEW p, NEW k, NEW v, Valued(p, k, v, I)
      PROVE  p \in Seq(I) /\ Counts(p) /\ Pair(p) = KeyValue(k, v) /\ Pair(p) \in Seq(I) \X Seq(I)
  <2>1. k \in I /\ k # "=" /\ v \in Seq(I) /\ v # << >> /\ p = <<k, "=">> \o v
    BY <1>2 DEF Valued
  <2>2. Len(v) \in Nat /\ Len(v) > 0
    BY <2>1, EmptySeq
  <2> DEFINE w == <<k, "=">> \o v
  <2>3. Before(w, "=") = <<k>> /\ After(w, "=") = v /\ Len(w) = Len(v) + 2 /\ w[2] = "="
    BY <2>1, KeyAndValue
  <2>4. w \in Seq(I)
    <3>1. <<k, "=">> \in Seq(I)
      BY <2>1
    <3> QED BY <2>1, <3>1, ConcatProperties
  <2>5. <<k>> \in Seq(I)
    BY <2>1
  <2> HIDE DEF w
  <2>6. 2 \in 2..Len(w) - 1
    BY <2>2, <2>3
  <2>7. w = p
    BY <2>1 DEF w
  <2> QED BY <2>1, <2>3, <2>4, <2>5, <2>6, <2>7 DEF KeyValue
<1> DEFINE p1 == KeyValue(k1, v1)
           p2 == KeyValue(k2, v2)
           p3 == KeyValue(k3, v3)
           p4 == KeyValue(k4, v4)
           P == Seq(I) \X Seq(I)
<1>3. /\ a \in Seq(I) /\ Counts(a) /\ Pair(a) = p1 /\ Pair(a) \in P
      /\ b \in Seq(I) /\ Counts(b) /\ Pair(b) = p2 /\ Pair(b) \in P
      /\ c \in Seq(I) /\ Counts(c) /\ Pair(c) = p3 /\ Pair(c) \in P
      /\ d \in Seq(I) /\ Counts(d) /\ Pair(d) = p4 /\ Pair(d) \in P
  <2> HIDE DEF Counts, Pair
  <2> QED BY <1>2
<1>4. p1 \in P /\ p2 \in P /\ p3 \in P /\ p4 \in P
  <2> HIDE DEF Counts, Pair, P, p1, p2, p3, p4
  <2> QED BY <1>3
<1>5. IsFour(all, a, b, c, d, Seq(I))
  BY Zenon
<1> HIDE DEF all, Counts, Pair, p1, p2, p3, p4, P
<1> DEFINE S == Seq(I)
<1>6. IsFour(pieces, <<a>>, <<b>>, <<c>>, <<d>>, Seq(S))
  <2>1. <<a>> \in Seq(S) /\ <<b>> \in Seq(S) /\ <<c>> \in Seq(S) /\ <<d>> \in Seq(S)
    BY <1>3
  <2>2. One(a) = <<a>> /\ One(b) = <<b>> /\ One(c) = <<c>> /\ One(d) = <<d>>
    BY <1>3
  <2> HIDE DEF One
  <2>3. pieces = [i \in DOMAIN all |-> pieces[i]]
        /\ pieces[1] = One(a) /\ pieces[2] = One(b) /\ pieces[3] = One(c) /\ pieces[4] = One(d)
    <3>1. DOMAIN all = 1..4
      BY <1>5, LenProperties DEF IsFour
    <3> QED BY <1>5, <3>1 DEF IsFour
  <2> HIDE DEF S, pieces
  <2>4. IsFour(pieces, pieces[1], pieces[2], pieces[3], pieces[4], Seq(S))
    BY <1>5, <2>1, <2>2, <2>3, FourPieces
  <2> QED BY <2>2, <2>3, <2>4
<1>7. IsFour(parts, a, b, c, d, S)
  <2>1. /\ <<a>> \in Seq(S) /\ <<b>> \in Seq(S) /\ <<c>> \in Seq(S) /\ <<d>> \in Seq(S)
        /\ a \in S /\ b \in S /\ c \in S /\ d \in S
    BY <1>3
  <2> HIDE DEF S, pieces
  <2>2. FlattenSeq(pieces) = <<a>> \o <<b>> \o <<c>> \o <<d>>
    <3> DEFINE x == <<a>>
               y == <<b>>
               z == <<c>>
               w == <<d>>
    <3>1. /\ x \in Seq(S) /\ y \in Seq(S) /\ z \in Seq(S) /\ w \in Seq(S)
          /\ IsFour(pieces, x, y, z, w, Seq(S))
      BY <1>6, <2>1
    <3> HIDE DEF x, y, z, w
    <3>2. FlattenSeq(pieces) = x \o y \o z \o w
      BY <3>1, FlattenFour
    <3> QED BY <3>2 DEF x, y, z, w
  <2> QED BY <2>1, <2>2, FourInARow
<1> HIDE DEF parts, S
<1>8. IsFour([i \in DOMAIN parts |-> Pair(parts[i])], p1, p2, p3, p4, P)
  <2> DEFINE f == [i \in DOMAIN parts |-> Pair(parts[i])]
  <2>1. f = [i \in DOMAIN parts |-> f[i]]
        /\ f[1] = p1 /\ f[2] = p2 /\ f[3] = p3 /\ f[4] = p4
    <3>1. DOMAIN parts = 1..4
      BY <1>7, LenProperties DEF IsFour
    <3> QED BY <1>3, <1>7, <3>1 DEF IsFour
  <2> HIDE DEF f
  <2>2. IsFour(f, f[1], f[2], f[3], f[4], P)
    BY <1>4, <1>7, <2>1, FourPieces
  <2>3. IsFour(f, p1, p2, p3, p4, P)
    BY <2>1, <2>2
  <2> QED BY <2>3 DEF f
<1> QED BY <1>1, <1>8 DEF p1, p2, p3, p4, P

(* Every symbol that is used is one; the keys are no separators. *)
LEMMA SymbolsFacts ==
    /\ Special \cup Codes \cup DigitSymbols \cup Words \subseteq Symbols
    /\ \A w \in Words : w \in Symbols
    /\ \A x \in {"&", "=", "|", "%", "/", ":"} : x \in Symbols
    /\ \A s \in Seq(STRING) : s \in Text
<1>1. Special \cup Codes \cup DigitSymbols \cup Words \subseteq Symbols
  BY DEF Symbols
<1>2. \A x \in {"&", "=", "|", "%", "/", ":"} : x \in Symbols
  BY <1>1 DEF Special
<1>3. STRING \subseteq Symbols
  BY DEF Symbols
<1> HIDE DEF Symbols
<1>4. \A s \in Seq(STRING) : s \in Text
  BY <1>3, SeqMonotonic DEF Text
<1> QED BY <1>1, <1>2, <1>4

(* The digits of a number are text without separators. *)
LEMMA DecimalText ==
    ASSUME NEW n \in Nat
    PROVE  /\ Decimal(n) \in Text /\ Decimal(n) # << >>
           /\ Free(Decimal(n), "&") /\ Free(Decimal(n), "|")
<1>1. Decimal(n) \in Seq(DigitSymbols) /\ Decimal(n) # << >>
  BY DecimalFacts, DecimalRoundTrip
<1>2. Decimal(n) \in Text
  <2>1. DigitSymbols \subseteq Symbols
    BY SymbolsFacts
  <2> QED BY <1>1, <2>1, SeqMonotonic DEF Text
<1>3. "&" \notin DigitSymbols /\ "|" \notin DigitSymbols
  <2>1. /\ Digits[1] = "0" /\ Digits[2] = "1" /\ Digits[3] = "2" /\ Digits[4] = "3"
        /\ Digits[5] = "4" /\ Digits[6] = "5" /\ Digits[7] = "6" /\ Digits[8] = "7"
        /\ Digits[9] = "8" /\ Digits[10] = "9"
    BY DEF Digits
  <2>2. \A i \in 1..10 : i \in {1, 2, 3, 4, 5, 6, 7, 8, 9, 10}
    OBVIOUS
  <2>3. \A i \in {1, 2, 3, 4, 5, 6, 7, 8, 9, 10} : Digits[i] # "&"
    BY <2>1
  <2>4. \A i \in {1, 2, 3, 4, 5, 6, 7, 8, 9, 10} : Digits[i] # "|"
    BY <2>1
  <2> QED BY <2>2, <2>3, <2>4 DEF DigitSymbols
<1>4. \A i \in 1..Len(Decimal(n)) : Decimal(n)[i] \in DigitSymbols
  BY <1>1, ElementOfSeq
<1> QED BY <1>1, <1>2, <1>3, <1>4 DEF Free

(* A padded hash has twenty symbols, those of the hash first. *)
LEMMA PaddedText ==
    ASSUME NEW hash \in Text
    PROVE  /\ Padded(hash) \in Text /\ Len(Padded(hash)) = 20
           /\ Free(hash, "&") => Free(Padded(hash), "&")
<1>1. "00" \in Symbols /\ "00" # "&"
  BY DEF Symbols, Words
<1>2. \A i \in 1..20 : Padded(hash)[i] = IF i <= Len(hash) THEN hash[i] ELSE "00"
  BY DEF Padded
<1>3. Len(hash) \in Nat /\ \A i \in 1..Len(hash) : hash[i] \in Symbols
  BY LenProperties, ElementOfSeq DEF Text
<1>4. \A i \in 1..20 : i <= Len(hash) => i \in 1..Len(hash)
  BY <1>3
<1>5. \A i \in 1..20 : Padded(hash)[i] \in Symbols
  <2> HIDE DEF Symbols
  <2> QED BY <1>1, <1>2, <1>3, <1>4
<1>6. Padded(hash) = [i \in 1..20 |-> Padded(hash)[i]]
  BY DEF Padded
<1> HIDE DEF Symbols
<1>7. Padded(hash) \in [1..20 -> Symbols]
  BY <1>5, <1>6
<1>8. Padded(hash) \in Text /\ Len(Padded(hash)) = 20
  <2>1. 20 \in Nat
    OBVIOUS
  <2> QED BY <1>7, <2>1, FunctionIsSeq DEF Text
<1>9. Free(hash, "&") => Free(Padded(hash), "&")
  BY <1>1, <1>2, <1>4, <1>8 DEF Free
<1> QED BY <1>8, <1>9

(* What is encoded is text, as good as what it stands for. *)
LEMMA EncodedFacts ==
    ASSUME NEW text \in Text
    PROVE  /\ encode_url(text) \in Text /\ decode_url(encode_url(text)) = text
           /\ Free(encode_url(text), "&") /\ Free(encode_url(text), "|")
           /\ text # << >> => encode_url(text) # << >>
<1>1. Special \cup Codes \subseteq Symbols
  BY SymbolsFacts
<1>2. /\ decode_url(encode_url(text)) = text /\ encode_url(text) \in Seq(Symbols)
      /\ \A x \in Special \ {"%"} : Free(encode_url(text), x)
  BY <1>1, EncodedText DEF Text
<1>3. "&" \in Special \ {"%"} /\ "|" \in Special \ {"%"}
  BY DEF Special
<1>4. decode_url(<< >>) = << >>
  <2>1. << >> \in Seq(Symbols)
    BY EmptySeq
  <2>2. encode_url(<< >>) = << >>
    <3>1. Codes \cup {"%"} \subseteq Symbols
      BY SymbolsFacts
    <3> QED BY <3>1, EncodeAppend
  <2>3. decode_url(encode_url(<< >>)) = << >>
    <3>1. \A e \in Seq(Symbols) : decode_url(encode_url(e)) = e
      BY <1>1, EncodedText
    <3> QED BY <2>1, <3>1
  <2> QED BY <2>2, <2>3
<1> QED BY <1>2, <1>3, <1>4 DEF Text

(* Texts are put together to a text, in any order of doing so. *)
LEMMA TextConcat ==
    /\ \A x, y \in Text : x \o y \in Text
    /\ \A x, y, z \in Text : (x \o y) \o z = x \o (y \o z)
<1> HIDE DEF Symbols
<1>1. \A x, y \in Text : x \o y \in Text
  BY ConcatProperties DEF Text
<1>2. \A x, y, z \in Text : (x \o y) \o z = x \o (y \o z)
  BY ConcatAssociative DEF Text
<1> QED BY <1>1, <1>2

Part1(hash) == <<"xt", "=">> \o (<<"urn:btih:">> \o Padded(hash))

Part2(name) == <<"dn", "=">> \o encode_url(name)

Part3(size) == <<"xl", "=">> \o Decimal(size)

Part4 == <<"tr", "=">> \o encode_url(AMARR_TRACKER)

(* A magnet link is its scheme and four parts between ampersands. *)
LEMMA MagnetParts ==
    ASSUME NEW hash \in Text, NEW name \in Text, NEW size \in Nat
    PROVE  MagnetText(for_amarr(hash, name, size)) =
               <<"magnet:?">> \o (((((((Part1(hash) \o <<"&">>) \o Part2(name)) \o <<"&">>)
                                   \o Part3(size))
                                    \o <<"&">>) \o Part4))
<1> DEFINE H == Padded(hash)
           E == encode_url(name)
           D == Decimal(size)
           G == encode_url(AMARR_TRACKER)
           m == <<"magnet:?">>
           s == <<"&">>
           t1 == <<"magnet:?", "xt", "=", "urn:btih:">> \o H
           t2 == (t1 \o <<"&", "dn", "=">>) \o E
           t3 == (t2 \o <<"&", "xl", "=">>) \o D
           t4 == (t3 \o <<"&", "tr", "=">>) \o G
<1>1. MagnetText(for_amarr(hash, name, size)) = t4
  <2>1. for_amarr(hash, name, size).hash = hash /\ for_amarr(hash, name, size).name = name
        /\ for_amarr(hash, name, size).size = size
        /\ for_amarr(hash, name, size).trackers[1] = AMARR_TRACKER
    BY DEF for_amarr
  <2> QED BY <2>1, Zenon DEF MagnetText
<1>2. AMARR_TRACKER \in Text
  <2>1. "http" \in Symbols /\ ":" \in Symbols /\ "/" \in Symbols /\ "amarr-reserved" \in Symbols
    BY DEF Symbols, Words, Special
  <2> HIDE DEF Symbols
  <2> QED BY <2>1 DEF AMARR_TRACKER, Text
<1>3. /\ H \in Text /\ E \in Text /\ D \in Text /\ G \in Text /\ m \in Text /\ s \in Text
      /\ "magnet:?" \in Symbols /\ "xt" \in Symbols /\ "=" \in Symbols /\ "urn:btih:" \in Symbols
      /\ "&" \in Symbols /\ "dn" \in Symbols /\ "xl" \in Symbols /\ "tr" \in Symbols
  <2>1. H \in Text /\ E \in Text /\ D \in Text /\ G \in Text
    BY <1>2, PaddedText, EncodedFacts, DecimalText
  <2>2. /\ "magnet:?" \in Symbols /\ "xt" \in Symbols /\ "=" \in Symbols /\ "urn:btih:" \in Symbols
        /\ "&" \in Symbols /\ "dn" \in Symbols /\ "xl" \in Symbols /\ "tr" \in Symbols
    BY DEF Symbols, Words, Special
  <2> HIDE DEF Symbols
  <2>3. m \in Text /\ s \in Text
    BY <2>2 DEF Text
  <2> QED BY <2>1, <2>2, <2>3
<1> DEFINE A == Part1(hash)
           B == Part2(name)
           C == Part3(size)
           F == Part4
<1> HIDE DEF Symbols
<1>4. B = <<"dn", "=">> \o E /\ C = <<"xl", "=">> \o D /\ F = <<"tr", "=">> \o G
      /\ A = <<"xt", "=">> \o (<<"urn:btih:">> \o H)
  BY DEF Part1, Part2, Part3, Part4
<1> HIDE DEF H, E, D, G, A, B, C, F
<1>5. t1 = m \o A /\ A \in Text
  <2> DEFINE a == <<"xt", "=">>
             u == <<"urn:btih:">>
  <2>1. a \in Text /\ u \in Text /\ m \o a \in Text /\ u \o H \in Text
    <3>1. a \in Text /\ u \in Text
      BY <1>3 DEF Text
    <3> HIDE DEF a, u, m
    <3> QED BY <1>3, <3>1, TextConcat
  <2>2. <<"magnet:?", "xt", "=", "urn:btih:">> = (m \o a) \o u
    <3>1. <<"magnet:?", "xt", "=">> = m \o a
      OBVIOUS
    <3>2. <<"magnet:?", "xt", "=", "urn:btih:">> = <<"magnet:?", "xt", "=">> \o u
      OBVIOUS
    <3> QED BY <3>1, <3>2
  <2> HIDE DEF a, u, m
  <2>3. ((m \o a) \o u) \o H = (m \o a) \o (u \o H)
    <3>1. m \o a \in Text
      BY <2>1
    <3>2. u \in Text
      BY <2>1
    <3>3. H \in Text
      BY <1>3
    <3> QED BY <3>1, <3>2, <3>3, TextConcat, ZenonT(60)
  <2>4. (m \o a) \o (u \o H) = m \o (a \o (u \o H))
    <3>1. m \in Text
      BY <1>3
    <3>2. a \in Text /\ u \o H \in Text
      BY <2>1
    <3> QED BY <3>1, <3>2, TextConcat, SMTT(40)
  <2>5. a \o (u \o H) \in Text
    BY <2>1, TextConcat
  <2> QED BY <1>4, <2>2, <2>3, <2>4, <2>5 DEF a, u
<1> HIDE DEF t1
<1>6. \A x, y \in Text, k \in Symbols :
          /\ ((m \o x) \o <<"&", k, "=">>) \o y = m \o ((x \o s) \o (<<k, "=">> \o y))
          /\ (x \o s) \o (<<k, "=">> \o y) \in Text
  <2> SUFFICES ASSUME NEW x \in Text, NEW y \in Text, NEW k \in Symbols
               PROVE  /\ ((m \o x) \o <<"&", k, "=">>) \o y = m \o ((x \o s) \o (<<k, "=">> \o y))
                      /\ (x \o s) \o (<<k, "=">> \o y) \in Text
    OBVIOUS
  <2> DEFINE b == <<k, "=">> \o y
  <2>1. m \o x \in Text /\ x \o s \in Text
    <3> HIDE DEF m, s
    <3> QED BY <1>3, TextConcat
  <2> DEFINE kk == <<k, "=">>
             xs == x \o s
             z == m \o x
  <2>2. kk \in Text /\ <<"&", k, "=">> = s \o kk
    <3>1. "=" \in Symbols
      BY <1>3
    <3> QED BY <3>1 DEF Text
  <2>3. m \in Text /\ s \in Text
    BY <1>3
  <2> HIDE DEF kk, m, s
  <2>4. b = kk \o y
    BY DEF kk
  <2> HIDE DEF b
  <2>5. b \in Text
    BY <2>2, <2>4, TextConcat
  <2>6. z \o s = m \o xs /\ xs \in Text /\ z \in Text /\ z \o s \in Text
    <3>1. (m \o x) \o s = m \o (x \o s)
      BY <2>3, TextConcat, ZenonT(60)
    <3>2. z \in Text /\ xs \in Text
      BY <2>1
    <3> HIDE DEF z
    <3>3. z \o s \in Text
      BY <2>3, <3>2, TextConcat
    <3> QED BY <3>1, <3>2, <3>3 DEF z
  <2> HIDE DEF xs, z
  <2>7. (z \o (s \o kk)) \o y = (z \o s) \o b
    <3>1. z \o (s \o kk) = (z \o s) \o kk
      <4>1. z \in Text /\ s \in Text /\ kk \in Text
        BY <2>2, <2>3, <2>6
      <4> QED BY <4>1, TextConcat, ZenonT(60)
    <3>2. ((z \o s) \o kk) \o y = (z \o s) \o (kk \o y)
      <4> DEFINE zs == z \o s
      <4>1. zs \in Text
        BY <2>6
      <4> HIDE DEF zs
      <4>2. (zs \o kk) \o y = zs \o (kk \o y)
        BY <2>2, <4>1, TextConcat, SMTT(40)
      <4> QED BY <4>2 DEF zs
    <3> QED BY <2>4, <3>1, <3>2
  <2>8. (m \o xs) \o b = m \o (xs \o b) /\ xs \o b \in Text
    <3>1. m \in Text /\ xs \in Text /\ b \in Text
      BY <2>3, <2>5, <2>6
    <3> QED BY <3>1, TextConcat, ZenonT(60)
  <2> QED BY <2>2, <2>4, <2>6, <2>7, <2>8 DEF z, xs, kk
<1> DEFINE ab == (A \o s) \o B
           abc == (ab \o s) \o C
           abcd == (abc \o s) \o F
<1>7. t2 = m \o ab /\ ab \in Text
  <2>1. E \in Text /\ "dn" \in Symbols
    BY <1>3
  <2>2. ((m \o A) \o <<"&", "dn", "=">>) \o E = m \o ((A \o s) \o (<<"dn", "=">> \o E))
        /\ (A \o s) \o (<<"dn", "=">> \o E) \in Text
    <3> HIDE DEF m, s
    <3> QED BY <1>5, <1>6, <2>1
  <2> HIDE DEF m, s
  <2> QED BY <1>4, <1>5, <2>2
<1> HIDE DEF t2, ab
<1>8. t3 = m \o abc /\ abc \in Text
  <2>1. D \in Text /\ "xl" \in Symbols
    BY <1>3
  <2>2. ((m \o ab) \o <<"&", "xl", "=">>) \o D = m \o ((ab \o s) \o (<<"xl", "=">> \o D))
        /\ (ab \o s) \o (<<"xl", "=">> \o D) \in Text
    <3> HIDE DEF m, s
    <3> QED BY <1>6, <1>7, <2>1
  <2> HIDE DEF m, s
  <2> QED BY <1>4, <1>7, <2>2
<1> HIDE DEF t3, abc
<1>9. t4 = m \o abcd
  <2>1. G \in Text /\ "tr" \in Symbols
    BY <1>3
  <2>2. ((m \o abc) \o <<"&", "tr", "=">>) \o G = m \o ((abc \o s) \o (<<"tr", "=">> \o G))
    <3> HIDE DEF m, s
    <3> QED BY <1>6, <1>8, <2>1
  <2> HIDE DEF m, s
  <2> QED BY <1>4, <1>8, <2>2
<1> QED BY <1>1, <1>9 DEF ab, abc, A, B, C, F

AmarrLink(hash, name, size) ==
    [hash |-> hash, name |-> name, size |-> size, trackers |-> <<AMARR_TRACKER>>]

(* The tracker is a text. *)
LEMMA TrackerText == AMARR_TRACKER \in Text /\ AMARR_TRACKER # << >>
<1>1. "http" \in Symbols /\ ":" \in Symbols /\ "/" \in Symbols /\ "amarr-reserved" \in Symbols
  BY DEF Symbols, Words, Special
<1>2. AMARR_TRACKER # << >>
  BY DEF AMARR_TRACKER
<1> HIDE DEF Symbols
<1> QED BY <1>1, <1>2 DEF AMARR_TRACKER, Text

(* The parts of a magnet link are texts without ampersands that have a value. *)
LEMMA PartsFacts ==
    ASSUME NEW hash \in Text, NEW name \in Text, NEW size \in Nat, Free(hash, "&")
    PROVE  /\ Part1(hash) \in Text /\ Free(Part1(hash), "&")
           /\ Part2(name) \in Text /\ Free(Part2(name), "&")
           /\ Part3(size) \in Text /\ Free(Part3(size), "&")
           /\ Part4 \in Text /\ Free(Part4, "&")
<1>1. ASSUME NEW k \in {"xt", "dn", "xl", "tr"}, NEW v \in Text, Free(v, "&")
      PROVE  <<k, "=">> \o v \in Text /\ Free(<<k, "=">> \o v, "&")
  <2>1. k \in Symbols /\ "=" \in Symbols /\ k # "&" /\ "=" # "&"
    BY DEF Symbols, Words, Special
  <2> DEFINE w == <<k, "=">>
  <2>2. w \in Text
    <3> HIDE DEF Symbols
    <3> QED BY <2>1 DEF Text
  <2>3. Free(w, "&")
    <3>1. Len(w) = 2 /\ w[1] = k /\ w[2] = "="
      OBVIOUS
    <3>2. \A i \in 1..2 : i = 1 \/ i = 2
      OBVIOUS
    <3> HIDE DEF w
    <3> QED BY <2>1, <3>1, <3>2 DEF Free
  <2> HIDE DEF w, Symbols
  <2>4. Free(w \o v, "&")
    BY <1>1, <2>2, <2>3, FreeConcat DEF Text
  <2>5. w \o v \in Text
    BY <2>2, TextConcat
  <2> QED BY <2>4, <2>5 DEF w
<1>2. <<"urn:btih:">> \o Padded(hash) \in Text /\ Free(<<"urn:btih:">> \o Padded(hash), "&")
  <2> DEFINE u == <<"urn:btih:">>
  <2>1. "urn:btih:" \in Symbols /\ "urn:btih:" # "&"
    BY DEF Symbols, Words
  <2>2. u \in Text /\ Free(u, "&")
    <3> HIDE DEF Symbols
    <3>1. u \in Text
      BY <2>1 DEF Text
    <3>2. Len(u) = 1 /\ u[1] = "urn:btih:"
      OBVIOUS
    <3>3. \A i \in 1..1 : i = 1
      OBVIOUS
    <3> HIDE DEF u
    <3> QED BY <2>1, <3>1, <3>2, <3>3 DEF Free
  <2>3. Padded(hash) \in Text /\ Free(Padded(hash), "&")
    BY PaddedText
  <2> HIDE DEF u, Symbols
  <2>4. Free(u \o Padded(hash), "&")
    BY <2>2, <2>3, FreeConcat DEF Text
  <2>5. u \o Padded(hash) \in Text
    BY <2>2, <2>3, TextConcat
  <2> QED BY <2>4, <2>5 DEF u
<1>3. /\ encode_url(name) \in Text /\ Free(encode_url(name), "&")
      /\ Decimal(size) \in Text /\ Free(Decimal(size), "&")
      /\ encode_url(AMARR_TRACKER) \in Text /\ Free(encode_url(AMARR_TRACKER), "&")
  BY EncodedFacts, DecimalText, TrackerText
<1>4. "xt" \in {"xt", "dn", "xl", "tr"} /\ "dn" \in {"xt", "dn", "xl", "tr"}
      /\ "xl" \in {"xt", "dn", "xl", "tr"} /\ "tr" \in {"xt", "dn", "xl", "tr"}
  OBVIOUS
<1>5. Part1(hash) \in Text /\ Free(Part1(hash), "&")
  BY <1>1, <1>2, <1>4 DEF Part1
<1>6. Part2(name) \in Text /\ Free(Part2(name), "&")
  BY <1>1, <1>3, <1>4 DEF Part2
<1>7. Part3(size) \in Text /\ Free(Part3(size), "&")
  BY <1>1, <1>3, <1>4 DEF Part3
<1>8. Part4 \in Text /\ Free(Part4, "&")
  BY <1>1, <1>3, <1>4 DEF Part4
<1> QED BY <1>5, <1>6, <1>7, <1>8

(* The parameters of a magnet link are read from it. *)
LEMMA MagnetParams ==
    ASSUME NEW hash \in Text, NEW name \in Text, NEW size \in Nat, Free(hash, "&"), name # << >>
    PROVE  IsFour(Params(MagnetText(for_amarr(hash, name, size))),
                  KeyValue("xt", <<"urn:btih:">> \o Padded(hash)), KeyValue("dn", encode_url(name)),
                  KeyValue("xl", Decimal(size)), KeyValue("tr", encode_url(AMARR_TRACKER)),
                  Text \X Text)
<1> DEFINE text == MagnetText(for_amarr(hash, name, size))
           A == Part1(hash)
           B == Part2(name)
           C == Part3(size)
           F == Part4
           s == <<"&">>
           rest == ((((((A \o s) \o B) \o s) \o C) \o s) \o F)
<1>1. text = <<"magnet:?">> \o rest
  BY MagnetParts
<1>2. /\ A \in Text /\ Free(A, "&") /\ B \in Text /\ Free(B, "&")
      /\ C \in Text /\ Free(C, "&") /\ F \in Text /\ Free(F, "&")
  BY PartsFacts
<1>3. "&" \in Symbols /\ "=" \in Symbols /\ "magnet:?" \in Symbols /\ "urn:btih:" \in Symbols
      /\ "xt" \in Symbols /\ "dn" \in Symbols /\ "xl" \in Symbols /\ "tr" \in Symbols
  BY DEF Symbols, Words, Special
<1> HIDE DEF Symbols
<1>4. s \in Text
  BY <1>3 DEF Text
<1>5. rest \in Text
  <2> HIDE DEF s, A, B, C, F
  <2>1. (A \o s) \o B \in Text
    BY <1>2, <1>4, TextConcat
  <2>2. (((A \o s) \o B) \o s) \o C \in Text
    BY <1>2, <1>4, <2>1, TextConcat
  <2> QED BY <1>2, <1>4, <2>2, TextConcat
<1>6. After(text, "magnet:?") = rest
  <2>1. "magnet:?" \in Symbols /\ rest \in Seq(Symbols)
    BY <1>3, <1>5 DEF Text
  <2> HIDE DEF text, rest
  <2>2. After(<<"magnet:?">> \o rest, "magnet:?") = rest
    BY <2>1, AfterFirst
  <2> QED BY <1>1, <2>2
<1>7. IsFour(Split(rest, "&"), A, B, C, F, Text)
  <2> HIDE DEF A, B, C, F
  <2>1. "&" \in Symbols
    BY <1>3
  <2>2. rest = (((((A \o <<"&">>) \o B) \o <<"&">>) \o C) \o <<"&">>) \o F
    OBVIOUS
  <2> HIDE DEF rest
  <2> QED BY <1>2, <2>1, <2>2, FourParts DEF Text
<1> HIDE DEF text, rest
<1> DEFINE H == <<"urn:btih:">> \o Padded(hash)
           E == encode_url(name)
           D == Decimal(size)
           G == encode_url(AMARR_TRACKER)
<1>8. /\ H \in Text /\ H # << >> /\ E \in Text /\ E # << >>
      /\ D \in Text /\ D # << >> /\ G \in Text /\ G # << >>
  <2>1. H \in Text /\ H # << >>
    <3>1. Padded(hash) \in Text
      BY PaddedText
    <3>2. "urn:btih:" \in Symbols /\ Padded(hash) \in Seq(Symbols)
      BY <1>3, <3>1 DEF Text
    <3> DEFINE P == Padded(hash)
    <3> HIDE DEF P
    <3>3. H \in Seq(Symbols) /\ Len(H) = Len(P) + 1 /\ Len(P) \in Nat
      <4>1. P \in Seq(Symbols) /\ H = <<"urn:btih:">> \o P
        BY <3>2 DEF P
      <4> HIDE DEF H
      <4> QED BY <3>2, <4>1, BehindOne
    <3> HIDE DEF H
    <3> QED BY <3>3 DEF Text
  <2>2. E \in Text /\ E # << >>
    BY EncodedFacts
  <2>3. D \in Text /\ D # << >>
    BY DecimalText
  <2>4. G \in Text /\ G # << >>
    BY TrackerText, EncodedFacts
  <2> QED BY <2>1, <2>2, <2>3, <2>4
<1>9. /\ A = <<"xt", "=">> \o H /\ B = <<"dn", "=">> \o E
      /\ C = <<"xl", "=">> \o D /\ F = <<"tr", "=">> \o G
  BY DEF Part1, Part2, Part3, Part4
<1> HIDE DEF H, E, D, G, A, B, C, F
<1>10. /\ Valued(A, "xt", H, Symbols) /\ Valued(B, "dn", E, Symbols)
       /\ Valued(C, "xl", D, Symbols) /\ Valued(F, "tr", G, Symbols)
  BY <1>3, <1>8, <1>9 DEF Valued, Text
<1>11. IsFour(Split(After(text, "magnet:?"), "&"), A, B, C, F, Seq(Symbols))
  BY <1>6, <1>7 DEF Text
<1>12. IsFour(Params(text), KeyValue("xt", H), KeyValue("dn", E), KeyValue("xl", D),
              KeyValue("tr", G), Seq(Symbols) \X Seq(Symbols))
  BY <1>3, <1>10, <1>11, FourParams
<1> QED BY <1>12 DEF text, H, E, D, G, Text

(* Of four parameters with different keys one has each key. *)
LEMMA KeyedOne ==
    ASSUME NEW I, NEW k1, NEW k2, NEW k3, NEW k4, NEW v1, NEW v2, NEW v3, NEW v4,
           k1 # k2, k1 # k3, k1 # k4, k2 # k3, k2 # k4, k3 # k4,
           KeyValue(k1, v1) \in I, KeyValue(k2, v2) \in I,
           KeyValue(k3, v3) \in I, KeyValue(k4, v4) \in I,
           NEW params, IsFour(params, KeyValue(k1, v1), KeyValue(k2, v2), KeyValue(k3, v3),
                              KeyValue(k4, v4), I)
    PROVE  /\ Keyed(params, k1) = <<KeyValue(k1, v1)>>
           /\ Keyed(params, k2) = <<KeyValue(k2, v2)>>
           /\ Keyed(params, k3) = <<KeyValue(k3, v3)>>
           /\ Keyed(params, k4) = <<KeyValue(k4, v4)>>
<1>1. \A key, value : KeyValue(key, value)[1] = <<key>>
  BY DEF KeyValue
<1>2. \A x, y : <<x>> = <<y>> => x = y
  OBVIOUS
<1> DEFINE a == KeyValue(k1, v1)
           b == KeyValue(k2, v2)
           c == KeyValue(k3, v3)
           d == KeyValue(k4, v4)
           One(x, key) == IF x[1] = <<key>> THEN <<x>> ELSE << >>
<1>3. ASSUME NEW key
      PROVE  Keyed(params, key) = One(a, key) \o One(b, key) \o One(c, key) \o One(d, key)
  <2> HIDE DEF a, b, c, d
  <2>1. a \in I /\ b \in I /\ c \in I /\ d \in I /\ IsFour(params, a, b, c, d, I)
    BY DEF a, b, c, d
  <2> QED BY <2>1, KeyedFour
<1>4. a[1] = <<k1>> /\ b[1] = <<k2>> /\ c[1] = <<k3>> /\ d[1] = <<k4>>
  BY <1>1
<1> HIDE DEF a, b, c, d
<1>5. \A x : << >> \o <<x>> = <<x>> /\ <<x>> \o << >> = <<x>> /\ << >> \o << >> = << >>
  <2> SUFFICES ASSUME NEW x
               PROVE  << >> \o <<x>> = <<x>> /\ <<x>> \o << >> = <<x>> /\ << >> \o << >> = << >>
    OBVIOUS
  <2>1. <<x>> \in Seq({x}) /\ << >> \in Seq({x})
    OBVIOUS
  <2> QED BY <2>1, ConcatEmptySeq
<1>6. One(a, k1) = <<a>> /\ One(b, k1) = << >> /\ One(c, k1) = << >> /\ One(d, k1) = << >>
  BY <1>2, <1>4
<1>7. One(a, k2) = << >> /\ One(b, k2) = <<b>> /\ One(c, k2) = << >> /\ One(d, k2) = << >>
  BY <1>2, <1>4
<1>8. One(a, k3) = << >> /\ One(b, k3) = << >> /\ One(c, k3) = <<c>> /\ One(d, k3) = << >>
  BY <1>2, <1>4
<1>9. One(a, k4) = << >> /\ One(b, k4) = << >> /\ One(c, k4) = << >> /\ One(d, k4) = <<d>>
  BY <1>2, <1>4
<1> HIDE DEF One
<1>10. Keyed(params, k1) = <<a>>
  BY <1>3, <1>5, <1>6
<1>11. Keyed(params, k2) = <<b>>
  BY <1>3, <1>5, <1>7
<1>12. Keyed(params, k3) = <<c>>
  BY <1>3, <1>5, <1>8
<1>13. Keyed(params, k4) = <<d>>
  BY <1>3, <1>5, <1>9
<1> QED BY <1>10, <1>11, <1>12, <1>13 DEF a, b, c, d

(* A magnet link of amarr's is read as what it was made of. *)
THEOREM MagnetRoundTrip ==
    ASSUME NEW hash \in Text, NEW name \in Text, NEW size \in Nat, Free(hash, "&"), name # << >>
    PROVE  from_string(MagnetText(for_amarr(hash, name, size)))
               = <<AmarrLink(Padded(hash), name, size)>>
<1> DEFINE params == Params(MagnetText(for_amarr(hash, name, size)))
           H == <<"urn:btih:">> \o Padded(hash)
           E == encode_url(name)
           D == Decimal(size)
           G == encode_url(AMARR_TRACKER)
<1>1. IsFour(params, KeyValue("xt", H), KeyValue("dn", E), KeyValue("xl", D), KeyValue("tr", G),
             Text \X Text)
  BY MagnetParams
<1>2. /\ After(H, "urn:btih:") = Padded(hash)
      /\ decode_url(E) = name /\ decode_url(G) = AMARR_TRACKER
      /\ FromDecimal(D) = <<size>>
  <2>1. After(H, "urn:btih:") = Padded(hash)
    <3>1. Padded(hash) \in Seq(Symbols)
      BY PaddedText DEF Text
    <3>2. "urn:btih:" \in Symbols
      BY DEF Symbols, Words
    <3> HIDE DEF Symbols
    <3> QED BY <3>1, <3>2, AfterFirst
  <2>2. decode_url(E) = name /\ decode_url(G) = AMARR_TRACKER
    BY EncodedFacts, TrackerText
  <2> QED BY <2>1, <2>2, DecimalRoundTrip
<1>3. from_string(MagnetText(for_amarr(hash, name, size))) = FromParams(params)
  BY DEF from_string
<1> HIDE DEF params, H, E, D, G
<1> DEFINE p1 == KeyValue("xt", H)
           p2 == KeyValue("dn", E)
           p3 == KeyValue("xl", D)
           p4 == KeyValue("tr", G)
<1>4. p1[2] = H /\ p2[2] = E /\ p3[2] = D /\ p4[2] = G
  BY DEF KeyValue
<1>5. /\ Keyed(params, "xt") = <<p1>> /\ Keyed(params, "dn") = <<p2>>
      /\ Keyed(params, "xl") = <<p3>> /\ Keyed(params, "tr") = <<p4>>
  <2>1. p1 \in Text \X Text /\ p2 \in Text \X Text /\ p3 \in Text \X Text /\ p4 \in Text \X Text
    <3> DEFINE I == Text \X Text
    <3> HIDE DEF I, p1, p2, p3, p4
    <3>1. IsFour(params, p1, p2, p3, p4, I)
      BY <1>1 DEF I, p1, p2, p3, p4
    <3>2. p1 \in I /\ p2 \in I /\ p3 \in I /\ p4 \in I
      <4>1. params \in Seq(I) /\ Len(params) = 4
            /\ params[1] = p1 /\ params[2] = p2 /\ params[3] = p3 /\ params[4] = p4
        BY <3>1 DEF IsFour
      <4>2. \A i \in 1..Len(params) : params[i] \in I
        BY <4>1, ElementOfSeq
      <4>3. 1 \in 1..Len(params) /\ 2 \in 1..Len(params)
            /\ 3 \in 1..Len(params) /\ 4 \in 1..Len(params)
        BY <4>1
      <4> QED BY <4>1, <4>2, <4>3
    <3> QED BY <3>2 DEF I
  <2> DEFINE I  == Text \X Text
             k1 == "xt"
             k2 == "dn"
             k3 == "xl"
             k4 == "tr"
  <2>2. k1 # k2 /\ k1 # k3 /\ k1 # k4 /\ k2 # k3 /\ k2 # k4 /\ k3 # k4
    OBVIOUS
  <2>3. /\ KeyValue(k1, H) \in I /\ KeyValue(k2, E) \in I
        /\ KeyValue(k3, D) \in I /\ KeyValue(k4, G) \in I
    BY <2>1
  <2>4. IsFour(params, KeyValue(k1, H), KeyValue(k2, E), KeyValue(k3, D), KeyValue(k4, G), I)
    BY <1>1
  <2> HIDE DEF I, k1, k2, k3, k4, p1, p2, p3, p4
  <2>5. /\ Keyed(params, k1) = <<KeyValue(k1, H)>> /\ Keyed(params, k2) = <<KeyValue(k2, E)>>
        /\ Keyed(params, k3) = <<KeyValue(k3, D)>> /\ Keyed(params, k4) = <<KeyValue(k4, G)>>
    BY <2>2, <2>3, <2>4, KeyedOne
  <2> QED BY <2>5 DEF k1, k2, k3, k4, p1, p2, p3, p4
<1> HIDE DEF p1, p2, p3, p4
<1> DEFINE xt == Keyed(params, "xt")
           dn == Keyed(params, "dn")
           xl == Keyed(params, "xl")
           tr == Keyed(params, "tr")
           length == IF xl = << >> THEN Fails ELSE FromDecimal(xl[1][2])
<1>6. FromParams(params) =
          IF xt = << >> \/ dn = << >> \/ length = Fails THEN Fails
          ELSE <<[hash     |-> After(xt[1][2], "urn:btih:"),
                  name     |-> decode_url(dn[1][2]),
                  size     |-> length[1],
                  trackers |-> [i \in DOMAIN tr |-> decode_url(tr[i][2])]]>>
  BY Zenon DEF FromParams, Keyed
<1> HIDE DEF xt, dn, xl, tr
<1>7. xt = <<p1>> /\ dn = <<p2>> /\ xl = <<p3>> /\ tr = <<p4>>
  BY <1>5 DEF xt, dn, xl, tr
<1>8. length = <<size>>
  BY <1>2, <1>4, <1>7
<1>9. [i \in DOMAIN tr |-> decode_url(tr[i][2])] = <<AMARR_TRACKER>>
  BY <1>2, <1>4, <1>7
<1> HIDE DEF length
<1>10. /\ xt # << >> /\ dn # << >> /\ length # Fails
       /\ After(xt[1][2], "urn:btih:") = Padded(hash)
       /\ decode_url(dn[1][2]) = name /\ length[1] = size
  BY <1>2, <1>4, <1>7, <1>8 DEF Fails
<1> QED BY <1>3, <1>6, <1>9, <1>10 DEF AmarrLink

-----------------------------------------------------------------------------
\* eD2k links

\* The parts of an ed2k link that tell of the file.
TellsOf(list, c, d, e) == Len(list) = 6 /\ list[3] = c /\ list[4] = d /\ list[5] = e

(* Six texts in a row. *)
LEMMA SixInARow ==
    ASSUME NEW a, NEW b, NEW c, NEW d, NEW e, NEW g
    PROVE  TellsOf(<<a>> \o <<b>> \o <<c>> \o <<d>> \o <<e>> \o <<g>>, c, d, e)
<1>1. <<a, b>> = <<a>> \o <<b>>
  <2>1. <<a, b>> = Append(<<a>>, b)
    OBVIOUS
  <2>2. <<a>> \in Seq({a, b}) /\ b \in {a, b}
    OBVIOUS
  <2>3. Append(<<a>>, b) = <<a>> \o <<b>>
    BY <2>2, AppendIsConcat
  <2> QED BY <2>1, <2>3
<1>2. <<a, b, c>> = <<a, b>> \o <<c>>
  OBVIOUS
<1>3. <<a, b, c, d>> = <<a, b, c>> \o <<d>>
  OBVIOUS
<1>4. <<a, b, c, d, e>> = <<a, b, c, d>> \o <<e>>
  OBVIOUS
<1>5. <<a, b, c, d, e, g>> = <<a, b, c, d, e>> \o <<g>>
  OBVIOUS
<1>6. TellsOf(<<a, b, c, d, e, g>>, c, d, e)
  BY DEF TellsOf
<1> QED BY <1>1, <1>2, <1>3, <1>4, <1>5, <1>6

(* Six parts between separators. *)
LEMMA SixParts ==
    ASSUME NEW I, NEW s \in I, NEW a \in Seq(I), NEW b \in Seq(I), NEW c \in Seq(I),
           NEW d \in Seq(I), NEW e \in Seq(I), NEW g \in Seq(I),
           Free(a, s), Free(b, s), Free(c, s), Free(d, s), Free(e, s), Free(g, s), NEW text,
           text = (((((((((a \o <<s>>) \o b) \o <<s>>) \o c) \o <<s>>) \o d) \o <<s>>) \o e)
                       \o <<s>>) \o g
    PROVE  TellsOf(Split(text, s), c, d, e)
<1> DEFINE t2 == (a \o <<s>>) \o b
           t3 == (t2 \o <<s>>) \o c
           t4 == (t3 \o <<s>>) \o d
           t5 == (t4 \o <<s>>) \o e
           t6 == (t5 \o <<s>>) \o g
<1>1. \A x, y \in Seq(I) : (x \o <<s>>) \o y \in Seq(I)
  <2> SUFFICES ASSUME NEW x \in Seq(I), NEW y \in Seq(I)
               PROVE  (x \o <<s>>) \o y \in Seq(I)
    OBVIOUS
  <2>1. <<s>> \in Seq(I)
    OBVIOUS
  <2> DEFINE xs == x \o <<s>>
  <2>2. xs \in Seq(I)
    BY <2>1, ConcatProperties
  <2> HIDE DEF xs
  <2>3. xs \o y \in Seq(I)
    BY <2>2, ConcatProperties
  <2> QED BY <2>3 DEF xs
<1>2. \A x, y \in Seq(I) : Free(y, s) => Split((x \o <<s>>) \o y, s) = Split(x, s) \o <<y>>
  BY OneMorePart, ZenonT(60)
<1>3. Split(a, s) = <<a>>
  <2> DEFINE q == [i \in 1..Len(a) + 1 |-> Part(a, s, i)]
  <2>1. q = [i \in 1..Len(a) + 1 |-> Part(a, s, i)]
    OBVIOUS
  <2> HIDE DEF q
  <2> QED BY <2>1, OnePart
<1>4. t2 \in Seq(I) /\ Split(t2, s) = Split(a, s) \o <<b>>
  BY <1>1, <1>2
<1> HIDE DEF t2
<1>5. t3 \in Seq(I) /\ Split(t3, s) = Split(t2, s) \o <<c>>
  BY <1>1, <1>2, <1>4
<1> HIDE DEF t3
<1>6. t4 \in Seq(I) /\ Split(t4, s) = Split(t3, s) \o <<d>>
  BY <1>1, <1>2, <1>5
<1> HIDE DEF t4
<1>7. t5 \in Seq(I) /\ Split(t5, s) = Split(t4, s) \o <<e>>
  BY <1>1, <1>2, <1>6
<1> HIDE DEF t5
<1>8. Split(t6, s) = Split(t5, s) \o <<g>>
  BY <1>1, <1>2, <1>7
<1> HIDE DEF t6
<1>9. Split(t6, s) = <<a>> \o <<b>> \o <<c>> \o <<d>> \o <<e>> \o <<g>>
  BY <1>3, <1>4, <1>5, <1>6, <1>7, <1>8
<1>10. text = t6
  BY DEF t2, t3, t4, t5, t6
<1> QED BY <1>9, <1>10, SixInARow

(* The first sixteen symbols of a padded hash are the hash, when it has sixteen. *)
LEMMA HashBack ==
    ASSUME NEW hash \in Text, Len(hash) = 16, NEW name, NEW size
    PROVE  amule_hex_hash(AmarrLink(Padded(hash), name, size)) = hash
<1> DEFINE p == Padded(hash)
<1>1. p \in Text /\ Len(p) = 20 /\ \A i \in 1..16 : p[i] = hash[i]
  <2>1. p \in Text /\ Len(p) = 20
    BY PaddedText
  <2>2. \A i \in 1..20 : i <= 16 => p[i] = hash[i]
    BY Zenon DEF Padded
  <2>3. \A i \in 1..16 : i \in 1..20 /\ i <= 16
    OBVIOUS
  <2> HIDE DEF p
  <2> QED BY <2>1, <2>2, <2>3
<1>2. amule_hex_hash(AmarrLink(p, name, size)) = Slice(p, 0, 16)
  BY DEF amule_hex_hash, AmarrLink
<1> HIDE DEF p
<1>3. Slice(p, 0, 16) = SubSeq(p, 1, 16)
  BY <1>1 DEF Slice
<1>4. SubSeq(p, 1, 16) = hash
  <2> HIDE DEF Symbols
  <2>1. p \in Seq(Symbols) /\ hash \in Seq(Symbols)
    BY <1>1 DEF Text
  <2>2. SubSeq(p, 1, 16) = [i \in 1..16 |-> p[i]]
    BY <1>1, <2>1
  <2>3. hash = [i \in 1..16 |-> hash[i]]
    BY <2>1
  <2> QED BY <1>1, <2>2, <2>3
<1> QED BY <1>2, <1>3, <1>4 DEF p

(* The ed2k link of a magnet link of amarr's has the name, the size and the hash as parts. *)
LEMMA Ed2kParts ==
    ASSUME NEW hash \in Text, Len(hash) = 16, Free(hash, "|"), NEW name \in Text, NEW size \in Nat
    PROVE  TellsOf(Split(to_ed2k_link(AmarrLink(Padded(hash), name, size)), "|"),
                   encode_url(name), Decimal(size), hash)
<1> DEFINE link == AmarrLink(Padded(hash), name, size)
           N == encode_url(name)
           D == Decimal(size)
           s == <<"|">>
           a == <<"ed2k://">>
           b == <<"file">>
           z == <<"/">>
           head == <<"ed2k://", "|", "file", "|">>
           tail == <<"|", "/">>
           text == ((((head \o N) \o s) \o D) \o s) \o hash
<1>1. to_ed2k_link(link) = text \o tail
  <2>1. link.name = name /\ link.size = size /\ amule_hex_hash(link) = hash
    BY HashBack DEF AmarrLink
  <2> HIDE DEF link
  <2> QED BY <2>1, Zenon DEF to_ed2k_link, Ed2kName
<1>2. "ed2k://" \in Symbols /\ "file" \in Symbols /\ "/" \in Symbols /\ "|" \in Symbols
  BY DEF Symbols, Words, Special
<1> HIDE DEF Symbols
<1>3. s \in Text /\ a \in Text /\ b \in Text /\ z \in Text
  BY <1>2 DEF Text
<1>4. Free(a, "|") /\ Free(b, "|") /\ Free(z, "|")
  <2>1. \A x : x # "|" => Free(<<x>>, "|")
    <3> SUFFICES ASSUME NEW x, x # "|" PROVE Free(<<x>>, "|")
      OBVIOUS
    <3> DEFINE w == <<x>>
    <3>1. Len(w) = 1 /\ w[1] = x
      OBVIOUS
    <3>2. \A i \in 1..1 : i = 1
      OBVIOUS
    <3> HIDE DEF w
    <3>3. Free(w, "|")
      BY <3>1, <3>2 DEF Free
    <3> QED BY <3>3 DEF w
  <2>2. "ed2k://" # "|" /\ "file" # "|" /\ "/" # "|"
    OBVIOUS
  <2> QED BY <2>1, <2>2
<1>5. N \in Text /\ D \in Text /\ Free(N, "|") /\ Free(D, "|")
  BY EncodedFacts, DecimalText
<1>6. head = ((a \o s) \o b) \o s /\ tail = s \o z
  <2>1. <<"ed2k://", "|">> = a \o s
    OBVIOUS
  <2>2. <<"ed2k://", "|", "file">> = <<"ed2k://", "|">> \o b
    OBVIOUS
  <2>3. <<"ed2k://", "|", "file", "|">> = <<"ed2k://", "|", "file">> \o s
    OBVIOUS
  <2>4. <<"|", "/">> = s \o z
    OBVIOUS
  <2> QED BY <2>1, <2>2, <2>3, <2>4
<1> HIDE DEF head, tail, a, b, z, N, D
<1>7. text \in Text
  <2> HIDE DEF s
  <2>1. ((a \o s) \o b) \o s \in Text
    <3>1. (a \o s) \in Text
      BY <1>3, TextConcat
    <3>2. (a \o s) \o b \in Text
      BY <1>3, <3>1, TextConcat
    <3> QED BY <1>3, <3>2, TextConcat
  <2>2. head \o N \in Text
    BY <1>5, <1>6, <2>1, TextConcat
  <2>3. (head \o N) \o s \in Text
    BY <1>3, <2>2, TextConcat
  <2>4. ((head \o N) \o s) \o D \in Text
    BY <1>5, <2>3, TextConcat
  <2>5. (((head \o N) \o s) \o D) \o s \in Text
    BY <1>3, <2>4, TextConcat
  <2> QED BY <2>5, TextConcat
<1>8. text \o tail = (text \o s) \o z
  <2> HIDE DEF text, s
  <2>1. (text \o s) \o z = text \o (s \o z)
    <3>1. text \in Text /\ s \in Text /\ z \in Text
      BY <1>3, <1>7
    <3> QED BY <3>1, TextConcat, SMTT(40)
  <2> QED BY <1>6, <2>1
<1>9. to_ed2k_link(link) = (((((((((a \o s) \o b) \o s) \o N) \o s) \o D) \o s) \o hash)
                               \o s) \o z
  BY <1>1, <1>6, <1>8
<1> DEFINE whole == to_ed2k_link(link)
<1> HIDE DEF link, text
<1>10. whole = (((((((((a \o <<"|">>) \o b) \o <<"|">>) \o N) \o <<"|">>) \o D) \o <<"|">>) \o hash)
                               \o <<"|">>) \o z
  BY <1>9
<1> HIDE DEF whole
<1>11. TellsOf(Split(whole, "|"), N, D, hash)
  <2>1. /\ "|" \in Symbols
        /\ a \in Seq(Symbols) /\ b \in Seq(Symbols) /\ z \in Seq(Symbols)
        /\ N \in Seq(Symbols) /\ D \in Seq(Symbols) /\ hash \in Seq(Symbols)
    BY <1>2, <1>3, <1>5 DEF Text
  <2> DEFINE p == "|"
  <2>2. Free(a, p) /\ Free(b, p) /\ Free(N, p) /\ Free(D, p) /\ Free(hash, p) /\ Free(z, p)
    BY <1>4, <1>5
  <2>3. whole = (((((((((a \o <<p>>) \o b) \o <<p>>) \o N) \o <<p>>) \o D) \o <<p>>) \o hash)
                     \o <<p>>) \o z
    BY <1>10
  <2>4. p \in Symbols
    BY <2>1
  <2> HIDE DEF p
  <2>5. TellsOf(Split(whole, p), N, D, hash)
    BY <2>1, <2>2, <2>3, <2>4, SixParts
  <2> QED BY <2>5 DEF p
<1> QED BY <1>11 DEF whole, link, N, D

(* What amarr tells aMule to download is what the link of the item stands for: aMule *)
(* reads the hash, the name and the size of the ed2k link as they were. *)
THEOREM Ed2kRoundTrip ==
    ASSUME NEW hash \in Text, Len(hash) = 16, Free(hash, "|"), NEW name \in Text, NEW size \in Nat
    PROVE  from_ed2k(to_ed2k_link(AmarrLink(Padded(hash), name, size)))
               = <<AmarrLink(hash, name, size)>>
<1> DEFINE els == Split(to_ed2k_link(AmarrLink(Padded(hash), name, size)), "|")
           length == IF Len(els) < 5 THEN Fails ELSE FromDecimal(els[4])
<1>1. from_ed2k(to_ed2k_link(AmarrLink(Padded(hash), name, size)))
          = IF length = Fails THEN Fails
            ELSE <<[hash |-> els[5], name |-> decode_url(els[3]), size |-> length[1],
                    trackers |-> <<AMARR_TRACKER>>]>>
  BY Zenon DEF from_ed2k
<1>2. Len(els) = 6 /\ els[3] = encode_url(name) /\ els[4] = Decimal(size) /\ els[5] = hash
  BY Ed2kParts DEF TellsOf
<1> HIDE DEF els
<1>3. length = <<size>>
  BY <1>2, DecimalRoundTrip
<1>4. decode_url(els[3]) = name
  BY <1>2, EncodedFacts
<1> HIDE DEF length
<1>5. length # Fails /\ length[1] = size
  BY <1>3 DEF Fails
<1> QED BY <1>1, <1>2, <1>4, <1>5 DEF AmarrLink

-----------------------------------------------------------------------------
\* Links of the feed

(* A text without the separator has nothing behind it: it stays whole. *)
LEMMA AfterNone ==
    ASSUME NEW I, NEW text \in Seq(I), NEW separator, Free(text, separator)
    PROVE  After(text, separator) = text
<1> DEFINE n == Len(text)
<1>1. n \in Nat
  OBVIOUS
<1>2. \A k \in 1..(n + 1) - 1 : text[k] # separator
  <2>1. (n + 1) - 1 = n
    BY <1>1
  <2> QED BY <2>1 DEF Free
<1>3. IsNext(text, separator, 1, n + 1)
  <2>1. n + 1 \in 1..Len(text) + 1 /\ ~(n + 1 <= Len(text))
    BY <1>1
  <2> QED BY <1>2, <2>1 DEF IsNext
<1>4. NextAt(text, separator, 1) = n + 1
  <2>1. 1 \in 1..Len(text) + 1
    BY <1>1
  <2> HIDE DEF n
  <2> QED BY <1>3, <2>1, NextAtIs
<1>5. n + 1 > Len(text)
  BY <1>1
<1> HIDE DEF n
<1> QED BY <1>4, <1>5 DEF After

(* The link of the answer to an empty query is no magnet link. *)
LEMMA MockLink == from_string(empty_query_response.items[1].url) = Fails
<1> DEFINE text == <<"http", ":", "/", "/", "mock.url">>
           parts == Split(After(text, "magnet:?"), "&")
<1>1. empty_query_response.items[1].url = text
  BY DEF empty_query_response
<1>2. text \in Seq({"http", ":", "/", "mock.url"}) /\ Len(text) = 5
  OBVIOUS
<1>3. \A i \in 1..5 : text[i] # "magnet:?" /\ text[i] # "&" /\ text[i] # "="
  <2>1. \A i \in 1..5 : i = 1 \/ i = 2 \/ i = 3 \/ i = 4 \/ i = 5
    OBVIOUS
  <2>2. /\ text[1] = "http" /\ text[2] = ":" /\ text[3] = "/" /\ text[4] = "/"
        /\ text[5] = "mock.url"
    OBVIOUS
  <2> HIDE DEF text
  <2> QED BY <2>1, <2>2
<1> HIDE DEF text
<1>4. After(text, "magnet:?") = text
  <2>1. Free(text, "magnet:?")
    BY <1>2, <1>3 DEF Free
  <2> QED BY <1>2, <2>1, AfterNone
<1>5. parts = <<text>>
  <2>1. Free(text, "&")
    BY <1>2, <1>3 DEF Free
  <2> DEFINE q == [i \in 1..Len(text) + 1 |-> Part(text, "&", i)]
  <2>2. q = [i \in 1..Len(text) + 1 |-> Part(text, "&", i)]
    OBVIOUS
  <2> HIDE DEF q
  <2>3. Split(text, "&") = <<text>>
    BY <1>2, <2>1, <2>2, OnePart
  <2> QED BY <1>4, <2>3
<1> HIDE DEF parts
<1> DEFINE Test(p) == \E i \in 2..Len(p) - 1 : p[i] = "="
           kept == [i \in DOMAIN parts |-> IF Test(parts[i]) THEN <<parts[i]>> ELSE << >>]
<1>6. ~Test(text)
  <2>1. \A i \in 2..Len(text) - 1 : i \in 1..5
    BY <1>2
  <2> QED BY <1>3, <2>1
<1> HIDE DEF Test
<1>7. kept = <<<< >>>>
  BY <1>5, <1>6
<1>8. FlattenSeq(kept) = << >>
  <2>1. <<<< >>>> \in Seq({<< >>})
    OBVIOUS
  <2> HIDE DEF kept
  <2> QED BY <1>7, <2>1, FlattenNothing
<1>9. Params(text) = << >>
  <2>1. Params(text) = [i \in DOMAIN FlattenSeq(kept) |->
                            <<Before(FlattenSeq(kept)[i], "="), After(FlattenSeq(kept)[i], "=")>>]
    BY Zenon DEF Params, Where, parts, kept, Test
  <2> HIDE DEF kept
  <2> QED BY <1>8, <2>1
<1>10. Keyed(<< >>, "xt") = << >>
  <2> DEFINE e == << >>
             k == [i \in DOMAIN e |-> IF e[i][1] = <<"xt">> THEN <<e[i]>> ELSE << >>]
  <2>1. Keyed(e, "xt") = FlattenSeq(k)
    BY Zenon DEF Keyed, Where
  <2>2. k = << >>
    OBVIOUS
  <2> HIDE DEF k
  <2> QED BY <2>1, <2>2, FlattenFacts
<1>11. FromParams(<< >>) = Fails
  BY <1>10, Zenon DEF FromParams, Keyed
<1> QED BY <1>1, <1>9, <1>11 DEF from_string

\* What aMule reads of the link that is made of an item's.
AsRead(url) == Then(LinkOf(url), from_ed2k)

(* Grabbing an item tells aMule of the very file the item stands for; the answer to an *)
(* empty query cannot be grabbed. *)
THEOREM GrabbedLink ==
    /\ \A hash, name \in Text, size \in Nat :
           Free(hash, "&") /\ Free(hash, "|") /\ Len(hash) = 16 /\ name # << >> =>
               /\ LinkOf(MagnetText(for_amarr(hash, name, size))) # Raised
               /\ AsRead(MagnetText(for_amarr(hash, name, size))) = <<AmarrLink(hash, name, size)>>
    /\ LinkOf(empty_query_response.items[1].url) = Raised
    /\ AsRead(empty_query_response.items[1].url) = Raised
<1>1. ASSUME NEW hash \in Text, NEW name \in Text, NEW size \in Nat,
             Free(hash, "&"), Free(hash, "|"), Len(hash) = 16, name # << >>
      PROVE  /\ LinkOf(MagnetText(for_amarr(hash, name, size))) # Raised
             /\ AsRead(MagnetText(for_amarr(hash, name, size))) = <<AmarrLink(hash, name, size)>>
  <2> DEFINE url == MagnetText(for_amarr(hash, name, size))
             magnet == AmarrLink(Padded(hash), name, size)
             link == to_ed2k_link(magnet)
  <2>1. from_string(url) = <<magnet>>
    BY <1>1, MagnetRoundTrip
  <2>2. from_ed2k(link) = <<AmarrLink(hash, name, size)>>
    BY <1>1, Ed2kRoundTrip
  <2>3. is_amarr(magnet)
    <3> DEFINE t == magnet.trackers
    <3>1. t = <<AMARR_TRACKER>>
      BY DEF AmarrLink
    <3>2. 1 \in 1..Len(t) /\ t[1] = AMARR_TRACKER
      BY <3>1
    <3> HIDE DEF t
    <3>3. \E i \in 1..Len(t) : t[i] = AMARR_TRACKER
      BY <3>2
    <3>4. Contains(t, AMARR_TRACKER)
      BY <3>3, Zenon DEF Contains
    <3> QED BY <3>4 DEF is_amarr, t
  <2>4. LinkOf(url) = IF from_string(url) = Raised THEN Raised
                      ELSE IF is_amarr(from_string(url)[1])
                            THEN <<to_ed2k_link(from_string(url)[1])>>
                           ELSE Raised
    BY Zenon DEF LinkOf, Then
  <2>5. AsRead(url) = IF LinkOf(url) = Raised THEN Raised ELSE from_ed2k(LinkOf(url)[1])
    BY Zenon DEF AsRead, Then
  <2>6. \A x : <<x>> # << >> /\ <<x>>[1] = x
    OBVIOUS
  <2> HIDE DEF url, magnet, link
  <2>7. LinkOf(url) = <<link>>
    BY <2>1, <2>3, <2>4, <2>6 DEF Raised, link
  <2>8. LinkOf(url) # Raised /\ AsRead(url) = from_ed2k(link)
    BY <2>5, <2>6, <2>7 DEF Raised
  <2> QED BY <2>2, <2>8 DEF url
<1>2. LinkOf(empty_query_response.items[1].url) = Raised
  <2> DEFINE url == empty_query_response.items[1].url
  <2>1. LinkOf(url) = IF from_string(url) = Raised THEN Raised
                      ELSE IF is_amarr(from_string(url)[1])
                            THEN <<to_ed2k_link(from_string(url)[1])>>
                           ELSE Raised
    BY Zenon DEF LinkOf, Then
  <2>2. from_string(url) = Raised
    BY MockLink DEF Fails, Raised
  <2> HIDE DEF url
  <2>3. LinkOf(url) = Raised
    BY <2>1, <2>2
  <2> QED BY <2>3 DEF url
<1>3. AsRead(empty_query_response.items[1].url) = Raised
  <2> DEFINE url == empty_query_response.items[1].url
  <2>1. AsRead(url) = IF LinkOf(url) = Raised THEN Raised ELSE from_ed2k(LinkOf(url)[1])
    BY Zenon DEF AsRead, Then
  <2>2. LinkOf(url) = Raised
    BY <1>2
  <2> HIDE DEF url
  <2>3. AsRead(url) = Raised
    BY <2>1, <2>2
  <2> QED BY <2>3 DEF url
<1> QED BY <1>1, <1>2, <1>3

-----------------------------------------------------------------------------
\* The way of a file

\* What a client can be shown: the files there are, and the answer to an empty query.
Offered == ListItems \cup {empty_query_response.items[1]}

ShownInv == search # None => search[1].shown \in Seq(Offered)

\* What aMule has is a file, the item that was grabbed stands for it, and only a complete
\* file is out of the queue.
StandsFor(item, f) ==
    /\ item.title = f.name /\ item.length = f.size
    /\ item.url = MagnetText(for_amarr(f.hash, f.name, f.size))

FileInv ==
    /\ place \in {"queue", "shared"}
    /\ place = "shared" => file # None /\ file[1].done = file[1].size
    /\ file # None => /\ search = None /\ IsFile(file[1])
                      /\ DOMAIN file[1] = {"hash", "name", "size", "done", "speed", "sources",
                                           "status"}
    /\ grabbed # None => file # None /\ StandsFor(grabbed[1], file[1])

\* A listing is one of the file as it is.
ListedInv ==
    answer.of = "list" =>
        /\ file # None
        /\ answer.got # Raised =>
               \E info : answer.got = <<<<info>>>> /\ ListedAs(file[1], place, info)

FlowInv == SearchInv /\ ShownInv /\ FileInv /\ ListedInv

(* An item of a file has a link that aMule reads as what the item stands for. *)
LEMMA ItemOfFile ==
    ASSUME NEW item \in Offered
    PROVE  /\ AsRead(item.url) = Fails <=> item = empty_query_response.items[1]
           /\ LinkOf(item.url) = Raised <=> item = empty_query_response.items[1]
           /\ AsRead(item.url) # Fails => StandsFor(item, Download(AsRead(item.url)[1]))
                                          /\ AsRead(item.url)[1].size \in Nat
<1>1. CASE item = empty_query_response.items[1]
  BY <1>1, GrabbedLink DEF Fails, Raised
<1>2. CASE item # empty_query_response.items[1]
  <2>1. PICK f \in Files : item = Item(f)
    BY <1>2 DEF Offered, ListItems
  <2> DEFINE hash == f.hash
             name == f.file_name
             size == f.size_full
             link == AmarrLink(hash, name, size)
  <2>2. item.title = name /\ item.length = size
        /\ item.url = MagnetText(for_amarr(hash, name, size))
    BY <2>1 DEF Item
  <2>3. hash \in Text /\ name \in Text
    <3>1. hash \in Seq(STRING) /\ name \in Seq(STRING)
      BY FilesAssumption
    <3> HIDE DEF hash, name
    <3> QED BY <3>1, SymbolsFacts
  <2>4. size \in Nat /\ Len(hash) = 16 /\ name # << >>
    BY FilesAssumption
  <2>5. Free(hash, "&") /\ Free(hash, "|")
    <3>1. "&" \in DOMAIN Escapes /\ "|" \in DOMAIN Escapes
      BY DEF Escapes
    <3>2. \A i \in 1..16 : hash[i] \notin DOMAIN Escapes
      BY FilesAssumption
    <3> HIDE DEF hash
    <3> QED BY <2>4, <3>1, <3>2 DEF Free
  <2>6. link.hash = hash /\ link.name = name /\ link.size = size
    BY DEF AmarrLink
  <2> HIDE DEF hash, name, size, link
  <2>7. LinkOf(item.url) # Raised /\ AsRead(item.url) = <<link>>
    BY <2>2, <2>3, <2>4, <2>5, GrabbedLink DEF link
  <2>8. <<link>> # << >> /\ <<link>>[1] = link
    OBVIOUS
  <2>9. StandsFor(item, Download(link))
    BY <2>2, <2>6 DEF StandsFor, Download
  <2> QED BY <1>2, <2>4, <2>6, <2>7, <2>8, <2>9 DEF Fails
<1> QED BY <1>1, <1>2

(* A call returns when its reply is of a kind it waits for and can be read. *)
LEMMA ReturnsWhen ==
    ASSUME NEW request, NEW reply, NEW kind, NEW result, parse(reply) = Response(kind, result)
    PROVE  /\ Returned(request, reply) # Raised
                  <=> result # Raised /\ kind \in Awaited[request.op_code]
           /\ Returned(request, reply) # Raised => Returned(request, reply) = <<result[1]>>
<1> DEFINE response == [kind |-> kind, is |-> result[1]]
           parsed == parse(reply)
<1>1. parsed = IF result = Raised THEN Raised ELSE <<response>>
  BY Zenon DEF Response, Then
<1>2. Returned(request, reply) =
          IF parsed = Raised THEN Raised
          ELSE IF parsed[1].kind \in Awaited[request.op_code] THEN <<parsed[1].is>> ELSE Raised
  BY Zenon DEF Returned, Then
<1>3. response.kind = kind /\ response.is = result[1]
  OBVIOUS
<1>4. \A x : <<x>> # << >> /\ <<x>>[1] = x
  OBVIOUS
<1> HIDE DEF response, parsed
<1>5. CASE result = Raised
  BY <1>1, <1>2, <1>5
<1>6. CASE result # Raised
  <2>1. parsed # Raised /\ parsed[1] = response
    BY <1>1, <1>4, <1>6 DEF Raised
  <2>2. Returned(request, reply) =
            IF kind \in Awaited[request.op_code] THEN <<result[1]>> ELSE Raised
    BY <1>2, <1>3, <2>1
  <2> QED BY <1>4, <1>6, <2>2 DEF Raised
<1> QED BY <1>5, <1>6

(* The words aMule answers commands with, and a word that is none. *)
LEMMA WordsParsed ==
    /\ parse(Packet("NOOP", << >>))      = Response("Noop", <<None>>)
    /\ parse(Packet("MISC_DATA", << >>)) = Response("MiscData", <<None>>)
    /\ parse(Packet("STRINGS", << >>))   = Response("Strings", <<<< >>>>)
    /\ parse(Packet("FAILED", << >>))    = Response("Error", <<<<"Unknown error">>>>)
    /\ parse(Packet("SHUTDOWN", << >>))  = Raised
<1>1. find_string(<< >>, "STRING") = << >>
  BY DEF find_string, FirstOfType
<1> QED BY <1>1 DEF parse, Packet

(* A link that aMule takes is answered with "done", one that it refuses with an error. *)
LEMMA LinkAnswers ==
    ASSUME NEW link
    PROVE  /\ Returned(add_link_request(link), Packet("FAILED", << >>)) = Raised
           /\ Returned(add_link_request(link), Packet("NOOP", << >>)) # Raised
<1>1. add_link_request(link).op_code = "ADD_LINK"
  BY DEF add_link_request, Packet
<1>2. Awaited["ADD_LINK"] = {"Noop"}
  BY DEF Awaited
<1>3. \A x : <<x>> # Raised
  BY DEF Raised
<1>4. "Error" \notin Awaited[add_link_request(link).op_code]
      /\ "Noop" \in Awaited[add_link_request(link).op_code]
  BY <1>1, <1>2
<1> DEFINE request == add_link_request(link)
<1> HIDE DEF request
<1>5. Returned(request, Packet("FAILED", << >>)) = Raised
  <2>1. "Error" \notin Awaited[request.op_code]
    BY <1>4 DEF request
  <2> QED BY <2>1, WordsParsed, ReturnsWhen
<1>6. Returned(request, Packet("NOOP", << >>)) # Raised
  <2>1. "Noop" \in Awaited[request.op_code]
    BY <1>4 DEF request
  <2>2. <<None>> # Raised
    BY <1>3
  <2> QED BY <2>1, <2>2, WordsParsed, ReturnsWhen
<1> QED BY <1>5, <1>6 DEF request

\* What comes of an exchange is what is due.
Understood(a) ==
    /\ a.due = "return" => a.got # Raised
    /\ a.due = "refusal" => a.got = Raised

(* A grabbed item is what aMule downloads. *)
LEMMA GrabStep ==
    ASSUME ShownInv, FileInv, GrabShown
    PROVE  FileInv' /\ answer'.of = "add" /\ Understood(answer') /\ search' = None
<1>1. search # None /\ search' = None /\ place' = place
  BY DEF GrabShown, Grab
<1>2. file = None /\ grabbed = None /\ place = "queue"
  BY <1>1 DEF FileInv
<1>3. PICK i \in DOMAIN search[1].shown : Grab(search[1].shown[i])
  BY DEF GrabShown
<1> DEFINE item == search[1].shown[i]
           link == LinkOf(item.url)
           read == AsRead(item.url)
<1>4. item \in Offered
  <2>1. search[1].shown \in Seq(Offered)
    BY <1>1 DEF ShownInv
  <2> QED BY <2>1
<1>5. AddLink(item, link, read)
  <2>1. AddLink(item, LinkOf(item.url), Then(LinkOf(item.url), from_ed2k))
    BY <1>3 DEF Grab
  <2> QED BY <2>1, Zenon DEF AsRead
<1>6. /\ read = Fails <=> item = empty_query_response.items[1]
      /\ read # Fails => StandsFor(item, Download(read[1])) /\ read[1].size \in Nat
  BY <1>4, ItemOfFile
<1> HIDE DEF item, link, read
<1>7. \A due, got : AddAnswer(due, got) =>
          answer'.of = "add" /\ answer'.due = due /\ answer'.got = got
  BY DEF AddAnswer, Exchange
<1>8. CASE /\ read = Fails
           /\ AddAnswer(IF item = empty_query_response.items[1] THEN "refusal" ELSE "return",
                        Raised)
           /\ UNCHANGED <<grabbed, file>>
  <2>1. answer'.of = "add" /\ answer'.got = Raised
        /\ answer'.due = IF item = empty_query_response.items[1] THEN "refusal" ELSE "return"
    BY <1>7, <1>8
  <2>2. file' = None /\ grabbed' = None /\ place' = "queue"
    BY <1>1, <1>2, <1>8
  <2>3. FileInv'
    BY <2>2 DEF FileInv
  <2>4. Understood(answer')
    BY <1>6, <1>8, <2>1 DEF Understood
  <2> QED BY <1>1, <2>1, <2>3, <2>4
<1>9. CASE /\ read # Fails
           /\ AddAnswer("refusal", Returned(add_link_request(link[1]), Packet("FAILED", << >>)))
           /\ UNCHANGED <<grabbed, file>>
  <2>1. answer'.of = "add" /\ answer'.due = "refusal"
        /\ answer'.got = Returned(add_link_request(link[1]), Packet("FAILED", << >>))
    BY <1>7, <1>9
  <2>2. file' = None /\ grabbed' = None /\ place' = "queue"
    BY <1>1, <1>2, <1>9
  <2>3. FileInv'
    BY <2>2 DEF FileInv
  <2>4. Understood(answer')
    BY <2>1, LinkAnswers DEF Understood
  <2> QED BY <1>1, <2>1, <2>3, <2>4
<1>10. CASE /\ read # Fails
            /\ AddAnswer("return", Returned(add_link_request(link[1]), Packet("NOOP", << >>)))
            /\ file' = <<Download(read[1])>>
            /\ grabbed' = <<item>>
  <2> DEFINE f == Download(read[1])
  <2>1. answer'.of = "add" /\ answer'.due = "return"
        /\ answer'.got = Returned(add_link_request(link[1]), Packet("NOOP", << >>))
    BY <1>7, <1>10
  <2>2. Understood(answer')
    BY <2>1, LinkAnswers DEF Understood
  <2>3. /\ f.size = read[1].size /\ f.done = 0 /\ f.speed = 0 /\ f.sources = 0
        /\ f.status = FileState.READY
        /\ DOMAIN f = {"hash", "name", "size", "done", "speed", "sources", "status"}
    BY DEF Download
  <2>4. FileState.READY \in FileStatus
    BY DEF FileState, FileStatus
  <2> HIDE DEF f
  <2>5. f.size \in Nat /\ StandsFor(item, f)
    BY <1>6, <1>10, <2>3 DEF f
  <2>6. IsFile(f)
    BY <2>3, <2>4, <2>5 DEF IsFile
  <2>7. file' = <<f>> /\ file'[1] = f /\ grabbed'[1] = item /\ place' = "queue"
    BY <1>1, <1>2, <1>10 DEF f
  <2>8. <<f>> # None /\ <<item>> # None
    BY DEF None
  <2>9. FileInv'
    BY <1>1, <1>10, <2>3, <2>5, <2>6, <2>7, <2>8 DEF FileInv
  <2> QED BY <1>1, <2>1, <2>2, <2>9
<1> QED BY <1>5, <1>8, <1>9, <1>10 DEF AddLink

(* What comes of any other call is no listing and no grab. *)
LEMMA OtherCalls == \A a \in Outcomes : a.of \notin {"list", "add"}
<1> DEFINE Asks(x) == x.request.op_code \notin {"list", "add"}
<1>1. \A request, packet, due, tells : Asked(request, packet, due, tells).request = request
  BY DEF Asked
<1>2. \A op, tags : Packet(op, tags).op_code = op
  BY DEF Packet
<1> HIDE DEF Asks
<1>3. \A request, packet, due, tells :
          request.op_code \notin {"list", "add"} => Asks(Asked(request, packet, due, tells))
  BY <1>1 DEF Asks
<1>4. \A x \in StatsExchanges : Asks(x)
  <2>1. stats_request.op_code \notin {"list", "add"}
    BY <1>2 DEF stats_request
  <2>2. \A type, below, v : Asks(StatsExchange(type, below, v))
    BY <1>3, <2>1 DEF StatsExchange
  <2> DEFINE T == {"UINT8", "UINT16"}
             B == {<< >>, <<Server("IPV4")>>, <<Server("CUSTOM"), Num("ED2K_ID", 70000)>>}
             V == Variants(<<Logger, ConnState("UINT8", << >>)>>, StatsFields)
  <2>3. StatsExchanges = {StatsExchange(type, below, v) : type \in T, below \in B, v \in V}
    BY DEF StatsExchanges
  <2> HIDE DEF T, B, V
  <2> QED BY <2>2, <2>3
<1>5. \A x \in SearchExchanges : Asks(x)
  <2>1. /\ search_results_request.op_code \notin {"list", "add"}
        /\ search_status_request.op_code \notin {"list", "add"}
    BY <1>2 DEF search_results_request, search_status_request
  <2>2. (\A v : Asks(SearchExchange(v))) /\ (\A tags : Asks(ProgressExchange(tags)))
    BY <1>3, <2>1 DEF SearchExchange, ProgressExchange
  <2> DEFINE V == Variants(SearchFileTags, SearchFields)
             P == {<< >>} \cup {<<Num("SEARCH_STATUS", n)>> : n \in {0, 50, 65534}}
  <2>3. SearchExchanges = {SearchExchange(v) : v \in V} \cup {ProgressExchange(tags) : tags \in P}
    BY DEF SearchExchanges
  <2> HIDE DEF V, P
  <2> QED BY <2>2, <2>3
<1>6. \A x \in CategoryExchanges : Asks(x)
  <2>1. get_preferences_request(1).op_code \notin {"list", "add"}
    BY <1>2 DEF get_preferences_request
  <2> DEFINE none ==
                 Asked(get_preferences_request(1), Packet("SET_PREFERENCES", << >>), "return", None)
  <2>2. (\A v : Asks(CategoryExchange(v))) /\ Asks(none)
    BY <1>3, <2>1, Zenon DEF CategoryExchange
  <2> DEFINE V == Variants(CategoryTags, CategoryFields)
  <2>3. CategoryExchanges = {CategoryExchange(v) : v \in V} \cup {none}
    BY DEF CategoryExchanges
  <2> HIDE DEF V, none
  <2> QED BY <2>2, <2>3
<1>7. \A x \in LoginExchanges : Asks(x)
  <2>1. /\ salt_request.op_code \notin {"list", "add"}
        /\ auth_request(Padded(<< >>)).op_code \notin {"list", "add"}
    BY <1>2 DEF salt_request, auth_request
  <2>2. (\A type : Asks(SaltExchange(type))) /\ (\A op, name : Asks(AuthExchange(op, name)))
    BY <1>3, <2>1, Zenon DEF SaltExchange, AuthExchange
  <2> DEFINE ok == AuthExchange("AUTH_OK", "SERVER_VERSION")
             no == AuthExchange("AUTH_FAIL", "STRING")
  <2>3. LoginExchanges = {SaltExchange(type) : type \in DOMAIN NumericSize} \cup {ok, no}
    BY DEF LoginExchanges
  <2>4. Asks(ok) /\ Asks(no)
    BY <2>2
  <2> HIDE DEF ok, no
  <2> QED BY <2>2, <2>3, <2>4
<1>8. \A x \in CommandExchanges : Asks(x)
  <2>1. \A awaited \in DOMAIN Commands : \A request \in Commands[awaited] :
            request.op_code \notin {"list", "add"}
    <3> DEFINE hash == Padded(<< >>)
    <3>1. /\ download_command_request(hash, "PARTFILE_DELETE").op_code \notin {"list", "add"}
          /\ set_file_category_request(hash, 1).op_code \notin {"list", "add"}
          /\ create_category_request(ACategory).op_code \notin {"list", "add"}
          /\ search_request(<<"q">>, 1, NoFilters).op_code \notin {"list", "add"}
          /\ download_search_result_request(hash).op_code \notin {"list", "add"}
          /\ search_stop_request.op_code \notin {"list", "add"}
      BY <1>2 DEF download_command_request, set_file_category_request, create_category_request,
                  search_request, download_search_result_request, search_stop_request
    <3>2. DOMAIN Commands = {"NOOP", "STRINGS", "MISC_DATA"}
      BY DEF Commands
    <3> HIDE DEF hash
    <3>3. /\ Commands["NOOP"] = {download_command_request(hash, "PARTFILE_DELETE"),
                                 set_file_category_request(hash, 1),
                                 create_category_request(ACategory)}
          /\ Commands["STRINGS"] = {search_request(<<"q">>, 1, NoFilters),
                                    download_search_result_request(hash)}
          /\ Commands["MISC_DATA"] = {search_stop_request}
      BY DEF Commands, hash
    <3> QED BY <3>1, <3>2, <3>3
  <2>2. \A awaited \in DOMAIN Commands : \A request \in Commands[awaited] :
            \A op : Asks(CommandExchange(request, op, awaited))
    BY <1>3, <2>1, Zenon DEF CommandExchange
  <2> DEFINE Ops == DOMAIN Commands \cup {"FAILED", "SHUTDOWN"}
             Of(awaited) == {CommandExchange(request, op, awaited) :
                                 request \in Commands[awaited], op \in Ops}
  <2>3. CommandExchanges = UNION {Of(awaited) : awaited \in DOMAIN Commands}
    BY DEF CommandExchanges
  <2> HIDE DEF Ops
  <2>4. \A awaited \in DOMAIN Commands : \A x \in Of(awaited) : Asks(x)
    BY <2>2
  <2> HIDE DEF Of
  <2> QED BY <2>3, <2>4
<1>9. \A x \in ListingExchanges : Asks(x)
  <2>1. /\ download_queue_request.op_code \notin {"list", "add"}
        /\ shared_files_request.op_code \notin {"list", "add"}
    BY <1>2 DEF download_queue_request, shared_files_request
  <2> DEFINE Queued(v) ==
                 ListingExchange(download_queue_request, "DLOAD_QUEUE", "PARTFILE", PartFields, v)
             Shared(v) ==
                 ListingExchange(shared_files_request, "SHARED_FILES", "KNOWNFILE", SharedFields, v)
             V == Variants(FileTags(AFile), PartFields)
             W == Variants(FileTags(AFile), SharedFields)
  <2>2. (\A v : Asks(Queued(v))) /\ (\A v : Asks(Shared(v)))
    BY <1>3, <2>1, Zenon DEF ListingExchange
  <2>3. ListingExchanges = {Queued(v) : v \in V} \cup {Shared(v) : v \in W}
    BY DEF ListingExchanges
  <2> HIDE DEF Queued, Shared, V, W
  <2> QED BY <2>2, <2>3
<1>10. \A x : Outcome(x).of = x.request.op_code
  <2> SUFFICES ASSUME NEW x PROVE Outcome(x).of = x.request.op_code
    OBVIOUS
  <2> DEFINE seen(result) == <<Shown(x, result)>>
             got == Then(Returned(x.request, x.reply), seen)
  <2>1. Outcome(x) = [Exchange(x.request.op_code, x.due, got) EXCEPT !.tells = x.tells]
    BY Zenon DEF Outcome
  <2> HIDE DEF got
  <2> QED BY <2>1 DEF Exchange
<1> QED BY <1>4, <1>5, <1>6, <1>7, <1>8, <1>9, <1>10 DEF Outcomes, Asks

(* The lists a client has seen are of what there is. *)
LEMMA ShownStep ==
    ASSUME FlowInv, [Next]_vars
    PROVE  ShownInv'
<1>1. CASE \E request \in Requests, found \in Found, down \in {{}, {1}, {2}} :
               BeginSearch(request, found, down)
  <2>1. search'[1].shown = << >>
    BY <1>1 DEF BeginSearch
  <2> QED BY <2>1 DEF ShownInv
<1>2. CASE NextPage
  <2> DEFINE s == search[1]
             feed == IF s.blank THEN empty_query_response
                     ELSE PerformQueries(s.found, s.down, Len(s.shown), s.limit)
             end == s.blank \/ Len(feed.items) < s.limit
             t == [s EXCEPT !.shown = @ \o feed.items, !.ended = end]
  <2>1. search' = <<t>> /\ search # None
    BY <1>2 DEF NextPage
  <2>2. Reading(s) /\ s.shown \in Seq(Offered)
    BY <2>1 DEF FlowInv, SearchInv, ShownInv
  <2>3. DOMAIN s = {"found", "down", "blank", "limit", "shown", "ended"}
    BY <2>2 DEF Reading
  <2>4. search'[1].shown = s.shown \o feed.items
    <3> HIDE DEF s, feed, end
    <3> QED BY <2>1, <2>3
  <2>5. feed.items \in Seq(Offered)
    <3>1. CASE s.blank
      <4>1. feed.items = <<empty_query_response.items[1]>>
        BY <3>1 DEF empty_query_response
      <4> HIDE DEF feed
      <4> QED BY <4>1 DEF Offered
    <3>2. CASE ~s.blank
      <4> DEFINE all == Everything(s.found, s.down)
                 n == Len(s.shown)
                 page == PerformQueries(s.found, s.down, n, s.limit).items
      <4>1. s.found \in Found /\ s.down \in SUBSET DOMAIN s.found[1] /\ s.limit \in Nat /\ n \in Nat
        <5> HIDE DEF s
        <5> QED BY <2>2, LenProperties DEF Reading
      <4>2. all \in Lists /\ page = Slice(all, n, s.limit)
        <5> HIDE DEF s, n
        <5> QED BY <4>1, PageOfEverything
      <4>3. feed.items = page
        BY <3>2
      <4> DEFINE m == IF n + s.limit < Len(all) THEN n + s.limit ELSE Len(all)
      <4> HIDE DEF all, page, feed, n, s
      <4>4. Len(all) \in Nat /\ \A i \in 1..Len(all) : all[i] \in ListItems
        BY <4>2, LenProperties, ElementOfSeq DEF Lists
      <4>5. n + 1 \in Int /\ m \in Int /\ \A i \in n + 1..m : i \in 1..Len(all)
        BY <4>1, <4>4
      <4>6. page = SubSeq(all, n + 1, m)
        BY <4>2 DEF Slice
      <4> HIDE DEF m
      <4>7. page \in Seq(ListItems)
        BY <4>4, <4>5, <4>6, SubSeqProperties
      <4> QED BY <4>3, <4>7, SeqMonotonic DEF Offered
    <3> QED BY <3>1, <3>2
  <2> HIDE DEF s, feed
  <2>6. s.shown \o feed.items \in Seq(Offered)
    BY <2>2, <2>5, ConcatProperties
  <2> QED BY <2>4, <2>6 DEF ShownInv
<1>3. CASE GrabShown
  <2>1. search' = None
    BY <1>3 DEF GrabShown, Grab
  <2> QED BY <2>1 DEF ShownInv
<1>4. CASE UNCHANGED search
  BY <1>4 DEF FlowInv, ShownInv
<1>5. CASE \/ \E done \in {0, 1} \cup Samples, speed \in Speeds, sources \in {0, 2},
                 status \in FileStatus : Transfer(done, speed, sources, status)
           \/ Complete
           \/ \E without \in {{}} \cup {{name} : name \in ListedTags} : ListTorrents(without)
           \/ Ask
           \/ UNCHANGED vars
  BY <1>4, <1>5 DEF Transfer, Complete, ListTorrents, Ask, vars
<1> QED BY <1>1, <1>2, <1>3, <1>5 DEF Next

(* The file is what was grabbed, and a listing is one of it. *)
LEMMA FileStep ==
    ASSUME FlowInv, [Next]_vars
    PROVE  FileInv' /\ ListedInv'
<1> USE DEF FlowInv
<1>1. ASSUME NEW request \in Requests, NEW found \in Found, NEW down,
             BeginSearch(request, found, down)
      PROVE  FileInv' /\ ListedInv'
  <2>1. file = None /\ grabbed = None
    BY <1>1 DEF BeginSearch, FileInv
  <2>2. file' = None /\ grabbed' = None /\ place' = place /\ answer' = answer
    BY <1>1, <2>1 DEF BeginSearch
  <2>3. answer.of # "list"
    BY <2>1 DEF ListedInv
  <2> QED BY <2>1, <2>2, <2>3 DEF FileInv, ListedInv
<1>2. ASSUME NextPage PROVE FileInv' /\ ListedInv'
  <2>1. file = None /\ grabbed = None
    BY <1>2 DEF NextPage, FileInv
  <2>2. file' = None /\ grabbed' = None /\ place' = place /\ answer' = answer
    BY <1>2, <2>1 DEF NextPage
  <2>3. answer.of # "list"
    BY <2>1 DEF ListedInv
  <2> QED BY <2>1, <2>2, <2>3 DEF FileInv, ListedInv
<1>3. ASSUME GrabShown PROVE FileInv' /\ ListedInv'
  BY <1>3, GrabStep DEF ListedInv
<1>4. ASSUME NEW done \in {0, 1} \cup Samples, NEW speed \in Speeds, NEW sources \in {0, 2},
             NEW status \in FileStatus, Transfer(done, speed, sources, status)
      PROVE  FileInv' /\ ListedInv'
  <2> DEFINE f == file[1]
             g == [f EXCEPT !.done = done, !.speed = speed, !.sources = sources, !.status = status]
  <2>1. /\ file # None /\ place = "queue" /\ done <= f.size /\ file' = <<g>>
        /\ answer' = NoAnswer /\ search' = search /\ grabbed' = grabbed /\ place' = place
    BY <1>4 DEF Transfer
  <2>2. /\ search = None /\ IsFile(f)
        /\ DOMAIN f = {"hash", "name", "size", "done", "speed", "sources", "status"}
        /\ grabbed # None => StandsFor(grabbed[1], f)
    BY <2>1 DEF FileInv
  <2>3. /\ g.hash = f.hash /\ g.name = f.name /\ g.size = f.size /\ g.done = done
        /\ g.speed = speed /\ g.sources = sources /\ g.status = status
        /\ DOMAIN g = {"hash", "name", "size", "done", "speed", "sources", "status"}
    <3> HIDE DEF f
    <3> QED BY <2>2
  <2>4. done \in Nat /\ speed \in Nat /\ sources \in Nat /\ sources <= 65535
    BY NumbersAssumption
  <2>5. file'[1] = g /\ file' # None
    BY <2>1 DEF None
  <2> HIDE DEF f, g
  <2>6. IsFile(g) /\ (grabbed # None => StandsFor(grabbed[1], g))
    BY <2>1, <2>2, <2>3, <2>4 DEF IsFile, StandsFor
  <2>7. answer'.of # "list"
    BY <2>1 DEF NoAnswer, Exchange
  <2> QED BY <2>1, <2>2, <2>3, <2>5, <2>6, <2>7 DEF FileInv, ListedInv
<1>5. ASSUME Complete PROVE FileInv' /\ ListedInv'
  <2>1. /\ file # None /\ file[1].done = file[1].size /\ place' = "shared"
        /\ answer' = NoAnswer /\ search' = search /\ grabbed' = grabbed /\ file' = file
    BY <1>5 DEF Complete
  <2>2. answer'.of # "list"
    BY <2>1 DEF NoAnswer, Exchange
  <2> QED BY <2>1, <2>2 DEF FileInv, ListedInv
<1>6. ASSUME file # None, NEW without, ListTorrents(without) PROVE FileInv' /\ ListedInv'
  <2>1. search' = search /\ grabbed' = grabbed /\ file' = file /\ place' = place
    BY <1>6 DEF ListTorrents
  <2>2. IsFile(file[1]) /\ place \in {"queue", "shared"}
    BY <1>6 DEF FileInv
  <2>3. /\ answer'.of = "list"
        /\ answer'.got # Raised =>
                  \E info : answer'.got = <<<<info>>>> /\ ListedAs(file[1], place, info)
    BY <1>6, <2>2, ListingOfFile
  <2> QED BY <1>6, <2>1, <2>3 DEF FileInv, ListedInv
<1>7. ASSUME Ask PROVE FileInv' /\ ListedInv'
  <2>1. search' = search /\ grabbed' = grabbed /\ file' = file /\ place' = place
        /\ answer' \in Outcomes
    BY <1>7 DEF Ask
  <2>2. answer'.of # "list"
    BY <2>1, OtherCalls
  <2> QED BY <2>1, <2>2 DEF FileInv, ListedInv
<1>8. ASSUME UNCHANGED vars PROVE FileInv' /\ ListedInv'
  BY <1>8 DEF vars, FileInv, ListedInv
<1> QED BY <1>1, <1>2, <1>3, <1>4, <1>5, <1>6, <1>7, <1>8, Zenon DEF Next

(* The invariant of the way of a file. *)
THEOREM FlowInvariant == Spec => []FlowInv
<1>1. Init => FlowInv
  BY DEF Init, NoAnswer, Exchange, FlowInv, SearchInv, ShownInv, FileInv, ListedInv, None
<1>2. FlowInv /\ [Next]_vars => FlowInv'
  <2> SUFFICES ASSUME FlowInv, [Next]_vars PROVE FlowInv'
    OBVIOUS
  <2>1. SearchInv'
    BY SearchStep DEF FlowInv
  <2> QED BY <2>1, ShownStep, FileStep DEF FlowInv
<1> QED BY <1>1, <1>2, PTL DEF Spec

(* What was grabbed is what is listed, whatever there is to grab. *)
THEOREM WhatIsGrabbedIsListed == Spec => []GrabbedIsListed
<1>1. FlowInv => GrabbedIsListed
  <2> SUFFICES ASSUME FlowInv, grabbed # None, answer.of = "list", answer.got # Raised
               PROVE  /\ Len(answer.got[1]) = 1
                      /\ LET info == answer.got[1][1]
                         IN  /\ info.name = grabbed[1].title
                             /\ info.size = grabbed[1].length
                             /\ grabbed[1].url =
                                    MagnetText(for_amarr(info.hash, info.name, info.size))
    BY DEF GrabbedIsListed
  <2>1. PICK info : answer.got = <<<<info>>>> /\ ListedAs(file[1], place, info)
    BY DEF FlowInv, ListedInv
  <2>2. answer.got[1] = <<info>> /\ Len(<<info>>) = 1 /\ answer.got[1][1] = info
    BY <2>1
  <2>3. StandsFor(grabbed[1], file[1])
    BY DEF FlowInv, FileInv
  <2>4. info.hash = file[1].hash /\ info.name = file[1].name /\ info.size = file[1].size
    BY <2>1 DEF ListedAs, QueuedAs, KeptAs
  <2> QED BY <2>2, <2>3, <2>4 DEF StandsFor
<1> QED BY <1>1, FlowInvariant, PTL

(* The figures of every listing agree with the file and with each other, whatever the *)
(* size of the file, what is done of it and the speed. *)
THEOREM ListedFiguresAgree == Spec => []FiguresAgree
<1>1. FlowInv => FiguresAgree
  <2> SUFFICES ASSUME FlowInv, answer.of = "list", answer.got # Raised,
                      NEW i \in DOMAIN answer.got[1]
               PROVE  LET info == answer.got[1][i]
                          left == info.size - info.downloaded
                      IN  /\ info.downloaded = file[1].done
                          /\ 0 <= info.progress[1] /\ info.progress[1] <= info.progress[2]
                          /\ info.progress[1] = info.progress[2] => left = 0
                          /\ left = 0 => info.eta = 0 \/ info.dlspeed = 0
                          /\ 0 <= info.eta /\ info.eta <= NO_ETA
                          /\ info.eta < NO_ETA /\ place = "queue" =>
                                 /\ info.eta * info.dlspeed <= left
                                 /\ left < (info.eta + 1) * info.dlspeed
    BY DEF FiguresAgree
  <2>1. PICK info : answer.got = <<<<info>>>> /\ ListedAs(file[1], place, info)
    BY DEF FlowInv, ListedInv
  <2>2. answer.got[1][i] = info
    BY <2>1
  <2>3. IsFile(file[1]) /\ (place = "queue" \/ (place = "shared" /\ file[1].done = file[1].size))
    BY DEF FlowInv, ListedInv, FileInv
  <2> DEFINE f == file[1]
  <2>4. f.size \in Nat /\ f.done \in Nat /\ f.done <= f.size /\ f.speed \in Nat
    BY <2>3 DEF IsFile
  <2> HIDE DEF f
  <2>5. CASE place = "queue"
    <3>1. /\ info.size = f.size /\ info.downloaded = f.done /\ info.dlspeed = f.speed
          /\ info.progress = compute_progress(<<f.done>>, <<f.size>>)
          /\ <<info.eta>> = compute_eta(<<f.speed>>, <<f.size>>, <<f.done>>)
      BY <2>1, <2>5 DEF ListedAs, QueuedAs, f
    <3>2. /\ info.eta \in Nat /\ info.eta <= NO_ETA
          /\ info.eta < NO_ETA => info.eta * f.speed <= f.size - f.done
                                  /\ f.size - f.done < (info.eta + 1) * f.speed
          /\ f.size = f.done => info.eta = 0 \/ f.speed = 0
      BY <2>4, <3>1, EtaAgrees
    <3>3. /\ info.progress \in Nat \X (Nat \ {0}) /\ info.progress[1] <= info.progress[2]
          /\ info.progress[1] = info.progress[2] <=> f.size = f.done /\ f.size # 0
      BY <2>4, <3>1, ProgressAgrees
    <3>4. info.progress[1] \in Nat
      BY <3>3
    <3>5. info.downloaded = file[1].done
      BY <3>1 DEF f
    <3>6. f.size - f.done = 0 <=> f.size = f.done
      BY <2>4
    <3> QED BY <2>2, <3>1, <3>2, <3>3, <3>4, <3>5, <3>6
  <2>6. CASE place # "queue"
    <3>1. /\ info.size = f.size /\ info.downloaded = f.size /\ info.dlspeed = 0
          /\ info.progress = <<1, 1>> /\ info.eta = 0 /\ f.done = f.size
      BY <2>1, <2>3, <2>6 DEF ListedAs, KeptAs, f
    <3>2. NO_ETA \in Nat
      BY DEF NO_ETA
    <3>3. f.size - f.size = 0
      BY <2>4
    <3> QED BY <2>2, <2>6, <3>1, <3>2, <3>3 DEF f
  <2> QED BY <2>5, <2>6
<1> QED BY <1>1, FlowInvariant, PTL

(* Every link of the feed can be grabbed: unless aMule refuses it, the call returns, and *)
(* that of the answer to an empty query never does. *)
THEOREM LinksAreTaken == Spec => [](answer.of = "add" => Understood(answer))
<1> DEFINE Taken == answer.of = "add" => Understood(answer)
<1>1. Init => Taken
  BY DEF Init, NoAnswer, Exchange
<1>2. FlowInv /\ FlowInv' /\ Taken /\ [Next]_vars => Taken'
  <2> SUFFICES ASSUME FlowInv, FlowInv', Taken, [Next]_vars PROVE Taken'
    OBVIOUS
  <2>1. CASE UNCHANGED answer
    BY <2>1
  <2>2. ASSUME NEW request \in Requests, NEW found \in Found, NEW down,
               BeginSearch(request, found, down)
        PROVE  Taken'
    BY <2>1, <2>2 DEF BeginSearch
  <2>3. ASSUME NextPage PROVE Taken'
    BY <2>1, <2>3 DEF NextPage
  <2>4. ASSUME GrabShown PROVE Taken'
    BY <2>4, GrabStep DEF FlowInv
  <2>5. ASSUME NEW done, NEW speed, NEW sources, NEW status, Transfer(done, speed, sources, status)
        PROVE  Taken'
    BY <2>5 DEF Transfer, NoAnswer, Exchange
  <2>6. ASSUME Complete PROVE Taken'
    BY <2>6 DEF Complete, NoAnswer, Exchange
  <2>7. ASSUME file # None, NEW without, ListTorrents(without) PROVE Taken'
    <3>1. IsFile(file[1]) /\ place \in {"queue", "shared"}
      BY <2>7 DEF FlowInv, FileInv
    <3>2. answer'.of = "list"
      BY <2>7, <3>1, ListingOfFile
    <3> QED BY <3>2
  <2>8. ASSUME Ask PROVE Taken'
    BY <2>8, OtherCalls DEF Ask
  <2>9. CASE UNCHANGED vars
    BY <2>1, <2>9 DEF vars
  <2> HIDE DEF Taken
  <2> QED BY <2>2, <2>3, <2>4, <2>5, <2>6, <2>7, <2>8, <2>9, Zenon DEF Next
<1> QED BY <1>1, <1>2, FlowInvariant, PTL DEF Spec

-----------------------------------------------------------------------------
\* Tags left out, and numbers of every type

(* What is left when tags of these names are left out. *)
LeftOut(tags, W) == Varied(tags, [without |-> W, more |-> << >>])

(* Each tag is there as it was or is missing. *)
LEMMA LeftOutFacts ==
    ASSUME NEW I, NEW tags \in Seq(I), Distinct(tags), NEW W
    PROVE  /\ DOMAIN tags \in SUBSET Nat /\ DOMAIN LeftOut(tags, W) \in SUBSET Nat
           /\ \A name : \/ Lacks(LeftOut(tags, W), name)
                        \/ \E t : t.name = name /\ Holds(tags, t) /\ Holds(LeftOut(tags, W), t)
<1> DEFINE v == [without |-> W, more |-> << >>]
           T == Varied(tags, v)
<1>1. v.more = << >> /\ v.without = W
  OBVIOUS
<1>2. << >> \in Seq(I) /\ DOMAIN << >> = {}
  OBVIOUS
<1> HIDE DEF v, T
<1>3. /\ DOMAIN T \in SUBSET Nat
      /\ \A i \in DOMAIN tags : tags[i].name \notin W => Holds(T, tags[i])
      /\ \A i \in DOMAIN tags : tags[i].name \in W => Lacks(T, tags[i].name)
      /\ \A name : (\A i \in DOMAIN tags : tags[i].name # name) => Lacks(T, name)
  <2>1. v.more \in Seq(I) /\ \A i \in DOMAIN v.more : FALSE
    BY <1>1, <1>2
  <2> QED BY <1>1, <2>1, VariedFacts DEF T
<1>4. LeftOut(tags, W) = T
  BY DEF LeftOut, T, v
<1>5. \A i \in DOMAIN tags : Holds(tags, tags[i])
  BY DEF Distinct, Holds
<1>6. DOMAIN tags \in SUBSET Nat
  BY LenProperties
<1>7. ASSUME NEW name, ~Lacks(T, name)
      PROVE  \E t : t.name = name /\ Holds(tags, t) /\ Holds(T, t)
  <2>1. PICK i \in DOMAIN tags : tags[i].name = name
    BY <1>3, <1>7
  <2> QED BY <1>3, <1>5, <1>7, <2>1
<1> QED BY <1>3, <1>4, <1>6, <1>7

(* A lenient field that can be read still can when tags are left out. *)
LEMMA LenientRead ==
    ASSUME NEW I, NEW tags \in Seq(I), Distinct(tags), NEW W,
           NEW how \in Lenient, NEW name, Read(how, tags, name) # Raised
    PROVE  Read(how, LeftOut(tags, W), name) # Raised
<1> DEFINE T == LeftOut(tags, W)
<1>1. DOMAIN tags \in SUBSET Nat /\ DOMAIN T \in SUBSET Nat
  BY LeftOutFacts
<1> HIDE DEF T
<1>2. CASE Lacks(T, name)
  <2>1. Read(how, T, name) \in {<<None>>, <<0>>, <<FALSE>>}
    BY <1>1, <1>2, ReadAbsent DEF Lenient
  <2>2. <<None>> # << >> /\ <<0>> # << >> /\ <<FALSE>> # << >>
    OBVIOUS
  <2> QED BY <2>1, <2>2 DEF Raised, T
<1>3. CASE ~Lacks(T, name)
  <2>1. PICK t : t.name = name /\ Holds(tags, t) /\ Holds(T, t)
    BY <1>3, LeftOutFacts DEF T
  <2>2. how \in {"hash16?", "string?", "rating?", "long?", "uint32?", "uint16?", "flag?",
                  "priority", "buddy?", "flag", "long", "short?", "short", "int?", "int",
                  "static?", "hash16!", "string!", "byte!", "salt!", "int!"}
    BY DEF Lenient
  <2> DEFINE TooNarrow == \/ how \in {"short?", "short"} /\ t.type \in {"UINT32", "UINT64"}
                          \/ how \in {"int?", "int", "static?"} /\ t.type = "UINT64"
                          \/ how = "hash16!" /\ t.type # "HASH16"
                          \/ how = "string!" /\ t.type # "STRING"
                          \/ how = "byte!" /\ t.type # "UINT8"
                          \/ how = "salt!" /\ t.type # "UINT64"
                          \/ how = "int!" /\ t.type \notin {"UINT8", "UINT16", "UINT32"}
  <2>3. Read(how, tags, t.name) = Raised <=> TooNarrow
    BY <1>1, <2>1, <2>2, ReadRaises
  <2>4. Read(how, T, t.name) = Raised <=> TooNarrow
    BY <1>1, <2>1, <2>2, ReadRaises
  <2> HIDE DEF TooNarrow
  <2> QED BY <2>1, <2>3, <2>4 DEF T
<1> QED BY <1>2, <1>3

(* A table of fields can be read when each field can. *)
LEMMA ReadAllRaises ==
    ASSUME NEW fields, NEW T
    PROVE  ReadAll(fields, T) # Raised <=>
               \A g \in DOMAIN fields : Read(fields[g][1], T, fields[g][2]) # Raised
<1> DEFINE read == [g \in DOMAIN fields |-> Read(fields[g][1], T, fields[g][2])]
<1>1. ReadAll(fields, T) = Whole(read)
  BY DEF ReadAll
<1>2. DOMAIN read = DOMAIN fields
      /\ \A g \in DOMAIN fields : read[g] = Read(fields[g][1], T, fields[g][2])
  OBVIOUS
<1> HIDE DEF read
<1>3. Whole(read) # Raised <=> \A g \in DOMAIN read : read[g] # Raised
  <2>1. \A x : <<x>> # Raised
    BY DEF Raised
  <2> QED BY <2>1 DEF Whole
<1> QED BY <1>1, <1>2, <1>3

(* A file that can be read from its tags can be read from any part of them (model.py:85-88). *)
THEOREM LeftOutTagsAreTolerated ==
    ASSUME NEW I, NEW tags \in Seq(I), Distinct(tags), NEW W
    PROVE  /\ SharedFileTag(tags) # Raised => SharedFileTag(LeftOut(tags, W)) # Raised
           /\ PartFileTag(tags) # Raised => PartFileTag(LeftOut(tags, W)) # Raised
<1> DEFINE T == LeftOut(tags, W)
<1>1. ASSUME NEW fields, Tolerant(fields), ReadAll(fields, tags) # Raised
      PROVE  ReadAll(fields, T) # Raised
  <2>1. \A g \in DOMAIN fields : Read(fields[g][1], tags, fields[g][2]) # Raised
    BY <1>1, ReadAllRaises
  <2>2. \A g \in DOMAIN fields : fields[g][1] \in Lenient
    BY <1>1 DEF Tolerant
  <2>3. \A g \in DOMAIN fields : Read(fields[g][1], T, fields[g][2]) # Raised
    BY <2>1, <2>2, LenientRead
  <2> HIDE DEF T
  <2> QED BY <2>3, ReadAllRaises
<1> HIDE DEF T
<1>2. SharedFileTag(tags) # Raised => SharedFileTag(T) # Raised
  BY <1>1, SharedTable DEF SharedFileTag
<1>3. ASSUME PartFileTag(tags) # Raised PROVE PartFileTag(T) # Raised
  <2> DEFINE status(x) == byte_or(x, "PARTFILE_STATUS", UNKNOWN)
             read(x, s) == <<Joined([file_status |-> s], ReadAll(PartFields, x)[1])>>
  <2>1. \A x : PartFileTag(x) =
            IF status(x) = Raised THEN Raised
            ELSE IF status(x)[1] \notin FileStatus THEN Raised
            ELSE IF ReadAll(PartFields, x) = Raised THEN Raised
            ELSE read(x, status(x)[1])
    BY Zenon DEF PartFileTag, Then
  <2>2. \A x, s : read(x, s) # Raised
    BY DEF Raised
  <2>3. status(T) \in {status(tags), <<UNKNOWN>>}
    <3>1. DOMAIN tags \in SUBSET Nat /\ DOMAIN T \in SUBSET Nat
      BY LeftOutFacts DEF T
    <3>2. CASE Lacks(T, "PARTFILE_STATUS")
      <4>1. FirstOfType(T, "PARTFILE_STATUS", {"UINT8"}) = << >>
        BY <3>1, <3>2, FirstFacts
      <4> QED BY <4>1 DEF byte_or, find_byte, Got
    <3>3. CASE ~Lacks(T, "PARTFILE_STATUS")
      <4>1. PICK t : t.name = "PARTFILE_STATUS" /\ Holds(tags, t) /\ Holds(T, t)
        BY <3>3, LeftOutFacts DEF T
      <4>2. find_byte(tags, t.name) = IF t.type = "UINT8" THEN <<t>> ELSE << >>
        BY <3>1, <4>1, FoundFacts
      <4>3. find_byte(T, t.name) = IF t.type = "UINT8" THEN <<t>> ELSE << >>
        BY <3>1, <4>1, FoundFacts
      <4>4. find_byte(T, "PARTFILE_STATUS") = find_byte(tags, "PARTFILE_STATUS")
        BY <4>1, <4>2, <4>3
      <4> QED BY <4>4 DEF byte_or
    <3> QED BY <3>2, <3>3
  <2>4. <<UNKNOWN>> # Raised /\ <<UNKNOWN>>[1] \in FileStatus
    BY DEF Raised, UNKNOWN, FileStatus
  <2> HIDE DEF status, read
  <2>5. /\ status(tags) # Raised /\ status(tags)[1] \in FileStatus
        /\ ReadAll(PartFields, tags) # Raised
    BY <1>3, <2>1
  <2>6. ReadAll(PartFields, T) # Raised
    BY <1>1, <2>5, PartTable
  <2> QED BY <2>1, <2>2, <2>3, <2>4, <2>5, <2>6
<1> QED BY <1>2, <1>3 DEF T

(* A number is read as it was sent or the call raises, whatever integer type it comes in: *)
(* it is never cut to the width of its field, nor taken for absent (tag.py:138-221), and *)
(* one that fits into 16 bits is always read. *)
THEOREM NumbersAreExact ==
    ASSUME NEW tags, DOMAIN tags \in SUBSET Nat, NEW t, Holds(tags, t),
           t.type \in {"UINT8", "UINT16", "UINT32", "UINT64"}
    PROVE  /\ \A how \in {"short", "int", "long"} :
                  Read(how, tags, t.name) \in {Raised, <<t.value>>}
           /\ \A how \in {"short?", "int?", "long?"} :
                  Read(how, tags, t.name) \in {Raised, <<<<t.value>>>>}
           /\ t.type \in {"UINT8", "UINT16"} =>
                  \A how \in {"short", "int", "long", "short?", "int?", "long?"} :
                      Read(how, tags, t.name) # Raised
<1>1. find_numeric(tags, t.name) = <<t>>
  BY FoundFacts
<1>2. <<t>> # << >> /\ <<t>>[1] = t /\ \A x : <<x>> # << >>
  OBVIOUS
<1>3. /\ get_short(t) \in {<< >>, <<t.value>>} /\ get_int(t) \in {<< >>, <<t.value>>}
      /\ get_long(t) \in {<< >>, <<t.value>>}
      /\ \A v : OptionOf(v) = IF v = << >> THEN << >> ELSE <<v>>
  BY Zenon DEF get_short, get_int, get_long, OptionOf, Raised
<1> DEFINE r(how) == Read(how, tags, t.name)
<1>4. r("short") = get_short(t) /\ r("int") = get_int(t) /\ r("long") = get_long(t)
  BY <1>1, <1>2 DEF Read, Got
<1>5. /\ r("short?") = OptionOf(get_short(t)) /\ r("int?") = OptionOf(get_int(t))
      /\ r("long?") = OptionOf(get_long(t))
  BY <1>1, <1>2 DEF Read, Got
<1>6. t.type \in {"UINT8", "UINT16"} =>
          get_short(t) # << >> /\ get_int(t) # << >> /\ get_long(t) # << >>
  BY <1>2 DEF get_short, get_int, get_long, NumericSize
<1> HIDE DEF r
<1>7. /\ r("short") \in {<< >>, <<t.value>>} /\ r("int") \in {<< >>, <<t.value>>}
      /\ r("long") \in {<< >>, <<t.value>>}
  BY <1>3, <1>4
<1>8. /\ r("short?") \in {<< >>, <<<<t.value>>>>} /\ r("int?") \in {<< >>, <<<<t.value>>>>}
      /\ r("long?") \in {<< >>, <<<<t.value>>>>}
  BY <1>3, <1>5
<1>9. t.type \in {"UINT8", "UINT16"} =>
          /\ r("short") # << >> /\ r("int") # << >> /\ r("long") # << >>
          /\ r("short?") # << >> /\ r("int?") # << >> /\ r("long?") # << >>
  BY <1>2, <1>3, <1>4, <1>5, <1>6
<1> QED BY <1>7, <1>8, <1>9 DEF r, Raised

=============================================================================
