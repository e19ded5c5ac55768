--------------------------- MODULE KadLookupProofs ----------------------------
(***************************************************************************)
(* Proofs about KadLookup, for every network, every set of seeds and       *)
(* files, whatever the nodes have published, every number of rounds and    *)
(* every Alpha: the four invariants of the search.  That a search ends is  *)
(* a liveness property and stays with the model checker.                   *)
(*                                                                         *)
(* The dict dedup is a recursive function of the results read.  Induction  *)
(* on how many were read is done with the least number that would refute   *)
(* the claim (LeastNatural).                                               *)
(***************************************************************************)
EXTENDS KadLookup, FiniteSetTheorems, TLAPS

KadResult == [hash : Files, sources : Nat, named : BOOLEAN]

(* The keyword search itself is not over: its contacts are not handed over. *)
Searching == goal = Keyword /\ stage # "done"

(* What an answer can be, and that only nodes that answer send one.        *)
Messages ==
    [kind : {"boot"}, from : Seeds \cap online, goal : {Keyword}]
      \cup [kind : {"contacts"}, from : online, goal : Goals]
      \cup [kind : {"files"}, from : online, goal : {Keyword}]
      \cup [kind : {"sources"}, from : online, goal : Files]

(* Which lookup is under way, and the files that are left to look up: each *)
(* once, and none that is looked up or counted already.                    *)
CourseInv ==
    /\ air \subseteq Messages
    /\ heard \in Seq(KadResult)
    /\ stage \in {"boot", "keys"} => goal = Keyword
    /\ stage \in {"next", "sources"} => goal \in Files
    /\ todo \in Seq(Files) /\ IsInjective(todo) /\ ToSet(todo) \subseteq DOMAIN out
    /\ Searching => todo = <<>> /\ counted = <<>>
    /\ ~Searching /\ stage # "done" => goal \in DOMAIN out
    /\ stage # "done" => goal \notin ToSet(todo) \cup DOMAIN counted
    /\ ToSet(todo) \cap DOMAIN counted = {}

(* What the answer of the search is made of. *)
OutInv == IF Searching THEN out = <<>> ELSE out = Filtered(Dedup(heard))

(* The clients that answers about a file named. *)
SourcesHeard(f) ==
    UNION {Sources[m.from][f] : m \in {u \in used : u.kind = "sources" /\ u.goal = f}}

(* Sources are heard of the file looked up or of those counted before. *)
SourcesInv ==
    /\ \A m \in used : m.kind = "sources" =>
           ~Searching /\ m.goal \notin ToSet(todo)
    /\ ~Searching /\ stage # "done" => srcs = SourcesHeard(goal)
    /\ SourcesOfTheFile

(* S holds the seeds that answer, and with a node the contacts it gives away. *)
IsClosed(S) ==
    /\ Seeds \cap online \subseteq S
    /\ \A n \in S : knows[n] \cap online \subseteq S

(* How far the keyword search has come: whom it asked, who answered, what  *)
(* it made of the answers, and that it knows no node that answers but      *)
(* those that can be reached.                                              *)
NetworkInv ==
    Searching =>
      /\ \A n \in queried \cap online : Answer("contacts", n, Keyword) \in air
      /\ \A m \in air : m.from \in pool
      /\ alive \subseteq pool
      /\ \A m \in used : m.kind \in {"boot", "contacts"} =>
             m.from \in alive /\ knows[m.from] \subseteq Known
      /\ \A S \in SUBSET online : IsClosed(S) => Known \cap online \subseteq S

IInv == TypeOK /\ CourseInv /\ OutInv /\ SourcesInv /\ NetworkInv /\ FindsNearest
-----------------------------------------------------------------------------
(* A set of naturals that is not empty has a least element. *)
LEMMA LeastNatural ==
    ASSUME NEW S \in SUBSET Nat, S # {}
    PROVE  \E n \in S : \A m \in S : n <= m
<1> DEFINE R == StrictSubsetOrdering(Nat)
           T == {1 .. n : n \in S}
<1>1. T \subseteq FiniteSubsetsOf(Nat)
  <2> SUFFICES ASSUME NEW n \in S
               PROVE  1 .. n \in FiniteSubsetsOf(Nat)
    OBVIOUS
  <2>1. IsFiniteSet(1 .. n)
    BY FS_Interval
  <2> QED BY <2>1 DEF FiniteSubsetsOf
<1>2. IsWellFoundedOn(R, FiniteSubsetsOf(Nat))
  BY FS_StrictSubsetOrderingWellFounded
<1>3. PICK x \in T : \A y \in T : ~(<<y, x>> \in R)
  <2> HIDE DEF R, T
  <2>1. \A y : y \in S => 1 .. y \in T
    BY DEF T
  <2> QED BY <1>1, <1>2, <2>1, WFMin
<1>4. PICK n \in S : x = 1 .. n
  OBVIOUS
<1>5. ASSUME NEW m \in S, m < n PROVE FALSE
  <2>1. n \in 1 .. n /\ n \notin 1 .. m
    BY <1>5
  <2>2. 1 .. m \subseteq 1 .. n /\ 1 .. m # 1 .. n
    BY <1>5, <2>1
  <2>3. <<1 .. m, 1 .. n>> \in R
    BY <2>2 DEF StrictSubsetOrdering
  <2> QED BY <1>3, <1>4, <2>3
<1> QED BY <1>5

(* What the dict becomes when the result r is read. *)
Read(d, r) ==
    IF r.hash \notin DOMAIN d \/ r.sources > d[r.hash].sources THEN Put(d, r.hash, r) ELSE d

(* The dict after each of the first N results. *)
Reading(f, results, N) ==
    f = [n \in 0 .. N |-> IF n = 0 THEN <<>> ELSE Read(f[n - 1], results[n])]

(* The recursive function of Dedup exists: result by result, there is a    *)
(* dict after each.                                                        *)
LEMMA ReadingExists ==
    ASSUME NEW results \in Seq(KadResult)
    PROVE  \E f : Reading(f, results, Len(results))
<1> DEFINE Bad == {n \in 0 .. Len(results) : ~ \E f : Reading(f, results, n)}
<1>1. CASE Bad = {}
  <2>1. Len(results) \in 0 .. Len(results)
    OBVIOUS
  <2> QED BY <1>1, <2>1
<1>2. CASE Bad # {}
  <2>1. PICK k \in Bad : \A m \in Bad : k <= m
    <3>1. Bad \in SUBSET Nat
      OBVIOUS
    <3> HIDE DEF Bad
    <3> QED BY <1>2, <3>1, LeastNatural
  <2>2. k \in 0 .. Len(results) /\ ~ \E f : Reading(f, results, k)
    OBVIOUS
  <2>3. k # 0
    <3>1. Reading([n \in 0 .. 0 |-> <<>>], results, 0)
      BY DEF Reading
    <3> QED BY <2>2, <3>1
  <2>4. PICK f : Reading(f, results, k - 1)
    <3>1. k - 1 \in 0 .. Len(results) /\ ~(k <= k - 1)
      BY <2>2, <2>3
    <3> QED BY <2>1, <3>1
  <2> DEFINE g == [n \in 0 .. k |-> IF n = k THEN Read(f[k - 1], results[k]) ELSE f[n]]
  <2>5. Reading(g, results, k)
    <3>1. \A n \in 0 .. k - 1 :
              f[n] = IF n = 0 THEN <<>> ELSE Read(f[n - 1], results[n])
      BY <2>4 DEF Reading
    <3>2. \A n \in 0 .. k : g[n] = IF n = 0 THEN <<>> ELSE Read(g[n - 1], results[n])
      <4> SUFFICES ASSUME NEW n \in 0 .. k
                   PROVE  g[n] = IF n = 0 THEN <<>> ELSE Read(g[n - 1], results[n])
        OBVIOUS
      <4>1. CASE n = k
        <5>1. k - 1 \in 0 .. k /\ k - 1 # k
          BY <2>2, <2>3
        <5>2. g[k - 1] = f[k - 1]
          BY <5>1
        <5> QED BY <2>3, <4>1, <5>2
      <4>2. CASE n # k /\ n # 0
        <5>1. n - 1 \in 0 .. k /\ n - 1 # k /\ n \in 0 .. k - 1
          BY <2>2, <4>2
        <5>2. g[n - 1] = f[n - 1] /\ g[n] = f[n]
          BY <4>2, <5>1
        <5>3. f[n] = Read(f[n - 1], results[n])
          BY <3>1, <4>2, <5>1
        <5> QED BY <4>2, <5>2, <5>3
      <4>3. CASE n # k /\ n = 0
        <5>1. n \in 0 .. k - 1
          BY <2>2, <4>3
        <5> QED BY <3>1, <4>3, <5>1
      <4> QED BY <4>1, <4>2, <4>3
    <3>3. DOMAIN g = 0 .. k /\ g = [n \in 0 .. k |-> g[n]]
      OBVIOUS
    <3> HIDE DEF g
    <3>4. g = [n \in 0 .. k |-> IF n = 0 THEN <<>> ELSE Read(g[n - 1], results[n])]
      BY <3>2, <3>3
    <3> QED BY <3>4 DEF Reading
  <2> QED BY <2>2, <2>5
<1> QED BY <1>1, <1>2

(* Dedup(results) is the dict after the last result. *)
LEMMA DedupReads ==
    ASSUME NEW results \in Seq(KadResult)
    PROVE  \E f : Reading(f, results, Len(results)) /\ Dedup(results) = f[Len(results)]
<1> DEFINE D(f) == [n \in 0 .. Len(results) |->
                       IF n = 0 THEN <<>> ELSE Read(f[n - 1], results[n])]
           c == CHOOSE f : f = D(f)
<1>1. \E f : f = D(f)
  BY ReadingExists DEF Reading
<1>2. c = D(c)
  <2> HIDE DEF D
  <2> QED BY <1>1
<1>3. Dedup(results) = c[Len(results)]
  BY Zenon DEF Dedup, Read
<1>4. Reading(c, results, Len(results))
  BY <1>2, Zenon DEF Reading
<1> QED BY <1>3, <1>4, Zenon

(* d has one of the results for every hash among the first n, and none of  *)
(* the others of that hash has more sources.                               *)
Holds(d, results, n) ==
    /\ DOMAIN d = {results[i].hash : i \in 1 .. n}
    /\ \A h \in DOMAIN d : \E i \in 1 .. n : d[h] = results[i] /\ results[i].hash = h
    /\ \A i \in 1 .. n : results[i].sources <= d[results[i].hash].sources

(* Reading one more result keeps that. *)
LEMMA ReadHolds ==
    ASSUME NEW results \in Seq(KadResult), NEW n \in 1 .. Len(results), NEW d,
           Holds(d, results, n - 1)
    PROVE  Holds(Read(d, results[n]), results, n)
<1> DEFINE r == results[n]
           e == Put(d, r.hash, r)
<1>1. /\ \A i \in 1 .. n : results[i] \in KadResult
      /\ 1 .. n = 1 .. n - 1 \cup {n} /\ n \notin 1 .. n - 1 /\ n \in Nat
  OBVIOUS
<1>2. /\ DOMAIN d = {results[i].hash : i \in 1 .. n - 1}
      /\ \A h \in DOMAIN d : \E i \in 1 .. n - 1 : d[h] = results[i] /\ results[i].hash = h
      /\ \A i \in 1 .. n - 1 : results[i].sources <= d[results[i].hash].sources
  BY DEF Holds
<1>3. \A h \in DOMAIN d : d[h].sources \in Nat
  BY <1>1, <1>2 DEF KadResult
<1>4. \A i \in 1 .. n : results[i].sources \in Nat
  BY <1>1 DEF KadResult
<1>5. CASE r.hash \notin DOMAIN d \/ r.sources > d[r.hash].sources
  <2>1. Read(d, r) = e
    BY <1>5 DEF Read
  <2>2. /\ DOMAIN e = DOMAIN d \cup {r.hash} /\ e[r.hash] = r
        /\ \A h \in DOMAIN d \ {r.hash} : e[h] = d[h]
    BY DEF Put
  <2> HIDE DEF e
  <2>3. DOMAIN e = {results[i].hash : i \in 1 .. n}
    BY <1>1, <1>2, <2>2
  <2>4. \A h \in DOMAIN e : \E i \in 1 .. n : e[h] = results[i] /\ results[i].hash = h
    BY <1>1, <1>2, <2>2
  <2>5. ASSUME NEW i \in 1 .. n
        PROVE  results[i].sources <= e[results[i].hash].sources
    <3>1. CASE i = n
      BY <1>4, <2>2, <3>1
    <3>2. CASE i # n /\ results[i].hash # r.hash
      BY <1>1, <1>2, <2>2, <3>2
    <3>3. CASE i # n /\ results[i].hash = r.hash
      <4>1. i \in 1 .. n - 1 /\ r.hash \in DOMAIN d
        BY <1>1, <1>2, <3>3
      <4>2. results[i].sources <= d[r.hash].sources /\ d[r.hash].sources < r.sources
        BY <1>2, <1>3, <1>4, <1>5, <3>3, <4>1
      <4> QED BY <1>3, <1>4, <2>2, <3>3, <4>1, <4>2
    <3> QED BY <3>1, <3>2, <3>3
  <2> QED BY <2>1, <2>3, <2>4, <2>5 DEF Holds
<1>6. CASE ~(r.hash \notin DOMAIN d \/ r.sources > d[r.hash].sources)
  <2>1. Read(d, r) = d
    BY <1>6 DEF Read
  <2>2. r.hash \in DOMAIN d /\ r.sources <= d[r.hash].sources
    BY <1>3, <1>4, <1>6
  <2>3. DOMAIN d = {results[i].hash : i \in 1 .. n}
    BY <1>1, <1>2, <2>2
  <2>4. \A h \in DOMAIN d : \E i \in 1 .. n : d[h] = results[i] /\ results[i].hash = h
    BY <1>1, <1>2
  <2>5. \A i \in 1 .. n : results[i].sources <= d[results[i].hash].sources
    BY <1>1, <1>2, <2>2
  <2> QED BY <2>1, <2>3, <2>4, <2>5 DEF Holds
<1> QED BY <1>5, <1>6

(* "Dedup by hash, keeping the highest published availability": the dict   *)
(* has a key for every hash heard, and under it a result of that hash with *)
(* at least as many sources as any other.                                  *)
THEOREM DedupKeepsHighest ==
    ASSUME NEW results \in Seq(KadResult)
    PROVE  Holds(Dedup(results), results, Len(results))
<1>1. PICK f : Reading(f, results, Len(results)) /\ Dedup(results) = f[Len(results)]
  BY DedupReads
<1>2. \A n \in 0 .. Len(results) :
          f[n] = IF n = 0 THEN <<>> ELSE Read(f[n - 1], results[n])
  BY <1>1 DEF Reading
<1> DEFINE Bad == {n \in 0 .. Len(results) : ~Holds(f[n], results, n)}
<1>3. CASE Bad = {}
  <2>1. Len(results) \in 0 .. Len(results)
    OBVIOUS
  <2> QED BY <1>1, <1>3, <2>1
<1>4. CASE Bad # {}
  <2>1. PICK k \in Bad : \A m \in Bad : k <= m
    <3>1. Bad \in SUBSET Nat
      OBVIOUS
    <3> HIDE DEF Bad
    <3> QED BY <1>4, <3>1, LeastNatural
  <2>2. k \in 0 .. Len(results) /\ ~Holds(f[k], results, k)
    OBVIOUS
  <2>3. k # 0
    <3>1. f[0] = <<>>
      BY <1>2
    <3>2. Holds(<<>>, results, 0)
      BY DEF Holds
    <3> QED BY <2>2, <3>1, <3>2
  <2>4. k - 1 \in 0 .. Len(results) /\ ~(k <= k - 1) /\ k \in 1 .. Len(results)
    BY <2>2, <2>3
  <2>5. Holds(f[k - 1], results, k - 1)
    BY <2>1, <2>4
  <2>6. Holds(Read(f[k - 1], results[k]), results, k)
    BY <2>4, <2>5, ReadHolds
  <2>7. f[k] = Read(f[k - 1], results[k])
    BY <1>2, <2>2, <2>3
  <2> QED BY <2>2, <2>6, <2>7
<1> QED BY <1>3, <1>4
-----------------------------------------------------------------------------
(* The files of a sequence without repetitions: the first, and the others. *)
LEMMA FirstFile ==
    ASSUME NEW files \in Seq(Files), IsInjective(files), files # <<>>
    PROVE  /\ Head(files) \in ToSet(files) /\ Head(files) \in Files
           /\ Tail(files) \in Seq(Files) /\ IsInjective(Tail(files))
           /\ ToSet(Tail(files)) \subseteq ToSet(files) \ {Head(files)}
<1>1. /\ Len(files) \in Nat \ {0} /\ DOMAIN files = 1 .. Len(files)
      /\ Head(files) = files[1] /\ 1 \in 1 .. Len(files) /\ Head(files) \in Files
      /\ Tail(files) \in Seq(Files) /\ DOMAIN Tail(files) = 1 .. Len(files) - 1
  OBVIOUS
<1>2. \A i \in 1 .. Len(files) - 1 :
          Tail(files)[i] = files[i + 1] /\ i + 1 \in DOMAIN files /\ i + 1 # 1
  BY <1>1
<1>3. IsInjective(Tail(files))
  <2> SUFFICES ASSUME NEW i \in 1 .. Len(files) - 1, NEW j \in 1 .. Len(files) - 1,
                      Tail(files)[i] = Tail(files)[j]
               PROVE  i = j
    BY <1>1 DEF IsInjective
  <2>1. i + 1 = j + 1
    BY <1>2 DEF IsInjective
  <2> QED BY <2>1
<1>4. Head(files) \in ToSet(files)
  BY <1>1 DEF ToSet
<1>5. ToSet(Tail(files)) \subseteq ToSet(files) \ {Head(files)}
  BY <1>1, <1>2 DEF ToSet, IsInjective
<1> QED BY <1>1, <1>3, <1>4, <1>5

(* The files looked up, the first of a ranking, repeat none. *)
LEMMA RankedFiles ==
    ASSUME NEW S, S \subseteq Files, IsFiniteSet(S), NEW s \in SetToSeqs(S), NEW k \in Nat,
           k <= Len(s)
    PROVE  /\ SubSeq(s, 1, k) \in Seq(Files) /\ IsInjective(SubSeq(s, 1, k))
           /\ ToSet(SubSeq(s, 1, k)) \subseteq S
<1>1. Cardinality(S) \in Nat
  BY FS_CardinalityType
<1>2. s \in [1 .. Cardinality(S) -> S] /\ IsInjective(s)
  BY DEF SetToSeqs, IsInjective
<1>3. s \in Seq(S) /\ DOMAIN s = 1 .. Len(s) /\ s \in Seq(Files)
  <2>1. s \in Seq(S)
    BY <1>1, <1>2
  <2> QED BY <2>1
<1>4. /\ SubSeq(s, 1, k) \in Seq(S) /\ DOMAIN SubSeq(s, 1, k) = 1 .. k
      /\ SubSeq(s, 1, k) \in Seq(Files)
      /\ \A i \in 1 .. k : SubSeq(s, 1, k)[i] = s[i] /\ i \in DOMAIN s /\ s[i] \in S
  BY <1>3
<1>5. IsInjective(SubSeq(s, 1, k))
  BY <1>2, <1>4 DEF IsInjective
<1>6. ToSet(SubSeq(s, 1, k)) \subseteq S
  BY <1>4 DEF ToSet
<1> QED BY <1>4, <1>5, <1>6

(* The answer lists files that were heard of: finitely many. *)
LEMMA AnswerLists ==
    ASSUME NEW results \in Seq(KadResult)
    PROVE  /\ DOMAIN Filtered(Dedup(results)) \subseteq Files
           /\ IsFiniteSet(DOMAIN Filtered(Dedup(results)))
<1> DEFINE d == Dedup(results)
           H == {results[i].hash : i \in 1 .. Len(results)}
<1>1. DOMAIN d = H
  BY DedupKeepsHighest DEF Holds
<1>2. IsFiniteSet(1 .. Len(results))
  BY FS_Interval
<1>3. IsFiniteSet(H)
  <2> DEFINE g == [i \in 1 .. Len(results) |-> results[i].hash]
  <2>1. g \in Surjection(1 .. Len(results), H)
    BY DEF Surjection
  <2> QED BY <1>2, <2>1, FS_Surjection
<1>4. H \subseteq Files
  <2>1. \A i \in 1 .. Len(results) : results[i] \in KadResult
    OBVIOUS
  <2> QED BY <2>1 DEF KadResult
<1>5. DOMAIN Filtered(d) \subseteq DOMAIN d
  BY DEF Filtered
<1> QED BY <1>1, <1>3, <1>4, <1>5, FS_Subset

(* Whom the search request goes to is known. *)
LEMMA HoldersAreKnown == Candidates \subseteq Known /\ Holders \subseteq Known
BY DEF Candidates, Holders, Nearest
-----------------------------------------------------------------------------
(* What an answer under way says about its sender. *)
LEMMA AnswersAreTyped ==
    ASSUME TypeOK, CourseInv, NEW m \in air
    PROVE  /\ m.from \in online /\ m.from \in Nodes /\ knows[m.from] \subseteq Nodes
           /\ m.kind \in {"boot", "contacts", "files", "sources"}
           /\ Published[m.from] \in Seq(KadResult)
<1>1. m \in Messages
  BY DEF CourseInv
<1>2. m.from \in online /\ m.kind \in {"boot", "contacts", "files", "sources"}
  BY <1>1 DEF Messages
<1>3. m.from \in Nodes /\ knows \in [Nodes -> SUBSET Nodes]
  BY <1>2, NetworksAssumption DEF TypeOK
<1>4. Published[m.from] \in Seq(KadResult)
  BY <1>3, PublishedAssumption DEF KadResult
<1> QED BY <1>2, <1>3, <1>4

(* The sources heard stay the same when nothing else but answers of other  *)
(* kinds is made use of.                                                   *)
LEMMA SourcesHeardStay ==
    ASSUME {u \in used' : u.kind = "sources"} = {u \in used : u.kind = "sources"}
    PROVE  \A f : SourcesHeard(f)' = SourcesHeard(f)
<1> SUFFICES ASSUME NEW f
             PROVE  SourcesHeard(f)' = SourcesHeard(f)
  OBVIOUS
<1>1. {u \in used' : u.kind = "sources" /\ u.goal = f}
        = {u \in used : u.kind = "sources" /\ u.goal = f}
  OBVIOUS
<1> QED BY <1>1 DEF SourcesHeard

(* What Receive leaves alone. *)
ReceiveFrame ==
    UNCHANGED <<envVars, stage, goal, round, pool, queried, closest, resultVars, air>>

(* recv_for, while contacts are looked for. *)
LEMMA ContactsStep ==
    ASSUME IInv, NEW m \in air, ReceiveContacts(m), ReceiveFrame
    PROVE  IInv'
<1>1. /\ TypeOK /\ CourseInv /\ OutInv /\ SourcesInv /\ NetworkInv
      /\ online' = online /\ knows' = knows /\ doSources' = doSources /\ stage' = stage
      /\ goal' = goal /\ round' = round /\ pool' = pool /\ queried' = queried
      /\ closest' = closest /\ contacts' = contacts /\ out' = out /\ todo' = todo
      /\ counted' = counted /\ air' = air
  BY DEF IInv, ReceiveFrame, envVars, resultVars
<1>2. /\ stage \in {"boot", "round"} /\ alive' = alive \cup {m.from}
      /\ heard' = heard /\ srcs' = srcs
      /\ \/ /\ m.kind \in {"boot", "contacts"}
            /\ told' = told \cup knows[m.from] /\ used' = used \cup {m}
         \/ told' = told /\ used' = used
  BY DEF ReceiveContacts
<1>3. m.from \in online /\ m.from \in Nodes /\ knows[m.from] \subseteq Nodes
  BY <1>1, AnswersAreTyped
<1>4. TypeOK'
  BY <1>1, <1>2, <1>3 DEF TypeOK, RoundsOf
<1>5. Searching' = Searching /\ Messages' = Messages
  BY <1>1 DEF Searching, Messages
<1>6. CourseInv'
  BY <1>1, <1>2, <1>5 DEF CourseInv
<1>7. OutInv'
  BY <1>1, <1>2, <1>5 DEF OutInv
<1>8. SourcesInv'
  <2>1. {u \in used' : u.kind = "sources"} = {u \in used : u.kind = "sources"}
    BY <1>2
  <2>2. \A f : SourcesHeard(f)' = SourcesHeard(f)
    BY <2>1, SourcesHeardStay
  <2>3. SourcesOfTheFile'
    BY <1>1, <2>2 DEF SourcesInv, SourcesOfTheFile, SourcesHeard
  <2>4. \A u \in used' : u.kind = "sources" => ~Searching' /\ u.goal \notin ToSet(todo')
    BY <1>1, <1>2, <1>5, <2>1 DEF SourcesInv
  <2>5. (~Searching /\ stage # "done" => srcs = SourcesHeard(goal))'
    BY <1>1, <1>2, <1>5, <2>2 DEF SourcesInv
  <2> QED BY <2>3, <2>4, <2>5 DEF SourcesInv
<1>9. NetworkInv'
  <2> SUFFICES ASSUME Searching
               PROVE  (/\ \A n \in queried \cap online : Answer("contacts", n, Keyword) \in air
                       /\ \A u \in air : u.from \in pool
                       /\ alive \subseteq pool
                       /\ \A u \in used : u.kind \in {"boot", "contacts"} =>
                              u.from \in alive /\ knows[u.from] \subseteq Known
                       /\ \A S \in SUBSET online :
                              IsClosed(S) => Known \cap online \subseteq S)'
    BY <1>5 DEF NetworkInv
  <2>1. \A n \in queried' \cap online' : Answer("contacts", n, Keyword) \in air'
    BY <1>1 DEF NetworkInv
  <2>2. \A u \in air' : u.from \in pool'
    BY <1>1 DEF NetworkInv
  <2>3. alive' \subseteq pool'
    BY <1>1, <1>2 DEF NetworkInv
  <2>4. ASSUME NEW u \in used', u.kind \in {"boot", "contacts"}
        PROVE  u.from \in alive' /\ knows'[u.from] \subseteq Known'
    BY <1>1, <1>2, <2>4 DEF NetworkInv, Known
  <2>5. ASSUME NEW S \in SUBSET online', IsClosed(S)'
        PROVE  Known' \cap online' \subseteq S
    <3>1. IsClosed(S) /\ S \in SUBSET online
      BY <1>1, <2>5 DEF IsClosed
    <3>2. Known \cap online \subseteq S
      BY <1>1, <3>1 DEF NetworkInv
    <3>3. m.from \in S
      BY <1>1, <1>3, <3>2 DEF NetworkInv, Known
    <3>4. knows[m.from] \cap online \subseteq S
      BY <3>1, <3>3 DEF IsClosed
    <3> QED BY <1>1, <1>2, <3>2, <3>4 DEF Known
  <2> QED BY <2>1, <2>2, <2>3, <2>4, <2>5
<1>10. FindsNearest'
  BY <1>1, <1>2 DEF FindsNearest
<1> QED BY <1>4, <1>6, <1>7, <1>8, <1>9, <1>10 DEF IInv

(* What can be reached depends on the network alone. *)
LEMMA ReachableStays ==
    ASSUME online' = online, knows' = knows
    PROVE  Reachable' = Reachable
BY DEF Reachable

(* recv_for, in the last window of the keyword search. *)
LEMMA ResultsStep ==
    ASSUME IInv, NEW m \in air, ReceiveResults(m), ReceiveFrame
    PROVE  IInv'
<1>1. /\ TypeOK /\ CourseInv /\ OutInv /\ SourcesInv /\ NetworkInv /\ FindsNearest
      /\ online' = online /\ knows' = knows /\ doSources' = doSources /\ stage' = stage
      /\ goal' = goal /\ round' = round /\ pool' = pool /\ queried' = queried
      /\ closest' = closest /\ contacts' = contacts /\ out' = out /\ todo' = todo
      /\ counted' = counted /\ air' = air
  BY DEF IInv, ReceiveFrame, envVars, resultVars
<1>2. /\ stage = "keys" /\ alive' = alive \cup {m.from}
      /\ told' = told /\ srcs' = srcs
      /\ \/ /\ m.kind = "files"
            /\ heard' = heard \o Published[m.from] /\ used' = used \cup {m}
         \/ heard' = heard /\ used' = used
  BY DEF ReceiveResults
<1>3. m.from \in online /\ Published[m.from] \in Seq(KadResult)
  BY <1>1, AnswersAreTyped
<1>4. TypeOK'
  BY <1>1, <1>2, <1>3 DEF TypeOK, RoundsOf
<1>5. /\ Searching' = Searching /\ Messages' = Messages /\ Searching
      /\ Known' = Known
  BY <1>1, <1>2 DEF Searching, Messages, CourseInv, Known
<1>6. CourseInv'
  <2> DEFINE p == Published[m.from]
  <2>1. heard \in Seq(KadResult) /\ p \in Seq(KadResult)
    BY <1>1, <1>3 DEF CourseInv
  <2>2. heard' = heard \o p \/ heard' = heard
    BY <1>2
  <2> HIDE DEF p
  <2>3. \A s, u \in Seq(KadResult) : s \o u \in Seq(KadResult)
    OBVIOUS
  <2>4. heard' \in Seq(KadResult)
    BY <2>1, <2>2, <2>3
  <2> QED BY <1>1, <1>5, <2>4 DEF CourseInv
<1>7. OutInv'
  BY <1>1, <1>5 DEF OutInv
<1>8. SourcesInv'
  <2>1. {u \in used' : u.kind = "sources"} = {u \in used : u.kind = "sources"}
    BY <1>2
  <2>2. \A f : SourcesHeard(f)' = SourcesHeard(f)
    BY <2>1, SourcesHeardStay
  <2>3. SourcesOfTheFile'
    BY <1>1, <2>2 DEF SourcesInv, SourcesOfTheFile, SourcesHeard
  <2>4. \A u \in used' : u.kind = "sources" => ~Searching' /\ u.goal \notin ToSet(todo')
    BY <1>1, <1>2, <1>5, <2>1 DEF SourcesInv
  <2> QED BY <1>5, <2>3, <2>4 DEF SourcesInv
<1>9. NetworkInv'
  <2>1. ASSUME NEW u \in used', u.kind \in {"boot", "contacts"}
        PROVE  u.from \in alive' /\ knows'[u.from] \subseteq Known'
    BY <1>1, <1>2, <1>5, <2>1 DEF NetworkInv
  <2>2. alive' \subseteq pool'
    BY <1>1, <1>2, <1>5 DEF NetworkInv
  <2>3. ASSUME NEW S \in SUBSET online', IsClosed(S)'
        PROVE  Known' \cap online' \subseteq S
    <3>1. IsClosed(S) /\ S \in SUBSET online
      BY <1>1, <2>3 DEF IsClosed
    <3> QED BY <1>1, <1>5, <3>1 DEF NetworkInv
  <2> QED BY <1>1, <1>5, <2>1, <2>2, <2>3 DEF NetworkInv
<1>10. FindsNearest'
  <2>1. InTime' <=> InTime
    BY <1>1, <1>2 DEF InTime
  <2>2. Reachable' = Reachable
    BY <1>1, ReachableStays
  <2>3. /\ stage' = stage /\ pool' = pool /\ queried' = queried /\ closest' = closest
        /\ (stage = "keys" /\ pool \subseteq queried /\ InTime =>
              (Reachable # {} => closest = Nearest(Keyword, Reachable, SearchNodes)))
    BY <1>1 DEF FindsNearest
  <2> QED BY <2>1, <2>2, <2>3 DEF FindsNearest
<1> QED BY <1>4, <1>6, <1>7, <1>8, <1>9, <1>10 DEF IInv

(* The loop of enrich_sources reads an answer about its file. *)
LEMMA SourcesStep ==
    ASSUME IInv, NEW m \in air, ReceiveSources(m), ReceiveFrame
    PROVE  IInv'
<1>1. /\ TypeOK /\ CourseInv /\ OutInv /\ SourcesInv
      /\ online' = online /\ knows' = knows /\ doSources' = doSources /\ stage' = stage
      /\ goal' = goal /\ round' = round /\ pool' = pool /\ queried' = queried
      /\ closest' = closest /\ contacts' = contacts /\ out' = out /\ todo' = todo
      /\ counted' = counted /\ air' = air
  BY DEF IInv, ReceiveFrame, envVars, resultVars
<1>2. /\ stage = "sources" /\ m.kind = "sources" /\ m.goal = goal
      /\ srcs' = srcs \cup Sources[m.from][m.goal] /\ used' = used \cup {m}
      /\ alive' = alive /\ told' = told /\ heard' = heard
  BY DEF ReceiveSources, IsForGoal
<1>3. TypeOK'
  BY <1>1, <1>2 DEF TypeOK, RoundsOf
<1>4. goal \in Files /\ ~Searching /\ Searching' = Searching /\ Messages' = Messages
  BY <1>1, <1>2, GoalsAssumption DEF Searching, Messages, CourseInv
<1>5. CourseInv'
  BY <1>1, <1>2, <1>4 DEF CourseInv
<1>6. OutInv'
  BY <1>1, <1>2, <1>4 DEF OutInv
<1>7. SourcesInv'
  <2>1. srcs' = SourcesHeard(goal)'
    <3>1. srcs = SourcesHeard(goal)
      BY <1>1, <1>2, <1>4 DEF SourcesInv
    <3>2. {u \in used' : u.kind = "sources" /\ u.goal = goal}
            = {u \in used : u.kind = "sources" /\ u.goal = goal} \cup {m}
      BY <1>2
    <3> QED BY <1>1, <1>2, <3>1, <3>2 DEF SourcesHeard
  <2>2. SourcesOfTheFile'
    <3> SUFFICES ASSUME NEW f \in DOMAIN counted
                 PROVE  counted[f] = Cardinality(SourcesHeard(f)')
      BY <1>1 DEF SourcesOfTheFile, SourcesHeard
    <3>1. f # goal
      BY <1>1, <1>2 DEF CourseInv
    <3>2. {u \in used' : u.kind = "sources" /\ u.goal = f}
            = {u \in used : u.kind = "sources" /\ u.goal = f}
      BY <1>2, <3>1
    <3>3. SourcesHeard(f)' = SourcesHeard(f)
      BY <3>2 DEF SourcesHeard
    <3>4. counted[f] = Cardinality(SourcesHeard(f))
      BY <1>1 DEF SourcesInv, SourcesOfTheFile, SourcesHeard
    <3> QED BY <3>3, <3>4
  <2>3. \A u \in used' : u.kind = "sources" => ~Searching' /\ u.goal \notin ToSet(todo')
    BY <1>1, <1>2, <1>4 DEF SourcesInv, CourseInv
  <2> QED BY <1>1, <2>1, <2>2, <2>3 DEF SourcesInv
<1>8. NetworkInv' /\ FindsNearest'
  BY <1>1, <1>2, <1>4 DEF NetworkInv, FindsNearest
<1> QED BY <1>3, <1>5, <1>6, <1>7, <1>8 DEF IInv
-----------------------------------------------------------------------------
(* The rounds of a lookup have a bound. *)
LEMMA RoundsAreBounded ==
    RoundsOf(goal) \in Nat \ {0}
BY BoundsAssumption DEF RoundsOf

(* The next round asks. *)
LEMMA AskRoundStep ==
    ASSUME IInv, AskRound
    PROVE  IInv'
<1>1. /\ TypeOK /\ CourseInv /\ OutInv /\ SourcesInv /\ NetworkInv
      /\ online' = online /\ knows' = knows /\ doSources' = doSources /\ goal' = goal
      /\ closest' = closest /\ alive' = alive /\ heard' = heard /\ srcs' = srcs
      /\ contacts' = contacts /\ out' = out /\ todo' = todo /\ counted' = counted
      /\ used' = used
  BY DEF IInv, AskRound, envVars, resultVars
<1>2. /\ stage \in {"boot", "round", "next"} /\ stage' = "round"
      /\ round < RoundsOf(goal) /\ round' = round + 1
      /\ pool' = Known /\ told' = {}
      /\ queried' = queried \cup Candidates
      /\ air' = air \cup {Answer("contacts", n, goal) : n \in Candidates \cap online}
  BY DEF AskRound, Looking, RoundLeft
<1>3. Candidates \subseteq Known /\ pool \subseteq Known /\ Known \subseteq Nodes
  BY <1>1, HoldersAreKnown DEF Known, TypeOK
<1>4. TypeOK'
  <2>1. round \in 0 .. RoundsOf(goal) /\ RoundsOf(goal)' = RoundsOf(goal)
    BY <1>1 DEF TypeOK, RoundsOf
  <2>2. round' \in 0 .. RoundsOf(goal)'
    BY <1>2, <2>1, RoundsAreBounded
  <2>3. stage' \in Window /\ stage' # "done" /\ stage # "done"
    BY <1>2 DEF Window
  <2> QED BY <1>1, <1>2, <1>3, <2>2, <2>3 DEF TypeOK
<1>5. Searching' = Searching /\ Messages' = Messages /\ Known' = Known
  BY <1>1, <1>2 DEF Searching, Messages, Known
<1>6. CourseInv'
  <2>1. goal \in Goals
    BY <1>1 DEF TypeOK
  <2>2. \A n \in online : Answer("contacts", n, goal) \in Messages
    BY <2>1 DEF Answer, Messages
  <2>3. air' \subseteq Messages'
    BY <1>1, <1>2, <1>5, <2>2 DEF CourseInv
  <2> QED BY <1>1, <1>2, <1>5, <2>3 DEF CourseInv
<1>7. OutInv'
  BY <1>1, <1>5 DEF OutInv
<1>8. SourcesInv'
  <2>1. \A f : SourcesHeard(f)' = SourcesHeard(f)
    BY <1>1, SourcesHeardStay
  <2> QED BY <1>1, <1>2, <1>5, <2>1 DEF SourcesInv, SourcesOfTheFile, SourcesHeard
<1>9. NetworkInv'
  <2> SUFFICES ASSUME Searching
               PROVE  (/\ \A n \in queried \cap online : Answer("contacts", n, Keyword) \in air
                       /\ \A u \in air : u.from \in pool
                       /\ alive \subseteq pool
                       /\ \A u \in used : u.kind \in {"boot", "contacts"} =>
                              u.from \in alive /\ knows[u.from] \subseteq Known
                       /\ \A S \in SUBSET online :
                              IsClosed(S) => Known \cap online \subseteq S)'
    BY <1>5 DEF NetworkInv
  <2>1. \A n \in queried' \cap online' : Answer("contacts", n, Keyword) \in air'
    BY <1>1, <1>2 DEF NetworkInv, Searching
  <2>2. \A u \in air' : u.from \in pool'
    <3>1. \A n \in Candidates \cap online : Answer("contacts", n, goal).from = n
      BY DEF Answer
    <3> QED BY <1>1, <1>2, <1>3, <3>1 DEF NetworkInv
  <2>3. alive' \subseteq pool'
    BY <1>1, <1>2, <1>3 DEF NetworkInv
  <2>4. \A u \in used' : u.kind \in {"boot", "contacts"} =>
            u.from \in alive' /\ knows'[u.from] \subseteq Known'
    BY <1>1, <1>5 DEF NetworkInv
  <2>5. ASSUME NEW S \in SUBSET online', IsClosed(S)'
        PROVE  Known' \cap online' \subseteq S
    <3>1. IsClosed(S) /\ S \in SUBSET online
      BY <1>1, <2>5 DEF IsClosed
    <3> QED BY <1>1, <1>5, <3>1 DEF NetworkInv
  <2> QED BY <2>1, <2>2, <2>3, <2>4, <2>5
<1>10. FindsNearest'
  BY <1>2 DEF FindsNearest
<1> QED BY <1>4, <1>6, <1>7, <1>8, <1>9, <1>10 DEF IInv

(* Once everybody known was asked and every answer was made use of, the    *)
(* nodes that are alive are the ones that can be reached: they hold the    *)
(* seeds that answer and are closed under giving away contacts, and any    *)
(* other such set holds them.                                              *)
LEMMA AliveIsReachable ==
    ASSUME TypeOK, NetworkInv, Searching, Known \subseteq queried,
           \A m \in air : m.kind \in {"boot", "contacts"} /\ m.goal = Keyword => m \in used
    PROVE  Reachable = Known \cap alive
<1>1. alive \subseteq Known \cap online /\ Seeds \subseteq Known /\ pool \subseteq Known
  BY DEF TypeOK, NetworkInv, Known
<1>2. ASSUME NEW n \in Known \cap online
      PROVE  n \in alive /\ knows[n] \subseteq Known
  <2> DEFINE m == Answer("contacts", n, Keyword)
  <2>1. m \in air
    BY <1>2 DEF NetworkInv
  <2>2. m.kind = "contacts" /\ m.goal = Keyword /\ m.from = n
    BY DEF Answer
  <2> HIDE DEF m
  <2>3. m \in used
    BY <2>1, <2>2
  <2> QED BY <2>2, <2>3 DEF NetworkInv
<1>3. alive \in SUBSET online /\ IsClosed(alive)
  BY <1>1, <1>2 DEF IsClosed
<1>4. \A S \in SUBSET online : IsClosed(S) => alive \subseteq S
  BY <1>1 DEF NetworkInv
<1>5. \A n : n \in Reachable <=> n \in online /\ \A S \in SUBSET online : IsClosed(S) => n \in S
  BY Zenon DEF Reachable, IsClosed
<1>6. Reachable = alive
  BY <1>3, <1>4, <1>5
<1> QED BY <1>1, <1>6

(* The search request is sent. *)
LEMMA AskHoldersStep ==
    ASSUME IInv, AskHolders
    PROVE  IInv'
<1> DEFINE kind == IF goal = Keyword THEN "files" ELSE "sources"
<1>1. /\ TypeOK /\ CourseInv /\ OutInv /\ SourcesInv /\ NetworkInv
      /\ online' = online /\ knows' = knows /\ doSources' = doSources /\ goal' = goal
      /\ round' = round /\ queried' = queried /\ alive' = alive /\ heard' = heard
      /\ srcs' = srcs /\ contacts' = contacts /\ out' = out /\ todo' = todo
      /\ counted' = counted /\ used' = used
  BY DEF IInv, AskHolders, envVars, resultVars
<1>2. /\ stage \in {"boot", "round", "next"}
      /\ stage' = IF goal = Keyword THEN "keys" ELSE "sources"
      /\ pool' = Known /\ told' = {} /\ closest' = Holders
      /\ air' = air \cup {Answer(kind, n, goal) : n \in Holders \cap online}
  BY DEF AskHolders, Looking
<1>3. Holders \subseteq Known /\ pool \subseteq Known /\ Known \subseteq Nodes
  BY <1>1, HoldersAreKnown DEF Known, TypeOK
<1>4. TypeOK'
  <2>1. stage' \in Window /\ stage' # "done" /\ stage # "done"
    BY <1>2 DEF Window
  <2> HIDE DEF kind
  <2> QED BY <1>1, <1>2, <1>3, <2>1 DEF TypeOK, RoundsOf
<1>5. Searching' = Searching /\ Messages' = Messages /\ Known' = Known
  BY <1>1, <1>2 DEF Searching, Messages, Known
<1>6. CourseInv'
  <2>1. goal \in Goals
    BY <1>1 DEF TypeOK
  <2>2. \A n \in online : Answer(kind, n, goal) \in Messages
    BY <2>1, GoalsAssumption DEF Answer, Messages, Goals
  <2> HIDE DEF kind
  <2>3. air' \subseteq Messages'
    BY <1>1, <1>2, <1>5, <2>2 DEF CourseInv
  <2>4. goal \in Files \/ goal = Keyword
    BY <2>1 DEF Goals
  <2> QED BY <1>1, <1>2, <1>5, <2>3, <2>4 DEF CourseInv
<1>7. OutInv'
  BY <1>1, <1>5 DEF OutInv
<1>8. SourcesInv'
  <2>1. \A f : SourcesHeard(f)' = SourcesHeard(f)
    BY <1>1, SourcesHeardStay
  <2> QED BY <1>1, <1>2, <1>5, <2>1 DEF SourcesInv, SourcesOfTheFile, SourcesHeard
<1>9. NetworkInv'
  <2> SUFFICES ASSUME Searching
               PROVE  (/\ \A n \in queried \cap online : Answer("contacts", n, Keyword) \in air
                       /\ \A u \in air : u.from \in pool
                       /\ alive \subseteq pool
                       /\ \A u \in used : u.kind \in {"boot", "contacts"} =>
                              u.from \in alive /\ knows[u.from] \subseteq Known
                       /\ \A S \in SUBSET online :
                              IsClosed(S) => Known \cap online \subseteq S)'
    BY <1>5 DEF NetworkInv
  <2>1. \A n \in queried' \cap online' : Answer("contacts", n, Keyword) \in air'
    BY <1>1, <1>2 DEF NetworkInv
  <2>2. \A u \in air' : u.from \in pool'
    <3>1. \A n \in Holders \cap online : Answer(kind, n, goal).from = n
      BY DEF Answer
    <3> HIDE DEF kind
    <3> QED BY <1>1, <1>2, <1>3, <3>1 DEF NetworkInv
  <2>3. alive' \subseteq pool'
    BY <1>1, <1>2, <1>3 DEF NetworkInv
  <2>4. \A u \in used' : u.kind \in {"boot", "contacts"} =>
            u.from \in alive' /\ knows'[u.from] \subseteq Known'
    BY <1>1, <1>5 DEF NetworkInv
  <2>5. ASSUME NEW S \in SUBSET online', IsClosed(S)'
        PROVE  Known' \cap online' \subseteq S
    <3>1. IsClosed(S) /\ S \in SUBSET online
      BY <1>1, <2>5 DEF IsClosed
    <3> QED BY <1>1, <1>5, <3>1 DEF NetworkInv
  <2> QED BY <2>1, <2>2, <2>3, <2>4, <2>5
<1>10. FindsNearest'
  <2> SUFFICES ASSUME stage' = "keys", pool' \subseteq queried', InTime', Reachable' # {}
               PROVE  closest' = Nearest(Keyword, Reachable', SearchNodes)
    BY DEF FindsNearest, Nearest
  <2>1. goal = Keyword /\ Searching /\ Known \subseteq queried
    BY <1>1, <1>2 DEF Searching
  <2>2. \A m \in air : m.kind \in {"boot", "contacts"} /\ m.goal = Keyword => m \in used
    BY <1>1, <1>2 DEF InTime
  <2>3. Reachable = Known \cap alive
    BY <1>1, <2>1, <2>2, AliveIsReachable
  <2>4. Reachable' = Reachable
    BY <1>1, ReachableStays
  <2> HIDE DEF kind
  <2>5. closest' = Nearest(Keyword, Known \cap alive, SearchNodes)
    BY <1>2, <2>1, <2>3, <2>4 DEF Holders
  <2> QED BY <2>3, <2>4, <2>5
<1> QED BY <1>4, <1>6, <1>7, <1>8, <1>9, <1>10 DEF IInv
-----------------------------------------------------------------------------
(* The loop of enrich_sources ends, or goes on with the first of the files. *)
LEMMA LookUpNextParts ==
    ASSUME NEW files \in Seq(Files), IsInjective(files), NEW base, LookUpNext(files, base)
    PROVE  \/ /\ stage' = "done" /\ files = <<>>
              /\ UNCHANGED <<goal, round, pool, queried, closest, todo, srcs>>
           \/ /\ stage' = "next" /\ goal' \in ToSet(files) /\ goal' \in Files
              /\ todo' \in Seq(Files) /\ IsInjective(todo')
              /\ ToSet(todo') \subseteq ToSet(files) \ {goal'}
              /\ round' = 0 /\ pool' = base
              /\ queried' = {} /\ closest' = {} /\ srcs' = {}
<1>1. CASE files = <<>>
  BY <1>1 DEF LookUpNext
<1>2. CASE files # <<>>
  <2>1. /\ stage' = "next" /\ goal' = Head(files) /\ todo' = Tail(files)
        /\ round' = 0 /\ pool' = base /\ queried' = {} /\ closest' = {} /\ srcs' = {}
    BY <1>2 DEF LookUpNext
  <2> QED BY <1>2, <2>1, FirstFile
<1> QED BY <1>1, <1>2

(* The next file is another than those heard about before. *)
LEMMA NothingHeardYet ==
    ASSUME NEW f, \A m \in used : m.kind = "sources" => m.goal # f
    PROVE  SourcesHeard(f) = {}
<1>1. {u \in used : u.kind = "sources" /\ u.goal = f} = {}
  OBVIOUS
<1> QED BY <1>1 DEF SourcesHeard

(* The keyword search is over and answered. *)
LEMMA EndKeywordStep ==
    ASSUME IInv, EndKeywordSearch
    PROVE  IInv'
<1>1. /\ TypeOK /\ CourseInv /\ OutInv /\ SourcesInv
      /\ online' = online /\ knows' = knows /\ doSources' = doSources
      /\ alive' = alive /\ told' = told /\ heard' = heard /\ counted' = counted
      /\ air' = air /\ used' = used
  BY DEF IInv, EndKeywordSearch, envVars
<1>2. stage = "keys" /\ out' = Filtered(Dedup(heard)) /\ contacts' = pool
  BY DEF EndKeywordSearch
<1>3. PICK ranked \in Ranking(out') :
          LookUpNext(IF doSources
                       THEN SubSeq(ranked, 1, IF Len(ranked) < EnrichTop
                                                THEN Len(ranked) ELSE EnrichTop)
                       ELSE <<>>,
                     pool)
  BY DEF EndKeywordSearch
<1> DEFINE k == IF Len(ranked) < EnrichTop THEN Len(ranked) ELSE EnrichTop
           files == IF doSources THEN SubSeq(ranked, 1, k) ELSE <<>>
<1>4. DOMAIN out' \subseteq Files /\ IsFiniteSet(DOMAIN out')
  <2>1. heard \in Seq(KadResult)
    BY <1>1 DEF CourseInv
  <2> QED BY <1>2, <2>1, AnswerLists
<1>5. files \in Seq(Files) /\ IsInjective(files) /\ ToSet(files) \subseteq DOMAIN out'
  <2>1. CASE doSources
    <3>1. ranked \in SetToSeqs(DOMAIN out')
      BY DEF Ranking
    <3>2. k \in Nat /\ k <= Len(ranked)
      <4>1. Cardinality(DOMAIN out') \in Nat
        BY <1>4, FS_CardinalityType
      <4>2. ranked \in [1 .. Cardinality(DOMAIN out') -> DOMAIN out']
        BY <3>1 DEF SetToSeqs
      <4>3. Len(ranked) \in Nat
        BY <4>1, <4>2
      <4> QED BY <4>3, BoundsAssumption
    <3> HIDE DEF k
    <3> QED BY <1>4, <2>1, <3>1, <3>2, RankedFiles
  <2>2. CASE ~doSources
    BY <2>2 DEF IsInjective, ToSet
  <2> QED BY <2>1, <2>2
<1>6. LookUpNext(files, pool)
  BY <1>3
<1> HIDE DEF files, k
<1>7. \/ /\ stage' = "done" /\ files = <<>>
         /\ goal' = goal /\ round' = round /\ pool' = pool /\ queried' = queried
         /\ closest' = closest /\ todo' = todo /\ srcs' = srcs
      \/ /\ stage' = "next" /\ goal' \in ToSet(files) /\ goal' \in Files
         /\ todo' \in Seq(Files) /\ IsInjective(todo')
         /\ ToSet(todo') \subseteq ToSet(files) \ {goal'}
         /\ round' = 0 /\ pool' = pool
         /\ queried' = {} /\ closest' = {} /\ srcs' = {}
  BY <1>5, <1>6, LookUpNextParts
<1>8. /\ goal = Keyword /\ Searching /\ ~Searching' /\ Messages' = Messages
      /\ todo = <<>> /\ counted = <<>>
  <2>1. goal = Keyword /\ Searching
    BY <1>1, <1>2 DEF CourseInv, Searching
  <2>2. ~Searching'
    BY <1>7, GoalsAssumption DEF Searching
  <2> QED BY <1>1, <2>1, <2>2 DEF CourseInv, Messages
<1>9. TypeOK'
  <2>1. stage' \in Window \cup {"next", "done"} /\ goal' \in Goals
    BY <1>1, <1>7 DEF TypeOK, Goals
  <2>2. round' \in 0 .. RoundsOf(goal)'
    <3>1. CASE stage' = "done"
      BY <1>1, <1>7, <3>1 DEF TypeOK, RoundsOf
    <3>2. CASE stage' = "next"
      BY <1>7, <3>2, BoundsAssumption DEF RoundsOf
    <3> QED BY <1>7, <3>1, <3>2
  <2>3. pool' = pool /\ queried' \subseteq pool /\ closest' \subseteq pool
    BY <1>1, <1>7 DEF TypeOK
  <2>4. contacts' # {} /\ ~(goal' = Keyword /\ stage' # "done")
    BY <1>1, <1>2, <1>8, NodesAssumption DEF TypeOK, Searching
  <2>5. DOMAIN counted' \subseteq DOMAIN out' /\ DOMAIN out' \subseteq Files
    BY <1>1, <1>4, <1>8
  <2> QED BY <1>1, <1>2, <2>1, <2>2, <2>3, <2>4, <2>5 DEF TypeOK
<1>10. CourseInv'
  <2>1. todo' \in Seq(Files) /\ IsInjective(todo') /\ ToSet(todo') \subseteq DOMAIN out'
    <3>1. ToSet(<<>>) = {} /\ IsInjective(<<>>) /\ <<>> \in Seq(Files)
      BY DEF ToSet, IsInjective
    <3> QED BY <1>5, <1>7, <1>8, <3>1
  <2>2. DOMAIN counted' = {}
    BY <1>1, <1>8
  <2>3. stage' # "done" => goal' \notin ToSet(todo') /\ goal' \in DOMAIN out'
    BY <1>5, <1>7
  <2> QED BY <1>1, <1>7, <1>8, <2>1, <2>2, <2>3 DEF CourseInv
<1>11. OutInv'
  BY <1>1, <1>2, <1>8 DEF OutInv
<1>12. SourcesInv'
  <2>1. \A m \in used : m.kind # "sources"
    BY <1>1, <1>8 DEF SourcesInv
  <2>2. \A f : SourcesHeard(f)' = {}
    <3>1. \A f : SourcesHeard(f)' = SourcesHeard(f)
      BY <1>1, SourcesHeardStay
    <3> QED BY <2>1, <3>1, NothingHeardYet
  <2>3. SourcesOfTheFile'
    BY <1>1, <1>8 DEF SourcesOfTheFile
  <2> QED BY <1>1, <1>7, <2>1, <2>2, <2>3 DEF SourcesInv
<1>13. NetworkInv' /\ FindsNearest'
  BY <1>7, <1>8 DEF NetworkInv, FindsNearest
<1> QED BY <1>9, <1>10, <1>11, <1>12, <1>13 DEF IInv

(* The sources of one file are counted. *)
LEMMA EndSourceStep ==
    ASSUME IInv, EndSourceSearch
    PROVE  IInv'
<1>1. /\ TypeOK /\ CourseInv /\ OutInv /\ SourcesInv
      /\ online' = online /\ knows' = knows /\ doSources' = doSources
      /\ contacts' = contacts /\ out' = out /\ alive' = alive /\ told' = told
      /\ heard' = heard /\ air' = air /\ used' = used
  BY DEF IInv, EndSourceSearch, envVars
<1>2. /\ stage = "sources" /\ counted' = Put(counted, goal, Cardinality(srcs))
      /\ LookUpNext(todo, contacts)
  BY DEF EndSourceSearch
<1>3. /\ goal \in Files /\ ~Searching /\ goal \in DOMAIN out
      /\ goal \notin ToSet(todo) \cup DOMAIN counted
      /\ todo \in Seq(Files) /\ IsInjective(todo) /\ ToSet(todo) \subseteq DOMAIN out
  BY <1>1, <1>2, GoalsAssumption DEF CourseInv, Searching
<1>4. \/ /\ stage' = "done" /\ todo = <<>>
         /\ goal' = goal /\ round' = round /\ pool' = pool /\ queried' = queried
         /\ closest' = closest /\ todo' = todo /\ srcs' = srcs
      \/ /\ stage' = "next" /\ goal' \in ToSet(todo) /\ goal' \in Files
         /\ todo' \in Seq(Files) /\ IsInjective(todo')
         /\ ToSet(todo') \subseteq ToSet(todo) \ {goal'}
         /\ round' = 0 /\ pool' = contacts
         /\ queried' = {} /\ closest' = {} /\ srcs' = {}
  BY <1>2, <1>3, LookUpNextParts
<1>5. /\ DOMAIN counted' = DOMAIN counted \cup {goal}
      /\ counted'[goal] = Cardinality(srcs)
      /\ \A f \in DOMAIN counted : counted'[f] = counted[f]
  BY <1>2, <1>3 DEF Put
<1>6. ~Searching' /\ Messages' = Messages
  BY <1>1, <1>3, <1>4, GoalsAssumption DEF Searching, Messages
<1>7. TypeOK'
  <2>1. stage' \in Window \cup {"next", "done"} /\ goal' \in Goals
    BY <1>1, <1>4 DEF TypeOK, Goals
  <2>2. round' \in 0 .. RoundsOf(goal)'
    <3>1. CASE stage' = "done"
      BY <1>1, <1>4, <3>1 DEF TypeOK, RoundsOf
    <3>2. CASE stage' = "next"
      BY <1>4, <3>2, BoundsAssumption DEF RoundsOf
    <3> QED BY <1>4, <3>1, <3>2
  <2>3. contacts # {} /\ Seeds \subseteq contacts /\ contacts \subseteq Nodes
    BY <1>1, <1>3, NodesAssumption DEF TypeOK, Searching
  <2>4. /\ Seeds \subseteq pool' /\ pool' \cup told \subseteq Nodes
        /\ queried' \subseteq pool' /\ closest' \subseteq pool'
    BY <1>1, <1>4, <2>3 DEF TypeOK
  <2>5. DOMAIN counted' \subseteq DOMAIN out'
    BY <1>1, <1>3, <1>5 DEF TypeOK
  <2>6. ~(goal' = Keyword /\ stage' # "done")
    BY <1>6 DEF Searching
  <2> QED BY <1>1, <2>1, <2>2, <2>3, <2>4, <2>5, <2>6 DEF TypeOK
<1>8. CourseInv'
  <2>1. todo' \in Seq(Files) /\ IsInjective(todo') /\ ToSet(todo') \subseteq ToSet(todo)
    BY <1>3, <1>4
  <2>2. stage' # "done" =>
            goal' \in DOMAIN out /\ goal' \notin ToSet(todo') \cup DOMAIN counted'
    BY <1>1, <1>3, <1>4, <1>5 DEF CourseInv
  <2>3. ToSet(todo') \cap DOMAIN counted' = {}
    BY <1>1, <1>3, <1>5, <2>1 DEF CourseInv
  <2> QED BY <1>1, <1>3, <1>4, <1>6, <2>1, <2>2, <2>3 DEF CourseInv
<1>9. OutInv'
  BY <1>1, <1>3, <1>6 DEF OutInv
<1>10. SourcesInv'
  <2>1. \A f : SourcesHeard(f)' = SourcesHeard(f)
    BY <1>1, SourcesHeardStay
  <2>2. \A m \in used : m.kind = "sources" => m.goal \notin ToSet(todo)
    BY <1>1 DEF SourcesInv
  <2>3. SourcesOfTheFile'
    <3> SUFFICES ASSUME NEW f \in DOMAIN counted'
                 PROVE  counted'[f] = Cardinality(SourcesHeard(f))
      BY <2>1 DEF SourcesOfTheFile, SourcesHeard
    <3>1. CASE f = goal
      <4>1. srcs = SourcesHeard(goal)
        BY <1>1, <1>2, <1>3 DEF SourcesInv
      <4> QED BY <1>5, <3>1, <4>1
    <3>2. CASE f # goal
      BY <1>1, <1>5, <3>2 DEF SourcesInv, SourcesOfTheFile, SourcesHeard
    <3> QED BY <3>1, <3>2
  <2>4. ASSUME stage' # "done" PROVE srcs' = SourcesHeard(goal)'
    <3>1. goal' \in ToSet(todo) /\ srcs' = {}
      BY <1>4, <2>4
    <3>2. {u \in used' : u.kind = "sources" /\ u.goal = goal'} = {}
      BY <1>1, <2>2, <3>1
    <3> QED BY <3>1, <3>2 DEF SourcesHeard
  <2>5. \A m \in used' : m.kind = "sources" => ~Searching' /\ m.goal \notin ToSet(todo')
    <3>1. ToSet(todo') \subseteq ToSet(todo)
      BY <1>4
    <3> QED BY <1>1, <1>6, <2>2, <3>1
  <2> QED BY <2>3, <2>4, <2>5 DEF SourcesInv
<1>11. NetworkInv' /\ FindsNearest'
  BY <1>4, <1>6 DEF NetworkInv, FindsNearest
<1> QED BY <1>7, <1>8, <1>9, <1>10, <1>11 DEF IInv
-----------------------------------------------------------------------------
(* The search starts with the bootstrap sent to the seeds. *)
LEMMA InitHolds == Init => IInv
<1> SUFFICES ASSUME Init
             PROVE  IInv
  OBVIOUS
<1>1. /\ online \in SUBSET Nodes /\ knows \in Networks /\ doSources \in BOOLEAN
      /\ stage = "boot" /\ goal = Keyword /\ round = 0 /\ pool = Seeds
      /\ air = {Answer("boot", n, Keyword) : n \in Seeds \cap online}
      /\ contacts = {} /\ queried = {} /\ closest = {} /\ alive = {} /\ told = {}
      /\ heard = <<>> /\ out = <<>> /\ todo = <<>> /\ counted = <<>> /\ used = {}
  BY DEF Init
<1>2. TypeOK
  <2>1. round \in 0 .. RoundsOf(goal)
    BY <1>1, RoundsAreBounded
  <2> QED BY <1>1, <2>1, NodesAssumption DEF TypeOK, Window, Goals
<1>3. Searching
  BY <1>1 DEF Searching
<1>4. CourseInv
  <2>1. air \subseteq Messages
    BY <1>1 DEF Answer, Messages
  <2>2. heard \in Seq(KadResult) /\ todo \in Seq(Files)
    BY <1>1
  <2>3. IsInjective(todo) /\ ToSet(todo) = {} /\ DOMAIN counted = {}
    BY <1>1 DEF IsInjective, ToSet
  <2> QED BY <1>1, <1>3, <2>1, <2>2, <2>3 DEF CourseInv
<1>5. OutInv
  BY <1>1, <1>3 DEF OutInv
<1>6. SourcesInv
  BY <1>1, <1>3 DEF SourcesInv, SourcesOfTheFile
<1>7. NetworkInv
  <2>1. \A m \in air : m.from \in pool
    BY <1>1 DEF Answer
  <2> QED BY <1>1, <2>1 DEF NetworkInv, IsClosed, Known
<1>8. FindsNearest
  BY <1>1 DEF FindsNearest
<1> QED BY <1>2, <1>4, <1>5, <1>6, <1>7, <1>8 DEF IInv

(* Nothing happens. *)
LEMMA StutterHolds ==
    ASSUME IInv, UNCHANGED vars
    PROVE  IInv'
<1>1. /\ online' = online /\ knows' = knows /\ doSources' = doSources /\ stage' = stage
      /\ goal' = goal /\ round' = round /\ pool' = pool /\ queried' = queried
      /\ closest' = closest /\ alive' = alive /\ told' = told /\ heard' = heard
      /\ srcs' = srcs /\ contacts' = contacts /\ out' = out /\ todo' = todo
      /\ counted' = counted /\ air' = air /\ used' = used
  BY DEF vars, envVars, resultVars
<1>2. Searching' = Searching /\ Messages' = Messages /\ Known' = Known
  BY <1>1 DEF Searching, Messages, Known
<1>3. TypeOK' /\ CourseInv' /\ OutInv'
  BY <1>1, <1>2 DEF IInv, TypeOK, RoundsOf, CourseInv, OutInv
<1>4. SourcesInv'
  <2>1. \A f : SourcesHeard(f)' = SourcesHeard(f)
    BY <1>1, SourcesHeardStay
  <2> QED BY <1>1, <1>2, <2>1 DEF IInv, SourcesInv, SourcesOfTheFile, SourcesHeard
<1>5. NetworkInv'
  <2>1. \A S : IsClosed(S)' <=> IsClosed(S)
    BY <1>1 DEF IsClosed
  <2> QED BY <1>1, <1>2, <2>1 DEF IInv, NetworkInv
<1>6. FindsNearest'
  <2>1. (InTime' <=> InTime) /\ Reachable' = Reachable
    BY <1>1, ReachableStays DEF InTime
  <2> QED BY <1>1, <2>1 DEF IInv, FindsNearest
<1> QED BY <1>3, <1>4, <1>5, <1>6 DEF IInv

(* Every step of the search keeps the invariant. *)
LEMMA NextHolds == IInv /\ [Next]_vars => IInv'
<1> SUFFICES ASSUME IInv, [Next]_vars
             PROVE  IInv'
  OBVIOUS
<1>1. CASE Receive
  <2>1. ReceiveFrame
    BY <1>1 DEF Receive, ReceiveFrame
  <2>2. PICK m \in air : ReceiveContacts(m) \/ ReceiveResults(m) \/ ReceiveSources(m)
    BY <1>1 DEF Receive
  <2> QED BY <2>1, <2>2, ContactsStep, ResultsStep, SourcesStep
<1>2. CASE AskRound
  BY <1>2, AskRoundStep
<1>3. CASE AskHolders
  BY <1>3, AskHoldersStep
<1>4. CASE EndKeywordSearch
  BY <1>4, EndKeywordStep
<1>5. CASE EndSourceSearch
  BY <1>5, EndSourceStep
<1>6. CASE UNCHANGED vars
  BY <1>6, StutterHolds
<1> QED BY <1>1, <1>2, <1>3, <1>4, <1>5, <1>6 DEF Next, EndWindow

(* The inductive invariant of the search. *)
THEOREM Invariant == Spec => []IInv
BY InitHolds, NextHolds, PTL DEF Spec

(* A dict that is right about the results heard gives the answer its       *)
(* figures.                                                                *)
LEMMA AnswersAreRight ==
    ASSUME heard \in Seq(KadResult), out = Filtered(Dedup(heard))
    PROVE  KeepsHighest
<1> DEFINE d == Dedup(heard)
           n == Len(heard)
<1>1. /\ DOMAIN d = {heard[i].hash : i \in 1 .. n}
      /\ \A h \in DOMAIN d : \E i \in 1 .. n : d[h] = heard[i] /\ heard[i].hash = h
      /\ \A i \in 1 .. n : heard[i].sources <= d[heard[i].hash].sources
  BY DedupKeepsHighest DEF Holds
<1>2. /\ DOMAIN out = {g \in DOMAIN d : d[g].named}
      /\ \A h \in DOMAIN out : out[h] = d[h].sources
  BY DEF Filtered
<1>3. \A q : q \in ToSet(heard) <=> \E i \in 1 .. n : q = heard[i]
  BY DEF ToSet
<1> HIDE DEF d, n
<1> SUFFICES ASSUME NEW r \in ToSet(heard)
             PROVE  LET same == {q \in ToSet(heard) : q.hash = r.hash}
                        best == {q \in same : \A p \in same : p.sources <= q.sources}
                    IN  /\ r.hash \in DOMAIN out =>
                               \E q \in best : q.named /\ out[r.hash] = q.sources
                        /\ r.hash \notin DOMAIN out => \E q \in best : ~q.named
  BY DEF KeepsHighest
<1> DEFINE q == d[r.hash]
<1>4. r.hash \in DOMAIN d
  BY <1>1, <1>3
<1>5. q \in ToSet(heard) /\ q.hash = r.hash
  BY <1>1, <1>3, <1>4
<1>6. \A p \in ToSet(heard) : p.hash = r.hash => p.sources <= q.sources
  BY <1>1, <1>3
<1>7. r.hash \in DOMAIN out => q.named /\ out[r.hash] = q.sources
  BY <1>2
<1>8. r.hash \notin DOMAIN out => ~q.named
  BY <1>2, <1>4
<1> HIDE DEF q
<1> QED BY <1>5, <1>6, <1>7, <1>8
-----------------------------------------------------------------------------
(* Every lookup keeps its types: the contacts of a lookup start from the   *)
(* seeds, only nodes that answer are alive, and sources are counted for    *)
(* files of the answer only.                                               *)
THEOREM Types == Spec => []TypeOK
<1>1. IInv => TypeOK
  BY DEF IInv
<1> QED BY Invariant, <1>1, PTL

(* If every answer came in time and everybody known was asked, the keyword *)
(* is looked for at the nodes nearest to it among all that can be reached, *)
(* however the network is linked and whichever nodes are silent.           *)
THEOREM NearestAreFound == Spec => []FindsNearest
<1>1. IInv => FindsNearest
  BY DEF IInv
<1> QED BY Invariant, <1>1, PTL

(* "Dedup by hash, keeping the highest published availability", whatever   *)
(* was published and in whatever order it came.                            *)
THEOREM HighestIsKept == Spec => []KeepsHighest
<1>1. IInv => KeepsHighest
  <2> SUFFICES ASSUME IInv, contacts # {}
               PROVE  KeepsHighest
    BY DEF KeepsHighest
  <2>1. ~Searching
    BY DEF IInv, TypeOK, Searching
  <2> QED BY <2>1, AnswersAreRight DEF IInv, CourseInv, OutInv
<1> QED BY Invariant, <1>1, PTL

(* kad_sources counts the distinct clients that answers about this very    *)
(* file named, also when answers about the file before come late.          *)
THEOREM SourcesAreOfTheFile == Spec => []SourcesOfTheFile
<1>1. IInv => SourcesOfTheFile
  BY DEF IInv, SourcesInv
<1> QED BY Invariant, <1>1, PTL
=============================================================================
