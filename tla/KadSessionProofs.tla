--------------------------- MODULE KadSessionProofs ---------------------------
(***************************************************************************)
(* Proofs about KadSession, for any number of callers, contacts and timers *)
(* and any bound of the pool: the pool stays a dict of at most _MAX_POOL   *)
(* contacts, and concurrent searches lose none of each other's.  That the  *)
(* pool is discarded in the end is a liveness property and stays with the  *)
(* model checker.                                                          *)
(***************************************************************************)
EXTENDS KadSession, FiniteSetTheorems, TLAPS

IInv == TypeOK /\ NothingForgotten
-----------------------------------------------------------------------------
(* An order of a set of contacts has no repetition and exactly its members. *)
LEMMA OrderOfContacts ==
    ASSUME NEW S, S \subseteq Contacts, NEW s \in SetToSeqs(S)
    PROVE  s \in Seq(Contacts) /\ IsInjective(s) /\ Range(s) = S
<1>1. IsFiniteSet(S)
  BY ContactsAssumption, FS_Subset
<1>2. Cardinality(S) \in Nat
  BY <1>1, FS_CardinalityType
<1>3. s \in Injection(1 .. Cardinality(S), S)
  BY DEF SetToSeqs, Injection, IsInjective
<1>4. s \in Surjection(1 .. Cardinality(S), S)
  BY <1>1, <1>2, <1>3, FS_Injection, FS_Interval, FS_CardinalityType
<1>5. s \in Seq(Contacts) /\ Range(s) = S
  BY <1>2, <1>4 DEF Surjection, Range
<1> QED BY <1>3, <1>5 DEF Injection

(* Sequences of distinct members put together repeat none when they share  *)
(* none.                                                                   *)
LEMMA ConcatDistinct ==
    ASSUME NEW X, NEW s \in Seq(X), NEW u \in Seq(X),
           IsInjective(s), IsInjective(u), Range(s) \cap Range(u) = {}
    PROVE  /\ s \o u \in Seq(X) /\ IsInjective(s \o u)
           /\ Range(s \o u) = Range(s) \cup Range(u)
<1>1. /\ s \o u \in Seq(X) /\ Len(s \o u) = Len(s) + Len(u)
      /\ Len(s) \in Nat /\ Len(u) \in Nat
      /\ DOMAIN (s \o u) = 1 .. Len(s) + Len(u)
      /\ DOMAIN s = 1 .. Len(s) /\ DOMAIN u = 1 .. Len(u)
  OBVIOUS
<1>2. \A i \in 1 .. Len(s) : (s \o u)[i] = s[i] /\ s[i] \in Range(s)
  BY <1>1 DEF Range
<1>3. \A i \in Len(s) + 1 .. Len(s) + Len(u) :
          (s \o u)[i] = u[i - Len(s)] /\ u[i - Len(s)] \in Range(u)
  BY <1>1 DEF Range
<1>4. IsInjective(s \o u)
  <2> SUFFICES ASSUME NEW i \in DOMAIN (s \o u), NEW j \in DOMAIN (s \o u),
                      (s \o u)[i] = (s \o u)[j]
               PROVE  i = j
    BY DEF IsInjective
  <2>1. CASE i <= Len(s) /\ j <= Len(s)
    BY <1>1, <1>2, <2>1 DEF IsInjective
  <2>2. CASE i > Len(s) /\ j > Len(s)
    <3>1. i - Len(s) \in DOMAIN u /\ j - Len(s) \in DOMAIN u
      BY <1>1, <2>2
    <3>2. u[i - Len(s)] = u[j - Len(s)]
      BY <1>1, <1>3, <2>2
    <3>3. i - Len(s) = j - Len(s)
      BY <3>1, <3>2 DEF IsInjective
    <3> QED BY <1>1, <3>3
  <2>3. CASE i <= Len(s) /\ j > Len(s)
    BY <1>1, <1>2, <1>3, <2>3
  <2>4. CASE i > Len(s) /\ j <= Len(s)
    BY <1>1, <1>2, <1>3, <2>4
  <2> QED BY <1>1, <2>1, <2>2, <2>3, <2>4
<1>5. Range(s \o u) \subseteq Range(s) \cup Range(u)
  <2> SUFFICES ASSUME NEW i \in DOMAIN (s \o u) PROVE (s \o u)[i] \in Range(s) \cup Range(u)
    BY DEF Range
  <2> QED BY <1>1, <1>2, <1>3
<1>6. Range(s) \subseteq Range(s \o u)
  BY <1>1, <1>2 DEF Range
<1>7. Range(u) \subseteq Range(s \o u)
  <2> SUFFICES ASSUME NEW i \in DOMAIN u PROVE \E j \in DOMAIN (s \o u) : (s \o u)[j] = u[i]
    BY DEF Range
  <2>1. i + Len(s) \in DOMAIN (s \o u) /\ (s \o u)[i + Len(s)] = u[i]
    BY <1>1
  <2> QED BY <2>1
<1> QED BY <1>1, <1>4, <1>5, <1>6, <1>7

(* A sequence of distinct contacts is as long as its set of contacts is    *)
(* large.                                                                  *)
LEMMA LengthOfDistinct ==
    ASSUME NEW s \in Seq(Contacts), IsInjective(s)
    PROVE  Cardinality(Range(s)) = Len(s)
<1>1. s \in Bijection(1 .. Len(s), Range(s)) /\ Len(s) \in Nat
  BY DEF Bijection, Injection, Surjection, Range
<1>2. IsFiniteSet(1 .. Len(s)) /\ Cardinality(1 .. Len(s)) = Len(s)
  <2>1. /\ IsFiniteSet(1 .. Len(s))
        /\ Cardinality(1 .. Len(s)) = IF 1 > Len(s) THEN 0 ELSE Len(s) - 1 + 1
    BY <1>1, FS_Interval
  <2> QED BY <1>1, <2>1
<1>3. ExistsBijection(1 .. Len(s), Range(s))
  BY <1>1 DEF ExistsBijection
<1> QED BY <1>2, <1>3, FS_Bijection

(* The update of a dict: what it held, and the contacts that are new. *)
LEMMA UpdateHoldsAll ==
    ASSUME NEW old \in Seq(Contacts), IsInjective(old),
           NEW first \in SUBSET Contacts, first \cap Range(old) = {},
           NEW later \in SUBSET Contacts, later \cap (first \cup Range(old)) = {},
           NEW f \in SetToSeqs(first), NEW l \in SetToSeqs(later)
    PROVE  /\ old \o f \o l \in Seq(Contacts) /\ IsInjective(old \o f \o l)
           /\ Range(old \o f \o l) = Range(old) \cup first \cup later
<1>1. f \in Seq(Contacts) /\ IsInjective(f) /\ Range(f) = first
  BY OrderOfContacts
<1>2. l \in Seq(Contacts) /\ IsInjective(l) /\ Range(l) = later
  BY OrderOfContacts
<1>3. /\ old \o f \in Seq(Contacts) /\ IsInjective(old \o f)
      /\ Range(old \o f) = Range(old) \cup first
  <2>1. Range(old) \cap Range(f) = {}
    BY <1>1
  <2>2. /\ old \o f \in Seq(Contacts) /\ IsInjective(old \o f)
        /\ Range(old \o f) = Range(old) \cup Range(f)
    BY <1>1, <2>1, ConcatDistinct
  <2> QED BY <1>1, <2>2
<1> DEFINE s == old \o f
<1>4. /\ s \in Seq(Contacts) /\ IsInjective(s)
      /\ Range(s) = Range(old) \cup first /\ Range(s) \cap Range(l) = {}
  BY <1>2, <1>3
<1> HIDE DEF s
<1>5. /\ s \o l \in Seq(Contacts) /\ IsInjective(s \o l)
      /\ Range(s \o l) = Range(s) \cup Range(l)
  BY <1>2, <1>4, ConcatDistinct
<1>6. Range(s \o l) = Range(old) \cup first \cup later
  BY <1>2, <1>4, <1>5
<1> QED BY <1>5, <1>6 DEF s

(* What the trimming leaves: distinct contacts, at most _MAX_POOL, and all *)
(* of them when they fit.                                                  *)
LEMMA NewestFits ==
    ASSUME NEW s \in Seq(Contacts), IsInjective(s)
    PROVE  /\ Newest(s) \in Seq(Contacts) /\ Len(Newest(s)) <= MaxPool
           /\ IsInjective(Newest(s))
           /\ Len(s) <= MaxPool => Newest(s) = s
<1>1. CASE Len(s) <= MaxPool
  BY <1>1, BoundsAssumption DEF Newest
<1>2. CASE Len(s) > MaxPool
  <2> DEFINE m == Len(s) - MaxPool
             w == SubSeq(s, m + 1, Len(s))
  <2>1. m \in Nat /\ Len(s) \in Nat /\ Len(s) - m = MaxPool /\ DOMAIN s = 1 .. Len(s)
    BY <1>2, BoundsAssumption
  <2>2. Newest(s) = w
    BY <1>2, BoundsAssumption DEF Newest
  <2>3. w \in Seq(Contacts) /\ Len(w) = MaxPool /\ DOMAIN w = 1 .. MaxPool
    BY <2>1, BoundsAssumption
  <2>4. \A i \in 1 .. MaxPool : w[i] = s[m + i] /\ m + i \in DOMAIN s
    BY <2>1, BoundsAssumption
  <2>5. IsInjective(w)
    <3> SUFFICES ASSUME NEW i \in 1 .. MaxPool, NEW j \in 1 .. MaxPool, w[i] = w[j]
                 PROVE  i = j
      BY <2>3 DEF IsInjective
    <3>1. m + i = m + j
      BY <2>4 DEF IsInjective
    <3> QED BY <2>1, <3>1, BoundsAssumption
  <2> QED BY <1>2, <2>2, <2>3, <2>5, BoundsAssumption
<1> QED BY <1>1, <1>2, BoundsAssumption
-----------------------------------------------------------------------------
(* What a merge leaves: distinct contacts, not too many, and, as long as   *)
(* they fit, what the pool held and all that the lookup found.             *)
LEMMA MergeKeeps ==
    ASSUME IInv, NEW t \in Threads, NEW told \in SUBSET Contacts, Merge(t, told)
    PROVE  /\ pool' \in Seq(Contacts) /\ Len(pool') <= MaxPool /\ IsInjective(pool')
           /\ Cardinality(merged \cup seeds[t] \cup told) <= MaxPool =>
                  Range(pool') = merged \cup seeds[t] \cup told
<1>1. pool \in Seq(Contacts) /\ IsInjective(pool) /\ seeds[t] \in SUBSET Contacts
  BY DEF IInv, TypeOK
<1>2. PICK f \in SetToSeqs(seeds[t] \ Range(pool)),
           l \in SetToSeqs(told \ (seeds[t] \cup Range(pool))) : pool' = Newest(pool \o f \o l)
  BY DEF Merge
<1> DEFINE s == pool \o f \o l
<1>3. /\ s \in Seq(Contacts) /\ IsInjective(s)
      /\ Range(s) = Range(pool) \cup seeds[t] \cup told
  <2> DEFINE first == seeds[t] \ Range(pool)
             later == told \ (seeds[t] \cup Range(pool))
  <2>1. /\ first \in SUBSET Contacts /\ first \cap Range(pool) = {}
        /\ later \in SUBSET Contacts /\ later \cap (first \cup Range(pool)) = {}
        /\ f \in SetToSeqs(first) /\ l \in SetToSeqs(later)
        /\ Range(pool) \cup first \cup later = Range(pool) \cup seeds[t] \cup told
    BY <1>1
  <2> HIDE DEF first, later
  <2> QED BY <1>1, <2>1, UpdateHoldsAll
<1>4. pool' = Newest(s)
  BY <1>2
<1> HIDE DEF s
<1>5. /\ pool' \in Seq(Contacts) /\ Len(pool') <= MaxPool /\ IsInjective(pool')
      /\ Len(s) <= MaxPool => pool' = s
  BY <1>3, <1>4, NewestFits
<1>6. ASSUME Cardinality(merged \cup seeds[t] \cup told) <= MaxPool
      PROVE  Range(pool') = merged \cup seeds[t] \cup told
  <2> DEFINE all == merged \cup seeds[t] \cup told
  <2>1. IsFiniteSet(all) /\ IsFiniteSet(merged)
    BY <1>1, ContactsAssumption, FS_Subset DEF IInv, TypeOK
  <2>2. Cardinality(merged) <= Cardinality(all) /\ Cardinality(merged) \in Nat
                                               /\ Cardinality(all) \in Nat
    BY <2>1, FS_Subset, FS_CardinalityType
  <2>3. Range(pool) = merged
    BY <1>6, <2>2, BoundsAssumption DEF IInv, NothingForgotten
  <2>4. Range(s) = all /\ Cardinality(Range(s)) = Len(s)
    BY <1>3, <2>3, LengthOfDistinct
  <2> QED BY <1>5, <1>6, <2>4
<1> QED BY <1>5, <1>6

(* The invariant holds at first: the pool is empty ... *)
LEMMA InitInvariant == Init => IInv
<1> SUFFICES ASSUME Init PROVE IInv
  OBVIOUS
<1>1. pool \in Seq(Contacts) /\ Len(pool) <= MaxPool /\ IsInjective(pool) /\ Range(pool) = {}
  BY BoundsAssumption DEF Init, IsInjective, Range
<1> QED BY <1>1 DEF Init, IInv, TypeOK, NothingForgotten

(* ... and every step keeps it. *)
LEMMA StepInvariant == IInv /\ [Next]_vars => IInv'
<1> SUFFICES ASSUME IInv, [Next]_vars PROVE IInv'
  OBVIOUS
<1> DEFINE PoolOK == /\ pool \in Seq(Contacts) /\ Len(pool) <= MaxPool /\ IsInjective(pool)
                     /\ merged \subseteq Contacts /\ NothingForgotten
<1>p. PoolOK
  BY DEF IInv, TypeOK
<1>u. UNCHANGED <<pool, merged>> => PoolOK'
  BY <1>p DEF NothingForgotten
<1>e. <<>> \in Seq(Contacts) /\ Len(<<>>) <= MaxPool /\ IsInjective(<<>>) /\ Range(<<>>) = {}
  BY BoundsAssumption DEF IsInjective, Range
<1>d. pool' = <<>> /\ merged' = {} => PoolOK'
  BY <1>e DEF NothingForgotten
<1>q. PoolOK' => /\ pool' \in Seq(Contacts) /\ Len(pool') <= MaxPool /\ IsInjective(pool')
                 /\ merged' \subseteq Contacts /\ NothingForgotten'
  OBVIOUS
<1> HIDE DEF PoolOK
<1>1. CASE UNCHANGED vars
  BY <1>1, <1>u, <1>q DEF vars, timerVars, IInv, TypeOK
<1>2. ASSUME NEW t \in Threads, BeginSearch(t) PROVE IInv'
  <2>1. PICK S \in SeedsFor : seeds' = [seeds EXCEPT ![t] = S]
    BY <1>2 DEF BeginSearch
  <2>2. S \subseteq Contacts
    BY NodesDatAssumption DEF SeedsFor, IInv, TypeOK, Range
  <2>3. PoolOK'
    BY <1>2, <1>u DEF BeginSearch
  <2> QED BY <1>2, <1>q, <2>1, <2>2, <2>3 DEF BeginSearch, CancelTimer, IInv, TypeOK
<1>3. ASSUME NEW t \in Threads, EndSearch(t) PROVE IInv'
  <2>1. PICK told \in SUBSET Contacts : AfterSearch(t, told)
    BY <1>3 DEF EndSearch
  <2>2. PoolOK'
    <3>1. CASE Merge(t, told) /\ merged' = merged \cup seeds[t] \cup told
      <4>1. /\ pool' \in Seq(Contacts) /\ Len(pool') <= MaxPool /\ IsInjective(pool')
            /\ Cardinality(merged') <= MaxPool => Range(pool') = merged'
        BY <3>1, MergeKeeps
      <4> QED BY <3>1, <4>1 DEF PoolOK, NothingForgotten, IInv, TypeOK
    <3>2. CASE pool' = <<>> /\ merged' = {}
      BY <3>2, <1>d
    <3> QED BY <2>1, <3>1, <3>2 DEF AfterSearch
  <2>3. timer' \in Timers \cup {None} /\ timers' \in [Timers -> {"free", "armed", "fired"}]
    BY <2>1 DEF AfterSearch, ScheduleTimer, timerVars, IInv, TypeOK
  <2> QED BY <1>3, <1>q, <2>2, <2>3 DEF EndSearch, IInv, TypeOK
<1>4. ASSUME NEW t \in Threads, SearchFails(t) PROVE IInv'
  BY <1>4, <1>u, <1>q DEF SearchFails, timerVars, IInv, TypeOK
<1>5. CASE Close
  BY <1>5, <1>d, <1>q DEF Close, CancelTimer, IInv, TypeOK
<1>6. ASSUME NEW m \in Timers, TimerFires(m) PROVE IInv'
  BY <1>6, <1>u, <1>q DEF TimerFires, IInv, TypeOK
<1>7. ASSUME NEW m \in Timers, IdleClear(m) PROVE IInv'
  BY <1>7, <1>d, <1>q DEF IdleClear, IInv, TypeOK
<1> QED BY <1>1, <1>2, <1>3, <1>4, <1>5, <1>6, <1>7 DEF Next

(* The pool is a dict of at most _MAX_POOL contacts. *)
THEOREM Types == Spec => []TypeOK
<1>1. IInv => TypeOK
  BY DEF IInv
<1> QED BY <1>1, InitInvariant, StepInvariant, PTL DEF Spec

(* Searches that run at the same time lose none of each other's contacts:  *)
(* each merges into the pool as it is when it ends, under the lock, and    *)
(* not as it was when it began.                                            *)
THEOREM SearchesLoseNothing == Spec => []NothingForgotten
<1>1. IInv => NothingForgotten
  BY DEF IInv
<1> QED BY <1>1, InitInvariant, StepInvariant, PTL DEF Spec
=============================================================================
