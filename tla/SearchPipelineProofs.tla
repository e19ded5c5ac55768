------------------------- MODULE SearchPipelineProofs -------------------------
(***************************************************************************)
(* Proofs about SearchPipeline, for any number of threads, queries and     *)
(* engines and any TTL: what the cache may serve, and what "all" answers.  *)
(* Results are cached under the query they were collected for, except in   *)
(* aMule when another thread starts a search meanwhile: how that goes      *)
(* wrong is the run search_amule_crossed, and that nothing else does is    *)
(* proved here, however the threads overlap.                               *)
(***************************************************************************)
EXTENDS SearchPipeline, TLAPS

Underway == {"lookup", "search", "settle", "poll", "fetch", "store"}

\* A request in progress has a query and has not been answered.
RequestInv ==
    \A t \in Threads : endpoint[t] # None => query[t] \in Queries /\ reply[t] = "none"

IInv == TypeOK /\ RequestInv
-----------------------------------------------------------------------------
(* The invariant holds at first. *)
LEMMA InitInvariant == Init => IInv
<1> SUFFICES ASSUME Init PROVE IInv
  OBVIOUS
<1>1. Failed \in Results
  BY DEF Failed, Results
<1>2. Missing \in [result : Results, age : 0 .. TTL + 1]
  BY <1>1, TTLAssumption DEF Missing
<1>3. \A a \in Tasks : endpoint[a[1]] \notin {a[2], "all"}
  BY NoneAssumption DEF Init, Tasks
<1>4. /\ core \in [by : Threads \cup {None}, q : Queries \cup {None},
                   phase : {"warm", "running", "done"}, new : BOOLEAN]
      /\ owed \in [q : Queries \cup {None}, new : BOOLEAN]
  BY DEF Init, NoDebt
<1> QED BY <1>1, <1>2, <1>3, <1>4 DEF Init, IInv, TypeOK, RequestInv

(* A task in progress belongs to a request that asks its engine. *)
LEMMA TaskOfRequest ==
    ASSUME IInv, NEW a \in Tasks, stage[a] # "off"
    PROVE  /\ a[1] \in Threads /\ a[2] \in Engines /\ a = <<a[1], a[2]>>
           /\ endpoint[a[1]] # None /\ query[a[1]] \in Queries
           /\ KeyOf(a) \in Keys /\ KeyOf(a)[1] = a[2] /\ KeyOf(a)[2] = query[a[1]]
<1>1. a[1] \in Threads /\ a[2] \in Engines /\ a = <<a[1], a[2]>>
  BY DEF Tasks
<1>2. endpoint[a[1]] # None
  BY <1>1, NoneAssumption DEF IInv, TypeOK
<1> QED BY <1>1, <1>2 DEF IInv, RequestInv, KeyOf, Keys

\* The step of one task within its request.
Moves(a) == \E from \in Underway, to \in Underway \cup {"done", "raised"} : Goes(a, from, to)

(* A task that moves on keeps the types of the requests and the tasks. *)
LEMMA MoveTypes ==
    ASSUME IInv, NEW a \in Tasks, Moves(a),
           got' \in [Tasks -> Results],
           cache' \in [Keys -> [result : Results, age : 0 .. TTL + 1]],
           core' \in [by : Threads \cup {None}, q : Queries \cup {None},
                      phase : {"warm", "running", "done"}, new : BOOLEAN],
           owed' \in [q : Queries \cup {None}, new : BOOLEAN],
           UNCHANGED changed
    PROVE  IInv'
<1>1. PICK from \in Underway, to \in Underway \cup {"done", "raised"} : Goes(a, from, to)
  BY DEF Moves
<1>2. UNCHANGED <<endpoint, query, reply>>
  BY <1>1 DEF Goes, requestVars
<1>3. /\ stage' = [stage EXCEPT ![a] = to] /\ stage[a] # "off" /\ to # "off"
      /\ to \in {"lookup", "search", "settle", "poll", "fetch", "store", "done", "raised"}
  BY <1>1 DEF Goes, Underway
<1>4. \A b \in Tasks : stage'[b] # "off" <=> stage[b] # "off"
  BY <1>3 DEF IInv, TypeOK
<1> QED BY <1>2, <1>3, <1>4 DEF IInv, TypeOK, RequestInv

(* A debt of the eD2k server is one of a query. *)
LEMMA OwesTypes ==
    ASSUME IInv, NEW a \in Tasks, stage[a] # "off", Owes(a)
    PROVE  owed' \in [q : Queries \cup {None}, new : BOOLEAN]
<1>1. [q |-> query[a[1]], new |-> changed] \in [q : Queries \cup {None}, new : BOOLEAN]
  BY TaskOfRequest DEF IInv, TypeOK
<1>2. NoDebt \in [q : Queries \cup {None}, new : BOOLEAN]
  BY DEF NoDebt
<1>3. owed \in [q : Queries \cup {None}, new : BOOLEAN]
  BY DEF IInv, TypeOK
<1>4. owed' \in {owed, NoDebt, [q |-> query[a[1]], new |-> changed]}
  BY DEF Owes
<1> QED BY <1>1, <1>2, <1>3, <1>4

(* What a step of a search does with the aMule core, the debts of the eD2k *)
(* server and the results is well typed.                                   *)
LEMMA ProceedTypes == ASSUME IInv, NEW a \in Tasks, Proceed(a) PROVE IInv'
<1>t. /\ got \in [Tasks -> Results]
      /\ cache \in [Keys -> [result : Results, age : 0 .. TTL + 1]]
      /\ core \in [by : Threads \cup {None}, q : Queries \cup {None},
                   phase : {"warm", "running", "done"}, new : BOOLEAN]
      /\ owed \in [q : Queries \cup {None}, new : BOOLEAN]
      /\ changed \in BOOLEAN
  BY DEF IInv, TypeOK
<1>e. Empty \in Results
  BY <1>t DEF Empty, Results
<1>m. \A from \in Underway, to \in Underway \cup {"done", "raised"} : Goes(a, from, to) => Moves(a)
  BY DEF Moves
<1>n. \A to : \A from \in Underway : Goes(a, from, to) => stage[a] # "off"
  BY DEF Goes, Underway
<1>1. CASE Hit(a)
  <2>1. Goes(a, "lookup", "done") /\ UNCHANGED <<cache, core, owed, changed>>
    BY <1>1 DEF Hit, networkVars
  <2>2. KeyOf(a) \in Keys
    BY <2>1, <1>n, TaskOfRequest DEF Underway
  <2>3. got' \in [Tasks -> Results]
    BY <1>1, <1>t, <2>2 DEF Hit
  <2> QED BY <1>t, <1>m, <2>1, <2>3, MoveTypes DEF Underway
<1>2. CASE Miss(a)
  BY <1>2, <1>t, <1>m, MoveTypes DEF Miss, networkVars, Underway
<1>3. CASE StartSearch(a)
  <2>1. Goes(a, "search", "settle") /\ UNCHANGED <<got, cache, owed, changed>>
    BY <1>3 DEF StartSearch
  <2>2. a[1] \in Threads /\ query[a[1]] \in Queries
    BY <2>1, <1>n, TaskOfRequest DEF Underway
  <2>3. core' \in [by : Threads \cup {None}, q : Queries \cup {None},
                   phase : {"warm", "running", "done"}, new : BOOLEAN]
    BY <1>3, <1>t, <2>2 DEF StartSearch
  <2> QED BY <1>t, <1>m, <2>1, <2>3, MoveTypes DEF Underway
<1>4. CASE Settle(a) \/ EndPolling(a)
  BY <1>4, <1>t, <1>m, MoveTypes DEF Settle, EndPolling, networkVars, Underway
<1>5. CASE Fetch(a)
  <2> DEFINE early == core.phase = "warm"
  <2> DEFINE list == [q       |-> IF early THEN None ELSE core.q,
                      kind    |-> IF early THEN "early" ELSE "found",
                      crossed |-> core.by # a[1],
                      new     |-> core.new]
  <2>1. list \in Results
    BY <1>t DEF Results
  <2>2. got' \in [Tasks -> Results]
    <3>1. got' = [got EXCEPT ![a] = list]
      BY <1>5 DEF Fetch
    <3> HIDE DEF list
    <3> QED BY <1>t, <2>1, <3>1
  <2> QED BY <1>5, <1>t, <1>m, <2>2, MoveTypes DEF Fetch, networkVars, Underway
<1>6. CASE SearchSession(a)
  <2>1. Goes(a, "search", "store") /\ UNCHANGED <<cache, core, changed>>
    BY <1>6 DEF SearchSession
  <2>2. query[a[1]] \in Queries
    BY <2>1, <1>n, TaskOfRequest DEF Underway
  <2>3. /\ Filtered(a, "found", changed) \in Results
        /\ Filtered(a, "late", owed.new) \in Results
    BY <1>t, <2>2 DEF Filtered, Results
  <2>7. got' \in [Tasks -> Results]
    <3>1. \E list \in {Filtered(a, "found", changed), Empty, Filtered(a, "late", owed.new)} :
              got' = [got EXCEPT ![a] = list]
      BY <1>6 DEF SearchSession
    <3> QED BY <1>t, <1>e, <2>3, <3>1
  <2>8. owed' \in [q : Queries \cup {None}, new : BOOLEAN]
    BY <1>6, <2>1, <1>n, OwesTypes DEF SearchSession, Underway
  <2> QED BY <1>t, <1>m, <2>1, <2>7, <2>8, MoveTypes DEF Underway
<1>7. CASE Store(a)
  <2>1. Goes(a, "store", "done") /\ UNCHANGED <<got, core, owed, changed>>
    BY <1>7 DEF Store, networkVars
  <2>2. [result |-> got[a], age |-> 0] \in [result : Results, age : 0 .. TTL + 1]
    BY <1>t, TTLAssumption
  <2>3. cache' \in [Keys -> [result : Results, age : 0 .. TTL + 1]]
    BY <1>7, <1>t, <2>2 DEF Store
  <2> QED BY <1>t, <1>m, <2>1, <2>3, MoveTypes DEF Underway
<1> QED BY <1>1, <1>2, <1>3, <1>4, <1>5, <1>6, <1>7 DEF Proceed

(* Every step keeps the invariant. *)
LEMMA StepInvariant == IInv /\ [Next]_vars => IInv'
<1> SUFFICES ASSUME IInv, [Next]_vars PROVE IInv'
  OBVIOUS
<1>f. Failed \in Results
  BY DEF Failed, Results
<1>1. CASE UNCHANGED vars
  BY <1>1 DEF vars, requestVars, taskVars, networkVars, IInv, TypeOK, RequestInv
<1>2. ASSUME NEW t \in Threads, NEW route \in Endpoints, NEW q \in Queries, Arrive(t, route, q)
      PROVE  IInv'
  <2>1. /\ route \in Engines \cup {"all"} /\ route # None
        /\ endpoint[t] = None /\ endpoint' = [endpoint EXCEPT ![t] = route]
        /\ query' = [query EXCEPT ![t] = q] /\ reply' = [reply EXCEPT ![t] = "none"]
        /\ UNCHANGED <<got, cache, core, owed, changed>>
    BY <1>2, EndpointsAssumption, NoneAssumption DEF Arrive, networkVars
  <2>2. stage' = [a \in Tasks |->
                     IF a[1] = t /\ route \in {a[2], "all"} THEN "lookup" ELSE stage[a]]
    BY <1>2 DEF Arrive
  <2>3. stage' \in [Tasks -> {"off", "lookup", "search", "settle", "poll", "fetch",
                              "store", "done", "raised"}]
    BY <2>2 DEF IInv, TypeOK
  <2>4. ASSUME NEW a \in Tasks PROVE stage'[a] # "off" <=> endpoint'[a[1]] \in {a[2], "all"}
    <3>1. a[1] \in Threads /\ a[2] \in Engines
      BY DEF Tasks
    <3>2. CASE a[1] = t
      <4>1. stage[a] = "off" /\ endpoint'[a[1]] = route
        BY <2>1, <3>1, <3>2, NoneAssumption DEF IInv, TypeOK
      <4> QED BY <2>2, <3>2, <4>1
    <3>3. CASE a[1] # t
      BY <2>1, <2>2, <3>1, <3>3 DEF IInv, TypeOK
    <3> QED BY <3>2, <3>3
  <2>5. RequestInv'
    BY <2>1 DEF IInv, TypeOK, RequestInv
  <2>6. TypeOK'
    BY <2>1, <2>3, <2>4 DEF IInv, TypeOK
  <2> QED BY <2>5, <2>6 DEF IInv
<1>3. ASSUME NEW a \in Tasks, Proceed(a) PROVE IInv'
  BY <1>3, ProceedTypes
<1>4. ASSUME NEW a \in Tasks, CaughtError(a) \/ EscapingError(a) PROVE IInv'
  <2>1. PICK from \in Underway, to \in Underway \cup {"done", "raised"} : Goes(a, from, to)
    BY <1>4 DEF CaughtError, EscapingError, Underway
  <2>2. got' \in [Tasks -> Results] /\ UNCHANGED <<cache, core, changed>>
    BY <1>4, <1>f DEF CaughtError, EscapingError, IInv, TypeOK
  <2>3. owed' \in [q : Queries \cup {None}, new : BOOLEAN]
    <3>1. stage[a] # "off"
      BY <2>1 DEF Goes, Underway
    <3>2. Owes(a) \/ UNCHANGED owed
      BY <1>4, Zenon DEF CaughtError, EscapingError
    <3> QED BY <3>1, <3>2, OwesTypes DEF IInv, TypeOK
  <2> QED BY <2>1, <2>2, <2>3, MoveTypes DEF Moves, IInv, TypeOK
<1>5. ASSUME NEW t \in Threads, Answer(t) PROVE IInv'
  <2>1. /\ endpoint' = [endpoint EXCEPT ![t] = None]
        /\ query' = [query EXCEPT ![t] = None]
        /\ stage' = [a \in Tasks |-> IF a[1] = t THEN "off" ELSE stage[a]]
        /\ got' = [a \in Tasks |-> IF a[1] = t THEN Failed ELSE got[a]]
        /\ UNCHANGED <<cache, core, owed, changed>>
    BY <1>5 DEF Answer, Clear, networkVars
  <2>2. /\ reply' \in [Threads -> {"none", "feed", "error"}]
        /\ \A u \in Threads \ {t} : reply'[u] = reply[u]
    <3>1. PICK r \in {"feed", "error"} : reply' = [reply EXCEPT ![t] = r]
      BY <1>5 DEF Answer
    <3> QED BY <3>1 DEF IInv, TypeOK
  <2>3. got' \in [Tasks -> Results]
    BY <1>f, <2>1 DEF IInv, TypeOK
  <2>4. ASSUME NEW a \in Tasks PROVE stage'[a] # "off" <=> endpoint'[a[1]] \in {a[2], "all"}
    <3>1. a[1] \in Threads /\ a[2] \in Engines
      BY DEF Tasks
    <3> QED BY <2>1, <3>1, NoneAssumption DEF IInv, TypeOK
  <2>5. RequestInv'
    BY <2>1, <2>2 DEF IInv, TypeOK, RequestInv
  <2>6. TypeOK'
    BY <2>1, <2>2, <2>3, <2>4 DEF IInv, TypeOK
  <2> QED BY <2>5, <2>6 DEF IInv
<1>6. CASE CoreBegins \/ CoreFinishes
  <2>1. PICK phase \in {"running", "done"} : core' = [core EXCEPT !.phase = phase]
    BY <1>6 DEF CoreBegins, CoreFinishes
  <2>2. core' \in [by : Threads \cup {None}, q : Queries \cup {None},
                   phase : {"warm", "running", "done"}, new : BOOLEAN]
    BY <2>1 DEF IInv, TypeOK
  <2>3. UNCHANGED <<endpoint, query, reply, stage, got, cache, owed, changed>>
    BY <1>6 DEF CoreBegins, CoreFinishes, requestVars, taskVars
  <2> QED BY <2>2, <2>3 DEF IInv, TypeOK, RequestInv
<1>7. CASE Restart
  <2>1. \A a \in Tasks : endpoint'[a[1]] \notin {a[2], "all"}
    BY <1>7, NoneAssumption DEF Restart, Tasks
  <2>2. owed' \in [q : Queries \cup {None}, new : BOOLEAN]
    BY <1>7 DEF Restart, NoDebt
  <2>3. UNCHANGED <<cache, core, changed>>
    BY <1>7 DEF Restart
  <2>4. /\ endpoint' = [t \in Threads |-> None] /\ query' = [t \in Threads |-> None]
        /\ reply' = [t \in Threads |-> "none"]
        /\ stage' = [a \in Tasks |-> "off"] /\ got' = [a \in Tasks |-> Failed]
    BY <1>7 DEF Restart
  <2>5. TypeOK'
    BY <1>f, <2>1, <2>2, <2>3, <2>4 DEF IInv, TypeOK
  <2> QED BY <2>4, <2>5 DEF IInv, RequestInv
<1>8. CASE Tick
  <2>1. Missing \in [result : Results, age : 0 .. TTL + 1]
    BY <1>f, TTLAssumption DEF Missing
  <2>2. ASSUME NEW key \in Keys, cache[key].age < TTL
        PROVE  [cache[key] EXCEPT !.age = @ + 1] \in [result : Results, age : 0 .. TTL + 1]
    BY <2>2, TTLAssumption DEF IInv, TypeOK
  <2>3. cache' \in [Keys -> [result : Results, age : 0 .. TTL + 1]]
    BY <1>8, <2>1, <2>2 DEF Tick
  <2>4. UNCHANGED <<endpoint, query, reply, stage, got, core, owed, changed>>
    BY <1>8 DEF Tick, requestVars, taskVars, networkVars
  <2> QED BY <2>3, <2>4 DEF IInv, TypeOK, RequestInv
<1>9. CASE NetworkChanges
  BY <1>9 DEF NetworkChanges, requestVars, taskVars, IInv, TypeOK, RequestInv
<1> QED BY <1>1, <1>2, <1>3, <1>4, <1>5, <1>6, <1>7, <1>8, <1>9 DEF Next

(* The types, and the calls that belong to each request, in every state. *)
THEOREM Types == Spec => []TypeOK
<1>1. IInv => TypeOK
  BY DEF IInv
<1> QED BY <1>1, InitInvariant, StepInvariant, PTL DEF Spec

(* The "all" endpoint answers with a feed, whatever its engines did, and   *)
(* only when each of the engines that are active is through.               *)
THEOREM AllAnswers == Spec => AllAnswersWithEveryEngine
<1> DEFINE A == \A t \in Threads : endpoint[t] = "all" /\ reply'[t] # reply[t] =>
                    /\ reply'[t] = "feed"
                    /\ \A e \in Engines : stage[<<t, e>>] \in {"done", "raised"}
<1>1. IInv /\ [Next]_vars => [A]_<<reply>>
  <2> SUFFICES ASSUME IInv, Next, NEW t \in Threads, endpoint[t] = "all", reply'[t] # reply[t]
               PROVE  /\ reply'[t] = "feed"
                      /\ \A e \in Engines : stage[<<t, e>>] \in {"done", "raised"}
    BY DEF vars, requestVars
  <2>n. endpoint[t] # None /\ reply[t] = "none"
    BY NoneAssumption DEF IInv, RequestInv
  <2>1. ASSUME NEW u \in Threads, NEW route \in Endpoints, NEW q \in Queries, Arrive(u, route, q)
        PROVE  FALSE
    BY <2>1, <2>n DEF Arrive, IInv, TypeOK
  <2>2. ASSUME NEW a \in Tasks, Proceed(a) \/ CaughtError(a) \/ EscapingError(a)
        PROVE  FALSE
    BY <2>2 DEF Proceed, CaughtError, EscapingError, Hit, Miss, StartSearch, Settle, EndPolling,
       Fetch, SearchSession, Store, Goes, requestVars
  <2>3. ASSUME NEW u \in Threads, Answer(u)
        PROVE  /\ reply'[t] = "feed"
               /\ \A e \in Engines : stage[<<t, e>>] \in {"done", "raised"}
    <3>1. u = t
      BY <2>3 DEF Answer, IInv, TypeOK
    <3>2. reply'[t] = "feed"
      BY <2>3, <3>1 DEF Answer, IInv, TypeOK
    <3>3. Called(t) = Engines
      BY DEF Called, Tasks, IInv, TypeOK
    <3> QED BY <2>3, <3>1, <3>2, <3>3 DEF Answer
  <2>4. CASE CoreBegins \/ CoreFinishes \/ Tick \/ NetworkChanges
    BY <2>4 DEF CoreBegins, CoreFinishes, Tick, NetworkChanges, requestVars
  <2>5. CASE Restart
    BY <2>n, <2>5 DEF Restart
  <2> QED BY <2>1, <2>2, <2>3, <2>4, <2>5 DEF Next
<1> QED
  BY <1>1, InitInvariant, StepInvariant, PTL DEF Spec, AllAnswersWithEveryEngine
-----------------------------------------------------------------------------
InCore == {"settle", "poll", "fetch"}

\* Only searches of aMule wait for its core.
CoreInv == \A a \in Tasks : stage[a] \in InCore => a[2] = "amule"

\* While the core's current search is still the one a request started, it is for its
\* query, and it is past its first moments once the request has waited for that.
CurrentInv ==
    \A a \in Tasks : stage[a] \in InCore /\ core.by = a[1] =>
        /\ core.q = query[a[1]]
        /\ stage[a] \in {"poll", "fetch"} => core.phase # "warm"

\* The lists that wait to be stored, and those in the cache, are as they should be.
ListsInv ==
    /\ \A a \in Tasks : stage[a] = "store" => OwnOrCrossed(got[a], KeyOf(a))
    /\ \A key \in Keys : cache[key].age <= TTL => OwnOrCrossed(cache[key].result, key)

(* The lists are good at first: there are none. *)
LEMMA InitLists == Init => CoreInv /\ CurrentInv /\ ListsInv
<1> SUFFICES ASSUME Init PROVE CoreInv /\ CurrentInv /\ ListsInv
  OBVIOUS
<1>1. \A key \in Keys : cache[key].age = TTL + 1
  BY DEF Init, Missing
<1> QED
  BY <1>1, TTLAssumption DEF Init, CoreInv, CurrentInv, ListsInv, InCore

(* What a step does to the other tasks: those in progress keep their query *)
(* and their list.                                                         *)
LEMMA StagesMove ==
    ASSUME IInv, Next, NEW b \in Tasks, stage'[b] \in InCore \cup {"store"}
    PROVE  /\ query'[b[1]] = query[b[1]] /\ stage[b] # "off"
           /\ \/ stage'[b] = stage[b] /\ got'[b] = got[b]
              \/ Proceed(b)
<1>b. b[1] \in Threads
  BY DEF Tasks
<1> USE DEF InCore
<1>1. ASSUME NEW t \in Threads, NEW route \in Endpoints, NEW q \in Queries, Arrive(t, route, q)
      PROVE  query'[b[1]] = query[b[1]] /\ stage'[b] = stage[b] /\ got'[b] = got[b]
  <2>1. stage'[b] = IF b[1] = t /\ route \in {b[2], "all"} THEN "lookup" ELSE stage[b]
    BY <1>1 DEF Arrive
  <2>2. stage'[b] = stage[b] /\ endpoint[b[1]] # None
    BY <2>1, <1>b, NoneAssumption DEF IInv, TypeOK, Tasks
  <2>3. b[1] # t
    BY <1>1, <2>2 DEF Arrive
  <2> QED BY <1>1, <1>b, <2>2, <2>3 DEF Arrive, IInv, TypeOK
<1>2. ASSUME NEW a \in Tasks, Proceed(a), a # b
      PROVE  query'[b[1]] = query[b[1]] /\ stage'[b] = stage[b] /\ got'[b] = got[b]
  <2>1. UNCHANGED query /\ stage'[b] = stage[b]
    BY <1>2 DEF Proceed, Hit, Miss, StartSearch, Settle, EndPolling, Fetch, SearchSession,
       Store, Goes, requestVars, IInv, TypeOK
  <2>2. got'[b] = got[b]
    BY <1>2 DEF Proceed, Hit, Miss, StartSearch, Settle, EndPolling, Fetch, SearchSession,
       Store, IInv, TypeOK
  <2> QED BY <2>1, <2>2
<1>3. ASSUME NEW a \in Tasks, CaughtError(a) \/ EscapingError(a)
      PROVE  query'[b[1]] = query[b[1]] /\ stage'[b] = stage[b] /\ got'[b] = got[b]
  BY <1>3 DEF CaughtError, EscapingError, Goes, requestVars, IInv, TypeOK
<1>4. ASSUME NEW t \in Threads, Answer(t)
      PROVE  query'[b[1]] = query[b[1]] /\ stage'[b] = stage[b] /\ got'[b] = got[b]
  BY <1>4, <1>b DEF Answer, Clear, IInv, TypeOK
<1>5. CASE CoreBegins \/ CoreFinishes \/ Tick \/ NetworkChanges
  BY <1>5 DEF CoreBegins, CoreFinishes, Tick, NetworkChanges, requestVars, taskVars
<1>6. CASE Restart
  BY <1>6 DEF Restart
<1>7. CASE Proceed(b)
  BY <1>7 DEF Proceed, Hit, Miss, StartSearch, Settle, EndPolling, Fetch, SearchSession, Store,
     Goes, requestVars
<1>8. stage'[b] = stage[b] => stage[b] # "off"
  OBVIOUS
<1> QED BY <1>1, <1>2, <1>3, <1>4, <1>5, <1>6, <1>7, <1>8 DEF Next

(* Only searches of aMule come to wait for its core. *)
LEMMA StepCore == ASSUME IInv, CoreInv, Next PROVE CoreInv'
<1> SUFFICES ASSUME NEW b \in Tasks, stage'[b] \in InCore PROVE b[2] = "amule"
  BY DEF CoreInv
<1>1. CASE stage'[b] = stage[b]
  BY <1>1 DEF CoreInv
<1>2. CASE Proceed(b)
  BY <1>2 DEF CoreInv, InCore, Proceed, Hit, Miss, StartSearch, Settle, EndPolling, Fetch,
     SearchSession, Store, Goes, IInv, TypeOK
<1> QED BY <1>1, <1>2, StagesMove

(* The core's current search stays that of whoever started it last. *)
LEMMA StepCurrent == ASSUME IInv, CoreInv, CurrentInv, Next PROVE CurrentInv'
<1> SUFFICES ASSUME NEW b \in Tasks, stage'[b] \in InCore, core'.by = b[1]
             PROVE  /\ core'.q = query'[b[1]]
                    /\ stage'[b] \in {"poll", "fetch"} => core'.phase # "warm"
  BY DEF CurrentInv
<1>b. b[1] \in Threads /\ b = <<b[1], b[2]>>
  BY DEF Tasks
<1>1. /\ query'[b[1]] = query[b[1]]
      /\ stage'[b] = stage[b] \/ Proceed(b)
  BY StagesMove
<1>2. ASSUME NEW a \in Tasks, StartSearch(a)
      PROVE  core'.q = query'[b[1]] /\ stage'[b] = "settle"
  <2>1. /\ a = <<a[1], a[2]>> /\ a[2] = "amule"
        /\ core'.by = a[1] /\ core'.q = query[a[1]]
        /\ stage'[a] = "settle"
    BY <1>2 DEF StartSearch, Goes, IInv, TypeOK, Tasks
  <2>2. b[2] = "amule"
    BY StepCore DEF CoreInv
  <2>3. b = a
    BY <2>1, <2>2, <1>b
  <2> QED BY <1>1, <2>1, <2>3
<1>3. CASE Settle(b)
  <2>1. /\ stage[b] = "settle" /\ UNCHANGED core
        /\ core.by = b[1] => core.phase # "warm"
    BY <1>3 DEF Settle, Goes, networkVars
  <2> QED BY <1>1, <2>1 DEF CurrentInv, InCore
<1>4. CASE ~Settle(b) /\ ~\E a \in Tasks : StartSearch(a)
  <2>1. /\ core'.q = core.q /\ core'.by = core.by
        /\ core'.phase = core.phase \/ core'.phase \in {"running", "done"}
    BY <1>4 DEF Next, Arrive, Proceed, Hit, Miss, Settle, EndPolling, Fetch, SearchSession, Store,
       CaughtError, EscapingError, Answer, CoreBegins, CoreFinishes, Restart, Tick,
       NetworkChanges, networkVars, IInv, TypeOK
  <2>2. /\ stage[b] \in InCore
        /\ stage'[b] \in {"poll", "fetch"} => stage[b] \in {"poll", "fetch"}
    BY <1>1, <1>4 DEF Proceed, Hit, Miss, EndPolling, Fetch, SearchSession, Store, Goes,
       InCore, IInv, TypeOK
  <2> QED BY <1>1, <2>1, <2>2 DEF CurrentInv
<1> QED BY <1>2, <1>3, <1>4

(* What a search leaves to be stored is its own, or crossed; and so is what *)
(* is in the cache.                                                         *)
LEMMA StepLists == ASSUME IInv, CoreInv, CurrentInv, ListsInv, Next PROVE ListsInv'
<1>1. ASSUME NEW b \in Tasks, stage'[b] = "store"
      PROVE  OwnOrCrossed(got'[b], KeyOf(b)')
  <2>1. query'[b[1]] = query[b[1]] /\ stage[b] # "off"
    BY <1>1, StagesMove
  <2>k. KeyOf(b)' = KeyOf(b) /\ KeyOf(b)[1] = b[2] /\ KeyOf(b)[2] = query[b[1]]
    BY <2>1 DEF KeyOf
  <2>2. CASE stage'[b] = stage[b] /\ got'[b] = got[b]
    BY <1>1, <2>k, <2>2 DEF ListsInv
  <2>3. CASE Proceed(b)
    <3>1. Fetch(b) \/ SearchSession(b)
      BY <1>1, <2>3 DEF Proceed, Hit, Miss, StartSearch, Settle, EndPolling, Store, Goes,
         IInv, TypeOK
    <3>2. CASE Fetch(b)
      <4>1. stage[b] = "fetch" /\ b[2] = "amule"
        BY <3>2 DEF Fetch, Goes, InCore, CoreInv
      <4>2. core.by = b[1] => core.q = query[b[1]] /\ core.phase # "warm"
        BY <4>1 DEF CurrentInv, InCore
      <4>3. /\ got'[b].crossed = (core.by # b[1])
            /\ got'[b].kind = IF core.phase = "warm" THEN "early" ELSE "found"
            /\ core.phase # "warm" => got'[b].q = core.q
        BY <3>2 DEF Fetch, IInv, TypeOK
      <4> QED BY <2>k, <4>1, <4>2, <4>3 DEF OwnOrCrossed
    <3>3. CASE SearchSession(b)
      <4>1. \E list \in {Filtered(b, "found", changed), Empty, Filtered(b, "late", owed.new)} :
                got' = [got EXCEPT ![b] = list]
        BY <3>3 DEF SearchSession
      <4>2. /\ got'[b].kind \in {"found", "late", "empty"} /\ got'[b].crossed = FALSE
            /\ got'[b].kind # "empty" => got'[b].q = query[b[1]]
        BY <4>1 DEF Filtered, Empty, IInv, TypeOK
      <4> QED BY <2>k, <4>2 DEF OwnOrCrossed
    <3> QED BY <3>1, <3>2, <3>3
  <2> QED BY <1>1, <2>2, <2>3, StagesMove
<1>2. ASSUME NEW key \in Keys, cache'[key].age <= TTL
      PROVE  OwnOrCrossed(cache'[key].result, key)
  <2>1. CASE UNCHANGED cache
    BY <1>2, <2>1 DEF ListsInv
  <2>2. CASE Tick
    <3>1. cache'[key] = IF cache[key].age < TTL THEN [cache[key] EXCEPT !.age = @ + 1]
                                                ELSE Missing
      BY <2>2 DEF Tick
    <3>2. cache[key].age < TTL
      BY <1>2, <3>1, TTLAssumption DEF Missing
    <3>3. cache'[key].result = cache[key].result /\ cache[key].age <= TTL
      BY <3>1, <3>2, TTLAssumption DEF IInv, TypeOK
    <3> QED BY <1>2, <3>3 DEF ListsInv
  <2>3. ASSUME NEW a \in Tasks, Store(a) PROVE OwnOrCrossed(cache'[key].result, key)
    <3>1. stage[a] = "store"
      BY <2>3 DEF Store, Goes
    <3>2. KeyOf(a) \in Keys
      BY <3>1, TaskOfRequest
    <3>3. CASE key = KeyOf(a) /\ TTL # 0
      <4>1. cache'[key].result = got[a]
        BY <2>3, <3>2, <3>3 DEF Store, IInv, TypeOK
      <4> QED BY <3>1, <3>3, <4>1 DEF ListsInv
    <3>4. CASE key # KeyOf(a) \/ TTL = 0
      <4>1. cache'[key] = cache[key]
        BY <2>3, <3>4 DEF Store, IInv, TypeOK
      <4> QED BY <1>2, <4>1 DEF ListsInv
    <3> QED BY <3>3, <3>4
  <2>4. UNCHANGED cache \/ Tick \/ \E a \in Tasks : Store(a)
    BY DEF Next, Arrive, Proceed, Hit, Miss, StartSearch, Settle, EndPolling, Fetch, SearchSession,
       CaughtError, EscapingError, Answer, CoreBegins, CoreFinishes, Restart,
       NetworkChanges
  <2> QED BY <2>1, <2>2, <2>3, <2>4
<1> QED BY <1>1, <1>2 DEF ListsInv

(* Every list in the cache was collected for its engine and query, and no  *)
(* sooner than the search had begun, unless another thread started a search *)
(* in aMule meanwhile: for any number of threads, however requests, errors, *)
(* late answers and restarts interleave.                                   *)
THEOREM ListsAreOwnOrCrossed == Spec => []OwnUnlessCrossed
<1> DEFINE Inv == IInv /\ CoreInv /\ CurrentInv /\ ListsInv
<1>1. Init => Inv
  BY InitInvariant, InitLists
<1>2. Inv /\ [Next]_vars => Inv'
  <2>1. CASE UNCHANGED vars
    <3>1. IInv => IInv'
      BY <2>1, StepInvariant
    <3>2. CoreInv /\ CurrentInv /\ ListsInv => (CoreInv /\ CurrentInv /\ ListsInv)'
      BY <2>1 DEF vars, requestVars, taskVars, networkVars, CoreInv, CurrentInv, ListsInv, KeyOf
    <3> QED BY <3>1, <3>2
  <2>2. CASE Next
    BY <2>2, StepInvariant, StepCore, StepCurrent, StepLists
  <2> QED BY <2>1, <2>2
<1>3. Inv => OwnUnlessCrossed
  BY DEF ListsInv, OwnUnlessCrossed, Served
<1> QED BY <1>1, <1>2, <1>3, PTL DEF Spec

\* The cache serves no error, for any engine.
NoErrorIsServed == \A key \in Keys : Served(key) => cache[key].result.kind # "failed"

(* "They are not cached, so the next request retries" (base.py, 100-101):  *)
(* however requests, errors and restarts interleave, no failed search is   *)
(* served from the cache.                                                  *)
THEOREM ErrorsAreNotCached == Spec => []NoErrorIsServed
<1>1. OwnUnlessCrossed => NoErrorIsServed
  BY DEF OwnUnlessCrossed, OwnOrCrossed, NoErrorIsServed
<1> QED BY <1>1, ListsAreOwnOrCrossed, PTL
=============================================================================
